---------------------------- MODULE Media_proofs ----------------------------
(***************************************************************************)
(* Proofs about the media of the MT11 and of SupportProxy.                 *)
(*                                                                         *)
(* The SupportProxy video publisher (SupportVideo), for every queue limit, *)
(* every set of access-unit lengths and every number of pushes.            *)
(*                                                                         *)
(* The MT11's media structure (Mt11Media): between commands, and whichever *)
(* one of a command's vendor calls failed, what it notes is what the       *)
(* camera does.  A command is a program that is expanded while it runs, so *)
(* no formula names all of its states.  Instead Good(k, p, f, x) says that *)
(* program p, begun in world x, ends well whichever of its calls fails (f: *)
(* one did): it is the greatest relation closed under the steps of a       *)
(* program.  Each macro of the source gets a lemma that carries Good from  *)
(* the program after it back to the program that begins with it, its error *)
(* paths included; each command then is good where the one before ended.   *)
(* That the running program is good, with the files, the gain and its      *)
(* monitor beside it, is the inductive invariant MediaInv.                 *)
(***************************************************************************)
EXTENDS SupportVideo, Mt11Media, SequenceTheorems, WellFoundedInduction, TLAPS

-----------------------------------------------------------------------------
(* The SupportProxy video publisher (SupportVideo). *)

LEMMA InitIInv == Init => IInv
PROOF
  <1> SUFFICES ASSUME Init PROVE IInv
    OBVIOUS
  <1> USE DEF Init
  <1>a. wait_key \in BOOLEAN /\ stop \in BOOLEAN
    BY Zenon
  <1>1. TypeOK
    BY <1>a DEF TypeOK, PublisherPC
  <1>2. WorkerShape /\ HeldFollows /\ Taken = 0
    BY DEF WorkerShape, HeldFollows, Working, Taken
  <1>3. QueueChained /\ HeadFollows /\ TailCurrent
    BY <1>2 DEF QueueChained, HeadFollows, TailCurrent
  <1> QED
    BY <1>1, <1>2, <1>3 DEF IInv

\* What IInv says of the worker's frame and of the queue's elements.
LEMMA Shape ==
    ASSUME IInv
    PROVE  /\ pc \in Working => /\ held[1] \in Frame
                                /\ held[1].id \in Nat \ {0}
                                /\ Len(held) = 1
           /\ pc \notin Working => held = <<>>
           /\ Taken \in Nat /\ Taken <= pushed
           /\ \A i \in 1 .. Len(queue) : /\ queue[i] \in Frame
                                         /\ queue[i].id \in Nat \ {0}
                                         /\ queue[i].id <= pushed
           /\ Len(queue) \in Nat
           /\ queue # <<>> => Len(queue) > 0
           /\ pushed \in Nat /\ sent \in Nat
PROOF
  <1>1. TypeOK /\ WorkerShape /\ TailCurrent
    BY DEF IInv
  <1>2. pc \in Working => Len(held) = 1 /\ held[1] \in Frame
    <2>1. held \in Seq(Frame)
      BY <1>1 DEF TypeOK
    <2>2. pc \in Working => Len(held) = 1
      BY <1>1, Zenon DEF WorkerShape
    <2> QED
      BY <2>1, <2>2
  <1>3. \A g \in Frame : g.id \in Nat \ {0}
    BY DEF Frame
  <1>4. Taken \in Nat
    BY <1>1, <1>2, <1>3 DEF Taken, TypeOK
  <1> QED
    BY <1>1, <1>2, <1>3, <1>4 DEF TypeOK, WorkerShape, TailCurrent

\* A step that leaves the queue alone and either keeps what was taken or
\* gives the connection up.
LEMMA KeepQueue ==
    ASSUME IInv, UNCHANGED <<queue, pushed, wait_key>>,
           \/ Taken' = Taken /\ (pc \in {"clear", "done"} => pc' \in {"clear", "done"})
           \/ Taken' = 0 /\ pc' \in {"clear", "done"}
    PROVE  QueueChained' /\ HeadFollows' /\ TailCurrent'
PROOF
  <1>1. QueueChained'
    BY DEF IInv, QueueChained, Follows
  <1>2. HeadFollows'
    BY Shape DEF IInv, HeadFollows, Follows
  <1>3. TailCurrent'
    BY Shape DEF IInv, TailCurrent
  <1> QED
    BY <1>1, <1>2, <1>3

\* A step that empties the queue.
LEMMA EmptyQueue ==
    ASSUME IInv, queue' = <<>>, wait_key' = TRUE, Taken' = Taken,
           pushed' \in {pushed, pushed + 1}
    PROVE  QueueChained' /\ HeadFollows' /\ TailCurrent'
PROOF
  <1>1. QueueChained' /\ HeadFollows'
    BY DEF QueueChained, HeadFollows
  <1>2. TailCurrent'
    BY Shape DEF TailCurrent
  <1> QED
    BY <1>1, <1>2

\* A step of the encoder or of the closer does not touch the worker's frame.
LEMMA KeepWorker ==
    ASSUME IInv, UNCHANGED <<held, fd, sent>>,
           pc' = pc \/ (pc = "waiting" /\ pc' = "dequeue")
    PROVE  Taken' = Taken /\ WorkerShape' /\ HeldFollows'
PROOF
  <1>1. WorkerShape /\ HeldFollows
    BY DEF IInv
  <1>2. (pc \in Working) = (pc' \in Working)
    BY DEF Working
  <1>3. Taken' = Taken
    BY <1>2 DEF Taken
  <1>4. WorkerShape'
    BY <1>1, <1>2 DEF WorkerShape
  <1>5. HeldFollows'
    BY <1>1, <1>2 DEF HeldFollows, Follows
  <1> QED
    BY <1>3, <1>4, <1>5

\* Appending the next access unit, allowed by wait_key, keeps the chain.
LEMMA PushAppendStep ==
    ASSUME IInv, NEW key \in BOOLEAN, NEW length \in Lengths,
           PushAppend(key, length)
    PROVE  IInv'
PROOF
  <1> DEFINE f == [id |-> pushed + 1, key |-> key, length |-> length]
  <1> USE SupportVideoAssumption
  <1>1. f \in Frame
    BY DEF Frame, IInv, TypeOK
  <1>2. /\ queue' = Append(queue, f)
        /\ Len(queue') = Len(queue) + 1
        /\ \A i \in 1 .. Len(queue) : queue'[i] = queue[i]
        /\ queue'[Len(queue) + 1] = f
        /\ queue' \in Seq(Frame)
        /\ queue' # <<>>
    BY <1>1 DEF PushAppend, IInv, TypeOK
  <1>a. wait_key' \in BOOLEAN
    BY Zenon DEF PushAppend
  <1>3. TypeOK'
    BY <1>a, <1>1, <1>2 DEF IInv, TypeOK, PushAppend, Offer, Signal, PublisherPC
  <1>4. Taken' = Taken /\ WorkerShape' /\ HeldFollows'
    BY KeepWorker DEF PushAppend, Offer, Signal
  <1>5. QueueChained'
    <2> SUFFICES ASSUME NEW i \in 1 .. Len(queue)
                 PROVE  Follows(queue'[i + 1], queue'[i].id)
      BY <1>2 DEF QueueChained, Follows
    <2>1. CASE i < Len(queue)
      BY <1>2, <2>1 DEF IInv, TypeOK, QueueChained
    <2>2. CASE i = Len(queue)
      <3>1. queue # <<>> /\ queue[i].id = pushed /\ pushed > 0 /\ pushed \in Nat
        BY <2>2, Shape DEF IInv, TypeOK, TailCurrent
      <3>2. ~wait_key
        BY <3>1 DEF IInv
      <3> QED
        BY <1>2, <2>2, <3>1, <3>2 DEF Follows
    <2> QED
      BY <2>1, <2>2 DEF IInv, TypeOK
  <1>6. HeadFollows'
    <2>1. CASE queue = <<>>
      <3>1. queue'[1] = f
        BY <1>2, <2>1
      <3>2. Taken \in Nat /\ pushed \in Nat /\ Taken <= pushed
        BY Shape
      <3>3. pc' \notin {"clear", "done"} => pc \notin {"clear", "done"}
        BY DEF PushAppend, Signal
      <3>4. pc' \notin {"clear", "done"} => key \/ (Taken = pushed /\ pushed > 0)
        BY <2>1, <3>3 DEF IInv, TailCurrent, PushAppend
      <3> QED
        BY <1>4, <3>1, <3>2, <3>4 DEF HeadFollows, Follows
    <2>2. CASE queue # <<>>
      BY <1>2, <1>4, <2>2 DEF IInv, TypeOK, HeadFollows, Follows, PushAppend, Signal
    <2> QED
      BY <2>1, <2>2
  <1>7. TailCurrent'
    <2>1. Taken <= pushed /\ pushed \in Nat /\ pushed' = pushed + 1 /\ Taken \in Nat
      BY Shape DEF PushAppend, Offer
    <2>2. \A i \in 1 .. Len(queue') : queue'[i].id <= pushed'
      <3> SUFFICES ASSUME NEW i \in 1 .. Len(queue')
                   PROVE  queue'[i].id <= pushed'
        OBVIOUS
      <3>1. CASE i \in 1 .. Len(queue)
        <4>1. queue[i].id <= pushed /\ queue[i] \in Frame
          BY <3>1 DEF IInv, TypeOK, TailCurrent
        <4> QED
          BY <1>2, <2>1, <3>1, <4>1 DEF Frame
      <3>2. CASE i = Len(queue) + 1
        BY <1>2, <2>1, <3>2
      <3> QED
        BY <1>2, <3>1, <3>2 DEF IInv, TypeOK
    <2> QED
      BY <1>2, <1>4, <2>1, <2>2 DEF TailCurrent
  <1>8. /\ (stop <=> closer # "open")'
        /\ (pc = "done" => stop)'
        /\ (wait_key => queue = <<>>)'
        /\ (queued_frames = Len(queue))'
    BY DEF IInv, PushAppend, Offer, Signal
  <1> QED
    BY <1>3, <1>4, <1>5, <1>6, <1>7, <1>8 DEF IInv

\* An overflow at a keyframe leaves just that keyframe in the queue.
LEMMA PushRestartStep ==
    ASSUME IInv, NEW key \in BOOLEAN, NEW length \in Lengths,
           PushRestart(key, length)
    PROVE  IInv'
PROOF
  <1> DEFINE f == [id |-> pushed + 1, key |-> key, length |-> length]
  <1> USE SupportVideoAssumption
  <1>1. f \in Frame
    BY DEF Frame, IInv, TypeOK
  <1>2. /\ queue' = <<f>> /\ Len(queue') = 1 /\ queue'[1] = f
        /\ queue' \in Seq(Frame) /\ queue' # <<>>
    BY <1>1 DEF PushRestart
  <1>a. wait_key' \in BOOLEAN /\ key = TRUE
    BY Zenon DEF PushRestart
  <1>3. TypeOK'
    BY <1>a, <1>1, <1>2 DEF IInv, TypeOK, PushRestart, Offer, Signal, PublisherPC
  <1>4. Taken' = Taken /\ WorkerShape' /\ HeldFollows'
    BY KeepWorker DEF PushRestart, Offer, Signal
  <1>5. pushed' = pushed + 1
    BY DEF PushRestart, Offer
  <1>6. QueueChained' /\ HeadFollows' /\ TailCurrent'
    BY <1>a, <1>2, <1>4, <1>5, Shape DEF QueueChained, HeadFollows, TailCurrent, Follows
  <1>7. /\ (stop <=> closer # "open")'
        /\ (pc = "done" => stop)'
        /\ (wait_key => queue = <<>>)'
        /\ (queued_frames = Len(queue))'
    BY DEF IInv, PushRestart, Offer, Signal
  <1> QED
    BY <1>3, <1>4, <1>6, <1>7 DEF IInv

\* An overflow elsewhere, or no memory: the queue waits for a keyframe.
LEMMA PushDropAllStep ==
    ASSUME IInv, NEW key \in BOOLEAN, NEW length \in Lengths,
           PushDropAll(key, length)
    PROVE  IInv'
PROOF
  <1> USE DEF PushDropAll, ClearFrames, Offer
  <1>a. wait_key' \in BOOLEAN
    BY Zenon
  <1>1. TypeOK'
    BY <1>a DEF IInv, TypeOK
  <1>2. Taken' = Taken /\ WorkerShape' /\ HeldFollows'
    BY KeepWorker
  <1>3. QueueChained' /\ HeadFollows' /\ TailCurrent'
    BY <1>2, EmptyQueue
  <1>4. /\ (stop <=> closer # "open")'
        /\ (pc = "done" => stop)'
        /\ (wait_key => queue = <<>>)'
        /\ (queued_frames = Len(queue))'
    BY DEF IInv
  <1> QED
    BY <1>1, <1>2, <1>3, <1>4 DEF IInv

\* An access unit skipped while waiting for a keyframe: the queue is empty.
LEMMA PushSkipStep ==
    ASSUME IInv, NEW key \in BOOLEAN, NEW length \in Lengths,
           PushSkip(key, length)
    PROVE  IInv'
PROOF
  <1> USE DEF PushSkip, Offer
  <1>1. TypeOK'
    BY DEF IInv, TypeOK
  <1>2. Taken' = Taken /\ WorkerShape' /\ HeldFollows'
    BY KeepWorker
  <1>a. queue' = <<>> /\ wait_key' = TRUE
    BY Zenon DEF IInv, TypeOK
  <1>3. QueueChained' /\ HeadFollows' /\ TailCurrent'
    BY <1>2, <1>a, EmptyQueue
  <1>4. /\ (stop <=> closer # "open")'
        /\ (pc = "done" => stop)'
        /\ (wait_key => queue = <<>>)'
        /\ (queued_frames = Len(queue))'
    BY DEF IInv
  <1> QED
    BY <1>1, <1>2, <1>3, <1>4 DEF IInv

-----------------------------------------------------------------------------
\* The worker's steps that only move its program counter.
LEMMA WorkerMoveStep ==
    ASSUME IInv, UNCHANGED <<queue, queued_bytes, queued_frames, wait_key,
                             dropped_frames, pushed, held, fd, sent, stop, closer>>,
           \/ pc = "loop" /\ pc' = "dequeue"
           \/ pc = "dequeue" /\ pc' \in {"waiting", "loop"}
           \/ pc = "waiting" /\ pc' = "dequeue"
           \/ pc = "ready" /\ pc' = "connect" /\ fd = "none"
           \/ pc = "ready" /\ pc' = "keepalive" /\ fd = "open"
           \/ pc = "keepalive" /\ pc' = "send"
           \/ pc = "backoff" /\ pc' = "loop"
    PROVE  IInv'
PROOF
  <1>1. TypeOK'
    BY DEF IInv, TypeOK, PublisherPC
  <1>2. (pc \in Working) = (pc' \in Working)
    BY DEF Working
  <1>3. Taken' = Taken
    BY <1>2 DEF Taken
  <1>4. WorkerShape'
    BY <1>2 DEF IInv, WorkerShape
  <1>5. HeldFollows'
    BY <1>2 DEF IInv, HeldFollows, Follows
  <1>6. QueueChained' /\ HeadFollows' /\ TailCurrent'
    BY <1>3, KeepQueue
  <1>7. /\ (stop <=> closer # "open")'
        /\ (pc = "done" => stop)'
        /\ (wait_key => queue = <<>>)'
        /\ (queued_frames = Len(queue))'
    BY DEF IInv
  <1> QED
    BY <1>1, <1>3, <1>4, <1>5, <1>6, <1>7 DEF IInv

\* The error path: the frame is freed and the connection given up.
LEMMA FailStep ==
    ASSUME IInv, pc \in Working, Fail,
           UNCHANGED <<queue, queued_bytes, queued_frames, wait_key,
                       dropped_frames, pushed, stop, closer>>
    PROVE  IInv'
PROOF
  <1> USE DEF Fail
  <1>1. TypeOK'
    BY DEF IInv, TypeOK, PublisherPC
  <1>2. Taken' = 0 /\ WorkerShape' /\ HeldFollows'
    BY DEF Taken, Working, WorkerShape, HeldFollows
  <1>3. QueueChained' /\ HeadFollows' /\ TailCurrent'
    BY <1>2, KeepQueue
  <1>4. /\ (stop <=> closer # "open")'
        /\ (pc = "done" => stop)'
        /\ (wait_key => queue = <<>>)'
        /\ (queued_frames = Len(queue))'
    BY DEF IInv
  <1> QED
    BY <1>1, <1>2, <1>3, <1>4 DEF IInv

LEMMA PublishLoopStep == ASSUME IInv, PublishLoop PROVE IInv'
PROOF
  <1>1. CASE ~stop
    BY <1>1, WorkerMoveStep DEF PublishLoop
  <1>2. CASE stop
    <2> USE <1>2 DEF PublishLoop
    <2>1. TypeOK'
      BY DEF IInv, TypeOK, PublisherPC
    <2>2. Taken' = 0 /\ WorkerShape' /\ HeldFollows'
      BY Shape DEF Taken, Working, WorkerShape, HeldFollows
    <2>3. QueueChained' /\ HeadFollows' /\ TailCurrent'
      BY <2>2, KeepQueue
    <2>4. /\ (stop <=> closer # "open")'
          /\ (pc = "done" => stop)'
          /\ (wait_key => queue = <<>>)'
          /\ (queued_frames = Len(queue))'
      BY DEF IInv
    <2> QED
      BY <2>1, <2>2, <2>3, <2>4 DEF IInv
  <1> QED
    BY <1>1, <1>2

\* Taking the head: it becomes the newest access unit taken, and the chain
\* says that the next element, or the next one offered, may follow it.
LEMMA PublishTakeStep == ASSUME IInv, PublishTake PROVE IInv'
PROOF
  <1>1. CASE queue # <<>>
    <2> USE <1>1
    <2>0. /\ pc = "dequeue" /\ pc' = "ready"
          /\ held' = <<Head(queue)>> /\ queue' = Tail(queue)
          /\ queued_bytes' = queued_bytes - Head(queue).length
          /\ queued_frames' = queued_frames - 1 /\ dropped_frames' = 0
          /\ UNCHANGED <<wait_key, pushed, fd, sent, stop, closer>>
      BY DEF PublishTake
    <2>1. /\ queue \in Seq(Frame) /\ Head(queue) = queue[1]
          /\ Len(queue') = Len(queue) - 1
          /\ \A i \in 1 .. Len(queue') : queue'[i] = queue[i + 1]
          /\ queue' \in Seq(Frame)
          /\ queue' = <<>> => Len(queue) = 1
          /\ Len(queue') \in Nat
      <3>1. queue \in Seq(Frame)
        BY DEF IInv, TypeOK
      <3>2. /\ Tail(queue) \in Seq(Frame) /\ Len(Tail(queue)) = Len(queue) - 1
            /\ \A i \in 1 .. Len(Tail(queue)) : Tail(queue)[i] = queue[i + 1]
        BY <3>1, HeadTailProperties
      <3>3. Tail(queue) = <<>> => Len(Tail(queue)) = 0
        BY EmptySeq, Zenon
      <3> QED
        BY <2>0, <3>1, <3>2, <3>3, Shape
    <2>2. /\ queue[1] \in Frame /\ queue[1].length \in Nat
          /\ queue[1].id \in Nat \ {0} /\ queue[1].id <= pushed
      BY Shape DEF Frame
    <2>3. /\ held' \in Seq(Frame) /\ held'[1] = queue[1] /\ Len(held') = 1
          /\ Taken' = queue[1].id /\ Taken = sent
      BY <2>0, <2>1, <2>2 DEF Taken, Working
    <2>4. TypeOK'
      BY <2>0, <2>1, <2>2, <2>3 DEF IInv, TypeOK, PublisherPC
    <2>5. WorkerShape'
      BY <2>0, <2>3 DEF IInv, WorkerShape, Working
    <2>6. HeldFollows'
      BY <2>0, <2>3 DEF IInv, HeadFollows, HeldFollows, Follows, Working
    <2>7. QueueChained'
      <3> SUFFICES ASSUME NEW i \in 1 .. Len(queue') - 1
                   PROVE  Follows(queue'[i + 1], queue'[i].id)
        BY DEF QueueChained, Follows
      <3>1. /\ i \in 1 .. Len(queue') /\ i + 1 \in 1 .. Len(queue')
            /\ i + 1 \in 1 .. Len(queue) - 1
        BY <2>1, Shape
      <3>2. queue'[i + 1] = queue[i + 2] /\ queue'[i] = queue[i + 1]
        BY <2>1, <3>1
      <3>3. Follows(queue[(i + 1) + 1], queue[i + 1].id)
        BY <3>1 DEF IInv, QueueChained
      <3> QED
        BY <3>2, <3>3, <3>1
    <2>8. HeadFollows'
      <3> SUFFICES ASSUME queue' # <<>> PROVE HeadFollows'
        BY DEF HeadFollows
      <3>1. 1 \in 1 .. Len(queue) - 1 /\ queue'[1] = queue[2]
        BY <2>1, Shape
      <3>2. Follows(queue[1 + 1], queue[1].id)
        BY <3>1 DEF IInv, QueueChained
      <3> QED
        BY <2>3, <3>1, <3>2 DEF HeadFollows, Follows
    <2>9. TailCurrent'
      <3>1. \A i \in 1 .. Len(queue') : queue'[i].id <= pushed'
        BY <2>0, <2>1, Shape
      <3>2. queue' # <<>> => queue'[Len(queue')].id = pushed'
        <4> SUFFICES ASSUME queue' # <<>> PROVE queue'[Len(queue')].id = pushed'
          OBVIOUS
        <4>1. queue'[Len(queue')] = queue[Len(queue)]
          BY <2>1, Shape
        <4> QED
          BY <2>0, <4>1 DEF IInv, TailCurrent
      <3>3. queue' = <<>> => queue[1].id = pushed
        BY <2>1 DEF IInv, TailCurrent
      <3> QED
        BY <2>0, <2>2, <2>3, <3>1, <3>2, <3>3 DEF TailCurrent
    <2>10. /\ (stop <=> closer # "open")'
           /\ (pc = "done" => stop)'
           /\ (wait_key => queue = <<>>)'
           /\ (queued_frames = Len(queue))'
      BY <2>0 DEF IInv
    <2> QED
      BY <2>4, <2>5, <2>6, <2>7, <2>8, <2>9, <2>10 DEF IInv
  <1>2. CASE queue = <<>>
    <2> USE <1>2 DEF PublishTake
    <2>1. TypeOK'
      BY DEF IInv, TypeOK, PublisherPC
    <2>2. Taken' = Taken /\ WorkerShape' /\ HeldFollows'
      BY DEF IInv, Taken, Working, WorkerShape, HeldFollows
    <2>3. QueueChained' /\ HeadFollows' /\ TailCurrent'
      BY <2>2, KeepQueue
    <2>4. /\ (stop <=> closer # "open")'
          /\ (pc = "done" => stop)'
          /\ (wait_key => queue = <<>>)'
          /\ (queued_frames = Len(queue))'
      BY DEF IInv
    <2> QED
      BY <2>1, <2>2, <2>3, <2>4 DEF IInv
  <1> QED
    BY <1>1, <1>2

LEMMA PublishReadyStep == ASSUME IInv, PublishReady PROVE IInv'
PROOF
  <1>1. CASE fd = "none" /\ ~held[1].key
    BY <1>1, FailStep DEF PublishReady, Working
  <1>2. CASE ~(fd = "none" /\ ~held[1].key)
    BY <1>2, WorkerMoveStep DEF PublishReady, IInv, TypeOK
  <1> QED
    BY <1>1, <1>2

\* A new connection has carried nothing, and only a keyframe opens one.
LEMMA ConnectPublisherStep == ASSUME IInv, ConnectPublisher PROVE IInv'
PROOF
  <1>1. CASE Fail
    BY <1>1, FailStep DEF ConnectPublisher, Working
  <1>2. CASE ~Fail
    <2> USE <1>2 DEF ConnectPublisher
    <2>1. TypeOK'
      BY DEF IInv, TypeOK, PublisherPC
    <2>2. Taken' = Taken /\ WorkerShape' /\ HeldFollows'
      BY DEF IInv, Taken, Working, WorkerShape, HeldFollows, Follows
    <2>3. QueueChained' /\ HeadFollows' /\ TailCurrent'
      BY <2>2, KeepQueue
    <2>4. /\ (stop <=> closer # "open")'
          /\ (pc = "done" => stop)'
          /\ (wait_key => queue = <<>>)'
          /\ (queued_frames = Len(queue))'
      BY DEF IInv
    <2> QED
      BY <2>1, <2>2, <2>3, <2>4 DEF IInv
  <1> QED
    BY <1>1, <1>2

LEMMA KeepaliveStep == ASSUME IInv, Keepalive PROVE IInv'
PROOF
  <1>1. CASE Fail
    BY <1>1, FailStep DEF Keepalive, Working
  <1>2. CASE ~Fail
    BY <1>2, WorkerMoveStep DEF Keepalive
  <1> QED
    BY <1>1, <1>2

\* What was being sent becomes what the connection has carried.
LEMMA SendFrameStep == ASSUME IInv, SendFrame PROVE IInv'
PROOF
  <1>1. CASE Fail
    BY <1>1, FailStep DEF SendFrame, Working
  <1>2. CASE ~Fail
    <2> USE <1>2 DEF SendFrame
    <2>a. held[1].id \in Nat
      BY Shape DEF Working
    <2>b. /\ sent' = held[1].id /\ held' = <<>> /\ pc' = "loop"
          /\ UNCHANGED <<queue, queued_bytes, queued_frames, wait_key,
                         dropped_frames, pushed, fd, stop, closer>>
      BY Zenon
    <2>1. TypeOK'
      BY <2>a, <2>b DEF IInv, TypeOK, PublisherPC
    <2>2. Taken' = Taken /\ WorkerShape' /\ HeldFollows'
      BY DEF IInv, Taken, Working, WorkerShape, HeldFollows
    <2>3. QueueChained' /\ HeadFollows' /\ TailCurrent'
      BY <2>2, KeepQueue
    <2>4. /\ (stop <=> closer # "open")'
          /\ (pc = "done" => stop)'
          /\ (wait_key => queue = <<>>)'
          /\ (queued_frames = Len(queue))'
      BY DEF IInv
    <2> QED
      BY <2>1, <2>2, <2>3, <2>4 DEF IInv
  <1> QED
    BY <1>1, <1>2

LEMMA PublishClearStep == ASSUME IInv, PublishClear PROVE IInv'
PROOF
  <1> USE DEF PublishClear, ClearFrames
  <1>a. wait_key' \in BOOLEAN
    BY Zenon
  <1>1. TypeOK'
    BY <1>a DEF IInv, TypeOK, PublisherPC
  <1>2. Taken' = Taken /\ WorkerShape' /\ HeldFollows'
    BY DEF IInv, Taken, Working, WorkerShape, HeldFollows
  <1>3. QueueChained' /\ HeadFollows' /\ TailCurrent'
    BY <1>2, EmptyQueue
  <1>4. /\ (stop <=> closer # "open")'
        /\ (pc = "done" => stop)'
        /\ (wait_key => queue = <<>>)'
        /\ (queued_frames = Len(queue))'
    BY DEF IInv
  <1> QED
    BY <1>1, <1>2, <1>3, <1>4 DEF IInv

-----------------------------------------------------------------------------
LEMMA CloserStep == ASSUME IInv, Closer PROVE IInv'
PROOF
  <1>1. CASE CloseStop
    <2> USE <1>1 DEF CloseStop
    <2>a. stop' \in BOOLEAN
      BY Zenon
    <2>1. TypeOK'
      BY <2>a DEF IInv, TypeOK
    <2>2. Taken' = Taken /\ WorkerShape' /\ HeldFollows'
      BY KeepWorker
    <2>3. QueueChained' /\ HeadFollows' /\ TailCurrent'
      BY <2>2, KeepQueue
    <2>4. /\ (stop <=> closer # "open")'
          /\ (pc = "done" => stop)'
          /\ (wait_key => queue = <<>>)'
          /\ (queued_frames = Len(queue))'
      BY DEF IInv
    <2> QED
      BY <2>1, <2>2, <2>3, <2>4 DEF IInv
  <1>2. CASE CloseSignal
    <2> USE <1>2 DEF CloseSignal, Signal
    <2>1. TypeOK'
      BY DEF IInv, TypeOK, PublisherPC
    <2>2. Taken' = Taken /\ WorkerShape' /\ HeldFollows'
      BY KeepWorker
    <2>3. QueueChained' /\ HeadFollows' /\ TailCurrent'
      BY <2>2, KeepQueue
    <2>4. /\ (stop <=> closer # "open")'
          /\ (pc = "done" => stop)'
          /\ (wait_key => queue = <<>>)'
          /\ (queued_frames = Len(queue))'
      BY DEF IInv
    <2> QED
      BY <2>1, <2>2, <2>3, <2>4 DEF IInv
  <1>3. CASE CloseJoin
    <2> USE <1>3 DEF CloseJoin, ClearFrames
    <2>a. wait_key' \in BOOLEAN
      BY Zenon
    <2>1. TypeOK'
      BY <2>a DEF IInv, TypeOK
    <2>2. Taken' = Taken /\ WorkerShape' /\ HeldFollows'
      BY KeepWorker
    <2>3. QueueChained' /\ HeadFollows' /\ TailCurrent'
      BY <2>2, EmptyQueue
    <2>4. /\ (stop <=> closer # "open")'
          /\ (pc = "done" => stop)'
          /\ (wait_key => queue = <<>>)'
          /\ (queued_frames = Len(queue))'
      BY DEF IInv
    <2> QED
      BY <2>1, <2>2, <2>3, <2>4 DEF IInv
  <1> QED
    BY <1>1, <1>2, <1>3 DEF Closer

LEMMA Stutter == ASSUME IInv, UNCHANGED vars PROVE IInv'
PROOF
  <1> USE DEF vars
  <1>1. TypeOK'
    BY DEF IInv, TypeOK
  <1>2. Taken' = Taken /\ WorkerShape' /\ HeldFollows'
    BY KeepWorker
  <1>3. QueueChained' /\ HeadFollows' /\ TailCurrent'
    BY <1>2, KeepQueue
  <1>4. /\ (stop <=> closer # "open")'
        /\ (pc = "done" => stop)'
        /\ (wait_key => queue = <<>>)'
        /\ (queued_frames = Len(queue))'
    BY DEF IInv
  <1> QED
    BY <1>1, <1>2, <1>3, <1>4 DEF IInv

LEMMA NextIInv == IInv /\ [Next]_vars => IInv'
PROOF
  <1> SUFFICES ASSUME IInv, [Next]_vars PROVE IInv'
    OBVIOUS
  <1>1. CASE Push
    BY <1>1, PushAppendStep, PushRestartStep, PushDropAllStep, PushSkipStep DEF Push
  <1>2. CASE PublishLoop \/ PublishTake \/ PublishReady
    BY <1>2, PublishLoopStep, PublishTakeStep, PublishReadyStep
  <1>3. CASE ConnectPublisher \/ Keepalive \/ SendFrame \/ PublishClear
    BY <1>3, ConnectPublisherStep, KeepaliveStep, SendFrameStep, PublishClearStep
  <1>4. CASE PublishWait \/ PublishBackoff \/ SpuriousWake
    BY <1>4, WorkerMoveStep DEF PublishWait, PublishBackoff, SpuriousWake
  <1>5. CASE Closer
    BY <1>5, CloserStep
  <1>6. CASE UNCHANGED vars
    BY <1>6, Stutter
  <1> QED
    BY <1>1, <1>2, <1>3, <1>4, <1>5, <1>6 DEF Next, Publisher

\* The inductive invariant holds throughout publish, ca_support_video_push
\* and ca_support_video_close.
THEOREM Inductive == Spec => []IInv
  BY InitIInv, NextIInv, PTL DEF Spec

\* The publisher's state is well formed in every state of the worker.
THEOREM TypeCorrect == Spec => []TypeOK
PROOF
  <1>1. IInv => TypeOK
    BY DEF IInv
  <1> QED
    BY <1>1, Inductive, PTL

\* Whatever send_frame puts on a connection is a keyframe or directly follows
\* the access unit sent before it.
THEOREM DecodableStream == Spec => []Decodable
PROOF
  <1>1. IInv => Decodable
    BY Shape DEF IInv, Decodable, HeldFollows, Follows, Working
  <1> QED
    BY <1>1, Inductive, PTL

\* publish never finds a non-key access unit when it has no connection.
THEOREM KeyframeReconnect == Spec => []ReconnectsAtKeyframe
PROOF
  <1>1. IInv => ReconnectsAtKeyframe
    BY Shape DEF IInv, ReconnectsAtKeyframe, HeldFollows, WorkerShape, Follows, Working
  <1> QED
    BY <1>1, Inductive, PTL

\* On one connection access units are sent in encoder order, none twice.
THEOREM OrderedSends == Spec => SendsInOrder
PROOF
  <1>1. IInv /\ [Next]_vars => [pc = "send" /\ pc' = "loop" => sent' > sent]_vars
    <2> SUFFICES ASSUME IInv, Next, pc = "send", pc' = "loop"
                 PROVE  sent' > sent
      BY DEF vars
    <2>1. CASE SendFrame
      BY <2>1, Shape DEF SendFrame, Fail, IInv, HeldFollows, Follows, Working
    <2>2. CASE ~SendFrame
      BY <2>2 DEF Next, Push, Offer, PushAppend, PushRestart, PushDropAll, PushSkip,
                  Publisher, PublishLoop, PublishWait, PublishTake, PublishReady,
                  ConnectPublisher, Keepalive, PublishClear, PublishBackoff,
                  SpuriousWake, Closer, CloseStop, CloseSignal, CloseJoin, Fail,
                  Signal
    <2> QED
      BY <2>1, <2>2
  <1> QED
    BY <1>1, Inductive, PTL DEF Spec, SendsInOrder
\* Pushes, takes and clears keep the queue within 60 frames and 2 MiB: a push
\* adds only what Overflows has ruled out, a take only subtracts.
THEOREM WithinLimits == Spec => []QueueBounded
PROOF
  <1> USE SupportVideoAssumption
  <1>1. Init => QueueBounded
    BY DEF Init, QueueBounded
  <1>2. IInv /\ QueueBounded /\ [Next]_vars => QueueBounded'
    <2> SUFFICES ASSUME IInv, QueueBounded, [Next]_vars PROVE QueueBounded'
      OBVIOUS
    <2> USE DEF QueueBounded
    <2>0. queued_bytes \in Int /\ queued_frames \in Int
      BY DEF IInv, TypeOK
    <2>1. CASE Push
      <3>1. PICK key \in BOOLEAN, length \in Lengths :
              \/ PushAppend(key, length) \/ PushRestart(key, length)
              \/ PushDropAll(key, length) \/ PushSkip(key, length)
        BY <2>1 DEF Push
      <3>2. CASE PushAppend(key, length)
        BY <2>0, <3>2 DEF PushAppend, Overflows
      <3>3. CASE PushRestart(key, length)
        BY <3>3 DEF PushRestart
      <3>4. CASE PushDropAll(key, length) \/ PushSkip(key, length)
        BY <3>4 DEF PushDropAll, ClearFrames, PushSkip
      <3> QED
        BY <3>1, <3>2, <3>3, <3>4
    <2>2. CASE PublishTake
      <3>1. CASE queue # <<>>
        <4>1. Head(queue).length \in Nat
          <5>1. queue \in Seq(Frame)
            BY DEF IInv, TypeOK
          <5>2. Head(queue) \in Frame
            BY <3>1, <5>1, HeadTailProperties
          <5> QED
            BY <5>2 DEF Frame
        <4> QED
          BY <2>0, <2>2, <3>1, <4>1 DEF PublishTake
      <3>2. CASE queue = <<>>
        BY <2>2, <3>2 DEF PublishTake
      <3> QED
        BY <3>1, <3>2
    <2>3. CASE PublishClear \/ CloseJoin
      BY <2>3 DEF PublishClear, CloseJoin, ClearFrames
    <2>4. CASE ~Push /\ ~PublishTake /\ ~PublishClear /\ ~CloseJoin
      <3>1. UNCHANGED <<queued_bytes, queued_frames>>
        BY <2>4 DEF Next, Publisher, PublishLoop, PublishWait, PublishReady,
                  ConnectPublisher, Keepalive, SendFrame, PublishBackoff,
                  SpuriousWake, Closer, CloseStop, CloseSignal, vars
      <3> QED
        BY <3>1
    <2> QED
      BY <2>1, <2>2, <2>3, <2>4
  <1> QED
    BY <1>1, <1>2, Inductive, PTL DEF Spec

-----------------------------------------------------------------------------
(* Programs of the MT11 (Mt11Media). *)

\* A program is a sequence, of whatever steps.
IsProgram(p) == \E S : p \in Seq(S)

LEMMA EmptyProgram == IsProgram(<<>>)
  BY <<>> \in Seq({}) DEF IsProgram

LEMMA OneStep == ASSUME NEW s PROVE IsProgram(<<s>>)
  BY <<s>> \in Seq({s}) DEF IsProgram

LEMMA Joins == ASSUME NEW p, NEW q, IsProgram(p), IsProgram(q) PROVE IsProgram(p \o q)
PROOF
  <1>1. PICK S, T : p \in Seq(S) /\ q \in Seq(T)
    BY DEF IsProgram
  <1>2. p \in Seq(S \cup T) /\ q \in Seq(S \cup T)
    BY <1>1
  <1>3. p \o q \in Seq(S \cup T)
    BY <1>2
  <1> QED
    BY <1>3 DEF IsProgram

LEMMA Associates ==
    ASSUME NEW p, NEW q, NEW r, IsProgram(p), IsProgram(q), IsProgram(r)
    PROVE  (p \o q) \o r = p \o (q \o r)
PROOF
  <1>1. PICK S, T, U : p \in Seq(S) /\ q \in Seq(T) /\ r \in Seq(U)
    BY DEF IsProgram
  <1>2. p \in Seq(S \cup T \cup U) /\ q \in Seq(S \cup T \cup U) /\ r \in Seq(S \cup T \cup U)
    BY <1>1
  <1> QED
    BY <1>2

LEMMA NothingFirst == ASSUME NEW p, IsProgram(p) PROVE <<>> \o p = p /\ p \o <<>> = p
PROOF
  <1>1. PICK S : p \in Seq(S)
    BY DEF IsProgram
  <1> QED
    BY <1>1

\* A step and what follows it; a program written out.
Then(s, p) == <<s>> \o p
One(a) == <<a>>
Two(a, b) == <<a, b>>
Three(a, b, c) == <<a, b, c>>
Four(a, b, c, d) == <<a, b, c, d>>
Five(a, b, c, d, e) == <<a, b, c, d, e>>

LEMMA FirstStep ==
    ASSUME NEW s, NEW p, IsProgram(p)
    PROVE  /\ Then(s, p) # <<>> /\ Head(Then(s, p)) = s /\ Tail(Then(s, p)) = p
           /\ IsProgram(Then(s, p))
PROOF
  <1>1. PICK S : p \in Seq(S)
    BY DEF IsProgram
  <1>2. p \in Seq(S \cup {s}) /\ <<s>> \in Seq(S \cup {s})
    BY <1>1
  <1>3. <<s>> \o p \in Seq(S \cup {s}) /\ Len(<<s>> \o p) = 1 + Len(p)
    BY <1>2
  <1>4. <<s>> \o p # <<>> /\ Head(<<s>> \o p) = s
    BY <1>2, <1>3
  <1>5. Tail(<<s>> \o p) = p
    BY <1>2, <1>3
  <1> QED
    BY <1>3, <1>4, <1>5 DEF IsProgram, Then

LEMMA HeadAndTail ==
    ASSUME NEW p, IsProgram(p), p # <<>>
    PROVE  p = Then(Head(p), Tail(p)) /\ IsProgram(Tail(p))
PROOF
  <1>1. PICK S : p \in Seq(S)
    BY DEF IsProgram
  <1>2. Tail(p) \in Seq(S) /\ Head(p) \in S
    BY <1>1
  <1>3. p = <<Head(p)>> \o Tail(p)
    BY <1>1, <1>2
  <1> QED
    BY <1>2, <1>3 DEF IsProgram, Then

LEMMA ThenJoins ==
    ASSUME NEW s, NEW p, NEW q, IsProgram(p), IsProgram(q)
    PROVE  Then(s, p) \o q = Then(s, p \o q)
PROOF
  <1>1. IsProgram(<<s>>)
    BY OneStep
  <1> QED
    BY <1>1, Associates DEF Then

LEMMA JustOne == ASSUME NEW a PROVE One(a) = Then(a, <<>>) /\ IsProgram(One(a))
PROOF
  <1>1. IsProgram(<<a>>)
    BY OneStep
  <1> QED
    BY <1>1, NothingFirst DEF One, Then

LEMMA WrittenTwo == ASSUME NEW a, NEW b PROVE Two(a, b) = Then(a, One(b)) /\ IsProgram(Two(a, b))
PROOF
  <1> DEFINE p == <<a, b>>
  <1>1. p \in Seq({a, b}) /\ p # <<>> /\ Head(p) = a /\ Tail(p) = <<b>>
    OBVIOUS
  <1>2. IsProgram(p)
    BY <1>1 DEF IsProgram
  <1> HIDE DEF p
  <1>3. p = Then(a, <<b>>)
    BY <1>1, <1>2, HeadAndTail
  <1> QED
    BY <1>2, <1>3 DEF p, One, Two

LEMMA WrittenThree ==
    ASSUME NEW a, NEW b, NEW c
    PROVE  Three(a, b, c) = Then(a, Two(b, c)) /\ IsProgram(Three(a, b, c))
PROOF
  <1> DEFINE p == <<a, b, c>>
  <1>1. p \in Seq({a, b, c}) /\ p # <<>> /\ Head(p) = a /\ Tail(p) = <<b, c>>
    OBVIOUS
  <1>2. IsProgram(p)
    BY <1>1 DEF IsProgram
  <1> HIDE DEF p
  <1>3. p = Then(a, <<b, c>>)
    BY <1>1, <1>2, HeadAndTail
  <1> QED
    BY <1>2, <1>3 DEF p, Two, Three

LEMMA WrittenFour ==
    ASSUME NEW a, NEW b, NEW c, NEW d
    PROVE  Four(a, b, c, d) = Then(a, Three(b, c, d)) /\ IsProgram(Four(a, b, c, d))
PROOF
  <1> DEFINE p == <<a, b, c, d>>
  <1>1. p \in Seq({a, b, c, d}) /\ p # <<>> /\ Head(p) = a /\ Tail(p) = <<b, c, d>>
    OBVIOUS
  <1>2. IsProgram(p)
    BY <1>1 DEF IsProgram
  <1> HIDE DEF p
  <1>3. p = Then(a, <<b, c, d>>)
    BY <1>1, <1>2, HeadAndTail
  <1> QED
    BY <1>2, <1>3 DEF p, Three, Four

LEMMA WrittenFive ==
    ASSUME NEW a, NEW b, NEW c, NEW d, NEW e
    PROVE  Five(a, b, c, d, e) = Then(a, Four(b, c, d, e)) /\ IsProgram(Five(a, b, c, d, e))
PROOF
  <1> DEFINE p == <<a, b, c, d, e>>
  <1>1. p \in Seq({a, b, c, d, e}) /\ p # <<>> /\ Head(p) = a /\ Tail(p) = <<b, c, d, e>>
    OBVIOUS
  <1>2. IsProgram(p)
    BY <1>1 DEF IsProgram
  <1> HIDE DEF p
  <1>3. p = Then(a, <<b, c, d, e>>)
    BY <1>1, <1>2, HeadAndTail
  <1> QED
    BY <1>2, <1>3 DEF p, Four, Five

LEMMA OneJoins ==
    ASSUME NEW a, NEW q, IsProgram(q)
    PROVE  One(a) \o q = Then(a, q)
  BY DEF One, Then
LEMMA TwoJoins ==
    ASSUME NEW a, NEW b, NEW q, IsProgram(q)
    PROVE  Two(a, b) \o q = Then(a, Then(b, q))
PROOF
  <1>1. Two(a, b) = Then(a, One(b)) /\ IsProgram(One(b))
    BY WrittenTwo, JustOne
  <1>2. Then(a, One(b)) \o q = Then(a, One(b) \o q)
    BY <1>1, ThenJoins
  <1> QED
    BY <1>1, <1>2, OneJoins
LEMMA ThreeJoins ==
    ASSUME NEW a, NEW b, NEW c, NEW q, IsProgram(q)
    PROVE  Three(a, b, c) \o q = Then(a, Then(b, Then(c, q)))
PROOF
  <1>1. Three(a, b, c) = Then(a, Two(b, c)) /\ IsProgram(Two(b, c))
    BY WrittenThree, WrittenTwo
  <1>2. Then(a, Two(b, c)) \o q = Then(a, Two(b, c) \o q)
    BY <1>1, ThenJoins
  <1>3. Two(b, c) \o q = Then(b, Then(c, q))
    BY TwoJoins
  <1> QED
    BY <1>1, <1>2, <1>3
LEMMA FourJoins ==
    ASSUME NEW a, NEW b, NEW c, NEW d, NEW q, IsProgram(q)
    PROVE  Four(a, b, c, d) \o q = Then(a, Then(b, Then(c, Then(d, q))))
PROOF
  <1>1. Four(a, b, c, d) = Then(a, Three(b, c, d)) /\ IsProgram(Three(b, c, d))
    BY WrittenFour, WrittenThree
  <1>2. Then(a, Three(b, c, d)) \o q = Then(a, Three(b, c, d) \o q)
    BY <1>1, ThenJoins
  <1>3. Three(b, c, d) \o q = Then(b, Then(c, Then(d, q)))
    BY ThreeJoins
  <1> QED
    BY <1>1, <1>2, <1>3
LEMMA FiveJoins ==
    ASSUME NEW a, NEW b, NEW c, NEW d, NEW e, NEW q, IsProgram(q)
    PROVE  Five(a, b, c, d, e) \o q = Then(a, Then(b, Then(c, Then(d, Then(e, q)))))
PROOF
  <1>1. Five(a, b, c, d, e) = Then(a, Four(b, c, d, e)) /\ IsProgram(Four(b, c, d, e))
    BY WrittenFive, WrittenFour
  <1>2. Then(a, Four(b, c, d, e)) \o q = Then(a, Four(b, c, d, e) \o q)
    BY <1>1, ThenJoins
  <1>3. Four(b, c, d, e) \o q = Then(b, Then(c, Then(d, Then(e, q))))
    BY FourJoins
  <1> QED
    BY <1>1, <1>2, <1>3

-----------------------------------------------------------------------------
(* What a program does, whichever of its calls fails. *)

\* What a program can see and change, as the main thread's variables have it.
World == [hw |-> hw, impl |-> impl, config |-> config, inverted |-> inverted,
          stale |-> stale \ {"gain"}, on |-> rec.on, off |-> monitor.pc = "none"]
\* The command and what it found: what the end is compared with.
Began == [cmd |-> mediaMain.cmd, zoom |-> before.impl.zoom, thermal |-> before.impl.thermal,
          config |-> before.config, gain |-> before.gain]

Notes == {"note", "noteattr", "noteratio"}
Noted(s, what) == s.op \in Notes /\ s.on = what
Unsettles(s) == s.op \in Notes /\ s.on \in {"stale", "settled", "moved"}
AfterImpl(s, x) ==
    CASE s.op = "open" -> Opened(s.to) [] s.op = "close" -> Closed
      [] s.op = "noteattr" -> [x.impl EXCEPT !.attr[s.on] = s.to]
      [] s.op = "noteratio" -> [x.impl EXCEPT !.ratio[s.on] = s.to]
      [] s.op = "note" /\ s.on = "hfov" -> [x.impl EXCEPT !.hfov = View(s.to, x.hw.optics, x.impl.ratio)]
      [] s.op = "note" /\ s.on \in {"group", "thermal", "zoom", "inverted"} -> [x.impl EXCEPT ![s.on] = s.to]
      [] OTHER -> x.impl
AfterStale(s, x) ==
    CASE s.op = "open" -> {}
      [] Noted(s, "stale") -> x.stale \cup ({s.to} \ {"gain"})
      [] Noted(s, "settled") -> x.stale \ {s.to}
      [] Noted(s, "moved") /\ "zoom" \in x.stale -> x.stale \cup {s.to}
      [] OTHER -> x.stale
After(s, x) ==
    [hw |-> Effect(x.hw, s), impl |-> AfterImpl(s, x),
     config |-> IF Noted(s, "config") THEN s.to ELSE x.config,
     inverted |-> IF Noted(s, "media_inverted") THEN s.to ELSE x.inverted,
     stale |-> AfterStale(s, x),
     on |-> IF s.op = "close" THEN FALSE ELSE x.on,
     off |-> CASE s.op = "stop_monitor" -> TRUE [] s.op = "start_monitor" -> ~x.impl.open [] OTHER -> x.off]
Failed(s, x) ==
    [hw |-> IF s.op = "optics" THEN [x.hw EXCEPT !.optics = 0] ELSE x.hw,
     impl |-> IF s.op = "open" THEN Closed ELSE x.impl,
     config |-> x.config, inverted |-> x.inverted, stale |-> x.stale, on |-> x.on, off |-> x.off]

\* When a step may come: the pipeline is opened while nothing is recorded and
\* the monitor is away; only a gain command changes the gain; the monitor
\* returns to an open pipeline.
Timely(k, s, x) ==
    /\ s.op = "open" => ~x.on /\ x.off
    /\ s.op = "gain" => k.cmd = "gain" \/ (x.off /\ s.to = k.gain)
    /\ s.op = "start_monitor" => x.impl.open
    /\ s.op = "close" => x.off
    /\ Noted(s, "cached_gain") => k.cmd = "gain"
    /\ Unsettles(s) /\ s.to = "gain" => k.cmd = "gain"

\* What is true of the world at the end of a program; End is given below.
Lenses == {"wide", "zoom"}
Stills == {"stream", "frame", "started", "chn"}
Views == ({"wide"} \X Nat) \cup ({"zoom"} \X Nat \X Nat)
Scenes ==
    [optics : Nat, crop : [Lenses -> Nat], flip : [1 .. Ports -> BOOLEAN], still : SUBSET Stills,
     group : Lenses, thermal : BOOLEAN, zoom : Zooms, hfov : Views, ratio : [Lenses -> Nat],
     inverted : BOOLEAN, cfg : Configs, config : Configs, upside : BOOLEAN,
     stale : SUBSET {"view", "zoom", "flip"}, on : BOOLEAN, off : BOOLEAN]

\* The world of a scene d, its encoders bound as b, with attributes a, running
\* as r, and noted with attributes n.
Hardware(b, a, r, d) ==
    [bind |-> b, attr |-> a, run |-> r, optics |-> d.optics, crop |-> d.crop, flip |-> d.flip, still |-> d.still]
Structure(n, d) ==
    [open |-> TRUE, group |-> d.group, thermal |-> d.thermal, zoom |-> d.zoom, hfov |-> d.hfov,
     ratio |-> d.ratio, attr |-> n, inverted |-> d.inverted, cfg |-> d.cfg]
Camera(b, a, r, n, d) ==
    [hw |-> Hardware(b, a, r, d), impl |-> Structure(n, d), config |-> d.config, inverted |-> d.upside,
     stale |-> d.stale, on |-> d.on, off |-> d.off]

\* A camera whose encoders are as the scene names them.
Binds(d) == [v \in Venc |-> Source(v, d.group, d.thermal)]
Attrs(t) == [v \in Venc |-> Attr(v, t)]
Running == [v \in Venc |-> TRUE]
Settled(d) == Camera(Binds(d), Attrs(d.thermal), Running, Attrs(d.thermal), d)
\* A scene that is true: nothing of a picture is left, the crops are those
\* noted, and so are view, optics and orientation unless a command failed.
True(d) ==
    /\ d.still = {} /\ d.crop = d.ratio
    /\ "view" \notin d.stale => d.hfov = View(d.group, d.optics, d.crop)
    /\ d.stale \cap {"view", "zoom"} = {} => d.optics = Optical(d.zoom)
    /\ "flip" \notin d.stale => \A p \in 1 .. Ports : d.flip[p] = d.inverted
End(k, f, x) ==
    \E d \in Scenes :
        /\ x = Settled(d) /\ True(d) /\ ~d.off /\ d.cfg = d.config
        /\ k.cmd = "configure" => (f => d.config = k.config) /\ d.zoom = k.zoom /\ d.thermal = k.thermal

\* A program, in a world, of which one call has failed or not (f), ends well:
\* it is in a set whose members do, or are followed by others in it.
Goes(k, S, p, f, x) ==
    /\ IsProgram(p)
    /\ p = <<>> => End(k, f, x)
    /\ p # <<>> => Timely(k, Head(p), x)
    /\ p # <<>> /\ Head(p).op \in Macros => <<Expansion(x.impl, Head(p)) \o Tail(p), f, x>> \in S
    /\ p # <<>> /\ Head(p).op \notin Macros => <<Tail(p), f, After(Head(p), x)>> \in S
    /\ p # <<>> /\ Head(p).op \notin Macros /\ Head(p).op \in Fallible /\ ~f =>
          <<Head(p).else, TRUE, Failed(Head(p), x)>> \in S
Leads(k, S) == \A p, f, x : <<p, f, x>> \in S => Goes(k, S, p, f, x)
Good(k, p, f, x) == \E S : <<p, f, x>> \in S /\ Leads(k, S)

LEMMA GoesOn ==
    ASSUME NEW k, NEW S, NEW T, \A z : z \in S => z \in T,
           NEW p, NEW f, NEW x, Goes(k, S, p, f, x)
    PROVE  Goes(k, T, p, f, x)
  BY Zenon DEF Goes

LEMMA GoodIs ==
    ASSUME NEW k, NEW p, NEW f, NEW x, Good(k, p, f, x)
    PROVE  /\ IsProgram(p)
           /\ p = <<>> => End(k, f, x)
           /\ p # <<>> => Timely(k, Head(p), x)
           /\ p # <<>> /\ Head(p).op \in Macros => Good(k, Expansion(x.impl, Head(p)) \o Tail(p), f, x)
           /\ p # <<>> /\ Head(p).op \notin Macros => Good(k, Tail(p), f, After(Head(p), x))
           /\ p # <<>> /\ Head(p).op \notin Macros /\ Head(p).op \in Fallible /\ ~f =>
                 Good(k, Head(p).else, TRUE, Failed(Head(p), x))
PROOF
  <1>1. PICK S : <<p, f, x>> \in S /\ Leads(k, S)
    BY DEF Good
  <1>2. Goes(k, S, p, f, x)
    BY <1>1, Zenon DEF Leads
  <1>3. \A q, g, y : <<q, g, y>> \in S => Good(k, q, g, y)
    BY <1>1, Zenon DEF Good
  <1> QED
    BY <1>2, <1>3, Zenon DEF Goes

LEMMA GoodEnd == ASSUME NEW k, NEW f, NEW x, End(k, f, x) PROVE Good(k, <<>>, f, x)
PROOF
  <1> DEFINE S == {<<(<<>>), f, x>>}
  <1>1. ASSUME NEW p, NEW g, NEW y, <<p, g, y>> \in S
        PROVE  p = <<>> /\ g = f /\ y = x
    BY <1>1
  <1>2. Goes(k, S, <<>>, f, x)
    BY EmptyProgram, Zenon DEF Goes
  <1>3. Leads(k, S)
    BY <1>1, <1>2, Zenon DEF Leads
  <1> QED
    BY <1>3 DEF Good

\* Adding one to such a set.
LEMMA GoodFirst ==
    ASSUME NEW k, NEW q, NEW f, NEW x, NEW T, Leads(k, T), NEW S, S = T \cup {<<q, f, x>>}, Goes(k, S, q, f, x)
    PROVE  Good(k, q, f, x)
PROOF
  <1>1. ASSUME NEW r, NEW g, NEW y, <<r, g, y>> \in S
        PROVE  <<r, g, y>> \in T \/ (r = q /\ g = f /\ y = x)
    BY <1>1
  <1>2. (\A z : z \in T => z \in S) /\ <<q, f, x>> \in S
    OBVIOUS
  <1>3. ASSUME NEW r, NEW g, NEW y, <<r, g, y>> \in T PROVE Goes(k, S, r, g, y)
    <2>1. Goes(k, T, r, g, y)
      BY <1>3, Zenon DEF Leads
    <2> QED
      BY <1>2, <2>1, GoesOn
  <1>4. Leads(k, S)
    BY <1>1, <1>3, Zenon DEF Leads
  <1> QED
    BY <1>2, <1>4 DEF Good

LEMMA GoodMacro ==
    ASSUME NEW k, NEW s, NEW p, NEW f, NEW x, IsProgram(p), s.op \in Macros,
           Good(k, Expansion(x.impl, s) \o p, f, x)
    PROVE  Good(k, Then(s, p), f, x)
PROOF
  <1> DEFINE q == Then(s, p)
             c == Expansion(x.impl, s) \o p
  <1>1. PICK T : <<c, f, x>> \in T /\ Leads(k, T)
    BY DEF Good
  <1>2. IsProgram(q) /\ q # <<>> /\ Head(q) = s /\ Tail(q) = p
    BY FirstStep
  <1>3. Timely(k, s, x)
    BY DEF Timely, Macros, Noted, Unsettles, Notes
  <1> DEFINE S == T \cup {<<q, f, x>>}
  <1>4. <<c, f, x>> \in S
    BY <1>1
  <1> HIDE DEF q, S
  <1>5. Goes(k, S, q, f, x)
    BY <1>2, <1>3, <1>4, Zenon DEF Goes
  <1>6. Good(k, q, f, x)
    BY <1>1, <1>5, GoodFirst DEF S
  <1> QED
    BY <1>6 DEF q

LEMMA GoodStep ==
    ASSUME NEW k, NEW s, NEW p, NEW f, NEW x, IsProgram(p), s.op \notin Macros, Timely(k, s, x),
           Good(k, p, f, After(s, x)),
           s.op \in Fallible /\ ~f => Good(k, s.else, TRUE, Failed(s, x))
    PROVE  Good(k, Then(s, p), f, x)
PROOF
  <1> DEFINE q == Then(s, p)
             e == <<s.else, TRUE, Failed(s, x)>>
  <1>1. PICK T : <<p, f, After(s, x)>> \in T /\ Leads(k, T)
    BY DEF Good
  <1>2. \E U : Leads(k, U) /\ (s.op \in Fallible /\ ~f => e \in U)
    <2>1. CASE s.op \in Fallible /\ ~f
      BY <2>1 DEF Good
    <2>2. CASE ~(s.op \in Fallible /\ ~f)
      BY <1>1, <2>2
    <2> QED
      BY <2>1, <2>2
  <1>3. PICK U : Leads(k, U) /\ (s.op \in Fallible /\ ~f => e \in U)
    BY <1>2
  <1>4. IsProgram(q) /\ q # <<>> /\ Head(q) = s /\ Tail(q) = p
    BY FirstStep
  <1> DEFINE V == T \cup U
             S == V \cup {<<q, f, x>>}
  <1>5. (\A z : z \in T => z \in V) /\ (\A z : z \in U => z \in V) /\ \A z : z \in V => z \in T \/ z \in U
    OBVIOUS
  <1>6. <<p, f, After(s, x)>> \in S /\ (s.op \in Fallible /\ ~f => e \in S)
    BY <1>1, <1>3
  <1> HIDE DEF V
  <1>7. Leads(k, V)
    <2> SUFFICES ASSUME NEW r, NEW g, NEW y, <<r, g, y>> \in V PROVE Goes(k, V, r, g, y)
      BY DEF Leads
    <2>1. CASE <<r, g, y>> \in T
      <3>1. Goes(k, T, r, g, y)
        BY <1>1, <2>1, Zenon DEF Leads
      <3> QED
        BY <1>5, <3>1, GoesOn
    <2>2. CASE <<r, g, y>> \in U
      <3>1. Goes(k, U, r, g, y)
        BY <1>3, <2>2, Zenon DEF Leads
      <3> QED
        BY <1>5, <3>1, GoesOn
    <2> QED
      BY <1>5, <2>1, <2>2
  <1> HIDE DEF q, S
  <1>8. Goes(k, S, q, f, x)
    BY <1>4, <1>6, Zenon DEF Goes
  <1>9. Good(k, q, f, x)
    BY <1>7, <1>8, GoodFirst DEF S
  <1> QED
    BY <1>9 DEF q

-----------------------------------------------------------------------------
(* The steps, one kind after the other. *)

\* Steps that concern the vendor's side alone.
Vendor == {"unbind", "bind", "stop", "set", "start", "crop", "flip", "take", "try", "drop"}

LEMMA VendorStep ==
    ASSUME NEW k, NEW op \in Vendor, NEW on, NEW to, NEW else, NEW p, NEW f, NEW x, NEW h,
           IsProgram(p), Effect(x.hw, Step(op, on, to, else)) = h,
           x = [hw |-> x.hw, impl |-> x.impl, config |-> x.config, inverted |-> x.inverted,
                stale |-> x.stale, on |-> x.on, off |-> x.off],
           Good(k, p, f, [x EXCEPT !.hw = h]),
           ~f /\ op # "drop" => Good(k, else, TRUE, x)
    PROVE  Good(k, Then(Step(op, on, to, else), p), f, x)
PROOF
  <1> DEFINE s == Step(op, on, to, else)
  <1>1. s.op = op /\ s.on = on /\ s.to = to /\ s.else = else
    BY DEF Step
  <1> HIDE DEF s
  <1>2. s.op \notin Macros /\ (op \in Fallible <=> op # "drop")
    BY <1>1 DEF Macros, Vendor, Fallible
  <1>3. s.op \notin Notes /\ s.op \notin {"open", "close", "gain", "start_monitor", "stop_monitor", "optics",
                                          "note", "noteattr", "noteratio"}
    BY <1>1 DEF Vendor, Notes
  <1>4. Timely(k, s, x)
    BY <1>3 DEF Timely, Unsettles, Noted
  <1>5. AfterImpl(s, x) = x.impl
    BY <1>3 DEF AfterImpl
  <1>6. AfterStale(s, x) = x.stale
    BY <1>3 DEF AfterStale, Noted
  <1>7. After(s, x) = [x EXCEPT !.hw = h]
    <2>1. After(s, x) = [hw |-> h, impl |-> x.impl, config |-> x.config, inverted |-> x.inverted,
                         stale |-> x.stale, on |-> x.on, off |-> x.off]
      <3>1. Effect(x.hw, s) = h
        BY DEF s
      <3>2. ~Noted(s, "config") /\ ~Noted(s, "media_inverted")
        BY <1>3 DEF Noted
      <3> QED
        BY <1>3, <1>5, <1>6, <3>1, <3>2 DEF After
    <2> QED
      BY <2>1
  <1>8. Failed(s, x) = x
    BY <1>3 DEF Failed
  <1>9. s.op \in Fallible /\ ~f => Good(k, s.else, TRUE, Failed(s, x))
    BY <1>1, <1>2, <1>8
  <1>10. Good(k, p, f, After(s, x))
    BY <1>7
  <1>11. Good(k, Then(s, p), f, x)
    BY <1>2, <1>4, <1>9, <1>10, GoodStep
  <1> QED
    BY <1>11 DEF s

LEMMA VendorCamera ==
    ASSUME NEW k, NEW op \in Vendor, NEW on, NEW to, NEW else, NEW p, NEW f,
           NEW b, NEW a, NEW r, NEW n, NEW d, NEW c, NEW b1, NEW a1, NEW r1, NEW d1, IsProgram(p),
           c = Camera(b, a, r, n, d),
           Effect(Hardware(b, a, r, d), Step(op, on, to, else)) = Hardware(b1, a1, r1, d1),
           Structure(n, d1) = Structure(n, d), d1.config = d.config, d1.upside = d.upside,
           d1.stale = d.stale, d1.on = d.on, d1.off = d.off,
           Good(k, p, f, Camera(b1, a1, r1, n, d1)),
           ~f /\ op # "drop" => Good(k, else, TRUE, Camera(b, a, r, n, d))
    PROVE  Good(k, Then(Step(op, on, to, else), p), f, Camera(b, a, r, n, d))
PROOF
  <1> DEFINE h == Hardware(b1, a1, r1, d1)
  <1>1. c.hw = Hardware(b, a, r, d)
    BY DEF Camera
  <1>2. c = [hw |-> c.hw, impl |-> c.impl, config |-> c.config, inverted |-> c.inverted,
             stale |-> c.stale, on |-> c.on, off |-> c.off]
    BY DEF Camera
  <1>3. [c EXCEPT !.hw = h] = Camera(b1, a1, r1, n, d1)
    BY DEF Camera
  <1> HIDE DEF h
  <1>4. Effect(c.hw, Step(op, on, to, else)) = h
    BY <1>1 DEF h
  <1>5. Good(k, p, f, [c EXCEPT !.hw = h]) /\ (~f /\ op # "drop" => Good(k, else, TRUE, c))
    BY <1>3
  <1>6. Good(k, Then(Step(op, on, to, else), p), f, c)
    BY <1>2, <1>4, <1>5, VendorStep
  <1> QED
    BY <1>6

LEMMA Unbinds ==
    ASSUME NEW k, NEW v, NEW to, NEW else, NEW p, NEW f, NEW b, NEW a, NEW r, NEW n, NEW d,
           IsProgram(p), b[v] = to,
           Good(k, p, f, Camera([b EXCEPT ![v] = <<>>], a, r, n, d)),
           ~f => Good(k, else, TRUE, Camera(b, a, r, n, d))
    PROVE  Good(k, Then(Step("unbind", v, to, else), p), f, Camera(b, a, r, n, d))
PROOF
  <1>1. Effect(Hardware(b, a, r, d), Step("unbind", v, to, else)) = Hardware([b EXCEPT ![v] = <<>>], a, r, d)
    BY DEF Effect, Hardware, Step
  <1> QED
    BY <1>1, VendorCamera DEF Vendor

LEMMA BindsFree ==
    ASSUME NEW k, NEW v, NEW to, NEW else, NEW p, NEW f, NEW b, NEW a, NEW r, NEW n, NEW d,
           IsProgram(p), b[v] = <<>>,
           Good(k, p, f, Camera([b EXCEPT ![v] = to], a, r, n, d)),
           ~f => Good(k, else, TRUE, Camera(b, a, r, n, d))
    PROVE  Good(k, Then(Step("bind", v, to, else), p), f, Camera(b, a, r, n, d))
PROOF
  <1>1. Effect(Hardware(b, a, r, d), Step("bind", v, to, else)) = Hardware([b EXCEPT ![v] = to], a, r, d)
    BY DEF Effect, Hardware, Step
  <1> QED
    BY <1>1, VendorCamera DEF Vendor

\* Binding what is bound changes nothing.
LEMMA BindsBound ==
    ASSUME NEW k, NEW v, NEW to, NEW else, NEW p, NEW f, NEW b, NEW a, NEW r, NEW n, NEW d,
           IsProgram(p), b[v] # <<>>,
           Good(k, p, f, Camera(b, a, r, n, d)),
           ~f => Good(k, else, TRUE, Camera(b, a, r, n, d))
    PROVE  Good(k, Then(Step("bind", v, to, else), p), f, Camera(b, a, r, n, d))
PROOF
  <1>1. Effect(Hardware(b, a, r, d), Step("bind", v, to, else)) = Hardware(b, a, r, d)
    BY DEF Effect, Hardware, Step
  <1> QED
    BY <1>1, VendorCamera DEF Vendor

LEMMA Stops ==
    ASSUME NEW k, NEW v, NEW to, NEW else, NEW p, NEW f, NEW b, NEW a, NEW r, NEW n, NEW d,
           IsProgram(p),
           Good(k, p, f, Camera(b, a, [r EXCEPT ![v] = FALSE], n, d)),
           ~f => Good(k, else, TRUE, Camera(b, a, r, n, d))
    PROVE  Good(k, Then(Step("stop", v, to, else), p), f, Camera(b, a, r, n, d))
PROOF
  <1>1. Effect(Hardware(b, a, r, d), Step("stop", v, to, else)) = Hardware(b, a, [r EXCEPT ![v] = FALSE], d)
    BY DEF Effect, Hardware, Step
  <1> QED
    BY <1>1, VendorCamera DEF Vendor


LEMMA Sets ==
    ASSUME NEW k, NEW v, NEW to, NEW else, NEW p, NEW f, NEW b, NEW a, NEW r, NEW n, NEW d,
           IsProgram(p),
           Good(k, p, f, Camera(b, [a EXCEPT ![v] = to], r, n, d)),
           ~f => Good(k, else, TRUE, Camera(b, a, r, n, d))
    PROVE  Good(k, Then(Step("set", v, to, else), p), f, Camera(b, a, r, n, d))
PROOF
  <1>1. Effect(Hardware(b, a, r, d), Step("set", v, to, else)) = Hardware(b, [a EXCEPT ![v] = to], r, d)
    BY DEF Effect, Hardware, Step
  <1> QED
    BY <1>1, VendorCamera DEF Vendor


LEMMA Starts ==
    ASSUME NEW k, NEW v, NEW to, NEW else, NEW p, NEW f, NEW b, NEW a, NEW r, NEW n, NEW d,
           IsProgram(p),
           Good(k, p, f, Camera(b, a, [r EXCEPT ![v] = TRUE], n, d)),
           ~f => Good(k, else, TRUE, Camera(b, a, r, n, d))
    PROVE  Good(k, Then(Step("start", v, to, else), p), f, Camera(b, a, r, n, d))
PROOF
  <1>1. Effect(Hardware(b, a, r, d), Step("start", v, to, else)) = Hardware(b, a, [r EXCEPT ![v] = TRUE], d)
    BY DEF Effect, Hardware, Step
  <1> QED
    BY <1>1, VendorCamera DEF Vendor


LEMMA Tries ==
    ASSUME NEW k, NEW v, NEW to, NEW else, NEW p, NEW f, NEW b, NEW a, NEW r, NEW n, NEW d,
           IsProgram(p),
           Good(k, p, f, Camera(b, a, r, n, d)),
           ~f => Good(k, else, TRUE, Camera(b, a, r, n, d))
    PROVE  Good(k, Then(Step("try", v, to, else), p), f, Camera(b, a, r, n, d))
PROOF
  <1>1. Effect(Hardware(b, a, r, d), Step("try", v, to, else)) = Hardware(b, a, r, d)
    BY DEF Effect, Hardware, Step
  <1> QED
    BY <1>1, VendorCamera DEF Vendor


LEMMA Crops ==
    ASSUME NEW k, NEW v, NEW to, NEW else, NEW p, NEW f, NEW b, NEW a, NEW r, NEW n, NEW d \in Scenes,
           IsProgram(p),
           Good(k, p, f, Camera(b, a, r, n, [d EXCEPT !.crop = [d.crop EXCEPT ![v] = to]])),
           ~f => Good(k, else, TRUE, Camera(b, a, r, n, d))
    PROVE  Good(k, Then(Step("crop", v, to, else), p), f, Camera(b, a, r, n, d))
PROOF
  <1> DEFINE e == [d EXCEPT !.crop = [d.crop EXCEPT ![v] = to]]
  <1>2. Structure(n, e) = Structure(n, d) /\ e.config = d.config /\ e.upside = d.upside
        /\ e.stale = d.stale /\ e.on = d.on /\ e.off = d.off
    BY DEF Scenes, Structure
  <1>1. Effect(Hardware(b, a, r, d), Step("crop", v, to, else)) = Hardware(b, a, r, e)
    BY DEF Effect, Hardware, Step, Scenes
  <1> HIDE DEF e
  <1>3. Good(k, p, f, Camera(b, a, r, n, e))
    BY DEF e
  <1> QED
    BY <1>1, <1>2, <1>3, VendorCamera DEF Vendor


LEMMA Flips ==
    ASSUME NEW k, NEW v, NEW to, NEW else, NEW p, NEW f, NEW b, NEW a, NEW r, NEW n, NEW d \in Scenes,
           IsProgram(p),
           Good(k, p, f, Camera(b, a, r, n, [d EXCEPT !.flip = [d.flip EXCEPT ![v] = to]])),
           ~f => Good(k, else, TRUE, Camera(b, a, r, n, d))
    PROVE  Good(k, Then(Step("flip", v, to, else), p), f, Camera(b, a, r, n, d))
PROOF
  <1> DEFINE e == [d EXCEPT !.flip = [d.flip EXCEPT ![v] = to]]
  <1>2. Structure(n, e) = Structure(n, d) /\ e.config = d.config /\ e.upside = d.upside
        /\ e.stale = d.stale /\ e.on = d.on /\ e.off = d.off
    BY DEF Scenes, Structure
  <1>1. Effect(Hardware(b, a, r, d), Step("flip", v, to, else)) = Hardware(b, a, r, e)
    BY DEF Effect, Hardware, Step, Scenes
  <1> HIDE DEF e
  <1>3. Good(k, p, f, Camera(b, a, r, n, e))
    BY DEF e
  <1> QED
    BY <1>1, <1>2, <1>3, VendorCamera DEF Vendor


LEMMA Takes ==
    ASSUME NEW k, NEW v, NEW to, NEW else, NEW p, NEW f, NEW b, NEW a, NEW r, NEW n, NEW d \in Scenes,
           IsProgram(p),
           Good(k, p, f, Camera(b, a, r, n, [d EXCEPT !.still = d.still \cup {v}])),
           ~f => Good(k, else, TRUE, Camera(b, a, r, n, d))
    PROVE  Good(k, Then(Step("take", v, to, else), p), f, Camera(b, a, r, n, d))
PROOF
  <1> DEFINE e == [d EXCEPT !.still = d.still \cup {v}]
  <1>2. Structure(n, e) = Structure(n, d) /\ e.config = d.config /\ e.upside = d.upside
        /\ e.stale = d.stale /\ e.on = d.on /\ e.off = d.off
    BY DEF Scenes, Structure
  <1>1. Effect(Hardware(b, a, r, d), Step("take", v, to, else)) = Hardware(b, a, r, e)
    BY DEF Effect, Hardware, Step, Scenes
  <1> HIDE DEF e
  <1>3. Good(k, p, f, Camera(b, a, r, n, e))
    BY DEF e
  <1> QED
    BY <1>1, <1>2, <1>3, VendorCamera DEF Vendor


LEMMA Drops ==
    ASSUME NEW k, NEW v, NEW to, NEW else, NEW p, NEW f, NEW b, NEW a, NEW r, NEW n, NEW d \in Scenes,
           IsProgram(p),
           Good(k, p, f, Camera(b, a, r, n, [d EXCEPT !.still = d.still \ {v}]))
    PROVE  Good(k, Then(Step("drop", v, to, else), p), f, Camera(b, a, r, n, d))
PROOF
  <1> DEFINE e == [d EXCEPT !.still = d.still \ {v}]
  <1>2. Structure(n, e) = Structure(n, d) /\ e.config = d.config /\ e.upside = d.upside
        /\ e.stale = d.stale /\ e.on = d.on /\ e.off = d.off
    BY DEF Scenes, Structure
  <1>1. Effect(Hardware(b, a, r, d), Step("drop", v, to, else)) = Hardware(b, a, r, e)
    BY DEF Effect, Hardware, Step, Scenes
  <1> HIDE DEF e
  <1>3. Good(k, p, f, Camera(b, a, r, n, e))
    BY DEF e
  <1> QED
    BY <1>1, <1>2, <1>3, VendorCamera DEF Vendor


\* Steps that change what is noted of the scene.
LEMMA NoteCamera ==
    ASSUME NEW k, NEW s, NEW p, NEW f, NEW x, NEW y, IsProgram(p),
           s.op \in Notes, s.on \in {"stale", "settled", "moved"} => s.to # "gain", s.on # "cached_gain", After(s, x) = y, Good(k, p, f, y)
    PROVE  Good(k, Then(s, p), f, x)
PROOF
  <1>1. s.op \notin Macros /\ s.op \notin Fallible
    BY DEF Macros, Notes, Fallible
  <1>2. Timely(k, s, x)
    BY DEF Timely, Unsettles, Noted, Notes
  <1> QED
    BY <1>1, <1>2, GoodStep

\* One field of the structure replaced.
LEMMA StructureGroup ==
    ASSUME NEW n, NEW d, NEW w, NEW i, i = Structure(n, d), NEW m, NEW e, m = n,
           e.group = w /\ e.thermal = d.thermal /\ e.zoom = d.zoom /\ e.hfov = d.hfov,
           e.ratio = d.ratio /\ e.inverted = d.inverted /\ e.cfg = d.cfg
    PROVE  [i EXCEPT !.group = w] = Structure(m, e)
PROOF
  <1> DEFINE t == TRUE
  <1>1. i = [open |-> t, group |-> d.group, thermal |-> d.thermal, zoom |-> d.zoom, hfov |-> d.hfov,
             ratio |-> d.ratio, attr |-> n, inverted |-> d.inverted, cfg |-> d.cfg]
    BY DEF Structure
  <1>2. Structure(m, e) = [open |-> t, group |-> e.group, thermal |-> e.thermal, zoom |-> e.zoom, hfov |-> e.hfov,
                           ratio |-> e.ratio, attr |-> m, inverted |-> e.inverted, cfg |-> e.cfg]
    BY DEF Structure
  <1> HIDE DEF t
  <1> QED
    BY <1>1, <1>2

LEMMA StructureThermal ==
    ASSUME NEW n, NEW d, NEW w, NEW i, i = Structure(n, d), NEW m, NEW e, m = n,
           e.group = d.group /\ e.thermal = w /\ e.zoom = d.zoom /\ e.hfov = d.hfov,
           e.ratio = d.ratio /\ e.inverted = d.inverted /\ e.cfg = d.cfg
    PROVE  [i EXCEPT !.thermal = w] = Structure(m, e)
PROOF
  <1> DEFINE t == TRUE
  <1>1. i = [open |-> t, group |-> d.group, thermal |-> d.thermal, zoom |-> d.zoom, hfov |-> d.hfov,
             ratio |-> d.ratio, attr |-> n, inverted |-> d.inverted, cfg |-> d.cfg]
    BY DEF Structure
  <1>2. Structure(m, e) = [open |-> t, group |-> e.group, thermal |-> e.thermal, zoom |-> e.zoom, hfov |-> e.hfov,
                           ratio |-> e.ratio, attr |-> m, inverted |-> e.inverted, cfg |-> e.cfg]
    BY DEF Structure
  <1> HIDE DEF t
  <1> QED
    BY <1>1, <1>2

LEMMA StructureZoom ==
    ASSUME NEW n, NEW d, NEW w, NEW i, i = Structure(n, d), NEW m, NEW e, m = n,
           e.group = d.group /\ e.thermal = d.thermal /\ e.zoom = w /\ e.hfov = d.hfov,
           e.ratio = d.ratio /\ e.inverted = d.inverted /\ e.cfg = d.cfg
    PROVE  [i EXCEPT !.zoom = w] = Structure(m, e)
PROOF
  <1> DEFINE t == TRUE
  <1>1. i = [open |-> t, group |-> d.group, thermal |-> d.thermal, zoom |-> d.zoom, hfov |-> d.hfov,
             ratio |-> d.ratio, attr |-> n, inverted |-> d.inverted, cfg |-> d.cfg]
    BY DEF Structure
  <1>2. Structure(m, e) = [open |-> t, group |-> e.group, thermal |-> e.thermal, zoom |-> e.zoom, hfov |-> e.hfov,
                           ratio |-> e.ratio, attr |-> m, inverted |-> e.inverted, cfg |-> e.cfg]
    BY DEF Structure
  <1> HIDE DEF t
  <1> QED
    BY <1>1, <1>2

LEMMA StructureHfov ==
    ASSUME NEW n, NEW d, NEW w, NEW i, i = Structure(n, d), NEW m, NEW e, m = n,
           e.group = d.group /\ e.thermal = d.thermal /\ e.zoom = d.zoom /\ e.hfov = w,
           e.ratio = d.ratio /\ e.inverted = d.inverted /\ e.cfg = d.cfg
    PROVE  [i EXCEPT !.hfov = w] = Structure(m, e)
PROOF
  <1> DEFINE t == TRUE
  <1>1. i = [open |-> t, group |-> d.group, thermal |-> d.thermal, zoom |-> d.zoom, hfov |-> d.hfov,
             ratio |-> d.ratio, attr |-> n, inverted |-> d.inverted, cfg |-> d.cfg]
    BY DEF Structure
  <1>2. Structure(m, e) = [open |-> t, group |-> e.group, thermal |-> e.thermal, zoom |-> e.zoom, hfov |-> e.hfov,
                           ratio |-> e.ratio, attr |-> m, inverted |-> e.inverted, cfg |-> e.cfg]
    BY DEF Structure
  <1> HIDE DEF t
  <1> QED
    BY <1>1, <1>2

LEMMA StructureRatio ==
    ASSUME NEW n, NEW d, NEW w, NEW i, i = Structure(n, d), NEW m, NEW e, m = n,
           e.group = d.group /\ e.thermal = d.thermal /\ e.zoom = d.zoom /\ e.hfov = d.hfov,
           e.ratio = w /\ e.inverted = d.inverted /\ e.cfg = d.cfg
    PROVE  [i EXCEPT !.ratio = w] = Structure(m, e)
PROOF
  <1> DEFINE t == TRUE
  <1>1. i = [open |-> t, group |-> d.group, thermal |-> d.thermal, zoom |-> d.zoom, hfov |-> d.hfov,
             ratio |-> d.ratio, attr |-> n, inverted |-> d.inverted, cfg |-> d.cfg]
    BY DEF Structure
  <1>2. Structure(m, e) = [open |-> t, group |-> e.group, thermal |-> e.thermal, zoom |-> e.zoom, hfov |-> e.hfov,
                           ratio |-> e.ratio, attr |-> m, inverted |-> e.inverted, cfg |-> e.cfg]
    BY DEF Structure
  <1> HIDE DEF t
  <1> QED
    BY <1>1, <1>2

LEMMA StructureInverted ==
    ASSUME NEW n, NEW d, NEW w, NEW i, i = Structure(n, d), NEW m, NEW e, m = n,
           e.group = d.group /\ e.thermal = d.thermal /\ e.zoom = d.zoom /\ e.hfov = d.hfov,
           e.ratio = d.ratio /\ e.inverted = w /\ e.cfg = d.cfg
    PROVE  [i EXCEPT !.inverted = w] = Structure(m, e)
PROOF
  <1> DEFINE t == TRUE
  <1>1. i = [open |-> t, group |-> d.group, thermal |-> d.thermal, zoom |-> d.zoom, hfov |-> d.hfov,
             ratio |-> d.ratio, attr |-> n, inverted |-> d.inverted, cfg |-> d.cfg]
    BY DEF Structure
  <1>2. Structure(m, e) = [open |-> t, group |-> e.group, thermal |-> e.thermal, zoom |-> e.zoom, hfov |-> e.hfov,
                           ratio |-> e.ratio, attr |-> m, inverted |-> e.inverted, cfg |-> e.cfg]
    BY DEF Structure
  <1> HIDE DEF t
  <1> QED
    BY <1>1, <1>2

LEMMA StructureAttr ==
    ASSUME NEW n, NEW d, NEW w, NEW i, i = Structure(n, d), NEW m, NEW e, m = w,
           e.group = d.group /\ e.thermal = d.thermal /\ e.zoom = d.zoom /\ e.hfov = d.hfov,
           e.ratio = d.ratio /\ e.inverted = d.inverted /\ e.cfg = d.cfg
    PROVE  [i EXCEPT !.attr = w] = Structure(m, e)
PROOF
  <1> DEFINE t == TRUE
  <1>1. i = [open |-> t, group |-> d.group, thermal |-> d.thermal, zoom |-> d.zoom, hfov |-> d.hfov,
             ratio |-> d.ratio, attr |-> n, inverted |-> d.inverted, cfg |-> d.cfg]
    BY DEF Structure
  <1>2. Structure(m, e) = [open |-> t, group |-> e.group, thermal |-> e.thermal, zoom |-> e.zoom, hfov |-> e.hfov,
                           ratio |-> e.ratio, attr |-> m, inverted |-> e.inverted, cfg |-> e.cfg]
    BY DEF Structure
  <1> HIDE DEF t
  <1> QED
    BY <1>1, <1>2

LEMMA NoteScene ==
    ASSUME NEW k, NEW s, NEW p, NEW f, NEW b, NEW a, NEW r, NEW n, NEW d, NEW n1, NEW d1, NEW x,
           x = Camera(b, a, r, n, d), IsProgram(p),
           s.op \in Notes, s.on \in {"stale", "settled", "moved"} => s.to # "gain", s.on # "cached_gain",
           AfterImpl(s, x) = Structure(n1, d1), AfterStale(s, x) = d1.stale,
           Hardware(b, a, r, d1) = Hardware(b, a, r, d), d1.on = d.on, d1.off = d.off,
           d1.config = (IF s.on = "config" THEN s.to ELSE d.config),
           d1.upside = (IF s.on = "media_inverted" THEN s.to ELSE d.upside),
           Good(k, p, f, Camera(b, a, r, n1, d1))
    PROVE  Good(k, Then(s, p), f, Camera(b, a, r, n, d))
PROOF
  <1>1. Effect(x.hw, s) = x.hw /\ x.hw = Hardware(b, a, r, d)
    BY DEF Effect, Notes, Camera
  <1>2. s.op \notin {"close", "stop_monitor", "start_monitor"} /\ (\A what : Noted(s, what) <=> s.on = what)
    BY DEF Notes, Noted
  <1>3. x.config = d.config /\ x.inverted = d.upside /\ x.on = d.on /\ x.off = d.off
    BY DEF Camera
  <1>4. After(s, x) = Camera(b, a, r, n1, d1)
    BY <1>1, <1>2, <1>3 DEF After, Camera
  <1>5. Good(k, Then(s, p), f, x)
    BY <1>4, NoteCamera
  <1> QED
    BY <1>5

LEMMA NotesGroup ==
    ASSUME NEW k, NEW to, NEW p, NEW f, NEW b, NEW a, NEW r, NEW n, NEW d \in Scenes,
           IsProgram(p),
           Good(k, p, f, Camera(b, a, r, n, [d EXCEPT !.group = to]))
    PROVE  Good(k, Then(Note("group", to), p), f, Camera(b, a, r, n, d))
PROOF
  <1> DEFINE s == Note("group", to)
             e == [d EXCEPT !.group = to]
             m == n
             x == Camera(b, a, r, n, d)
  <1>1. s.op = "note" /\ s.on = "group" /\ s.to = to
    BY DEF Note, Do, Step
  <1>2. x.impl = Structure(n, d) /\ x.hw = Hardware(b, a, r, d) /\ x.stale = d.stale
    BY DEF Camera
  <1> HIDE DEF s, x
  <1>3. AfterImpl(s, x) = Structure(m, e)
    <2> DEFINE i == Structure(n, d)
    <2>1. AfterImpl(s, x) = [i EXCEPT !.group = to]
      <3>1. i.attr = n /\ i.ratio = d.ratio /\ x.impl = i /\ x.hw.optics = d.optics
        BY <1>2 DEF Structure, Hardware
      <3> HIDE DEF i
      <3> QED
        BY <1>1, <3>1 DEF AfterImpl
    <2>2. [i EXCEPT !.group = to] = Structure(m, e)
      <3> DEFINE w == to
      <3>1. e.group = w /\ e.thermal = d.thermal /\ e.zoom = d.zoom /\ e.hfov = d.hfov /\ e.ratio = d.ratio /\ e.inverted = d.inverted /\ e.cfg = d.cfg
        BY DEF Scenes
      <3>2. m = n
        OBVIOUS
      <3>3. [i EXCEPT !.group = w] = Structure(m, e)
        <4>1. i = Structure(n, d)
          OBVIOUS
        <4> HIDE DEF e, m, w, i
        <4> QED
          BY <3>1, <3>2, <4>1, StructureGroup
      <3> QED
        BY <3>3
    <2> QED
      BY <2>1, <2>2
  <1>4. AfterStale(s, x) = e.stale
    BY <1>1, <1>2 DEF AfterStale, Noted, Notes, Scenes, Venc, Lenses
  <1>5. Hardware(b, a, r, e) = Hardware(b, a, r, d) /\ e.on = d.on /\ e.off = d.off
    BY DEF Hardware, Scenes
  <1>6. /\ e.config = (IF s.on = "config" THEN s.to ELSE d.config)
        /\ e.upside = (IF s.on = "media_inverted" THEN s.to ELSE d.upside)
    BY <1>1 DEF Scenes, Venc, Lenses
  <1>7. s.op \in Notes /\ (s.on \in {"stale", "settled", "moved"} => s.to # "gain") /\ s.on # "cached_gain"
    BY <1>1 DEF Notes, Venc, Lenses
  <1>8. Good(k, p, f, Camera(b, a, r, m, e))
    OBVIOUS
  <1> HIDE DEF e, m
  <1>9. Good(k, Then(s, p), f, Camera(b, a, r, n, d))
    BY <1>3, <1>4, <1>5, <1>6, <1>7, <1>8, NoteScene DEF x
  <1> QED
    BY <1>9 DEF s

LEMMA NotesThermal ==
    ASSUME NEW k, NEW to, NEW p, NEW f, NEW b, NEW a, NEW r, NEW n, NEW d \in Scenes,
           IsProgram(p),
           Good(k, p, f, Camera(b, a, r, n, [d EXCEPT !.thermal = to]))
    PROVE  Good(k, Then(Note("thermal", to), p), f, Camera(b, a, r, n, d))
PROOF
  <1> DEFINE s == Note("thermal", to)
             e == [d EXCEPT !.thermal = to]
             m == n
             x == Camera(b, a, r, n, d)
  <1>1. s.op = "note" /\ s.on = "thermal" /\ s.to = to
    BY DEF Note, Do, Step
  <1>2. x.impl = Structure(n, d) /\ x.hw = Hardware(b, a, r, d) /\ x.stale = d.stale
    BY DEF Camera
  <1> HIDE DEF s, x
  <1>3. AfterImpl(s, x) = Structure(m, e)
    <2> DEFINE i == Structure(n, d)
    <2>1. AfterImpl(s, x) = [i EXCEPT !.thermal = to]
      <3>1. i.attr = n /\ i.ratio = d.ratio /\ x.impl = i /\ x.hw.optics = d.optics
        BY <1>2 DEF Structure, Hardware
      <3> HIDE DEF i
      <3> QED
        BY <1>1, <3>1 DEF AfterImpl
    <2>2. [i EXCEPT !.thermal = to] = Structure(m, e)
      <3> DEFINE w == to
      <3>1. e.group = d.group /\ e.thermal = w /\ e.zoom = d.zoom /\ e.hfov = d.hfov /\ e.ratio = d.ratio /\ e.inverted = d.inverted /\ e.cfg = d.cfg
        BY DEF Scenes
      <3>2. m = n
        OBVIOUS
      <3>3. [i EXCEPT !.thermal = w] = Structure(m, e)
        <4>1. i = Structure(n, d)
          OBVIOUS
        <4> HIDE DEF e, m, w, i
        <4> QED
          BY <3>1, <3>2, <4>1, StructureThermal
      <3> QED
        BY <3>3
    <2> QED
      BY <2>1, <2>2
  <1>4. AfterStale(s, x) = e.stale
    BY <1>1, <1>2 DEF AfterStale, Noted, Notes, Scenes, Venc, Lenses
  <1>5. Hardware(b, a, r, e) = Hardware(b, a, r, d) /\ e.on = d.on /\ e.off = d.off
    BY DEF Hardware, Scenes
  <1>6. /\ e.config = (IF s.on = "config" THEN s.to ELSE d.config)
        /\ e.upside = (IF s.on = "media_inverted" THEN s.to ELSE d.upside)
    BY <1>1 DEF Scenes, Venc, Lenses
  <1>7. s.op \in Notes /\ (s.on \in {"stale", "settled", "moved"} => s.to # "gain") /\ s.on # "cached_gain"
    BY <1>1 DEF Notes, Venc, Lenses
  <1>8. Good(k, p, f, Camera(b, a, r, m, e))
    OBVIOUS
  <1> HIDE DEF e, m
  <1>9. Good(k, Then(s, p), f, Camera(b, a, r, n, d))
    BY <1>3, <1>4, <1>5, <1>6, <1>7, <1>8, NoteScene DEF x
  <1> QED
    BY <1>9 DEF s

LEMMA NotesZoom ==
    ASSUME NEW k, NEW to, NEW p, NEW f, NEW b, NEW a, NEW r, NEW n, NEW d \in Scenes,
           IsProgram(p),
           Good(k, p, f, Camera(b, a, r, n, [d EXCEPT !.zoom = to]))
    PROVE  Good(k, Then(Note("zoom", to), p), f, Camera(b, a, r, n, d))
PROOF
  <1> DEFINE s == Note("zoom", to)
             e == [d EXCEPT !.zoom = to]
             m == n
             x == Camera(b, a, r, n, d)
  <1>1. s.op = "note" /\ s.on = "zoom" /\ s.to = to
    BY DEF Note, Do, Step
  <1>2. x.impl = Structure(n, d) /\ x.hw = Hardware(b, a, r, d) /\ x.stale = d.stale
    BY DEF Camera
  <1> HIDE DEF s, x
  <1>3. AfterImpl(s, x) = Structure(m, e)
    <2> DEFINE i == Structure(n, d)
    <2>1. AfterImpl(s, x) = [i EXCEPT !.zoom = to]
      <3>1. i.attr = n /\ i.ratio = d.ratio /\ x.impl = i /\ x.hw.optics = d.optics
        BY <1>2 DEF Structure, Hardware
      <3> HIDE DEF i
      <3> QED
        BY <1>1, <3>1 DEF AfterImpl
    <2>2. [i EXCEPT !.zoom = to] = Structure(m, e)
      <3> DEFINE w == to
      <3>1. e.group = d.group /\ e.thermal = d.thermal /\ e.zoom = w /\ e.hfov = d.hfov /\ e.ratio = d.ratio /\ e.inverted = d.inverted /\ e.cfg = d.cfg
        BY DEF Scenes
      <3>2. m = n
        OBVIOUS
      <3>3. [i EXCEPT !.zoom = w] = Structure(m, e)
        <4>1. i = Structure(n, d)
          OBVIOUS
        <4> HIDE DEF e, m, w, i
        <4> QED
          BY <3>1, <3>2, <4>1, StructureZoom
      <3> QED
        BY <3>3
    <2> QED
      BY <2>1, <2>2
  <1>4. AfterStale(s, x) = e.stale
    BY <1>1, <1>2 DEF AfterStale, Noted, Notes, Scenes, Venc, Lenses
  <1>5. Hardware(b, a, r, e) = Hardware(b, a, r, d) /\ e.on = d.on /\ e.off = d.off
    BY DEF Hardware, Scenes
  <1>6. /\ e.config = (IF s.on = "config" THEN s.to ELSE d.config)
        /\ e.upside = (IF s.on = "media_inverted" THEN s.to ELSE d.upside)
    BY <1>1 DEF Scenes, Venc, Lenses
  <1>7. s.op \in Notes /\ (s.on \in {"stale", "settled", "moved"} => s.to # "gain") /\ s.on # "cached_gain"
    BY <1>1 DEF Notes, Venc, Lenses
  <1>8. Good(k, p, f, Camera(b, a, r, m, e))
    OBVIOUS
  <1> HIDE DEF e, m
  <1>9. Good(k, Then(s, p), f, Camera(b, a, r, n, d))
    BY <1>3, <1>4, <1>5, <1>6, <1>7, <1>8, NoteScene DEF x
  <1> QED
    BY <1>9 DEF s

LEMMA NotesInverted ==
    ASSUME NEW k, NEW to, NEW p, NEW f, NEW b, NEW a, NEW r, NEW n, NEW d \in Scenes,
           IsProgram(p),
           Good(k, p, f, Camera(b, a, r, n, [d EXCEPT !.inverted = to]))
    PROVE  Good(k, Then(Note("inverted", to), p), f, Camera(b, a, r, n, d))
PROOF
  <1> DEFINE s == Note("inverted", to)
             e == [d EXCEPT !.inverted = to]
             m == n
             x == Camera(b, a, r, n, d)
  <1>1. s.op = "note" /\ s.on = "inverted" /\ s.to = to
    BY DEF Note, Do, Step
  <1>2. x.impl = Structure(n, d) /\ x.hw = Hardware(b, a, r, d) /\ x.stale = d.stale
    BY DEF Camera
  <1> HIDE DEF s, x
  <1>3. AfterImpl(s, x) = Structure(m, e)
    <2> DEFINE i == Structure(n, d)
    <2>1. AfterImpl(s, x) = [i EXCEPT !.inverted = to]
      <3>1. i.attr = n /\ i.ratio = d.ratio /\ x.impl = i /\ x.hw.optics = d.optics
        BY <1>2 DEF Structure, Hardware
      <3> HIDE DEF i
      <3> QED
        BY <1>1, <3>1 DEF AfterImpl
    <2>2. [i EXCEPT !.inverted = to] = Structure(m, e)
      <3> DEFINE w == to
      <3>1. e.group = d.group /\ e.thermal = d.thermal /\ e.zoom = d.zoom /\ e.hfov = d.hfov /\ e.ratio = d.ratio /\ e.inverted = w /\ e.cfg = d.cfg
        BY DEF Scenes
      <3>2. m = n
        OBVIOUS
      <3>3. [i EXCEPT !.inverted = w] = Structure(m, e)
        <4>1. i = Structure(n, d)
          OBVIOUS
        <4> HIDE DEF e, m, w, i
        <4> QED
          BY <3>1, <3>2, <4>1, StructureInverted
      <3> QED
        BY <3>3
    <2> QED
      BY <2>1, <2>2
  <1>4. AfterStale(s, x) = e.stale
    BY <1>1, <1>2 DEF AfterStale, Noted, Notes, Scenes, Venc, Lenses
  <1>5. Hardware(b, a, r, e) = Hardware(b, a, r, d) /\ e.on = d.on /\ e.off = d.off
    BY DEF Hardware, Scenes
  <1>6. /\ e.config = (IF s.on = "config" THEN s.to ELSE d.config)
        /\ e.upside = (IF s.on = "media_inverted" THEN s.to ELSE d.upside)
    BY <1>1 DEF Scenes, Venc, Lenses
  <1>7. s.op \in Notes /\ (s.on \in {"stale", "settled", "moved"} => s.to # "gain") /\ s.on # "cached_gain"
    BY <1>1 DEF Notes, Venc, Lenses
  <1>8. Good(k, p, f, Camera(b, a, r, m, e))
    OBVIOUS
  <1> HIDE DEF e, m
  <1>9. Good(k, Then(s, p), f, Camera(b, a, r, n, d))
    BY <1>3, <1>4, <1>5, <1>6, <1>7, <1>8, NoteScene DEF x
  <1> QED
    BY <1>9 DEF s

LEMMA NotesView ==
    ASSUME NEW k, NEW to, NEW p, NEW f, NEW b, NEW a, NEW r, NEW n, NEW d \in Scenes,
           IsProgram(p),
           Good(k, p, f, Camera(b, a, r, n, [d EXCEPT !.hfov = View(to, d.optics, d.ratio)]))
    PROVE  Good(k, Then(Note("hfov", to), p), f, Camera(b, a, r, n, d))
PROOF
  <1> DEFINE s == Note("hfov", to)
             e == [d EXCEPT !.hfov = View(to, d.optics, d.ratio)]
             m == n
             x == Camera(b, a, r, n, d)
  <1>1. s.op = "note" /\ s.on = "hfov" /\ s.to = to
    BY DEF Note, Do, Step
  <1>2. x.impl = Structure(n, d) /\ x.hw = Hardware(b, a, r, d) /\ x.stale = d.stale
    BY DEF Camera
  <1> HIDE DEF s, x
  <1>3. AfterImpl(s, x) = Structure(m, e)
    <2> DEFINE i == Structure(n, d)
    <2>1. AfterImpl(s, x) = [i EXCEPT !.hfov = View(to, d.optics, d.ratio)]
      <3>1. i.attr = n /\ i.ratio = d.ratio /\ x.impl = i /\ x.hw.optics = d.optics
        BY <1>2 DEF Structure, Hardware
      <3> HIDE DEF i
      <3> QED
        BY <1>1, <3>1 DEF AfterImpl
    <2>2. [i EXCEPT !.hfov = View(to, d.optics, d.ratio)] = Structure(m, e)
      <3> DEFINE w == View(to, d.optics, d.ratio)
      <3>1. e.group = d.group /\ e.thermal = d.thermal /\ e.zoom = d.zoom /\ e.hfov = w /\ e.ratio = d.ratio /\ e.inverted = d.inverted /\ e.cfg = d.cfg
        BY DEF Scenes
      <3>2. m = n
        OBVIOUS
      <3>3. [i EXCEPT !.hfov = w] = Structure(m, e)
        <4>1. i = Structure(n, d)
          OBVIOUS
        <4> HIDE DEF e, m, w, i
        <4> QED
          BY <3>1, <3>2, <4>1, StructureHfov
      <3> QED
        BY <3>3
    <2> QED
      BY <2>1, <2>2
  <1>4. AfterStale(s, x) = e.stale
    BY <1>1, <1>2 DEF AfterStale, Noted, Notes, Scenes, Venc, Lenses
  <1>5. Hardware(b, a, r, e) = Hardware(b, a, r, d) /\ e.on = d.on /\ e.off = d.off
    BY DEF Hardware, Scenes
  <1>6. /\ e.config = (IF s.on = "config" THEN s.to ELSE d.config)
        /\ e.upside = (IF s.on = "media_inverted" THEN s.to ELSE d.upside)
    BY <1>1 DEF Scenes, Venc, Lenses
  <1>7. s.op \in Notes /\ (s.on \in {"stale", "settled", "moved"} => s.to # "gain") /\ s.on # "cached_gain"
    BY <1>1 DEF Notes, Venc, Lenses
  <1>8. Good(k, p, f, Camera(b, a, r, m, e))
    OBVIOUS
  <1> HIDE DEF e, m
  <1>9. Good(k, Then(s, p), f, Camera(b, a, r, n, d))
    BY <1>3, <1>4, <1>5, <1>6, <1>7, <1>8, NoteScene DEF x
  <1> QED
    BY <1>9 DEF s

LEMMA NotesConfig ==
    ASSUME NEW k, NEW to, NEW p, NEW f, NEW b, NEW a, NEW r, NEW n, NEW d \in Scenes,
           IsProgram(p),
           Good(k, p, f, Camera(b, a, r, n, [d EXCEPT !.config = to]))
    PROVE  Good(k, Then(Note("config", to), p), f, Camera(b, a, r, n, d))
PROOF
  <1> DEFINE s == Note("config", to)
             e == [d EXCEPT !.config = to]
             m == n
             x == Camera(b, a, r, n, d)
  <1>1. s.op = "note" /\ s.on = "config" /\ s.to = to
    BY DEF Note, Do, Step
  <1>2. x.impl = Structure(n, d) /\ x.hw = Hardware(b, a, r, d) /\ x.stale = d.stale
    BY DEF Camera
  <1> HIDE DEF s, x
  <1>3. AfterImpl(s, x) = Structure(m, e)
    BY <1>1, <1>2 DEF AfterImpl, Structure, Scenes
  <1>4. AfterStale(s, x) = e.stale
    BY <1>1, <1>2 DEF AfterStale, Noted, Notes, Scenes, Venc, Lenses
  <1>5. Hardware(b, a, r, e) = Hardware(b, a, r, d) /\ e.on = d.on /\ e.off = d.off
    BY DEF Hardware, Scenes
  <1>6. /\ e.config = (IF s.on = "config" THEN s.to ELSE d.config)
        /\ e.upside = (IF s.on = "media_inverted" THEN s.to ELSE d.upside)
    BY <1>1 DEF Scenes, Venc, Lenses
  <1>7. s.op \in Notes /\ (s.on \in {"stale", "settled", "moved"} => s.to # "gain") /\ s.on # "cached_gain"
    BY <1>1 DEF Notes, Venc, Lenses
  <1>8. Good(k, p, f, Camera(b, a, r, m, e))
    OBVIOUS
  <1> HIDE DEF e, m
  <1>9. Good(k, Then(s, p), f, Camera(b, a, r, n, d))
    BY <1>3, <1>4, <1>5, <1>6, <1>7, <1>8, NoteScene DEF x
  <1> QED
    BY <1>9 DEF s

LEMMA NotesUpside ==
    ASSUME NEW k, NEW to, NEW p, NEW f, NEW b, NEW a, NEW r, NEW n, NEW d \in Scenes,
           IsProgram(p),
           Good(k, p, f, Camera(b, a, r, n, [d EXCEPT !.upside = to]))
    PROVE  Good(k, Then(Note("media_inverted", to), p), f, Camera(b, a, r, n, d))
PROOF
  <1> DEFINE s == Note("media_inverted", to)
             e == [d EXCEPT !.upside = to]
             m == n
             x == Camera(b, a, r, n, d)
  <1>1. s.op = "note" /\ s.on = "media_inverted" /\ s.to = to
    BY DEF Note, Do, Step
  <1>2. x.impl = Structure(n, d) /\ x.hw = Hardware(b, a, r, d) /\ x.stale = d.stale
    BY DEF Camera
  <1> HIDE DEF s, x
  <1>3. AfterImpl(s, x) = Structure(m, e)
    BY <1>1, <1>2 DEF AfterImpl, Structure, Scenes
  <1>4. AfterStale(s, x) = e.stale
    BY <1>1, <1>2 DEF AfterStale, Noted, Notes, Scenes, Venc, Lenses
  <1>5. Hardware(b, a, r, e) = Hardware(b, a, r, d) /\ e.on = d.on /\ e.off = d.off
    BY DEF Hardware, Scenes
  <1>6. /\ e.config = (IF s.on = "config" THEN s.to ELSE d.config)
        /\ e.upside = (IF s.on = "media_inverted" THEN s.to ELSE d.upside)
    BY <1>1 DEF Scenes, Venc, Lenses
  <1>7. s.op \in Notes /\ (s.on \in {"stale", "settled", "moved"} => s.to # "gain") /\ s.on # "cached_gain"
    BY <1>1 DEF Notes, Venc, Lenses
  <1>8. Good(k, p, f, Camera(b, a, r, m, e))
    OBVIOUS
  <1> HIDE DEF e, m
  <1>9. Good(k, Then(s, p), f, Camera(b, a, r, n, d))
    BY <1>3, <1>4, <1>5, <1>6, <1>7, <1>8, NoteScene DEF x
  <1> QED
    BY <1>9 DEF s

LEMMA NotesStale ==
    ASSUME NEW k, NEW to, NEW p, NEW f, NEW b, NEW a, NEW r, NEW n, NEW d \in Scenes,
           IsProgram(p), to # "gain",
           Good(k, p, f, Camera(b, a, r, n, [d EXCEPT !.stale = d.stale \cup {to}]))
    PROVE  Good(k, Then(Note("stale", to), p), f, Camera(b, a, r, n, d))
PROOF
  <1> DEFINE s == Note("stale", to)
             e == [d EXCEPT !.stale = d.stale \cup {to}]
             m == n
             x == Camera(b, a, r, n, d)
  <1>1. s.op = "note" /\ s.on = "stale" /\ s.to = to
    BY DEF Note, Do, Step
  <1>2. x.impl = Structure(n, d) /\ x.hw = Hardware(b, a, r, d) /\ x.stale = d.stale
    BY DEF Camera
  <1> HIDE DEF s, x
  <1>3. AfterImpl(s, x) = Structure(m, e)
    BY <1>1, <1>2 DEF AfterImpl, Structure, Scenes
  <1>4. AfterStale(s, x) = e.stale
    BY <1>1, <1>2 DEF AfterStale, Noted, Notes, Scenes, Venc, Lenses
  <1>5. Hardware(b, a, r, e) = Hardware(b, a, r, d) /\ e.on = d.on /\ e.off = d.off
    BY DEF Hardware, Scenes
  <1>6. /\ e.config = (IF s.on = "config" THEN s.to ELSE d.config)
        /\ e.upside = (IF s.on = "media_inverted" THEN s.to ELSE d.upside)
    BY <1>1 DEF Scenes, Venc, Lenses
  <1>7. s.op \in Notes /\ (s.on \in {"stale", "settled", "moved"} => s.to # "gain") /\ s.on # "cached_gain"
    BY <1>1 DEF Notes, Venc, Lenses
  <1>8. Good(k, p, f, Camera(b, a, r, m, e))
    OBVIOUS
  <1> HIDE DEF e, m
  <1>9. Good(k, Then(s, p), f, Camera(b, a, r, n, d))
    BY <1>3, <1>4, <1>5, <1>6, <1>7, <1>8, NoteScene DEF x
  <1> QED
    BY <1>9 DEF s

LEMMA NotesSettled ==
    ASSUME NEW k, NEW to, NEW p, NEW f, NEW b, NEW a, NEW r, NEW n, NEW d \in Scenes,
           IsProgram(p), to # "gain",
           Good(k, p, f, Camera(b, a, r, n, [d EXCEPT !.stale = d.stale \ {to}]))
    PROVE  Good(k, Then(Note("settled", to), p), f, Camera(b, a, r, n, d))
PROOF
  <1> DEFINE s == Note("settled", to)
             e == [d EXCEPT !.stale = d.stale \ {to}]
             m == n
             x == Camera(b, a, r, n, d)
  <1>1. s.op = "note" /\ s.on = "settled" /\ s.to = to
    BY DEF Note, Do, Step
  <1>2. x.impl = Structure(n, d) /\ x.hw = Hardware(b, a, r, d) /\ x.stale = d.stale
    BY DEF Camera
  <1> HIDE DEF s, x
  <1>3. AfterImpl(s, x) = Structure(m, e)
    BY <1>1, <1>2 DEF AfterImpl, Structure, Scenes
  <1>4. AfterStale(s, x) = e.stale
    BY <1>1, <1>2 DEF AfterStale, Noted, Notes, Scenes, Venc, Lenses
  <1>5. Hardware(b, a, r, e) = Hardware(b, a, r, d) /\ e.on = d.on /\ e.off = d.off
    BY DEF Hardware, Scenes
  <1>6. /\ e.config = (IF s.on = "config" THEN s.to ELSE d.config)
        /\ e.upside = (IF s.on = "media_inverted" THEN s.to ELSE d.upside)
    BY <1>1 DEF Scenes, Venc, Lenses
  <1>7. s.op \in Notes /\ (s.on \in {"stale", "settled", "moved"} => s.to # "gain") /\ s.on # "cached_gain"
    BY <1>1 DEF Notes, Venc, Lenses
  <1>8. Good(k, p, f, Camera(b, a, r, m, e))
    OBVIOUS
  <1> HIDE DEF e, m
  <1>9. Good(k, Then(s, p), f, Camera(b, a, r, n, d))
    BY <1>3, <1>4, <1>5, <1>6, <1>7, <1>8, NoteScene DEF x
  <1> QED
    BY <1>9 DEF s

LEMMA NotesMoved ==
    ASSUME NEW k, NEW to, NEW p, NEW f, NEW b, NEW a, NEW r, NEW n, NEW d \in Scenes,
           IsProgram(p), to # "gain",
           Good(k, p, f, Camera(b, a, r, n, [d EXCEPT !.stale = IF "zoom" \in d.stale THEN d.stale \cup {to} ELSE d.stale]))
    PROVE  Good(k, Then(Note("moved", to), p), f, Camera(b, a, r, n, d))
PROOF
  <1> DEFINE s == Note("moved", to)
             e == [d EXCEPT !.stale = IF "zoom" \in d.stale THEN d.stale \cup {to} ELSE d.stale]
             m == n
             x == Camera(b, a, r, n, d)
  <1>1. s.op = "note" /\ s.on = "moved" /\ s.to = to
    BY DEF Note, Do, Step
  <1>2. x.impl = Structure(n, d) /\ x.hw = Hardware(b, a, r, d) /\ x.stale = d.stale
    BY DEF Camera
  <1> HIDE DEF s, x
  <1>3. AfterImpl(s, x) = Structure(m, e)
    BY <1>1, <1>2 DEF AfterImpl, Structure, Scenes
  <1>4. AfterStale(s, x) = e.stale
    BY <1>1, <1>2 DEF AfterStale, Noted, Notes, Scenes, Venc, Lenses
  <1>5. Hardware(b, a, r, e) = Hardware(b, a, r, d) /\ e.on = d.on /\ e.off = d.off
    BY DEF Hardware, Scenes
  <1>6. /\ e.config = (IF s.on = "config" THEN s.to ELSE d.config)
        /\ e.upside = (IF s.on = "media_inverted" THEN s.to ELSE d.upside)
    BY <1>1 DEF Scenes, Venc, Lenses
  <1>7. s.op \in Notes /\ (s.on \in {"stale", "settled", "moved"} => s.to # "gain") /\ s.on # "cached_gain"
    BY <1>1 DEF Notes, Venc, Lenses
  <1>8. Good(k, p, f, Camera(b, a, r, m, e))
    OBVIOUS
  <1> HIDE DEF e, m
  <1>9. Good(k, Then(s, p), f, Camera(b, a, r, n, d))
    BY <1>3, <1>4, <1>5, <1>6, <1>7, <1>8, NoteScene DEF x
  <1> QED
    BY <1>9 DEF s

LEMMA NotesAttr ==
    ASSUME NEW k, NEW v, NEW to, NEW p, NEW f, NEW b, NEW a, NEW r, NEW n, NEW d \in Scenes,
           IsProgram(p), v \in Venc,
           Good(k, p, f, Camera(b, a, r, [n EXCEPT ![v] = to], d))
    PROVE  Good(k, Then(Do("noteattr", v, to), p), f, Camera(b, a, r, n, d))
PROOF
  <1> DEFINE s == Do("noteattr", v, to)
             e == d
             m == [n EXCEPT ![v] = to]
             x == Camera(b, a, r, n, d)
  <1>1. s.op = "noteattr" /\ s.on = v /\ s.to = to
    BY DEF Note, Do, Step
  <1>2. x.impl = Structure(n, d) /\ x.hw = Hardware(b, a, r, d) /\ x.stale = d.stale
    BY DEF Camera
  <1> HIDE DEF s, x
  <1>3. AfterImpl(s, x) = Structure(m, e)
    <2> DEFINE i == Structure(n, d)
    <2>1. AfterImpl(s, x) = [i EXCEPT !.attr = [n EXCEPT ![v] = to]]
      <3>1. i.attr = n /\ i.ratio = d.ratio /\ x.impl = i /\ x.hw.optics = d.optics
        BY <1>2 DEF Structure, Hardware
      <3> HIDE DEF i
      <3> QED
        BY <1>1, <3>1 DEF AfterImpl
    <2>2. [i EXCEPT !.attr = [n EXCEPT ![v] = to]] = Structure(m, e)
      <3> DEFINE w == [n EXCEPT ![v] = to]
      <3>1. e.group = d.group /\ e.thermal = d.thermal /\ e.zoom = d.zoom /\ e.hfov = d.hfov /\ e.ratio = d.ratio /\ e.inverted = d.inverted /\ e.cfg = d.cfg
        BY DEF Scenes
      <3>2. m = w
        OBVIOUS
      <3>3. [i EXCEPT !.attr = w] = Structure(m, e)
        <4>1. i = Structure(n, d)
          OBVIOUS
        <4> HIDE DEF e, m, w, i
        <4> QED
          BY <3>1, <3>2, <4>1, StructureAttr
      <3> QED
        BY <3>3
    <2> QED
      BY <2>1, <2>2
  <1>4. AfterStale(s, x) = e.stale
    BY <1>1, <1>2 DEF AfterStale, Noted, Notes, Scenes, Venc, Lenses
  <1>5. Hardware(b, a, r, e) = Hardware(b, a, r, d) /\ e.on = d.on /\ e.off = d.off
    BY DEF Hardware, Scenes
  <1>6. /\ e.config = (IF s.on = "config" THEN s.to ELSE d.config)
        /\ e.upside = (IF s.on = "media_inverted" THEN s.to ELSE d.upside)
    BY <1>1 DEF Scenes, Venc, Lenses
  <1>7. s.op \in Notes /\ (s.on \in {"stale", "settled", "moved"} => s.to # "gain") /\ s.on # "cached_gain"
    BY <1>1 DEF Notes, Venc, Lenses
  <1>8. Good(k, p, f, Camera(b, a, r, m, e))
    OBVIOUS
  <1> HIDE DEF e, m
  <1>9. Good(k, Then(s, p), f, Camera(b, a, r, n, d))
    BY <1>3, <1>4, <1>5, <1>6, <1>7, <1>8, NoteScene DEF x
  <1> QED
    BY <1>9 DEF s

LEMMA NotesRatio ==
    ASSUME NEW k, NEW v, NEW to, NEW p, NEW f, NEW b, NEW a, NEW r, NEW n, NEW d \in Scenes,
           IsProgram(p), v \in Lenses,
           Good(k, p, f, Camera(b, a, r, n, [d EXCEPT !.ratio = [d.ratio EXCEPT ![v] = to]]))
    PROVE  Good(k, Then(Do("noteratio", v, to), p), f, Camera(b, a, r, n, d))
PROOF
  <1> DEFINE s == Do("noteratio", v, to)
             e == [d EXCEPT !.ratio = [d.ratio EXCEPT ![v] = to]]
             m == n
             x == Camera(b, a, r, n, d)
  <1>1. s.op = "noteratio" /\ s.on = v /\ s.to = to
    BY DEF Note, Do, Step
  <1>2. x.impl = Structure(n, d) /\ x.hw = Hardware(b, a, r, d) /\ x.stale = d.stale
    BY DEF Camera
  <1> HIDE DEF s, x
  <1>3. AfterImpl(s, x) = Structure(m, e)
    <2> DEFINE i == Structure(n, d)
    <2>1. AfterImpl(s, x) = [i EXCEPT !.ratio = [d.ratio EXCEPT ![v] = to]]
      <3>1. i.attr = n /\ i.ratio = d.ratio /\ x.impl = i /\ x.hw.optics = d.optics
        BY <1>2 DEF Structure, Hardware
      <3> HIDE DEF i
      <3> QED
        BY <1>1, <3>1 DEF AfterImpl
    <2>2. [i EXCEPT !.ratio = [d.ratio EXCEPT ![v] = to]] = Structure(m, e)
      <3> DEFINE w == [d.ratio EXCEPT ![v] = to]
      <3>1. e.group = d.group /\ e.thermal = d.thermal /\ e.zoom = d.zoom /\ e.hfov = d.hfov /\ e.ratio = w /\ e.inverted = d.inverted /\ e.cfg = d.cfg
        BY DEF Scenes
      <3>2. m = n
        OBVIOUS
      <3>3. [i EXCEPT !.ratio = w] = Structure(m, e)
        <4>1. i = Structure(n, d)
          OBVIOUS
        <4> HIDE DEF e, m, w, i
        <4> QED
          BY <3>1, <3>2, <4>1, StructureRatio
      <3> QED
        BY <3>3
    <2> QED
      BY <2>1, <2>2
  <1>4. AfterStale(s, x) = e.stale
    BY <1>1, <1>2 DEF AfterStale, Noted, Notes, Scenes, Venc, Lenses
  <1>5. Hardware(b, a, r, e) = Hardware(b, a, r, d) /\ e.on = d.on /\ e.off = d.off
    BY DEF Hardware, Scenes
  <1>6. /\ e.config = (IF s.on = "config" THEN s.to ELSE d.config)
        /\ e.upside = (IF s.on = "media_inverted" THEN s.to ELSE d.upside)
    BY <1>1 DEF Scenes, Venc, Lenses
  <1>7. s.op \in Notes /\ (s.on \in {"stale", "settled", "moved"} => s.to # "gain") /\ s.on # "cached_gain"
    BY <1>1 DEF Notes, Venc, Lenses
  <1>8. Good(k, p, f, Camera(b, a, r, m, e))
    OBVIOUS
  <1> HIDE DEF e, m
  <1>9. Good(k, Then(s, p), f, Camera(b, a, r, n, d))
    BY <1>3, <1>4, <1>5, <1>6, <1>7, <1>8, NoteScene DEF x
  <1> QED
    BY <1>9 DEF s

\* The optics are the one call that leaves a trace when it fails.
LEMMA MovesOptics ==
    ASSUME NEW k, NEW to, NEW else, NEW p, NEW f, NEW b, NEW a, NEW r, NEW n, NEW d \in Scenes,
           IsProgram(p),
           Good(k, p, f, Camera(b, a, r, n, [d EXCEPT !.optics = to])),
           ~f => Good(k, else, TRUE, Camera(b, a, r, n, [d EXCEPT !.optics = 0]))
    PROVE  Good(k, Then(Step("optics", "none", to, else), p), f, Camera(b, a, r, n, d))
PROOF
  <1> DEFINE s == Step("optics", "none", to, else)
             x == Camera(b, a, r, n, d)
             e == [d EXCEPT !.optics = to]
             z == [d EXCEPT !.optics = 0]
  <1>1. s.op = "optics" /\ s.on = "none" /\ s.to = to /\ s.else = else
    BY DEF Step
  <1>2. /\ x.hw = Hardware(b, a, r, d) /\ x.impl = Structure(n, d) /\ x.config = d.config
        /\ x.inverted = d.upside /\ x.stale = d.stale /\ x.on = d.on /\ x.off = d.off
        /\ x = [hw |-> x.hw, impl |-> x.impl, config |-> x.config, inverted |-> x.inverted,
                stale |-> x.stale, on |-> x.on, off |-> x.off]
    BY DEF Camera
  <1>3. ASSUME NEW w, NEW y, y = [d EXCEPT !.optics = w]
        PROVE  /\ [Hardware(b, a, r, d) EXCEPT !.optics = w] = Hardware(b, a, r, y)
               /\ Structure(n, y) = Structure(n, d) /\ y.config = d.config /\ y.upside = d.upside
               /\ y.stale = d.stale /\ y.on = d.on /\ y.off = d.off
    <2>1. y.crop = d.crop /\ y.flip = d.flip /\ y.still = d.still /\ y.optics = w
      BY <1>3 DEF Scenes
    <2>2. [Hardware(b, a, r, d) EXCEPT !.optics = w] = Hardware(b, a, r, y)
      BY <2>1 DEF Hardware
    <2>3. y.group = d.group /\ y.thermal = d.thermal /\ y.zoom = d.zoom /\ y.hfov = d.hfov
          /\ y.ratio = d.ratio /\ y.inverted = d.inverted /\ y.cfg = d.cfg
      BY <1>3 DEF Scenes
    <2>4. y.config = d.config /\ y.upside = d.upside /\ y.stale = d.stale /\ y.on = d.on /\ y.off = d.off
      BY <1>3 DEF Scenes
    <2> QED
      BY <2>2, <2>3, <2>4 DEF Structure
  <1>4. e = [d EXCEPT !.optics = to] /\ z = [d EXCEPT !.optics = 0]
    OBVIOUS
  <1> HIDE DEF s, e, x, z
  <1>5. s.op \notin Macros /\ s.op \in Fallible
    BY <1>1 DEF Macros, Fallible
  <1>6. Timely(k, s, x)
    BY <1>1 DEF Timely, Unsettles, Noted, Notes
  <1>7. After(s, x) = Camera(b, a, r, n, e)
    <2>1. Effect(x.hw, s) = Hardware(b, a, r, e)
      <3> DEFINE g == x.hw
      <3>1. Effect(g, s) = [g EXCEPT !.optics = to]
        <4> HIDE DEF g
        <4> QED
          BY <1>1 DEF Effect
      <3>2. g = Hardware(b, a, r, d)
        BY <1>2
      <3>3. [Hardware(b, a, r, d) EXCEPT !.optics = to] = Hardware(b, a, r, e)
        BY <1>3, <1>4
      <3> HIDE DEF g
      <3>4. Effect(g, s) = Hardware(b, a, r, e)
        BY <3>1, <3>2, <3>3
      <3> QED
        BY <3>4 DEF g
    <2>2. AfterImpl(s, x) = x.impl /\ AfterStale(s, x) = x.stale
      BY <1>1 DEF AfterImpl, AfterStale, Noted, Notes
    <2>3. /\ x.impl = Structure(n, e) /\ x.config = e.config /\ x.inverted = e.upside
          /\ x.stale = e.stale /\ x.on = e.on /\ x.off = e.off
      BY <1>2, <1>3, <1>4
    <2>4. After(s, x) = [hw |-> Hardware(b, a, r, e), impl |-> x.impl, config |-> x.config,
                         inverted |-> x.inverted, stale |-> x.stale, on |-> x.on, off |-> x.off]
      BY <1>1, <2>1, <2>2 DEF After, Noted, Notes
    <2> QED
      BY <2>3, <2>4 DEF Camera
  <1>8. Failed(s, x) = Camera(b, a, r, n, z)
    <2>1. /\ x.impl = Structure(n, z) /\ x.config = z.config /\ x.inverted = z.upside
          /\ x.stale = z.stale /\ x.on = z.on /\ x.off = z.off
      BY <1>2, <1>3, <1>4
    <2>2. [x.hw EXCEPT !.optics = 0] = Hardware(b, a, r, z)
      BY <1>2, <1>3, <1>4
    <2>3. Failed(s, x) = [hw |-> [x.hw EXCEPT !.optics = 0], impl |-> x.impl, config |-> x.config,
                          inverted |-> x.inverted, stale |-> x.stale, on |-> x.on, off |-> x.off]
      BY <1>1 DEF Failed
    <2> DEFINE h == [x.hw EXCEPT !.optics = 0]
    <2>4. h = Hardware(b, a, r, z)
      BY <2>2
    <2> HIDE DEF h
    <2> QED
      BY <2>1, <2>3, <2>4 DEF h, Camera
  <1>9. Good(k, p, f, After(s, x)) /\ (s.op \in Fallible /\ ~f => Good(k, s.else, TRUE, Failed(s, x)))
    BY <1>1, <1>7, <1>8 DEF e, z
  <1>10. Good(k, Then(s, p), f, x)
    BY <1>5, <1>6, <1>9, GoodStep
  <1> QED
    BY <1>10 DEF s, x

\* The world without a pipeline, and the scene of a pipeline just opened.
Shut(c, u, t) ==
    [hw |-> Off, impl |-> Closed, config |-> c, inverted |-> u, stale |-> t, on |-> FALSE, off |-> TRUE]
Fresh(g, c, u) ==
    [optics |-> 1, crop |-> [l \in Lenses |-> 1], flip |-> [i \in 1 .. Ports |-> FALSE], still |-> {},
     group |-> "wide", thermal |-> FALSE, zoom |-> 1, hfov |-> <<"wide", 1>>, ratio |-> [l \in Lenses |-> 1],
     inverted |-> FALSE, cfg |-> g, config |-> c, upside |-> u, stale |-> {}, on |-> FALSE, off |-> TRUE]

LEMMA OpenedCamera ==
    ASSUME NEW g, NEW c, NEW u
    PROVE  On = Hardware(Binds(Fresh(g, c, u)), Attrs(FALSE), Running, Fresh(g, c, u))
           /\ Opened(g) = Structure(Attrs(FALSE), Fresh(g, c, u))
PROOF
  <1> DEFINE d == Fresh(g, c, u)
             lenses == [l \in Lenses |-> 1]
             upright == [i \in 1 .. Ports |-> FALSE]
             wide == <<"wide", 1>>
             free == [v \in Venc |-> <<>>]
             bound == [v \in Venc |-> Source(v, "wide", FALSE)]
             rgb == [v \in Venc |-> Attr(v, FALSE)]
             rest == [v \in Venc |-> FALSE]
             all == [v \in Venc |-> TRUE]
             no == FALSE
             yes == TRUE
             nothing == {}
  <1>1. Off = [bind |-> free, attr |-> rgb, run |-> rest, optics |-> 1, crop |-> lenses, flip |-> upright,
               still |-> nothing]
    BY DEF Off, Lenses
  <1>2. Closed = [open |-> no, group |-> "wide", thermal |-> no, zoom |-> 1, hfov |-> wide, ratio |-> lenses,
                  attr |-> rgb, inverted |-> no, cfg |-> "none"]
    BY DEF Closed, Lenses
  <1>3. /\ d.optics = 1 /\ d.crop = lenses /\ d.flip = upright /\ d.still = nothing
        /\ d.group = "wide" /\ d.thermal = no /\ d.zoom = 1 /\ d.hfov = wide /\ d.ratio = lenses
        /\ d.inverted = no /\ d.cfg = g
    BY DEF Fresh
  <1>4. Binds(d) = bound /\ Attrs(FALSE) = rgb /\ Running = all
    BY DEF Binds, Attrs, Running, Fresh
  <1>5. On = [Off EXCEPT !.bind = bound, !.run = all]
    BY DEF On
  <1>6. Opened(g) = [Closed EXCEPT !.open = yes, !.cfg = g]
    BY DEF Opened
  <1>7. Structure(rgb, d) = [open |-> yes, group |-> d.group, thermal |-> d.thermal, zoom |-> d.zoom, hfov |-> d.hfov,
                             ratio |-> d.ratio, attr |-> rgb, inverted |-> d.inverted, cfg |-> d.cfg]
    BY DEF Structure
  <1> HIDE DEF lenses, upright, wide, free, bound, rgb, rest, all, no, yes, nothing, d
  <1>8. On = Hardware(bound, rgb, all, d)
    <2> DEFINE x == Off
               y == [x EXCEPT !.bind = bound, !.run = all]
    <2> HIDE DEF x
    <2>0. x = [bind |-> free, attr |-> rgb, run |-> rest, optics |-> 1, crop |-> lenses, flip |-> upright,
               still |-> nothing]
      BY <1>1 DEF x
    <2>1. DOMAIN y = {"bind", "attr", "run", "optics", "crop", "flip", "still"}
      BY <2>0
    <2>2. y.bind = bound /\ y.attr = rgb /\ y.run = all /\ y.optics = 1 /\ y.crop = lenses /\ y.flip = upright
          /\ y.still = nothing
      BY <2>0
    <2>3. y = [j \in DOMAIN y |-> y[j]]
      OBVIOUS
    <2> HIDE DEF y
    <2>4. y = [bind |-> bound, attr |-> rgb, run |-> all, optics |-> 1, crop |-> lenses, flip |-> upright,
               still |-> nothing]
      BY <2>1, <2>2, <2>3
    <2>5. y = Hardware(bound, rgb, all, d)
      BY <1>3, <2>4 DEF Hardware
    <2> QED
      BY <1>5, <2>5 DEF x, y
  <1>9. Opened(g) = Structure(rgb, d)
    <2> DEFINE x == Closed
               y == [x EXCEPT !.open = yes, !.cfg = g]
    <2> HIDE DEF x
    <2>0. x = [open |-> no, group |-> "wide", thermal |-> no, zoom |-> 1, hfov |-> wide, ratio |-> lenses,
               attr |-> rgb, inverted |-> no, cfg |-> "none"]
      BY <1>2 DEF x
    <2>1. DOMAIN y = {"open", "group", "thermal", "zoom", "hfov", "ratio", "attr", "inverted", "cfg"}
      BY <2>0
    <2>2. y.open = yes /\ y.group = "wide" /\ y.thermal = no /\ y.zoom = 1 /\ y.hfov = wide /\ y.ratio = lenses
          /\ y.attr = rgb /\ y.inverted = no /\ y.cfg = g
      BY <2>0
    <2>3. y = [j \in DOMAIN y |-> y[j]]
      OBVIOUS
    <2> HIDE DEF y
    <2>4. y = [open |-> yes, group |-> "wide", thermal |-> no, zoom |-> 1, hfov |-> wide, ratio |-> lenses,
               attr |-> rgb, inverted |-> no, cfg |-> g]
      BY <2>1, <2>2, <2>3
    <2>5. y = Structure(rgb, d)
      BY <1>3, <1>7, <2>4
    <2> QED
      BY <1>6, <2>5 DEF x, y
  <1> QED
    BY <1>4, <1>8, <1>9 DEF d

LEMMA Opens ==
    ASSUME NEW k, NEW g, NEW else, NEW p, NEW f, NEW c, NEW u, NEW t, IsProgram(p),
           Good(k, p, f, Settled(Fresh(g, c, u))),
           ~f => Good(k, else, TRUE, Shut(c, u, t))
    PROVE  Good(k, Then(Step("open", "none", g, else), p), f, Shut(c, u, t))
PROOF
  <1> DEFINE s == Step("open", "none", g, else)
             x == Shut(c, u, t)
             d == Fresh(g, c, u)
  <1>1. s.op = "open" /\ s.on = "none" /\ s.to = g /\ s.else = else
    BY DEF Step
  <1>2. /\ x.hw = Off /\ x.impl = Closed /\ x.config = c /\ x.inverted = u
        /\ x.stale = t /\ x.on = FALSE /\ x.off = TRUE
        /\ x = [hw |-> x.hw, impl |-> x.impl, config |-> x.config, inverted |-> x.inverted,
                stale |-> x.stale, on |-> x.on, off |-> x.off]
    BY DEF Shut
  <1>3. d.config = c /\ d.upside = u /\ d.stale = {} /\ d.on = FALSE /\ d.off = TRUE /\ d.thermal = FALSE
    BY DEF Fresh
  <1>4. On = Hardware(Binds(d), Attrs(FALSE), Running, d) /\ Opened(g) = Structure(Attrs(FALSE), d)
    BY OpenedCamera
  <1> HIDE DEF s, x, d
  <1>5. s.op \notin Macros /\ s.op \in Fallible
    BY <1>1 DEF Macros, Fallible
  <1>6. Timely(k, s, x)
    BY <1>1, <1>2 DEF Timely, Unsettles, Noted, Notes
  <1>7. After(s, x) = Settled(d)
    <2>1. Effect(x.hw, s) = On
      BY <1>1 DEF Effect
    <2>2. AfterImpl(s, x) = Opened(g) /\ AfterStale(s, x) = {}
      <3>1. AfterImpl(s, x) = Opened(g)
        BY <1>1, Zenon DEF AfterImpl
      <3>2. AfterStale(s, x) = {}
        BY <1>1 DEF AfterStale, Noted, Notes
      <3> QED
        BY <3>1, <3>2
    <2>3. After(s, x) = [hw |-> On, impl |-> Opened(g), config |-> x.config,
                         inverted |-> x.inverted, stale |-> {}, on |-> x.on, off |-> x.off]
      BY <1>1, <2>1, <2>2 DEF After, Noted, Notes
    <2> QED
      BY <1>2, <1>3, <1>4, <2>3 DEF Settled, Camera
  <1>8. Failed(s, x) = x
    <2>1. Failed(s, x) = [hw |-> x.hw, impl |-> Closed, config |-> x.config,
                          inverted |-> x.inverted, stale |-> x.stale, on |-> x.on, off |-> x.off]
      BY <1>1 DEF Failed
    <2> QED
      BY <1>2, <2>1
  <1>9. Good(k, p, f, After(s, x)) /\ (s.op \in Fallible /\ ~f => Good(k, s.else, TRUE, Failed(s, x)))
    BY <1>1, <1>7, <1>8 DEF x, d
  <1>10. Good(k, Then(s, p), f, x)
    BY <1>5, <1>6, <1>9, GoodStep
  <1> QED
    BY <1>10 DEF s, x

LEMMA Closes ==
    ASSUME NEW k, NEW p, NEW f, NEW x, IsProgram(p), x.off,
           Good(k, p, f, Shut(x.config, x.inverted, x.stale)), x.off = TRUE
    PROVE  Good(k, Then(Do("close", "none", "none"), p), f, x)
PROOF
  <1> DEFINE s == Do("close", "none", "none")
  <1>1. s.op = "close" /\ s.on = "none" /\ s.to = "none"
    BY DEF Do, Step
  <1> HIDE DEF s
  <1>2. s.op \notin Macros /\ s.op \notin Fallible
    BY <1>1 DEF Macros, Fallible
  <1>3. Timely(k, s, x)
    BY <1>1 DEF Timely, Unsettles, Noted, Notes
  <1>4. After(s, x) = Shut(x.config, x.inverted, x.stale)
    <2>1. Effect(x.hw, s) = Off
      BY <1>1 DEF Effect
    <2>2. AfterImpl(s, x) = Closed /\ AfterStale(s, x) = x.stale
      BY <1>1 DEF AfterImpl, AfterStale, Noted, Notes
    <2> QED
      BY <1>1, <2>1, <2>2 DEF After, Noted, Notes, Shut
  <1>5. Good(k, Then(s, p), f, x)
    BY <1>2, <1>3, <1>4, GoodStep
  <1> QED
    BY <1>5 DEF s

\* Steps of the monitor, and the gain put back while it is away.
LEMMA StopsMonitor ==
    ASSUME NEW k, NEW p, NEW f, NEW x, IsProgram(p),
           x = [hw |-> x.hw, impl |-> x.impl, config |-> x.config, inverted |-> x.inverted,
                stale |-> x.stale, on |-> x.on, off |-> x.off],
           Good(k, p, f, [x EXCEPT !.off = TRUE])
    PROVE  Good(k, Then(Do("stop_monitor", "none", "none"), p), f, x)
PROOF
  <1> DEFINE s == Do("stop_monitor", "none", "none")
  <1>1. s.op = "stop_monitor" /\ s.on = "none" /\ s.to = "none"
    BY DEF Do, Step
  <1> HIDE DEF s
  <1>2. s.op \notin Macros /\ s.op \notin Fallible
    BY <1>1 DEF Macros, Fallible
  <1>3. Timely(k, s, x)
    BY <1>1 DEF Timely, Unsettles, Noted, Notes
  <1>4. After(s, x) = [x EXCEPT !.off = TRUE]
    <2>1. Effect(x.hw, s) = x.hw
      BY <1>1 DEF Effect
    <2>2. AfterImpl(s, x) = x.impl /\ AfterStale(s, x) = x.stale
      BY <1>1 DEF AfterImpl, AfterStale, Noted, Notes
    <2>3. After(s, x) = [hw |-> x.hw, impl |-> x.impl, config |-> x.config, inverted |-> x.inverted,
                         stale |-> x.stale, on |-> x.on, off |-> TRUE]
      BY <1>1, <2>1, <2>2 DEF After, Noted, Notes
    <2> DEFINE w == TRUE
    <2>4. After(s, x) = [hw |-> x.hw, impl |-> x.impl, config |-> x.config, inverted |-> x.inverted,
                         stale |-> x.stale, on |-> x.on, off |-> w]
      BY <2>3
    <2> HIDE DEF w
    <2>5. After(s, x) = [x EXCEPT !.off = w]
      BY <2>4
    <2> QED
      BY <2>5 DEF w
  <1>5. Good(k, Then(s, p), f, x)
    BY <1>2, <1>3, <1>4, GoodStep
  <1> QED
    BY <1>5 DEF s

LEMMA StartsMonitor ==
    ASSUME NEW k, NEW p, NEW f, NEW x, IsProgram(p), x.impl.open = TRUE,
           x = [hw |-> x.hw, impl |-> x.impl, config |-> x.config, inverted |-> x.inverted,
                stale |-> x.stale, on |-> x.on, off |-> x.off],
           Good(k, p, f, [x EXCEPT !.off = FALSE])
    PROVE  Good(k, Then(Do("start_monitor", "none", "none"), p), f, x)
PROOF
  <1> DEFINE s == Do("start_monitor", "none", "none")
  <1>1. s.op = "start_monitor" /\ s.on = "none" /\ s.to = "none"
    BY DEF Do, Step
  <1> HIDE DEF s
  <1>2. s.op \notin Macros /\ s.op \notin Fallible
    BY <1>1 DEF Macros, Fallible
  <1>3. Timely(k, s, x)
    BY <1>1 DEF Timely, Unsettles, Noted, Notes
  <1>4. After(s, x) = [x EXCEPT !.off = FALSE]
    <2>1. Effect(x.hw, s) = x.hw
      BY <1>1 DEF Effect
    <2>2. AfterImpl(s, x) = x.impl /\ AfterStale(s, x) = x.stale
      BY <1>1 DEF AfterImpl, AfterStale, Noted, Notes
    <2>3. After(s, x) = [hw |-> x.hw, impl |-> x.impl, config |-> x.config, inverted |-> x.inverted,
                         stale |-> x.stale, on |-> x.on, off |-> FALSE]
      BY <1>1, <2>1, <2>2 DEF After, Noted, Notes
    <2> DEFINE w == FALSE
    <2>4. After(s, x) = [hw |-> x.hw, impl |-> x.impl, config |-> x.config, inverted |-> x.inverted,
                         stale |-> x.stale, on |-> x.on, off |-> w]
      BY <2>3
    <2> HIDE DEF w
    <2>5. After(s, x) = [x EXCEPT !.off = w]
      BY <2>4
    <2> QED
      BY <2>5 DEF w
  <1>5. Good(k, Then(s, p), f, x)
    BY <1>2, <1>3, <1>4, GoodStep
  <1> QED
    BY <1>5 DEF s

LEMMA PutsGain ==
    ASSUME NEW k, NEW to, NEW else, NEW p, NEW f, NEW x, IsProgram(p), x.off = TRUE, to = k.gain,
           x = [hw |-> x.hw, impl |-> x.impl, config |-> x.config, inverted |-> x.inverted,
                stale |-> x.stale, on |-> x.on, off |-> x.off],
           Good(k, p, f, x), ~f => Good(k, else, TRUE, x)
    PROVE  Good(k, Then(Step("gain", "none", to, else), p), f, x)
PROOF
  <1> DEFINE s == Step("gain", "none", to, else)
  <1>1. s.op = "gain" /\ s.on = "none" /\ s.to = to /\ s.else = else
    BY DEF Step
  <1> HIDE DEF s
  <1>2. s.op \notin Macros /\ s.op \in Fallible
    BY <1>1 DEF Macros, Fallible
  <1>3. Timely(k, s, x)
    BY <1>1 DEF Timely, Unsettles, Noted, Notes
  <1>4. After(s, x) = x
    <2>1. Effect(x.hw, s) = x.hw
      BY <1>1 DEF Effect
    <2>2. AfterImpl(s, x) = x.impl /\ AfterStale(s, x) = x.stale
      BY <1>1 DEF AfterImpl, AfterStale, Noted, Notes
    <2> QED
      BY <1>1, <2>1, <2>2 DEF After, Noted, Notes
  <1>5. Failed(s, x) = x
    BY <1>1 DEF Failed
  <1>6. Good(k, Then(s, p), f, x)
    BY <1>1, <1>2, <1>3, <1>4, <1>5, GoodStep
  <1> QED
    BY <1>6 DEF s

\* What is bound to the encoders.
Wiring(b) == b = [u \in Venc |-> b[u]]
Rewire(b, v, w) == [b EXCEPT ![v] = w]

LEMMA Rewired ==
    ASSUME NEW b, Wiring(b), NEW v \in Venc, NEW w
    PROVE  /\ Wiring(Rewire(b, v, w)) /\ Rewire(b, v, w)[v] = w
           /\ \A u \in Venc \ {v} : Rewire(b, v, w)[u] = b[u]
  BY DEF Wiring, Rewire

LEMMA RewiredOn ==
    ASSUME NEW b, Wiring(b), NEW v \in Venc
    PROVE  /\ Wiring(Rewire(b, v, TRUE)) /\ Rewire(b, v, TRUE)[v] = TRUE
           /\ \A u \in Venc \ {v} : Rewire(b, v, TRUE)[u] = b[u]
  BY DEF Wiring, Rewire

LEMMA RewiredOff ==
    ASSUME NEW b, Wiring(b), NEW v \in Venc
    PROVE  /\ Wiring(Rewire(b, v, FALSE)) /\ Rewire(b, v, FALSE)[v] = FALSE
           /\ \A u \in Venc \ {v} : Rewire(b, v, FALSE)[u] = b[u]
  BY DEF Wiring, Rewire

LEMMA SameWires ==
    ASSUME NEW b, NEW c, Wiring(b), Wiring(c), \A u \in Venc : b[u] = c[u]
    PROVE  b = c
  BY DEF Wiring

\* Binding again what is bound, or free.
LEMMA Rebinds ==
    ASSUME NEW k, NEW v \in Venc, NEW to, NEW else, NEW p, NEW f, NEW b, NEW a, NEW r, NEW n, NEW d,
           IsProgram(p), Wiring(b), b[v] \in {<<>>, to}, to # <<>>,
           Good(k, p, f, Camera(Rewire(b, v, to), a, r, n, d)),
           ~f => Good(k, else, TRUE, Camera(b, a, r, n, d))
    PROVE  Good(k, Then(Step("bind", v, to, else), p), f, Camera(b, a, r, n, d))
PROOF
  <1>1. CASE b[v] = <<>>
    BY <1>1, BindsFree DEF Rewire
  <1>2. CASE b[v] # <<>>
    <2> DEFINE c == Rewire(b, v, to)
    <2>1. Good(k, p, f, Camera(c, a, r, n, d))
      OBVIOUS
    <2>2. Wiring(c) /\ c[v] = to /\ \A u \in Venc \ {v} : c[u] = b[u]
      BY Rewired
    <2> HIDE DEF c
    <2>3. b = c
      BY <1>2, <2>2, SameWires
    <2>4. Good(k, p, f, Camera(b, a, r, n, d))
      BY <2>1, <2>3
    <2> QED
      BY <1>2, <2>4, BindsBound
  <1> QED
    BY <1>1, <1>2

\* Two sources back where they were: a roll-back, in which nothing fails.
LEMMA BindsBack ==
    ASSUME NEW k, NEW v \in Venc, NEW w \in Venc, v # w, NEW from, NEW source, NEW p,
           NEW c, NEW b, NEW a, NEW r, NEW n, NEW d, IsProgram(p), Wiring(b), Wiring(c),
           from = b[v], source = b[w], from # <<>>, source # <<>>, c[v] \in {<<>>, from}, c[w] \in {<<>>, source},
           \A u \in Venc \ {v, w} : c[u] = b[u],
           Good(k, p, TRUE, Camera(b, a, r, n, d))
    PROVE  Good(k, Then(Do("bind", v, from), Then(Do("bind", w, source), p)), TRUE, Camera(c, a, r, n, d))
PROOF
  <1> DEFINE c1 == Rewire(c, v, from)
             c2 == Rewire(c1, w, source)
             q == Then(Do("bind", w, source), p)
  <1>1. Wiring(c1) /\ c1[v] = from /\ \A u \in Venc \ {v} : c1[u] = c[u]
    BY Rewired
  <1>2. c2 = Rewire(c1, w, source)
    OBVIOUS
  <1> HIDE DEF c1
  <1>3. Wiring(c2) /\ c2[w] = source /\ \A u \in Venc \ {w} : c2[u] = c1[u]
    BY <1>1, Rewired
  <1> HIDE DEF c2
  <1>4. c2 = b
    <2>1. \A u \in Venc : c2[u] = b[u]
      BY <1>1, <1>3
    <2> QED
      BY <1>3, <2>1, SameWires
  <1>5. Good(k, p, TRUE, Camera(Rewire(c1, w, source), a, r, n, d))
    BY <1>2, <1>4
  <1>6. c1[w] \in {<<>>, source}
    BY <1>1
  <1>7. Good(k, q, TRUE, Camera(c1, a, r, n, d)) /\ IsProgram(q)
    <2>1. Good(k, Then(Step("bind", w, source, <<>>), p), TRUE, Camera(c1, a, r, n, d))
      BY <1>1, <1>5, <1>6, Rebinds
    <2> QED
      BY <2>1, FirstStep DEF Do
  <1>8. Good(k, q, TRUE, Camera(Rewire(c, v, from), a, r, n, d))
    BY <1>7 DEF c1
  <1> HIDE DEF q
  <1>9. Good(k, Then(Step("bind", v, from, <<>>), q), TRUE, Camera(c, a, r, n, d))
    BY <1>7, <1>8, Rebinds
  <1> QED
    BY <1>9 DEF Do, q

Moves(v, w, from, source, to, target, back, p) ==
    Then(Step("unbind", v, from, Then(Do("unbind", w, source), back)),
    Then(Step("unbind", w, source, back),
    Then(Step("bind", v, to, back),
    Then(Step("bind", w, target, Then(Do("unbind", v, to), back)), p))))

\* Two sources taken away and others put there instead, each step undone when
\* it or the next one fails.
LEMMA MovesTwo ==
    ASSUME NEW k, NEW v \in Venc, NEW w \in Venc, v # w, NEW from, NEW source, NEW to, NEW target,
           NEW else, NEW p, NEW f, NEW b, NEW a, NEW r, NEW n, NEW d, NEW back,
           IsProgram(p), IsProgram(else), Wiring(b),
           from = b[v], source = b[w], from # <<>>, source # <<>>, to # <<>>, target # <<>>,
           Good(k, p, f, Camera(Rewire(Rewire(b, v, to), w, target), a, r, n, d)),
           ~f => Good(k, else, TRUE, Camera(b, a, r, n, d)),
           back = Then(Do("bind", v, from), Then(Do("bind", w, source), else))
    PROVE  Good(k, Moves(v, w, from, source, to, target, back, p), f, Camera(b, a, r, n, d))
PROOF
  <1> DEFINE b1 == Rewire(b, v, <<>>)
             b2 == Rewire(b1, w, <<>>)
             b3 == Rewire(b2, v, to)
             b4 == Rewire(b3, w, target)
             bw == Rewire(b, w, <<>>)
             b5 == Rewire(b, v, to)
             b6 == Rewire(b5, w, target)
             e1 == Then(Do("unbind", w, source), back)
             e4 == Then(Do("unbind", v, to), back)
             s1 == Step("unbind", v, from, e1)
             s2 == Step("unbind", w, source, back)
             s3 == Step("bind", v, to, back)
             s4 == Step("bind", w, target, e4)
  <1>a. b1 = Rewire(b, v, <<>>) /\ b2 = Rewire(b1, w, <<>>) /\ b3 = Rewire(b2, v, to)
        /\ b4 = Rewire(b3, w, target) /\ bw = Rewire(b, w, <<>>)
    OBVIOUS
  <1>p. IsProgram(back) /\ IsProgram(Then(s4, p)) /\ IsProgram(Then(s3, Then(s4, p)))
        /\ IsProgram(Then(s2, Then(s3, Then(s4, p))))
    <2>1. IsProgram(Then(Do("bind", w, source), else))
      BY FirstStep
    <2>2. IsProgram(back)
      BY <2>1, FirstStep
    <2>3. IsProgram(Then(s4, p))
      BY FirstStep
    <2>4. IsProgram(Then(s3, Then(s4, p)))
      BY <2>3, FirstStep
    <2> QED
      BY <2>2, <2>3, <2>4, FirstStep
  <1> HIDE DEF b1, b2, b3, b4, bw
  <1>1. Wiring(b1) /\ b1[v] = <<>> /\ \A u \in Venc \ {v} : b1[u] = b[u]
    BY <1>a, Rewired
  <1>2. Wiring(b2) /\ b2[w] = <<>> /\ \A u \in Venc \ {w} : b2[u] = b1[u]
    BY <1>a, <1>1, Rewired
  <1>3. Wiring(b3) /\ b3[v] = to /\ \A u \in Venc \ {v} : b3[u] = b2[u]
    BY <1>a, <1>2, Rewired
  <1>4. Wiring(b4) /\ b4[w] = target /\ \A u \in Venc \ {w} : b4[u] = b3[u]
    BY <1>a, <1>3, Rewired
  <1>5. Wiring(bw) /\ bw[w] = <<>> /\ \A u \in Venc \ {w} : bw[u] = b[u]
    BY <1>a, Rewired
  <1>6. b4 = b6
    <2>1. Wiring(b5) /\ b5[v] = to /\ \A u \in Venc \ {v} : b5[u] = b[u]
      BY Rewired
    <2> HIDE DEF b5
    <2>2. Wiring(b6) /\ b6[w] = target /\ \A u \in Venc \ {w} : b6[u] = b5[u]
      BY <2>1, Rewired
    <2> HIDE DEF b6
    <2>3. \A u \in Venc : b4[u] = b6[u]
      BY <1>1, <1>2, <1>3, <1>4, <2>1, <2>2
    <2> QED
      BY <1>4, <2>2, <2>3, SameWires
  <1>7. ASSUME ~f, NEW c, Wiring(c), c[v] \in {<<>>, from}, c[w] \in {<<>>, source},
               \A u \in Venc \ {v, w} : c[u] = b[u]
        PROVE  Good(k, back, TRUE, Camera(c, a, r, n, d))
    <2>1. Good(k, else, TRUE, Camera(b, a, r, n, d))
      BY <1>7
    <2> QED
      BY <1>7, <2>1, BindsBack
  <1>8. Good(k, Then(s4, p), f, Camera(b3, a, r, n, d))
    <2>1. Good(k, p, f, Camera(Rewire(b3, w, target), a, r, n, d))
      BY <1>a, <1>6 DEF b5, b6
    <2>2. ~f => Good(k, e4, TRUE, Camera(b3, a, r, n, d))
      <3> SUFFICES ASSUME ~f PROVE Good(k, e4, TRUE, Camera(b3, a, r, n, d))
        OBVIOUS
      <3> DEFINE c == Rewire(b3, v, <<>>)
      <3>1. Wiring(c) /\ c[v] = <<>> /\ \A u \in Venc \ {v} : c[u] = b3[u]
        BY <1>3, Rewired
      <3>2. c = Rewire(b3, v, <<>>)
        OBVIOUS
      <3> HIDE DEF c
      <3>3. Good(k, back, TRUE, Camera(c, a, r, n, d))
        BY <1>1, <1>2, <1>3, <1>7, <3>1
      <3>4. Good(k, back, TRUE, Camera(Rewire(b3, v, <<>>), a, r, n, d))
        BY <3>2, <3>3
      <3>5. Good(k, Then(Step("unbind", v, to, <<>>), back), TRUE, Camera(b3, a, r, n, d))
        BY <1>3, <1>p, <3>4, Unbinds DEF Rewire
      <3> QED
        BY <3>5 DEF Do
    <2>3. b3[w] = <<>>
      BY <1>2, <1>3
    <2> HIDE DEF e4
    <2> QED
      BY <2>1, <2>2, <2>3, BindsFree DEF Rewire
  <1>9. Good(k, Then(s3, Then(s4, p)), f, Camera(b2, a, r, n, d))
    <2> DEFINE q == Then(s4, p)
    <2>1. Good(k, q, f, Camera(Rewire(b2, v, to), a, r, n, d))
      BY <1>a, <1>8
    <2>2. ~f => Good(k, back, TRUE, Camera(b2, a, r, n, d))
      BY <1>1, <1>2, <1>7
    <2>3. b2[v] = <<>> /\ IsProgram(q)
      BY <1>1, <1>2, <1>p
    <2> HIDE DEF q
    <2>4. Good(k, Then(s3, q), f, Camera(b2, a, r, n, d))
      BY <2>1, <2>2, <2>3, BindsFree DEF Rewire
    <2> QED
      BY <2>4 DEF q
  <1>10. Good(k, Then(s2, Then(s3, Then(s4, p))), f, Camera(b1, a, r, n, d))
    <2> DEFINE q == Then(s3, Then(s4, p))
    <2>1. Good(k, q, f, Camera(Rewire(b1, w, <<>>), a, r, n, d))
      BY <1>a, <1>9
    <2>2. ~f => Good(k, back, TRUE, Camera(b1, a, r, n, d))
      BY <1>1, <1>7
    <2>3. b1[w] = source /\ IsProgram(q)
      BY <1>1, <1>p
    <2> HIDE DEF q
    <2>4. Good(k, Then(s2, q), f, Camera(b1, a, r, n, d))
      BY <2>1, <2>2, <2>3, Unbinds DEF Rewire
    <2> QED
      BY <2>4 DEF q
  <1>11. Good(k, Then(s1, Then(s2, Then(s3, Then(s4, p)))), f, Camera(b, a, r, n, d))
    <2> DEFINE q == Then(s2, Then(s3, Then(s4, p)))
    <2>1. Good(k, q, f, Camera(Rewire(b, v, <<>>), a, r, n, d))
      BY <1>a, <1>10
    <2>2. ~f => Good(k, e1, TRUE, Camera(b, a, r, n, d))
      <3> SUFFICES ASSUME ~f PROVE Good(k, e1, TRUE, Camera(b, a, r, n, d))
        OBVIOUS
      <3>1. Good(k, back, TRUE, Camera(bw, a, r, n, d))
        BY <1>5, <1>7
      <3>2. Good(k, back, TRUE, Camera(Rewire(b, w, <<>>), a, r, n, d))
        BY <1>a, <3>1
      <3>3. Good(k, Then(Step("unbind", w, source, <<>>), back), TRUE, Camera(b, a, r, n, d))
        BY <1>p, <3>2, Unbinds DEF Rewire
      <3> QED
        BY <3>3 DEF Do
    <2>3. IsProgram(q)
      BY <1>p
    <2> HIDE DEF q, e1
    <2>4. Good(k, Then(s1, q), f, Camera(b, a, r, n, d))
      BY <2>1, <2>2, <2>3, Unbinds DEF Rewire
    <2> QED
      BY <2>4 DEF q
  <1> QED
    BY <1>11 DEF Moves

-----------------------------------------------------------------------------
(* The procedures. *)

LEMMA SourceIs ==
    ASSUME NEW g, NEW t
    PROVE  /\ Source("main", g, t) # <<>> /\ Source("sub", g, t) # <<>> /\ Source("record", g, t) = <<g, "record">>
           /\ <<g, "record">> # <<>>
           /\ \A h : t => Source("main", g, t) = Source("main", h, t)
           /\ \A h : ~t => Source("sub", g, t) = Source("sub", h, t)
  BY DEF Source

LEMMA BindsAre ==
    ASSUME NEW d
    PROVE  Wiring(Binds(d)) /\ \A v \in Venc : Binds(d)[v] = Source(v, d.group, d.thermal)
  BY DEF Wiring, Binds

Looking(d, lens) == [[d EXCEPT !.group = lens] EXCEPT !.hfov = View(lens, d.optics, d.ratio)]

LEMMA ViewIs ==
    ASSUME NEW d \in Scenes, NEW lens \in Lenses
    PROVE  View(lens, d.optics, d.ratio) \in Views
PROOF
  <1>1. d.optics \in Nat /\ d.ratio \in [Lenses -> Nat]
    BY DEF Scenes
  <1>2. d.ratio["zoom"] \in Nat /\ d.ratio["wide"] \in Nat
    BY <1>1 DEF Lenses
  <1> QED
    BY <1>1, <1>2 DEF View, Views

LEMMA LookingIs ==
    ASSUME NEW d \in Scenes, NEW lens \in Lenses
    PROVE  LET e == Looking(d, lens) IN
           /\ e \in Scenes /\ e.group = lens /\ e.hfov = View(lens, d.optics, d.ratio)
           /\ e.optics = d.optics /\ e.crop = d.crop /\ e.flip = d.flip /\ e.still = d.still /\ e.thermal = d.thermal
           /\ e.zoom = d.zoom /\ e.ratio = d.ratio /\ e.inverted = d.inverted /\ e.cfg = d.cfg
           /\ e.config = d.config /\ e.upside = d.upside /\ e.stale = d.stale /\ e.on = d.on /\ e.off = d.off
PROOF
  <1> DEFINE view == View(lens, d.optics, d.ratio)
             g == [d EXCEPT !.group = lens]
  <1>1. view \in Views
    BY ViewIs
  <1>2. g \in Scenes
    BY DEF Scenes
  <1>3. /\ g.group = lens
        /\ g.optics = d.optics /\ g.crop = d.crop /\ g.flip = d.flip /\ g.still = d.still /\ g.thermal = d.thermal
        /\ g.zoom = d.zoom /\ g.ratio = d.ratio /\ g.inverted = d.inverted /\ g.cfg = d.cfg
        /\ g.config = d.config /\ g.upside = d.upside /\ g.stale = d.stale /\ g.on = d.on /\ g.off = d.off
    BY DEF Scenes
  <1>4. Looking(d, lens) = [g EXCEPT !.hfov = view]
    BY DEF Looking
  <1> HIDE DEF view, g
  <1> DEFINE e == [g EXCEPT !.hfov = view]
  <1>5. e \in Scenes
    BY <1>1, <1>2 DEF Scenes
  <1>6. /\ e.group = g.group /\ e.hfov = view
        /\ e.optics = g.optics /\ e.crop = g.crop /\ e.flip = g.flip /\ e.still = g.still /\ e.thermal = g.thermal
        /\ e.zoom = g.zoom /\ e.ratio = g.ratio /\ e.inverted = g.inverted /\ e.cfg = g.cfg
        /\ e.config = g.config /\ e.upside = g.upside /\ e.stale = g.stale /\ e.on = g.on /\ e.off = g.off
    BY <1>2 DEF Scenes
  <1> HIDE DEF e
  <1>7. Looking(d, lens) = e
    BY <1>4 DEF e
  <1> QED
    BY <1>3, <1>5, <1>6, <1>7 DEF view

LEMMA SelectsLens ==
    ASSUME NEW k, NEW lens \in Lenses, NEW else, NEW p, NEW f, NEW d \in Scenes, IsProgram(else), IsProgram(p),
           Good(k, p, f, Settled(Looking(d, lens))),
           ~f => Good(k, else, TRUE, Settled(d))
    PROVE  Good(k, Then(Step("select_lens", "none", lens, else), p), f, Settled(d))
PROOF
  <1> DEFINE a == Attrs(d.thermal)
             m == Structure(a, d)
             e == [d EXCEPT !.group = lens]
             l == Looking(d, lens)
             s == Step("select_lens", "none", lens, else)
             x == Settled(d)
             group == Note("group", lens)
             hfov == Note("hfov", lens)
             rest == Then(group, Then(hfov, p))
  <1>1. x.impl = m /\ m.group = d.group /\ m.thermal = d.thermal
    BY DEF Settled, Camera, Structure
  <1>2. s.op = "select_lens" /\ s.to = lens /\ s.else = else
    BY DEF Step
  <1>3. /\ e \in Scenes /\ e.optics = d.optics /\ e.ratio = d.ratio /\ e.thermal = d.thermal /\ e.group = lens
        /\ l.group = lens /\ l.thermal = d.thermal
    BY LookingIs DEF Scenes
  <1>4. IsProgram(Then(hfov, p)) /\ IsProgram(rest) /\ Then(hfov, p) = One(hfov) \o p
    BY FirstStep, OneJoins
  <1>5. lens # "gain" /\ d.group \in Lenses /\ d.thermal \in BOOLEAN
    BY DEF Lenses, Scenes
  <1>6. Settled(l) = Camera(Binds(e), a, Running, a, l)
    BY <1>3 DEF Settled, Binds
  <1>7. Good(k, rest, f, Camera(Binds(e), a, Running, a, d))
    <2>1. l = [e EXCEPT !.hfov = View(lens, e.optics, e.ratio)]
      BY <1>3 DEF Looking
    <2>2. Good(k, p, f, Camera(Binds(e), a, Running, a, l))
      BY <1>6
    <2> DEFINE b == Binds(e)
               v == [e EXCEPT !.hfov = View(lens, e.optics, e.ratio)]
    <2>3. Good(k, p, f, Camera(b, a, Running, a, v))
      BY <2>1, <2>2
    <2>4. e = [d EXCEPT !.group = lens]
      OBVIOUS
    <2> HIDE DEF a, b, e, hfov
    <2>5. Good(k, Then(Note("hfov", lens), p), f, Camera(b, a, Running, a, e))
      BY <1>3, <1>5, <2>3, NotesView
    <2> DEFINE q == Then(hfov, p)
    <2>6. Good(k, q, f, Camera(b, a, Running, a, [d EXCEPT !.group = lens])) /\ IsProgram(q)
      BY <1>4, <2>4, <2>5 DEF hfov
    <2> HIDE DEF q
    <2>7. Good(k, Then(Note("group", lens), q), f, Camera(b, a, Running, a, d))
      BY <1>5, <2>6, NotesGroup
    <2> QED
      BY <2>7 DEF q, b
  <1>8. Good(k, select_lens(m, lens, else) \o p, f, x)
    <2>1. CASE lens = d.group
      <3>1. select_lens(m, lens, else) = One(hfov)
        BY <1>1, <2>1, OneStep, NothingFirst DEF select_lens, One
      <3>2. e = d
        BY <2>1 DEF Scenes
      <3>3. Good(k, p, f, Camera(Binds(d), a, Running, a, [d EXCEPT !.hfov = View(lens, d.optics, d.ratio)]))
        BY <1>6, <3>2 DEF Looking
      <3> DEFINE b == Binds(d)
      <3> HIDE DEF a, b
      <3>4. Good(k, Then(Note("hfov", lens), p), f, Camera(b, a, Running, a, d))
        BY <1>5, <3>3, NotesView DEF b
      <3> QED
        BY <1>4, <3>1, <3>4 DEF a, b, Settled
    <2>2. CASE lens # d.group
      <3> DEFINE w == "record"
                 v == IF d.thermal THEN "sub" ELSE "main"
                 from == Source(v, d.group, d.thermal)
                 source == <<d.group, "record">>
                 to == Source(v, lens, d.thermal)
                 target == <<lens, "record">>
                 back == Then(Do("bind", v, from), Then(Do("bind", w, source), else))
                 s1 == Step("unbind", v, from, Then(Do("unbind", w, source), back))
                 s2 == Step("unbind", w, source, back)
                 s3 == Step("bind", v, to, back)
                 s4 == Step("bind", w, target, Then(Do("unbind", v, to), back))
                 b == Binds(d)
      <3>1. select_lens(m, lens, else) = Five(s1, s2, s3, s4, group) \o One(hfov)
        <4> DEFINE r == <<Do("bind", v, from), Do("bind", w, source)>> \o else
                   r1 == <<Do("unbind", w, source)>> \o r
                   r4 == <<Do("unbind", v, to)>> \o r
                   t1 == Step("unbind", v, from, r1)
                   t2 == Step("unbind", w, source, r)
                   t3 == Step("bind", v, to, r)
                   t4 == Step("bind", w, target, r4)
        <4>1. r = back
          <5>1. Two(Do("bind", v, from), Do("bind", w, source)) \o else = back
            BY TwoJoins
          <5> QED
            BY <5>1 DEF Two
        <4>2. select_lens(m, lens, else) = <<t1, t2, t3, t4, group>> \o <<hfov>>
          BY <1>1, <2>2 DEF select_lens
        <4> HIDE DEF r
        <4>3. r1 = Then(Do("unbind", w, source), back) /\ r4 = Then(Do("unbind", v, to), back)
          BY <4>1 DEF Then
        <4> HIDE DEF r1, r4
        <4>4. t1 = s1 /\ t2 = s2 /\ t3 = s3 /\ t4 = s4
          BY <4>1, <4>3, Zenon
        <4> HIDE DEF t1, t2, t3, t4, s1, s2, s3, s4, group, hfov
        <4> QED
          BY <4>2, <4>4 DEF Five, One
      <3>2. Five(s1, s2, s3, s4, group) \o One(hfov) \o p = Then(s1, Then(s2, Then(s3, Then(s4, rest))))
        <4> HIDE DEF s1, s2, s3, s4, group, hfov, rest
        <4>1. IsProgram(Five(s1, s2, s3, s4, group)) /\ IsProgram(One(hfov))
          BY WrittenFive, JustOne
        <4>2. Five(s1, s2, s3, s4, group) \o One(hfov) \o p = Five(s1, s2, s3, s4, group) \o (One(hfov) \o p)
          BY <4>1, Associates
        <4>3. Five(s1, s2, s3, s4, group) \o Then(hfov, p)
                = Then(s1, Then(s2, Then(s3, Then(s4, Then(group, Then(hfov, p))))))
          <5> DEFINE q == Then(hfov, p)
          <5>1. IsProgram(q)
            BY <1>4
          <5> HIDE DEF q
          <5>2. Five(s1, s2, s3, s4, group) \o q = Then(s1, Then(s2, Then(s3, Then(s4, Then(group, q)))))
            BY <5>1, FiveJoins
          <5> QED
            BY <5>2 DEF q
        <4> QED
          BY <1>4, <4>2, <4>3 DEF rest
      <3>3. v \in Venc /\ "record" \in Venc /\ v # "record"
        BY DEF Venc
      <3>4. from # <<>> /\ source # <<>> /\ to # <<>> /\ target # <<>>
        BY SourceIs
      <3>5. Wiring(b) /\ \A u \in Venc : b[u] = Source(u, d.group, d.thermal)
        BY BindsAre
      <3>6. from = b[v] /\ source = b["record"]
        BY <3>3, <3>5, SourceIs
      <3>7. Rewire(Rewire(b, v, to), "record", target) = Binds(e)
        <4> DEFINE c == Binds(e)
        <4>1. Wiring(c) /\ \A u \in Venc : c[u] = Source(u, lens, d.thermal)
          BY <1>3, BindsAre
        <4> HIDE DEF b, c
        <4> DEFINE b1 == Rewire(b, v, to)
                   b2 == Rewire(b1, "record", target)
        <4>2. Wiring(b1) /\ b1[v] = to /\ \A u \in Venc \ {v} : b1[u] = b[u]
          BY <3>3, <3>5, Rewired
        <4> HIDE DEF b1
        <4>3. Wiring(b2) /\ b2["record"] = target /\ \A u \in Venc \ {"record"} : b2[u] = b1[u]
          BY <3>3, <4>2, Rewired
        <4> HIDE DEF b2
        <4>4. \A u \in Venc : b2[u] = c[u]
          <5>1. b2["record"] = c["record"]
            BY <3>3, <4>1, <4>3, SourceIs
          <5>2. b2[v] = c[v]
            BY <3>3, <4>1, <4>2, <4>3
          <5>3. ASSUME NEW u \in Venc, u # v, u # "record" PROVE b2[u] = c[u]
            <6>1. b2[u] = Source(u, d.group, d.thermal) /\ c[u] = Source(u, lens, d.thermal)
              BY <3>5, <4>1, <4>2, <4>3, <5>3
            <6>2. u = IF d.thermal THEN "main" ELSE "sub"
              BY <5>3 DEF Venc
            <6> QED
              BY <6>1, <6>2, SourceIs
          <5> QED
            BY <5>1, <5>2, <5>3
        <4>5. b2 = c
          BY <4>1, <4>3, <4>4, SameWires
        <4> QED
          BY <4>5 DEF b1, b2, c
      <3>8. Good(k, rest, f, Camera(Rewire(Rewire(b, v, to), "record", target), a, Running, a, d))
        BY <1>7, <3>7
      <3>9. ~f => Good(k, else, TRUE, Camera(b, a, Running, a, d))
        BY DEF Settled
      <3>10. back = Then(Do("bind", v, from), Then(Do("bind", "record", source), else))
        OBVIOUS
      <3>11. Good(k, Then(s1, Then(s2, Then(s3, Then(s4, rest)))), f, Camera(b, a, Running, a, d))
        <4>1. w = "record"
          OBVIOUS
        <4>2. Moves(v, w, from, source, to, target, back, rest) = Then(s1, Then(s2, Then(s3, Then(s4, rest))))
          BY DEF Moves
        <4> HIDE DEF a, b, v, from, source, to, target, back, rest, w, s1, s2, s3, s4
        <4>3. Good(k, Moves(v, w, from, source, to, target, back, rest), f, Camera(b, a, Running, a, d))
          BY <1>4, <3>3, <3>4, <3>5, <3>6, <3>8, <3>9, <3>10, <4>1, MovesTwo
        <4> QED
          BY <4>2, <4>3
      <3> HIDE DEF rest, s1, s2, s3, s4
      <3> QED
        BY <3>1, <3>2, <3>11 DEF Settled
    <2> QED
      BY <2>1, <2>2
  <1>9. Expansion(x.impl, s) = select_lens(m, lens, else)
    BY <1>1, <1>2 DEF Expansion
  <1> HIDE DEF s, x, m
  <1>10. s.op \in Macros
    BY <1>2 DEF Macros
  <1>11. Good(k, Then(s, p), f, x)
    BY <1>8, <1>9, <1>10, GoodMacro
  <1> QED
    BY <1>11 DEF s, x

\* reconfigure, written out.
Fix(v, old, else) == Then(Do("set", v, old), Then(Do("start", v, "none"), else))

LEMMA ReconfigureIs ==
    ASSUME NEW v, NEW new, NEW old, NEW else, IsProgram(else)
    PROVE  /\ reconfigure(v, new, old, else) =
                Four(Step("stop", v, "none", Fix(v, old, else)), Step("set", v, new, Fix(v, old, else)),
                     Step("start", v, "none", Fix(v, old, else)), Do("noteattr", v, new))
           /\ IsProgram(reconfigure(v, new, old, else)) /\ IsProgram(Fix(v, old, else))
PROOF
  <1> DEFINE a == Do("set", v, old)
             b == Do("start", v, "none")
             s1(fix) == Step("stop", v, "none", fix)
             s2(fix) == Step("set", v, new, fix)
             s3(fix) == Step("start", v, "none", fix)
             s4 == Do("noteattr", v, new)
             fix == Fix(v, old, else)
  <1>1. Two(a, b) \o else = Fix(v, old, else)
    <2> HIDE DEF a, b
    <2>1. Two(a, b) \o else = Then(a, Then(b, else))
      BY TwoJoins
    <2> QED
      BY <2>1 DEF a, b, Fix
  <1>2. reconfigure(v, new, old, else) = Four(s1(fix), s2(fix), s3(fix), s4)
    <2>1. reconfigure(v, new, old, else) = <<s1(<<a, b>> \o else), s2(<<a, b>> \o else), s3(<<a, b>> \o else), s4>>
      BY DEF reconfigure
    <2>2. <<a, b>> \o else = fix
      BY <1>1 DEF Two
    <2> HIDE DEF a, b, fix, s1, s2, s3, s4
    <2> QED
      BY <2>1, <2>2 DEF Four
  <1>3. IsProgram(fix)
    <2>1. IsProgram(Then(b, else))
      BY FirstStep
    <2> QED
      BY <2>1, FirstStep DEF Fix
  <1>4. IsProgram(Four(s1(fix), s2(fix), s3(fix), s4))
    BY WrittenFour
  <1> QED
    BY <1>2, <1>3, <1>4

LEMMA ReconfigureJoins ==
    ASSUME NEW v, NEW new, NEW old, NEW else, IsProgram(else), NEW p, IsProgram(p)
    PROVE  reconfigure(v, new, old, else) \o p =
               Then(Step("stop", v, "none", Fix(v, old, else)), Then(Step("set", v, new, Fix(v, old, else)),
               Then(Step("start", v, "none", Fix(v, old, else)), Then(Do("noteattr", v, new), p))))
PROOF
  <1> DEFINE s1 == Step("stop", v, "none", Fix(v, old, else))
             s2 == Step("set", v, new, Fix(v, old, else))
             s3 == Step("start", v, "none", Fix(v, old, else))
             s4 == Do("noteattr", v, new)
  <1>1. reconfigure(v, new, old, else) = Four(s1, s2, s3, s4)
    BY ReconfigureIs
  <1> HIDE DEF s1, s2, s3, s4
  <1>2. Four(s1, s2, s3, s4) \o p = Then(s1, Then(s2, Then(s3, Then(s4, p))))
    BY FourJoins
  <1> QED
    BY <1>1, <1>2 DEF s1, s2, s3, s4

\* What a failure leaves is put right, whatever it was.
LEMMA Fixes ==
    ASSUME NEW k, NEW v \in Venc, NEW old, NEW else, NEW b, NEW a, NEW r, NEW n, NEW d, IsProgram(else),
           Good(k, else, TRUE, Camera(b, Rewire(a, v, old), Rewire(r, v, TRUE), n, d))
    PROVE  Good(k, Fix(v, old, else), TRUE, Camera(b, a, r, n, d))
PROOF
  <1> DEFINE a1 == Rewire(a, v, old)
             q == Then(Do("start", v, "none"), else)
  <1>1. Good(k, Then(Step("start", v, "none", <<>>), else), TRUE, Camera(b, a1, r, n, d))
    BY Starts DEF Rewire
  <1>2. Good(k, q, TRUE, Camera(b, Rewire(a, v, old), r, n, d)) /\ IsProgram(q)
    BY <1>1, FirstStep DEF Do
  <1> HIDE DEF q
  <1>3. Good(k, Then(Step("set", v, old, <<>>), q), TRUE, Camera(b, a, r, n, d))
    BY <1>2, Sets DEF Rewire
  <1> QED
    BY <1>3 DEF q, Fix, Do

LEMMA Reconfigures ==
    ASSUME NEW k, NEW v \in Venc, NEW new, NEW old, NEW else, NEW p, NEW f, NEW b, NEW a, NEW r, NEW n,
           NEW d \in Scenes, IsProgram(else), IsProgram(p), Wiring(a), Wiring(r),
           Good(k, p, f, Camera(b, Rewire(a, v, new), Rewire(r, v, TRUE), Rewire(n, v, new), d)),
           ~f => r[v] = TRUE /\ a[v] = old /\ Good(k, else, TRUE, Camera(b, a, r, n, d))
    PROVE  Good(k, reconfigure(v, new, old, else) \o p, f, Camera(b, a, r, n, d))
PROOF
  <1> DEFINE fix == Fix(v, old, else)
             s1 == Step("stop", v, "none", fix)
             s2 == Step("set", v, new, fix)
             s3 == Step("start", v, "none", fix)
             s4 == Do("noteattr", v, new)
             q3 == Then(s4, p)
             q2 == Then(s3, q3)
             q1 == Then(s2, q2)
             r1 == Rewire(r, v, FALSE)
             a1 == Rewire(a, v, new)
             r2 == Rewire(r1, v, TRUE)
  <1>1. IsProgram(q3) /\ IsProgram(q2) /\ IsProgram(q1) /\ IsProgram(fix)
    <2>1. IsProgram(q3)
      BY FirstStep
    <2>2. IsProgram(q2)
      BY <2>1, FirstStep
    <2>3. IsProgram(q1)
      BY <2>2, FirstStep
    <2> QED
      BY <2>1, <2>2, <2>3, ReconfigureIs
  <1>2. Wiring(r1) /\ r1[v] = FALSE /\ \A u \in Venc \ {v} : r1[u] = r[u]
    BY RewiredOff
  <1>3. Wiring(a1) /\ a1[v] = new /\ \A u \in Venc \ {v} : a1[u] = a[u]
    BY Rewired
  <1>4. r2 = Rewire(r, v, TRUE)
    <2> DEFINE r3 == Rewire(r, v, TRUE)
    <2>1. Wiring(r3) /\ r3[v] = TRUE /\ \A u \in Venc \ {v} : r3[u] = r[u]
      BY RewiredOn
    <2> HIDE DEF r1, r3
    <2>2. Wiring(r2) /\ r2[v] = TRUE /\ \A u \in Venc \ {v} : r2[u] = r1[u]
      BY <1>2, RewiredOn
    <2> HIDE DEF r2
    <2>3. \A u \in Venc : r2[u] = r3[u]
      BY <1>2, <2>1, <2>2
    <2>4. r2 = r3
      BY <2>1, <2>2, <2>3, SameWires
    <2> QED
      BY <2>4 DEF r3
  <1>5. ASSUME ~f, NEW x, NEW y, Wiring(x), Wiring(y), \A u \in Venc \ {v} : x[u] = a[u] /\ y[u] = r[u]
        PROVE  Good(k, fix, TRUE, Camera(b, x, y, n, d))
    <2> DEFINE x1 == Rewire(x, v, old)
               y1 == Rewire(y, v, TRUE)
    <2>1. Wiring(x1) /\ x1[v] = old /\ \A u \in Venc \ {v} : x1[u] = x[u]
      BY <1>5, Rewired
    <2>2. Wiring(y1) /\ y1[v] = TRUE /\ \A u \in Venc \ {v} : y1[u] = y[u]
      BY <1>5, RewiredOn
    <2> HIDE DEF x1, y1
    <2>3. \A u \in Venc : x1[u] = a[u] /\ y1[u] = r[u]
      BY <1>5, <2>1, <2>2
    <2>4. x1 = a /\ y1 = r
      BY <2>1, <2>2, <2>3, SameWires
    <2>5. Good(k, else, TRUE, Camera(b, x1, y1, n, d))
      BY <1>5, <2>4
    <2> HIDE DEF fix
    <2> QED
      BY <2>5, Fixes DEF x1, y1, fix
  <1>6. Good(k, q3, f, Camera(b, a1, r2, n, d))
    <2>1. Good(k, p, f, Camera(b, a1, r2, [n EXCEPT ![v] = new], d))
      BY <1>4 DEF Rewire
    <2> HIDE DEF a1, r2
    <2> QED
      BY <2>1, NotesAttr
  <1>7. Good(k, q2, f, Camera(b, a1, r1, n, d))
    <2>1. Good(k, q3, f, Camera(b, a1, [r1 EXCEPT ![v] = TRUE], n, d))
      BY <1>6 DEF Rewire
    <2>2. ~f => Good(k, fix, TRUE, Camera(b, a1, r1, n, d))
      BY <1>2, <1>3, <1>5
    <2> HIDE DEF fix, q3, a1, r1
    <2> QED
      BY <1>1, <2>1, <2>2, Starts
  <1>8. Good(k, q1, f, Camera(b, a, r1, n, d))
    <2>1. Good(k, q2, f, Camera(b, [a EXCEPT ![v] = new], r1, n, d))
      BY <1>7 DEF Rewire
    <2>2. ~f => Good(k, fix, TRUE, Camera(b, a, r1, n, d))
      BY <1>2, <1>5
    <2> HIDE DEF fix, q2, r1
    <2> QED
      BY <1>1, <2>1, <2>2, Sets
  <1>9. Good(k, Then(s1, q1), f, Camera(b, a, r, n, d))
    <2>1. Good(k, q1, f, Camera(b, a, [r EXCEPT ![v] = FALSE], n, d))
      BY <1>8 DEF Rewire
    <2>2. ~f => Good(k, fix, TRUE, Camera(b, a, r, n, d))
      BY <1>5
    <2> HIDE DEF fix, q1
    <2> QED
      BY <1>1, <2>1, <2>2, Stops
  <1>10. reconfigure(v, new, old, else) \o p = Then(s1, q1)
    BY ReconfigureJoins
  <1> HIDE DEF q1, s1
  <1> QED
    BY <1>9, <1>10

LEMMA AttrsAre ==
    ASSUME NEW t
    PROVE  /\ Wiring(Attrs(t)) /\ \A v \in Venc : Attrs(t)[v] = Attr(v, t)
           /\ Attr("record", t) = "rgb"
PROOF
  <1>1. Wiring(Attrs(t)) /\ \A v \in Venc : Attrs(t)[v] = Attr(v, t)
    BY DEF Wiring, Attrs
  <1>2. Attr("record", t) = "rgb"
    BY DEF Attr
  <1> QED
    BY <1>1, <1>2

LEMMA RunningIs ==
    Wiring(Running) /\ (\A v \in Venc : Running[v] = TRUE) /\ \A v \in Venc : Rewire(Running, v, TRUE) = Running
PROOF
  <1>1. Wiring(Running) /\ \A v \in Venc : Running[v] = TRUE
    BY DEF Wiring, Running
  <1>2. ASSUME NEW v \in Venc PROVE Rewire(Running, v, TRUE) = Running
    <2> DEFINE r == Running
               q == Rewire(r, v, TRUE)
    <2> HIDE DEF r
    <2>1. Wiring(r) /\ \A u \in Venc : r[u] = TRUE
      BY <1>1 DEF r
    <2>2. Wiring(q) /\ q[v] = TRUE /\ \A u \in Venc \ {v} : q[u] = r[u]
      BY <2>1, RewiredOn
    <2> HIDE DEF q
    <2>3. \A u \in Venc : q[u] = r[u]
      BY <2>1, <2>2
    <2>4. q = r
      BY <2>1, <2>2, <2>3, SameWires
    <2> QED
      BY <2>4 DEF q, r
  <1> QED
    BY <1>1, <1>2

\* Two of three changed are all that change.
LEMMA TwoRewired ==
    ASSUME NEW x, NEW y, NEW m, NEW s, Wiring(x), Wiring(y), y["main"] = m, y["sub"] = s, y["record"] = x["record"]
    PROVE  Rewire(Rewire(x, "main", m), "sub", s) = y /\ Wiring(Rewire(x, "main", m))
PROOF
  <1> DEFINE x1 == Rewire(x, "main", m)
             x2 == Rewire(x1, "sub", s)
  <1>1. "main" \in Venc /\ "sub" \in Venc /\ Venc = {"main", "sub", "record"}
    BY DEF Venc
  <1>2. Wiring(x1) /\ x1["main"] = m /\ \A u \in Venc \ {"main"} : x1[u] = x[u]
    BY <1>1, Rewired
  <1> HIDE DEF x1
  <1>3. Wiring(x2) /\ x2["sub"] = s /\ \A u \in Venc \ {"sub"} : x2[u] = x1[u]
    BY <1>1, <1>2, Rewired
  <1> HIDE DEF x2
  <1>4. \A u \in Venc : x2[u] = y[u]
    BY <1>1, <1>2, <1>3
  <1>5. x2 = y
    BY <1>3, <1>4, SameWires
  <1> QED
    BY <1>2, <1>5 DEF x1, x2

\* The way back of switch_rtsp_sources_locked.
Rollback(d, else) ==
    Then(Do("bind", "main", Source("main", d.group, d.thermal)),
    Then(Do("bind", "sub", Source("sub", d.group, d.thermal)), else))
Again(v, t) == reconfigure(v, Attr(v, t), Attr(v, t), <<>>)
Restore(d, else) == Again("main", d.thermal) \o (Again("sub", d.thermal) \o Rollback(d, else))

LEMMA RestoreIs ==
    ASSUME NEW d, NEW else, IsProgram(else)
    PROVE  IsProgram(Rollback(d, else)) /\ IsProgram(Restore(d, else))
           /\ \A v, t : IsProgram(Again(v, t))
PROOF
  <1>1. IsProgram(Rollback(d, else))
    <2>1. IsProgram(Then(Do("bind", "sub", Source("sub", d.group, d.thermal)), else))
      BY FirstStep
    <2> QED
      BY <2>1, FirstStep DEF Rollback
  <1>2. ASSUME NEW v, NEW t PROVE IsProgram(Again(v, t))
    BY EmptyProgram, ReconfigureIs DEF Again
  <1>3. IsProgram(Again("sub", d.thermal) \o Rollback(d, else))
    BY <1>1, <1>2, Joins
  <1>4. IsProgram(Restore(d, else))
    BY <1>2, <1>3, Joins DEF Restore
  <1> QED
    BY <1>1, <1>2, <1>4

LEMMA RollsBack ==
    ASSUME NEW k, NEW else, NEW d, IsProgram(else), Good(k, else, TRUE, Settled(d)), NEW c, Wiring(c),
           c["main"] \in {<<>>, Source("main", d.group, d.thermal)},
           c["sub"] \in {<<>>, Source("sub", d.group, d.thermal)}, c["record"] = Binds(d)["record"]
    PROVE  Good(k, Rollback(d, else), TRUE, Camera(c, Attrs(d.thermal), Running, Attrs(d.thermal), d))
PROOF
  <1> DEFINE v == "main"
             w == "sub"
             b == Binds(d)
             a == Attrs(d.thermal)
             from == Source("main", d.group, d.thermal)
             source == Source("sub", d.group, d.thermal)
  <1>1. v \in Venc /\ w \in Venc /\ v # w /\ (\A u \in Venc \ {v, w} : u = "record")
        /\ v = "main" /\ w = "sub"
    BY DEF Venc
  <1>2. Wiring(b) /\ b[v] = from /\ b[w] = source /\ from # <<>> /\ source # <<>>
    BY <1>1, BindsAre, SourceIs
  <1>3. Good(k, else, TRUE, Camera(b, a, Running, a, d))
    BY DEF Settled
  <1>4. \A u \in Venc \ {v, w} : c[u] = b[u]
    BY <1>1
  <1> HIDE DEF a, b, from, source
  <1>5. c[v] \in {<<>>, from} /\ c[w] \in {<<>>, source}
    BY <1>1 DEF from, source
  <1> HIDE DEF v, w
  <1>6. Good(k, Then(Do("bind", v, from), Then(Do("bind", w, source), else)), TRUE, Camera(c, a, Running, a, d))
    BY <1>1, <1>2, <1>3, <1>4, <1>5, BindsBack
  <1> QED
    BY <1>6 DEF v, w, a, from, source, Rollback

LEMMA Restores ==
    ASSUME NEW k, NEW else, NEW d \in Scenes, IsProgram(else), Good(k, else, TRUE, Settled(d)), NEW c, Wiring(c),
           c["main"] \in {<<>>, Source("main", d.group, d.thermal)},
           c["sub"] \in {<<>>, Source("sub", d.group, d.thermal)}, c["record"] = Binds(d)["record"],
           NEW x, Wiring(x), x["record"] = "rgb", NEW n, Wiring(n), n["record"] = "rgb"
    PROVE  Good(k, Restore(d, else), TRUE, Camera(c, x, Running, n, d))
PROOF
  <1> DEFINE m == Attr("main", d.thermal)
             s == Attr("sub", d.thermal)
             a == Attrs(d.thermal)
             q == Rollback(d, else)
             q1 == Again("sub", d.thermal) \o q
             x1 == Rewire(x, "main", m)
             n1 == Rewire(n, "main", m)
             r == Running
  <1>1. Good(k, q, TRUE, Camera(c, a, Running, a, d))
    BY RollsBack
  <1>2. IsProgram(q) /\ IsProgram(q1) /\ IsProgram(<<>>)
    <2>1. IsProgram(q) /\ \A v, t : IsProgram(Again(v, t))
      BY RestoreIs
    <2> HIDE DEF q
    <2>2. IsProgram(Again("sub", d.thermal))
      BY <2>1
    <2> QED
      BY <2>1, <2>2, Joins, EmptyProgram
  <1>3. "main" \in Venc /\ "sub" \in Venc /\ "record" \in Venc
    BY DEF Venc
  <1>4. Wiring(a) /\ a["main"] = m /\ a["sub"] = s /\ a["record"] = "rgb"
    BY <1>3, AttrsAre
  <1>5. Wiring(r) /\ Rewire(r, "main", TRUE) = r /\ Rewire(r, "sub", TRUE) = r
    BY <1>3, RunningIs
  <1> HIDE DEF m, s, a, r, q
  <1>6. Rewire(x1, "sub", s) = a /\ Rewire(n1, "sub", s) = a /\ Wiring(x1)
    BY <1>4, TwoRewired
  <1>7. Good(k, q1, TRUE, Camera(c, x1, r, n1, d))
    <2>1. Good(k, q, TRUE, Camera(c, Rewire(x1, "sub", s), Rewire(r, "sub", TRUE), Rewire(n1, "sub", s), d))
      BY <1>1, <1>5, <1>6 DEF r
    <2> HIDE DEF x1, n1
    <2>2. Good(k, reconfigure("sub", s, s, <<>>) \o q, TRUE, Camera(c, x1, r, n1, d))
      BY <1>2, <1>3, <1>5, <1>6, <2>1, Reconfigures
    <2> QED
      BY <2>2 DEF Again, s
  <1> HIDE DEF q1
  <1>8. Good(k, reconfigure("main", m, m, <<>>) \o q1, TRUE, Camera(c, x, r, n, d))
    <2>1. Good(k, q1, TRUE, Camera(c, Rewire(x, "main", m), Rewire(r, "main", TRUE), Rewire(n, "main", m), d))
      BY <1>5, <1>7
    <2> QED
      BY <1>2, <1>3, <1>5, <2>1, Reconfigures
  <1> QED
    BY <1>8 DEF Again, Restore, m, q, q1, r

Slots(d, t) == [d EXCEPT !.thermal = t]

LEMMA SlotsAre ==
    ASSUME NEW d \in Scenes, NEW t \in BOOLEAN
    PROVE  LET e == Slots(d, t) IN
           /\ e \in Scenes /\ e.thermal = t /\ e.group = d.group /\ e.hfov = d.hfov
           /\ e.optics = d.optics /\ e.crop = d.crop /\ e.flip = d.flip /\ e.still = d.still
           /\ e.zoom = d.zoom /\ e.ratio = d.ratio /\ e.inverted = d.inverted /\ e.cfg = d.cfg
           /\ e.config = d.config /\ e.upside = d.upside /\ e.stale = d.stale /\ e.on = d.on /\ e.off = d.off
           /\ t = d.thermal => e = d
  BY DEF Scenes, Slots

Join(p, q) == p \o q

LEMMA JoinIs == ASSUME NEW s, NEW t, IsProgram(s), IsProgram(t) PROVE IsProgram(Join(s, t))
  BY Joins DEF Join

LEMMA JoinAssociates ==
    ASSUME NEW s, NEW t, NEW u, IsProgram(s), IsProgram(t), IsProgram(u)
    PROVE  Join(Join(s, t), u) = Join(s, Join(t, u))
PROOF
  <1>1. (s \o t) \o u = s \o (t \o u)
    BY Associates
  <1> QED
    BY <1>1 DEF Join

LEMMA Regroups ==
    ASSUME NEW a, NEW b, NEW c, NEW d, NEW p, NEW w, IsProgram(a), IsProgram(b), IsProgram(c), IsProgram(d),
           IsProgram(p), IsProgram(w), Join(d, p) = w
    PROVE  Join(Join(Join(Join(a, b), c), d), p) = Join(a, Join(b, Join(c, w)))
PROOF
  <1> DEFINE x == Join(a, b)
             y == Join(x, c)
             v == Join(c, w)
  <1>3. IsProgram(x) /\ IsProgram(v)
    BY JoinIs
  <1>4. IsProgram(y)
    <2> HIDE DEF x
    <2> QED
      BY JoinIs, <1>3
  <1>5. Join(Join(y, d), p) = Join(y, w)
    <2> HIDE DEF y
    <2> QED
      BY JoinAssociates, <1>4
  <1>6. Join(y, w) = Join(x, v)
    <2> HIDE DEF x
    <2> QED
      BY JoinAssociates, <1>3
  <1>7. Join(x, v) = Join(a, Join(b, v))
    <2> HIDE DEF v
    <2> QED
      BY JoinAssociates, <1>3
  <1> QED
    BY <1>5, <1>6, <1>7

\* switch_sources, written out.
LEMMA SwitchIs ==
    ASSUME NEW d, NEW a, NEW t, NEW else, NEW p, IsProgram(else), IsProgram(p), d.thermal # t
    PROVE  switch_sources(Structure(a, d), t, else) \o p =
             Then(Step("unbind", "main", Source("main", d.group, d.thermal), else),
             Then(Step("unbind", "sub", Source("sub", d.group, d.thermal),
                       Then(Do("bind", "main", Source("main", d.group, d.thermal)), else)),
             reconfigure("main", Attr("main", t), Attr("main", d.thermal), Rollback(d, else)) \o
             (reconfigure("sub", Attr("sub", t), Attr("sub", d.thermal), Restore(d, else)) \o
             Then(Step("bind", "main", Source("main", d.group, t), Restore(d, else)),
             Then(Step("bind", "sub", Source("sub", d.group, t),
                       Then(Do("unbind", "main", Source("main", d.group, t)), Restore(d, else))),
             Then(Note("thermal", t), p))))))
PROOF
  <1> DEFINE m == Structure(a, d)
             was == d.thermal
             fm == Source("main", d.group, was)
             fs == Source("sub", d.group, was)
             tm == Source("main", d.group, t)
             ts == Source("sub", d.group, t)
             rollback == Rollback(d, else)
             restore == Restore(d, else)
             u1 == Step("unbind", "main", fm, else)
             u2 == Step("unbind", "sub", fs, Then(Do("bind", "main", fm), else))
             r1 == reconfigure("main", Attr("main", t), Attr("main", was), rollback)
             r2 == reconfigure("sub", Attr("sub", t), Attr("sub", was), restore)
             s5 == Step("bind", "main", tm, restore)
             s6 == Step("bind", "sub", ts, Then(Do("unbind", "main", tm), restore))
             s7 == Note("thermal", t)
  <1>1. m.thermal = was /\ m.group = d.group
    BY DEF Structure
  <1>2. IsProgram(rollback) /\ IsProgram(restore) /\ \A v, y : IsProgram(Again(v, y))
    BY RestoreIs
  <1>3. <<Do("bind", "main", fm), Do("bind", "sub", fs)>> \o else = rollback
    <2> DEFINE x == Do("bind", "main", fm)
               y == Do("bind", "sub", fs)
    <2> HIDE DEF x, y
    <2>1. Two(x, y) \o else = Then(x, Then(y, else))
      BY TwoJoins
    <2> QED
      BY <2>1 DEF x, y, Two, Rollback
  <1>4. Again("main", was) \o Again("sub", was) \o rollback = restore
    <2> DEFINE x == Again("main", was)
               y == Again("sub", was)
    <2>1. IsProgram(x) /\ IsProgram(y)
      BY <1>2
    <2>2. restore = x \o (y \o rollback)
      BY DEF Restore
    <2> HIDE DEF x, y, rollback, restore
    <2>3. x \o y \o rollback = x \o (y \o rollback)
      BY <1>2, <2>1, Associates, SMTT(30)
    <2> QED
      BY <2>2, <2>3 DEF x, y
  <1>5. switch_sources(m, t, else) = Two(u1, u2) \o r1 \o r2 \o Three(s5, s6, s7)
    <2> DEFINE roll == <<Do("bind", "main", fm), Do("bind", "sub", fs)>> \o else
               rest == Again("main", was) \o Again("sub", was) \o roll
    <2>1. switch_sources(m, t, else) =
            <<Step("unbind", "main", fm, else), Step("unbind", "sub", fs, <<Do("bind", "main", fm)>> \o else)>>
            \o reconfigure("main", Attr("main", t), Attr("main", was), roll)
            \o reconfigure("sub", Attr("sub", t), Attr("sub", was), rest)
            \o <<Step("bind", "main", tm, rest), Step("bind", "sub", ts, <<Do("unbind", "main", tm)>> \o rest), s7>>
      BY <1>1 DEF switch_sources, Again
    <2>2. roll = rollback
      BY <1>3
    <2> HIDE DEF roll
    <2>3. rest = restore
      BY <1>4, <2>2
    <2> HIDE DEF rest, rollback, restore
    <2> QED
      BY <2>1, <2>2, <2>3 DEF Two, Three, Then
  <1>6. IsProgram(r1) /\ IsProgram(r2)
    <2> HIDE DEF rollback, restore
    <2> QED
      BY <1>2, ReconfigureIs
  <1> HIDE DEF u1, u2, r1, r2, s5, s6, s7
  <1> DEFINE w == Then(s5, Then(s6, Then(s7, p)))
  <1>7. Three(s5, s6, s7) \o p = w /\ IsProgram(Three(s5, s6, s7)) /\ IsProgram(Two(u1, u2))
    BY ThreeJoins, WrittenThree, WrittenTwo
  <1>8. IsProgram(w)
    <2>1. IsProgram(Then(s7, p))
      BY FirstStep
    <2>2. IsProgram(Then(s6, Then(s7, p)))
      BY <2>1, FirstStep
    <2> QED
      BY <2>2, FirstStep
  <1> DEFINE q == Two(u1, u2)
             z == Three(s5, s6, s7)
  <1>9. IsProgram(q) /\ IsProgram(z) /\ z \o p = w
    BY <1>7
  <1> HIDE DEF q, z, w
  <1>10. q \o r1 \o r2 \o z \o p = q \o (r1 \o (r2 \o w))
    <2>1. IsProgram(q) /\ IsProgram(z)
      BY <1>9
    <2>2. z \o p = w
      BY <1>9
    <2> QED
      <3>1. Join(z, p) = w
        BY <2>2 DEF Join
      <3>2. Join(Join(Join(Join(q, r1), r2), z), p) = Join(q, Join(r1, Join(r2, w)))
        BY <1>6, <1>8, <2>1, <3>1, Regroups
      <3> QED
        BY <3>2 DEF Join
  <1>11. q \o (r1 \o (r2 \o w)) = Then(u1, Then(u2, r1 \o (r2 \o w)))
    <2> DEFINE v == r1 \o (r2 \o w)
    <2>1. IsProgram(v)
      <3>1. IsProgram(r2 \o w)
        BY <1>6, <1>8, Joins
      <3> QED
        BY <1>6, <3>1, Joins
    <2> HIDE DEF v
    <2>2. Two(u1, u2) \o v = Then(u1, Then(u2, v))
      BY <2>1, TwoJoins
    <2> QED
      BY <2>2 DEF q, v
  <1>12. switch_sources(m, t, else) \o p = Then(u1, Then(u2, r1 \o (r2 \o w)))
    BY <1>5, <1>10, <1>11 DEF q, z
  <1> QED
    BY <1>12 DEF u1, u2, r1, r2, s5, s6, s7, w

LEMMA SwitchesSources ==
    ASSUME NEW k, NEW t \in BOOLEAN, NEW else, NEW p, NEW f, NEW d \in Scenes, IsProgram(else), IsProgram(p),
           Good(k, p, f, Settled(Slots(d, t))),
           ~f => Good(k, else, TRUE, Settled(d))
    PROVE  Good(k, Then(Step("switch", "none", t, else), p), f, Settled(d))
PROOF
  <1> DEFINE a == Attrs(d.thermal)
             m == Structure(a, d)
             s == Step("switch", "none", t, else)
             x == Settled(d)
  <1>1. x.impl = m /\ m.thermal = d.thermal
    BY DEF Settled, Camera, Structure
  <1>2. s.op = "switch" /\ s.to = t /\ s.else = else
    BY DEF Step
  <1>3. Good(k, switch_sources(m, t, else) \o p, f, x)
    <2>1. CASE d.thermal = t
      <3>1. switch_sources(m, t, else) = <<>>
        BY <1>1, <2>1 DEF switch_sources
      <3>2. switch_sources(m, t, else) \o p = p
        BY <3>1, NothingFirst
      <3>3. Slots(d, t) = d
        BY <2>1, SlotsAre
      <3>4. Good(k, p, f, x)
        BY <3>3
      <3> HIDE DEF x, m
      <3> QED
        BY <3>2, <3>4
    <2>2. CASE d.thermal # t
      <3> DEFINE was == d.thermal
                 fm == Source("main", d.group, was)
                 fs == Source("sub", d.group, was)
                 tm == Source("main", d.group, t)
                 ts == Source("sub", d.group, t)
                 rollback == Rollback(d, else)
                 restore == Restore(d, else)
                 Am == Attr("main", t)
                 As == Attr("sub", t)
                 e2 == Then(Do("bind", "main", fm), else)
                 e6 == Then(Do("unbind", "main", tm), restore)
                 u1 == Step("unbind", "main", fm, else)
                 u2 == Step("unbind", "sub", fs, e2)
                 s5 == Step("bind", "main", tm, restore)
                 s6 == Step("bind", "sub", ts, e6)
                 s7 == Note("thermal", t)
                 q7 == Then(s7, p)
                 q6 == Then(s6, q7)
                 q5 == Then(s5, q6)
                 q4 == reconfigure("sub", As, Attr("sub", was), restore) \o q5
                 q3 == reconfigure("main", Am, Attr("main", was), rollback) \o q4
                 q2 == Then(u2, q3)
                 q1 == Then(u1, q2)
                 b == Binds(d)
                 b1 == Rewire(b, "main", <<>>)
                 b2 == Rewire(b1, "sub", <<>>)
                 b3 == Rewire(b2, "main", tm)
                 b4 == Rewire(b3, "sub", ts)
                 a1 == Rewire(a, "main", Am)
                 a2 == Rewire(a1, "sub", As)
                 r == Running
                 e == Slots(d, t)
      <3>1. switch_sources(m, t, else) \o p = q1
        BY <2>2, SwitchIs
      <3>2. IsProgram(rollback) /\ IsProgram(restore)
        BY RestoreIs
      <3>3. IsProgram(q7) /\ IsProgram(q6) /\ IsProgram(q5) /\ IsProgram(q4) /\ IsProgram(q3) /\ IsProgram(q2)
        <4>1. IsProgram(q7)
          BY FirstStep
        <4>2. IsProgram(q6)
          <5> HIDE DEF q7
          <5> QED
            BY <4>1, FirstStep
        <4>3. IsProgram(q5)
          <5> HIDE DEF q6
          <5> QED
            BY <4>2, FirstStep
        <4>4. IsProgram(q4)
          <5> HIDE DEF q5, restore, As
          <5> DEFINE g == reconfigure("sub", As, Attr("sub", was), restore)
          <5>1. IsProgram(g)
            BY <3>2, ReconfigureIs
          <5>2. q4 = g \o q5
            OBVIOUS
          <5> HIDE DEF g, q4
          <5>3. IsProgram(g \o q5)
            BY <4>3, <5>1, Joins
          <5> QED
            BY <5>2, <5>3
        <4>5. IsProgram(q3)
          <5> HIDE DEF q4, rollback, Am
          <5> DEFINE g == reconfigure("main", Am, Attr("main", was), rollback)
          <5>1. IsProgram(g)
            BY <3>2, ReconfigureIs
          <5>2. q3 = g \o q4
            OBVIOUS
          <5> HIDE DEF g, q3
          <5>3. IsProgram(g \o q4)
            BY <4>4, <5>1, Joins
          <5> QED
            BY <5>2, <5>3
        <4>6. IsProgram(q2)
          <5> HIDE DEF q3
          <5> QED
            BY <4>5, FirstStep
        <4> QED
          BY <4>1, <4>2, <4>3, <4>4, <4>5, <4>6
      <3>4. "main" \in Venc /\ "sub" \in Venc /\ "record" \in Venc /\ Venc = {"main", "sub", "record"}
        BY DEF Venc
      <3>5. Wiring(b) /\ b["main"] = fm /\ b["sub"] = fs
        BY <3>4, BindsAre
      <3>6. fm # <<>> /\ fs # <<>> /\ tm # <<>> /\ ts # <<>>
        BY SourceIs
      <3>7. Wiring(a) /\ a["main"] = Attr("main", was) /\ a["sub"] = Attr("sub", was) /\ a["record"] = "rgb"
        BY <3>4, AttrsAre
      <3>8. Wiring(r) /\ r["main"] = TRUE /\ r["sub"] = TRUE /\ Rewire(r, "main", TRUE) = r /\ Rewire(r, "sub", TRUE) = r
        BY <3>4, RunningIs
      <3>9. e \in Scenes /\ e.thermal = t /\ e.group = d.group
        BY SlotsAre
      <3>10. Good(k, p, f, Camera(Binds(e), Attrs(t), r, Attrs(t), e))
        BY <3>9 DEF Settled
      <3>11. e = [d EXCEPT !.thermal = t]
        BY DEF Slots
      <3>12. ~f => Good(k, else, TRUE, Camera(b, a, r, a, d))
        BY DEF Settled
      <3>13. Wiring(b1) /\ b1["main"] = <<>> /\ b1["sub"] = fs /\ b1["record"] = b["record"]
        <4> HIDE DEF b
        <4> QED
          BY <3>4, <3>5, Rewired
      <3>14. Wiring(b2) /\ b2["main"] = <<>> /\ b2["sub"] = <<>> /\ b2["record"] = b["record"]
        <4> HIDE DEF b1
        <4> QED
          BY <3>4, <3>13, Rewired
      <3>15. Wiring(b3) /\ b3["main"] = tm /\ b3["sub"] = <<>> /\ b3["record"] = b["record"]
        <4> HIDE DEF b2
        <4> QED
          BY <3>4, <3>14, Rewired
      <3>16. b4 = Binds(e)
        <4> DEFINE c == Binds(e)
        <4>1. Wiring(c) /\ c["main"] = tm /\ c["sub"] = ts
          BY <3>4, <3>9, BindsAre
        <4>2. c["record"] = b["record"]
          <5>1. c["record"] = Source("record", d.group, t)
            BY <3>4, <3>9, BindsAre
          <5>2. b["record"] = Source("record", d.group, was)
            BY <3>4, BindsAre
          <5> QED
            BY <5>1, <5>2, SourceIs
        <4> HIDE DEF b3, c
        <4>3. Wiring(b4) /\ b4["sub"] = ts /\ b4["main"] = tm /\ b4["record"] = b["record"]
          BY <3>4, <3>15, Rewired
        <4> HIDE DEF b4
        <4>4. \A u \in Venc : b4[u] = c[u]
          BY <3>4, <4>1, <4>2, <4>3
        <4>5. b4 = c
          BY <4>1, <4>3, <4>4, SameWires
        <4> QED
          BY <4>5 DEF c
      <3>17. Wiring(a1) /\ a1["record"] = "rgb" /\ a1["sub"] = Attr("sub", was)
        <4> HIDE DEF a, Am
        <4> QED
          BY <3>4, <3>7, Rewired
      <3>18. a2 = Attrs(t)
        <4> DEFINE c == Attrs(t)
        <4>1. Wiring(c) /\ c["main"] = Am /\ c["sub"] = As /\ c["record"] = "rgb"
          BY <3>4, AttrsAre
        <4> HIDE DEF c, a, Am, As
        <4>2. Rewire(Rewire(a, "main", Am), "sub", As) = c
          BY <3>7, <4>1, TwoRewired
        <4> QED
          BY <4>2 DEF c
      <3>19. Wiring(a2) /\ a2["record"] = "rgb"
        BY <3>4, <3>18, AttrsAre
      <3>20. b["record"] = Binds(d)["record"]
        OBVIOUS
      <3>21. \* What the way back does, in the worlds where it begins.
             /\ ~f => Good(k, rollback, TRUE, Camera(b2, a, r, a, d))
             /\ ~f => Good(k, restore, TRUE, Camera(b2, a1, r, a1, d))
             /\ ~f => Good(k, restore, TRUE, Camera(b2, a2, r, a2, d))
        <4> SUFFICES ASSUME ~f
                     PROVE  /\ Good(k, rollback, TRUE, Camera(b2, a, r, a, d))
                            /\ Good(k, restore, TRUE, Camera(b2, a1, r, a1, d))
                            /\ Good(k, restore, TRUE, Camera(b2, a2, r, a2, d))
          OBVIOUS
        <4>1. Good(k, else, TRUE, Settled(d))
          OBVIOUS
        <4> HIDE DEF b2, a1, a2
        <4>2. b2["record"] = Binds(d)["record"] /\ b2["main"] = <<>> /\ b2["sub"] = <<>>
          BY <3>14
        <4>3. Good(k, rollback, TRUE, Camera(b2, a, r, a, d))
          BY <3>14, <4>1, <4>2, RollsBack
        <4>4. Good(k, restore, TRUE, Camera(b2, a1, r, a1, d))
          BY <3>14, <3>17, <4>1, <4>2, Restores
        <4>5. Good(k, restore, TRUE, Camera(b2, a2, r, a2, d))
          BY <3>14, <3>19, <4>1, <4>2, Restores
        <4> QED
          BY <4>3, <4>4, <4>5
      <3> HIDE DEF m, x
      <3>22. Good(k, q7, f, Camera(b4, a2, r, a2, d))
        <4>1. Good(k, p, f, Camera(b4, a2, r, a2, [d EXCEPT !.thermal = t]))
          BY <3>10, <3>11, <3>16, <3>18
        <4> HIDE DEF b4, a2, r
        <4> QED
          BY <4>1, NotesThermal
      <3>23. Good(k, q6, f, Camera(b3, a2, r, a2, d))
        <4>1. Good(k, q7, f, Camera([b3 EXCEPT !["sub"] = ts], a2, r, a2, d))
          BY <3>22 DEF Rewire
        <4>2. ~f => Good(k, e6, TRUE, Camera(b3, a2, r, a2, d))
          <5> SUFFICES ASSUME ~f PROVE Good(k, e6, TRUE, Camera(b3, a2, r, a2, d))
            OBVIOUS
          <5> DEFINE c == Rewire(b3, "main", <<>>)
          <5> HIDE DEF b2, b3
          <5>1. Wiring(c) /\ c["main"] = <<>> /\ c["sub"] = b3["sub"] /\ c["record"] = b3["record"]
            BY <3>4, <3>15, Rewired
          <5>2. c = [b3 EXCEPT !["main"] = <<>>]
            BY DEF Rewire
          <5> HIDE DEF c
          <5>3. \A u \in Venc : c[u] = b2[u]
            BY <3>4, <3>14, <3>15, <5>1
          <5>4. c = b2
            BY <3>14, <5>1, <5>3, SameWires
          <5>5. Good(k, restore, TRUE, Camera([b3 EXCEPT !["main"] = <<>>], a2, r, a2, d))
            BY <3>21, <5>2, <5>4
          <5> HIDE DEF restore, a2, r, tm
          <5>6. Good(k, Then(Step("unbind", "main", tm, <<>>), restore), TRUE, Camera(b3, a2, r, a2, d))
            BY <3>2, <3>15, <5>5, Unbinds
          <5> QED
            BY <5>6 DEF Do
        <4>3. b3["sub"] = <<>>
          BY <3>15
        <4> HIDE DEF q7, e6, b3, a2, r, ts
        <4> QED
          BY <3>3, <4>1, <4>2, <4>3, BindsFree
      <3>24. Good(k, q5, f, Camera(b2, a2, r, a2, d))
        <4>1. Good(k, q6, f, Camera([b2 EXCEPT !["main"] = tm], a2, r, a2, d))
          BY <3>23 DEF Rewire
        <4>2. b2["main"] = <<>>
          BY <3>14
        <4> HIDE DEF q6, restore, b2, a2, r, tm
        <4> QED
          BY <3>3, <3>21, <4>1, <4>2, BindsFree
      <3>25. Good(k, q4, f, Camera(b2, a1, r, a1, d))
        <4> HIDE DEF q5, restore, b2, a1, r, As
        <4>1. Good(k, q5, f, Camera(b2, Rewire(a1, "sub", As), Rewire(r, "sub", TRUE), Rewire(a1, "sub", As), d))
          BY <3>8, <3>24
        <4>2. ~f => r["sub"] = TRUE /\ a1["sub"] = Attr("sub", was) /\ Good(k, restore, TRUE, Camera(b2, a1, r, a1, d))
          BY <3>8, <3>17, <3>21
        <4> QED
          BY <3>2, <3>3, <3>4, <3>8, <3>17, <4>1, <4>2, Reconfigures
      <3>26. Good(k, q3, f, Camera(b2, a, r, a, d))
        <4> HIDE DEF q4, rollback, b2, a, r, Am
        <4>1. Good(k, q4, f, Camera(b2, Rewire(a, "main", Am), Rewire(r, "main", TRUE), Rewire(a, "main", Am), d))
          BY <3>8, <3>25
        <4>2. ~f => r["main"] = TRUE /\ a["main"] = Attr("main", was) /\ Good(k, rollback, TRUE, Camera(b2, a, r, a, d))
          BY <3>7, <3>8, <3>21
        <4> QED
          BY <3>2, <3>3, <3>4, <3>7, <3>8, <4>1, <4>2, Reconfigures
      <3>27. Good(k, q2, f, Camera(b1, a, r, a, d))
        <4>1. Good(k, q3, f, Camera([b1 EXCEPT !["sub"] = <<>>], a, r, a, d))
          BY <3>26 DEF Rewire
        <4>2. ~f => Good(k, e2, TRUE, Camera(b1, a, r, a, d))
          <5> SUFFICES ASSUME ~f PROVE Good(k, e2, TRUE, Camera(b1, a, r, a, d))
            OBVIOUS
          <5> DEFINE c == Rewire(b1, "main", fm)
          <5> HIDE DEF b, b1, fm, fs
          <5>1. Wiring(c) /\ c["main"] = fm /\ c["sub"] = fs /\ c["record"] = b["record"]
            BY <3>4, <3>13, Rewired
          <5>2. c = [b1 EXCEPT !["main"] = fm]
            BY DEF Rewire
          <5> HIDE DEF c
          <5>3. \A u \in Venc : c[u] = b[u]
            BY <3>4, <3>5, <5>1
          <5>4. c = b
            BY <3>5, <5>1, <5>3, SameWires
          <5>5. Good(k, else, TRUE, Camera([b1 EXCEPT !["main"] = fm], a, r, a, d))
            BY <3>12, <5>2, <5>4
          <5> HIDE DEF a, r
          <5>6. Good(k, Then(Step("bind", "main", fm, <<>>), else), TRUE, Camera(b1, a, r, a, d))
            BY <3>13, <5>5, BindsFree
          <5> QED
            BY <5>6 DEF Do
        <4>3. b1["sub"] = fs
          BY <3>13
        <4> HIDE DEF q3, e2, b1, a, r, fs
        <4> QED
          BY <3>3, <4>1, <4>2, <4>3, Unbinds
      <3>28. Good(k, q1, f, Camera(b, a, r, a, d))
        <4>1. Good(k, q2, f, Camera([b EXCEPT !["main"] = <<>>], a, r, a, d))
          BY <3>27 DEF Rewire
        <4> HIDE DEF q2, b, a, r, fm
        <4> QED
          BY <3>3, <3>5, <3>12, <4>1, Unbinds
      <3>29. x = Camera(b, a, r, a, d)
        BY DEF x, Settled
      <3> HIDE DEF q1
      <3> QED
        BY <3>1, <3>28, <3>29
    <2> QED
      BY <2>1, <2>2
  <1>4. Expansion(x.impl, s) = switch_sources(m, t, else)
    BY <1>1, <1>2 DEF Expansion
  <1> HIDE DEF s, x, m
  <1>5. s.op \in Macros
    BY <1>2 DEF Macros
  <1>6. Good(k, Then(s, p), f, x)
    BY <1>3, <1>4, <1>5, GoodMacro
  <1> QED
    BY <1>6 DEF s, x

-----------------------------------------------------------------------------
(* One fact of the scene changed, by one step. *)

LEMMA SceneIs ==
    ASSUME NEW d \in Scenes
    PROVE  /\ d.optics \in Nat /\ d.crop \in [Lenses -> Nat] /\ d.flip \in [1 .. Ports -> BOOLEAN]
           /\ d.still \in SUBSET Stills /\ d.group \in Lenses /\ d.thermal \in BOOLEAN /\ d.zoom \in Zooms
           /\ d.hfov \in Views /\ d.ratio \in [Lenses -> Nat] /\ d.inverted \in BOOLEAN /\ d.cfg \in Configs
           /\ d.config \in Configs /\ d.upside \in BOOLEAN /\ d.stale \in SUBSET {"view", "zoom", "flip"}
           /\ d.on \in BOOLEAN /\ d.off \in BOOLEAN
  BY DEF Scenes

LEMMA SettledIs ==
    ASSUME NEW d, NEW e, e.group = d.group, e.thermal = d.thermal
    PROVE  Settled(e) = Camera(Binds(d), Attrs(d.thermal), Running, Attrs(d.thermal), e)
  BY DEF Settled, Binds

WithOptics(d, w) == [d EXCEPT !.optics = w]
LEMMA WithOpticsIs ==
    ASSUME NEW d \in Scenes, NEW w \in Nat
    PROVE  LET e == WithOptics(d, w) IN
           /\ e \in Scenes
           /\ e.optics = w /\ e.crop = d.crop /\ e.flip = d.flip /\ e.still = d.still
           /\ e.group = d.group /\ e.thermal = d.thermal /\ e.zoom = d.zoom /\ e.hfov = d.hfov
           /\ e.ratio = d.ratio /\ e.inverted = d.inverted /\ e.cfg = d.cfg /\ e.config = d.config
           /\ e.upside = d.upside /\ e.stale = d.stale /\ e.on = d.on /\ e.off = d.off
  BY DEF Scenes, WithOptics

WithCrop(d, l, w) == [d EXCEPT !.crop = [d.crop EXCEPT ![l] = w]]
LEMMA WithCropIs ==
    ASSUME NEW d \in Scenes, NEW l \in Lenses, NEW w \in Nat
    PROVE  LET e == WithCrop(d, l, w) IN
           /\ e \in Scenes
           /\ e.optics = d.optics /\ e.crop = [d.crop EXCEPT ![l] = w] /\ e.flip = d.flip /\ e.still = d.still
           /\ e.group = d.group /\ e.thermal = d.thermal /\ e.zoom = d.zoom /\ e.hfov = d.hfov
           /\ e.ratio = d.ratio /\ e.inverted = d.inverted /\ e.cfg = d.cfg /\ e.config = d.config
           /\ e.upside = d.upside /\ e.stale = d.stale /\ e.on = d.on /\ e.off = d.off
PROOF
  <1> DEFINE c == [d.crop EXCEPT ![l] = w]
             e == [d EXCEPT !.crop = c]
  <1>1. c \in [Lenses -> Nat]
    BY SceneIs
  <1> HIDE DEF c
  <1>2. e \in Scenes
    BY <1>1 DEF Scenes
  <1>3. /\ e.optics = d.optics /\ e.crop = c /\ e.flip = d.flip /\ e.still = d.still
        /\ e.group = d.group /\ e.thermal = d.thermal /\ e.zoom = d.zoom /\ e.hfov = d.hfov
        /\ e.ratio = d.ratio /\ e.inverted = d.inverted /\ e.cfg = d.cfg /\ e.config = d.config
        /\ e.upside = d.upside /\ e.stale = d.stale /\ e.on = d.on /\ e.off = d.off
    BY DEF Scenes
  <1> HIDE DEF e
  <1>4. WithCrop(d, l, w) = e
    BY DEF WithCrop, c, e
  <1> QED
    BY <1>2, <1>3, <1>4 DEF c

WithRatio(d, l, w) == [d EXCEPT !.ratio = [d.ratio EXCEPT ![l] = w]]
LEMMA WithRatioIs ==
    ASSUME NEW d \in Scenes, NEW l \in Lenses, NEW w \in Nat
    PROVE  LET e == WithRatio(d, l, w) IN
           /\ e \in Scenes
           /\ e.optics = d.optics /\ e.crop = d.crop /\ e.flip = d.flip /\ e.still = d.still
           /\ e.group = d.group /\ e.thermal = d.thermal /\ e.zoom = d.zoom /\ e.hfov = d.hfov
           /\ e.ratio = [d.ratio EXCEPT ![l] = w] /\ e.inverted = d.inverted /\ e.cfg = d.cfg /\ e.config = d.config
           /\ e.upside = d.upside /\ e.stale = d.stale /\ e.on = d.on /\ e.off = d.off
PROOF
  <1> DEFINE c == [d.ratio EXCEPT ![l] = w]
             e == [d EXCEPT !.ratio = c]
  <1>1. c \in [Lenses -> Nat]
    BY SceneIs
  <1> HIDE DEF c
  <1>2. e \in Scenes
    BY <1>1 DEF Scenes
  <1>3. /\ e.optics = d.optics /\ e.crop = d.crop /\ e.flip = d.flip /\ e.still = d.still
        /\ e.group = d.group /\ e.thermal = d.thermal /\ e.zoom = d.zoom /\ e.hfov = d.hfov
        /\ e.ratio = c /\ e.inverted = d.inverted /\ e.cfg = d.cfg /\ e.config = d.config
        /\ e.upside = d.upside /\ e.stale = d.stale /\ e.on = d.on /\ e.off = d.off
    BY DEF Scenes
  <1> HIDE DEF e
  <1>4. WithRatio(d, l, w) = e
    BY DEF WithRatio, c, e
  <1> QED
    BY <1>2, <1>3, <1>4 DEF c

WithFlip(d, i, w) == [d EXCEPT !.flip = [d.flip EXCEPT ![i] = w]]
LEMMA WithFlipIs ==
    ASSUME NEW d \in Scenes, NEW i \in 1 .. Ports, NEW w \in BOOLEAN
    PROVE  LET e == WithFlip(d, i, w) IN
           /\ e \in Scenes
           /\ e.optics = d.optics /\ e.crop = d.crop /\ e.flip = [d.flip EXCEPT ![i] = w] /\ e.still = d.still
           /\ e.group = d.group /\ e.thermal = d.thermal /\ e.zoom = d.zoom /\ e.hfov = d.hfov
           /\ e.ratio = d.ratio /\ e.inverted = d.inverted /\ e.cfg = d.cfg /\ e.config = d.config
           /\ e.upside = d.upside /\ e.stale = d.stale /\ e.on = d.on /\ e.off = d.off
PROOF
  <1> DEFINE c == [d.flip EXCEPT ![i] = w]
             e == [d EXCEPT !.flip = c]
  <1>1. c \in [1 .. Ports -> BOOLEAN]
    BY SceneIs
  <1> HIDE DEF c
  <1>2. e \in Scenes
    BY <1>1 DEF Scenes
  <1>3. /\ e.optics = d.optics /\ e.crop = d.crop /\ e.flip = c /\ e.still = d.still
        /\ e.group = d.group /\ e.thermal = d.thermal /\ e.zoom = d.zoom /\ e.hfov = d.hfov
        /\ e.ratio = d.ratio /\ e.inverted = d.inverted /\ e.cfg = d.cfg /\ e.config = d.config
        /\ e.upside = d.upside /\ e.stale = d.stale /\ e.on = d.on /\ e.off = d.off
    BY DEF Scenes
  <1> HIDE DEF e
  <1>4. WithFlip(d, i, w) = e
    BY DEF WithFlip, c, e
  <1> QED
    BY <1>2, <1>3, <1>4 DEF c

WithMore(d, w) == [d EXCEPT !.still = d.still \cup {w}]
LEMMA WithMoreIs ==
    ASSUME NEW d \in Scenes, NEW w \in Stills
    PROVE  LET e == WithMore(d, w) IN
           /\ e \in Scenes
           /\ e.optics = d.optics /\ e.crop = d.crop /\ e.flip = d.flip /\ e.still = d.still \cup {w}
           /\ e.group = d.group /\ e.thermal = d.thermal /\ e.zoom = d.zoom /\ e.hfov = d.hfov
           /\ e.ratio = d.ratio /\ e.inverted = d.inverted /\ e.cfg = d.cfg /\ e.config = d.config
           /\ e.upside = d.upside /\ e.stale = d.stale /\ e.on = d.on /\ e.off = d.off
PROOF
  <1> DEFINE c == d.still \cup {w}
             e == [d EXCEPT !.still = c]
  <1>1. c \in SUBSET Stills
    BY SceneIs
  <1> HIDE DEF c
  <1>2. e \in Scenes
    BY <1>1 DEF Scenes
  <1>3. /\ e.optics = d.optics /\ e.crop = d.crop /\ e.flip = d.flip /\ e.still = c
        /\ e.group = d.group /\ e.thermal = d.thermal /\ e.zoom = d.zoom /\ e.hfov = d.hfov
        /\ e.ratio = d.ratio /\ e.inverted = d.inverted /\ e.cfg = d.cfg /\ e.config = d.config
        /\ e.upside = d.upside /\ e.stale = d.stale /\ e.on = d.on /\ e.off = d.off
    BY DEF Scenes
  <1> HIDE DEF e
  <1>4. WithMore(d, w) = e
    BY DEF WithMore, c, e
  <1> QED
    BY <1>2, <1>3, <1>4 DEF c

WithLess(d, w) == [d EXCEPT !.still = d.still \ {w}]
LEMMA WithLessIs ==
    ASSUME NEW d \in Scenes, NEW w \in Stills
    PROVE  LET e == WithLess(d, w) IN
           /\ e \in Scenes
           /\ e.optics = d.optics /\ e.crop = d.crop /\ e.flip = d.flip /\ e.still = d.still \ {w}
           /\ e.group = d.group /\ e.thermal = d.thermal /\ e.zoom = d.zoom /\ e.hfov = d.hfov
           /\ e.ratio = d.ratio /\ e.inverted = d.inverted /\ e.cfg = d.cfg /\ e.config = d.config
           /\ e.upside = d.upside /\ e.stale = d.stale /\ e.on = d.on /\ e.off = d.off
PROOF
  <1> DEFINE c == d.still \ {w}
             e == [d EXCEPT !.still = c]
  <1>1. c \in SUBSET Stills
    BY SceneIs
  <1> HIDE DEF c
  <1>2. e \in Scenes
    BY <1>1 DEF Scenes
  <1>3. /\ e.optics = d.optics /\ e.crop = d.crop /\ e.flip = d.flip /\ e.still = c
        /\ e.group = d.group /\ e.thermal = d.thermal /\ e.zoom = d.zoom /\ e.hfov = d.hfov
        /\ e.ratio = d.ratio /\ e.inverted = d.inverted /\ e.cfg = d.cfg /\ e.config = d.config
        /\ e.upside = d.upside /\ e.stale = d.stale /\ e.on = d.on /\ e.off = d.off
    BY DEF Scenes
  <1> HIDE DEF e
  <1>4. WithLess(d, w) = e
    BY DEF WithLess, c, e
  <1> QED
    BY <1>2, <1>3, <1>4 DEF c

WithZoom(d, w) == [d EXCEPT !.zoom = w]
LEMMA WithZoomIs ==
    ASSUME NEW d \in Scenes, NEW w \in Zooms
    PROVE  LET e == WithZoom(d, w) IN
           /\ e \in Scenes
           /\ e.optics = d.optics /\ e.crop = d.crop /\ e.flip = d.flip /\ e.still = d.still
           /\ e.group = d.group /\ e.thermal = d.thermal /\ e.zoom = w /\ e.hfov = d.hfov
           /\ e.ratio = d.ratio /\ e.inverted = d.inverted /\ e.cfg = d.cfg /\ e.config = d.config
           /\ e.upside = d.upside /\ e.stale = d.stale /\ e.on = d.on /\ e.off = d.off
  BY DEF Scenes, WithZoom

WithInverted(d, w) == [d EXCEPT !.inverted = w]
LEMMA WithInvertedIs ==
    ASSUME NEW d \in Scenes, NEW w \in BOOLEAN
    PROVE  LET e == WithInverted(d, w) IN
           /\ e \in Scenes
           /\ e.optics = d.optics /\ e.crop = d.crop /\ e.flip = d.flip /\ e.still = d.still
           /\ e.group = d.group /\ e.thermal = d.thermal /\ e.zoom = d.zoom /\ e.hfov = d.hfov
           /\ e.ratio = d.ratio /\ e.inverted = w /\ e.cfg = d.cfg /\ e.config = d.config
           /\ e.upside = d.upside /\ e.stale = d.stale /\ e.on = d.on /\ e.off = d.off
  BY DEF Scenes, WithInverted

WithUpside(d, w) == [d EXCEPT !.upside = w]
LEMMA WithUpsideIs ==
    ASSUME NEW d \in Scenes, NEW w \in BOOLEAN
    PROVE  LET e == WithUpside(d, w) IN
           /\ e \in Scenes
           /\ e.optics = d.optics /\ e.crop = d.crop /\ e.flip = d.flip /\ e.still = d.still
           /\ e.group = d.group /\ e.thermal = d.thermal /\ e.zoom = d.zoom /\ e.hfov = d.hfov
           /\ e.ratio = d.ratio /\ e.inverted = d.inverted /\ e.cfg = d.cfg /\ e.config = d.config
           /\ e.upside = w /\ e.stale = d.stale /\ e.on = d.on /\ e.off = d.off
  BY DEF Scenes, WithUpside

WithConfig(d, w) == [d EXCEPT !.config = w]
LEMMA WithConfigIs ==
    ASSUME NEW d \in Scenes, NEW w \in Configs
    PROVE  LET e == WithConfig(d, w) IN
           /\ e \in Scenes
           /\ e.optics = d.optics /\ e.crop = d.crop /\ e.flip = d.flip /\ e.still = d.still
           /\ e.group = d.group /\ e.thermal = d.thermal /\ e.zoom = d.zoom /\ e.hfov = d.hfov
           /\ e.ratio = d.ratio /\ e.inverted = d.inverted /\ e.cfg = d.cfg /\ e.config = w
           /\ e.upside = d.upside /\ e.stale = d.stale /\ e.on = d.on /\ e.off = d.off
  BY DEF Scenes, WithConfig

WithStale(d, w) == [d EXCEPT !.stale = d.stale \cup {w}]
LEMMA WithStaleIs ==
    ASSUME NEW d \in Scenes, NEW w \in {"view", "zoom", "flip"}
    PROVE  LET e == WithStale(d, w) IN
           /\ e \in Scenes
           /\ e.optics = d.optics /\ e.crop = d.crop /\ e.flip = d.flip /\ e.still = d.still
           /\ e.group = d.group /\ e.thermal = d.thermal /\ e.zoom = d.zoom /\ e.hfov = d.hfov
           /\ e.ratio = d.ratio /\ e.inverted = d.inverted /\ e.cfg = d.cfg /\ e.config = d.config
           /\ e.upside = d.upside /\ e.stale = d.stale \cup {w} /\ e.on = d.on /\ e.off = d.off
PROOF
  <1> DEFINE c == d.stale \cup {w}
             e == [d EXCEPT !.stale = c]
  <1>1. c \in SUBSET {"view", "zoom", "flip"}
    BY SceneIs
  <1> HIDE DEF c
  <1>2. e \in Scenes
    BY <1>1 DEF Scenes
  <1>3. /\ e.optics = d.optics /\ e.crop = d.crop /\ e.flip = d.flip /\ e.still = d.still
        /\ e.group = d.group /\ e.thermal = d.thermal /\ e.zoom = d.zoom /\ e.hfov = d.hfov
        /\ e.ratio = d.ratio /\ e.inverted = d.inverted /\ e.cfg = d.cfg /\ e.config = d.config
        /\ e.upside = d.upside /\ e.stale = c /\ e.on = d.on /\ e.off = d.off
    BY DEF Scenes
  <1> HIDE DEF e
  <1>4. WithStale(d, w) = e
    BY DEF WithStale, c, e
  <1> QED
    BY <1>2, <1>3, <1>4 DEF c

WithSettled(d, w) == [d EXCEPT !.stale = d.stale \ {w}]
LEMMA WithSettledIs ==
    ASSUME NEW d \in Scenes, NEW w \in {"view", "zoom", "flip"}
    PROVE  LET e == WithSettled(d, w) IN
           /\ e \in Scenes
           /\ e.optics = d.optics /\ e.crop = d.crop /\ e.flip = d.flip /\ e.still = d.still
           /\ e.group = d.group /\ e.thermal = d.thermal /\ e.zoom = d.zoom /\ e.hfov = d.hfov
           /\ e.ratio = d.ratio /\ e.inverted = d.inverted /\ e.cfg = d.cfg /\ e.config = d.config
           /\ e.upside = d.upside /\ e.stale = d.stale \ {w} /\ e.on = d.on /\ e.off = d.off
PROOF
  <1> DEFINE c == d.stale \ {w}
             e == [d EXCEPT !.stale = c]
  <1>1. c \in SUBSET {"view", "zoom", "flip"}
    BY SceneIs
  <1> HIDE DEF c
  <1>2. e \in Scenes
    BY <1>1 DEF Scenes
  <1>3. /\ e.optics = d.optics /\ e.crop = d.crop /\ e.flip = d.flip /\ e.still = d.still
        /\ e.group = d.group /\ e.thermal = d.thermal /\ e.zoom = d.zoom /\ e.hfov = d.hfov
        /\ e.ratio = d.ratio /\ e.inverted = d.inverted /\ e.cfg = d.cfg /\ e.config = d.config
        /\ e.upside = d.upside /\ e.stale = c /\ e.on = d.on /\ e.off = d.off
    BY DEF Scenes
  <1> HIDE DEF e
  <1>4. WithSettled(d, w) = e
    BY DEF WithSettled, c, e
  <1> QED
    BY <1>2, <1>3, <1>4 DEF c

WithMoved(d, w) == [d EXCEPT !.stale = IF "zoom" \in d.stale THEN d.stale \cup {w} ELSE d.stale]
LEMMA WithMovedIs ==
    ASSUME NEW d \in Scenes, NEW w \in {"view", "zoom", "flip"}
    PROVE  LET e == WithMoved(d, w) IN
           /\ e \in Scenes
           /\ e.optics = d.optics /\ e.crop = d.crop /\ e.flip = d.flip /\ e.still = d.still
           /\ e.group = d.group /\ e.thermal = d.thermal /\ e.zoom = d.zoom /\ e.hfov = d.hfov
           /\ e.ratio = d.ratio /\ e.inverted = d.inverted /\ e.cfg = d.cfg /\ e.config = d.config
           /\ e.upside = d.upside /\ e.stale = (IF "zoom" \in d.stale THEN d.stale \cup {w} ELSE d.stale) /\ e.on = d.on /\ e.off = d.off
PROOF
  <1> DEFINE c == IF "zoom" \in d.stale THEN d.stale \cup {w} ELSE d.stale
             e == [d EXCEPT !.stale = c]
  <1>1. c \in SUBSET {"view", "zoom", "flip"}
    BY SceneIs
  <1> HIDE DEF c
  <1>2. e \in Scenes
    BY <1>1 DEF Scenes
  <1>3. /\ e.optics = d.optics /\ e.crop = d.crop /\ e.flip = d.flip /\ e.still = d.still
        /\ e.group = d.group /\ e.thermal = d.thermal /\ e.zoom = d.zoom /\ e.hfov = d.hfov
        /\ e.ratio = d.ratio /\ e.inverted = d.inverted /\ e.cfg = d.cfg /\ e.config = d.config
        /\ e.upside = d.upside /\ e.stale = c /\ e.on = d.on /\ e.off = d.off
    BY DEF Scenes
  <1> HIDE DEF e
  <1>4. WithMoved(d, w) = e
    BY DEF WithMoved, c, e
  <1> QED
    BY <1>2, <1>3, <1>4 DEF c

WithOff(d, w) == [d EXCEPT !.off = w]
LEMMA WithOffIs ==
    ASSUME NEW d \in Scenes, NEW w \in BOOLEAN
    PROVE  LET e == WithOff(d, w) IN
           /\ e \in Scenes
           /\ e.optics = d.optics /\ e.crop = d.crop /\ e.flip = d.flip /\ e.still = d.still
           /\ e.group = d.group /\ e.thermal = d.thermal /\ e.zoom = d.zoom /\ e.hfov = d.hfov
           /\ e.ratio = d.ratio /\ e.inverted = d.inverted /\ e.cfg = d.cfg /\ e.config = d.config
           /\ e.upside = d.upside /\ e.stale = d.stale /\ e.on = d.on /\ e.off = w
  BY DEF Scenes, WithOff

LEMMA CameraCrops ==
    ASSUME NEW k, NEW l \in Lenses, NEW w \in Nat, NEW else, NEW p, NEW f, NEW d \in Scenes, IsProgram(p),
           Good(k, p, f, Settled(WithCrop(d, l, w))),
           ~f => Good(k, else, TRUE, Settled(d))
    PROVE  Good(k, Then(Step("crop", l, w, else), p), f, Settled(d))
PROOF
  <1> DEFINE b == Binds(d)
             a == Attrs(d.thermal)
             r == Running
  <1>1. Settled(WithCrop(d, l, w)) = Camera(b, a, r, a, WithCrop(d, l, w))
    <2>1. WithCrop(d, l, w).group = d.group /\ WithCrop(d, l, w).thermal = d.thermal
      BY WithCropIs
    <2> QED
      BY <2>1, SettledIs
  <1>2. Good(k, p, f, Camera(b, a, r, a, [d EXCEPT !.crop = [d.crop EXCEPT ![l] = w]]))
    BY <1>1 DEF WithCrop
  <1>3. ~f => Good(k, else, TRUE, Camera(b, a, r, a, d))
    BY DEF Settled
  <1>4. Settled(d) = Camera(b, a, r, a, d)
    BY DEF Settled
  <1> HIDE DEF b, a, r
  <1>6. Good(k, Then(Step("crop", l, w, else), p), f, Camera(b, a, r, a, d))
    BY <1>2, <1>3, Crops
  <1> QED
    BY <1>4, <1>6

LEMMA CameraFlips ==
    ASSUME NEW k, NEW i \in 1 .. Ports, NEW w \in BOOLEAN, NEW else, NEW p, NEW f, NEW d \in Scenes, IsProgram(p),
           Good(k, p, f, Settled(WithFlip(d, i, w))),
           ~f => Good(k, else, TRUE, Settled(d))
    PROVE  Good(k, Then(Step("flip", i, w, else), p), f, Settled(d))
PROOF
  <1> DEFINE b == Binds(d)
             a == Attrs(d.thermal)
             r == Running
  <1>1. Settled(WithFlip(d, i, w)) = Camera(b, a, r, a, WithFlip(d, i, w))
    <2>1. WithFlip(d, i, w).group = d.group /\ WithFlip(d, i, w).thermal = d.thermal
      BY WithFlipIs
    <2> QED
      BY <2>1, SettledIs
  <1>2. Good(k, p, f, Camera(b, a, r, a, [d EXCEPT !.flip = [d.flip EXCEPT ![i] = w]]))
    BY <1>1 DEF WithFlip
  <1>3. ~f => Good(k, else, TRUE, Camera(b, a, r, a, d))
    BY DEF Settled
  <1>4. Settled(d) = Camera(b, a, r, a, d)
    BY DEF Settled
  <1> HIDE DEF b, a, r
  <1>6. Good(k, Then(Step("flip", i, w, else), p), f, Camera(b, a, r, a, d))
    BY <1>2, <1>3, Flips
  <1> QED
    BY <1>4, <1>6

LEMMA CameraTakes ==
    ASSUME NEW k, NEW w \in Stills, NEW to, NEW else, NEW p, NEW f, NEW d \in Scenes, IsProgram(p),
           Good(k, p, f, Settled(WithMore(d, w))),
           ~f => Good(k, else, TRUE, Settled(d))
    PROVE  Good(k, Then(Step("take", w, to, else), p), f, Settled(d))
PROOF
  <1> DEFINE b == Binds(d)
             a == Attrs(d.thermal)
             r == Running
  <1>1. Settled(WithMore(d, w)) = Camera(b, a, r, a, WithMore(d, w))
    <2>1. WithMore(d, w).group = d.group /\ WithMore(d, w).thermal = d.thermal
      BY WithMoreIs
    <2> QED
      BY <2>1, SettledIs
  <1>2. Good(k, p, f, Camera(b, a, r, a, [d EXCEPT !.still = d.still \cup {w}]))
    BY <1>1 DEF WithMore
  <1>3. ~f => Good(k, else, TRUE, Camera(b, a, r, a, d))
    BY DEF Settled
  <1>4. Settled(d) = Camera(b, a, r, a, d)
    BY DEF Settled
  <1> HIDE DEF b, a, r
  <1>6. Good(k, Then(Step("take", w, to, else), p), f, Camera(b, a, r, a, d))
    BY <1>2, <1>3, Takes
  <1> QED
    BY <1>4, <1>6

LEMMA CameraDrops ==
    ASSUME NEW k, NEW w \in Stills, NEW to, NEW else, NEW p, NEW f, NEW d \in Scenes, IsProgram(p),
           Good(k, p, f, Settled(WithLess(d, w)))
    PROVE  Good(k, Then(Step("drop", w, to, else), p), f, Settled(d))
PROOF
  <1> DEFINE b == Binds(d)
             a == Attrs(d.thermal)
             r == Running
  <1>1. Settled(WithLess(d, w)) = Camera(b, a, r, a, WithLess(d, w))
    <2>1. WithLess(d, w).group = d.group /\ WithLess(d, w).thermal = d.thermal
      BY WithLessIs
    <2> QED
      BY <2>1, SettledIs
  <1>2. Good(k, p, f, Camera(b, a, r, a, [d EXCEPT !.still = d.still \ {w}]))
    BY <1>1 DEF WithLess
  <1>4. Settled(d) = Camera(b, a, r, a, d)
    BY DEF Settled
  <1> HIDE DEF b, a, r
  <1>6. Good(k, Then(Step("drop", w, to, else), p), f, Camera(b, a, r, a, d))
    BY <1>2, Drops
  <1> QED
    BY <1>4, <1>6

LEMMA CameraRatio ==
    ASSUME NEW k, NEW l \in Lenses, NEW w \in Nat, NEW p, NEW f, NEW d \in Scenes, IsProgram(p),
           Good(k, p, f, Settled(WithRatio(d, l, w)))
    PROVE  Good(k, Then(Do("noteratio", l, w), p), f, Settled(d))
PROOF
  <1> DEFINE b == Binds(d)
             a == Attrs(d.thermal)
             r == Running
  <1>1. Settled(WithRatio(d, l, w)) = Camera(b, a, r, a, WithRatio(d, l, w))
    <2>1. WithRatio(d, l, w).group = d.group /\ WithRatio(d, l, w).thermal = d.thermal
      BY WithRatioIs
    <2> QED
      BY <2>1, SettledIs
  <1>2. Good(k, p, f, Camera(b, a, r, a, [d EXCEPT !.ratio = [d.ratio EXCEPT ![l] = w]]))
    BY <1>1 DEF WithRatio
  <1>4. Settled(d) = Camera(b, a, r, a, d)
    BY DEF Settled
  <1> HIDE DEF b, a, r
  <1>6. Good(k, Then(Do("noteratio", l, w), p), f, Camera(b, a, r, a, d))
    BY <1>2, NotesRatio
  <1> QED
    BY <1>4, <1>6

LEMMA CameraZoom ==
    ASSUME NEW k, NEW w \in Zooms, NEW p, NEW f, NEW d \in Scenes, IsProgram(p),
           Good(k, p, f, Settled(WithZoom(d, w)))
    PROVE  Good(k, Then(Note("zoom", w), p), f, Settled(d))
PROOF
  <1> DEFINE b == Binds(d)
             a == Attrs(d.thermal)
             r == Running
  <1>1. Settled(WithZoom(d, w)) = Camera(b, a, r, a, WithZoom(d, w))
    <2>1. WithZoom(d, w).group = d.group /\ WithZoom(d, w).thermal = d.thermal
      BY WithZoomIs
    <2> QED
      BY <2>1, SettledIs
  <1>2. Good(k, p, f, Camera(b, a, r, a, [d EXCEPT !.zoom = w]))
    BY <1>1 DEF WithZoom
  <1>4. Settled(d) = Camera(b, a, r, a, d)
    BY DEF Settled
  <1> HIDE DEF b, a, r
  <1>6. Good(k, Then(Note("zoom", w), p), f, Camera(b, a, r, a, d))
    BY <1>2, NotesZoom
  <1> QED
    BY <1>4, <1>6

LEMMA CameraInverted ==
    ASSUME NEW k, NEW w \in BOOLEAN, NEW p, NEW f, NEW d \in Scenes, IsProgram(p),
           Good(k, p, f, Settled(WithInverted(d, w)))
    PROVE  Good(k, Then(Note("inverted", w), p), f, Settled(d))
PROOF
  <1> DEFINE b == Binds(d)
             a == Attrs(d.thermal)
             r == Running
  <1>1. Settled(WithInverted(d, w)) = Camera(b, a, r, a, WithInverted(d, w))
    <2>1. WithInverted(d, w).group = d.group /\ WithInverted(d, w).thermal = d.thermal
      BY WithInvertedIs
    <2> QED
      BY <2>1, SettledIs
  <1>2. Good(k, p, f, Camera(b, a, r, a, [d EXCEPT !.inverted = w]))
    BY <1>1 DEF WithInverted
  <1>4. Settled(d) = Camera(b, a, r, a, d)
    BY DEF Settled
  <1> HIDE DEF b, a, r
  <1>6. Good(k, Then(Note("inverted", w), p), f, Camera(b, a, r, a, d))
    BY <1>2, NotesInverted
  <1> QED
    BY <1>4, <1>6

LEMMA CameraUpside ==
    ASSUME NEW k, NEW w \in BOOLEAN, NEW p, NEW f, NEW d \in Scenes, IsProgram(p),
           Good(k, p, f, Settled(WithUpside(d, w)))
    PROVE  Good(k, Then(Note("media_inverted", w), p), f, Settled(d))
PROOF
  <1> DEFINE b == Binds(d)
             a == Attrs(d.thermal)
             r == Running
  <1>1. Settled(WithUpside(d, w)) = Camera(b, a, r, a, WithUpside(d, w))
    <2>1. WithUpside(d, w).group = d.group /\ WithUpside(d, w).thermal = d.thermal
      BY WithUpsideIs
    <2> QED
      BY <2>1, SettledIs
  <1>2. Good(k, p, f, Camera(b, a, r, a, [d EXCEPT !.upside = w]))
    BY <1>1 DEF WithUpside
  <1>4. Settled(d) = Camera(b, a, r, a, d)
    BY DEF Settled
  <1> HIDE DEF b, a, r
  <1>6. Good(k, Then(Note("media_inverted", w), p), f, Camera(b, a, r, a, d))
    BY <1>2, NotesUpside
  <1> QED
    BY <1>4, <1>6

LEMMA CameraConfig ==
    ASSUME NEW k, NEW w \in Configs, NEW p, NEW f, NEW d \in Scenes, IsProgram(p),
           Good(k, p, f, Settled(WithConfig(d, w)))
    PROVE  Good(k, Then(Note("config", w), p), f, Settled(d))
PROOF
  <1> DEFINE b == Binds(d)
             a == Attrs(d.thermal)
             r == Running
  <1>1. Settled(WithConfig(d, w)) = Camera(b, a, r, a, WithConfig(d, w))
    <2>1. WithConfig(d, w).group = d.group /\ WithConfig(d, w).thermal = d.thermal
      BY WithConfigIs
    <2> QED
      BY <2>1, SettledIs
  <1>2. Good(k, p, f, Camera(b, a, r, a, [d EXCEPT !.config = w]))
    BY <1>1 DEF WithConfig
  <1>4. Settled(d) = Camera(b, a, r, a, d)
    BY DEF Settled
  <1> HIDE DEF b, a, r
  <1>6. Good(k, Then(Note("config", w), p), f, Camera(b, a, r, a, d))
    BY <1>2, NotesConfig
  <1> QED
    BY <1>4, <1>6

LEMMA CameraStale ==
    ASSUME NEW k, NEW w \in {"view", "zoom", "flip"}, NEW p, NEW f, NEW d \in Scenes, IsProgram(p),
           Good(k, p, f, Settled(WithStale(d, w)))
    PROVE  Good(k, Then(Note("stale", w), p), f, Settled(d))
PROOF
  <1> DEFINE b == Binds(d)
             a == Attrs(d.thermal)
             r == Running
  <1>1. Settled(WithStale(d, w)) = Camera(b, a, r, a, WithStale(d, w))
    <2>1. WithStale(d, w).group = d.group /\ WithStale(d, w).thermal = d.thermal
      BY WithStaleIs
    <2> QED
      BY <2>1, SettledIs
  <1>2. Good(k, p, f, Camera(b, a, r, a, [d EXCEPT !.stale = d.stale \cup {w}]))
    BY <1>1 DEF WithStale
  <1>4. Settled(d) = Camera(b, a, r, a, d)
    BY DEF Settled
  <1>5. w # "gain"
    OBVIOUS
  <1> HIDE DEF b, a, r
  <1>6. Good(k, Then(Note("stale", w), p), f, Camera(b, a, r, a, d))
    BY <1>2, <1>5, NotesStale
  <1> QED
    BY <1>4, <1>6

LEMMA CameraSettled ==
    ASSUME NEW k, NEW w \in {"view", "zoom", "flip"}, NEW p, NEW f, NEW d \in Scenes, IsProgram(p),
           Good(k, p, f, Settled(WithSettled(d, w)))
    PROVE  Good(k, Then(Note("settled", w), p), f, Settled(d))
PROOF
  <1> DEFINE b == Binds(d)
             a == Attrs(d.thermal)
             r == Running
  <1>1. Settled(WithSettled(d, w)) = Camera(b, a, r, a, WithSettled(d, w))
    <2>1. WithSettled(d, w).group = d.group /\ WithSettled(d, w).thermal = d.thermal
      BY WithSettledIs
    <2> QED
      BY <2>1, SettledIs
  <1>2. Good(k, p, f, Camera(b, a, r, a, [d EXCEPT !.stale = d.stale \ {w}]))
    BY <1>1 DEF WithSettled
  <1>4. Settled(d) = Camera(b, a, r, a, d)
    BY DEF Settled
  <1>5. w # "gain"
    OBVIOUS
  <1> HIDE DEF b, a, r
  <1>6. Good(k, Then(Note("settled", w), p), f, Camera(b, a, r, a, d))
    BY <1>2, <1>5, NotesSettled
  <1> QED
    BY <1>4, <1>6

LEMMA CameraMoved ==
    ASSUME NEW k, NEW w \in {"view", "zoom", "flip"}, NEW p, NEW f, NEW d \in Scenes, IsProgram(p),
           Good(k, p, f, Settled(WithMoved(d, w)))
    PROVE  Good(k, Then(Note("moved", w), p), f, Settled(d))
PROOF
  <1> DEFINE b == Binds(d)
             a == Attrs(d.thermal)
             r == Running
  <1>1. Settled(WithMoved(d, w)) = Camera(b, a, r, a, WithMoved(d, w))
    <2>1. WithMoved(d, w).group = d.group /\ WithMoved(d, w).thermal = d.thermal
      BY WithMovedIs
    <2> QED
      BY <2>1, SettledIs
  <1>2. Good(k, p, f, Camera(b, a, r, a, [d EXCEPT !.stale = IF "zoom" \in d.stale THEN d.stale \cup {w} ELSE d.stale]))
    BY <1>1 DEF WithMoved
  <1>4. Settled(d) = Camera(b, a, r, a, d)
    BY DEF Settled
  <1>5. w # "gain"
    OBVIOUS
  <1> HIDE DEF b, a, r
  <1>6. Good(k, Then(Note("moved", w), p), f, Camera(b, a, r, a, d))
    BY <1>2, <1>5, NotesMoved
  <1> QED
    BY <1>4, <1>6

LEMMA CameraOptics ==
    ASSUME NEW k, NEW w \in Nat, NEW else, NEW p, NEW f, NEW d \in Scenes, IsProgram(p),
           Good(k, p, f, Settled(WithOptics(d, w))),
           ~f => Good(k, else, TRUE, Settled(WithOptics(d, 0)))
    PROVE  Good(k, Then(Step("optics", "none", w, else), p), f, Settled(d))
PROOF
  <1> DEFINE b == Binds(d)
             a == Attrs(d.thermal)
             r == Running
  <1>1. ASSUME NEW u \in Nat
        PROVE  Settled(WithOptics(d, u)) = Camera(b, a, r, a, WithOptics(d, u))
    <2>1. WithOptics(d, u).group = d.group /\ WithOptics(d, u).thermal = d.thermal
      BY WithOpticsIs
    <2> QED
      BY <2>1, SettledIs
  <1>2. Good(k, p, f, Camera(b, a, r, a, [d EXCEPT !.optics = w]))
    BY <1>1 DEF WithOptics
  <1>3. ~f => Good(k, else, TRUE, Camera(b, a, r, a, [d EXCEPT !.optics = 0]))
    BY <1>1 DEF WithOptics
  <1>4. Settled(d) = Camera(b, a, r, a, d)
    BY DEF Settled
  <1> HIDE DEF b, a, r
  <1>5. Good(k, Then(Step("optics", "none", w, else), p), f, Camera(b, a, r, a, d))
    BY <1>2, <1>3, MovesOptics
  <1> QED
    BY <1>4, <1>5

LEMMA CameraTries ==
    ASSUME NEW k, NEW on, NEW to, NEW else, NEW p, NEW f, NEW d, IsProgram(p),
           Good(k, p, f, Settled(d)), ~f => Good(k, else, TRUE, Settled(d))
    PROVE  Good(k, Then(Step("try", on, to, else), p), f, Settled(d))
  BY Tries DEF Settled

LEMMA TrueLooking ==
    ASSUME NEW d \in Scenes, NEW lens \in Lenses, True(d)
    PROVE  True(Looking(d, lens)) /\ Looking(d, lens) \in Scenes
PROOF
  <1> DEFINE e == Looking(d, lens)
  <1>1. /\ e \in Scenes /\ e.group = lens /\ e.hfov = View(lens, d.optics, d.ratio)
        /\ e.optics = d.optics /\ e.crop = d.crop /\ e.flip = d.flip /\ e.still = d.still
        /\ e.zoom = d.zoom /\ e.ratio = d.ratio /\ e.inverted = d.inverted /\ e.stale = d.stale
    BY LookingIs
  <1> HIDE DEF e
  <1>2. True(e)
    BY <1>1 DEF True
  <1> QED
    BY <1>1, <1>2 DEF e

LEMMA TrueSlots ==
    ASSUME NEW d \in Scenes, NEW t \in BOOLEAN, True(d)
    PROVE  True(Slots(d, t)) /\ Slots(d, t) \in Scenes
PROOF
  <1> DEFINE e == Slots(d, t)
  <1>1. /\ e \in Scenes /\ e.group = d.group /\ e.hfov = d.hfov
        /\ e.optics = d.optics /\ e.crop = d.crop /\ e.flip = d.flip /\ e.still = d.still
        /\ e.zoom = d.zoom /\ e.ratio = d.ratio /\ e.inverted = d.inverted /\ e.stale = d.stale
    BY SlotsAre
  <1> HIDE DEF e
  <1>2. True(e)
    BY <1>1 DEF True
  <1> QED
    BY <1>1, <1>2 DEF e

LEMMA ZoomsAre ==
    ASSUME NEW z \in Zooms
    PROVE  Optical(z) \in Nat /\ Digital(z) \in Nat
  BY MediaAssumption DEF Optical, Digital, Tele

\* A scene as d's, but for what zoom and slots may change.
Aimed(d, e, zoom, thermal) ==
    /\ e \in Scenes /\ True(e) /\ e.zoom = zoom /\ e.thermal = thermal
    /\ e.cfg = d.cfg /\ e.config = d.config /\ e.upside = d.upside /\ e.on = d.on /\ e.off = d.off

LensOf(z) == IF Tele(z) THEN "zoom" ELSE "wide"
\* set_zoom from its crop on, and from its lens on.
Cropping(d, z, else) ==
    IF Digital(z) = d.ratio[LensOf(z)] THEN <<>>
    ELSE Two(Step("crop", LensOf(z), Digital(z),
                  Then(Do("optics", "none", Optical(d.zoom)), Then(Note("moved", "view"), else))),
             Do("noteratio", LensOf(z), Digital(z)))
Aiming(z, else, p) ==
    Then(Step("select_lens", "none", LensOf(z), Then(Note("stale", "view"), else)),
    Then(Step("switch", "none", FALSE, Then(Note("stale", "zoom"), else)),
    Then(Note("zoom", z), Then(Note("settled", "zoom"), Then(Note("settled", "view"), p)))))

LEMMA SetZoomIs ==
    ASSUME NEW d, NEW a, NEW z, NEW else, NEW p, IsProgram(else), IsProgram(p)
    PROVE  /\ set_zoom(Structure(a, d), z, else) \o p =
                Then(Step("optics", "none", Optical(z), Then(Note("stale", "view"), else)),
                     Cropping(d, z, else) \o Aiming(z, else, p))
           /\ IsProgram(Cropping(d, z, else)) /\ IsProgram(Aiming(z, else, p))
PROOF
  <1> DEFINE m == Structure(a, d)
             lens == LensOf(z)
             o == Step("optics", "none", Optical(z), Then(Note("stale", "view"), else))
             c1 == Step("crop", lens, Digital(z),
                        Then(Do("optics", "none", Optical(d.zoom)), Then(Note("moved", "view"), else)))
             c2 == Do("noteratio", lens, Digital(z))
             s1 == Step("select_lens", "none", lens, Then(Note("stale", "view"), else))
             s2 == Step("switch", "none", FALSE, Then(Note("stale", "zoom"), else))
             s3 == Note("zoom", z)
             s4 == Note("settled", "zoom")
             s5 == Note("settled", "view")
             c == Cropping(d, z, else)
  <1>1. m.ratio = d.ratio /\ m.zoom = d.zoom
    BY DEF Structure
  <1>2. <<Do("optics", "none", Optical(d.zoom)), Note("moved", "view")>> \o else
          = Then(Do("optics", "none", Optical(d.zoom)), Then(Note("moved", "view"), else))
    <2> DEFINE x == Do("optics", "none", Optical(d.zoom))
               y == Note("moved", "view")
    <2> HIDE DEF x, y
    <2>1. Two(x, y) \o else = Then(x, Then(y, else))
      BY TwoJoins
    <2> QED
      BY <2>1 DEF x, y, Two
  <1>3. set_zoom(m, z, else) = One(o) \o c \o Five(s1, s2, s3, s4, s5)
    <2> DEFINE w1 == Step("crop", lens, Digital(z),
                          <<Do("optics", "none", Optical(d.zoom)), Note("moved", "view")>> \o else)
               w == IF Digital(z) = d.ratio[lens] THEN <<>> ELSE <<w1, c2>>
    <2>1. set_zoom(m, z, else) =
            <<Step("optics", "none", Optical(z), <<Note("stale", "view")>> \o else)>> \o w
            \o <<Step("select_lens", "none", lens, <<Note("stale", "view")>> \o else),
                 Step("switch", "none", FALSE, <<Note("stale", "zoom")>> \o else), s3, s4, s5>>
      BY <1>1 DEF set_zoom, LensOf
    <2>2. w1 = c1
      BY <1>2
    <2> HIDE DEF w1
    <2>3. w = c
      BY <2>2 DEF Cropping, Two
    <2> HIDE DEF w, c
    <2> QED
      BY <2>1, <2>3 DEF One, Five, Then
  <1>4. IsProgram(c)
    <2>1. IsProgram(Two(c1, c2)) /\ IsProgram(<<>>)
      BY WrittenTwo, EmptyProgram
    <2> QED
      BY <2>1 DEF Cropping
  <1> HIDE DEF o, c1, c2, s1, s2, s3, s4, s5
  <1> DEFINE q == Then(s1, Then(s2, Then(s3, Then(s4, Then(s5, p)))))
             x == One(o)
             y == Five(s1, s2, s3, s4, s5)
  <1>5. y \o p = q
    BY FiveJoins
  <1>6. IsProgram(x) /\ IsProgram(y)
    BY JustOne, WrittenFive
  <1>7. IsProgram(q)
    <2>1. IsProgram(Then(s5, p))
      BY FirstStep
    <2> DEFINE q5 == Then(s5, p)
    <2> HIDE DEF q5
    <2>2. IsProgram(Then(s4, q5))
      BY <2>1, FirstStep DEF q5
    <2> DEFINE q4 == Then(s4, q5)
    <2> HIDE DEF q4
    <2>3. IsProgram(Then(s3, q4))
      BY <2>2, FirstStep DEF q4
    <2> DEFINE q3 == Then(s3, q4)
    <2> HIDE DEF q3
    <2>4. IsProgram(Then(s2, q3))
      BY <2>3, FirstStep DEF q3
    <2> DEFINE q2 == Then(s2, q3)
    <2> HIDE DEF q2
    <2>5. IsProgram(Then(s1, q2))
      BY <2>4, FirstStep DEF q2
    <2> QED
      BY <2>5 DEF q2, q3, q4, q5
  <1> HIDE DEF q, x, y, c
  <1>8. x \o c \o y \o p = x \o (c \o q)
    <2>1. Join(y, p) = q
      BY <1>5 DEF Join
    <2>2. Join(Join(Join(x, c), y), p) = Join(Join(x, c), q)
      <3> DEFINE v == Join(x, c)
      <3>1. IsProgram(v)
        BY <1>4, <1>6, JoinIs
      <3> HIDE DEF v
      <3>2. Join(Join(v, y), p) = Join(v, Join(y, p))
        BY <1>6, <3>1, JoinAssociates
      <3> QED
        BY <2>1, <3>2 DEF v
    <2>3. Join(Join(x, c), q) = Join(x, Join(c, q))
      BY <1>4, <1>6, <1>7, JoinAssociates
    <2>4. Join(Join(Join(x, c), y), p) = Join(x, Join(c, q))
      BY <2>2, <2>3
    <2> QED
      BY <2>4 DEF Join
  <1>9. x \o (c \o q) = Then(o, c \o q)
    BY DEF x, One, Then
  <1>10. set_zoom(m, z, else) \o p = Then(o, c \o q)
    BY <1>3, <1>8, <1>9 DEF x, y
  <1> QED
    BY <1>4, <1>7, <1>10 DEF o, c, q, s1, s2, s3, s4, s5, Aiming

\* set_zoom from its lens on: the crop is the noted one, the optics at the zoom.
LEMMA Aims ==
    ASSUME NEW k, NEW z \in Zooms, NEW else, NEW p, NEW f, NEW d \in Scenes, NEW d2 \in Scenes,
           IsProgram(else), IsProgram(p),
           d2.crop = d2.ratio, d2.still = {}, d2.optics = Optical(z), d2.stale = d.stale,
           "flip" \notin d2.stale => \A i \in 1 .. Ports : d2.flip[i] = d2.inverted,
           d2.zoom = d.zoom, d2.thermal = d.thermal, d2.cfg = d.cfg, d2.config = d.config, d2.upside = d.upside,
           d2.on = d.on, d2.off = d.off,
           \A e : Aimed(d, e, z, FALSE) => Good(k, p, f, Settled(e)),
           ~f => \A e : Aimed(d, e, d.zoom, d.thermal) => Good(k, else, TRUE, Settled(e))
    PROVE  Good(k, Aiming(z, else, p), f, Settled(d2))
PROOF
  <1> DEFINE lens == LensOf(z)
             d3 == Looking(d2, lens)
             d4 == Slots(d3, FALSE)
             d5 == WithZoom(d4, z)
             d6 == WithSettled(d5, "zoom")
             d7 == WithSettled(d6, "view")
             e1 == WithStale(d2, "view")
             e2 == WithStale(d3, "zoom")
             n3 == Note("zoom", z)
             n4 == Note("settled", "zoom")
             n5 == Note("settled", "view")
             b1 == Then(Note("stale", "view"), else)
             b2 == Then(Note("stale", "zoom"), else)
             q5 == Then(n5, p)
             q4 == Then(n4, q5)
             q3 == Then(n3, q4)
             s2 == Step("switch", "none", FALSE, b2)
             q2 == Then(s2, q3)
             s1 == Step("select_lens", "none", lens, b1)
  <1>1. lens \in Lenses
    BY DEF LensOf, Lenses
  <1>2. IsProgram(q5) /\ IsProgram(q4) /\ IsProgram(q3) /\ IsProgram(q2) /\ IsProgram(b1) /\ IsProgram(b2)
    <2>1. IsProgram(q5)
      BY FirstStep
    <2>2. IsProgram(q4)
      <3> HIDE DEF q5
      <3> QED
        BY <2>1, FirstStep
    <2>3. IsProgram(q3)
      <3> HIDE DEF q4
      <3> QED
        BY <2>2, FirstStep
    <2>4. IsProgram(q2)
      <3> HIDE DEF q3
      <3> QED
        BY <2>3, FirstStep
    <2>5. IsProgram(b1)
      BY FirstStep
    <2>6. IsProgram(b2)
      BY FirstStep
    <2> QED
      BY <2>1, <2>2, <2>3, <2>4, <2>5, <2>6
  <1>3. /\ d3 \in Scenes /\ d3.group = lens /\ d3.hfov = View(lens, d2.optics, d2.ratio)
        /\ d3.optics = d2.optics /\ d3.crop = d2.crop /\ d3.flip = d2.flip /\ d3.still = d2.still /\ d3.thermal = d2.thermal
        /\ d3.zoom = d2.zoom /\ d3.ratio = d2.ratio /\ d3.inverted = d2.inverted /\ d3.cfg = d2.cfg
        /\ d3.config = d2.config /\ d3.upside = d2.upside /\ d3.stale = d2.stale /\ d3.on = d2.on /\ d3.off = d2.off
    BY <1>1, LookingIs
  <1> HIDE DEF d3
  <1>4. /\ d4 \in Scenes /\ d4.thermal = FALSE /\ d4.group = d3.group /\ d4.hfov = d3.hfov
        /\ d4.optics = d3.optics /\ d4.crop = d3.crop /\ d4.flip = d3.flip /\ d4.still = d3.still
        /\ d4.zoom = d3.zoom /\ d4.ratio = d3.ratio /\ d4.inverted = d3.inverted /\ d4.cfg = d3.cfg
        /\ d4.config = d3.config /\ d4.upside = d3.upside /\ d4.stale = d3.stale /\ d4.on = d3.on /\ d4.off = d3.off
    <2> DEFINE no == FALSE
    <2>1. no \in BOOLEAN
      OBVIOUS
    <2> HIDE DEF no
    <2>2. LET e == Slots(d3, no) IN
          /\ e \in Scenes /\ e.thermal = no /\ e.group = d3.group /\ e.hfov = d3.hfov
          /\ e.optics = d3.optics /\ e.crop = d3.crop /\ e.flip = d3.flip /\ e.still = d3.still
          /\ e.zoom = d3.zoom /\ e.ratio = d3.ratio /\ e.inverted = d3.inverted /\ e.cfg = d3.cfg
          /\ e.config = d3.config /\ e.upside = d3.upside /\ e.stale = d3.stale /\ e.on = d3.on /\ e.off = d3.off
      BY <1>3, <2>1, SlotsAre
    <2>3. d4 = Slots(d3, no)
      BY DEF no
    <2> HIDE DEF d4
    <2> QED
      BY <2>2, <2>3 DEF no
  <1> HIDE DEF d4
  <1>5. /\ d5 \in Scenes /\ d5.thermal = FALSE /\ d5.group = d4.group /\ d5.hfov = d4.hfov
        /\ d5.optics = d4.optics /\ d5.crop = d4.crop /\ d5.flip = d4.flip /\ d5.still = d4.still
        /\ d5.zoom = z /\ d5.ratio = d4.ratio /\ d5.inverted = d4.inverted /\ d5.cfg = d4.cfg
        /\ d5.config = d4.config /\ d5.upside = d4.upside /\ d5.stale = d4.stale /\ d5.on = d4.on /\ d5.off = d4.off
    BY <1>4, WithZoomIs
  <1> HIDE DEF d5
  <1>6. /\ d6 \in Scenes /\ d6.thermal = FALSE /\ d6.group = d5.group /\ d6.hfov = d5.hfov
        /\ d6.optics = d5.optics /\ d6.crop = d5.crop /\ d6.flip = d5.flip /\ d6.still = d5.still
        /\ d6.zoom = z /\ d6.ratio = d5.ratio /\ d6.inverted = d5.inverted /\ d6.cfg = d5.cfg
        /\ d6.config = d5.config /\ d6.upside = d5.upside /\ d6.stale = d5.stale \ {"zoom"} /\ d6.on = d5.on /\ d6.off = d5.off
    BY <1>5, WithSettledIs
  <1> HIDE DEF d6
  <1>7. /\ d7 \in Scenes /\ d7.thermal = FALSE /\ d7.group = d6.group /\ d7.hfov = d6.hfov
        /\ d7.optics = d6.optics /\ d7.crop = d6.crop /\ d7.flip = d6.flip /\ d7.still = d6.still
        /\ d7.zoom = z /\ d7.ratio = d6.ratio /\ d7.inverted = d6.inverted /\ d7.cfg = d6.cfg
        /\ d7.config = d6.config /\ d7.upside = d6.upside /\ d7.stale = d6.stale \ {"view"} /\ d7.on = d6.on /\ d7.off = d6.off
    BY <1>6, WithSettledIs
  <1> HIDE DEF d7
  <1>8. Aimed(d, d7, z, FALSE)
    <2>1. True(d7)
      BY <1>3, <1>4, <1>5, <1>6, <1>7 DEF True
    <2> QED
      BY <1>3, <1>4, <1>5, <1>6, <1>7, <2>1 DEF Aimed
  <1>9. Aimed(d, e1, d.zoom, d.thermal)
    <2>1. /\ e1 \in Scenes /\ e1.thermal = d2.thermal /\ e1.group = d2.group /\ e1.hfov = d2.hfov
          /\ e1.optics = d2.optics /\ e1.crop = d2.crop /\ e1.flip = d2.flip /\ e1.still = d2.still
          /\ e1.zoom = d2.zoom /\ e1.ratio = d2.ratio /\ e1.inverted = d2.inverted /\ e1.cfg = d2.cfg
          /\ e1.config = d2.config /\ e1.upside = d2.upside /\ e1.stale = d2.stale \cup {"view"} /\ e1.on = d2.on /\ e1.off = d2.off
      BY WithStaleIs
    <2> HIDE DEF e1
    <2>2. True(e1)
      BY <2>1 DEF True
    <2> QED
      BY <2>1, <2>2 DEF Aimed
  <1>10. Aimed(d, e2, d.zoom, d.thermal)
    <2>1. /\ e2 \in Scenes /\ e2.thermal = d3.thermal /\ e2.group = d3.group /\ e2.hfov = d3.hfov
          /\ e2.optics = d3.optics /\ e2.crop = d3.crop /\ e2.flip = d3.flip /\ e2.still = d3.still
          /\ e2.zoom = d3.zoom /\ e2.ratio = d3.ratio /\ e2.inverted = d3.inverted /\ e2.cfg = d3.cfg
          /\ e2.config = d3.config /\ e2.upside = d3.upside /\ e2.stale = d3.stale \cup {"zoom"} /\ e2.on = d3.on /\ e2.off = d3.off
      BY <1>3, WithStaleIs
    <2> HIDE DEF e2
    <2>2. True(e2)
      BY <1>3, <2>1 DEF True
    <2> QED
      BY <1>3, <2>1, <2>2 DEF Aimed
  <1>11. Good(k, q5, f, Settled(d6))
    <2>1. Good(k, p, f, Settled(d7))
      BY <1>8
    <2>2. Good(k, p, f, Settled(WithSettled(d6, "view")))
      BY <2>1 DEF d7
    <2> QED
      BY <1>6, <2>2, CameraSettled
  <1>12. Good(k, q4, f, Settled(d5))
    <2>1. Good(k, q5, f, Settled(WithSettled(d5, "zoom")))
      BY <1>11 DEF d6
    <2> HIDE DEF q5
    <2> QED
      BY <1>2, <1>5, <2>1, CameraSettled
  <1>13. Good(k, q3, f, Settled(d4))
    <2>1. Good(k, q4, f, Settled(WithZoom(d4, z)))
      BY <1>12 DEF d5
    <2> HIDE DEF q4
    <2> QED
      BY <1>2, <1>4, <2>1, CameraZoom
  <1>14. ~f => Good(k, b1, TRUE, Settled(d2))
    <2> SUFFICES ASSUME ~f PROVE Good(k, b1, TRUE, Settled(d2))
      OBVIOUS
    <2>1. Good(k, else, TRUE, Settled(WithStale(d2, "view")))
      BY <1>9
    <2> QED
      BY <2>1, CameraStale
  <1>15. ~f => Good(k, b2, TRUE, Settled(d3))
    <2> SUFFICES ASSUME ~f PROVE Good(k, b2, TRUE, Settled(d3))
      OBVIOUS
    <2>1. Good(k, else, TRUE, Settled(WithStale(d3, "zoom")))
      BY <1>10
    <2> QED
      BY <1>3, <2>1, CameraStale
  <1>16. Good(k, q2, f, Settled(d3))
    <2>1. Good(k, q3, f, Settled(Slots(d3, FALSE)))
      BY <1>13 DEF d4
    <2> HIDE DEF q3, b2
    <2> QED
      BY <1>2, <1>3, <1>15, <2>1, SwitchesSources
  <1>17. Good(k, Then(s1, q2), f, Settled(d2))
    <2>1. Good(k, q2, f, Settled(Looking(d2, lens)))
      BY <1>16 DEF d3
    <2> HIDE DEF q2, b1, lens
    <2> QED
      BY <1>1, <1>2, <1>14, <2>1, SelectsLens
  <1> QED
    BY <1>17 DEF Aiming

LEMMA SetsZoom ==
    ASSUME NEW k, NEW z \in Zooms, NEW else, NEW p, NEW f, NEW d \in Scenes, True(d),
           IsProgram(else), IsProgram(p),
           \A e : Aimed(d, e, z, FALSE) => Good(k, p, f, Settled(e)),
           ~f => \A e : Aimed(d, e, d.zoom, d.thermal) => Good(k, else, TRUE, Settled(e))
    PROVE  Good(k, Then(Step("set_zoom", "none", z, else), p), f, Settled(d))
PROOF
  <1> DEFINE a == Attrs(d.thermal)
             m == Structure(a, d)
             s == Step("set_zoom", "none", z, else)
             x == Settled(d)
             lens == LensOf(z)
             ratio == Digital(z)
             back == Optical(d.zoom)
             c == Cropping(d, z, else)
             q == Aiming(z, else, p)
             d1 == WithOptics(d, Optical(z))
             d0 == WithOptics(d, 0)
             e0 == WithStale(d0, "view")
             b0 == Then(Note("stale", "view"), else)
  <1>1. x.impl = m
    BY DEF Settled, Camera
  <1>2. s.op = "set_zoom" /\ s.to = z /\ s.else = else
    BY DEF Step
  <1>3. lens \in Lenses /\ Optical(z) \in Nat /\ ratio \in Nat /\ d.zoom \in Zooms /\ back \in Nat /\ 0 \in Nat
    BY ZoomsAre, SceneIs DEF LensOf, Lenses
  <1>4. IsProgram(c) /\ IsProgram(q) /\ IsProgram(c \o q) /\ IsProgram(b0)
    <2>1. IsProgram(c) /\ IsProgram(q)
      BY SetZoomIs
    <2>2. IsProgram(b0)
      BY FirstStep
    <2> HIDE DEF c, q
    <2> QED
      BY <2>1, <2>2, Joins
  <1>5. /\ d1 \in Scenes /\ d1.thermal = d.thermal /\ d1.group = d.group /\ d1.hfov = d.hfov
        /\ d1.optics = Optical(z) /\ d1.crop = d.crop /\ d1.flip = d.flip /\ d1.still = d.still
        /\ d1.zoom = d.zoom /\ d1.ratio = d.ratio /\ d1.inverted = d.inverted /\ d1.cfg = d.cfg
        /\ d1.config = d.config /\ d1.upside = d.upside /\ d1.stale = d.stale /\ d1.on = d.on /\ d1.off = d.off
    BY <1>3, WithOpticsIs
  <1>6. /\ d0 \in Scenes /\ d0.thermal = d.thermal /\ d0.group = d.group /\ d0.hfov = d.hfov
        /\ d0.optics = 0 /\ d0.crop = d.crop /\ d0.flip = d.flip /\ d0.still = d.still
        /\ d0.zoom = d.zoom /\ d0.ratio = d.ratio /\ d0.inverted = d.inverted /\ d0.cfg = d.cfg
        /\ d0.config = d.config /\ d0.upside = d.upside /\ d0.stale = d.stale /\ d0.on = d.on /\ d0.off = d.off
    BY WithOpticsIs
  <1> HIDE DEF d1, d0
  <1>7. ~f => Good(k, b0, TRUE, Settled(d0))
    <2> SUFFICES ASSUME ~f PROVE Good(k, b0, TRUE, Settled(d0))
      OBVIOUS
    <2>1. /\ e0 \in Scenes /\ e0.thermal = d0.thermal /\ e0.group = d0.group /\ e0.hfov = d0.hfov
          /\ e0.optics = d0.optics /\ e0.crop = d0.crop /\ e0.flip = d0.flip /\ e0.still = d0.still
          /\ e0.zoom = d0.zoom /\ e0.ratio = d0.ratio /\ e0.inverted = d0.inverted /\ e0.cfg = d0.cfg
          /\ e0.config = d0.config /\ e0.upside = d0.upside /\ e0.stale = d0.stale \cup {"view"} /\ e0.on = d0.on /\ e0.off = d0.off
      BY <1>6, WithStaleIs
    <2> HIDE DEF e0
    <2>2. True(e0)
      BY <1>6, <2>1 DEF True
    <2>3. Aimed(d, e0, d.zoom, d.thermal)
      BY <1>6, <2>1, <2>2 DEF Aimed
    <2>4. Good(k, else, TRUE, Settled(WithStale(d0, "view")))
      BY <2>3 DEF e0
    <2> QED
      BY <1>6, <2>4, CameraStale
  <1>8. ASSUME NEW d2 \in Scenes,
               d2.crop = d2.ratio, d2.still = {}, d2.optics = Optical(z), d2.stale = d.stale,
               d2.flip = d.flip, d2.inverted = d.inverted,
               d2.zoom = d.zoom, d2.thermal = d.thermal, d2.cfg = d.cfg, d2.config = d.config, d2.upside = d.upside,
               d2.on = d.on, d2.off = d.off
        PROVE  Good(k, q, f, Settled(d2))
    <2>1. "flip" \notin d2.stale => \A i \in 1 .. Ports : d2.flip[i] = d2.inverted
      BY <1>8 DEF True
    <2> QED
      BY <1>8, <2>1, Aims
  <1>9. Good(k, c \o q, f, Settled(d1))
    <2>1. CASE ratio = d.ratio[lens]
      <3>1. c = <<>>
        BY <2>1 DEF Cropping
      <3>2. c \o q = q
        <4> HIDE DEF c, q
        <4> QED
          BY <1>4, <3>1, NothingFirst
      <3>3. d1.crop = d1.ratio /\ d1.still = {}
        BY <1>5 DEF True
      <3>4. Good(k, q, f, Settled(d1))
        <4> HIDE DEF q
        <4> QED
          BY <1>5, <1>8, <3>3
      <3> QED
        BY <3>2, <3>4
    <2>2. CASE ratio # d.ratio[lens]
      <3> DEFINE o1 == Do("optics", "none", back)
                 o2 == Note("moved", "view")
                 b1 == Then(o1, Then(o2, else))
                 c1 == Step("crop", lens, ratio, b1)
                 c2 == Do("noteratio", lens, ratio)
                 d2 == WithCrop(d1, lens, ratio)
                 d3 == WithRatio(d2, lens, ratio)
                 e1 == WithOptics(d1, back)
                 e2 == WithMoved(e1, "view")
                 r == Then(c2, q)
      <3>1. c = Two(c1, c2)
        BY <2>2 DEF Cropping
      <3>2. c \o q = Then(c1, r)
        <4> HIDE DEF c, q, c1, c2
        <4> QED
          BY <1>4, <3>1, TwoJoins
      <3>3. IsProgram(r) /\ IsProgram(Then(o2, else)) /\ IsProgram(b1)
        <4>1. IsProgram(Then(o2, else))
          BY FirstStep
        <4> HIDE DEF q, o2
        <4>2. IsProgram(r)
          BY <1>4, FirstStep
        <4>3. IsProgram(b1)
          BY <4>1, FirstStep
        <4> QED
          BY <4>1, <4>2, <4>3
      <3>4. /\ d2 \in Scenes /\ d2.thermal = d1.thermal /\ d2.group = d1.group /\ d2.hfov = d1.hfov
            /\ d2.optics = d1.optics /\ d2.crop = [d1.crop EXCEPT ![lens] = ratio] /\ d2.flip = d1.flip /\ d2.still = d1.still
            /\ d2.zoom = d1.zoom /\ d2.ratio = d1.ratio /\ d2.inverted = d1.inverted /\ d2.cfg = d1.cfg
            /\ d2.config = d1.config /\ d2.upside = d1.upside /\ d2.stale = d1.stale /\ d2.on = d1.on /\ d2.off = d1.off
        BY <1>3, <1>5, WithCropIs
      <3> HIDE DEF d2
      <3>5. /\ d3 \in Scenes /\ d3.thermal = d2.thermal /\ d3.group = d2.group /\ d3.hfov = d2.hfov
            /\ d3.optics = d2.optics /\ d3.crop = d2.crop /\ d3.flip = d2.flip /\ d3.still = d2.still
            /\ d3.zoom = d2.zoom /\ d3.ratio = [d2.ratio EXCEPT ![lens] = ratio] /\ d3.inverted = d2.inverted /\ d3.cfg = d2.cfg
            /\ d3.config = d2.config /\ d3.upside = d2.upside /\ d3.stale = d2.stale /\ d3.on = d2.on /\ d3.off = d2.off
        BY <1>3, <3>4, WithRatioIs
      <3> HIDE DEF d3
      <3>6. Good(k, q, f, Settled(d3))
        <4>1. d3.crop = d3.ratio /\ d3.still = {}
          BY <1>5, <3>4, <3>5 DEF True
        <4> HIDE DEF q
        <4> QED
          BY <1>5, <1>8, <3>4, <3>5, <4>1
      <3>7. Good(k, r, f, Settled(d2))
        <4>1. Good(k, q, f, Settled(WithRatio(d2, lens, ratio)))
          BY <3>6 DEF d3
        <4> HIDE DEF q, lens, ratio
        <4> QED
          BY <1>3, <1>4, <3>4, <4>1, CameraRatio
      <3>8. ~f => Good(k, b1, TRUE, Settled(d1))
        <4> SUFFICES ASSUME ~f PROVE Good(k, b1, TRUE, Settled(d1))
          OBVIOUS
        <4>1. /\ e1 \in Scenes /\ e1.thermal = d1.thermal /\ e1.group = d1.group /\ e1.hfov = d1.hfov
              /\ e1.optics = back /\ e1.crop = d1.crop /\ e1.flip = d1.flip /\ e1.still = d1.still
              /\ e1.zoom = d1.zoom /\ e1.ratio = d1.ratio /\ e1.inverted = d1.inverted /\ e1.cfg = d1.cfg
              /\ e1.config = d1.config /\ e1.upside = d1.upside /\ e1.stale = d1.stale /\ e1.on = d1.on /\ e1.off = d1.off
          BY <1>3, <1>5, WithOpticsIs
        <4> HIDE DEF e1
        <4>2. /\ e2 \in Scenes /\ e2.thermal = e1.thermal /\ e2.group = e1.group /\ e2.hfov = e1.hfov
              /\ e2.optics = e1.optics /\ e2.crop = e1.crop /\ e2.flip = e1.flip /\ e2.still = e1.still
              /\ e2.zoom = e1.zoom /\ e2.ratio = e1.ratio /\ e2.inverted = e1.inverted /\ e2.cfg = e1.cfg
              /\ e2.config = e1.config /\ e2.upside = e1.upside
              /\ e2.stale = (IF "zoom" \in e1.stale THEN e1.stale \cup {"view"} ELSE e1.stale)
              /\ e2.on = e1.on /\ e2.off = e1.off
          BY <4>1, WithMovedIs
        <4> HIDE DEF e2
        <4>3. True(e2)
          <5>1. e2.still = {} /\ e2.crop = e2.ratio
            BY <1>5, <4>1, <4>2 DEF True
          <5>2. "view" \notin e2.stale => e2.hfov = View(e2.group, e2.optics, e2.crop)
            <6> SUFFICES ASSUME "view" \notin e2.stale
                         PROVE  e2.hfov = View(e2.group, e2.optics, e2.crop)
              OBVIOUS
            <6>1. "view" \notin d.stale /\ "zoom" \notin d.stale
              BY <1>5, <4>1, <4>2
            <6>2. d.hfov = View(d.group, d.optics, d.crop) /\ d.optics = back
              BY <6>1 DEF True
            <6> QED
              BY <1>5, <4>1, <4>2, <6>2
          <5>3. e2.optics = Optical(e2.zoom)
            BY <1>5, <4>1, <4>2
          <5>4. "flip" \notin e2.stale => \A i \in 1 .. Ports : e2.flip[i] = e2.inverted
            BY <1>5, <4>1, <4>2 DEF True
          <5> QED
            BY <5>1, <5>2, <5>3, <5>4 DEF True
        <4>4. Aimed(d, e2, d.zoom, d.thermal)
          BY <1>5, <4>1, <4>2, <4>3 DEF Aimed
        <4>5. Good(k, else, TRUE, Settled(WithMoved(e1, "view")))
          BY <4>4 DEF e2
        <4>6. Good(k, Then(o2, else), TRUE, Settled(e1))
          BY <4>1, <4>5, CameraMoved
        <4>7. Good(k, Then(o2, else), TRUE, Settled(WithOptics(d1, back)))
          BY <4>6 DEF e1
        <4> DEFINE w == Then(o2, else)
        <4> HIDE DEF w, back
        <4>8. Good(k, Then(Step("optics", "none", back, <<>>), w), TRUE, Settled(d1))
          BY <1>3, <1>5, <3>3, <4>7, CameraOptics DEF w
        <4> QED
          BY <4>8 DEF w, Do
      <3>9. Good(k, Then(c1, r), f, Settled(d1))
        <4>1. Good(k, r, f, Settled(WithCrop(d1, lens, ratio)))
          BY <3>7 DEF d2
        <4> HIDE DEF r, b1, lens, ratio
        <4> QED
          BY <1>3, <1>5, <3>3, <3>8, <4>1, CameraCrops
      <3> HIDE DEF c, q, c1, r
      <3> QED
        BY <3>2, <3>9
    <2> QED
      BY <2>1, <2>2
  <1>10. set_zoom(m, z, else) \o p = Then(Step("optics", "none", Optical(z), b0), c \o q)
    BY SetZoomIs
  <1>11. Good(k, Then(Step("optics", "none", Optical(z), b0), c \o q), f, Settled(d))
    <2> DEFINE r == c \o q
    <2>1. Good(k, r, f, Settled(WithOptics(d, Optical(z)))) /\ IsProgram(r)
      BY <1>4, <1>9 DEF d1
    <2>2. ~f => Good(k, b0, TRUE, Settled(WithOptics(d, 0)))
      BY <1>7 DEF d0
    <2> HIDE DEF r, b0
    <2>3. Good(k, Then(Step("optics", "none", Optical(z), b0), r), f, Settled(d))
      BY <1>3, <2>1, <2>2, CameraOptics
    <2> QED
      BY <2>3 DEF r
  <1>12. Good(k, set_zoom(m, z, else) \o p, f, x)
    BY <1>10, <1>11
  <1>13. Expansion(x.impl, s) = set_zoom(m, z, else)
    BY <1>1, <1>2 DEF Expansion
  <1> HIDE DEF s, x, m
  <1>14. s.op \in Macros
    BY <1>2 DEF Macros
  <1>15. Good(k, Then(s, p), f, x)
    BY <1>12, <1>13, <1>14, GoodMacro
  <1> QED
    BY <1>15 DEF s, x

LEMMA LeastNumber ==
    ASSUME NEW S, S \subseteq Nat, S # {}
    PROVE  \E n \in S : \A m \in S : n <= m
PROOF
  <1>1. PICK x \in S : \A y \in S : ~(<<y, x>> \in OpToRel(<, Nat))
    BY WFMin, NatLessThanWellFounded, Zenon
  <1>2. \A y \in S : ~(y < x)
    BY <1>1 DEF OpToRel
  <1>3. x \in Nat /\ \A y \in S : y \in Nat
    OBVIOUS
  <1> QED
    BY <1>2, <1>3

LEMMA SameSequence ==
    ASSUME NEW S, NEW q \in Seq(S), NEW r \in Seq(S), Len(r) = Len(q), \A j \in 1 .. Len(q) : r[j] = q[j]
    PROVE  r = q
PROOF
  <1>1. q = [j \in 1 .. Len(q) |-> q[j]]
    OBVIOUS
  <1>2. r = [j \in 1 .. Len(r) |-> r[j]]
    OBVIOUS
  <1> QED
    BY <1>1, <1>2, Zenon

\* The ports still to be turned when i of them are.
Turns(i, value, b) == [j \in 1 .. Ports - i |-> Step("flip", i + j, value, b)]

LEMMA TurnsAre ==
    ASSUME NEW value, NEW b
    PROVE  /\ Turns(Ports, value, b) = <<>>
           /\ \A i \in 0 .. Ports : IsProgram(Turns(i, value, b))
           /\ \A i \in 0 .. Ports : i # Ports =>
                 Turns(i, value, b) = Then(Step("flip", i + 1, value, b), Turns(i + 1, value, b))
PROOF
  <1>0. Ports \in Nat
    BY MediaAssumption
  <1> DEFINE S == {Step("flip", j, value, b) : j \in Nat}
             T(i) == Turns(i, value, b)
  <1>1. ASSUME NEW i \in 0 .. Ports
        PROVE  T(i) \in Seq(S) /\ Len(T(i)) = Ports - i /\ \A j \in 1 .. Ports - i : T(i)[j] = Step("flip", i + j, value, b)
    <2>1. Ports - i \in Nat /\ \A j \in 1 .. Ports - i : i + j \in Nat
      BY <1>0
    <2>2. \A j \in 1 .. Ports - i : Step("flip", i + j, value, b) \in S
      BY <2>1
    <2> HIDE DEF S
    <2>3. T(i) \in [1 .. Ports - i -> S]
      BY <2>2 DEF Turns
    <2>4. T(i) \in Seq(S)
      BY <2>1, <2>3
    <2>5. Len(T(i)) = Ports - i
      BY <2>1, <2>3, <2>4
    <2> QED
      BY <2>4, <2>5 DEF Turns
  <1>2. \A i \in 0 .. Ports : IsProgram(T(i))
    BY <1>1 DEF IsProgram
  <1>3. T(Ports) = <<>>
    <2>1. Ports \in 0 .. Ports
      BY <1>0
    <2>2. T(Ports) \in Seq(S) /\ Len(T(Ports)) = Ports - Ports
      BY <1>1, <2>1
    <2> HIDE DEF T, S
    <2> QED
      BY <1>0, <2>2
  <1>4. ASSUME NEW i \in 0 .. Ports, i # Ports
        PROVE  T(i) = Then(Step("flip", i + 1, value, b), T(i + 1))
    <2>1. i + 1 \in 0 .. Ports /\ 1 \in 1 .. Ports - i
      BY <1>0, <1>4
    <2> DEFINE p == T(i)
               s == Step("flip", i + 1, value, b)
    <2>2. p \in Seq(S) /\ Len(p) = Ports - i /\ \A j \in 1 .. Ports - i : p[j] = Step("flip", i + j, value, b)
      BY <1>1
    <2>3. IsProgram(p)
      BY <1>2
    <2>4. p[1] = s
      BY <2>1, <2>2
    <2> HIDE DEF p, s, S
    <2>5. p # <<>> /\ Head(p) = s
      BY <2>1, <2>2, <2>4
    <2>6. Tail(p) = T(i + 1)
      <3> DEFINE q == T(i + 1)
                 r == Tail(p)
      <3>1. q \in Seq(S) /\ Len(q) = Ports - (i + 1) /\ \A j \in 1 .. Ports - (i + 1) : q[j] = Step("flip", (i + 1) + j, value, b)
        BY <1>1, <2>1
      <3>2. r \in Seq(S) /\ Len(r) = Ports - i - 1 /\ \A j \in 1 .. Ports - i - 1 : r[j] = p[j + 1]
        BY <1>0, <2>1, <2>2, <2>5
      <3> HIDE DEF q, r
      <3>3. \A j \in 1 .. Ports - i - 1 : r[j] = q[j]
        <4> SUFFICES ASSUME NEW j \in 1 .. Ports - i - 1 PROVE r[j] = q[j]
          OBVIOUS
        <4>1. j + 1 \in 1 .. Ports - i /\ j \in 1 .. Ports - (i + 1) /\ i + (j + 1) = (i + 1) + j
          BY <1>0, <2>1
        <4>2. r[j] = Step("flip", i + (j + 1), value, b)
          BY <2>2, <3>2, <4>1
        <4>3. q[j] = Step("flip", (i + 1) + j, value, b)
          BY <3>1, <4>1
        <4> QED
          BY <4>1, <4>2, <4>3
      <3>4. Len(r) = Len(q)
        BY <1>0, <2>1, <3>1, <3>2
      <3>5. r = q
        <4>1. \A j \in 1 .. Len(q) : r[j] = q[j]
          BY <1>0, <2>1, <3>1, <3>3
        <4> QED
          BY <3>1, <3>2, <3>4, <4>1, SameSequence
      <3> QED
        BY <3>5 DEF q, r
    <2>7. p = Then(Head(p), Tail(p))
      BY <2>3, <2>5, HeadAndTail
    <2> QED
      BY <2>5, <2>6, <2>7 DEF p, s
  <1> QED
    BY <1>2, <1>3, <1>4

\* A scene as d's, but that ports are turned: the first i of them to value.
Turned(d, e, i, value) ==
    /\ e \in Scenes /\ e.thermal = d.thermal /\ e.group = d.group /\ e.hfov = d.hfov
    /\ e.optics = d.optics /\ e.crop = d.crop /\ e.still = d.still
    /\ e.zoom = d.zoom /\ e.ratio = d.ratio /\ e.inverted = d.inverted /\ e.cfg = d.cfg
    /\ e.config = d.config /\ e.upside = d.upside /\ e.stale = d.stale /\ e.on = d.on /\ e.off = d.off
    /\ \A j \in 1 .. i : e.flip[j] = value

\* The loop, its iterations counted from the last one.
LEMMA TurnsPorts ==
    ASSUME NEW k, NEW value \in BOOLEAN, NEW b, NEW q, NEW f, NEW d \in Scenes, IsProgram(q), IsProgram(b),
           \A e : Turned(d, e, Ports, value) => Good(k, q, f, Settled(e)),
           ~f => \A e, i : Turned(d, e, i, value) => Good(k, b, TRUE, Settled(e))
    PROVE  \A i \in 0 .. Ports : \A e : Turned(d, e, i, value) => Good(k, Turns(i, value, b) \o q, f, Settled(e))
PROOF
  <1>0. Ports \in Nat
    BY MediaAssumption
  <1> DEFINE OK(i) == \A e : Turned(d, e, i, value) => Good(k, Turns(i, value, b) \o q, f, Settled(e))
             Bad == {n \in 0 .. Ports : ~OK(Ports - n)}
  <1>1. Bad \subseteq Nat
    OBVIOUS
  <1>2. Bad = {}
    <2> SUFFICES ASSUME Bad # {} PROVE FALSE
      OBVIOUS
    <2>1. PICK n \in Bad : \A m \in Bad : n <= m
      <3> HIDE DEF Bad
      <3> QED
        BY <1>1, LeastNumber
    <2>2. n \in 0 .. Ports /\ ~OK(Ports - n)
      BY <2>1
    <2>3. PICK e : Turned(d, e, Ports - n, value) /\ ~Good(k, Turns(Ports - n, value, b) \o q, f, Settled(e))
      BY <2>2
    <2>4. CASE n = 0
      <3>1. Ports - n = Ports
        BY <1>0, <2>4
      <3>2. Turns(Ports, value, b) \o q = q
        <4>1. Ports \in 0 .. Ports
          BY <1>0
        <4>2. Turns(Ports, value, b) = <<>>
          BY <4>1, TurnsAre
        <4> QED
          BY <4>2, NothingFirst, Zenon
      <3> QED
        BY <2>3, <3>1, <3>2
    <2>5. CASE n # 0
      <3> DEFINE i == Ports - n
                 s == Step("flip", i + 1, value, b)
                 t == Turns(i + 1, value, b)
                 r == t \o q
                 e1 == WithFlip(e, i + 1, value)
      <3>1. i \in 0 .. Ports /\ i # Ports /\ i + 1 \in 0 .. Ports /\ i + 1 \in 1 .. Ports /\ n - 1 \in 0 .. Ports
            /\ Ports - (n - 1) = i + 1 /\ ~(n <= n - 1) /\ \A j \in 1 .. i + 1 : j = i + 1 \/ j \in 1 .. i
        BY <1>0, <2>2, <2>5
      <3>2. OK(i + 1)
        <4>1. n - 1 \notin Bad
          <5> HIDE DEF Bad
          <5> QED
            BY <2>1, <3>1
        <4>2. OK(Ports - (n - 1))
          <5> HIDE DEF OK
          <5> QED
            BY <3>1, <4>1
        <4> HIDE DEF OK, i
        <4> QED
          BY <3>1, <4>2
      <3> HIDE DEF i
      <3>3. /\ Turns(i, value, b) = Then(s, t) /\ IsProgram(t)
        BY <3>1, TurnsAre
      <3>4. Turns(i, value, b) \o q = Then(s, r) /\ IsProgram(r)
        <4> HIDE DEF s, t
        <4> QED
          BY <3>3, ThenJoins, Joins
      <3>5. e \in Scenes /\ e.flip \in [1 .. Ports -> BOOLEAN] /\ Turned(d, e, i, value)
        BY <2>3, SceneIs DEF Turned, i
      <3>6. /\ e1 \in Scenes /\ e1.thermal = e.thermal /\ e1.group = e.group /\ e1.hfov = e.hfov
            /\ e1.optics = e.optics /\ e1.crop = e.crop /\ e1.flip = [e.flip EXCEPT ![i + 1] = value] /\ e1.still = e.still
            /\ e1.zoom = e.zoom /\ e1.ratio = e.ratio /\ e1.inverted = e.inverted /\ e1.cfg = e.cfg
            /\ e1.config = e.config /\ e1.upside = e.upside /\ e1.stale = e.stale /\ e1.on = e.on /\ e1.off = e.off
        BY <3>1, <3>5, WithFlipIs
      <3> HIDE DEF e1
      <3>7. \A j \in 1 .. i + 1 : e1.flip[j] = value
        <4>1. \A j \in 1 .. i : j \in 1 .. Ports /\ e.flip[j] = value
          BY <1>0, <3>1, <3>5 DEF Turned
        <4>2. 1 .. i + 1 \subseteq 1 .. Ports
          BY <1>0, <3>1
        <4> QED
          BY <3>1, <3>5, <3>6, <4>1, <4>2
      <3>8. Turned(d, e1, i + 1, value)
        BY <3>5, <3>6, <3>7 DEF Turned
      <3>9. Good(k, r, f, Settled(WithFlip(e, i + 1, value)))
        BY <3>2, <3>8 DEF e1
      <3>10. ~f => Good(k, b, TRUE, Settled(e))
        BY <3>5
      <3>11. Good(k, Then(s, r), f, Settled(e))
        <4> HIDE DEF r
        <4> QED
          BY <3>1, <3>4, <3>5, <3>9, <3>10, CameraFlips
      <3> QED
        BY <2>3, <3>4, <3>11 DEF i
    <2> QED
      BY <2>4, <2>5
  <1> SUFFICES ASSUME NEW i \in 0 .. Ports PROVE OK(i)
    OBVIOUS
  <1>3. Ports - i \in 0 .. Ports /\ Ports - (Ports - i) = i
    BY <1>0
  <1>4. OK(Ports - (Ports - i))
    <2> HIDE DEF OK
    <2> QED
      BY <1>2, <1>3
  <1> HIDE DEF OK
  <1> QED
    BY <1>3, <1>4

LEMMA SetInvertedIs ==
    ASSUME NEW d, NEW a, NEW value \in BOOLEAN, NEW else, NEW p, IsProgram(else), IsProgram(p), d.inverted # value
    PROVE  set_inverted(Structure(a, d), value, else) \o p =
             Turns(0, value, Then(Note("stale", "flip"), else))
             \o Then(Note("inverted", value), Then(Note("settled", "flip"), p))
PROOF
  <1>0. Ports \in Nat
    BY MediaAssumption
  <1> DEFINE b == Then(Note("stale", "flip"), else)
             n1 == Note("inverted", value)
             n2 == Note("settled", "flip")
             t == Turns(0, value, b)
             y == Two(n1, n2)
             q == Then(n1, Then(n2, p))
  <1>1. Structure(a, d).inverted = d.inverted
    BY DEF Structure
  <1>2. [i \in 1 .. Ports |-> Step("flip", i, value, b)] = t
    <2>1. Ports - 0 = Ports /\ \A i \in 1 .. Ports : 0 + i = i
      BY <1>0
    <2>2. t = [j \in 1 .. Ports |-> Step("flip", 0 + j, value, b)]
      BY <2>1 DEF Turns
    <2> HIDE DEF b, t
    <2> QED
      BY <2>1, <2>2
  <1>3. set_inverted(Structure(a, d), value, else) = t \o y
    <2>1. set_inverted(Structure(a, d), value, else) =
            [i \in 1 .. Ports |-> Step("flip", i, value, b)] \o <<n1, n2>>
      BY <1>1 DEF set_inverted, Then
    <2>2. y = <<n1, n2>>
      BY DEF Two
    <2> HIDE DEF t, y, b, n1, n2
    <2> QED
      BY <1>2, <2>1, <2>2
  <1>4. IsProgram(t) /\ IsProgram(y)
    <2>1. 0 \in 0 .. Ports
      BY <1>0
    <2>2. IsProgram(t)
      BY <2>1, TurnsAre
    <2>3. IsProgram(y)
      BY WrittenTwo
    <2> QED
      BY <2>2, <2>3
  <1>5. y \o p = q
    <2> HIDE DEF n1, n2
    <2> QED
      BY TwoJoins
  <1> HIDE DEF t, y, q
  <1>6. (t \o y) \o p = t \o (y \o p)
    BY <1>4, Associates, SMTT(30)
  <1>7. (t \o y) \o p = t \o q
    BY <1>5, <1>6, Zenon
  <1>8. set_inverted(Structure(a, d), value, else) \o p = t \o q
    BY <1>3, <1>7
  <1> QED
    BY <1>8 DEF t, q

LEMMA SetsInverted ==
    ASSUME NEW k, NEW value \in BOOLEAN, NEW else, NEW p, NEW f, NEW d \in Scenes, True(d),
           IsProgram(else), IsProgram(p),
           \A e : Aimed(d, e, d.zoom, d.thermal) => Good(k, p, f, Settled(e)),
           ~f => \A e : Aimed(d, e, d.zoom, d.thermal) => Good(k, else, TRUE, Settled(e))
    PROVE  Good(k, Then(Step("set_inverted", "none", value, else), p), f, Settled(d))
PROOF
  <1>0. Ports \in Nat
    BY MediaAssumption
  <1> DEFINE m == Structure(Attrs(d.thermal), d)
             s == Step("set_inverted", "none", value, else)
             x == Settled(d)
             b == Then(Note("stale", "flip"), else)
             n1 == Note("inverted", value)
             n2 == Note("settled", "flip")
             q2 == Then(n2, p)
             q == Then(n1, q2)
  <1>1. x.impl = m /\ m.inverted = d.inverted
    BY DEF Settled, Camera, Structure
  <1>2. s.op = "set_inverted" /\ s.to = value /\ s.else = else
    BY DEF Step
  <1>3. IsProgram(b) /\ IsProgram(q2) /\ IsProgram(q)
    <2>1. IsProgram(b)
      BY FirstStep
    <2>2. IsProgram(q2)
      BY FirstStep
    <2>3. IsProgram(q)
      <3> HIDE DEF q2
      <3> QED
        BY <2>2, FirstStep
    <2> QED
      BY <2>1, <2>2, <2>3
  <1>4. Good(k, set_inverted(m, value, else) \o p, f, x)
    <2>1. CASE d.inverted = value
      <3>1. set_inverted(m, value, else) = <<>>
        BY <1>1, <2>1 DEF set_inverted
      <3>2. Aimed(d, d, d.zoom, d.thermal)
        BY DEF Aimed
      <3>3. Good(k, p, f, x)
        BY <3>2
      <3>4. <<>> \o p = p
        BY NothingFirst
      <3> HIDE DEF x, m
      <3> QED
        BY <3>1, <3>3, <3>4
    <2>2. CASE d.inverted # value
      <3>1. ASSUME NEW e, Turned(d, e, Ports, value)
            PROVE  Good(k, q, f, Settled(e))
        <4> DEFINE e1 == WithInverted(e, value)
                   e2 == WithSettled(e1, "flip")
        <4>1. e \in Scenes
          BY <3>1 DEF Turned
        <4>2. /\ e1 \in Scenes /\ e1.thermal = e.thermal /\ e1.group = e.group /\ e1.hfov = e.hfov
              /\ e1.optics = e.optics /\ e1.crop = e.crop /\ e1.flip = e.flip /\ e1.still = e.still
              /\ e1.zoom = e.zoom /\ e1.ratio = e.ratio /\ e1.inverted = value /\ e1.cfg = e.cfg
              /\ e1.config = e.config /\ e1.upside = e.upside /\ e1.stale = e.stale /\ e1.on = e.on /\ e1.off = e.off
          BY <4>1, WithInvertedIs
        <4> HIDE DEF e1
        <4>3. /\ e2 \in Scenes /\ e2.thermal = e1.thermal /\ e2.group = e1.group /\ e2.hfov = e1.hfov
              /\ e2.optics = e1.optics /\ e2.crop = e1.crop /\ e2.flip = e1.flip /\ e2.still = e1.still
              /\ e2.zoom = e1.zoom /\ e2.ratio = e1.ratio /\ e2.inverted = e1.inverted /\ e2.cfg = e1.cfg
              /\ e2.config = e1.config /\ e2.upside = e1.upside /\ e2.stale = e1.stale \ {"flip"} /\ e2.on = e1.on /\ e2.off = e1.off
          BY <4>2, WithSettledIs
        <4> HIDE DEF e2
        <4>4. \A j \in 1 .. Ports : e2.flip[j] = e2.inverted
          BY <3>1, <4>2, <4>3 DEF Turned
        <4>5. True(e2)
          <5>1. e2.still = {} /\ e2.crop = e2.ratio
            BY <3>1, <4>2, <4>3 DEF Turned, True
          <5>2. "view" \notin e2.stale => "view" \notin d.stale
            BY <3>1, <4>2, <4>3 DEF Turned
          <5>3. e2.stale \cap {"view", "zoom"} = {} => d.stale \cap {"view", "zoom"} = {}
            BY <3>1, <4>2, <4>3 DEF Turned
          <5>4. e2.hfov = d.hfov /\ e2.group = d.group /\ e2.optics = d.optics /\ e2.crop = d.crop /\ e2.zoom = d.zoom
            BY <3>1, <4>2, <4>3 DEF Turned
          <5> QED
            BY <4>4, <5>1, <5>2, <5>3, <5>4 DEF True
        <4>6. Aimed(d, e2, d.zoom, d.thermal)
          BY <3>1, <4>2, <4>3, <4>5 DEF Aimed, Turned
        <4>7. Good(k, p, f, Settled(WithSettled(e1, "flip")))
          BY <4>6 DEF e2
        <4>8. Good(k, q2, f, Settled(e1))
          BY <4>2, <4>7, CameraSettled
        <4>9. Good(k, q2, f, Settled(WithInverted(e, value)))
          BY <4>8 DEF e1
        <4> HIDE DEF q2
        <4> QED
          BY <1>3, <4>1, <4>9, CameraInverted
      <3>2. ASSUME ~f, NEW e, NEW i, Turned(d, e, i, value)
            PROVE  Good(k, b, TRUE, Settled(e))
        <4> DEFINE e1 == WithStale(e, "flip")
        <4>1. e \in Scenes
          BY <3>2 DEF Turned
        <4>2. /\ e1 \in Scenes /\ e1.thermal = e.thermal /\ e1.group = e.group /\ e1.hfov = e.hfov
              /\ e1.optics = e.optics /\ e1.crop = e.crop /\ e1.flip = e.flip /\ e1.still = e.still
              /\ e1.zoom = e.zoom /\ e1.ratio = e.ratio /\ e1.inverted = e.inverted /\ e1.cfg = e.cfg
              /\ e1.config = e.config /\ e1.upside = e.upside /\ e1.stale = e.stale \cup {"flip"} /\ e1.on = e.on /\ e1.off = e.off
          BY <4>1, WithStaleIs
        <4> HIDE DEF e1
        <4>3. True(e1)
          <5>1. e1.still = {} /\ e1.crop = e1.ratio
            BY <3>2, <4>2 DEF Turned, True
          <5>2. "view" \notin e1.stale => "view" \notin d.stale
            BY <3>2, <4>2 DEF Turned
          <5>3. e1.stale \cap {"view", "zoom"} = {} => d.stale \cap {"view", "zoom"} = {}
            BY <3>2, <4>2 DEF Turned
          <5>4. e1.hfov = d.hfov /\ e1.group = d.group /\ e1.optics = d.optics /\ e1.crop = d.crop /\ e1.zoom = d.zoom
            BY <3>2, <4>2 DEF Turned
          <5>5. "flip" \in e1.stale
            BY <4>2
          <5> QED
            BY <5>1, <5>2, <5>3, <5>4, <5>5 DEF True
        <4>4. Aimed(d, e1, d.zoom, d.thermal)
          BY <3>2, <4>2, <4>3 DEF Aimed, Turned
        <4>5. Good(k, else, TRUE, Settled(WithStale(e, "flip")))
          BY <3>2, <4>4 DEF e1
        <4> QED
          BY <4>1, <4>5, CameraStale
      <3>3. Turned(d, d, 0, value) /\ 0 \in 0 .. Ports
        BY <1>0 DEF Turned
      <3>4. set_inverted(m, value, else) \o p = Turns(0, value, b) \o q
        <4> DEFINE a == Attrs(d.thermal)
        <4> HIDE DEF a
        <4>1. set_inverted(Structure(a, d), value, else) \o p =
                Turns(0, value, Then(Note("stale", "flip"), else))
                \o Then(Note("inverted", value), Then(Note("settled", "flip"), p))
          BY <2>2, SetInvertedIs
        <4> QED
          BY <4>1 DEF a
      <3>5. ~f => \A e, i : Turned(d, e, i, value) => Good(k, b, TRUE, Settled(e))
        <4> HIDE DEF b
        <4> QED
          BY <3>2
      <3>6. Good(k, Turns(0, value, b) \o q, f, Settled(d))
        <4> HIDE DEF b, q
        <4>1. \A i \in 0 .. Ports : \A e : Turned(d, e, i, value) => Good(k, Turns(i, value, b) \o q, f, Settled(e))
          BY <1>3, <3>1, <3>5, TurnsPorts
        <4> QED
          BY <3>3, <4>1
      <3> HIDE DEF b, q, x, m
      <3> QED
        BY <3>4, <3>6 DEF x
    <2> QED
      BY <2>1, <2>2
  <1>5. Expansion(x.impl, s) = set_inverted(m, value, else)
    BY <1>1, <1>2 DEF Expansion
  <1> HIDE DEF s, x, m
  <1>6. s.op \in Macros
    BY <1>2 DEF Macros
  <1>7. Good(k, Then(s, p), f, x)
    BY <1>4, <1>5, <1>6, GoodMacro
  <1> QED
    BY <1>7 DEF s, x

Six(a, b, c, d, e, g) == <<a, b, c, d, e, g>>
Seven(a, b, c, d, e, g, h) == <<a, b, c, d, e, g, h>>
Eight(a, b, c, d, e, g, h, i) == <<a, b, c, d, e, g, h, i>>

LEMMA WrittenSix ==
    ASSUME NEW a, NEW b, NEW c, NEW d, NEW e, NEW g
    PROVE  Six(a, b, c, d, e, g) = Then(a, Five(b, c, d, e, g)) /\ IsProgram(Six(a, b, c, d, e, g))
PROOF
  <1> DEFINE p == <<a, b, c, d, e, g>>
  <1>1. p \in Seq({a, b, c, d, e, g}) /\ p # <<>> /\ Head(p) = a /\ Tail(p) = <<b, c, d, e, g>>
    OBVIOUS
  <1>2. IsProgram(p)
    BY <1>1 DEF IsProgram
  <1> HIDE DEF p
  <1>3. p = Then(a, <<b, c, d, e, g>>)
    BY <1>1, <1>2, HeadAndTail
  <1> QED
    BY <1>2, <1>3 DEF p, Five, Six

LEMMA WrittenSeven ==
    ASSUME NEW a, NEW b, NEW c, NEW d, NEW e, NEW g, NEW h
    PROVE  Seven(a, b, c, d, e, g, h) = Then(a, Six(b, c, d, e, g, h)) /\ IsProgram(Seven(a, b, c, d, e, g, h))
PROOF
  <1> DEFINE p == <<a, b, c, d, e, g, h>>
  <1>1. p \in Seq({a, b, c, d, e, g, h}) /\ p # <<>> /\ Head(p) = a /\ Tail(p) = <<b, c, d, e, g, h>>
    OBVIOUS
  <1>2. IsProgram(p)
    BY <1>1 DEF IsProgram
  <1> HIDE DEF p
  <1>3. p = Then(a, <<b, c, d, e, g, h>>)
    BY <1>1, <1>2, HeadAndTail
  <1> QED
    BY <1>2, <1>3 DEF p, Six, Seven

LEMMA WrittenEight ==
    ASSUME NEW a, NEW b, NEW c, NEW d, NEW e, NEW g, NEW h, NEW i
    PROVE  Eight(a, b, c, d, e, g, h, i) = Then(a, Seven(b, c, d, e, g, h, i)) /\ IsProgram(Eight(a, b, c, d, e, g, h, i))
PROOF
  <1> DEFINE p == <<a, b, c, d, e, g, h, i>>
  <1>1. p \in Seq({a, b, c, d, e, g, h, i}) /\ p # <<>> /\ Head(p) = a /\ Tail(p) = <<b, c, d, e, g, h, i>>
    OBVIOUS
  <1>2. IsProgram(p)
    BY <1>1 DEF IsProgram
  <1> HIDE DEF p
  <1>3. p = Then(a, <<b, c, d, e, g, h, i>>)
    BY <1>1, <1>2, HeadAndTail
  <1> QED
    BY <1>2, <1>3 DEF p, Seven, Eight

LEMMA EightJoins ==
    ASSUME NEW a, NEW b, NEW c, NEW d, NEW e, NEW g, NEW h, NEW i, NEW q, IsProgram(q)
    PROVE  Eight(a, b, c, d, e, g, h, i) \o q =
             Then(a, Then(b, Then(c, Then(d, Then(e, Then(g, Then(h, Then(i, q))))))))
PROOF
  <1>1. Eight(a, b, c, d, e, g, h, i) = Then(a, Seven(b, c, d, e, g, h, i)) /\ IsProgram(Seven(b, c, d, e, g, h, i))
    BY WrittenEight, WrittenSeven
  <1>2. Seven(b, c, d, e, g, h, i) = Then(b, Six(c, d, e, g, h, i)) /\ IsProgram(Six(c, d, e, g, h, i))
    BY WrittenSeven, WrittenSix
  <1>3. Six(c, d, e, g, h, i) = Then(c, Five(d, e, g, h, i)) /\ IsProgram(Five(d, e, g, h, i))
    BY WrittenSix, WrittenFive
  <1>4. Five(d, e, g, h, i) \o q = Then(d, Then(e, Then(g, Then(h, Then(i, q)))))
    BY FiveJoins
  <1>5. Six(c, d, e, g, h, i) \o q = Then(c, Five(d, e, g, h, i) \o q)
    BY <1>3, ThenJoins
  <1>6. Seven(b, c, d, e, g, h, i) \o q = Then(b, Six(c, d, e, g, h, i) \o q)
    BY <1>2, ThenJoins
  <1>7. Eight(a, b, c, d, e, g, h, i) \o q = Then(a, Seven(b, c, d, e, g, h, i) \o q)
    BY <1>1, ThenJoins
  <1> QED
    BY <1>4, <1>5, <1>6, <1>7

-----------------------------------------------------------------------------
(* A picture taken: what it has of the still channel comes and goes. *)
Like(d, e) ==
    /\ e \in Scenes /\ e.thermal = d.thermal /\ e.group = d.group /\ e.hfov = d.hfov
    /\ e.optics = d.optics /\ e.crop = d.crop /\ e.flip = d.flip
    /\ e.zoom = d.zoom /\ e.ratio = d.ratio /\ e.inverted = d.inverted /\ e.cfg = d.cfg
    /\ e.config = d.config /\ e.upside = d.upside /\ e.stale = d.stale /\ e.on = d.on /\ e.off = d.off
Anyhow(k, d, p) == \A e, g : Like(d, e) => Good(k, p, g, Settled(e))

LEMMA SameScene ==
    ASSUME NEW d \in Scenes, NEW e, Like(d, e), e.still = d.still
    PROVE  e = d
PROOF
  <1>1. e \in Scenes
    BY DEF Like
  <1>2. DOMAIN e = DOMAIN d /\ e = [j \in DOMAIN e |-> e[j]] /\ d = [j \in DOMAIN d |-> d[j]]
    BY <1>1 DEF Scenes
  <1>3. DOMAIN e = {"optics", "crop", "flip", "still", "group", "thermal", "zoom", "hfov", "ratio", "inverted",
                    "cfg", "config", "upside", "stale", "on", "off"}
    BY <1>1 DEF Scenes
  <1>4. \A j \in DOMAIN e : e[j] = d[j]
    BY <1>3 DEF Like
  <1> QED
    BY <1>2, <1>4

LEMMA AnyhowTakes ==
    ASSUME NEW k, NEW w \in Stills, NEW to, NEW else, NEW p, NEW d, IsProgram(p), Anyhow(k, d, p), Anyhow(k, d, else)
    PROVE  Anyhow(k, d, Then(Step("take", w, to, else), p)) /\ IsProgram(Then(Step("take", w, to, else), p))
PROOF
  <1>1. ASSUME NEW e, NEW g, Like(d, e)
        PROVE  Good(k, Then(Step("take", w, to, else), p), g, Settled(e))
    <2>1. e \in Scenes
      BY <1>1 DEF Like
    <2> DEFINE e1 == WithMore(e, w)
    <2>2. /\ e1 \in Scenes /\ e1.thermal = e.thermal /\ e1.group = e.group /\ e1.hfov = e.hfov
          /\ e1.optics = e.optics /\ e1.crop = e.crop /\ e1.flip = e.flip
          /\ e1.zoom = e.zoom /\ e1.ratio = e.ratio /\ e1.inverted = e.inverted /\ e1.cfg = e.cfg
          /\ e1.config = e.config /\ e1.upside = e.upside /\ e1.stale = e.stale /\ e1.on = e.on /\ e1.off = e.off
      BY <2>1, WithMoreIs
    <2> HIDE DEF e1
    <2>3. Like(d, e1)
      BY <1>1, <2>2 DEF Like
    <2>4. Good(k, p, g, Settled(WithMore(e, w)))
      BY <2>3 DEF Anyhow, e1
    <2>5. Good(k, else, TRUE, Settled(e))
      BY <1>1 DEF Anyhow
    <2> QED
      BY <2>1, <2>4, <2>5, CameraTakes
  <1> QED
    BY <1>1, FirstStep DEF Anyhow

LEMMA AnyhowDrops ==
    ASSUME NEW k, NEW w \in Stills, NEW p, NEW d, IsProgram(p), Anyhow(k, d, p)
    PROVE  Anyhow(k, d, Then(Do("drop", w, "none"), p)) /\ IsProgram(Then(Do("drop", w, "none"), p))
PROOF
  <1>1. ASSUME NEW e, NEW g, Like(d, e)
        PROVE  Good(k, Then(Do("drop", w, "none"), p), g, Settled(e))
    <2>1. e \in Scenes
      BY <1>1 DEF Like
    <2> DEFINE e1 == WithLess(e, w)
    <2>2. /\ e1 \in Scenes /\ e1.thermal = e.thermal /\ e1.group = e.group /\ e1.hfov = e.hfov
          /\ e1.optics = e.optics /\ e1.crop = e.crop /\ e1.flip = e.flip
          /\ e1.zoom = e.zoom /\ e1.ratio = e.ratio /\ e1.inverted = e.inverted /\ e1.cfg = e.cfg
          /\ e1.config = e.config /\ e1.upside = e.upside /\ e1.stale = e.stale /\ e1.on = e.on /\ e1.off = e.off
      BY <2>1, WithLessIs
    <2> HIDE DEF e1
    <2>3. Like(d, e1)
      BY <1>1, <2>2 DEF Like
    <2>4. Good(k, p, g, Settled(WithLess(e, w)))
      BY <2>3 DEF Anyhow, e1
    <2>5. Good(k, Then(Step("drop", w, "none", <<>>), p), g, Settled(e))
      BY <2>1, <2>4, CameraDrops
    <2> QED
      BY <2>5 DEF Do
  <1> QED
    BY <1>1, FirstStep DEF Anyhow

LEMMA AnyhowTries ==
    ASSUME NEW k, NEW on, NEW to, NEW else, NEW p, NEW d, IsProgram(p), Anyhow(k, d, p), Anyhow(k, d, else)
    PROVE  Anyhow(k, d, Then(Step("try", on, to, else), p)) /\ IsProgram(Then(Step("try", on, to, else), p))
PROOF
  <1>1. ASSUME NEW e, NEW g, Like(d, e)
        PROVE  Good(k, Then(Step("try", on, to, else), p), g, Settled(e))
    <2>1. Good(k, p, g, Settled(e)) /\ Good(k, else, TRUE, Settled(e))
      BY <1>1 DEF Anyhow
    <2> QED
      BY <2>1, CameraTries
  <1> QED
    BY <1>1, FirstStep DEF Anyhow

\* Before the next picture, everything taken for this one is given back.
LEMMA GivesBack ==
    ASSUME NEW k, NEW rest, NEW d \in Scenes, d.still = {}, IsProgram(rest), \A g : Good(k, rest, g, Settled(d))
    PROVE  LET done == Then(Do("drop", "stream", "none"), Then(Do("drop", "frame", "none"),
                       Then(Do("drop", "started", "none"), Then(Do("drop", "chn", "none"), rest)))) IN
           Anyhow(k, d, done) /\ IsProgram(done)
PROOF
  <1> DEFINE s1 == Do("drop", "stream", "none")
             s2 == Do("drop", "frame", "none")
             s3 == Do("drop", "started", "none")
             s4 == Do("drop", "chn", "none")
             p4 == Then(s4, rest)
             p3 == Then(s3, p4)
             p2 == Then(s2, p3)
             p1 == Then(s1, p2)
  <1>1. "stream" \in Stills /\ "frame" \in Stills /\ "started" \in Stills /\ "chn" \in Stills
        /\ Stills = {"stream", "frame", "started", "chn"}
    BY DEF Stills
  <1>2. IsProgram(p4) /\ IsProgram(p3) /\ IsProgram(p2) /\ IsProgram(p1)
    <2> HIDE DEF s1, s2, s3, s4
    <2>1. IsProgram(p4)
      BY FirstStep
    <2>2. IsProgram(p3)
      <3> HIDE DEF p4
      <3> QED
        BY <2>1, FirstStep
    <2>3. IsProgram(p2)
      <3> HIDE DEF p3
      <3> QED
        BY <2>2, FirstStep
    <2>4. IsProgram(p1)
      <3> HIDE DEF p2
      <3> QED
        BY <2>3, FirstStep
    <2> QED
      BY <2>1, <2>2, <2>3, <2>4
  <1>3. ASSUME NEW e, NEW g, Like(d, e)
        PROVE  Good(k, p1, g, Settled(e))
    <2> DEFINE e1 == WithLess(e, "stream")
               e2 == WithLess(e1, "frame")
               e3 == WithLess(e2, "started")
               e4 == WithLess(e3, "chn")
    <2>1. e \in Scenes /\ e.still \in SUBSET Stills
      BY <1>3, SceneIs DEF Like
    <2>2. e1 \in Scenes /\ Like(d, e1) /\ e1.still = e.still \ {"stream"}
      <3>1. /\ e1 \in Scenes /\ e1.thermal = e.thermal /\ e1.group = e.group /\ e1.hfov = e.hfov
            /\ e1.optics = e.optics /\ e1.crop = e.crop /\ e1.flip = e.flip /\ e1.still = e.still \ {"stream"}
            /\ e1.zoom = e.zoom /\ e1.ratio = e.ratio /\ e1.inverted = e.inverted /\ e1.cfg = e.cfg
            /\ e1.config = e.config /\ e1.upside = e.upside /\ e1.stale = e.stale /\ e1.on = e.on /\ e1.off = e.off
        BY <1>1, <2>1, WithLessIs
      <3> HIDE DEF e1
      <3> QED
        BY <1>3, <3>1 DEF Like
    <2> HIDE DEF e1
    <2>3. e2 \in Scenes /\ Like(d, e2) /\ e2.still = e1.still \ {"frame"}
      <3>1. /\ e2 \in Scenes /\ e2.thermal = e1.thermal /\ e2.group = e1.group /\ e2.hfov = e1.hfov
            /\ e2.optics = e1.optics /\ e2.crop = e1.crop /\ e2.flip = e1.flip /\ e2.still = e1.still \ {"frame"}
            /\ e2.zoom = e1.zoom /\ e2.ratio = e1.ratio /\ e2.inverted = e1.inverted /\ e2.cfg = e1.cfg
            /\ e2.config = e1.config /\ e2.upside = e1.upside /\ e2.stale = e1.stale /\ e2.on = e1.on /\ e2.off = e1.off
        BY <1>1, <2>2, WithLessIs
      <3> HIDE DEF e2
      <3> QED
        BY <2>2, <3>1 DEF Like
    <2> HIDE DEF e2
    <2>4. e3 \in Scenes /\ Like(d, e3) /\ e3.still = e2.still \ {"started"}
      <3>1. /\ e3 \in Scenes /\ e3.thermal = e2.thermal /\ e3.group = e2.group /\ e3.hfov = e2.hfov
            /\ e3.optics = e2.optics /\ e3.crop = e2.crop /\ e3.flip = e2.flip /\ e3.still = e2.still \ {"started"}
            /\ e3.zoom = e2.zoom /\ e3.ratio = e2.ratio /\ e3.inverted = e2.inverted /\ e3.cfg = e2.cfg
            /\ e3.config = e2.config /\ e3.upside = e2.upside /\ e3.stale = e2.stale /\ e3.on = e2.on /\ e3.off = e2.off
        BY <1>1, <2>3, WithLessIs
      <3> HIDE DEF e3
      <3> QED
        BY <2>3, <3>1 DEF Like
    <2> HIDE DEF e3
    <2>5. e4 \in Scenes /\ Like(d, e4) /\ e4.still = e3.still \ {"chn"}
      <3>1. /\ e4 \in Scenes /\ e4.thermal = e3.thermal /\ e4.group = e3.group /\ e4.hfov = e3.hfov
            /\ e4.optics = e3.optics /\ e4.crop = e3.crop /\ e4.flip = e3.flip /\ e4.still = e3.still \ {"chn"}
            /\ e4.zoom = e3.zoom /\ e4.ratio = e3.ratio /\ e4.inverted = e3.inverted /\ e4.cfg = e3.cfg
            /\ e4.config = e3.config /\ e4.upside = e3.upside /\ e4.stale = e3.stale /\ e4.on = e3.on /\ e4.off = e3.off
        BY <1>1, <2>4, WithLessIs
      <3> HIDE DEF e4
      <3> QED
        BY <2>4, <3>1 DEF Like
    <2> HIDE DEF e4
    <2>6. e4.still = {}
      BY <1>1, <2>1, <2>2, <2>3, <2>4, <2>5
    <2>7. e4 = d
      BY <2>5, <2>6, SameScene
    <2>8. Good(k, rest, g, Settled(WithLess(e3, "chn")))
      BY <2>7 DEF e4
    <2>9. Good(k, Then(Step("drop", "chn", "none", <<>>), rest), g, Settled(e3))
      BY <1>1, <2>4, <2>8, CameraDrops
    <2>10. Good(k, p4, g, Settled(WithLess(e2, "started")))
      BY <2>9 DEF Do, e3
    <2>11. Good(k, Then(Step("drop", "started", "none", <<>>), p4), g, Settled(e2))
      <3> HIDE DEF p4
      <3> QED
        BY <1>1, <1>2, <2>3, <2>10, CameraDrops
    <2>12. Good(k, p3, g, Settled(WithLess(e1, "frame")))
      BY <2>11 DEF Do, e2
    <2>13. Good(k, Then(Step("drop", "frame", "none", <<>>), p3), g, Settled(e1))
      <3> HIDE DEF p3
      <3> QED
        BY <1>1, <1>2, <2>2, <2>12, CameraDrops
    <2>14. Good(k, p2, g, Settled(WithLess(e, "stream")))
      BY <2>13 DEF Do, e1
    <2>15. Good(k, Then(Step("drop", "stream", "none", <<>>), p2), g, Settled(e))
      <3> HIDE DEF p2
      <3> QED
        BY <1>1, <1>2, <2>1, <2>14, CameraDrops
    <2> QED
      BY <2>15 DEF Do
  <1>4. Anyhow(k, d, p1)
    <2> HIDE DEF p1
    <2> QED
      BY <1>3 DEF Anyhow
  <1> QED
    BY <1>2, <1>4

\* What the photo program is for the first of n groups.
Done(n) == Then(Do("drop", "stream", "none"), Then(Do("drop", "frame", "none"),
           Then(Do("drop", "started", "none"), Then(Do("drop", "chn", "none"), One(Do("photo", "none", n - 1))))))
LEMMA CapturesIs ==
    ASSUME NEW n, n # 0, IsProgram(Done(n))
    PROVE  capture_photo(n) =
             Then(Step("take", "chn", "none", Done(n)), Then(Step("take", "started", "none", Done(n)),
             Then(Step("take", "frame", "none", Done(n)), Then(Step("try", "send", "none", Done(n)),
             Then(Do("drop", "frame", "none"), Then(Step("try", "query", "none", Done(n)),
             Then(Step("take", "stream", "none", Done(n)), Then(Step("try", "write", "none", Done(n)), Done(n)))))))))
PROOF
  <1> DEFINE rest == One(Do("photo", "none", n - 1))
             s1 == Do("drop", "stream", "none")
             s2 == Do("drop", "frame", "none")
             s3 == Do("drop", "started", "none")
             s4 == Do("drop", "chn", "none")
             done == Four(s1, s2, s3, s4) \o rest
  <1>1. IsProgram(rest)
    BY JustOne
  <1>2. done = Done(n)
    <2> DEFINE all == Then(s1, Then(s2, Then(s3, Then(s4, rest))))
    <2>1. Done(n) = all
      BY DEF Done
    <2> HIDE DEF rest, s1, s2, s3, s4
    <2>2. done = all
      BY <1>1, FourJoins
    <2> QED
      BY <2>1, <2>2
  <1>3. capture_photo(n) =
          Eight(Step("take", "chn", "none", done), Step("take", "started", "none", done),
                Step("take", "frame", "none", done), Step("try", "send", "none", done), s2,
                Step("try", "query", "none", done), Step("take", "stream", "none", done),
                Step("try", "write", "none", done)) \o done
    BY DEF capture_photo, Eight, Four, One
  <1> HIDE DEF done
  <1>4. Eight(Step("take", "chn", "none", done), Step("take", "started", "none", done),
                Step("take", "frame", "none", done), Step("try", "send", "none", done), s2,
                Step("try", "query", "none", done), Step("take", "stream", "none", done),
                Step("try", "write", "none", done)) \o done
        = Then(Step("take", "chn", "none", done), Then(Step("take", "started", "none", done),
          Then(Step("take", "frame", "none", done), Then(Step("try", "send", "none", done),
          Then(s2, Then(Step("try", "query", "none", done),
          Then(Step("take", "stream", "none", done), Then(Step("try", "write", "none", done), done))))))))
    <2> DEFINE a == Step("take", "chn", "none", done)
               b == Step("take", "started", "none", done)
               c == Step("take", "frame", "none", done)
               d == Step("try", "send", "none", done)
               e == s2
               g == Step("try", "query", "none", done)
               h == Step("take", "stream", "none", done)
               i == Step("try", "write", "none", done)
    <2> HIDE DEF a, b, c, d, e, g, h, i
    <2>1. IsProgram(done)
      BY <1>2
    <2>2. Eight(a, b, c, d, e, g, h, i) \o done =
             Then(a, Then(b, Then(c, Then(d, Then(e, Then(g, Then(h, Then(i, done))))))))
      BY <2>1, EightJoins
    <2> QED
      BY <2>2 DEF a, b, c, d, e, g, h, i
  <1>5. capture_photo(n) =
          Then(Step("take", "chn", "none", done), Then(Step("take", "started", "none", done),
          Then(Step("take", "frame", "none", done), Then(Step("try", "send", "none", done),
          Then(s2, Then(Step("try", "query", "none", done),
          Then(Step("take", "stream", "none", done), Then(Step("try", "write", "none", done), done))))))))
    BY <1>3, <1>4, Zenon
  <1> QED
    BY <1>2, <1>5, Zenon

LEMMA LastPhoto ==
    ASSUME NEW k, NEW f, NEW d \in Scenes, End(k, f, Settled(d)), End(k, TRUE, Settled(d))
    PROVE  Good(k, One(Do("photo", "none", 0)), f, Settled(d))
PROOF
  <1> DEFINE s == Do("photo", "none", 0)
             t == Do("try", "raw", "none")
             x == Settled(d)
  <1>1. Good(k, <<>>, f, x) /\ Good(k, <<>>, TRUE, x) /\ IsProgram(<<>>)
    BY GoodEnd, EmptyProgram
  <1>2. Good(k, Then(Step("try", "raw", "none", <<>>), <<>>), f, x)
    BY <1>1, CameraTries
  <1>3. capture_photo(0) \o <<>> = Then(t, <<>>)
    <2>1. capture_photo(0) = One(t)
      BY DEF capture_photo, One
    <2> HIDE DEF t
    <2>2. One(t) = Then(t, <<>>) /\ IsProgram(One(t))
      BY JustOne
    <2>3. One(t) \o <<>> = One(t)
      BY <2>2, NothingFirst
    <2> QED
      BY <2>1, <2>2, <2>3
  <1>4. Good(k, capture_photo(0) \o <<>>, f, x)
    BY <1>2, <1>3 DEF Do
  <1>5. s.op = "photo" /\ s.to = 0
    BY DEF Do, Step
  <1>6. Expansion(x.impl, s) = capture_photo(0)
    BY <1>5 DEF Expansion
  <1> HIDE DEF s, x
  <1>7. s.op \in Macros
    BY <1>5 DEF Macros
  <1>8. Good(k, Then(s, <<>>), f, x)
    BY <1>1, <1>4, <1>6, <1>7, GoodMacro
  <1> QED
    BY <1>8, JustOne DEF s, x

LEMMA NextPhoto ==
    ASSUME NEW k, NEW f, NEW n, n # 0, NEW d \in Scenes, d.still = {},
           \A g : Good(k, One(Do("photo", "none", n - 1)), g, Settled(d))
    PROVE  Good(k, One(Do("photo", "none", n)), f, Settled(d))
PROOF
  <1> DEFINE s == Do("photo", "none", n)
             x == Settled(d)
             done == Done(n)
             p8 == Then(Step("try", "write", "none", done), done)
             p7 == Then(Step("take", "stream", "none", done), p8)
             p6 == Then(Step("try", "query", "none", done), p7)
             p5 == Then(Do("drop", "frame", "none"), p6)
             p4 == Then(Step("try", "send", "none", done), p5)
             p3 == Then(Step("take", "frame", "none", done), p4)
             p2 == Then(Step("take", "started", "none", done), p3)
             p1 == Then(Step("take", "chn", "none", done), p2)
  <1>1. Anyhow(k, d, done) /\ IsProgram(done)
    <2> DEFINE rest == One(Do("photo", "none", n - 1))
    <2>1. IsProgram(rest)
      BY JustOne
    <2>2. done = Then(Do("drop", "stream", "none"), Then(Do("drop", "frame", "none"),
                 Then(Do("drop", "started", "none"), Then(Do("drop", "chn", "none"), rest))))
      BY DEF Done
    <2> HIDE DEF rest, done
    <2>3. LET all == Then(Do("drop", "stream", "none"), Then(Do("drop", "frame", "none"),
                     Then(Do("drop", "started", "none"), Then(Do("drop", "chn", "none"), rest)))) IN
          Anyhow(k, d, all) /\ IsProgram(all)
      BY <2>1, GivesBack DEF rest
    <2> QED
      BY <2>2, <2>3
  <1>2. "stream" \in Stills /\ "frame" \in Stills /\ "started" \in Stills /\ "chn" \in Stills
    BY DEF Stills
  <1>3. capture_photo(n) = p1
    BY <1>1, CapturesIs
  <1> HIDE DEF done
  <1>4. Anyhow(k, d, p8) /\ IsProgram(p8)
    BY <1>1, AnyhowTries
  <1> HIDE DEF p8
  <1>5. Anyhow(k, d, p7) /\ IsProgram(p7)
    BY <1>1, <1>2, <1>4, AnyhowTakes
  <1> HIDE DEF p7
  <1>6. Anyhow(k, d, p6) /\ IsProgram(p6)
    BY <1>1, <1>5, AnyhowTries
  <1> HIDE DEF p6
  <1>7. Anyhow(k, d, p5) /\ IsProgram(p5)
    BY <1>2, <1>6, AnyhowDrops
  <1> HIDE DEF p5
  <1>8. Anyhow(k, d, p4) /\ IsProgram(p4)
    BY <1>1, <1>7, AnyhowTries
  <1> HIDE DEF p4
  <1>9. Anyhow(k, d, p3) /\ IsProgram(p3)
    BY <1>1, <1>2, <1>8, AnyhowTakes
  <1> HIDE DEF p3
  <1>10. Anyhow(k, d, p2) /\ IsProgram(p2)
    BY <1>1, <1>2, <1>9, AnyhowTakes
  <1> HIDE DEF p2
  <1>11. Anyhow(k, d, p1) /\ IsProgram(p1)
    BY <1>1, <1>2, <1>10, AnyhowTakes
  <1> HIDE DEF p1
  <1>12. Good(k, p1 \o <<>>, f, x)
    <2>1. Like(d, d)
      BY DEF Like
    <2>2. Good(k, p1, f, x)
      BY <1>11, <2>1 DEF Anyhow
    <2>3. p1 \o <<>> = p1
      BY <1>11, NothingFirst
    <2> QED
      BY <2>2, <2>3
  <1>13. s.op = "photo" /\ s.to = n
    BY DEF Do, Step
  <1>14. Expansion(x.impl, s) = capture_photo(n)
    BY <1>13 DEF Expansion
  <1> HIDE DEF s, x
  <1>15. s.op \in Macros
    BY <1>13 DEF Macros
  <1>16. Good(k, Then(s, <<>>), f, x)
    BY <1>3, <1>12, <1>14, <1>15, GoodMacro, EmptyProgram
  <1> QED
    BY <1>16, JustOne DEF s, x

LEMMA TakesPhotos ==
    ASSUME NEW k, NEW f, NEW n \in {0, 2}, NEW d \in Scenes, True(d), \A g : End(k, g, Settled(d))
    PROVE  Good(k, One(Do("photo", "none", n)), f, Settled(d))
PROOF
  <1> DEFINE P(i, g) == Good(k, One(Do("photo", "none", i)), g, Settled(d))
  <1>0. d.still = {}
    BY DEF True
  <1>1. \A g : P(0, g)
    BY LastPhoto
  <1>2. \A i, g : i # 0 /\ (\A h : P(i - 1, h)) => P(i, g)
    BY <1>0, NextPhoto
  <1>3. 1 - 1 = 0 /\ 2 - 1 = 1
    OBVIOUS
  <1> HIDE DEF P
  <1>4. \A g : P(1, g)
    BY <1>1, <1>2, <1>3
  <1>5. \A g : P(2, g)
    BY <1>2, <1>3, <1>4
  <1>6. P(n, f)
    BY <1>1, <1>5
  <1> QED
    BY <1>6 DEF P

-----------------------------------------------------------------------------
(* A pipeline opened anew and its controls put back. *)

LEMMA AimedAgain ==
    ASSUME NEW d, NEW e, NEW z, NEW t, Aimed(d, e, z, t), NEW e2, NEW z2, NEW t2, Aimed(e, e2, z2, t2)
    PROVE  Aimed(d, e2, z2, t2)
  BY DEF Aimed

LEMMA AimedLooking ==
    ASSUME NEW d, NEW e, NEW z, NEW t, Aimed(d, e, z, t), NEW lens \in Lenses
    PROVE  Aimed(d, Looking(e, lens), z, t)
PROOF
  <1>1. e \in Scenes /\ True(e)
    BY DEF Aimed
  <1> DEFINE e2 == Looking(e, lens)
  <1>2. True(e2) /\ e2 \in Scenes
    BY <1>1, TrueLooking
  <1>3. e2.zoom = e.zoom /\ e2.thermal = e.thermal /\ e2.cfg = e.cfg
        /\ e2.config = e.config /\ e2.upside = e.upside /\ e2.on = e.on /\ e2.off = e.off
    BY <1>1, LookingIs
  <1> HIDE DEF e2
  <1>4. Aimed(d, e2, z, t)
    BY <1>2, <1>3 DEF Aimed
  <1> QED
    BY <1>4 DEF e2

LEMMA AimedSlots ==
    ASSUME NEW d, NEW e, NEW z, NEW t, Aimed(d, e, z, t), NEW t2 \in BOOLEAN
    PROVE  Aimed(d, Slots(e, t2), z, t2)
PROOF
  <1>1. e \in Scenes /\ True(e)
    BY DEF Aimed
  <1> DEFINE e2 == Slots(e, t2)
  <1>2. True(e2) /\ e2 \in Scenes
    BY <1>1, TrueSlots
  <1>3. e2.zoom = e.zoom /\ e2.thermal = t2 /\ e2.cfg = e.cfg
        /\ e2.config = e.config /\ e2.upside = e.upside /\ e2.on = e.on /\ e2.off = e.off
    BY <1>1, SlotsAre
  <1> HIDE DEF e2
  <1>4. Aimed(d, e2, z, t2)
    BY <1>2, <1>3 DEF Aimed
  <1> QED
    BY <1>4 DEF e2

\* restore_controls and what follows it, written out.
Lastly(state, else, p) ==
    Then(Step("switch", "none", state.thermal, else), Then(Step("gain", "none", state.gain, else), p))
Lenswise(state, else, p) ==
    IF state.thermal THEN Then(Step("select_lens", "none", "zoom", else), Lastly(state, else, p))
    ELSE Lastly(state, else, p)
Restoring(up, state, else, p) ==
    Then(Step("set_inverted", "none", up, else), Then(Step("select_lens", "none", state.lens, else),
    Then(Step("switch", "none", FALSE, else), Then(Step("set_zoom", "none", state.zoom, else),
    Lenswise(state, else, p)))))

LEMMA RestoringIs ==
    ASSUME NEW state, NEW else, NEW p, IsProgram(p)
    PROVE  /\ restore_controls(state, else) \o p = Restoring(inverted, state, else, p)
           /\ IsProgram(Lastly(state, else, p)) /\ IsProgram(Lenswise(state, else, p))
           /\ IsProgram(Restoring(inverted, state, else, p)) /\ IsProgram(restore_controls(state, else))
PROOF
  <1> DEFINE s1 == Step("set_inverted", "none", inverted, else)
             s2 == Step("select_lens", "none", state.lens, else)
             s3 == Step("switch", "none", FALSE, else)
             s4 == Step("set_zoom", "none", state.zoom, else)
             s5 == Step("select_lens", "none", "zoom", else)
             s6 == Step("switch", "none", state.thermal, else)
             s7 == Step("gain", "none", state.gain, else)
             x == Four(s1, s2, s3, s4)
             y == IF state.thermal THEN One(s5) ELSE <<>>
             w == Two(s6, s7)
             q7 == Then(s7, p)
             q6 == Then(s6, q7)
             q5 == IF state.thermal THEN Then(s5, q6) ELSE q6
             q4 == Then(s4, q5)
             q3 == Then(s3, q4)
             q2 == Then(s2, q3)
             q1 == Then(s1, q2)
  <1>1. restore_controls(state, else) = (x \o y) \o w
    BY DEF restore_controls, One, Two, Four
  <1>2. Lastly(state, else, p) = q6 /\ Lenswise(state, else, p) = q5 /\ Restoring(inverted, state, else, p) = q1
    <2>1. Lastly(state, else, p) = q6
      BY DEF Lastly
    <2>2. Lenswise(state, else, p) = q5
      BY <2>1 DEF Lenswise
    <2> HIDE DEF q5
    <2> QED
      BY <2>1, <2>2 DEF Restoring
  <1> HIDE DEF s1, s2, s3, s4, s5, s6, s7
  <1>3. IsProgram(x) /\ IsProgram(y) /\ IsProgram(w)
    <2>1. IsProgram(One(s5)) /\ IsProgram(<<>>)
      BY JustOne, EmptyProgram
    <2>2. IsProgram(y)
      BY <2>1
    <2> QED
      BY <2>2, WrittenFour, WrittenTwo
  <1>4. IsProgram(q7) /\ IsProgram(q6)
    <2>1. IsProgram(q7)
      BY FirstStep
    <2> HIDE DEF q7
    <2> QED
      BY <2>1, FirstStep
  <1>5. IsProgram(q5)
    <2> HIDE DEF q6
    <2>1. IsProgram(Then(s5, q6))
      BY <1>4, FirstStep
    <2> QED
      BY <1>4, <2>1
  <1>6. w \o p = q6
    BY TwoJoins
  <1>7. y \o q6 = q5
    <2> HIDE DEF q6
    <2>1. <<>> \o q6 = q6 /\ One(s5) \o q6 = Then(s5, q6)
      BY <1>4, NothingFirst, OneJoins
    <2> QED
      BY <2>1
  <1> HIDE DEF q5, q6, y, w
  <1>8. x \o q5 = q1
    BY <1>5, FourJoins
  <1>9. IsProgram(q1)
    <2>1. IsProgram(q4)
      BY <1>5, FirstStep
    <2> HIDE DEF q4
    <2>2. IsProgram(q3)
      BY <2>1, FirstStep
    <2> HIDE DEF q3
    <2>3. IsProgram(q2)
      BY <2>2, FirstStep
    <2> HIDE DEF q2
    <2> QED
      BY <2>3, FirstStep
  <1> HIDE DEF x, q1
  <1>10. ((x \o y) \o w) \o p = q1 /\ IsProgram((x \o y) \o w)
    <2>1. Join(w, p) = q6 /\ Join(y, q6) = q5 /\ Join(x, q5) = q1
      BY <1>6, <1>7, <1>8 DEF Join
    <2>2. IsProgram(Join(x, y)) /\ IsProgram(Join(Join(x, y), w))
      <3>1. IsProgram(Join(x, y))
        BY <1>3, JoinIs
      <3> DEFINE v == Join(x, y)
      <3> HIDE DEF v
      <3>2. IsProgram(Join(v, w))
        BY <1>3, <3>1, JoinIs DEF v
      <3> QED
        BY <3>1, <3>2 DEF v
    <2>3. Join(Join(Join(x, y), w), p) = Join(Join(x, y), q6)
      <3> DEFINE v == Join(x, y)
      <3> HIDE DEF v
      <3>1. Join(Join(v, w), p) = Join(v, Join(w, p))
        BY <1>3, <2>2, JoinAssociates DEF v
      <3> QED
        BY <2>1, <3>1 DEF v
    <2>4. Join(Join(x, y), q6) = Join(x, Join(y, q6))
      BY <1>3, <1>4, JoinAssociates
    <2>5. Join(Join(Join(x, y), w), p) = q1
      BY <2>1, <2>3, <2>4
    <2> QED
      BY <2>2, <2>5 DEF Join
  <1> QED
    BY <1>1, <1>2, <1>4, <1>5, <1>9, <1>10

LEMMA OwnWorld ==
    ASSUME NEW d
    PROVE  LET x == Settled(d) IN
           /\ x = [hw |-> x.hw, impl |-> x.impl, config |-> x.config, inverted |-> x.inverted,
                   stale |-> x.stale, on |-> x.on, off |-> x.off]
           /\ x.config = d.config /\ x.inverted = d.upside /\ x.stale = d.stale /\ x.on = d.on /\ x.off = d.off
           /\ x.impl = Structure(Attrs(d.thermal), d)
  BY DEF Settled, Camera

\* The last of the controls: RGB or thermal to the main slot, and the gain.
LEMMA RestoresLast ==
    ASSUME NEW k, NEW state, NEW else, NEW p, NEW f, NEW d \in Scenes, NEW z, NEW t, NEW e, Aimed(d, e, z, t),
           IsProgram(else), IsProgram(p), d.off = TRUE, state.thermal \in BOOLEAN, state.gain = k.gain,
           \A e2 : Aimed(d, e2, z, state.thermal) => Good(k, p, f, Settled(e2)),
           ~f => \A e2, t2 : Aimed(d, e2, z, t2) => Good(k, else, TRUE, Settled(e2))
    PROVE  Good(k, Lastly(state, else, p), f, Settled(e))
PROOF
  <1> DEFINE g == Step("gain", "none", state.gain, else)
             q == Then(g, p)
             e1 == Slots(e, state.thermal)
  <1>1. e \in Scenes
    BY DEF Aimed
  <1>2. Aimed(d, e1, z, state.thermal)
    BY AimedSlots
  <1>3. IsProgram(q)
    BY FirstStep
  <1>4. Good(k, q, f, Settled(e1))
    <2> DEFINE x == Settled(e1)
    <2> HIDE DEF e1
    <2>1. x.off = TRUE
      BY <1>2, OwnWorld DEF Aimed
    <2>2. x = [hw |-> x.hw, impl |-> x.impl, config |-> x.config, inverted |-> x.inverted,
               stale |-> x.stale, on |-> x.on, off |-> x.off]
      BY OwnWorld
    <2>3. Good(k, p, f, x) /\ (~f => Good(k, else, TRUE, x))
      BY <1>2
    <2> HIDE DEF x
    <2>4. Good(k, q, f, x)
      BY <2>1, <2>2, <2>3, PutsGain
    <2> QED
      BY <2>4 DEF x
  <1>5. Good(k, q, f, Settled(Slots(e, state.thermal))) /\ (~f => Good(k, else, TRUE, Settled(e)))
    BY <1>4
  <1> HIDE DEF q
  <1>6. Good(k, Then(Step("switch", "none", state.thermal, else), q), f, Settled(e))
    BY <1>1, <1>3, <1>5, SwitchesSources
  <1> QED
    BY <1>6 DEF q, Lastly

LEMMA RestoresLens ==
    ASSUME NEW k, NEW state, NEW else, NEW p, NEW f, NEW d \in Scenes, NEW z, NEW t, NEW e, Aimed(d, e, z, t),
           IsProgram(else), IsProgram(p), d.off = TRUE, state.thermal \in BOOLEAN, state.gain = k.gain,
           \A e2 : Aimed(d, e2, z, state.thermal) => Good(k, p, f, Settled(e2)),
           ~f => \A e2, t2 : Aimed(d, e2, z, t2) => Good(k, else, TRUE, Settled(e2))
    PROVE  Good(k, Lenswise(state, else, p), f, Settled(e))
PROOF
  <1> DEFINE q == Lastly(state, else, p)
             e1 == Looking(e, "zoom")
  <1>1. e \in Scenes /\ "zoom" \in Lenses
    BY DEF Aimed, Lenses
  <1>2. Aimed(d, e1, z, t)
    BY <1>1, AimedLooking
  <1>3. IsProgram(q)
    BY RestoringIs
  <1>4. Good(k, q, f, Settled(e)) /\ Good(k, q, f, Settled(e1))
    <2> HIDE DEF e1
    <2> QED
      BY <1>2, RestoresLast
  <1>5. Good(k, q, f, Settled(Looking(e, "zoom"))) /\ (~f => Good(k, else, TRUE, Settled(e)))
    BY <1>4
  <1> HIDE DEF q
  <1>6. Good(k, Then(Step("select_lens", "none", "zoom", else), q), f, Settled(e))
    BY <1>1, <1>3, <1>5, SelectsLens
  <1>7. Good(k, IF state.thermal THEN Then(Step("select_lens", "none", "zoom", else), q) ELSE q, f, Settled(e))
    BY <1>4, <1>6
  <1> QED
    BY <1>7 DEF q, Lenswise

LEMMA RestoresControls ==
    ASSUME NEW k, NEW state, NEW else, NEW p, NEW f, NEW d \in Scenes, True(d), d.off = TRUE,
           IsProgram(else), IsProgram(p), inverted \in BOOLEAN,
           state.lens \in Lenses, state.zoom \in Zooms, state.thermal \in BOOLEAN, state.gain = k.gain,
           \A e : Aimed(d, e, state.zoom, state.thermal) => Good(k, p, f, Settled(e)),
           ~f => \A e, z, t : Aimed(d, e, z, t) => Good(k, else, TRUE, Settled(e))
    PROVE  Good(k, restore_controls(state, else) \o p, f, Settled(d))
PROOF
  <1> DEFINE q5 == Lenswise(state, else, p)
             q4 == Then(Step("set_zoom", "none", state.zoom, else), q5)
             q3 == Then(Step("switch", "none", FALSE, else), q4)
             q2 == Then(Step("select_lens", "none", state.lens, else), q3)
             q1 == Then(Step("set_inverted", "none", inverted, else), q2)
  <1>1. restore_controls(state, else) \o p = q1 /\ IsProgram(q5)
    BY RestoringIs DEF Restoring
  <1>2. IsProgram(q4) /\ IsProgram(q3) /\ IsProgram(q2)
    <2> HIDE DEF q5
    <2>1. IsProgram(q4)
      BY <1>1, FirstStep
    <2> HIDE DEF q4
    <2>2. IsProgram(q3)
      BY <2>1, FirstStep
    <2> HIDE DEF q3
    <2>3. IsProgram(q2)
      BY <2>2, FirstStep
    <2> QED
      BY <2>1, <2>2, <2>3
  <1>3. ~f => \A e, z, t : Aimed(d, e, z, t) => Good(k, else, TRUE, Settled(e))
    OBVIOUS
  <1>4. \A e, t : Aimed(d, e, state.zoom, t) => Good(k, q5, f, Settled(e))
    BY RestoresLens
  <1> HIDE DEF q5
  <1>5. ASSUME NEW e, NEW z, NEW t, Aimed(d, e, z, t)
        PROVE  Good(k, q4, f, Settled(e))
    <2>1. e \in Scenes /\ True(e) /\ e.zoom = z /\ e.thermal = t
      BY <1>5 DEF Aimed
    <2> DEFINE w == state.zoom
               no == FALSE
    <2>2. \A e2 : Aimed(e, e2, w, no) => Good(k, q5, f, Settled(e2))
      <3> HIDE DEF w, no
      <3> SUFFICES ASSUME NEW e2, Aimed(e, e2, w, no) PROVE Good(k, q5, f, Settled(e2))
        OBVIOUS
      <3>1. Aimed(d, e2, w, no)
        BY <1>5, AimedAgain
      <3> QED
        BY <1>4, <3>1 DEF w
    <2>3. ~f => \A e2 : Aimed(e, e2, e.zoom, e.thermal) => Good(k, else, TRUE, Settled(e2))
      <3> SUFFICES ASSUME ~f, NEW e2, Aimed(e, e2, e.zoom, e.thermal) PROVE Good(k, else, TRUE, Settled(e2))
        OBVIOUS
      <3>1. Aimed(d, e2, e.zoom, e.thermal)
        BY <1>5, AimedAgain
      <3> QED
        BY <1>3, <3>1
    <2>4. \A e2 : Aimed(e, e2, w, FALSE) => Good(k, q5, f, Settled(e2))
      BY <2>2
    <2> QED
      BY <1>1, <2>1, <2>3, <2>4, SetsZoom
  <1> HIDE DEF q4
  <1>6. ASSUME NEW e, NEW z, NEW t, Aimed(d, e, z, t)
        PROVE  Good(k, q3, f, Settled(e))
    <2> DEFINE no == FALSE
    <2>1. e \in Scenes /\ no \in BOOLEAN
      BY <1>6 DEF Aimed
    <2> HIDE DEF no
    <2>2. Aimed(d, Slots(e, no), z, no)
      BY <1>6, <2>1, AimedSlots
    <2>3. Good(k, q4, f, Settled(Slots(e, no))) /\ (~f => Good(k, else, TRUE, Settled(e)))
      BY <1>3, <1>5, <1>6, <2>2
    <2>4. Good(k, Then(Step("switch", "none", no, else), q4), f, Settled(e))
      BY <1>2, <2>1, <2>3, SwitchesSources
    <2> QED
      BY <2>4 DEF no
  <1> HIDE DEF q3
  <1>7. ASSUME NEW e, NEW z, NEW t, Aimed(d, e, z, t)
        PROVE  Good(k, q2, f, Settled(e))
    <2>1. e \in Scenes
      BY <1>7 DEF Aimed
    <2>2. Aimed(d, Looking(e, state.lens), z, t)
      BY <1>7, AimedLooking
    <2>3. Good(k, q3, f, Settled(Looking(e, state.lens))) /\ (~f => Good(k, else, TRUE, Settled(e)))
      BY <1>3, <1>6, <1>7, <2>2
    <2> QED
      BY <1>2, <2>1, <2>3, SelectsLens
  <1> HIDE DEF q2
  <1>8. Good(k, q1, f, Settled(d))
    BY <1>2, <1>3, <1>7, SetsInverted
  <1> HIDE DEF q1
  <1> QED
    BY <1>1, <1>8

\* The scene of a pipeline just opened, its monitor not yet started.
Unwatched(d, g, c, u) ==
    d \in Scenes /\ True(d) /\ d.cfg = g /\ d.config = c /\ d.upside = u /\ d.on = FALSE /\ d.off = TRUE

LEMMA FreshIs ==
    ASSUME NEW g \in Configs, NEW c \in Configs, NEW u \in BOOLEAN
    PROVE  Unwatched(Fresh(g, c, u), g, c, u)
PROOF
  <1> DEFINE d == Fresh(g, c, u)
             lenses == [l \in Lenses |-> 1]
             upright == [i \in 1 .. Ports |-> FALSE]
             wide == <<"wide", 1>>
             no == FALSE
             yes == TRUE
             nothing == {}
  <1>1. Optical(1) = 1 /\ 1 \in Zooms /\ 1 \in Nat
    BY MediaAssumption DEF Optical, Tele
  <1>2. lenses \in [Lenses -> Nat] /\ upright \in [1 .. Ports -> BOOLEAN] /\ wide \in Views /\ "wide" \in Lenses
    BY DEF Views, Lenses
  <1>3. View("wide", 1, lenses) = wide
    BY DEF View, Lenses
  <1>4. \A p \in 1 .. Ports : upright[p] = no
    OBVIOUS
  <1>5. no \in BOOLEAN /\ yes \in BOOLEAN /\ nothing \subseteq Stills /\ nothing \subseteq {"view", "zoom", "flip"}
        /\ nothing = {}
    OBVIOUS
  <1>6. d = [optics |-> 1, crop |-> lenses, flip |-> upright, still |-> nothing,
             group |-> "wide", thermal |-> no, zoom |-> 1, hfov |-> wide, ratio |-> lenses,
             inverted |-> no, cfg |-> g, config |-> c, upside |-> u, stale |-> nothing, on |-> no, off |-> yes]
    BY DEF Fresh
  <1> HIDE DEF lenses, upright, wide, no, yes, nothing, d
  <1>7. d \in Scenes
    BY <1>1, <1>2, <1>5, <1>6 DEF Scenes
  <1>8. True(d)
    BY <1>1, <1>3, <1>4, <1>5, <1>6 DEF True
  <1>9. d.cfg = g /\ d.config = c /\ d.upside = u /\ d.on = no /\ d.off = yes
    BY <1>6
  <1> QED
    BY <1>7, <1>8, <1>9 DEF no, yes, d, Unwatched

\* What a command of the camera is to leave behind.
LEMMA Ends ==
    ASSUME NEW k, NEW f, NEW d \in Scenes, True(d), d.off = FALSE, d.cfg = d.config,
           k.cmd = "configure" => (f => d.config = k.config) /\ d.zoom = k.zoom /\ d.thermal = k.thermal
    PROVE  Good(k, <<>>, f, Settled(d))
PROOF
  <1>1. End(k, f, Settled(d))
    BY DEF End
  <1> QED
    BY <1>1, GoodEnd

\* The monitor started, the last thing a reopened pipeline gets.
LEMMA MonitorBack ==
    ASSUME NEW k, NEW p, NEW f, NEW d \in Scenes, IsProgram(p), Good(k, p, f, Settled(WithOff(d, FALSE)))
    PROVE  Good(k, Then(Do("start_monitor", "none", "none"), p), f, Settled(d))
PROOF
  <1> DEFINE x == Settled(d)
             no == FALSE
             e == WithOff(d, no)
             y == [x EXCEPT !.off = no]
  <1>1. x.impl.open = TRUE
    <2> DEFINE a == Attrs(d.thermal)
    <2> HIDE DEF a
    <2>1. x.impl = Structure(a, d)
      BY OwnWorld DEF a
    <2>2. Structure(a, d).open = TRUE
      BY DEF Structure
    <2> HIDE DEF x
    <2> QED
      BY <2>1, <2>2
  <1>2. x = [hw |-> x.hw, impl |-> x.impl, config |-> x.config, inverted |-> x.inverted,
             stale |-> x.stale, on |-> x.on, off |-> x.off]
    BY OwnWorld
  <1>3. no \in BOOLEAN
    OBVIOUS
  <1>4. Good(k, p, f, Settled(e))
    OBVIOUS
  <1> HIDE DEF no
  <1>5. y = Settled(e)
    <2> DEFINE b == Binds(d)
               a == Attrs(d.thermal)
    <2>1. x = Camera(b, a, Running, a, d)
      BY DEF Settled
    <2>2. /\ e.group = d.group /\ e.thermal = d.thermal /\ e.optics = d.optics /\ e.crop = d.crop /\ e.flip = d.flip
          /\ e.still = d.still /\ e.zoom = d.zoom /\ e.hfov = d.hfov /\ e.ratio = d.ratio /\ e.inverted = d.inverted
          /\ e.cfg = d.cfg /\ e.config = d.config /\ e.upside = d.upside /\ e.stale = d.stale /\ e.on = d.on /\ e.off = no
      BY <1>3, WithOffIs
    <2>3. Settled(e) = Camera(b, a, Running, a, e)
      <3> HIDE DEF e
      <3> QED
        BY <2>2, SettledIs
    <2> HIDE DEF a, b, e
    <2>4. Hardware(b, a, Running, e) = Hardware(b, a, Running, d) /\ Structure(a, e) = Structure(a, d)
      BY <2>2 DEF Hardware, Structure
    <2>5. x = [hw |-> Hardware(b, a, Running, d), impl |-> Structure(a, d), config |-> d.config, inverted |-> d.upside,
               stale |-> d.stale, on |-> d.on, off |-> d.off]
      BY <2>1 DEF Camera
    <2>6. Settled(e) = [hw |-> Hardware(b, a, Running, d), impl |-> Structure(a, d), config |-> d.config,
                        inverted |-> d.upside, stale |-> d.stale, on |-> d.on, off |-> no]
      BY <2>2, <2>3, <2>4 DEF Camera
    <2> HIDE DEF x
    <2> QED
      BY <2>5, <2>6
  <1>6. Good(k, p, f, [x EXCEPT !.off = FALSE])
    BY <1>4, <1>5 DEF no
  <1> HIDE DEF x
  <1>7. Good(k, Then(Do("start_monitor", "none", "none"), p), f, x)
    BY <1>1, <1>2, <1>6, StartsMonitor
  <1> QED
    BY <1>7 DEF x

\* The controls of the camera that runs, and the programs of ca_media_configure.
Kept == [lens |-> impl.group, zoom |-> impl.zoom, thermal |-> impl.thermal, gain |-> gain]
Reopening(state) ==
    Then(Do("close", "none", "none"), Then(Step("open", "none", config, <<>>),
    restore_controls(state, <<>>) \o One(Do("start_monitor", "none", "none"))))
Reconfiguring(c, state) ==
    Then(Do("stop_monitor", "none", "none"), Then(Do("close", "none", "none"),
    Then(Step("open", "none", c, Reopening(state)),
    restore_controls(state, Reopening(state)) \o Two(Do("start_monitor", "none", "none"), Note("config", c)))))

LEMMA ReopeningIs ==
    ASSUME NEW state
    PROVE  /\ <<Do("close", "none", "none"), Do("open", "none", config)>> \o restore_controls(state, <<>>)
              \o <<Do("start_monitor", "none", "none")>> = Reopening(state)
           /\ IsProgram(Reopening(state))
           /\ IsProgram(restore_controls(state, <<>>) \o One(Do("start_monitor", "none", "none")))
PROOF
  <1> DEFINE s1 == Do("close", "none", "none")
             s2 == Step("open", "none", config, <<>>)
             s3 == Do("start_monitor", "none", "none")
             w == restore_controls(state, <<>>)
             y == One(s3)
             x == Two(s1, s2)
             q == w \o y
             q2 == Then(s2, q)
             q1 == Then(s1, q2)
  <1>1. <<Do("close", "none", "none"), Do("open", "none", config)>> \o w \o <<Do("start_monitor", "none", "none")>>
          = (x \o w) \o y
    BY DEF One, Two, Do
  <1>2. IsProgram(w) /\ IsProgram(y) /\ IsProgram(x)
    <2>1. IsProgram(w)
      BY EmptyProgram, RestoringIs
    <2> QED
      BY <2>1, JustOne, WrittenTwo
  <1>3. Reopening(state) = q1
    BY DEF Reopening
  <1> HIDE DEF w, y, s1, s2, s3
  <1>4. IsProgram(q)
    BY <1>2, Joins
  <1>5. (x \o w) \o y = x \o q
    BY <1>2, Associates
  <1> HIDE DEF q
  <1>6. x \o q = q1
    BY <1>4, TwoJoins
  <1>7. IsProgram(q2)
    BY <1>4, FirstStep
  <1> HIDE DEF q2
  <1>8. IsProgram(q1)
    BY <1>7, FirstStep
  <1> HIDE DEF q1, x
  <1>9. (x \o w) \o y = q1
    BY <1>5, <1>6
  <1> QED
    BY <1>1, <1>3, <1>4, <1>8, <1>9 DEF q, w, y, s3

LEMMA ReconfiguringIs ==
    ASSUME NEW c, impl.open = TRUE, c # config
    PROVE  /\ configure(c) = Reconfiguring(c, Kept)
           /\ IsProgram(restore_controls(Kept, Reopening(Kept))
                        \o Two(Do("start_monitor", "none", "none"), Note("config", c)))
PROOF
  <1> DEFINE back == Reopening(Kept)
             s1 == Do("stop_monitor", "none", "none")
             s2 == Do("close", "none", "none")
             s3 == Step("open", "none", c, back)
             s4 == Do("start_monitor", "none", "none")
             s5 == Note("config", c)
             w == restore_controls(Kept, back)
             x == Three(s1, s2, s3)
             y == Two(s4, s5)
             q == w \o y
  <1>1. configure(c) = (x \o w) \o y
    <2> DEFINE written == <<Do("close", "none", "none"), Do("open", "none", config)>> \o restore_controls(Kept, <<>>)
                          \o <<Do("start_monitor", "none", "none")>>
    <2>1. written = back
      BY ReopeningIs
    <2>2. configure(c) =
            <<s1, s2, Step("open", "none", c, written)>> \o restore_controls(Kept, written) \o <<s4, s5>>
      BY DEF configure, Kept
    <2> HIDE DEF written, back
    <2> QED
      BY <2>1, <2>2 DEF Three, Two
  <1>2. IsProgram(w) /\ IsProgram(x) /\ IsProgram(y)
    <2>1. IsProgram(w)
      BY EmptyProgram, RestoringIs
    <2> QED
      BY <2>1, WrittenTwo, WrittenThree
  <1>3. Reconfiguring(c, Kept) = Then(s1, Then(s2, Then(s3, q)))
    BY DEF Reconfiguring
  <1> HIDE DEF w, s1, s2, s3, s4, s5, back
  <1>4. IsProgram(q)
    BY <1>2, Joins
  <1> HIDE DEF y
  <1>5. (x \o w) \o y = x \o q
    BY <1>2, Associates
  <1> HIDE DEF q
  <1>6. x \o q = Then(s1, Then(s2, Then(s3, q)))
    BY <1>4, ThreeJoins
  <1> HIDE DEF x
  <1>7. configure(c) = Reconfiguring(c, Kept)
    BY <1>1, <1>3, <1>5, <1>6, Zenon
  <1> QED
    BY <1>4, <1>7 DEF q, w, y, back, s4, s5

\* The roll-back, in which nothing more fails.
LEMMA Reopens ==
    ASSUME NEW k, NEW f, f, NEW x, x.off = TRUE, x.config = config, x.inverted = inverted,
           NEW state, state.lens \in Lenses, state.zoom \in Zooms, state.thermal \in BOOLEAN, state.gain = k.gain,
           config \in Configs, inverted \in BOOLEAN,
           k.config = config, k.zoom = state.zoom, k.thermal = state.thermal
    PROVE  Good(k, Reopening(state), f, x)
PROOF
  <1> DEFINE d == Fresh(config, config, inverted)
             m == Do("start_monitor", "none", "none")
             p == One(m)
             w == restore_controls(state, <<>>)
             q == w \o p
             q2 == Then(Step("open", "none", config, <<>>), q)
  <1>1. d \in Scenes /\ True(d) /\ d.cfg = config /\ d.config = config /\ d.upside = inverted /\ d.off = TRUE
    <2>1. Unwatched(d, config, config, inverted)
      BY FreshIs, Zenon
    <2> HIDE DEF d
    <2> QED
      BY <2>1 DEF Unwatched
  <1>2. IsProgram(p) /\ IsProgram(<<>>) /\ p = Then(m, <<>>) /\ IsProgram(q)
    BY JustOne, EmptyProgram, ReopeningIs
  <1>3. IsProgram(q2)
    <2> HIDE DEF q
    <2> QED
      BY <1>2, FirstStep
  <1> HIDE DEF d
  <1>4. ASSUME NEW e, Aimed(d, e, state.zoom, state.thermal)
        PROVE  Good(k, p, f, Settled(e))
    <2> DEFINE no == FALSE
               e2 == WithOff(e, no)
    <2>1. e \in Scenes /\ no \in BOOLEAN /\ no = FALSE
      BY <1>4 DEF Aimed
    <2> HIDE DEF no
    <2>2. /\ e2 \in Scenes /\ e2.thermal = e.thermal /\ e2.group = e.group /\ e2.hfov = e.hfov
          /\ e2.optics = e.optics /\ e2.crop = e.crop /\ e2.flip = e.flip /\ e2.still = e.still
          /\ e2.zoom = e.zoom /\ e2.ratio = e.ratio /\ e2.inverted = e.inverted /\ e2.cfg = e.cfg
          /\ e2.config = e.config /\ e2.upside = e.upside /\ e2.stale = e.stale /\ e2.on = e.on /\ e2.off = no
      BY <2>1, WithOffIs
    <2> HIDE DEF e2
    <2>3. True(e2)
      BY <1>4, <2>2 DEF Aimed, True
    <2>4. e2.cfg = e2.config /\ e2.config = k.config /\ e2.zoom = k.zoom /\ e2.thermal = k.thermal /\ e2.off = FALSE
      BY <1>1, <1>4, <2>1, <2>2 DEF Aimed
    <2>5. Good(k, <<>>, f, Settled(e2))
      BY <2>2, <2>3, <2>4, Ends
    <2>6. Good(k, <<>>, f, Settled(WithOff(e, FALSE)))
      BY <2>5 DEF e2, no
    <2>7. Good(k, Then(m, <<>>), f, Settled(e))
      BY <1>2, <2>1, <2>6, MonitorBack
    <2> HIDE DEF p
    <2> QED
      BY <1>2, <2>7
  <1> HIDE DEF p
  <1>5. Good(k, q, f, Settled(d))
    <2>1. ~f => \A e, z, t : Aimed(d, e, z, t) => Good(k, <<>>, TRUE, Settled(e))
      OBVIOUS
    <2> QED
      BY <1>1, <1>2, <1>4, <2>1, RestoresControls
  <1> HIDE DEF q
  <1>6. Good(k, q2, f, Shut(x.config, x.inverted, x.stale))
    <2>1. Good(k, q, f, Settled(Fresh(config, config, inverted)))
      BY <1>5 DEF d
    <2>2. Good(k, q2, f, Shut(config, inverted, x.stale))
      BY <1>2, <2>1, Opens
    <2> QED
      BY <2>2
  <1> HIDE DEF q2
  <1>7. Good(k, Then(Do("close", "none", "none"), q2), f, x)
    BY <1>3, <1>6, Closes
  <1> QED
    BY <1>7 DEF q2, q, p, w, m, Reopening

\* A new configuration, or the old one.
LEMMA Reconfigured ==
    ASSUME NEW k, NEW f, NEW c \in Configs, c # config, ~f, NEW d \in Scenes, True(d), d.off = FALSE,
           impl = Structure(Attrs(d.thermal), d), config = d.config, inverted = d.upside,
           k.config = config, k.zoom = d.zoom, k.thermal = d.thermal, k.gain = gain
    PROVE  Good(k, configure(c), f, Settled(d))
PROOF
  <1> DEFINE state == Kept
             back == Reopening(state)
             x == Settled(d)
             b == Fresh(c, config, inverted)
             m == Do("start_monitor", "none", "none")
             n == Note("config", c)
             p == Two(m, n)
             q == restore_controls(state, back) \o p
             q3 == Then(Step("open", "none", c, back), q)
             q2 == Then(Do("close", "none", "none"), q3)
             q1 == Then(Do("stop_monitor", "none", "none"), q2)
  <1>1. impl.open = TRUE /\ impl.group = d.group /\ impl.zoom = d.zoom /\ impl.thermal = d.thermal
    BY DEF Structure
  <1>2. state.lens \in Lenses /\ state.zoom \in Zooms /\ state.thermal \in BOOLEAN /\ state.gain = k.gain
        /\ k.zoom = state.zoom /\ k.thermal = state.thermal /\ config \in Configs /\ inverted \in BOOLEAN
    BY <1>1, SceneIs DEF Kept
  <1>3. b \in Scenes /\ True(b) /\ b.cfg = c /\ b.config = config /\ b.upside = inverted /\ b.off = TRUE
    <2>1. Unwatched(b, c, config, inverted)
      BY <1>2, FreshIs, Zenon
    <2> HIDE DEF b
    <2> QED
      BY <2>1 DEF Unwatched
  <1>4. configure(c) = q1 /\ IsProgram(q)
    BY <1>1, ReconfiguringIs DEF Reconfiguring
  <1>5. IsProgram(p) /\ p = Then(m, One(n)) /\ One(n) = Then(n, <<>>) /\ IsProgram(One(n)) /\ IsProgram(back)
        /\ IsProgram(<<>>)
    BY WrittenTwo, JustOne, ReopeningIs, EmptyProgram
  <1> HIDE DEF state
  <1>6. \A y : y.off = TRUE /\ y.config = config /\ y.inverted = inverted => Good(k, back, TRUE, y)
    <2> DEFINE yes == TRUE
    <2>1. yes
      OBVIOUS
    <2> HIDE DEF yes
    <2>2. \A y : y.off = TRUE /\ y.config = config /\ y.inverted = inverted => Good(k, back, yes, y)
      BY <1>2, <2>1, Reopens
    <2> QED
      BY <2>2 DEF yes
  <1> HIDE DEF back, b
  <1>7. ASSUME NEW e, Aimed(b, e, state.zoom, state.thermal)
        PROVE  Good(k, p, f, Settled(e))
    <2> DEFINE no == FALSE
               e2 == WithOff(e, no)
               e3 == WithConfig(e2, c)
    <2>1. e \in Scenes /\ no \in BOOLEAN /\ no = FALSE
      BY <1>7 DEF Aimed
    <2> HIDE DEF no
    <2>2. /\ e2 \in Scenes /\ e2.thermal = e.thermal /\ e2.group = e.group /\ e2.hfov = e.hfov
          /\ e2.optics = e.optics /\ e2.crop = e.crop /\ e2.flip = e.flip /\ e2.still = e.still
          /\ e2.zoom = e.zoom /\ e2.ratio = e.ratio /\ e2.inverted = e.inverted /\ e2.cfg = e.cfg
          /\ e2.config = e.config /\ e2.upside = e.upside /\ e2.stale = e.stale /\ e2.on = e.on /\ e2.off = no
      BY <2>1, WithOffIs
    <2> HIDE DEF e2
    <2>3. /\ e3 \in Scenes /\ e3.thermal = e2.thermal /\ e3.group = e2.group /\ e3.hfov = e2.hfov
          /\ e3.optics = e2.optics /\ e3.crop = e2.crop /\ e3.flip = e2.flip /\ e3.still = e2.still
          /\ e3.zoom = e2.zoom /\ e3.ratio = e2.ratio /\ e3.inverted = e2.inverted /\ e3.cfg = e2.cfg
          /\ e3.config = c /\ e3.upside = e2.upside /\ e3.stale = e2.stale /\ e3.on = e2.on /\ e3.off = e2.off
      BY <2>2, WithConfigIs
    <2> HIDE DEF e3
    <2>4. True(e3)
      BY <1>7, <2>2, <2>3 DEF Aimed, True
    <2>5. e3.cfg = e3.config /\ e3.zoom = k.zoom /\ e3.thermal = k.thermal /\ e3.off = FALSE
      BY <1>2, <1>3, <1>7, <2>1, <2>2, <2>3 DEF Aimed
    <2>6. Good(k, <<>>, f, Settled(WithConfig(e2, c)))
      <3>1. Good(k, <<>>, f, Settled(e3))
        BY <2>3, <2>4, <2>5, Ends
      <3> QED
        BY <3>1 DEF e3
    <2>7. Good(k, Then(Note("config", c), <<>>), f, Settled(e2))
      BY <1>5, <2>2, <2>6, CameraConfig
    <2>8. Good(k, One(n), f, Settled(WithOff(e, FALSE)))
      BY <1>5, <2>7 DEF e2, no
    <2> HIDE DEF n
    <2>9. Good(k, Then(m, One(n)), f, Settled(e))
      BY <1>5, <2>1, <2>8, MonitorBack
    <2> HIDE DEF p
    <2> QED
      BY <1>5, <2>9
  <1> HIDE DEF p
  <1>8. Good(k, q, f, Settled(b))
    <2>1. \A e, z, t : Aimed(b, e, z, t) => Good(k, back, TRUE, Settled(e))
      <3> SUFFICES ASSUME NEW e, NEW z, NEW t, Aimed(b, e, z, t) PROVE Good(k, back, TRUE, Settled(e))
        OBVIOUS
      <3> DEFINE y == Settled(e)
      <3>1. y.off = TRUE /\ y.config = config /\ y.inverted = inverted
        BY <1>3, OwnWorld DEF Aimed
      <3> HIDE DEF y
      <3>2. Good(k, back, TRUE, y)
        BY <1>6, <3>1
      <3> QED
        BY <3>2 DEF y
    <2> QED
      BY <1>2, <1>3, <1>5, <1>7, <2>1, RestoresControls
  <1> HIDE DEF q
  <1>9. Good(k, q3, f, Shut(config, inverted, d.stale)) /\ IsProgram(q3)
    <2> DEFINE y == Shut(config, inverted, d.stale)
    <2>1. y.off = TRUE /\ y.config = config /\ y.inverted = inverted
      BY DEF Shut
    <2>2. Good(k, q, f, Settled(Fresh(c, config, inverted)))
      BY <1>8 DEF b
    <2>3. Good(k, back, TRUE, y)
      <3> HIDE DEF y
      <3> QED
        BY <1>6, <2>1
    <2>4. Good(k, q3, f, y)
      BY <1>4, <2>2, <2>3, Opens
    <2>5. IsProgram(q3)
      BY <1>4, FirstStep
    <2> QED
      BY <2>4, <2>5
  <1> HIDE DEF q3
  <1>10. Good(k, q2, f, [x EXCEPT !.off = TRUE]) /\ IsProgram(q2)
    <2> DEFINE y == [x EXCEPT !.off = TRUE]
    <2>1. x = [hw |-> x.hw, impl |-> x.impl, config |-> x.config, inverted |-> x.inverted,
               stale |-> x.stale, on |-> x.on, off |-> x.off]
          /\ x.config = config /\ x.inverted = inverted /\ x.stale = d.stale
      BY OwnWorld
    <2> HIDE DEF x
    <2>2. y.off = TRUE /\ y.config = config /\ y.inverted = inverted /\ y.stale = d.stale
      BY <2>1
    <2> HIDE DEF y
    <2>3. Good(k, q2, f, y)
      BY <1>9, <2>2, Closes
    <2>4. IsProgram(q2)
      BY <1>9, FirstStep
    <2> QED
      BY <2>3, <2>4 DEF y
  <1> HIDE DEF q2
  <1>11. Good(k, q1, f, x)
    <2>1. x = [hw |-> x.hw, impl |-> x.impl, config |-> x.config, inverted |-> x.inverted,
               stale |-> x.stale, on |-> x.on, off |-> x.off]
      BY OwnWorld
    <2> HIDE DEF x
    <2> QED
      BY <1>10, <2>1, StopsMonitor
  <1> QED
    BY <1>4, <1>11

-----------------------------------------------------------------------------
(* The commands. *)

LEMMA EndsAimed ==
    ASSUME NEW k, NEW d \in Scenes, d.off = FALSE, d.cfg = d.config, k.cmd # "configure",
           NEW e, NEW z, NEW t, NEW g, Aimed(d, e, z, t)
    PROVE  Good(k, <<>>, g, Settled(e)) /\ e \in Scenes
PROOF
  <1>1. e \in Scenes /\ True(e) /\ e.off = FALSE /\ e.cfg = e.config
    BY DEF Aimed
  <1> QED
    BY <1>1, Ends

LEMMA DoesZoom ==
    ASSUME NEW k, NEW f, NEW d \in Scenes, True(d), d.off = FALSE, d.cfg = d.config, k.cmd # "configure", NEW z \in Zooms
    PROVE  Good(k, One(Do("set_zoom", "none", z)), f, Settled(d))
PROOF
  <1> DEFINE no == FALSE
  <1>1. \A e : Aimed(d, e, z, no) => Good(k, <<>>, f, Settled(e))
    BY EndsAimed
  <1>2. \A e : Aimed(d, e, d.zoom, d.thermal) => Good(k, <<>>, TRUE, Settled(e))
    BY EndsAimed
  <1>3. Good(k, Then(Step("set_zoom", "none", z, <<>>), <<>>), f, Settled(d))
    BY <1>1, <1>2, EmptyProgram, SetsZoom
  <1> QED
    BY <1>3, JustOne DEF Do

LEMMA DoesLens ==
    ASSUME NEW k, NEW f, NEW d \in Scenes, True(d), d.off = FALSE, d.cfg = d.config, k.cmd # "configure", NEW l \in Lenses
    PROVE  Good(k, Two(Do("select_lens", "none", l), Do("switch", "none", FALSE)), f, Settled(d))
PROOF
  <1> DEFINE no == FALSE
             s1 == Do("select_lens", "none", l)
             s2 == Do("switch", "none", no)
             e == Looking(d, l)
             e2 == Slots(e, no)
  <1>0. no \in BOOLEAN /\ Aimed(d, d, d.zoom, d.thermal)
    BY DEF Aimed
  <1> HIDE DEF no
  <1>1. Aimed(d, e, d.zoom, d.thermal)
    BY <1>0, AimedLooking
  <1>2. Aimed(d, e2, d.zoom, no)
    <2> HIDE DEF e
    <2> QED
      BY <1>0, <1>1, AimedSlots
  <1>3. e \in Scenes /\ Good(k, <<>>, TRUE, Settled(d)) /\ Good(k, <<>>, TRUE, Settled(e)) /\ Good(k, <<>>, f, Settled(e2))
    <2>1. e \in Scenes
      BY <1>1 DEF Aimed
    <2> HIDE DEF e, e2
    <2> QED
      BY <1>0, <1>1, <1>2, <2>1, EndsAimed
  <1>4. Good(k, One(s2), f, Settled(e))
    <2>1. Good(k, <<>>, f, Settled(Slots(e, no)))
      BY <1>3 DEF e2
    <2> HIDE DEF e
    <2>2. Good(k, Then(Step("switch", "none", no, <<>>), <<>>), f, Settled(e))
      BY <1>0, <1>3, <2>1, EmptyProgram, SwitchesSources
    <2> QED
      BY <2>2, JustOne DEF Do
  <1>5. Good(k, Then(Step("select_lens", "none", l, <<>>), One(s2)), f, Settled(d))
    <2> DEFINE p == One(s2)
    <2>1. IsProgram(p)
      BY JustOne
    <2>2. Good(k, p, f, Settled(Looking(d, l)))
      BY <1>4 DEF e
    <2> HIDE DEF p
    <2>3. Good(k, Then(Step("select_lens", "none", l, <<>>), p), f, Settled(d))
      BY <1>3, <2>1, <2>2, EmptyProgram, SelectsLens
    <2> QED
      BY <2>3 DEF p
  <1> QED
    BY <1>5, WrittenTwo DEF s1, s2, no, Do

LEMMA DoesSlots ==
    ASSUME NEW k, NEW f, NEW d \in Scenes, True(d), d.off = FALSE, d.cfg = d.config, k.cmd # "configure", NEW t \in BOOLEAN
    PROVE  Good(k, (IF t THEN One(Do("select_lens", "none", "zoom")) ELSE <<>>) \o One(Do("switch", "none", t)),
                f, Settled(d))
PROOF
  <1> DEFINE s1 == Do("select_lens", "none", "zoom")
             s2 == Do("switch", "none", t)
             p == One(s2)
  <1>0. Aimed(d, d, d.zoom, d.thermal) /\ IsProgram(p) /\ "zoom" \in Lenses
    BY JustOne DEF Aimed, Lenses
  <1>1. ASSUME NEW e, Aimed(d, e, d.zoom, d.thermal)
        PROVE  Good(k, p, f, Settled(e))
    <2> DEFINE e2 == Slots(e, t)
    <2>1. Aimed(d, e2, d.zoom, t)
      BY <1>1, AimedSlots
    <2>2. Good(k, <<>>, TRUE, Settled(e)) /\ Good(k, <<>>, f, Settled(e2)) /\ e \in Scenes
      <3> HIDE DEF e2
      <3> QED
        BY <1>1, <2>1, EndsAimed
    <2>3. Good(k, Then(Step("switch", "none", t, <<>>), <<>>), f, Settled(e))
      BY <2>2, EmptyProgram, SwitchesSources
    <2> QED
      BY <2>3, JustOne DEF Do
  <1> HIDE DEF p
  <1>2. Good(k, Then(Step("select_lens", "none", "zoom", <<>>), p), f, Settled(d))
    <2>1. Good(k, p, f, Settled(Looking(d, "zoom")))
      <3> DEFINE e == Looking(d, "zoom")
      <3>1. Aimed(d, e, d.zoom, d.thermal)
        BY <1>0, AimedLooking
      <3> HIDE DEF e
      <3>2. Good(k, p, f, Settled(e))
        BY <1>1, <3>1
      <3> QED
        BY <3>2 DEF e
    <2>2. Good(k, <<>>, TRUE, Settled(d))
      BY <1>0, EndsAimed
    <2> QED
      BY <1>0, <2>1, <2>2, EmptyProgram, SelectsLens
  <1>3. One(s1) \o p = Then(s1, p) /\ <<>> \o p = p
    <2> HIDE DEF s1
    <2> QED
      BY <1>0, OneJoins, NothingFirst
  <1>4. Good(k, Then(s1, p), f, Settled(d)) /\ Good(k, p, f, Settled(d))
    BY <1>0, <1>1, <1>2 DEF Do
  <1> HIDE DEF s1
  <1>5. Good(k, (IF t THEN One(s1) ELSE <<>>) \o p, f, Settled(d))
    <2>1. CASE t
      BY <1>3, <1>4, <2>1
    <2>2. CASE ~t
      BY <1>3, <1>4, <2>2
    <2> QED
      BY <2>1, <2>2
  <1> QED
    BY <1>5 DEF s1, p

LEMMA DoesInvert ==
    ASSUME NEW k, NEW f, NEW d \in Scenes, True(d), d.off = FALSE, d.cfg = d.config, k.cmd # "configure", NEW b \in BOOLEAN
    PROVE  Good(k, Two(Do("set_inverted", "none", b), Note("media_inverted", b)), f, Settled(d))
PROOF
  <1> DEFINE s1 == Do("set_inverted", "none", b)
             s2 == Note("media_inverted", b)
             p == One(s2)
  <1>0. IsProgram(p) /\ p = Then(s2, <<>>)
    BY JustOne
  <1>1. ASSUME NEW e, Aimed(d, e, d.zoom, d.thermal)
        PROVE  Good(k, p, f, Settled(e))
    <2> DEFINE e2 == WithUpside(e, b)
    <2>1. e \in Scenes /\ True(e) /\ e.off = FALSE /\ e.cfg = e.config
      BY <1>1 DEF Aimed
    <2>2. /\ e2 \in Scenes /\ e2.thermal = e.thermal /\ e2.group = e.group /\ e2.hfov = e.hfov
          /\ e2.optics = e.optics /\ e2.crop = e.crop /\ e2.flip = e.flip /\ e2.still = e.still
          /\ e2.zoom = e.zoom /\ e2.ratio = e.ratio /\ e2.inverted = e.inverted /\ e2.cfg = e.cfg
          /\ e2.config = e.config /\ e2.stale = e.stale /\ e2.on = e.on /\ e2.off = e.off
      BY <2>1, WithUpsideIs
    <2> HIDE DEF e2
    <2>3. True(e2)
      BY <2>1, <2>2 DEF True
    <2>4. Good(k, <<>>, f, Settled(e2))
      BY <2>1, <2>2, <2>3, Ends
    <2>5. Good(k, <<>>, f, Settled(WithUpside(e, b)))
      BY <2>4 DEF e2
    <2>6. Good(k, Then(Note("media_inverted", b), <<>>), f, Settled(e))
      BY <2>1, <2>5, EmptyProgram, CameraUpside
    <2> HIDE DEF p
    <2> QED
      BY <1>0, <2>6
  <1>2. \A e : Aimed(d, e, d.zoom, d.thermal) => Good(k, <<>>, TRUE, Settled(e))
    BY EndsAimed
  <1> HIDE DEF p
  <1>3. Good(k, Then(Step("set_inverted", "none", b, <<>>), p), f, Settled(d))
    BY <1>0, <1>1, <1>2, EmptyProgram, SetsInverted
  <1> QED
    BY <1>3, WrittenTwo DEF p, Do

LEMMA DoesPhoto ==
    ASSUME NEW k, NEW f, NEW d \in Scenes, True(d), d.off = FALSE, d.cfg = d.config, k.cmd # "configure", NEW n \in {0, 2}
    PROVE  Good(k, One(Do("photo", "none", n)), f, Settled(d))
PROOF
  <1>1. \A g : End(k, g, Settled(d))
    BY DEF End
  <1> QED
    BY <1>1, TakesPhotos

\* The image parameters applied, or applied again, change nothing that is modelled.
LEMMA Reapplied ==
    ASSUME NEW k, NEW f, NEW d \in Scenes, True(d), d.off = FALSE, d.cfg = d.config,
           k.config = d.config, k.zoom = d.zoom, k.thermal = d.thermal
    PROVE  Good(k, One(Step("try", "apply_image", "none", One(Do("try", "apply_image", "none")))), f, Settled(d))
PROOF
  <1>1. \A g : Good(k, <<>>, g, Settled(d))
    BY Ends
  <1>2. Good(k, Then(Step("try", "apply_image", "none", <<>>), <<>>), TRUE, Settled(d))
    BY <1>1, EmptyProgram, CameraTries
  <1> DEFINE again == One(Do("try", "apply_image", "none"))
  <1>3. Good(k, again, TRUE, Settled(d))
    BY <1>2, JustOne DEF Do
  <1> HIDE DEF again
  <1>4. Good(k, Then(Step("try", "apply_image", "none", again), <<>>), f, Settled(d))
    BY <1>1, <1>3, EmptyProgram, CameraTries
  <1> QED
    BY <1>4, JustOne DEF again

-----------------------------------------------------------------------------
(* The invariant: the command that runs ends well from where it is. *)

MainOK ==
    /\ mediaMain = [cmd |-> mediaMain.cmd, todo |-> mediaMain.todo, ok |-> mediaMain.ok, fault |-> mediaMain.fault]
    /\ mediaMain.fault \in BOOLEAN /\ mediaMain.ok = ~mediaMain.fault
ProgramOK == Good(Began, mediaMain.todo, mediaMain.fault, World)
\* A gain command moves nothing that a program can see.
Unmoved == mediaMain.cmd = "gain" /\ ~Idle => Head1.on # "moved"

LEMMA WorldIs ==
    /\ World.hw = hw /\ World.impl = impl /\ World.config = config /\ World.inverted = inverted
    /\ World.stale = stale \ {"gain"} /\ World.on = rec.on /\ World.off = (monitor.pc = "none")
  BY DEF World

LEMMA GoodFault ==
    ASSUME NEW k, NEW p, NEW f, NEW x, Good(k, p, f, x), p # <<>>, Head(p).op \notin Macros, Head(p).op \in Fallible,
           f = FALSE
    PROVE  Good(k, Head(p).else, TRUE, Failed(Head(p), x))
PROOF
  <1>1. PICK S : <<p, f, x>> \in S /\ Leads(k, S)
    BY Zenon DEF Good
  <1>2. Goes(k, S, p, f, x)
    BY <1>1, Zenon DEF Leads
  <1>3. <<Head(p).else, TRUE, Failed(Head(p), x)>> \in S
    BY <1>2, Zenon DEF Goes
  <1> QED
    BY <1>1, <1>3, Zenon DEF Good

LEMMA GoodAhead ==
    ASSUME NEW k, NEW p, NEW f, NEW x, Good(k, p, f, x), p # <<>>, NEW s, s = Head(p)
    PROVE  /\ Timely(k, s, x)
           /\ s.op \in Macros => Good(k, Expansion(x.impl, s) \o Tail(p), f, x)
           /\ s.op \notin Macros => Good(k, Tail(p), f, After(s, x))
  BY GoodIs

LEMMA HeadGood ==
    ASSUME MainOK, ProgramOK, ~Idle
    PROVE  /\ mediaMain.todo # <<>> /\ Timely(Began, Head1, World)
           /\ Head1.op \in Macros => Good(Began, Expansion(impl, Head1) \o Tail(mediaMain.todo), mediaMain.fault, World)
           /\ Head1.op \notin Macros => Good(Began, Tail(mediaMain.todo), mediaMain.fault, After(Head1, World))
           /\ Head1.op \notin Macros /\ Head1.op \in Fallible /\ ~mediaMain.fault =>
                 Good(Began, Head1.else, TRUE, Failed(Head1, World))
PROOF
  <1> DEFINE k == Began
             p == mediaMain.todo
             f == mediaMain.fault
             x == World
             s == Head1
             e == Expansion(impl, s)
             a == After(s, x)
             b == Failed(s, x)
  <1>1. p # <<>> /\ s = Head(p) /\ x.impl = impl
    BY WorldIs DEF Idle, Head1
  <1>2. Good(k, p, f, x)
    BY DEF ProgramOK
  <1>3. s.op \notin Macros /\ s.op \in Fallible /\ ~f => Good(k, s.else, TRUE, b)
    <2> SUFFICES ASSUME s.op \notin Macros, s.op \in Fallible, ~f
                 PROVE  Good(k, s.else, TRUE, b)
      OBVIOUS
    <2>1. Head1 = Head(mediaMain.todo) /\ f = FALSE
      BY DEF Head1, MainOK
    <2> HIDE DEF k, x, p, f
    <2>2. Head(p).op \notin Macros /\ Head(p).op \in Fallible
      BY <2>1 DEF p
    <2>3. Good(k, Head(p).else, TRUE, Failed(Head(p), x))
      BY <1>1, <1>2, <2>1, <2>2, GoodFault
    <2> QED
      BY <1>1, <2>3, Zenon
  <1> HIDE DEF k, p, f, x, s
  <1>4. /\ Timely(k, s, x)
        /\ s.op \in Macros => Good(k, Expansion(x.impl, s) \o Tail(p), f, x)
        /\ s.op \notin Macros => Good(k, Tail(p), f, a)
    BY <1>1, <1>2, GoodAhead
  <1>5. Expansion(x.impl, s) = e
    BY <1>1
  <1>6. /\ p # <<>> /\ Timely(k, s, x)
        /\ s.op \in Macros => Good(k, e \o Tail(p), f, x)
        /\ s.op \notin Macros => Good(k, Tail(p), f, a)
    BY <1>1, <1>4, <1>5
  <1> QED
    BY <1>3, <1>6 DEF k, p, f, x, s, e, a, b

\* A step done leads to what follows it.
LEMMA MainSteps ==
    ASSUME MainOK, mediaMain' = Rest, UNCHANGED before
    PROVE  /\ MainOK' /\ Began' = Began /\ mediaMain'.todo = Tail(mediaMain.todo) /\ mediaMain'.fault = mediaMain.fault
           /\ mediaMain'.cmd = mediaMain.cmd
PROOF
  <1>1. /\ mediaMain'.todo = Tail(mediaMain.todo) /\ mediaMain'.fault = mediaMain.fault
        /\ mediaMain'.cmd = mediaMain.cmd /\ mediaMain'.ok = mediaMain.ok
        /\ mediaMain' = [cmd |-> mediaMain'.cmd, todo |-> mediaMain'.todo, ok |-> mediaMain'.ok, fault |-> mediaMain'.fault]
    BY DEF MainOK, Rest
  <1>2. MainOK'
    BY <1>1 DEF MainOK
  <1>3. Began' = Began
    BY <1>1 DEF Began
  <1> QED
    BY <1>1, <1>2, <1>3

LEMMA ProgramExpands ==
    ASSUME MainOK, ProgramOK, Expand
    PROVE  MainOK' /\ ProgramOK'
PROOF
  <1> DEFINE q == Expansion(impl, Head1) \o Tail(mediaMain.todo)
  <1>1. Good(Began, q, mediaMain.fault, World)
    BY HeadGood DEF Expand
  <1>2. World' = World
    BY DEF Expand, World
  <1>3. mediaMain' = [mediaMain EXCEPT !.todo = q] /\ before' = before
    BY DEF Expand
  <1> HIDE DEF q
  <1>4. /\ mediaMain'.todo = q /\ mediaMain'.fault = mediaMain.fault
        /\ mediaMain'.cmd = mediaMain.cmd /\ mediaMain'.ok = mediaMain.ok
        /\ mediaMain' = [cmd |-> mediaMain'.cmd, todo |-> mediaMain'.todo, ok |-> mediaMain'.ok, fault |-> mediaMain'.fault]
    BY <1>3 DEF MainOK
  <1>5. MainOK'
    BY <1>4 DEF MainOK
  <1>6. Began' = Began
    BY <1>3, <1>4 DEF Began
  <1> QED
    BY <1>1, <1>2, <1>4, <1>5, <1>6 DEF ProgramOK

LEMMA ProgramCalls ==
    ASSUME MainOK, ProgramOK, Call
    PROVE  MainOK' /\ ProgramOK' /\ World' = After(Head1, World)
PROOF
  <1> DEFINE s == Head1
             x == World
  <1>1. ~Idle /\ s.op \in Fallible \cup {"drop", "close"}
    BY DEF Call
  <1>2. s.op \notin Macros /\ s.op \notin Notes /\ s.op # "stop_monitor" /\ s.op # "start_monitor"
    BY <1>1 DEF Fallible, Macros, Notes
  <1>3. Good(Began, Tail(mediaMain.todo), mediaMain.fault, After(s, x))
    BY <1>1, <1>2, HeadGood
  <1>4. World' = After(s, x)
    <2>1. /\ hw' = Effect(hw, s) /\ config' = config /\ inverted' = inverted
          /\ impl' = (CASE s.op = "open" -> Opened(s.to) [] s.op = "close" -> Closed [] OTHER -> impl)
          /\ stale' = (IF s.op = "open" THEN {} ELSE stale) /\ rec' = (IF s.op = "close" THEN NoFiles ELSE rec)
          /\ monitor' = monitor
      BY <1>1 DEF Call, MediaAt
    <2>2. x.hw = hw /\ x.impl = impl /\ x.config = config /\ x.inverted = inverted
          /\ x.stale = stale \ {"gain"} /\ x.on = rec.on /\ x.off = (monitor.pc = "none")
      BY WorldIs
    <2> HIDE DEF s, x
    <2>3. AfterImpl(s, x) = impl'
      <3>1. CASE s.op = "open"
        <4>1. AfterImpl(s, x) = Opened(s.to) /\ impl' = Opened(s.to)
          BY <2>1, <3>1, Zenon DEF AfterImpl
        <4> QED
          BY <4>1
      <3>2. CASE s.op # "open"
        BY <1>2, <2>1, <2>2, <3>2 DEF AfterImpl, Notes
      <3> QED
        BY <3>1, <3>2
    <2>4. ~Noted(s, "stale") /\ ~Noted(s, "settled") /\ ~Noted(s, "moved") /\ ~Noted(s, "config") /\ ~Noted(s, "media_inverted")
      BY <1>2 DEF Noted
    <2>5. AfterStale(s, x) = stale' \ {"gain"}
      BY <2>1, <2>2, <2>4 DEF AfterStale
    <2>6. rec'.on = (IF s.op = "close" THEN FALSE ELSE x.on)
      BY <2>1, <2>2 DEF NoFiles
    <2>7. After(s, x) = [hw |-> hw', impl |-> impl', config |-> config', inverted |-> inverted',
                         stale |-> stale' \ {"gain"}, on |-> rec'.on, off |-> (monitor.pc = "none")]
      <3> DEFINE w == monitor.pc = "none"
      <3> HIDE DEF w
      <3>1. x.off = w
        BY <2>2 DEF w
      <3>2. After(s, x) = [hw |-> hw', impl |-> impl', config |-> config', inverted |-> inverted',
                         stale |-> stale' \ {"gain"}, on |-> rec'.on, off |-> w]
        BY <1>2, <2>1, <2>2, <2>3, <2>4, <2>5, <2>6, <3>1 DEF After
      <3> QED
        BY <3>2 DEF w
    <2> QED
      BY <2>1, <2>7 DEF World
  <1>5. mediaMain' = Rest /\ before' = before
    BY DEF Call
  <1>6. MainOK' /\ Began' = Began /\ mediaMain'.todo = Tail(mediaMain.todo) /\ mediaMain'.fault = mediaMain.fault
    BY <1>5, MainSteps
  <1> HIDE DEF s, x
  <1>7. ProgramOK'
    BY <1>3, <1>4, <1>6 DEF ProgramOK
  <1> QED
    BY <1>4, <1>6, <1>7 DEF s, x

LEMMA ProgramFails ==
    ASSUME MainOK, ProgramOK, CallFails
    PROVE  MainOK' /\ ProgramOK' /\ Began' = Began
PROOF
  <1> DEFINE s == Head1
             x == World
  <1>1. ~Idle /\ s.op \in Fallible /\ ~mediaMain.fault
    BY DEF CallFails
  <1>2. s.op \notin Macros
    BY <1>1 DEF Fallible, Macros
  <1>3. Good(Began, s.else, TRUE, Failed(s, x))
    BY <1>1, <1>2, HeadGood
  <1>4. World' = Failed(s, x)
    <2>1. /\ hw' = (IF s.op = "optics" THEN [hw EXCEPT !.optics = 0] ELSE hw) /\ config' = config /\ inverted' = inverted
          /\ impl' = (IF s.op = "open" THEN Closed ELSE impl) /\ stale' = stale /\ rec' = rec /\ monitor' = monitor
      BY <1>1 DEF CallFails, MediaAt
    <2>2. x.hw = hw /\ x.impl = impl /\ x.config = config /\ x.inverted = inverted
          /\ x.stale = stale \ {"gain"} /\ x.on = rec.on /\ x.off = (monitor.pc = "none")
      BY WorldIs
    <2> HIDE DEF s, x
    <2>3. Failed(s, x) = [hw |-> hw', impl |-> impl', config |-> config, inverted |-> inverted,
                          stale |-> stale \ {"gain"}, on |-> rec.on, off |-> (monitor.pc = "none")]
      BY <2>1, <2>2 DEF Failed
    <2> QED
      BY <2>1, <2>3 DEF World
  <1>5. mediaMain' = [mediaMain EXCEPT !.todo = s.else, !.ok = FALSE, !.fault = TRUE] /\ before' = before
    BY DEF CallFails
  <1> DEFINE no == FALSE
             yes == TRUE
             q == s.else
  <1>6. mediaMain' = [mediaMain EXCEPT !.todo = q, !.ok = no, !.fault = yes]
    BY <1>5
  <1>7. yes \in BOOLEAN /\ no = ~yes /\ Good(Began, q, yes, Failed(s, x))
    BY <1>3
  <1> HIDE DEF no, yes, q, s, x
  <1>8. mediaMain' = [cmd |-> mediaMain.cmd, todo |-> q, ok |-> no, fault |-> yes]
    <2> DEFINE m == mediaMain
               n == [m EXCEPT !.todo = q, !.ok = no, !.fault = yes]
    <2>1. m = [cmd |-> m.cmd, todo |-> m.todo, ok |-> m.ok, fault |-> m.fault]
      BY DEF MainOK
    <2> HIDE DEF m
    <2>2. DOMAIN n = {"cmd", "todo", "ok", "fault"}
      BY <2>1
    <2>3. n.cmd = m.cmd /\ n.todo = q /\ n.ok = no /\ n.fault = yes
      BY <2>1
    <2>4. n = [j \in DOMAIN n |-> n[j]]
      OBVIOUS
    <2> HIDE DEF n
    <2>5. n = [cmd |-> m.cmd, todo |-> q, ok |-> no, fault |-> yes]
      BY <2>2, <2>3, <2>4
    <2> QED
      BY <1>6, <2>5 DEF m, n
  <1>9. MainOK'
    BY <1>7, <1>8 DEF MainOK
  <1>10. Began' = Began
    BY <1>5, <1>8 DEF Began
  <1>11. mediaMain'.todo = q /\ mediaMain'.fault = yes
    BY <1>8
  <1>12. ProgramOK'
    BY <1>4, <1>7, <1>10, <1>11 DEF ProgramOK
  <1> QED
    BY <1>9, <1>10, <1>12

LEMMA ProgramNotes ==
    ASSUME MainOK, ProgramOK, Unmoved, NoteStep
    PROVE  MainOK' /\ ProgramOK' /\ Began' = Began
PROOF
  <1> DEFINE s == Head1
             x == World
  <1>1. ~Idle /\ s.op \in Notes
    BY DEF NoteStep, Notes
  <1>2. s.op \notin Macros /\ s.op # "stop_monitor" /\ s.op # "start_monitor" /\ s.op # "open" /\ s.op # "close"
    BY <1>1 DEF Macros, Notes
  <1>3. Good(Began, Tail(mediaMain.todo), mediaMain.fault, After(s, x)) /\ Timely(Began, s, x)
    BY <1>1, <1>2, HeadGood
  <1>4. World' = After(s, x)
    <2>1. /\ hw' = hw
          /\ impl' = (CASE s.op = "noteattr" -> [impl EXCEPT !.attr[s.on] = s.to]
                        [] s.op = "noteratio" -> [impl EXCEPT !.ratio[s.on] = s.to]
                        [] s.op = "note" /\ s.on = "hfov" -> [impl EXCEPT !.hfov = View(s.to, hw.optics, impl.ratio)]
                        [] s.op = "note" /\ s.on \in {"group", "thermal", "zoom", "inverted"} -> [impl EXCEPT ![s.on] = s.to]
                        [] OTHER -> impl)
          /\ rec' = rec /\ monitor' = monitor
          /\ config' = (IF s.on = "config" THEN s.to ELSE config)
          /\ inverted' = (IF s.on = "media_inverted" THEN s.to ELSE inverted)
      BY DEF NoteStep
    <2>2. stale' = (CASE s.on = "stale" -> stale \cup {s.to} [] s.on = "settled" -> stale \ {s.to}
                      [] s.on = "moved" /\ "zoom" \in stale -> stale \cup {s.to} [] OTHER -> stale)
      BY DEF NoteStep
    <2>3. x.hw = hw /\ x.impl = impl /\ x.config = config /\ x.inverted = inverted
          /\ x.stale = stale \ {"gain"} /\ x.on = rec.on /\ x.off = (monitor.pc = "none")
      BY WorldIs
    <2>4. s.on = "moved" => s.to # "gain"
      BY <1>1, <1>3 DEF Timely, Unsettles, Unmoved, Began
    <2> HIDE DEF s, x
    <2>5. AfterImpl(s, x) = impl'
      <3>1. AfterImpl(s, x) =
               (CASE s.op = "noteattr" -> [x.impl EXCEPT !.attr[s.on] = s.to]
                  [] s.op = "noteratio" -> [x.impl EXCEPT !.ratio[s.on] = s.to]
                  [] s.op = "note" /\ s.on = "hfov" -> [x.impl EXCEPT !.hfov = View(s.to, x.hw.optics, x.impl.ratio)]
                  [] s.op = "note" /\ s.on \in {"group", "thermal", "zoom", "inverted"} -> [x.impl EXCEPT ![s.on] = s.to]
                  [] OTHER -> x.impl)
        <4> DEFINE A1 == [x.impl EXCEPT !.attr[s.on] = s.to]
                   A2 == [x.impl EXCEPT !.ratio[s.on] = s.to]
                   A3 == [x.impl EXCEPT !.hfov = View(s.to, x.hw.optics, x.impl.ratio)]
                   A4 == [x.impl EXCEPT ![s.on] = s.to]
                   A5 == x.impl
                   A6 == Opened(s.to)
                   A7 == Closed
        <4>1. AfterImpl(s, x) =
                (CASE s.op = "open" -> A6 [] s.op = "close" -> A7
                   [] s.op = "noteattr" -> A1 [] s.op = "noteratio" -> A2
                   [] s.op = "note" /\ s.on = "hfov" -> A3
                   [] s.op = "note" /\ s.on \in {"group", "thermal", "zoom", "inverted"} -> A4
                   [] OTHER -> A5)
          BY DEF AfterImpl
        <4> HIDE DEF A1, A2, A3, A4, A5, A6, A7
        <4>2. AfterImpl(s, x) =
                (CASE s.op = "noteattr" -> A1 [] s.op = "noteratio" -> A2
                   [] s.op = "note" /\ s.on = "hfov" -> A3
                   [] s.op = "note" /\ s.on \in {"group", "thermal", "zoom", "inverted"} -> A4
                   [] OTHER -> A5)
          BY <1>2, <4>1
        <4> QED
          BY <4>2 DEF A1, A2, A3, A4, A5
      <3> QED
        BY <2>1, <2>3, <3>1, Zenon
    <2>6. AfterStale(s, x) = stale' \ {"gain"}
      <3>1. Noted(s, "stale") = (s.on = "stale") /\ Noted(s, "settled") = (s.on = "settled")
            /\ Noted(s, "moved") = (s.on = "moved")
        BY <1>1 DEF Noted
      <3>2. "zoom" \in x.stale <=> "zoom" \in stale
        BY <2>3
      <3>3. CASE s.on = "stale"
        <4>1. AfterStale(s, x) = x.stale \cup ({s.to} \ {"gain"})
          BY <1>2, <3>1, <3>3 DEF AfterStale
        <4>2. stale' = stale \cup {s.to}
          BY <2>2, <3>3
        <4> QED
          BY <2>3, <4>1, <4>2
      <3>4. CASE s.on = "settled"
        <4>1. AfterStale(s, x) = x.stale \ {s.to}
          BY <1>2, <3>1, <3>4 DEF AfterStale
        <4>2. stale' = stale \ {s.to}
          BY <2>2, <3>4
        <4> QED
          BY <2>3, <4>1, <4>2
      <3>5. CASE s.on = "moved" /\ "zoom" \in stale
        <4>1. AfterStale(s, x) = x.stale \cup {s.to}
          BY <1>2, <3>1, <3>2, <3>5 DEF AfterStale
        <4>2. stale' = stale \cup {s.to}
          BY <2>2, <3>5
        <4> QED
          BY <2>3, <2>4, <3>5, <4>1, <4>2
      <3>6. CASE s.on # "stale" /\ s.on # "settled" /\ ~(s.on = "moved" /\ "zoom" \in stale)
        <4>1. AfterStale(s, x) = x.stale
          BY <1>2, <3>1, <3>2, <3>6 DEF AfterStale
        <4>2. stale' = stale
          BY <2>2, <3>6
        <4> QED
          BY <2>3, <4>1, <4>2
      <3> QED
        BY <3>3, <3>4, <3>5, <3>6
    <2>7. Effect(x.hw, s) = hw'
      BY <1>1, <2>1, <2>3 DEF Effect, Notes
    <2>8. Noted(s, "config") = (s.on = "config") /\ Noted(s, "media_inverted") = (s.on = "media_inverted")
      BY <1>1 DEF Noted
    <2>9. After(s, x) = [hw |-> hw', impl |-> impl', config |-> config', inverted |-> inverted',
                         stale |-> stale' \ {"gain"}, on |-> rec'.on, off |-> (monitor.pc = "none")]
      <3> DEFINE w == monitor.pc = "none"
                 w1 == impl'
                 w2 == stale' \ {"gain"}
      <3>1. x.off = w /\ AfterImpl(s, x) = w1 /\ AfterStale(s, x) = w2
        BY <2>3, <2>5, <2>6
      <3> HIDE DEF w, w1, w2
      <3>2. config' = (IF Noted(s, "config") THEN s.to ELSE x.config)
            /\ inverted' = (IF Noted(s, "media_inverted") THEN s.to ELSE x.inverted)
        BY <2>1, <2>3, <2>8
      <3>3. After(s, x) = [hw |-> hw', impl |-> w1, config |-> config', inverted |-> inverted',
                           stale |-> w2, on |-> rec'.on, off |-> w]
        BY <1>2, <2>1, <2>3, <2>7, <3>1, <3>2 DEF After
      <3> QED
        BY <3>3 DEF w, w1, w2
    <2> QED
      BY <2>1, <2>9 DEF World
  <1>5. mediaMain' = Rest /\ before' = before
    BY DEF NoteStep
  <1>6. MainOK' /\ Began' = Began /\ mediaMain'.todo = Tail(mediaMain.todo) /\ mediaMain'.fault = mediaMain.fault
    BY <1>5, MainSteps
  <1> HIDE DEF s, x
  <1>7. ProgramOK'
    BY <1>3, <1>4, <1>6 DEF ProgramOK
  <1> QED
    BY <1>6, <1>7

LEMMA ProgramMonitor ==
    ASSUME MainOK, ProgramOK, StopMonitor \/ StartMonitor
    PROVE  MainOK' /\ ProgramOK' /\ Began' = Began
PROOF
  <1> DEFINE s == Head1
             x == World
  <1>1. ~Idle /\ s.op \in {"stop_monitor", "start_monitor"}
    BY DEF StopMonitor, StartMonitor, MediaAt
  <1>2. s.op \notin Macros /\ s.op \notin Notes /\ s.op # "open" /\ s.op # "close"
    BY <1>1 DEF Macros, Notes
  <1>3. Good(Began, Tail(mediaMain.todo), mediaMain.fault, After(s, x)) /\ Timely(Began, s, x)
    BY <1>1, <1>2, HeadGood
  <1>4. World' = After(s, x)
    <2>1. /\ hw' = hw /\ impl' = impl /\ rec' = rec /\ config' = config /\ inverted' = inverted /\ stale' = stale
      BY DEF StopMonitor, StartMonitor
    <2>2. x.hw = hw /\ x.impl = impl /\ x.config = config /\ x.inverted = inverted
          /\ x.stale = stale \ {"gain"} /\ x.on = rec.on
      BY WorldIs
    <2>3. (monitor'.pc = "none") = (CASE s.op = "stop_monitor" -> TRUE [] s.op = "start_monitor" -> ~x.impl.open [] OTHER -> x.off)
      <3>1. CASE StopMonitor
        <4>1. s.op = "stop_monitor" /\ monitor'.pc = "none"
          <5>1. monitor.pc = "test" /\ monitor' = [monitor EXCEPT !.pc = "none"] /\ s.op = "stop_monitor"
            BY <3>1 DEF StopMonitor, MediaAt
          <5> QED
            BY <5>1
        <4> QED
          BY <4>1
      <3>2. CASE StartMonitor
        <4>1. s.op = "start_monitor" /\ monitor' = [monitor EXCEPT !.pc = IF impl.open THEN "test" ELSE "none"]
          BY <3>2 DEF StartMonitor, MediaAt
        <4>2. impl.open
          BY <1>3, <2>2, <4>1 DEF Timely
        <4>3. monitor'.pc = "test"
          BY <4>1, <4>2
        <4> QED
          BY <2>2, <4>1, <4>2, <4>3
      <3> QED
        BY <3>1, <3>2
    <2> HIDE DEF s, x
    <2>4. AfterImpl(s, x) = impl
      BY <1>2, <2>2 DEF AfterImpl, Notes
    <2>5. AfterStale(s, x) = stale \ {"gain"}
      BY <1>2, <2>2 DEF AfterStale, Noted
    <2>6. Effect(x.hw, s) = hw
      BY <1>1, <2>2 DEF Effect
    <2>7. After(s, x) = [hw |-> hw, impl |-> impl, config |-> config, inverted |-> inverted,
                         stale |-> stale \ {"gain"}, on |-> rec.on, off |-> (monitor'.pc = "none")]
      <3> DEFINE w == monitor'.pc = "none"
                 v == CASE s.op = "stop_monitor" -> TRUE [] s.op = "start_monitor" -> ~x.impl.open [] OTHER -> x.off
      <3>1. w = v
        BY <2>3
      <3>2. After(s, x) = [hw |-> Effect(x.hw, s), impl |-> AfterImpl(s, x),
                           config |-> IF Noted(s, "config") THEN s.to ELSE x.config,
                           inverted |-> IF Noted(s, "media_inverted") THEN s.to ELSE x.inverted,
                           stale |-> AfterStale(s, x), on |-> IF s.op = "close" THEN FALSE ELSE x.on, off |-> v]
        BY DEF After
      <3> HIDE DEF w, v
      <3>3. After(s, x) = [hw |-> hw, impl |-> impl, config |-> config, inverted |-> inverted,
                           stale |-> stale \ {"gain"}, on |-> rec.on, off |-> w]
        BY <1>2, <2>2, <2>4, <2>5, <2>6, <3>1, <3>2 DEF Noted
      <3> QED
        BY <3>3 DEF w
    <2> QED
      BY <2>1, <2>7 DEF World
  <1>5. mediaMain' = Rest /\ before' = before
    BY DEF StopMonitor, StartMonitor
  <1>6. MainOK' /\ Began' = Began /\ mediaMain'.todo = Tail(mediaMain.todo) /\ mediaMain'.fault = mediaMain.fault
    BY <1>5, MainSteps
  <1> HIDE DEF s, x
  <1>7. ProgramOK'
    BY <1>3, <1>4, <1>6 DEF ProgramOK
  <1> QED
    BY <1>6, <1>7

LEMMA ProgramUnseen ==
    ASSUME MainOK, ProgramOK, MonitorReads \/ MonitorRead \/ MonitorStores, DOMAIN monitor = {"pc", "gen", "value"}
    PROVE  MainOK' /\ ProgramOK' /\ Began' = Began /\ World' = World
PROOF
  <1>1. mediaMain' = mediaMain /\ before' = before /\ hw' = hw /\ impl' = impl /\ rec' = rec /\ config' = config
        /\ inverted' = inverted
    BY DEF MonitorReads, MonitorRead, MonitorStores
  <1>2. stale' \ {"gain"} = stale \ {"gain"}
    BY DEF MonitorReads, MonitorRead, MonitorStores
  <1>3. (monitor'.pc = "none") = (monitor.pc = "none")
    BY DEF MonitorReads, MonitorRead, MonitorStores
  <1>4. World' = World
    <2> DEFINE w == monitor.pc = "none"
               w1 == stale \ {"gain"}
    <2>1. World = [hw |-> hw, impl |-> impl, config |-> config, inverted |-> inverted, stale |-> w1, on |-> rec.on, off |-> w]
      BY DEF World
    <2>2. World' = [hw |-> hw, impl |-> impl, config |-> config, inverted |-> inverted, stale |-> w1, on |-> rec.on, off |-> w]
      <3> DEFINE v == monitor'.pc = "none"
                 v1 == stale' \ {"gain"}
      <3>1. v = w /\ v1 = w1
        BY <1>2, <1>3
      <3>2. World' = [hw |-> hw', impl |-> impl', config |-> config', inverted |-> inverted', stale |-> v1, on |-> rec'.on, off |-> v]
        BY DEF World
      <3> HIDE DEF v, v1, w, w1
      <3> QED
        BY <1>1, <3>1, <3>2
    <2> QED
      BY <2>1, <2>2
  <1>5. Began' = Began
    BY <1>1 DEF Began
  <1> QED
    BY <1>1, <1>4, <1>5 DEF MainOK, ProgramOK

\* A gain command: nothing of it shows in the world.
LEMMA GainUnseen ==
    ASSUME NEW k, k.cmd = "gain", NEW s, NEW x, s.op \in {"gain", "note"},
           s.op = "note" => s.on = "cached_gain" \/ (s.on \in {"stale", "settled"} /\ s.to = "gain"),
           x = [hw |-> x.hw, impl |-> x.impl, config |-> x.config, inverted |-> x.inverted,
                stale |-> x.stale, on |-> x.on, off |-> x.off],
           "gain" \notin x.stale
    PROVE  Timely(k, s, x) /\ After(s, x) = x /\ Failed(s, x) = x /\ s.op \notin Macros
PROOF
  <1>1. s.op \notin Macros /\ s.op # "open" /\ s.op # "close" /\ s.op # "start_monitor" /\ s.op # "stop_monitor"
        /\ s.op # "optics" /\ s.op # "noteattr" /\ s.op # "noteratio"
    BY DEF Macros
  <1>2. Timely(k, s, x)
    BY <1>1 DEF Timely, Unsettles, Noted, Notes
  <1>3. Effect(x.hw, s) = x.hw
    BY DEF Effect
  <1>4. AfterImpl(s, x) = x.impl
    BY <1>1 DEF AfterImpl
  <1>5. ~Noted(s, "moved") /\ ~Noted(s, "config") /\ ~Noted(s, "media_inverted")
    BY DEF Noted, Notes
  <1>6. AfterStale(s, x) = x.stale
    <2>1. CASE s.op = "note" /\ s.on = "stale"
      <3>1. AfterStale(s, x) = x.stale \cup ({s.to} \ {"gain"})
        BY <1>1, <2>1 DEF AfterStale, Noted, Notes
      <3> QED
        BY <2>1, <3>1
    <2>2. CASE s.op = "note" /\ s.on = "settled"
      <3>1. AfterStale(s, x) = x.stale \ {s.to}
        BY <1>1, <2>2 DEF AfterStale, Noted, Notes
      <3> QED
        BY <2>2, <3>1
    <2>3. CASE ~(s.op = "note" /\ s.on \in {"stale", "settled"})
      BY <1>1, <1>5, <2>3 DEF AfterStale, Noted, Notes
    <2> QED
      BY <2>1, <2>2, <2>3
  <1>7. After(s, x) = x
    BY <1>1, <1>3, <1>4, <1>5, <1>6 DEF After
  <1>8. Failed(s, x) = x
    BY <1>1 DEF Failed
  <1> QED
    BY <1>1, <1>2, <1>7, <1>8

LEMMA DoesGain ==
    ASSUME NEW k, NEW f, NEW d \in Scenes, True(d), d.off = FALSE, d.cfg = d.config, k.cmd = "gain", NEW g
    PROVE  Good(k, Three(Step("gain", "none", g, One(Note("stale", "gain"))), Note("cached_gain", g), Note("settled", "gain")),
                f, Settled(d))
PROOF
  <1> DEFINE n == Note("stale", "gain")
             s1 == Step("gain", "none", g, One(n))
             s2 == Note("cached_gain", g)
             s3 == Note("settled", "gain")
             x == Settled(d)
  <1>1. x = [hw |-> x.hw, impl |-> x.impl, config |-> x.config, inverted |-> x.inverted,
             stale |-> x.stale, on |-> x.on, off |-> x.off] /\ "gain" \notin x.stale
    BY OwnWorld, SceneIs
  <1>2. Good(k, <<>>, f, x) /\ Good(k, <<>>, TRUE, x) /\ IsProgram(<<>>)
    BY Ends, EmptyProgram
  <1>3. /\ s1.op = "gain" /\ s1.else = One(n)
        /\ s2.op = "note" /\ s2.on = "cached_gain"
        /\ s3.op = "note" /\ s3.on = "settled" /\ s3.to = "gain"
        /\ n.op = "note" /\ n.on = "stale" /\ n.to = "gain"
    BY DEF Note, Do, Step
  <1> HIDE DEF n, s1, s2, s3, x
  <1>4. Timely(k, n, x) /\ After(n, x) = x /\ n.op \notin Macros /\ n.op \notin Fallible
    <2>1. n.op \notin Fallible
      BY <1>3 DEF Fallible
    <2> QED
      BY <1>1, <1>3, <2>1, GainUnseen
  <1>5. Good(k, Then(n, <<>>), TRUE, x)
    BY <1>2, <1>4, GoodStep
  <1>6. Good(k, Then(s3, <<>>), f, x)
    <2>1. Timely(k, s3, x) /\ After(s3, x) = x /\ s3.op \notin Macros
      BY <1>1, <1>3, GainUnseen
    <2>2. s3.op \notin Fallible
      BY <1>3 DEF Fallible
    <2> QED
      BY <1>2, <2>1, <2>2, GoodStep
  <1> DEFINE q3 == One(s3)
  <1>7. q3 = Then(s3, <<>>) /\ IsProgram(q3) /\ One(n) = Then(n, <<>>) /\ Three(s1, s2, s3) = Then(s1, Two(s2, s3))
        /\ Two(s2, s3) = Then(s2, q3) /\ IsProgram(Two(s2, s3))
    BY JustOne, WrittenTwo, WrittenThree
  <1> HIDE DEF q3
  <1> DEFINE q2 == Two(s2, s3)
  <1>8. Good(k, q2, f, x) /\ IsProgram(q2)
    <2>1. Timely(k, s2, x) /\ After(s2, x) = x /\ s2.op \notin Macros
      BY <1>1, <1>3, GainUnseen
    <2>2. s2.op \notin Fallible
      BY <1>3 DEF Fallible
    <2>3. Good(k, q3, f, x)
      BY <1>6, <1>7
    <2>4. Good(k, Then(s2, q3), f, x)
      BY <1>7, <2>1, <2>2, <2>3, GoodStep
    <2> QED
      BY <1>7, <2>4
  <1> HIDE DEF q2
  <1>9. Good(k, Then(s1, q2), f, x)
    <2>1. Timely(k, s1, x) /\ After(s1, x) = x /\ Failed(s1, x) = x /\ s1.op \notin Macros
      BY <1>1, <1>3, GainUnseen
    <2>2. Good(k, s1.else, TRUE, x)
      BY <1>3, <1>5, <1>7
    <2> QED
      BY <1>8, <2>1, <2>2, GoodStep
  <1>10. Good(k, Three(s1, s2, s3), f, x)
    BY <1>7, <1>9 DEF q2
  <1> QED
    BY <1>10 DEF s1, s2, s3, n, x

\* Between commands.
LEMMA AtRest ==
    ASSUME ProgramOK, Idle
    PROVE  \E d \in Scenes :
             /\ World = Settled(d) /\ True(d) /\ d.off = FALSE /\ d.cfg = d.config
             /\ mediaMain.cmd = "configure" => /\ mediaMain.fault => d.config = before.config
                                              /\ d.zoom = before.impl.zoom /\ d.thermal = before.impl.thermal
PROOF
  <1>1. End(Began, mediaMain.fault, World)
    <2> DEFINE k == Began
               p == mediaMain.todo
               f == mediaMain.fault
               x == World
    <2>1. Good(k, p, f, x) /\ p = <<>>
      BY DEF ProgramOK, Idle
    <2> HIDE DEF k, p, f, x
    <2>2. End(k, f, x)
      BY <2>1, GoodIs
    <2> QED
      BY <2>2 DEF k, p, f, x
  <1>2. Began.cmd = mediaMain.cmd /\ Began.config = before.config /\ Began.zoom = before.impl.zoom
        /\ Began.thermal = before.impl.thermal
    BY DEF Began
  <1>3. PICK d \in Scenes : /\ World = Settled(d) /\ True(d) /\ ~d.off /\ d.cfg = d.config
                            /\ Began.cmd = "configure" => (mediaMain.fault => d.config = Began.config)
                                                          /\ d.zoom = Began.zoom /\ d.thermal = Began.thermal
    BY <1>1 DEF End
  <1>4. d.off = FALSE
    BY <1>3, SceneIs
  <1> QED
    BY <1>2, <1>3, <1>4

LEMMA SettledWorld ==
    ASSUME NEW d, World = Settled(d)
    PROVE  /\ hw = Hardware(Binds(d), Attrs(d.thermal), Running, d) /\ impl = Structure(Attrs(d.thermal), d)
           /\ config = d.config /\ inverted = d.upside /\ stale \ {"gain"} = d.stale /\ rec.on = d.on
           /\ (monitor.pc = "none") = d.off
PROOF
  <1> DEFINE b == Binds(d)
             a == Attrs(d.thermal)
             x == World
  <1>1. x = Camera(b, a, Running, a, d)
    BY DEF Settled
  <1>2. x.hw = hw /\ x.impl = impl /\ x.config = config /\ x.inverted = inverted
        /\ x.stale = stale \ {"gain"} /\ x.on = rec.on /\ x.off = (monitor.pc = "none")
    BY WorldIs
  <1> HIDE DEF a, b, x
  <1>3. x.hw = Hardware(b, a, Running, d) /\ x.impl = Structure(a, d) /\ x.config = d.config /\ x.inverted = d.upside
        /\ x.stale = d.stale /\ x.on = d.on /\ x.off = d.off
    BY <1>1 DEF Camera
  <1> QED
    BY <1>2, <1>3 DEF a, b

LEMMA Commanded ==
    ASSUME NEW name, NEW program, Command(name, program)
    PROVE  /\ MainOK' /\ World' = World /\ Idle
           /\ mediaMain'.todo = program /\ mediaMain'.cmd = name /\ mediaMain'.fault = FALSE
           /\ Began' = [cmd |-> name, zoom |-> impl.zoom, thermal |-> impl.thermal, config |-> config, gain |-> gain]
PROOF
  <1> DEFINE no == FALSE
             yes == TRUE
  <1>1. no \in BOOLEAN /\ yes = ~no
    OBVIOUS
  <1>2. mediaMain' = [cmd |-> name, todo |-> program, ok |-> yes, fault |-> no]
        /\ before' = [impl |-> impl, config |-> config, gain |-> gain] /\ Idle
        /\ UNCHANGED <<hw, impl, config, inverted, rec, stale, monitor>>
    BY DEF Command
  <1> HIDE DEF no, yes
  <1>3. MainOK'
    BY <1>1, <1>2 DEF MainOK
  <1>4. World' = World
    BY <1>2 DEF World
  <1>5. Began' = [cmd |-> name, zoom |-> impl.zoom, thermal |-> impl.thermal, config |-> config, gain |-> gain]
    BY <1>2 DEF Began
  <1>6. mediaMain'.todo = program /\ mediaMain'.cmd = name /\ mediaMain'.fault = no
    BY <1>2
  <1> QED
    BY <1>2, <1>3, <1>4, <1>5, <1>6 DEF no

\* A command begins where the one before it ended.
LEMMA ProgramBegins ==
    ASSUME NEW name, NEW program, Command(name, program), ProgramOK,
           \A k, f, d : /\ k.cmd = name /\ k.zoom = impl.zoom /\ k.thermal = impl.thermal /\ k.config = config /\ k.gain = gain
                        /\ d \in Scenes /\ True(d) /\ d.off = FALSE /\ d.cfg = d.config /\ f = FALSE
                        /\ impl = Structure(Attrs(d.thermal), d) /\ config = d.config /\ inverted = d.upside
                        => Good(k, program, f, Settled(d))
    PROVE  MainOK' /\ ProgramOK'
PROOF
  <1>1. /\ MainOK' /\ World' = World /\ Idle
        /\ mediaMain'.todo = program /\ mediaMain'.cmd = name /\ mediaMain'.fault = FALSE
        /\ Began' = [cmd |-> name, zoom |-> impl.zoom, thermal |-> impl.thermal, config |-> config, gain |-> gain]
    BY Commanded
  <1>2. PICK d \in Scenes : World = Settled(d) /\ True(d) /\ d.off = FALSE /\ d.cfg = d.config
    BY <1>1, AtRest
  <1>3. impl = Structure(Attrs(d.thermal), d) /\ config = d.config /\ inverted = d.upside
    BY <1>2, SettledWorld
  <1> DEFINE k == Began'
             f == mediaMain'.fault
             x == World'
  <1>4. k.cmd = name /\ k.zoom = impl.zoom /\ k.thermal = impl.thermal /\ k.config = config /\ k.gain = gain /\ f = FALSE
        /\ x = Settled(d)
    BY <1>1, <1>2
  <1> HIDE DEF k, f, x
  <1>5. Good(k, program, f, x)
    BY <1>2, <1>3, <1>4
  <1>6. Good(Began', mediaMain'.todo, mediaMain'.fault, World')
    BY <1>1, <1>5 DEF k, f, x
  <1> QED
    BY <1>1, <1>6 DEF ProgramOK

LEMMA ProgramZooms ==
    ASSUME ProgramOK, SetZoom \/ SetLens \/ SetThermalMain \/ SetInverted \/ CapturePhoto \/ SetGain
    PROVE  MainOK' /\ ProgramOK'
PROOF
  <1>1. CASE SetZoom
    <2>1. PICK z \in Zooms : Command("zoom", One(Do("set_zoom", "none", z)))
      BY <1>1 DEF SetZoom, One
    <2> DEFINE p == One(Do("set_zoom", "none", z))
    <2>2. \A k, f, d : k.cmd = "zoom" /\ d \in Scenes /\ True(d) /\ d.off = FALSE /\ d.cfg = d.config
             => Good(k, p, f, Settled(d))
      BY DoesZoom
    <2> HIDE DEF p
    <2> QED
      BY <2>1, <2>2, ProgramBegins DEF p
  <1>2. CASE SetLens
    <2>1. PICK l \in Lenses : Command("lens", Two(Do("select_lens", "none", l), Do("switch", "none", FALSE)))
      BY <1>2 DEF SetLens, Two, Lenses
    <2> DEFINE p == Two(Do("select_lens", "none", l), Do("switch", "none", FALSE))
    <2>2. \A k, f, d : k.cmd = "lens" /\ d \in Scenes /\ True(d) /\ d.off = FALSE /\ d.cfg = d.config
             => Good(k, p, f, Settled(d))
      BY DoesLens
    <2> HIDE DEF p
    <2> QED
      BY <2>1, <2>2, ProgramBegins DEF p
  <1>3. CASE SetThermalMain
    <2>1. PICK t \in BOOLEAN :
            Command("slots", (IF t THEN One(Do("select_lens", "none", "zoom")) ELSE <<>>) \o One(Do("switch", "none", t)))
      BY <1>3 DEF SetThermalMain, One
    <2> DEFINE p == (IF t THEN One(Do("select_lens", "none", "zoom")) ELSE <<>>) \o One(Do("switch", "none", t))
    <2>2. \A k, f, d : k.cmd = "slots" /\ d \in Scenes /\ True(d) /\ d.off = FALSE /\ d.cfg = d.config
             => Good(k, p, f, Settled(d))
      BY DoesSlots
    <2>3. Command("slots", p)
      BY <2>1
    <2> HIDE DEF p
    <2> QED
      BY <2>2, <2>3, ProgramBegins
  <1>4. CASE SetInverted
    <2>1. PICK b \in BOOLEAN : Command("invert", Two(Do("set_inverted", "none", b), Note("media_inverted", b)))
      BY <1>4 DEF SetInverted, Two
    <2> DEFINE p == Two(Do("set_inverted", "none", b), Note("media_inverted", b))
    <2>2. \A k, f, d : k.cmd = "invert" /\ d \in Scenes /\ True(d) /\ d.off = FALSE /\ d.cfg = d.config
             => Good(k, p, f, Settled(d))
      BY DoesInvert
    <2> HIDE DEF p
    <2> QED
      BY <2>1, <2>2, ProgramBegins DEF p
  <1>5. CASE CapturePhoto
    <2>1. PICK n \in {0, 2} : Command("photo", One(Do("photo", "none", n)))
      BY <1>5 DEF CapturePhoto, One
    <2> DEFINE p == One(Do("photo", "none", n))
    <2>2. \A k, f, d : k.cmd = "photo" /\ d \in Scenes /\ True(d) /\ d.off = FALSE /\ d.cfg = d.config
             => Good(k, p, f, Settled(d))
      BY DoesPhoto
    <2> HIDE DEF p
    <2> QED
      BY <2>1, <2>2, ProgramBegins DEF p
  <1>6. CASE SetGain
    <2>1. PICK g \in 0 .. 1 :
            Command("gain", Three(Step("gain", "none", g, One(Note("stale", "gain"))), Note("cached_gain", g), Note("settled", "gain")))
      BY <1>6 DEF SetGain, One, Three
    <2> DEFINE p == Three(Step("gain", "none", g, One(Note("stale", "gain"))), Note("cached_gain", g), Note("settled", "gain"))
    <2>2. \A k, f, d : k.cmd = "gain" /\ d \in Scenes /\ True(d) /\ d.off = FALSE /\ d.cfg = d.config
             => Good(k, p, f, Settled(d))
      BY DoesGain
    <2> HIDE DEF p
    <2> QED
      BY <2>1, <2>2, ProgramBegins DEF p
  <1> QED
    BY <1>1, <1>2, <1>3, <1>4, <1>5, <1>6

LEMMA ProgramConfigures ==
    ASSUME ProgramOK, Configure
    PROVE  MainOK' /\ ProgramOK'
PROOF
  <1>1. PICK c \in Configs : Command("configure", configure(c))
    BY DEF Configure
  <1>2. \A k, f, d : /\ k.cmd = "configure" /\ k.zoom = impl.zoom /\ k.thermal = impl.thermal /\ k.config = config /\ k.gain = gain
                     /\ d \in Scenes /\ True(d) /\ d.off = FALSE /\ d.cfg = d.config /\ f = FALSE
                     /\ impl = Structure(Attrs(d.thermal), d) /\ config = d.config /\ inverted = d.upside
                     => Good(k, configure(c), f, Settled(d))
    <2> SUFFICES ASSUME NEW k, NEW f, NEW d \in Scenes,
                        k.cmd = "configure", k.zoom = impl.zoom, k.thermal = impl.thermal, k.config = config, k.gain = gain,
                        True(d), d.off = FALSE, d.cfg = d.config, f = FALSE,
                        impl = Structure(Attrs(d.thermal), d), config = d.config, inverted = d.upside
                 PROVE  Good(k, configure(c), f, Settled(d))
      OBVIOUS
    <2>1. impl.open = TRUE /\ impl.zoom = d.zoom /\ impl.thermal = d.thermal
      BY DEF Structure
    <2>2. CASE c = config
      <3> DEFINE s == Step("try", "apply_image", "none", One(Do("try", "apply_image", "none")))
      <3>1. configure(c) = One(s)
        BY <2>1, <2>2 DEF configure, One
      <3>2. Good(k, One(s), f, Settled(d))
        BY <2>1, Reapplied
      <3> QED
        BY <3>1, <3>2
    <2>3. CASE c # config
      <3> DEFINE p == configure(c)
                 x == Settled(d)
      <3>1. k.zoom = d.zoom /\ k.thermal = d.thermal /\ ~f
        BY <2>1
      <3>2. Good(k, configure(c), f, Settled(d))
        BY <2>3, <3>1, Reconfigured
      <3> QED
        BY <3>2
    <2> QED
      BY <2>2, <2>3
  <1> DEFINE p == configure(c)
  <1> HIDE DEF p
  <1> QED
    BY <1>1, <1>2, ProgramBegins DEF p

WithOn(d, w) == [d EXCEPT !.on = w]
LEMMA WithOnIs ==
    ASSUME NEW d \in Scenes, NEW w \in BOOLEAN
    PROVE  LET e == WithOn(d, w) IN
           /\ e \in Scenes
           /\ e.optics = d.optics /\ e.crop = d.crop /\ e.flip = d.flip /\ e.still = d.still
           /\ e.group = d.group /\ e.thermal = d.thermal /\ e.zoom = d.zoom /\ e.hfov = d.hfov
           /\ e.ratio = d.ratio /\ e.inverted = d.inverted /\ e.cfg = d.cfg /\ e.config = d.config
           /\ e.upside = d.upside /\ e.stale = d.stale /\ e.on = w /\ e.off = d.off
  BY DEF Scenes, WithOn

\* A recording begins or ends between commands.
LEMMA ProgramRecords ==
    ASSUME MainOK, ProgramOK, Idle, rec'.on \in BOOLEAN,
           UNCHANGED <<hw, impl, config, inverted, mediaMain, before, stale, monitor>>
    PROVE  MainOK' /\ ProgramOK' /\ Began' = Began
PROOF
  <1> DEFINE w == rec'.on
             f == mediaMain.fault
  <1>1. PICK d \in Scenes :
           /\ World = Settled(d) /\ True(d) /\ d.off = FALSE /\ d.cfg = d.config
           /\ mediaMain.cmd = "configure" => /\ mediaMain.fault => d.config = before.config
                                             /\ d.zoom = before.impl.zoom /\ d.thermal = before.impl.thermal
    BY AtRest
  <1> DEFINE e == WithOn(d, w)
             x == Settled(e)
             k == Began
  <1>2. MainOK'
    BY DEF MainOK
  <1>3. k.cmd = mediaMain.cmd /\ k.config = before.config /\ k.zoom = before.impl.zoom
        /\ k.thermal = before.impl.thermal /\ Began' = k
    BY DEF Began
  <1>4. w \in BOOLEAN
    OBVIOUS
  <1> HIDE DEF w
  <1>5. /\ e \in Scenes
        /\ e.optics = d.optics /\ e.crop = d.crop /\ e.flip = d.flip /\ e.still = d.still
        /\ e.group = d.group /\ e.thermal = d.thermal /\ e.zoom = d.zoom /\ e.hfov = d.hfov
        /\ e.ratio = d.ratio /\ e.inverted = d.inverted /\ e.cfg = d.cfg /\ e.config = d.config
        /\ e.upside = d.upside /\ e.stale = d.stale /\ e.on = w /\ e.off = d.off
    BY <1>4, WithOnIs
  <1>6. World' = x
    <2> DEFINE b == Binds(d)
               a == Attrs(d.thermal)
    <2>1. hw = Hardware(b, a, Running, d) /\ impl = Structure(a, d) /\ config = d.config /\ inverted = d.upside
          /\ stale \ {"gain"} = d.stale /\ (monitor.pc = "none") = d.off
      BY <1>1, SettledWorld
    <2> HIDE DEF e
    <2>2. x = Camera(b, a, Running, a, e)
      BY <1>5, SettledIs
    <2> HIDE DEF a, b, x
    <2>3. Hardware(b, a, Running, e) = Hardware(b, a, Running, d) /\ Structure(a, e) = Structure(a, d)
      BY <1>5 DEF Hardware, Structure
    <2>4. x = [hw |-> hw, impl |-> impl, config |-> config, inverted |-> inverted,
               stale |-> stale \ {"gain"}, on |-> w, off |-> d.off]
      BY <1>5, <2>1, <2>2, <2>3 DEF Camera
    <2> DEFINE v == monitor.pc = "none"
    <2>5. World' = [hw |-> hw, impl |-> impl, config |-> config, inverted |-> inverted,
               stale |-> stale \ {"gain"}, on |-> w, off |-> v]
      BY DEF World, w
    <2>6. v = d.off
      BY <2>1
    <2> HIDE DEF v
    <2> QED
      BY <2>4, <2>5, <2>6
  <1> HIDE DEF e
  <1>7. True(e) /\ e.off = FALSE /\ e.cfg = e.config
    <2>1. True(e)
      BY <1>1, <1>5 DEF True
    <2> QED
      BY <1>1, <1>5, <2>1
  <1>8. Good(k, <<>>, f, Settled(e))
    <2>1. k.cmd = "configure" => (f => e.config = k.config) /\ e.zoom = k.zoom /\ e.thermal = k.thermal
      BY <1>1, <1>3, <1>5
    <2> HIDE DEF k, f
    <2> QED
      BY <1>5, <1>7, <2>1, Ends
  <1>9. mediaMain'.todo = <<>> /\ mediaMain'.fault = f
    BY DEF Idle
  <1>10. ProgramOK'
    <2>1. Good(Began', mediaMain'.todo, mediaMain'.fault, World')
      <3> HIDE DEF k, f, x
      <3>1. Good(k, <<>>, f, x)
        BY <1>8 DEF x
      <3> QED
        BY <1>3, <1>6, <1>9, <3>1
    <2> QED
      BY <2>1 DEF ProgramOK
  <1> QED
    BY <1>2, <1>3, <1>10

-----------------------------------------------------------------------------
(* The files of a recording, and the pipeline they are fed from. *)

FilesOK ==
    /\ DOMAIN rec = {"on", "part"} /\ rec.on \in BOOLEAN /\ rec.part \in [1 .. 2 -> {"closed", "wait", "writing"}]
    /\ \A i \in 1 .. 2 : rec.part[i] # "closed" <=> rec.on
    /\ "open" \in DOMAIN impl /\ (rec.on => impl.open)

LEMMA NoFilesOK ==
    /\ DOMAIN NoFiles = {"on", "part"} /\ NoFiles.on = FALSE /\ NoFiles.part \in [1 .. 2 -> {"closed", "wait", "writing"}]
    /\ \A i \in 1 .. 2 : NoFiles.part[i] = "closed"
  BY DEF NoFiles

LEMMA OpenNow ==
    ASSUME NEW c
    PROVE  Opened(c).open = TRUE /\ "open" \in DOMAIN Opened(c) /\ Closed.open = FALSE /\ "open" \in DOMAIN Closed
PROOF
  <1> DEFINE x == Closed
             y == [x EXCEPT !.open = TRUE, !.cfg = c]
  <1>1. DOMAIN x = {"open", "group", "thermal", "zoom", "hfov", "ratio", "attr", "inverted", "cfg"} /\ x.open = FALSE
    BY DEF Closed
  <1> HIDE DEF x
  <1>2. DOMAIN y = DOMAIN x /\ y.open = TRUE
    BY <1>1
  <1> QED
    BY <1>1, <1>2 DEF Opened, x

\* A recording is not fed from a pipeline that is closed.
LEMMA FilesCall ==
    ASSUME MainOK, ProgramOK, FilesOK, Call \/ CallFails
    PROVE  FilesOK'
PROOF
  <1> DEFINE s == Head1
  <1>1. Timely(Began, s, World) /\ World.on = rec.on
    BY HeadGood, WorldIs DEF Call, CallFails
  <1>2. s.op = "open" => rec.on = FALSE
    BY <1>1 DEF Timely, FilesOK
  <1> DEFINE c == s.to
  <1>3. \/ rec' = rec /\ impl' = impl
        \/ rec' = rec /\ impl' = Opened(c)
        \/ rec' = NoFiles /\ impl' = Closed
        \/ rec' = rec /\ impl' = Closed /\ rec.on = FALSE
    <2>1. CASE Call
      <3>1. CASE s.op = "open"
        <4>1. rec' = rec /\ impl' = Opened(c)
          BY <2>1, <3>1 DEF Call, MediaAt
        <4> QED
          BY <4>1
      <3>2. CASE s.op = "close"
        <4>1. rec' = NoFiles /\ impl' = Closed
          BY <2>1, <3>2 DEF Call, MediaAt
        <4> QED
          BY <4>1
      <3>3. CASE s.op # "open" /\ s.op # "close"
        <4>1. rec' = rec /\ impl' = impl
          BY <2>1, <3>3 DEF Call, MediaAt
        <4> QED
          BY <4>1
      <3> QED
        BY <3>1, <3>2, <3>3
    <2>2. CASE CallFails
      <3>1. rec' = rec /\ impl' = (IF s.op = "open" THEN Closed ELSE impl)
        BY <2>2 DEF CallFails, MediaAt
      <3> QED
        BY <1>2, <3>1
    <2> QED
      BY <2>1, <2>2
  <1> HIDE DEF s, c
  <1> QED
    BY <1>3, NoFilesOK, OpenNow DEF FilesOK

LEMMA FilesNote ==
    ASSUME FilesOK, NoteStep
    PROVE  FilesOK'
PROOF
  <1> DEFINE s == Head1
             A1 == [impl EXCEPT !.attr[s.on] = s.to]
             A2 == [impl EXCEPT !.ratio[s.on] = s.to]
             A3 == [impl EXCEPT !.hfov = View(s.to, hw.optics, impl.ratio)]
             A4 == [impl EXCEPT ![s.on] = s.to]
  <1>1. rec' = rec /\ impl' = (CASE s.op = "noteattr" -> A1 [] s.op = "noteratio" -> A2
                     [] s.op = "note" /\ s.on = "hfov" -> A3
                     [] s.op = "note" /\ s.on \in {"group", "thermal", "zoom", "inverted"} -> A4
                     [] OTHER -> impl)
    BY DEF NoteStep
  <1>2. "open" \in DOMAIN impl
    BY DEF FilesOK
  <1>3. DOMAIN A1 = DOMAIN impl /\ A1.open = impl.open /\ DOMAIN A2 = DOMAIN impl /\ A2.open = impl.open
    BY <1>2
  <1>4. DOMAIN A3 = DOMAIN impl /\ A3.open = impl.open
    BY <1>2
  <1>5. s.on \in {"group", "thermal", "zoom", "inverted"} => DOMAIN A4 = DOMAIN impl /\ A4.open = impl.open
    BY <1>2
  <1> HIDE DEF A1, A2, A3, A4, s
  <1>6. DOMAIN impl' = DOMAIN impl /\ impl'.open = impl.open
    BY <1>1, <1>3, <1>4, <1>5
  <1> QED
    BY <1>1, <1>6 DEF FilesOK

LEMMA FilesRecord ==
    ASSUME FilesOK, StartRecording \/ StopRecording \/ \E i \in 1 .. 2, key \in BOOLEAN : consume_frame(i, key)
    PROVE  FilesOK'
PROOF
  <1>1. CASE StartRecording
    <2> DEFINE both == [on |-> TRUE, part |-> [i \in 1 .. 2 |-> "wait"]]
    <2>1. impl' = impl /\ impl.open /\ (rec' = both \/ rec' = rec)
      BY <1>1 DEF StartRecording
    <2>2. /\ DOMAIN both = {"on", "part"} /\ both.on = TRUE /\ both.part \in [1 .. 2 -> {"closed", "wait", "writing"}]
          /\ \A i \in 1 .. 2 : both.part[i] # "closed"
      OBVIOUS
    <2> HIDE DEF both
    <2> QED
      BY <2>1, <2>2 DEF FilesOK
  <1>2. CASE StopRecording
    <2>1. impl' = impl /\ rec' = NoFiles
      BY <1>2 DEF StopRecording
    <2> QED
      BY <2>1, NoFilesOK DEF FilesOK
  <1>3. CASE \E i \in 1 .. 2, key \in BOOLEAN : consume_frame(i, key)
    <2>1. PICK i \in 1 .. 2, key \in BOOLEAN : consume_frame(i, key)
      BY <1>3
    <2>2. rec.on /\ impl' = impl
      BY <2>1 DEF consume_frame
    <2>3. rec' = NoFiles \/ \E w : (w = "writing" \/ w = rec.part[i]) /\ rec' = [rec EXCEPT !.part[i] = w]
      BY <2>1 DEF consume_frame
    <2>4. CASE rec' = NoFiles
      BY <2>2, <2>4, NoFilesOK DEF FilesOK
    <2>5. CASE \E w : (w = "writing" \/ w = rec.part[i]) /\ rec' = [rec EXCEPT !.part[i] = w]
      <3>1. PICK w : (w = "writing" \/ w = rec.part[i]) /\ rec' = [rec EXCEPT !.part[i] = w]
        BY <2>5
      <3>2. w \in {"closed", "wait", "writing"} /\ w # "closed"
        BY <2>2, <3>1 DEF FilesOK
      <3>3. DOMAIN rec' = {"on", "part"} /\ rec'.on = rec.on /\ rec'.part = [rec.part EXCEPT ![i] = w]
        BY <3>1 DEF FilesOK
      <3> QED
        BY <2>2, <3>2, <3>3 DEF FilesOK
    <2> QED
      BY <2>3, <2>4, <2>5
  <1> QED
    BY <1>1, <1>2, <1>3

-----------------------------------------------------------------------------
(* The thermal gain, its cache and the monitor that refreshes it. *)

ControlsOK ==
    /\ DOMAIN monitor = {"pc", "gen", "value"} /\ monitor.gen \in Nat
    /\ DOMAIN cached = {"valid", "gain", "generation"} /\ cached.generation \in Nat
    /\ monitor.gen <= cached.generation

\* What the cache holds, and what the monitor is about to store in it, is
\* the gain of the module, unless a gain command failed.
Trusted ==
    /\ cached.valid /\ "gain" \notin stale => cached.gain = gain
    /\ monitor.pc = "store" /\ monitor.gen = cached.generation /\ "gain" \notin stale => monitor.value = gain
\* The same without exception.
Sure ==
    /\ cached.gain = gain
    /\ monitor.pc = "store" /\ monitor.gen = cached.generation => monitor.value = gain

\* The rest of a gain command: all of it, after its call, and after its failure.
Asked(g) == Three(Step("gain", "none", g, One(Note("stale", "gain"))), Note("cached_gain", g), Note("settled", "gain"))
Answered(g) == Two(Note("cached_gain", g), Note("settled", "gain"))
GainOK ==
    /\ mediaMain.cmd # "gain" => gain = before.gain /\ (monitor.pc = "none" \/ Trusted)
    /\ mediaMain.cmd = "gain" =>
         \/ mediaMain.todo = <<>> /\ Trusted
         \/ Trusted /\ \E g : mediaMain.todo = Asked(g)
         \/ \E g : mediaMain.todo = Answered(g) /\ gain = g
         \/ mediaMain.todo = One(Note("settled", "gain")) /\ Sure
         \/ mediaMain.todo = One(Note("stale", "gain"))

LEMMA MonitorMoves ==
    ASSUME ControlsOK, MonitorReads \/ MonitorRead \/ MonitorStores
    PROVE  /\ ControlsOK' /\ (Trusted => Trusted') /\ (Sure => Sure')
           /\ gain' = gain /\ mediaMain' = mediaMain /\ before' = before /\ monitor.pc # "none"
PROOF
  <1>1. CASE MonitorReads
    <2>1. monitor.pc = "test" /\ monitor' = [monitor EXCEPT !.pc = "read", !.gen = cached.generation]
          /\ gain' = gain /\ mediaMain' = mediaMain /\ before' = before /\ cached' = cached /\ stale' = stale
      BY <1>1 DEF MonitorReads
    <2>2. DOMAIN monitor' = {"pc", "gen", "value"} /\ monitor'.pc = "read" /\ monitor'.gen = cached.generation
      BY <2>1 DEF ControlsOK
    <2> QED
      BY <2>1, <2>2 DEF ControlsOK, Trusted, Sure
  <1>2. CASE MonitorRead
    <2>1. monitor.pc = "read" /\ gain' = gain /\ mediaMain' = mediaMain /\ before' = before /\ cached' = cached /\ stale' = stale
      BY <1>2 DEF MonitorRead
    <2>2. monitor' = [monitor EXCEPT !.pc = "store", !.value = gain] \/ monitor' = [monitor EXCEPT !.pc = "test"]
      BY <1>2 DEF MonitorRead
    <2>3. DOMAIN monitor' = {"pc", "gen", "value"} /\ monitor'.gen = monitor.gen
          /\ (monitor'.pc = "test" \/ (monitor'.pc = "store" /\ monitor'.value = gain))
      BY <2>2 DEF ControlsOK
    <2> QED
      BY <2>1, <2>3 DEF ControlsOK, Trusted, Sure
  <1>3. CASE MonitorStores
    <2>1. monitor.pc = "store" /\ monitor' = [monitor EXCEPT !.pc = "test"]
          /\ gain' = gain /\ mediaMain' = mediaMain /\ before' = before
          /\ cached' = (IF monitor.gen = cached.generation
                        THEN [cached EXCEPT !.valid = TRUE, !.gain = monitor.value] ELSE cached)
          /\ stale' = (IF cached'.gain = gain THEN stale \ {"gain"} ELSE stale)
      BY <1>3 DEF MonitorStores
    <2>2. DOMAIN monitor' = {"pc", "gen", "value"} /\ monitor'.gen = monitor.gen /\ monitor'.pc = "test"
      BY <2>1 DEF ControlsOK
    <2>3. DOMAIN cached' = {"valid", "gain", "generation"} /\ cached'.generation = cached.generation
          /\ (monitor.gen = cached.generation => cached'.gain = monitor.value)
          /\ (monitor.gen # cached.generation => cached' = cached)
      BY <2>1 DEF ControlsOK
    <2>4. "gain" \notin stale' => "gain" \notin stale \/ cached'.gain = gain
      BY <2>1
    <2>5. Trusted => Trusted'
      BY <2>1, <2>2, <2>3, <2>4 DEF Trusted
    <2>6. Sure => Sure'
      BY <2>1, <2>2, <2>3 DEF Sure
    <2>7. ControlsOK'
      BY <2>2, <2>3 DEF ControlsOK
    <2> QED
      BY <2>1, <2>5, <2>6, <2>7
  <1> QED
    BY <1>1, <1>2, <1>3

LEMMA GainMonitor ==
    ASSUME ControlsOK, GainOK, MonitorReads \/ MonitorRead \/ MonitorStores
    PROVE  ControlsOK' /\ GainOK'
PROOF
  <1>1. /\ ControlsOK' /\ (Trusted => Trusted') /\ (Sure => Sure')
        /\ gain' = gain /\ mediaMain' = mediaMain /\ before' = before /\ monitor.pc # "none"
    BY MonitorMoves
  <1> QED
    BY <1>1 DEF GainOK

\* Between commands the cache is trusted: the monitor runs.
LEMMA TrustedAtRest ==
    ASSUME ProgramOK, GainOK, Idle
    PROVE  Trusted
PROOF
  <1>1. monitor.pc # "none"
    <2>1. PICK d \in Scenes : World = Settled(d) /\ d.off = FALSE
      BY AtRest
    <2>2. (monitor.pc = "none") = d.off
      BY <2>1, SettledWorld
    <2> QED
      BY <2>1, <2>2
  <1> DEFINE p == mediaMain.todo
  <1>2. p = <<>>
    BY DEF Idle
  <1>3. \A a, b, c : Three(a, b, c) # <<>> /\ Two(a, b) # <<>> /\ One(a) # <<>>
    BY DEF Three, Two, One
  <1>4. \A g : p # Asked(g) /\ p # Answered(g)
    BY <1>2, <1>3 DEF Asked, Answered
  <1>5. p # One(Note("settled", "gain")) /\ p # One(Note("stale", "gain"))
    BY <1>2, <1>3
  <1> QED
    BY <1>1, <1>4, <1>5 DEF GainOK

LEMMA HeadOne == ASSUME NEW a PROVE One(a) # <<>> /\ Head(One(a)) = a /\ Tail(One(a)) = <<>>
  BY DEF One
LEMMA HeadTwo == ASSUME NEW a, NEW b PROVE Two(a, b) # <<>> /\ Head(Two(a, b)) = a /\ Tail(Two(a, b)) = One(b)
  BY DEF Two, One
LEMMA HeadThree ==
    ASSUME NEW a, NEW b, NEW c
    PROVE  Three(a, b, c) # <<>> /\ Head(Three(a, b, c)) = a /\ Tail(Three(a, b, c)) = Two(b, c)
  BY DEF Three, Two

\* Where a gain command may be, and what is next.
LEMMA GainAhead ==
    ASSUME GainOK, ~Idle, mediaMain.cmd = "gain"
    PROVE  \/ /\ Trusted /\ Head1.op = "gain" /\ Head1.on = "none" /\ Head1.else = One(Note("stale", "gain"))
              /\ Tail(mediaMain.todo) = Answered(Head1.to)
           \/ /\ Head1.op = "note" /\ Head1.on = "cached_gain" /\ Head1.to = gain
              /\ Tail(mediaMain.todo) = One(Note("settled", "gain"))
           \/ Head1.op = "note" /\ Head1.on = "settled" /\ Head1.to = "gain" /\ Tail(mediaMain.todo) = <<>> /\ Sure
           \/ Head1.op = "note" /\ Head1.on = "stale" /\ Head1.to = "gain" /\ Tail(mediaMain.todo) = <<>>
PROOF
  <1> DEFINE p == mediaMain.todo
             s == Head1
             settled == Note("settled", "gain")
             failed == Note("stale", "gain")
  <1>1. p # <<>> /\ s = Head(p)
    BY DEF Idle, Head1
  <1>2. settled.op = "note" /\ settled.on = "settled" /\ settled.to = "gain"
        /\ failed.op = "note" /\ failed.on = "stale" /\ failed.to = "gain"
    BY DEF Note, Do, Step
  <1>3. \/ Trusted /\ \E g : p = Asked(g)
        \/ \E g : p = Answered(g) /\ gain = g
        \/ p = One(settled) /\ Sure
        \/ p = One(failed)
    BY <1>1 DEF GainOK
  <1>4. ASSUME NEW g
        PROVE  /\ Head(Asked(g)).op = "gain" /\ Head(Asked(g)).on = "none" /\ Head(Asked(g)).else = One(failed) /\ Head(Asked(g)).to = g
               /\ Tail(Asked(g)) = Answered(g)
               /\ Head(Answered(g)).op = "note" /\ Head(Answered(g)).on = "cached_gain" /\ Head(Answered(g)).to = g
               /\ Tail(Answered(g)) = One(settled)
    <2> DEFINE s1 == Step("gain", "none", g, One(failed))
               s2 == Note("cached_gain", g)
    <2>1. s1.op = "gain" /\ s1.on = "none" /\ s1.else = One(failed) /\ s1.to = g /\ s2.op = "note" /\ s2.on = "cached_gain" /\ s2.to = g
      BY DEF Note, Do, Step
    <2>2. Asked(g) = Three(s1, s2, settled) /\ Answered(g) = Two(s2, settled)
      BY DEF Asked, Answered
    <2> HIDE DEF s1, s2, settled, failed
    <2> QED
      BY <2>1, <2>2, HeadTwo, HeadThree
  <1> HIDE DEF p, s, settled, failed
  <1>5. CASE Trusted /\ \E g : p = Asked(g)
    <2>1. PICK g : p = Asked(g)
      BY <1>5
    <2>2. Trusted /\ s.op = "gain" /\ s.on = "none" /\ s.else = One(failed) /\ Tail(p) = Answered(s.to)
      BY <1>1, <1>4, <1>5, <2>1
    <2> QED
      BY <2>2 DEF s, p, failed
  <1>6. CASE \E g : p = Answered(g) /\ gain = g
    <2>1. s.op = "note" /\ s.on = "cached_gain" /\ s.to = gain /\ Tail(p) = One(settled)
      BY <1>1, <1>4, <1>6
    <2> QED
      BY <2>1 DEF s, p, settled
  <1>7. CASE p = One(settled) /\ Sure
    <2>1. s = settled /\ Tail(p) = <<>> /\ Sure
      BY <1>1, <1>7, HeadOne
    <2> QED
      BY <1>2, <2>1 DEF s, p
  <1>8. CASE p = One(failed)
    <2>1. s = failed /\ Tail(p) = <<>>
      BY <1>1, <1>8, HeadOne
    <2> QED
      BY <1>2, <2>1 DEF s, p
  <1> QED
    BY <1>3, <1>5, <1>6, <1>7, <1>8

LEMMA GainUnmoved == ASSUME GainOK PROVE Unmoved
  BY GainAhead DEF Unmoved

LEMMA GainCommand ==
    ASSUME ControlsOK, ProgramOK, GainOK, NEW name, NEW program, Command(name, program),
           name = "gain" => \E g : program = Asked(g)
    PROVE  ControlsOK' /\ GainOK'
PROOF
  <1>1. Idle /\ mediaMain'.cmd = name /\ mediaMain'.todo = program /\ before'.gain = gain
        /\ gain' = gain /\ stale' = stale /\ monitor' = monitor /\ cached' = cached
    BY DEF Command
  <1>2. Trusted
    BY <1>1, TrustedAtRest
  <1>3. Trusted' /\ ControlsOK'
    BY <1>1, <1>2 DEF Trusted, ControlsOK
  <1> QED
    BY <1>1, <1>3 DEF GainOK

LEMMA GainRecord ==
    ASSUME ControlsOK, GainOK, UNCHANGED <<gain, mediaMain, before, stale, monitor, cached>>
    PROVE  ControlsOK' /\ GainOK'
PROOF
  <1>1. (Trusted => Trusted') /\ (Sure => Sure') /\ ControlsOK'
    BY DEF Trusted, Sure, ControlsOK
  <1> QED
    BY <1>1 DEF GainOK

LEMMA GainExpand ==
    ASSUME MainOK, ControlsOK, GainOK, Expand
    PROVE  ControlsOK' /\ GainOK'
PROOF
  <1>1. mediaMain.cmd # "gain"
    <2>1. ~Idle /\ Head1.op \in Macros
      BY DEF Expand
    <2> QED
      BY <2>1, GainAhead DEF Macros
  <1>2. (Trusted => Trusted') /\ ControlsOK' /\ gain' = gain /\ before' = before /\ monitor' = monitor
    BY DEF Trusted, ControlsOK, Expand
  <1> DEFINE q == Expansion(impl, Head1) \o Tail(mediaMain.todo)
  <1>3. mediaMain' = [mediaMain EXCEPT !.todo = q]
    BY DEF Expand
  <1> HIDE DEF q
  <1>4. mediaMain'.cmd = mediaMain.cmd
    BY <1>3 DEF MainOK
  <1> QED
    BY <1>1, <1>2, <1>4 DEF GainOK

LEMMA GainMonitored ==
    ASSUME MainOK, ControlsOK, GainOK, StopMonitor \/ StartMonitor, ProgramOK
    PROVE  ControlsOK' /\ GainOK'
PROOF
  <1>1. ~Idle /\ Head1.op \in {"stop_monitor", "start_monitor"}
    BY DEF StopMonitor, StartMonitor, MediaAt
  <1>2. mediaMain.cmd # "gain"
    BY <1>1, GainAhead
  <1>3. mediaMain' = Rest /\ before' = before /\ gain' = gain /\ stale' = stale
    BY DEF StopMonitor, StartMonitor
  <1>4. mediaMain'.cmd = mediaMain.cmd
    BY <1>3, MainSteps
  <1>5. CASE StopMonitor
    <2>1. monitor' = [monitor EXCEPT !.pc = "none"] /\ cached' = cached
      BY <1>5 DEF StopMonitor
    <2>2. DOMAIN monitor' = {"pc", "gen", "value"} /\ monitor'.pc = "none" /\ monitor'.gen = monitor.gen
      BY <2>1 DEF ControlsOK
    <2> QED
      BY <1>2, <1>3, <1>4, <2>1, <2>2 DEF GainOK, ControlsOK
  <1>6. CASE StartMonitor
    <2>1. impl.open
      <3>1. Timely(Began, Head1, World) /\ World.impl = impl /\ Head1.op = "start_monitor"
        BY <1>1, <1>6, HeadGood, WorldIs DEF StartMonitor, MediaAt
      <3> QED
        BY <3>1 DEF Timely
    <2>2. monitor' = [monitor EXCEPT !.pc = "test"] /\ cached' = [cached EXCEPT !.valid = FALSE]
      BY <1>6, <2>1 DEF StartMonitor
    <2>3. DOMAIN monitor' = {"pc", "gen", "value"} /\ monitor'.pc = "test" /\ monitor'.gen = monitor.gen
          /\ DOMAIN cached' = {"valid", "gain", "generation"} /\ cached'.valid = FALSE /\ cached'.generation = cached.generation
      BY <2>2 DEF ControlsOK
    <2>4. Trusted'
      BY <2>3 DEF Trusted
    <2> QED
      BY <1>2, <1>3, <1>4, <2>3, <2>4 DEF GainOK, ControlsOK
  <1> QED
    BY <1>5, <1>6

LEMMA GainCall ==
    ASSUME MainOK, ProgramOK, ControlsOK, GainOK, Call
    PROVE  ControlsOK' /\ GainOK'
PROOF
  <1> DEFINE s == Head1
  <1>1. ~Idle /\ s.op \in Fallible \cup {"drop", "close"}
    BY DEF Call
  <1>2. mediaMain' = Rest /\ before' = before /\ monitor' = monitor /\ cached' = cached
        /\ gain' = (IF s.op = "gain" THEN s.to ELSE gain) /\ stale' = (IF s.op = "open" THEN {} ELSE stale)
    BY <1>1 DEF Call, MediaAt
  <1>3. mediaMain'.cmd = mediaMain.cmd /\ mediaMain'.todo = Tail(mediaMain.todo)
    BY <1>2, MainSteps
  <1>4. ControlsOK'
    BY <1>2 DEF ControlsOK
  <1>5. CASE mediaMain.cmd = "gain"
    <2>1. s.op # "note"
      BY <1>1 DEF Fallible
    <2>2. s.op = "gain" /\ Tail(mediaMain.todo) = Answered(s.to)
      BY <1>1, <1>5, <2>1, GainAhead
    <2>3. mediaMain'.todo = Answered(s.to) /\ gain' = s.to
      BY <1>2, <1>3, <2>2
    <2> QED
      BY <1>3, <1>4, <1>5, <2>3 DEF GainOK
  <1>6. CASE mediaMain.cmd # "gain"
    <2>1. Timely(Began, s, World) /\ Began.cmd = mediaMain.cmd /\ Began.gain = before.gain
          /\ World.off = (monitor.pc = "none")
      BY <1>1, HeadGood, WorldIs DEF Began
    <2>2. gain = before.gain /\ (monitor.pc = "none" \/ Trusted)
      BY <1>6 DEF GainOK
    <2>3. s.op = "gain" => s.to = before.gain
      BY <1>6, <2>1 DEF Timely
    <2>4. s.op = "open" => monitor.pc = "none"
      BY <2>1 DEF Timely
    <2>5. gain' = gain
      BY <1>2, <2>2, <2>3
    <2>6. s.op # "open" /\ Trusted => Trusted'
      BY <1>2, <2>5 DEF Trusted
    <2> QED
      BY <1>2, <1>3, <1>4, <1>6, <2>2, <2>4, <2>5, <2>6 DEF GainOK
  <1> QED
    BY <1>5, <1>6

LEMMA GainFails ==
    ASSUME MainOK, ProgramOK, ControlsOK, GainOK, CallFails
    PROVE  ControlsOK' /\ GainOK'
PROOF
  <1> DEFINE s == Head1
             q == s.else
  <1>1. ~Idle /\ s.op \in Fallible
    BY DEF CallFails
  <1>2. before' = before /\ monitor' = monitor /\ cached' = cached /\ stale' = stale
        /\ gain' \in (IF s.op = "gain" THEN {gain, s.to} ELSE {gain})
        /\ mediaMain' = [mediaMain EXCEPT !.todo = q, !.ok = FALSE, !.fault = TRUE]
    BY <1>1 DEF CallFails, MediaAt
  <1>3. ControlsOK'
    BY <1>2 DEF ControlsOK
  <1>4. mediaMain'.cmd = mediaMain.cmd /\ mediaMain'.todo = q
    <2> HIDE DEF q
    <2> QED
      BY <1>2 DEF MainOK
  <1>5. CASE mediaMain.cmd = "gain"
    <2>1. s.op # "note"
      BY <1>1 DEF Fallible
    <2>2. q = One(Note("stale", "gain"))
      BY <1>1, <1>5, <2>1, GainAhead
    <2> QED
      BY <1>3, <1>4, <1>5, <2>2 DEF GainOK
  <1>6. CASE mediaMain.cmd # "gain"
    <2>1. Timely(Began, s, World) /\ Began.cmd = mediaMain.cmd /\ Began.gain = before.gain
      BY <1>1, HeadGood DEF Began
    <2>2. gain = before.gain /\ (monitor.pc = "none" \/ Trusted)
      BY <1>6 DEF GainOK
    <2>3. s.op = "gain" => s.to = before.gain
      BY <1>6, <2>1 DEF Timely
    <2>4. gain' = gain
      BY <1>2, <2>2, <2>3
    <2>5. Trusted => Trusted'
      BY <1>2, <2>4 DEF Trusted
    <2> QED
      BY <1>2, <1>3, <1>4, <1>6, <2>2, <2>4, <2>5 DEF GainOK
  <1> QED
    BY <1>5, <1>6

LEMMA GainNote ==
    ASSUME MainOK, ProgramOK, ControlsOK, GainOK, NoteStep
    PROVE  ControlsOK' /\ GainOK'
PROOF
  <1> DEFINE s == Head1
  <1>1. ~Idle /\ s.op \in Notes
    BY DEF NoteStep, Notes
  <1>2. mediaMain' = Rest /\ before' = before /\ monitor' = monitor /\ gain' = gain
    BY DEF NoteStep
  <1>3. cached' = (IF s.on = "cached_gain"
                   THEN [cached EXCEPT !.gain = s.to, !.generation = @ + 1] ELSE cached)
    BY DEF NoteStep
  <1>4. stale' = (CASE s.on = "stale" -> stale \cup {s.to} [] s.on = "settled" -> stale \ {s.to}
                      [] s.on = "moved" /\ "zoom" \in stale -> stale \cup {s.to} [] OTHER -> stale)
    BY DEF NoteStep
  <1>5. mediaMain'.cmd = mediaMain.cmd /\ mediaMain'.todo = Tail(mediaMain.todo)
    BY <1>2, MainSteps
  <1>6. CASE mediaMain.cmd = "gain"
    <2>1. s.op # "gain"
      BY <1>1 DEF Notes
    <2>2. \/ s.on = "cached_gain" /\ s.to = gain /\ Tail(mediaMain.todo) = One(Note("settled", "gain"))
          \/ s.on = "settled" /\ s.to = "gain" /\ Tail(mediaMain.todo) = <<>> /\ Sure
          \/ s.on = "stale" /\ s.to = "gain" /\ Tail(mediaMain.todo) = <<>>
      BY <1>1, <1>6, <2>1, GainAhead
    <2>3. CASE s.on = "cached_gain" /\ s.to = gain /\ Tail(mediaMain.todo) = One(Note("settled", "gain"))
      <3>1. cached' = [cached EXCEPT !.gain = gain, !.generation = cached.generation + 1]
        BY <1>3, <2>3
      <3>2. DOMAIN cached' = {"valid", "gain", "generation"} /\ cached'.gain = gain
            /\ cached'.generation = cached.generation + 1
        BY <3>1 DEF ControlsOK
      <3>3. ControlsOK' /\ Sure'
        BY <1>2, <3>2 DEF ControlsOK, Sure
      <3> QED
        BY <1>5, <1>6, <2>3, <3>3 DEF GainOK
    <2>4. CASE s.on = "settled" /\ s.to = "gain" /\ Tail(mediaMain.todo) = <<>> /\ Sure
      <3>1. cached' = cached /\ Trusted' /\ ControlsOK'
        BY <1>2, <1>3, <2>4 DEF Trusted, Sure, ControlsOK
      <3> QED
        BY <1>5, <1>6, <2>4, <3>1 DEF GainOK
    <2>5. CASE s.on = "stale" /\ s.to = "gain" /\ Tail(mediaMain.todo) = <<>>
      <3>1. cached' = cached /\ "gain" \in stale'
        BY <1>3, <1>4, <2>5
      <3>2. Trusted' /\ ControlsOK'
        BY <1>2, <3>1 DEF Trusted, ControlsOK
      <3> QED
        BY <1>5, <1>6, <2>5, <3>2 DEF GainOK
    <2> QED
      BY <2>2, <2>3, <2>4, <2>5
  <1>7. CASE mediaMain.cmd # "gain"
    <2>1. Timely(Began, s, World) /\ Began.cmd = mediaMain.cmd
      BY <1>1, HeadGood DEF Began
    <2>2. s.on # "cached_gain" /\ (s.on \in {"stale", "settled", "moved"} => s.to # "gain")
      BY <1>1, <1>7, <2>1 DEF Timely, Noted, Unsettles
    <2>3. cached' = cached /\ ("gain" \in stale' <=> "gain" \in stale)
      BY <1>3, <1>4, <2>2
    <2>4. (Trusted => Trusted') /\ ControlsOK'
      BY <1>2, <2>3 DEF Trusted, ControlsOK
    <2> QED
      BY <1>2, <1>5, <1>7, <2>4 DEF GainOK
  <1> QED
    BY <1>6, <1>7

-----------------------------------------------------------------------------
(* The invariant as a whole. *)

MediaInv == MainOK /\ ProgramOK /\ FilesOK /\ ControlsOK /\ GainOK

LEMMA ProgramInit == ASSUME MediaInit PROVE MainOK /\ ProgramOK
PROOF
  <1> DEFINE no == FALSE
             d == Fresh(config, config, no)
             e == WithOff(d, no)
             a == Attrs(no)
             k == Began
  <1>1. /\ config \in Configs /\ impl = Opened(config) /\ hw = On /\ inverted = no /\ rec.on = no
        /\ mediaMain = Ready /\ stale = {} /\ monitor.pc = "test"
    BY DEF MediaInit, NoFiles
  <1>2. mediaMain.cmd = "none" /\ mediaMain.todo = <<>> /\ mediaMain.fault = FALSE /\ MainOK
    BY <1>1 DEF MainOK, Ready
  <1>3. On = Hardware(Binds(d), a, Running, d) /\ Opened(config) = Structure(a, d)
    BY OpenedCamera, Zenon
  <1>4. no \in BOOLEAN /\ no = FALSE
    OBVIOUS
  <1> HIDE DEF no
  <1>5. d \in Scenes /\ True(d) /\ d.cfg = config /\ d.config = config /\ d.upside = no /\ d.on = no
    <2>1. config \in Configs
      BY <1>1
    <2>2. Unwatched(d, config, config, no)
      BY <1>4, <2>1, FreshIs, Zenon
    <2> HIDE DEF d
    <2> QED
      BY <1>4, <2>2 DEF Unwatched
  <1>6. d.stale = {} /\ d.thermal = no
    BY <1>4 DEF Fresh
  <1> HIDE DEF d
  <1>7. /\ e \in Scenes
        /\ e.optics = d.optics /\ e.crop = d.crop /\ e.flip = d.flip /\ e.still = d.still
        /\ e.group = d.group /\ e.thermal = d.thermal /\ e.zoom = d.zoom /\ e.hfov = d.hfov
        /\ e.ratio = d.ratio /\ e.inverted = d.inverted /\ e.cfg = d.cfg /\ e.config = d.config
        /\ e.upside = d.upside /\ e.stale = d.stale /\ e.on = d.on /\ e.off = no
    BY <1>4, <1>5, WithOffIs
  <1> HIDE DEF e
  <1>8. World = Settled(e)
    <2> DEFINE b == Binds(d)
               v == monitor.pc = "none"
               t == stale \ {"gain"}
    <2>1. Settled(e) = Camera(b, a, Running, a, e)
      BY <1>6, <1>7, SettledIs
    <2>2. v = no /\ t = {}
      BY <1>1, <1>4
    <2>3. World = [hw |-> hw, impl |-> impl, config |-> config, inverted |-> inverted, stale |-> t, on |-> rec.on, off |-> v]
      BY DEF World
    <2>4. hw = Hardware(b, a, Running, d) /\ impl = Structure(a, d)
      BY <1>1, <1>3
    <2> HIDE DEF a, b, v, t
    <2>5. Hardware(b, a, Running, e) = Hardware(b, a, Running, d) /\ Structure(a, e) = Structure(a, d)
      BY <1>7 DEF Hardware, Structure
    <2> QED
      BY <1>1, <1>5, <1>6, <1>7, <2>1, <2>2, <2>3, <2>4, <2>5 DEF Camera
  <1>9. True(e) /\ e.off = FALSE /\ e.cfg = e.config
    <2>1. True(e)
      BY <1>5, <1>7 DEF True
    <2> QED
      BY <1>4, <1>5, <1>7, <2>1
  <1>10. k.cmd # "configure"
    BY <1>2 DEF Began
  <1> HIDE DEF k
  <1> DEFINE f == mediaMain.fault
  <1> HIDE DEF f
  <1>11. Good(k, <<>>, f, Settled(e))
    BY <1>7, <1>9, <1>10, Ends
  <1> QED
    BY <1>2, <1>8, <1>11 DEF ProgramOK, k, f

LEMMA MediaStarts == ASSUME MediaInit PROVE MediaInv
PROOF
  <1>1. FilesOK
    <2>1. rec = NoFiles /\ impl = Opened(config)
      BY DEF MediaInit
    <2> QED
      BY <2>1, NoFilesOK, OpenNow DEF FilesOK
  <1>2. ControlsOK /\ Trusted /\ gain = before.gain /\ mediaMain.cmd # "gain"
    BY DEF MediaInit, ControlsOK, Trusted, Ready
  <1>3. GainOK
    BY <1>2 DEF GainOK
  <1> QED
    BY <1>1, <1>2, <1>3, ProgramInit DEF MediaInv

LEMMA MediaSteps == ASSUME MediaInv, [MediaNext]_mediaVars PROVE MediaInv'
PROOF
  <1> USE DEF MediaInv
  <1>1. CASE SetZoom \/ SetLens \/ SetThermalMain \/ SetInverted \/ CapturePhoto \/ Configure \/ SetGain
    <2>1. MainOK' /\ ProgramOK'
      BY <1>1, ProgramZooms, ProgramConfigures
    <2>2. \E name, program : Command(name, program) /\ (name = "gain" => \E g : program = Asked(g))
      <3>1. CASE SetGain
        <4>1. PICK g \in 0 .. 1 : Command("gain", Asked(g))
          BY <3>1 DEF SetGain, Asked, Three, One
        <4> QED
          BY <4>1
      <3>2. CASE SetZoom
        BY <3>2 DEF SetZoom
      <3>3. CASE SetLens
        BY <3>3 DEF SetLens
      <3>4. CASE SetThermalMain
        BY <3>4 DEF SetThermalMain
      <3>5. CASE SetInverted
        BY <3>5 DEF SetInverted
      <3>6. CASE CapturePhoto
        BY <3>6 DEF CapturePhoto
      <3>7. CASE Configure
        BY <3>7 DEF Configure
      <3> QED
        BY <1>1, <3>1, <3>2, <3>3, <3>4, <3>5, <3>6, <3>7
    <2>3. PICK name, program : Command(name, program) /\ (name = "gain" => \E g : program = Asked(g))
      BY <2>2
    <2>4. ControlsOK' /\ GainOK'
      BY <2>3, GainCommand
    <2>5. FilesOK'
      BY <2>3 DEF Command, FilesOK
    <2> QED
      BY <2>1, <2>4, <2>5
  <1>2. CASE Expand
    <2>1. FilesOK'
      BY <1>2 DEF Expand, FilesOK
    <2> QED
      BY <1>2, <2>1, ProgramExpands, GainExpand
  <1>3. CASE Call
    BY <1>3, ProgramCalls, FilesCall, GainCall
  <1>4. CASE CallFails
    BY <1>4, ProgramFails, FilesCall, GainFails
  <1>5. CASE NoteStep
    BY <1>5, GainUnmoved, ProgramNotes, FilesNote, GainNote
  <1>6. CASE StopMonitor \/ StartMonitor
    <2>1. FilesOK'
      BY <1>6 DEF StopMonitor, StartMonitor, FilesOK
    <2> QED
      BY <1>6, <2>1, ProgramMonitor, GainMonitored
  <1>7. CASE MonitorReads \/ MonitorRead \/ MonitorStores
    <2>1. FilesOK'
      BY <1>7 DEF MonitorReads, MonitorRead, MonitorStores, FilesOK
    <2>2. DOMAIN monitor = {"pc", "gen", "value"}
      BY DEF ControlsOK
    <2> QED
      BY <1>7, <2>1, <2>2, ProgramUnseen, GainMonitor
  <1>8. CASE StartRecording \/ StopRecording \/ \E i \in 1 .. 2, key \in BOOLEAN : consume_frame(i, key)
    <2>1. FilesOK'
      BY <1>8, FilesRecord
    <2>2. /\ Idle /\ UNCHANGED <<hw, gain, impl, config, inverted, mediaMain, before, stale, monitor, cached>>
      BY <1>8 DEF StartRecording, StopRecording, consume_frame, LockFree
    <2>3. rec'.on \in BOOLEAN
      BY <2>1 DEF FilesOK
    <2> QED
      BY <2>1, <2>2, <2>3, ProgramRecords, GainRecord
  <1>9. CASE UNCHANGED mediaVars
    <2>1. MainOK' /\ ProgramOK' /\ FilesOK' /\ ControlsOK'
      <3>1. World' = World /\ Began' = Began
        BY <1>9 DEF World, Began, mediaVars
      <3> QED
        BY <1>9, <3>1 DEF mediaVars, MainOK, ProgramOK, FilesOK, ControlsOK
    <2>2. GainOK'
      BY <1>9, GainRecord DEF mediaVars
    <2> QED
      BY <2>1, <2>2
  <1> QED
    BY <1>1, <1>2, <1>3, <1>4, <1>5, <1>6, <1>7, <1>8, <1>9 DEF MediaNext

\* Between commands, what is noted is what the camera does.
LEMMA MediaShows == ASSUME MediaInv PROVE Mt11Honest
PROOF
  <1>1. RecordingWhole
    BY DEF MediaInv, FilesOK, RecordingWhole
  <1>2. CASE ~Idle
    BY <1>1, <1>2 DEF Mt11Honest, Consistent, ViewHonest, ConfiguresOrRestores, CacheHonest
  <1>3. CASE Idle
    <2>1. PICK d \in Scenes :
             /\ World = Settled(d) /\ True(d) /\ d.off = FALSE /\ d.cfg = d.config
             /\ mediaMain.cmd = "configure" => /\ mediaMain.fault => d.config = before.config
                                               /\ d.zoom = before.impl.zoom /\ d.thermal = before.impl.thermal
      BY <1>3, AtRest DEF MediaInv
    <2> DEFINE b == Binds(d)
               a == Attrs(d.thermal)
    <2>2. hw = Hardware(b, a, Running, d) /\ impl = Structure(a, d) /\ config = d.config
          /\ stale \ {"gain"} = d.stale
      BY <2>1, SettledWorld
    <2>3. \A v \in Venc : b[v] = Source(v, d.group, d.thermal) /\ a[v] = Attr(v, d.thermal) /\ Running[v] = TRUE
      BY DEF Binds, Attrs, Running
    <2> HIDE DEF a, b
    <2>4. /\ hw.bind = b /\ hw.attr = a /\ hw.run = Running /\ hw.optics = d.optics /\ hw.crop = d.crop
          /\ hw.flip = d.flip /\ hw.still = d.still
          /\ impl.open = TRUE /\ impl.group = d.group /\ impl.thermal = d.thermal /\ impl.zoom = d.zoom
          /\ impl.hfov = d.hfov /\ impl.ratio = d.ratio /\ impl.attr = a /\ impl.inverted = d.inverted /\ impl.cfg = d.cfg
      BY <2>2 DEF Hardware, Structure
    <2>5. ("flip" \in stale <=> "flip" \in d.stale) /\ ("view" \in stale <=> "view" \in d.stale)
      BY <2>2
    <2>6. Consistent
      <3>1. \A v \in Venc : hw.run[v]
        BY <2>3, <2>4
      <3>2. \A v \in Venc : hw.bind[v] = Source(v, impl.group, impl.thermal)
        BY <2>3, <2>4
      <3>3. \A v \in Venc : hw.attr[v] = impl.attr[v] /\ impl.attr[v] = Attr(v, impl.thermal)
        BY <2>3, <2>4
      <3>4. hw.crop = impl.ratio /\ hw.still = {} /\ ("flip" \notin stale => \A p \in 1 .. Ports : hw.flip[p] = impl.inverted)
        BY <2>1, <2>4, <2>5 DEF True
      <3> QED
        BY <3>1, <3>2, <3>3, <3>4, Zenon DEF Consistent
    <2>7. ViewHonest
      BY <2>1, <2>4, <2>5, Zenon DEF True, ViewHonest
    <2>8. ConfiguresOrRestores
      <3>1. mediaMain.fault \in BOOLEAN /\ mediaMain.ok = ~mediaMain.fault
        BY DEF MediaInv, MainOK
      <3>2. impl.open /\ impl.cfg = config
        BY <2>1, <2>2, <2>4
      <3>3. mediaMain.cmd = "configure" => /\ ~mediaMain.ok => config = before.config
                                           /\ impl.zoom = before.impl.zoom /\ impl.thermal = before.impl.thermal
        BY <2>1, <2>2, <2>4, <3>1
      <3> QED
        BY <3>2, <3>3 DEF ConfiguresOrRestores
    <2>9. CacheHonest
      BY <1>3, TrustedAtRest DEF MediaInv, CacheHonest, Trusted
    <2> QED
      BY <1>1, <2>6, <2>7, <2>8, <2>9 DEF Mt11Honest
  <1> QED
    BY <1>2, <1>3

\* After every command of the MT11, whether it succeeded or one of its vendor
\* calls failed halfway, what the media structure notes is what the camera
\* does: sources, attributes, crops, field of view, configuration, recording
\* files and cached gain (mt11/media.c, media/media.c).
THEOREM Mt11StaysHonest == MediaSpec => []Mt11Honest
PROOF
  <1>1. MediaInit => MediaInv
    BY MediaStarts
  <1>2. MediaInv /\ [MediaNext]_mediaVars => MediaInv'
    BY MediaSteps
  <1>3. MediaInv => Mt11Honest
    BY MediaShows
  <1> QED
    BY <1>1, <1>2, <1>3, PTL DEF MediaSpec
=============================================================================
