--------------------------- MODULE LiveVideo_proofs ---------------------------
(***************************************************************************)
(* Proofs about LiveVideo, for any number of streams and viewers: the      *)
(* inductive invariant IInv, and from it that the server is freed only     *)
(* after its last thread and that a viewer only copies what exists; and    *)
(* InOrder, from which viewers are sent access units in encoder order.     *)
(***************************************************************************)
EXTENDS LiveVideo, FiniteSetTheorems, TLAPS

\* The states of a client thread that exists.
Live == {"hello", "open", "test", "check", "wait", "write", "finish"}

\* What Behind and TakesFrame say of one viewer.
Sound(w) ==
    /\ w.pc \in Watching =>
         /\ w.config <= stream[w.stream].config
         /\ w.config = stream[w.stream].config => w.generation <= stream[w.stream].generation
    /\ w.pc \in {"none", "new", "counted", "hello"} => w.generation = 0
    /\ w.pc = "write" => w.frame # NoFrame

\* What a step of client_thread, client_finished apart, does.
ClientEffect(v) ==
    \E new \in Viewer :
        /\ Client(v, new)
        /\ viewer[v].pc \in Live
        /\ new.pc \in Live
        /\ Sound(new)

LEMMA NoFrameIsNone == NoFrame \notin Frame
  BY LiveVideoAssumption DEF NoFrame, Frame

\* A broadcast changes only where viewers are, from "wait" to "check".
LEMMA WokenKeeps ==
    ASSUME NEW w \in [Viewers -> Viewer]
    PROVE  /\ Woken(w) \in [Viewers -> Viewer]
           /\ \A v \in Viewers :
                /\ Woken(w)[v].pc = IF w[v].pc = "wait" THEN "check" ELSE w[v].pc
                /\ Woken(w)[v].stream = w[v].stream
                /\ Woken(w)[v].config = w[v].config
                /\ Woken(w)[v].generation = w[v].generation
                /\ Woken(w)[v].frame = w[v].frame
                /\ Woken(w)[v].sent = w[v].sent
  <1>1. ASSUME NEW v \in Viewers
        PROVE  /\ Woken(w)[v] \in Viewer
               /\ Woken(w)[v].pc = IF w[v].pc = "wait" THEN "check" ELSE w[v].pc
               /\ Woken(w)[v].stream = w[v].stream
               /\ Woken(w)[v].config = w[v].config
               /\ Woken(w)[v].generation = w[v].generation
               /\ Woken(w)[v].frame = w[v].frame
               /\ Woken(w)[v].sent = w[v].sent
    BY DEF Woken, Viewer, ViewerPC
  <1> QED
    BY <1>1 DEF Woken

-----------------------------------------------------------------------------
(* The client threads *)

LEMMA ClientSteps ==
    ASSUME IInv, NEW v \in Viewers,
           \/ Hello(v) \/ Open(v) \/ Test(v) \/ CheckWait(v) \/ CheckLeave(v)
           \/ CheckTake(v) \/ Write(v) \/ SpuriousWake(v)
    PROVE  ClientEffect(v)
  <1> USE LiveVideoAssumption
  <1>1. viewer[v] \in Viewer /\ viewer \in [Viewers -> Viewer]
    BY DEF IInv, TypeOK
  <1>2. stream \in [Streams -> Stream]
    BY Zenon DEF IInv, TypeOK
  <1>3. Sound(viewer[v])
    BY DEF IInv, Behind, TakesFrame, Sound
  <1>4. ASSUME NEW pc \in Live, viewer[v].pc \in Live,
               pc \notin {"hello", "write"}, pc \in Watching => viewer[v].pc \in Watching
        PROVE  To(v, pc) \in Viewer /\ To(v, pc).pc = pc /\ Sound(To(v, pc))
    <2>1. /\ To(v, pc) \in Viewer
          /\ To(v, pc).pc = pc
          /\ To(v, pc).stream = viewer[v].stream
          /\ To(v, pc).config = viewer[v].config
          /\ To(v, pc).generation = viewer[v].generation
      BY <1>1, <1>4 DEF To, Viewer, ViewerPC, Live
    <2> QED
      BY <1>3, <1>4, <2>1 DEF Sound, Live, Watching
  <1>5. CASE Hello(v)
    <2>1. CASE Client(v, To(v, "finish"))
      BY <1>4, <1>5, <2>1 DEF ClientEffect, Hello, Live, Watching
    <2>2. ASSUME NEW s \in Streams, Playable(s),
                 Client(v, [viewer[v] EXCEPT !.pc = "open", !.stream = s,
                                             !.config = stream[s].config])
          PROVE  ClientEffect(v)
      <3> DEFINE new == [viewer[v] EXCEPT !.pc = "open", !.stream = s, !.config = stream[s].config]
      <3>1. new \in Viewer /\ new.pc = "open" /\ new.stream = s /\ new.config = stream[s].config
            /\ new.generation = viewer[v].generation
        BY <1>1, <1>2 DEF Viewer, ViewerPC, Stream
      <3>2. viewer[v].generation = 0
        BY <1>5 DEF Hello, IInv, Behind
      <3>3. Sound(new)
        BY <1>2, <3>1, <3>2 DEF Sound, Stream
      <3> QED
        BY <1>2, <1>5, <2>2, <3>1, <3>2, <3>3 DEF ClientEffect, Hello, Live
    <2> QED
      BY <1>5, <2>1, <2>2 DEF Hello
  <1>6. CASE Open(v)
    BY <1>4, <1>6 DEF ClientEffect, Open, Live, Watching
  <1>7. CASE Test(v)
    BY <1>4, <1>7 DEF ClientEffect, Test, Live, Watching
  <1>8. CASE CheckWait(v)
    BY <1>4, <1>8 DEF ClientEffect, CheckWait, Live, Watching
  <1>9. CASE CheckLeave(v)
    BY <1>4, <1>9 DEF ClientEffect, CheckLeave, Live, Watching
  <1>10. CASE CheckTake(v)
    <2>1. CASE Client(v, To(v, "finish"))
      BY <1>4, <1>10, <2>1 DEF ClientEffect, CheckTake, Live, Watching
    <2>2. CASE Client(v, Taken(v))
      <3> DEFINE s == viewer[v].stream
      <3>1. s \in Streams
        BY <1>1 DEF Viewer
      <3>2. /\ Taken(v) \in Viewer
            /\ Taken(v).pc = "write"
            /\ Taken(v).stream = s
            /\ Taken(v).config = viewer[v].config
            /\ Taken(v).generation = stream[s].generation
            /\ Taken(v).frame = stream[s].frame
        BY <1>1, <1>2, <3>1 DEF Taken, Viewer, ViewerPC, Stream
      <3>3. viewer[v].config = stream[s].config /\ stream[s].generation # viewer[v].generation
        BY <1>10 DEF CheckTake, Superseded
      <3>4. viewer[v].generation <= stream[s].generation
        BY <1>3, <1>10, <3>3 DEF Sound, CheckTake, Watching
      <3>5. stream[s].generation # 0
        BY <1>1, <1>2, <3>1, <3>3, <3>4 DEF Viewer, Stream
      <3>6. stream[s].frame # NoFrame
        BY <3>1, <3>5, NoFrameIsNone DEF IInv, Generations
      <3>7. Sound(Taken(v))
        BY <1>1, <1>2, <3>1, <3>2, <3>3, <3>6 DEF Sound, Viewer, Stream
      <3> QED
        BY <1>10, <2>2, <3>2, <3>7 DEF ClientEffect, CheckTake, Live
    <2> QED
      BY <1>10, <2>1, <2>2 DEF CheckTake
  <1>11. CASE Write(v)
    <2> DEFINE started == viewer[v].started \/ viewer[v].frame.key
               next == [viewer[v] EXCEPT !.pc = "test", !.frame = NoFrame, !.started = started]
               sent == [next EXCEPT !.sent = viewer[v].frame.id]
               left == [next EXCEPT !.pc = "finish"]
    <2>1. started \in BOOLEAN
      BY Zenon
    <2>2. viewer[v].pc = "write" /\ (Client(v, next) \/ Client(v, sent) \/ Client(v, left))
      BY <1>11 DEF Write
    <2>3. viewer[v].frame \in Frame \cup {NoFrame}
      BY <1>1 DEF Viewer
    <2>4. viewer[v].frame.id \in 0 .. MaxFrames
      BY <2>3 DEF Frame, NoFrame
    <2> HIDE DEF started
    <2>5. /\ next \in Viewer /\ next.pc = "test" /\ next.stream = viewer[v].stream
          /\ next.config = viewer[v].config /\ next.generation = viewer[v].generation
      BY <1>1, <2>1 DEF Viewer, ViewerPC
    <2> HIDE DEF next
    <2>6. /\ sent \in Viewer /\ sent.pc = "test" /\ sent.stream = viewer[v].stream
          /\ sent.config = viewer[v].config /\ sent.generation = viewer[v].generation
      BY <1>1, <2>4, <2>5 DEF Viewer, ViewerPC
    <2>7. left \in Viewer /\ left.pc = "finish"
      BY <1>1, <2>5 DEF Viewer, ViewerPC
    <2> HIDE DEF sent, left
    <2>8. Sound(next) /\ Sound(sent) /\ Sound(left)
      BY <1>3, <2>2, <2>5, <2>6, <2>7 DEF Sound, Watching
    <2> QED
      BY <2>2, <2>5, <2>6, <2>7, <2>8 DEF ClientEffect, Live
  <1>12. CASE SpuriousWake(v)
    BY <1>4, <1>12 DEF ClientEffect, SpuriousWake, Live, Watching
  <1> QED
    BY <1>5, <1>6, <1>7, <1>8, <1>9, <1>10, <1>11, <1>12

\* client_thread disturbs no other thread's part of the invariant.
LEMMA ClientKeeps ==
    ASSUME IInv, NEW v \in Viewers, ClientEffect(v)
    PROVE  IInv'
  <1> USE LiveVideoAssumption
  <1>1. PICK new \in Viewer :
          Client(v, new) /\ viewer[v].pc \in Live /\ new.pc \in Live /\ Sound(new)
    BY DEF ClientEffect
  <1>2. /\ viewer \in [Viewers -> Viewer]
        /\ viewer' = [viewer EXCEPT ![v] = new]
        /\ UNCHANGED <<stream, encoder, capture, frames, clients, server,
                       accepts, listening, stop, closer>>
    BY <1>1 DEF IInv, TypeOK, Client
  <1>3. TypeOK'
    BY <1>2 DEF IInv, TypeOK
  <1>4. Users' = Users
    BY <1>1, <1>2 DEF Users, Live
  <1>5. Accounted'
    BY <1>2, <1>4 DEF IInv, Accounted
  <1>6. OneAccepted'
    BY <1>1, <1>2 DEF IInv, OneAccepted, Live
  <1>7. CloserOrder' /\ Generations'
    BY <1>2 DEF IInv, CloserOrder, Generations
  <1>8. Behind' /\ TakesFrame'
    BY <1>1, <1>2 DEF IInv, Behind, TakesFrame, Sound
  <1> QED
    BY <1>3, <1>5, <1>6, <1>7, <1>8 DEF IInv

\* client_finished removes one user, whoever calls it.
LEMMA FinishedKeeps ==
    ASSUME IInv, NEW v \in Viewers, viewer[v].pc \in {"counted", "finish"},
           ClientFinished(v),
           server' = IF viewer[v].pc = "counted" THEN "test" ELSE server,
           UNCHANGED <<stream, encoder, capture, frames, accepts, listening, stop>>
    PROVE  IInv'
  <1> USE LiveVideoAssumption
  <1> DEFINE w == [viewer EXCEPT ![v] = Gone(viewer[v].stream)]
  <1>1. viewer \in [Viewers -> Viewer] /\ clients \in Nat /\ closer \in CloserPC
        /\ server \in {"test", "accept", "count", "spawn", "done"}
    BY DEF IInv, TypeOK
  <1>2. Gone(viewer[v].stream) \in Viewer /\ Gone(viewer[v].stream).pc = "none"
        /\ Gone(viewer[v].stream).generation = 0
    BY <1>1 DEF Gone, Viewer, ViewerPC
  <1>3. w \in [Viewers -> Viewer] /\ w[v].pc = "none" /\ w[v].generation = 0
        /\ \A u \in Viewers \ {v} : w[u] = viewer[u]
    BY <1>1, <1>2
  <1>4. viewer' = Woken(w) /\ clients' = clients - 1 /\ closer' = CloserWoken
    BY DEF ClientFinished
  <1> HIDE DEF w
  <1>5. /\ viewer' \in [Viewers -> Viewer]
        /\ viewer'[v].pc = "none" /\ viewer'[v].generation = 0
        /\ \A u \in Viewers \ {v} :
             /\ viewer'[u].pc = IF viewer[u].pc = "wait" THEN "check" ELSE viewer[u].pc
             /\ viewer'[u].stream = viewer[u].stream
             /\ viewer'[u].config = viewer[u].config
             /\ viewer'[u].generation = viewer[u].generation
             /\ viewer'[u].frame = viewer[u].frame
    BY <1>3, <1>4, WokenKeeps
  <1>6. v \in Users /\ Users' = Users \ {v}
    BY <1>5 DEF Users
  <1>7. IsFiniteSet(Users)
    BY FS_Subset DEF Users
  <1>8. Cardinality(Users') = Cardinality(Users) - 1
    BY <1>6, <1>7, FS_RemoveElement
  <1>9. clients' \in Nat /\ clients' = Cardinality(Users') /\ clients # 0
    <2>1. Cardinality(Users) \in Nat /\ Cardinality(Users) # 0
      BY <1>6, <1>7, FS_CardinalityType, FS_EmptySet
    <2> QED
      BY <1>4, <1>8, <2>1 DEF IInv, Accounted
  <1>10. TypeOK'
    BY <1>1, <1>4, <1>5, <1>9 DEF IInv, TypeOK, CloserWoken, CloserPC
  <1>11. Accounted'
    BY <1>9 DEF Accounted
  <1>12. OneAccepted'
    BY <1>1, <1>5 DEF IInv, OneAccepted
  <1>13. CloserOrder'
    BY <1>4, <1>9 DEF IInv, CloserOrder, OneAccepted, CloserWoken
  <1>14. Generations'
    BY DEF IInv, Generations
  <1>15. Behind' /\ TakesFrame'
    BY <1>5 DEF IInv, Behind, TakesFrame, Watching
  <1> QED
    BY <1>10, <1>11, <1>12, <1>13, <1>14, <1>15 DEF IInv

-----------------------------------------------------------------------------
(* The control thread and the capture thread *)

LEMMA ReencodeKeeps == ASSUME IInv, NEW s \in Streams, Reencode(s) PROVE IInv'
  <1> USE LiveVideoAssumption
  <1>1. TypeOK'
    BY DEF IInv, TypeOK, Reencode
  <1>2. Users' = Users
    BY DEF Reencode, Users
  <1> QED
    BY <1>1, <1>2 DEF IInv, Reencode, Accounted, OneAccepted, CloserOrder,
         Generations, Behind, TakesFrame

LEMMA ConfigureKeeps ==
    ASSUME IInv, NEW s \in Streams, NEW h264 \in BOOLEAN, Configure(s, h264)
    PROVE  IInv'
  <1> USE LiveVideoAssumption
  <1>1. /\ viewer \in [Viewers -> Viewer] /\ stream \in [Streams -> Stream]
        /\ encoder \in [Streams -> 1 .. MaxFormats]
        /\ frames \in 0 .. MaxFrames
    BY DEF IInv, TypeOK
  <1>2. viewer' = Woken(viewer)
    BY DEF Configure
  <1>3. /\ viewer' \in [Viewers -> Viewer]
        /\ \A v \in Viewers :
             /\ viewer'[v].pc = IF viewer[v].pc = "wait" THEN "check" ELSE viewer[v].pc
             /\ viewer'[v].stream = viewer[v].stream
             /\ viewer'[v].config = viewer[v].config
             /\ viewer'[v].generation = viewer[v].generation
             /\ viewer'[v].frame = viewer[v].frame
    BY <1>1, <1>2, WokenKeeps
  <1>4. /\ Configured(s, h264) \in Stream
        /\ Configured(s, h264).generation = 0
        /\ Configured(s, h264).config = stream[s].config + 1
    <2>1. stream[s] \in Stream /\ stream[s].config + 1 \in 0 .. MaxFormats
      BY <1>1 DEF Configure, Stream
    <2>2. 0 \in 0 .. MaxFrames
      OBVIOUS
    <2> QED
      BY <2>1, <2>2, Zenon DEF Configured, Stream
  <1>5. stream' = [stream EXCEPT ![s] = Configured(s, h264)]
    BY DEF Configure
  <1>7. TypeOK'
    BY <1>1, <1>3, <1>4, <1>5 DEF IInv, TypeOK, Configure, CloserWoken, CloserPC
  <1>8. Users' = Users
    BY <1>3 DEF Users
  <1>9. Accounted' /\ OneAccepted' /\ CloserOrder'
    BY <1>3, <1>8 DEF IInv, Accounted, OneAccepted, CloserOrder, Configure, CloserWoken
  <1>10. Generations'
    <2>1. \A r \in Streams \ {s} : stream'[r] = stream[r]
      BY <1>1, <1>5
    <2>2. stream'[s].generation = 0
      BY <1>1, <1>4, <1>5
    <2>3. capture' = capture /\ frames' = frames
      BY DEF Configure
    <2>4. capture.pc # "idle" => 1 <= frames
      BY <1>1 DEF IInv, Generations, Stream
    <2> QED
      BY <1>1, <2>1, <2>2, <2>3, <2>4 DEF IInv, Generations
  <1>11. Behind'
    <2> SUFFICES ASSUME NEW v \in Viewers
                 PROVE  Sound(viewer[v])' \/ Behind'
      BY DEF Behind, Sound
    <2>1. viewer[v].stream \in Streams /\ viewer[v].config \in Nat
      BY <1>1 DEF Viewer
    <2>2. CASE viewer[v].stream = s
      BY <1>1, <1>3, <1>4, <1>5, <2>1, <2>2
      DEF IInv, Behind, TakesFrame, Sound, Watching, Stream
    <2>3. CASE viewer[v].stream # s
      BY <1>1, <1>3, <1>5, <2>1, <2>3 DEF IInv, Behind, TakesFrame, Sound, Watching
    <2> QED
      BY <2>2, <2>3
  <1>12. TakesFrame'
    BY <1>3 DEF IInv, TakesFrame
  <1> QED
    BY <1>7, <1>9, <1>10, <1>11, <1>12 DEF IInv

LEMMA CaptureKeeps ==
    ASSUME IInv, NEW s \in Streams, NEW key \in BOOLEAN, Capture(s, key)
    PROVE  IInv'
  <1> USE LiveVideoAssumption
  <1> DEFINE f == [id |-> frames + 1, key |-> key, format |-> encoder[s]]
  <1>1. /\ frames \in 0 .. MaxFrames /\ encoder \in [Streams -> 1 .. MaxFormats]
        /\ stream \in [Streams -> Stream]
    BY DEF IInv, TypeOK
  <1>2. frames' = frames + 1 /\ frames' \in 0 .. MaxFrames
    BY <1>1 DEF Capture
  <1>3. f \in Frame
    BY <1>1, <1>2 DEF Frame, Capture
  <1>4. capture' = [pc |-> "publish", stream |-> s, frame |-> f] /\ capture.pc = "idle"
    BY DEF Capture
  <1> HIDE DEF f
  <1>5. UNCHANGED <<stream, encoder, viewer, clients, server, accepts,
                    listening, stop, closer>>
    BY DEF Capture
  <1>6. TypeOK'
    BY <1>2, <1>3, <1>4, <1>5 DEF IInv, TypeOK
  <1>7. Users' = Users
    BY <1>5 DEF Users
  <1>8. Generations'
    BY <1>1, <1>2, <1>3, <1>4, <1>5 DEF IInv, Generations, Stream
  <1> QED
    BY <1>5, <1>6, <1>7, <1>8 DEF IInv, Accounted, OneAccepted, CloserOrder, Behind, TakesFrame

\* publish gives the access unit up, or goes on to copy it.
LEMMA PublishTestKeeps == ASSUME IInv, PublishSkip \/ PublishCopy PROVE IInv'
  <1> USE LiveVideoAssumption
  <1>1. /\ frames \in 0 .. MaxFrames
        /\ stream \in [Streams -> Stream]
        /\ capture \in [pc : {"idle", "publish", "copy"}, stream : Streams,
                        frame : Frame \cup {NoFrame}]
    BY Zenon DEF IInv, TypeOK
  <1>3. /\ capture' \in [pc : {"idle", "publish", "copy"}, stream : Streams,
                         frame : Frame \cup {NoFrame}]
        /\ capture.pc # "idle"
        /\ capture'.pc = "idle" \/ (capture'.pc = "copy" /\ capture'.frame = capture.frame)
    BY <1>1 DEF PublishSkip, PublishCopy, Captured
  <1>4. UNCHANGED <<stream, encoder, frames, viewer, clients, server, accepts,
                    listening, stop, closer>>
    BY DEF PublishSkip, PublishCopy
  <1>5. TypeOK'
    BY <1>3, <1>4, Zenon DEF IInv, TypeOK
  <1>6. Users' = Users
    BY <1>4 DEF Users
  <1>7. Generations'
    BY <1>1, <1>3, <1>4 DEF IInv, Generations, Stream
  <1> QED
    BY <1>4, <1>5, <1>6, <1>7 DEF IInv, Accounted, OneAccepted, CloserOrder, Behind, TakesFrame

LEMMA PublishStoreKeeps == ASSUME IInv, PublishStore PROVE IInv'
  <1> USE LiveVideoAssumption
  <1> DEFINE s == capture.stream
  <1>1. /\ frames \in 0 .. MaxFrames
        /\ stream \in [Streams -> Stream] /\ viewer \in [Viewers -> Viewer]
        /\ capture \in [pc : {"idle", "publish", "copy"}, stream : Streams,
                        frame : Frame \cup {NoFrame}]
    BY Zenon DEF IInv, TypeOK
  <1>2. s \in Streams /\ capture.pc = "copy" /\ capture.frame \in Frame
    BY <1>1 DEF IInv, Generations, PublishStore
  <1>3. /\ capture' \in [pc : {"idle", "publish", "copy"}, stream : Streams,
                         frame : Frame \cup {NoFrame}]
        /\ capture'.pc = "idle"
    BY <1>1 DEF PublishStore, Captured
  <1>4. UNCHANGED <<encoder, frames, clients, server, accepts, listening, stop>>
    BY DEF PublishStore
  <1>5. stream[s].generation + 1 <= frames
    BY <1>1, <1>2 DEF IInv, Generations
  <1>6. CASE ~Playable(s)
    <2>1. UNCHANGED <<stream, viewer, closer>>
      BY <1>6 DEF PublishStore
    <2>2. TypeOK'
      BY <1>3, <1>4, <2>1, Zenon DEF IInv, TypeOK
    <2>3. Users' = Users
      BY <2>1 DEF Users
    <2>4. Generations'
      BY <1>1, <1>2, <1>3, <1>4, <2>1 DEF IInv, Generations, Stream
    <2> QED
      BY <1>4, <2>1, <2>2, <2>3, <2>4 DEF IInv, Accounted, OneAccepted, CloserOrder,
           Behind, TakesFrame
  <1>7. CASE Playable(s)
    <2>1. /\ stream' = [stream EXCEPT ![s] = Published(s)]
          /\ viewer' = Woken(viewer)
          /\ closer' = CloserWoken
      BY <1>7 DEF PublishStore
    <2> HIDE DEF s
    <2>2. /\ Published(s) \in Stream
          /\ Published(s).frame \in Frame
          /\ Published(s).generation = stream[s].generation + 1
          /\ Published(s).config = stream[s].config
      <3>1. stream[s] \in Stream /\ stream[s].generation + 1 \in 0 .. MaxFrames
        BY <1>1, <1>2, <1>5 DEF Stream
      <3>2. stream[s].config \in 0 .. MaxFormats /\ stream[s].h264 \in BOOLEAN
        BY <3>1, Zenon DEF Stream
      <3>3. capture.frame \in Frame /\ capture.frame \in Frame \cup {NoFrame}
        BY <1>2
      <3> QED
        BY <3>1, <3>2, <3>3, Zenon DEF Published, Stream
    <2>3. /\ viewer' \in [Viewers -> Viewer]
          /\ \A v \in Viewers :
               /\ viewer'[v].pc = IF viewer[v].pc = "wait" THEN "check" ELSE viewer[v].pc
               /\ viewer'[v].stream = viewer[v].stream
               /\ viewer'[v].config = viewer[v].config
               /\ viewer'[v].generation = viewer[v].generation
               /\ viewer'[v].frame = viewer[v].frame
      BY <1>1, <2>1, WokenKeeps
    <2>5. TypeOK'
      BY <1>1, <1>2, <1>3, <1>4, <2>1, <2>2, <2>3
      DEF IInv, TypeOK, CloserWoken, CloserPC
    <2>6. Users' = Users
      BY <2>3 DEF Users
    <2>7. Accounted' /\ OneAccepted' /\ CloserOrder'
      BY <1>4, <2>1, <2>3, <2>6 DEF IInv, Accounted, OneAccepted, CloserOrder, CloserWoken
    <2>8. Generations'
      <3> SUFFICES ASSUME NEW r \in Streams
                   PROVE  /\ stream'[r].generation <= frames
                          /\ stream'[r].generation # 0 => stream'[r].frame \in Frame
        BY <1>1, <1>3, <1>4, <2>5 DEF Generations, TypeOK, Stream
      <3>1. CASE r = s
        BY <1>1, <1>2, <1>5, <2>1, <2>2, <3>1
      <3>2. CASE r # s
        BY <1>1, <1>2, <2>1, <3>2 DEF IInv, Generations, Stream
      <3> QED
        BY <3>1, <3>2
    <2>9. Behind'
      <3> SUFFICES ASSUME NEW v \in Viewers
                   PROVE  Sound(viewer[v])' \/ Behind'
        BY DEF Behind, Sound
      <3>1. viewer[v].stream \in Streams /\ viewer[v].generation \in Nat
        BY <1>1 DEF Viewer
      <3>2. CASE viewer[v].stream = s
        BY <1>1, <2>1, <2>2, <2>3, <3>1, <3>2 DEF IInv, Behind, TakesFrame, Sound, Watching, Stream
      <3>3. CASE viewer[v].stream # s
        BY <1>1, <2>1, <2>3, <3>1, <3>3 DEF IInv, Behind, TakesFrame, Sound, Watching
      <3> QED
        BY <3>2, <3>3
    <2>10. TakesFrame'
      BY <2>3 DEF IInv, TakesFrame
    <2> QED
      BY <2>5, <2>7, <2>8, <2>9, <2>10 DEF IInv
  <1> QED
    BY <1>6, <1>7

-----------------------------------------------------------------------------
(* The server thread and the closer *)

\* What a step does that moves only the server thread or the closer.
Moves ==
    /\ UNCHANGED <<stream, encoder, capture, frames, viewer, clients, accepts>>
    /\ server' \in {"test", "accept", "count", "spawn", "done"}
    /\ server' # server => server \in {"test", "accept"}
    /\ listening' \in BOOLEAN /\ stop' \in BOOLEAN /\ closer' \in CloserPC
    /\ closer' \in {"drain", "waiting", "freed"} => server' = "done"
    /\ closer' = "freed" => clients = 0

LEMMA MovesSteps ==
    ASSUME IInv,
           \/ ServerTest \/ AcceptFails
           \/ CloseStop \/ CloseListener \/ CloseJoin \/ CloseDrain
    PROVE  Moves
  <1>1. /\ server \in {"test", "accept", "count", "spawn", "done"}
        /\ listening \in BOOLEAN /\ stop \in BOOLEAN /\ closer \in CloserPC
    BY Zenon DEF IInv, TypeOK
  <1>2. listening' \in BOOLEAN /\ stop' \in BOOLEAN
    BY <1>1, Zenon DEF ServerTest, AcceptFails, CloseStop, CloseListener, CloseJoin, CloseDrain
  <1> QED
    BY <1>1, <1>2 DEF ServerTest, AcceptFails, CloseStop, CloseListener, CloseJoin,
       CloseDrain, Moves, IInv, CloserOrder, CloserPC

LEMMA MovesKeeps == ASSUME IInv, Moves PROVE IInv'
  <1>1. TypeOK'
    BY Zenon DEF IInv, TypeOK, Moves
  <1>2. Users' = Users
    BY DEF Moves, Users
  <1> QED
    BY <1>1, <1>2 DEF IInv, Moves, Accounted, OneAccepted, CloserOrder, Generations,
       Behind, TakesFrame

LEMMA SignalKeeps == ASSUME IInv, CloseSignal PROVE IInv'
  <1>1. viewer \in [Viewers -> Viewer] /\ viewer' = Woken(viewer)
    BY DEF IInv, TypeOK, CloseSignal
  <1>2. /\ viewer' \in [Viewers -> Viewer]
        /\ \A v \in Viewers :
             /\ viewer'[v].pc = IF viewer[v].pc = "wait" THEN "check" ELSE viewer[v].pc
             /\ viewer'[v].stream = viewer[v].stream
             /\ viewer'[v].config = viewer[v].config
             /\ viewer'[v].generation = viewer[v].generation
             /\ viewer'[v].frame = viewer[v].frame
    BY <1>1, WokenKeeps
  <1>3. TypeOK'
    BY <1>2, Zenon DEF IInv, TypeOK, CloseSignal, CloserPC
  <1>4. Users' = Users
    BY <1>2 DEF Users
  <1>5. Accounted' /\ OneAccepted' /\ CloserOrder' /\ Generations'
    BY <1>2, <1>4 DEF IInv, Accounted, OneAccepted, CloserOrder, Generations, CloseSignal
  <1>6. Behind' /\ TakesFrame'
    BY <1>2 DEF IInv, Behind, TakesFrame, Watching, CloseSignal
  <1> QED
    BY <1>3, <1>5, <1>6 DEF IInv

\* Only the place of the viewer at work with the server thread changes.
LEMMA PlacedKeeps ==
    ASSUME IInv, NEW v \in Viewers, NEW pc \in {"new", "counted", "hello"},
           viewer[v].pc \in {"none", "new", "counted"},
           viewer' = [viewer EXCEPT ![v].pc = pc]
    PROVE  /\ viewer' \in [Viewers -> Viewer]
           /\ viewer'[v].pc = pc
           /\ \A u \in Viewers \ {v} : viewer'[u] = viewer[u]
           /\ UNCHANGED stream => Behind' /\ TakesFrame'
  <1>1. viewer \in [Viewers -> Viewer]
    BY DEF IInv, TypeOK
  <1>2. /\ viewer' \in [Viewers -> Viewer]
        /\ viewer'[v].pc = pc /\ viewer'[v].generation = viewer[v].generation
        /\ \A u \in Viewers \ {v} : viewer'[u] = viewer[u]
    BY <1>1 DEF Viewer, ViewerPC
  <1> QED
    BY <1>1, <1>2 DEF IInv, Behind, TakesFrame, Watching

LEMMA AcceptKeeps == ASSUME IInv, NEW v \in Viewers, Accept(v) PROVE IInv'
  <1> USE LiveVideoAssumption
  <1>1. /\ viewer[v].pc = "none" /\ viewer' = [viewer EXCEPT ![v].pc = "new"]
        /\ server = "accept" /\ server' = "count"
        /\ accepts' = accepts + 1 /\ accepts < MaxAccepts
        /\ UNCHANGED <<stream, encoder, capture, frames, clients, listening, stop, closer>>
    BY DEF Accept
  <1>2. /\ viewer' \in [Viewers -> Viewer] /\ viewer'[v].pc = "new"
        /\ \A u \in Viewers \ {v} : viewer'[u] = viewer[u]
        /\ Behind' /\ TakesFrame'
    BY <1>1, PlacedKeeps
  <1>3. accepts' \in 0 .. MaxAccepts
    BY <1>1 DEF IInv, TypeOK
  <1>4. TypeOK'
    BY <1>1, <1>2, <1>3, Zenon DEF IInv, TypeOK
  <1>5. Users' = Users
    BY <1>1, <1>2 DEF Users
  <1>6. OneAccepted'
    BY <1>1, <1>2 DEF IInv, OneAccepted
  <1> QED
    BY <1>1, <1>2, <1>4, <1>5, <1>6 DEF IInv, Accounted, CloserOrder, Generations

LEMMA CountKeeps == ASSUME IInv, NEW v \in Viewers, CountClient(v) PROVE IInv'
  <1> USE LiveVideoAssumption
  <1>1. /\ viewer[v].pc = "new" /\ viewer' = [viewer EXCEPT ![v].pc = "counted"]
        /\ server = "count" /\ server' = "spawn" /\ clients' = clients + 1
        /\ UNCHANGED <<stream, encoder, capture, frames, accepts, listening, stop, closer>>
    BY DEF CountClient
  <1>2. /\ viewer' \in [Viewers -> Viewer] /\ viewer'[v].pc = "counted"
        /\ \A u \in Viewers \ {v} : viewer'[u] = viewer[u]
        /\ Behind' /\ TakesFrame'
    BY <1>1, PlacedKeeps
  <1>3. v \notin Users /\ Users' = Users \cup {v}
    BY <1>1, <1>2 DEF Users
  <1>4. IsFiniteSet(Users)
    BY FS_Subset DEF Users
  <1>5. Cardinality(Users') = Cardinality(Users) + 1
    BY <1>3, <1>4, FS_AddElement
  <1>6. Accounted' /\ clients' \in Nat
    BY <1>1, <1>5 DEF IInv, TypeOK, Accounted
  <1>7. TypeOK'
    BY <1>1, <1>2, <1>6, Zenon DEF IInv, TypeOK
  <1>8. OneAccepted'
    BY <1>1, <1>2 DEF IInv, OneAccepted
  <1>9. CloserOrder' /\ Generations'
    BY <1>1 DEF IInv, CloserOrder, Generations
  <1> QED
    BY <1>2, <1>6, <1>7, <1>8, <1>9 DEF IInv

LEMMA SpawnKeeps == ASSUME IInv, NEW v \in Viewers, Spawn(v) PROVE IInv'
  <1>1. /\ viewer[v].pc = "counted" /\ server = "spawn" /\ server' = "test"
        /\ UNCHANGED <<stream, encoder, capture, frames, accepts, listening, stop>>
    BY DEF Spawn
  <1>2. CASE ClientFinished(v)
    BY <1>1, <1>2, FinishedKeeps
  <1>3. CASE viewer' = [viewer EXCEPT ![v].pc = "hello"] /\ UNCHANGED <<clients, closer>>
    <2>1. /\ viewer' \in [Viewers -> Viewer] /\ viewer'[v].pc = "hello"
          /\ \A u \in Viewers \ {v} : viewer'[u] = viewer[u]
          /\ Behind' /\ TakesFrame'
      BY <1>1, <1>3, PlacedKeeps
    <2>2. TypeOK'
      BY <1>1, <1>3, <2>1, Zenon DEF IInv, TypeOK
    <2>3. Users' = Users
      BY <1>1, <2>1 DEF Users
    <2>4. OneAccepted'
      BY <1>1, <2>1 DEF IInv, OneAccepted
    <2> QED
      BY <1>1, <1>3, <2>1, <2>2, <2>3, <2>4 DEF IInv, Accounted, CloserOrder, Generations
  <1> QED
    BY <1>2, <1>3 DEF Spawn

-----------------------------------------------------------------------------
LEMMA InitIInv == Init => IInv
  <1> SUFFICES ASSUME Init PROVE IInv
    OBVIOUS
  <1> USE LiveVideoAssumption
  <1>1. PICK s \in Streams :
          /\ capture = [pc |-> "idle", stream |-> s, frame |-> NoFrame]
          /\ viewer = [v \in Viewers |-> Gone(s)]
    BY DEF Init
  <1>2. 0 \in 0 .. MaxFrames /\ 0 \in 0 .. MaxFormats /\ 1 \in 1 .. MaxFormats
        /\ 0 \in 0 .. MaxAccepts /\ 0 \in Nat
    OBVIOUS
  <1>3. Gone(s) \in Viewer /\ Gone(s).pc = "none" /\ Gone(s).generation = 0
    BY <1>2, Zenon DEF Gone, Viewer, ViewerPC
  <1>4. stream \in [Streams -> Stream] /\ \A r \in Streams : stream[r].generation = 0
    BY <1>2, Zenon DEF Init, Stream
  <1>5. listening \in BOOLEAN /\ stop \in BOOLEAN
    BY Zenon DEF Init
  <1>6. encoder \in [Streams -> 1 .. MaxFormats]
    BY <1>2, Zenon DEF Init
  <1>7. capture \in [pc : {"idle", "publish", "copy"}, stream : Streams,
                     frame : Frame \cup {NoFrame}] /\ capture.pc = "idle"
    BY <1>1
  <1>8. viewer \in [Viewers -> Viewer]
        /\ \A v \in Viewers : viewer[v].pc = "none" /\ viewer[v].generation = 0
    BY <1>1, <1>3
  <1>9. TypeOK
    BY <1>2, <1>4, <1>5, <1>6, <1>7, <1>8, Zenon DEF Init, TypeOK, CloserPC
  <1>10. Accounted
    <2>1. Users = {}
      BY <1>8 DEF Users
    <2> QED
      BY <2>1, FS_EmptySet DEF Init, Accounted
  <1>11. OneAccepted /\ CloserOrder
    BY <1>8 DEF Init, OneAccepted, CloserOrder
  <1>12. Generations
    BY <1>4, <1>7 DEF Init, Generations
  <1>13. Behind /\ TakesFrame
    BY <1>8 DEF Behind, TakesFrame, Watching
  <1> QED
    BY <1>9, <1>10, <1>11, <1>12, <1>13 DEF IInv

LEMMA NextIInv == IInv /\ [Next]_vars => IInv'
  <1> SUFFICES ASSUME IInv, [Next]_vars PROVE IInv'
    OBVIOUS
  <1>1. ASSUME NEW s \in Streams, Reencode(s) PROVE IInv'
    BY <1>1, ReencodeKeeps
  <1>2. ASSUME NEW s \in Streams, NEW h264 \in BOOLEAN, Configure(s, h264) PROVE IInv'
    BY <1>2, ConfigureKeeps
  <1>3. ASSUME NEW s \in Streams, NEW key \in BOOLEAN, Capture(s, key) PROVE IInv'
    BY <1>3, CaptureKeeps
  <1>4. CASE CaptureThread
    BY <1>4, PublishTestKeeps, PublishStoreKeeps DEF CaptureThread
  <1>5. CASE ServerThread
    BY <1>5, MovesSteps, MovesKeeps, CountKeeps, SpawnKeeps DEF ServerThread
  <1>6. ASSUME NEW v \in Viewers, Accept(v) PROVE IInv'
    BY <1>6, AcceptKeeps
  <1>7. ASSUME NEW v \in Viewers, ClientThread(v) \/ SpuriousWake(v) PROVE IInv'
    <2>1. CASE Finish(v)
      BY <2>1, FinishedKeeps DEF Finish
    <2>2. CASE ~Finish(v)
      BY <1>7, <2>2, ClientSteps, ClientKeeps DEF ClientThread
    <2> QED
      BY <2>1, <2>2
  <1>8. CASE CloseStop \/ Closing
    BY <1>8, MovesSteps, MovesKeeps, SignalKeeps DEF Closing
  <1>9. CASE UNCHANGED vars
    <2>1. Moves
      <3>1. /\ server \in {"test", "accept", "count", "spawn", "done"}
            /\ listening \in BOOLEAN /\ stop \in BOOLEAN /\ closer \in CloserPC
        BY Zenon DEF IInv, TypeOK
      <3>2. CloserOrder
        BY Zenon DEF IInv
      <3> QED
        BY <1>9, <3>1, <3>2, Zenon DEF Moves, vars, CloserOrder
    <2> QED
      BY <2>1, MovesKeeps
  <1> QED
    BY <1>1, <1>2, <1>3, <1>4, <1>5, <1>6, <1>7, <1>8, <1>9, Zenon DEF Next

\* Viewers, streams and the threads of the server keep their types; in
\* particular the unsigned count of clients never goes below zero.
THEOREM TypeCorrect == Spec => []TypeOK
  <1>1. IInv => TypeOK
    BY Zenon DEF IInv
  <1> QED
    BY <1>1, InitIInv, NextIInv, PTL DEF Spec

\* ca_live_video_server_close frees the server after its last thread, however
\* many viewers there are and whenever they connect.
THEOREM FreedLast == Spec => []NoUseAfterFree
  <1>1. ASSUME IInv PROVE NoUseAfterFree
    <2> SUFFICES ASSUME closer = "freed"
                 PROVE  server = "done" /\ \A v \in Viewers : viewer[v].pc = "none"
      BY DEF NoUseAfterFree
    <2>1. server = "done" /\ clients = 0
      BY <1>1 DEF IInv, CloserOrder
    <2>2. IsFiniteSet(Users)
      BY LiveVideoAssumption, FS_Subset DEF Users
    <2>3. Users = {}
      BY <1>1, <2>1, <2>2, FS_EmptySet DEF IInv, Accounted
    <2> QED
      BY <1>1, <2>1, <2>3 DEF IInv, OneAccepted, Users
  <1> QED
    BY <1>1, InitIInv, NextIInv, PTL DEF Spec

\* No viewer copies the empty stream that a configuration leaves.
THEOREM CopiesExist == Spec => []TakesFrame
  <1>1. IInv => TakesFrame
    BY Zenon DEF IInv
  <1> QED
    BY <1>1, InitIInv, NextIInv, PTL DEF Spec
-----------------------------------------------------------------------------
(* What viewers are sent *)

\* The newest access unit a viewer was sent or is about to be sent.
Newest(w) == IF w.pc = "write" THEN w.frame.id ELSE w.sent

\* A viewer was sent nothing newer than its stream holds, and what the stream
\* holds is newer when its generation is.
InTurn(w) ==
    LET s == stream[w.stream] IN
    /\ w.pc \in {"none", "new", "counted", "hello", "open"} => w.sent = 0
    /\ w.pc = "write" => w.sent < w.frame.id
    /\ w.pc \in Watching /\ w.config = s.config =>
         /\ Newest(w) <= s.frame.id
         /\ w.generation # s.generation => Newest(w) < s.frame.id

\* The access unit being published is newer than every published one.
Rising ==
    /\ \A s \in Streams :
         /\ stream[s].frame.id <= frames
         /\ capture.pc # "idle" => stream[s].frame.id < capture.frame.id
    /\ capture.pc # "idle" => capture.frame.id <= frames

InOrder == Rising /\ \A v \in Viewers : InTurn(viewer[v])

\* No step but the viewer's own writing ends it, and a step of another thread
\* leaves what it was sent and its copy alone.
Undisturbed(u) ==
    /\ viewer'[u].stream = viewer[u].stream
    /\ viewer'[u].config = viewer[u].config
    /\ viewer'[u].generation = viewer[u].generation
    /\ viewer'[u].frame = viewer[u].frame
    /\ viewer'[u].sent = viewer[u].sent
    /\ \/ viewer'[u].pc = viewer[u].pc
       \/ viewer[u].pc = "wait" /\ viewer'[u].pc = "check"
       \/ /\ viewer[u].pc \in {"none", "new", "counted"}
          /\ viewer'[u].pc \in {"new", "counted", "hello"}

\* A client thread that ends.
Ended(u) == viewer'[u].pc = "none" /\ viewer'[u].sent = 0

LEMMA FrameIds == \A f \in Frame \cup {NoFrame} : f.id \in Nat /\ (f \in Frame => f.id > 0)
  BY LiveVideoAssumption DEF Frame, NoFrame

\* The access units of the streams and of the capture thread are numbers.
LEMMA RisingTypes ==
    ASSUME IInv
    PROVE  /\ stream \in [Streams -> Stream] /\ viewer \in [Viewers -> Viewer]
           /\ frames \in Nat /\ capture.frame.id \in Nat /\ capture.stream \in Streams
           /\ \A s \in Streams :
                /\ stream[s].frame.id \in Nat /\ stream[s].config \in Nat
                /\ stream[s].generation \in Nat
                /\ stream[s].generation # 0 => stream[s].frame.id > 0
           /\ \A v \in Viewers :
                /\ viewer[v].stream \in Streams /\ viewer[v].config \in Nat
                /\ viewer[v].generation \in Nat /\ viewer[v].sent \in Nat
                /\ viewer[v].frame.id \in Nat
  <1>1. /\ stream \in [Streams -> Stream] /\ viewer \in [Viewers -> Viewer]
        /\ frames \in Nat /\ capture.frame \in Frame \cup {NoFrame} /\ capture.stream \in Streams
    BY LiveVideoAssumption DEF IInv, TypeOK
  <1>2. ASSUME NEW s \in Streams
        PROVE  /\ stream[s].frame \in Frame \cup {NoFrame} /\ stream[s].config \in Nat
               /\ stream[s].generation \in Nat
               /\ stream[s].generation # 0 => stream[s].frame \in Frame
    BY <1>1, LiveVideoAssumption DEF IInv, Generations, Stream
  <1>3. ASSUME NEW v \in Viewers
        PROVE  /\ viewer[v].stream \in Streams /\ viewer[v].config \in Nat
               /\ viewer[v].generation \in Nat /\ viewer[v].sent \in Nat
               /\ viewer[v].frame \in Frame \cup {NoFrame}
    BY <1>1, LiveVideoAssumption DEF Viewer
  <1> QED
    BY <1>1, <1>2, <1>3, FrameIds

\* The encoder's numbers rise through publish into the streams.
LEMMA RisingKeeps == ASSUME IInv, Rising, [Next]_vars PROVE Rising'
  <1> USE LiveVideoAssumption
  <1>1. ASSUME NEW s \in Streams, NEW key \in BOOLEAN, Capture(s, key) PROVE Rising'
    <2>1. /\ capture.pc = "idle" /\ stream' = stream /\ frames' = frames + 1
          /\ capture'.frame.id = frames + 1
      BY <1>1 DEF Capture
    <2> QED
      BY <2>1, RisingTypes DEF Rising
  <1>2. ASSUME NEW s \in Streams, NEW h264 \in BOOLEAN, Configure(s, h264) PROVE Rising'
    <2>1. /\ stream' = [stream EXCEPT ![s] = Configured(s, h264)]
          /\ capture' = capture /\ frames' = frames
      BY <1>2 DEF Configure
    <2>2. Configured(s, h264).frame.id = 0
      BY DEF Configured, NoFrame
    <2>3. capture.pc # "idle" => capture.frame.id > 0
      BY FrameIds DEF IInv, Generations
    <2>4. \A r \in Streams :
            stream'[r].frame.id = IF r = s THEN 0 ELSE stream[r].frame.id
      BY <2>1, <2>2, RisingTypes
    <2> QED
      BY <2>1, <2>3, <2>4, RisingTypes DEF Rising
  <1>3. CASE PublishStore
    <2>1. capture'.pc = "idle" /\ capture.pc = "copy" /\ frames' = frames
      <3>1. capture \in [pc : {"idle", "publish", "copy"}, stream : Streams,
                         frame : Frame \cup {NoFrame}]
        BY Zenon DEF IInv, TypeOK
      <3> QED
        BY <1>3, <3>1 DEF PublishStore, Captured
    <2>2. \/ stream' = stream
          \/ stream' = [stream EXCEPT ![capture.stream] = Published(capture.stream)]
      BY <1>3 DEF PublishStore
    <2>3. Published(capture.stream).frame.id = capture.frame.id
      BY DEF Published
    <2>4. \A r \in Streams : stream'[r].frame.id \in {stream[r].frame.id, capture.frame.id}
      BY <2>2, <2>3, RisingTypes
    <2> QED
      BY <2>1, <2>4, RisingTypes DEF Rising
  <1>4. CASE PublishSkip \/ PublishCopy
    <2>1. stream' = stream /\ frames' = frames /\ capture.pc = "publish"
      BY <1>4 DEF PublishSkip, PublishCopy
    <2>2. capture'.pc = "idle" \/ capture'.frame = capture.frame
      <3>1. capture \in [pc : {"idle", "publish", "copy"}, stream : Streams,
                         frame : Frame \cup {NoFrame}]
        BY Zenon DEF IInv, TypeOK
      <3> QED
        BY <1>4, <3>1 DEF PublishSkip, PublishCopy, Captured
    <2> QED
      BY <2>1, <2>2 DEF Rising
  <1>5. CASE UNCHANGED <<stream, capture, frames>>
    BY <1>5 DEF Rising
  <1>6. ASSUME NEW v \in Viewers, Accept(v) \/ ClientThread(v) \/ SpuriousWake(v) PROVE Rising'
    <2>1. UNCHANGED <<stream, capture, frames>>
      BY <1>6 DEF Accept, ClientThread, SpuriousWake, Client, Hello, Open, Test, CheckWait,
         CheckLeave, CheckTake, Write, Finish
    <2> QED
      BY <1>5, <2>1
  <1>7. ASSUME NEW s \in Streams, Reencode(s) PROVE Rising'
    BY <1>5, <1>7 DEF Reencode
  <1>8. CASE ServerThread
    <2>1. UNCHANGED <<stream, capture, frames>>
      BY <1>8 DEF ServerThread, ServerTest, AcceptFails, CountClient, Spawn
    <2> QED
      BY <1>5, <2>1
  <1>9. CASE CloseStop \/ Closing
    <2>1. UNCHANGED <<stream, capture, frames>>
      BY <1>9 DEF CloseStop, Closing, CloseListener, CloseSignal, CloseJoin, CloseDrain
    <2> QED
      BY <1>5, <2>1
  <1>10. CASE UNCHANGED vars
    BY <1>5, <1>10 DEF vars
  <1> QED
    BY <1>1, <1>2, <1>3, <1>4, <1>6, <1>7, <1>8, <1>9, <1>10, Zenon DEF Next, CaptureThread


Numbered == \A s \in Streams : stream[s].config \in Nat /\ stream[s].frame.id \in Nat

LEMMA StreamNumbers == IInv => Numbered
  BY RisingTypes DEF Numbered

\* What another thread may do to a stream: nothing, a configuration, or a newer
\* access unit.
Renewed(s) ==
    \/ stream'[s] = stream[s]
    \/ stream'[s].config > stream[s].config
    \/ stream'[s].config = stream[s].config /\ stream'[s].frame.id > stream[s].frame.id

\* The other threads leave every viewer in turn.
LEMMA RenewedKeeps ==
    ASSUME IInv, InOrder, IInv',
           \A u \in Viewers : Undisturbed(u) \/ Ended(u),
           \A s \in Streams : Renewed(s)
    PROVE  (\A u \in Viewers : InTurn(viewer[u]))'
  <1> SUFFICES ASSUME NEW u \in Viewers PROVE InTurn(viewer[u])'
    OBVIOUS
  <1> DEFINE s == viewer[u].stream
  <1>1. InTurn(viewer[u]) /\ s \in Streams /\ Renewed(s)
    BY RisingTypes DEF InOrder
  <1>2. CASE Ended(u)
    BY <1>2 DEF Ended, InTurn, Watching
  <1>3. CASE Undisturbed(u)
    <2>1. CASE viewer'[u].pc \notin Watching
      BY <1>1, <1>3, <2>1 DEF Undisturbed, InTurn, Watching
    <2>2. CASE viewer'[u].pc \in Watching
      <3>1. viewer[u].pc \in Watching /\ viewer'[u].pc \in {viewer[u].pc, "check"}
            /\ (viewer'[u].pc = "write" <=> viewer[u].pc = "write")
            /\ (viewer'[u].pc = "open" <=> viewer[u].pc = "open")
        BY <1>3, <2>2 DEF Undisturbed, Watching
      <3>2. Newest(viewer'[u]) = Newest(viewer[u]) /\ Newest(viewer[u]) \in Nat
        BY <1>3, <3>1, RisingTypes DEF Undisturbed, Newest
      <3>3. viewer[u].config <= stream[s].config
        BY <3>1 DEF IInv, Behind
      <3>4. viewer'[u].config = stream'[s].config =>
              /\ Newest(viewer[u]) <= stream'[s].frame.id
              /\ viewer'[u].generation # stream'[s].generation =>
                   Newest(viewer[u]) < stream'[s].frame.id
        <4> HIDE DEF s
        <4>1. /\ stream[s].config \in Nat /\ stream[s].frame.id \in Nat
              /\ viewer[u].config \in Nat
          BY <1>1, RisingTypes
        <4>2. viewer[u].config = stream[s].config =>
                /\ Newest(viewer[u]) <= stream[s].frame.id
                /\ viewer[u].generation # stream[s].generation =>
                     Newest(viewer[u]) < stream[s].frame.id
          BY <1>1, <3>1 DEF InTurn, s
        <4>3. viewer'[u].config = viewer[u].config /\ viewer'[u].generation = viewer[u].generation
          BY <1>3 DEF Undisturbed
        <4>4. CASE stream'[s] = stream[s]
          BY <4>2, <4>3, <4>4
        <4>5. stream'[s].config \in Nat /\ stream'[s].frame.id \in Nat
          <5>1. Numbered'
            BY StreamNumbers, PTL
          <5> QED
            BY <1>1, <5>1 DEF Numbered
        <4>6. CASE stream'[s].config > stream[s].config
          BY <3>3, <4>1, <4>3, <4>5, <4>6
        <4>7. CASE stream'[s].config = stream[s].config /\ stream'[s].frame.id > stream[s].frame.id
          BY <3>2, <4>1, <4>2, <4>3, <4>5, <4>7
        <4> QED
          BY <1>1, <4>4, <4>6, <4>7 DEF Renewed
      <3> QED
        BY <1>1, <1>3, <3>1, <3>2, <3>4 DEF Undisturbed, InTurn
    <2> QED
      BY <2>1, <2>2
  <1> QED
    BY <1>2, <1>3

\* What a viewer's own step leaves: it is in turn, and has sent something newer
\* if it has sent anything.
Advanced(v, new) ==
    /\ InTurn(new)
    /\ viewer[v].pc = "write" /\ new.pc = "test" /\ new.started => new.sent > viewer[v].sent

\* client_thread keeps its viewer in turn.
LEMMA ClientAdvances ==
    ASSUME IInv, InOrder, NEW v \in Viewers,
           \/ Hello(v) \/ Open(v) \/ Test(v) \/ CheckWait(v) \/ CheckLeave(v)
           \/ CheckTake(v) \/ Write(v) \/ SpuriousWake(v)
    PROVE  \E new : Client(v, new) /\ Advanced(v, new)
  <1>1. viewer[v] \in Viewer /\ InTurn(viewer[v])
    BY RisingTypes DEF InOrder
  <1>2. ASSUME NEW pc \in Live, pc # "write", pc # "hello", viewer[v].pc # "write",
               viewer[v].pc \in Live,
               pc \in Watching => viewer[v].pc \in Watching,
               pc = "open" => viewer[v].pc = "open"
        PROVE  Advanced(v, To(v, pc))
    <2>1. /\ To(v, pc).pc = pc
          /\ To(v, pc).stream = viewer[v].stream
          /\ To(v, pc).config = viewer[v].config
          /\ To(v, pc).generation = viewer[v].generation
          /\ To(v, pc).sent = viewer[v].sent
      BY <1>1 DEF To, Viewer
    <2>2. Newest(To(v, pc)) = viewer[v].sent /\ Newest(viewer[v]) = viewer[v].sent
      BY <1>2, <2>1 DEF Newest
    <2>3. pc \notin {"none", "new", "counted", "hello"}
      BY <1>2 DEF Live
    <2> QED
      BY <1>1, <1>2, <2>1, <2>2, <2>3 DEF Advanced, InTurn
  <1>3. CASE Hello(v)
    <2>1. CASE Client(v, To(v, "finish"))
      BY <1>2, <1>3, <2>1 DEF Hello, Live, Watching
    <2>2. ASSUME NEW s \in Streams, Playable(s),
                 Client(v, [viewer[v] EXCEPT !.pc = "open", !.stream = s,
                                             !.config = stream[s].config])
          PROVE  \E new : Client(v, new) /\ Advanced(v, new)
      <3> DEFINE new == [viewer[v] EXCEPT !.pc = "open", !.stream = s, !.config = stream[s].config]
      <3>1. /\ new.pc = "open" /\ new.stream = s
            /\ new.generation = viewer[v].generation /\ new.sent = viewer[v].sent
        BY <1>1 DEF Viewer
      <3>2. viewer[v].generation = 0 /\ viewer[v].sent = 0
        BY <1>1, <1>3 DEF Hello, IInv, Behind, InTurn
      <3>3. /\ stream[s].frame.id \in Nat /\ stream[s].generation \in Nat
            /\ stream[s].generation # 0 => stream[s].frame.id > 0
        BY RisingTypes
      <3>4. Newest(new) = 0
        BY <3>1, <3>2 DEF Newest
      <3>5. Advanced(v, new)
        <4> HIDE DEF new
        <4> QED
          BY <3>1, <3>2, <3>3, <3>4 DEF Advanced, InTurn
      <3> QED
        BY <2>2, <3>5
    <2> QED
      BY <1>3, <2>1, <2>2 DEF Hello
  <1>4. CASE Open(v)
    BY <1>2, <1>4 DEF Open, Live, Watching
  <1>5. CASE Test(v)
    BY <1>2, <1>5 DEF Test, Live, Watching
  <1>6. CASE CheckWait(v)
    BY <1>2, <1>6 DEF CheckWait, Live, Watching
  <1>7. CASE CheckLeave(v)
    BY <1>2, <1>7 DEF CheckLeave, Live, Watching
  <1>8. CASE SpuriousWake(v)
    BY <1>2, <1>8 DEF SpuriousWake, Live, Watching
  <1>9. CASE CheckTake(v)
    <2>1. CASE Client(v, To(v, "finish"))
      BY <1>2, <1>9, <2>1 DEF CheckTake, Live, Watching
    <2>2. CASE Client(v, Taken(v))
      <3>1. /\ Taken(v).pc = "write" /\ Taken(v).stream = viewer[v].stream
            /\ Taken(v).config = viewer[v].config
            /\ Taken(v).generation = stream[viewer[v].stream].generation
            /\ Taken(v).frame = stream[viewer[v].stream].frame
            /\ Taken(v).sent = viewer[v].sent
        BY <1>1 DEF Taken, Viewer
      <3>2. viewer[v].sent < stream[viewer[v].stream].frame.id
        BY <1>1, <1>9 DEF InTurn, CheckTake, Superseded, Newest, Watching
      <3>3. stream[viewer[v].stream].frame.id \in Nat
        BY RisingTypes
      <3>4. Newest(Taken(v)) = stream[viewer[v].stream].frame.id
        BY <3>1 DEF Newest
      <3> QED
        BY <1>9, <2>2, <3>1, <3>2, <3>3, <3>4 DEF Advanced, InTurn, CheckTake
    <2> QED
      BY <1>9, <2>1, <2>2 DEF CheckTake
  <1>10. CASE Write(v)
    <2> DEFINE started == viewer[v].started \/ viewer[v].frame.key
               next == [viewer[v] EXCEPT !.pc = "test", !.frame = NoFrame, !.started = started]
               sent == [next EXCEPT !.sent = viewer[v].frame.id]
               left == [next EXCEPT !.pc = "finish"]
               s == viewer[v].stream
    <2>1. /\ viewer[v].pc = "write"
          /\ \/ ~started /\ Client(v, next)
             \/ Client(v, sent)
             \/ Client(v, left)
      BY <1>10 DEF Write
    <2>2. /\ viewer[v].sent < viewer[v].frame.id
          /\ viewer[v].config = stream[s].config =>
               /\ viewer[v].frame.id <= stream[s].frame.id
               /\ viewer[v].generation # stream[s].generation =>
                    viewer[v].frame.id < stream[s].frame.id
      BY <1>1, <2>1 DEF InTurn, Newest, Watching
    <2>3. /\ viewer[v].sent \in Nat /\ viewer[v].frame.id \in Nat
          /\ stream[s].frame.id \in Nat
      BY RisingTypes
    <2> HIDE DEF started
    <2>4. /\ next.pc = "test" /\ next.started = started /\ next.stream = s
          /\ next.config = viewer[v].config /\ next.generation = viewer[v].generation
          /\ next.sent = viewer[v].sent
      BY <1>1 DEF Viewer
    <2>5. /\ sent.pc = "test" /\ sent.stream = s
          /\ sent.config = viewer[v].config /\ sent.generation = viewer[v].generation
          /\ sent.sent = viewer[v].frame.id
      BY <1>1, <2>4 DEF Viewer
    <2>6. left.pc = "finish"
      BY <1>1 DEF Viewer
    <2> HIDE DEF next, sent, left, s
    <2>7. Newest(next) = viewer[v].sent /\ Newest(sent) = viewer[v].frame.id
      BY <2>4, <2>5 DEF Newest
    <2>8. InTurn(next) /\ InTurn(sent) /\ InTurn(left)
      BY <2>2, <2>3, <2>4, <2>5, <2>6, <2>7 DEF InTurn, Watching
    <2>9. CASE ~started /\ Client(v, next)
      <3>1. Advanced(v, next)
        BY <2>4, <2>8, <2>9 DEF Advanced
      <3> QED
        BY <2>9, <3>1
    <2>10. Advanced(v, sent)
      BY <2>2, <2>5, <2>3, <2>8 DEF Advanced
    <2>11. Advanced(v, left)
      BY <2>6, <2>8 DEF Advanced
    <2> QED
      BY <2>1, <2>9, <2>10, <2>11
  <1> QED
    BY <1>3, <1>4, <1>5, <1>6, <1>7, <1>8, <1>9, <1>10

\* What ViewedInOrder says of a step: a viewer that goes back from writing has
\* sent something newer.
Ordered ==
    \A v \in Viewers :
        viewer[v].pc = "write" /\ viewer'[v].pc = "test" /\ viewer'[v].started =>
            viewer'[v].sent > viewer[v].sent

\* What the broadcasts and the server thread do to the viewers.
LEMMA Broadcasts ==
    ASSUME IInv, InOrder, IInv',
           \A u \in Viewers : Undisturbed(u) \/ Ended(u),
           \A s \in Streams : Renewed(s)
    PROVE  (\A u \in Viewers : InTurn(viewer[u]))' /\ Ordered
  <1>1. Ordered
    BY DEF Ordered, Undisturbed, Ended
  <1> QED
    BY <1>1, RenewedKeeps

\* A broadcast disturbs no viewer.
LEMMA WokenUndisturbed ==
    ASSUME IInv, viewer' = Woken(viewer)
    PROVE  \A u \in Viewers : Undisturbed(u)
  <1>1. viewer \in [Viewers -> Viewer]
    BY RisingTypes
  <1> QED
    BY <1>1, WokenKeeps DEF Undisturbed

\* client_finished ends one viewer and disturbs no other.
LEMMA FinishedUndisturbed ==
    ASSUME IInv, NEW v \in Viewers, ClientFinished(v)
    PROVE  \A u \in Viewers : Undisturbed(u) \/ Ended(u)
  <1> USE LiveVideoAssumption
  <1> DEFINE w == [viewer EXCEPT ![v] = Gone(viewer[v].stream)]
  <1>1. viewer \in [Viewers -> Viewer]
    BY RisingTypes
  <1>2. /\ Gone(viewer[v].stream) \in Viewer
        /\ Gone(viewer[v].stream).pc = "none" /\ Gone(viewer[v].stream).sent = 0
    BY <1>1 DEF Gone, Viewer, ViewerPC
  <1>3. w \in [Viewers -> Viewer] /\ w[v].pc = "none" /\ w[v].sent = 0
        /\ \A u \in Viewers \ {v} : w[u] = viewer[u]
    BY <1>1, <1>2
  <1>4. viewer' = Woken(w)
    BY DEF ClientFinished
  <1> HIDE DEF w
  <1>5. Ended(v)
    BY <1>3, <1>4, WokenKeeps DEF Ended
  <1>6. \A u \in Viewers \ {v} : Undisturbed(u)
    BY <1>3, <1>4, WokenKeeps DEF Undisturbed
  <1> QED
    BY <1>5, <1>6

\* The server thread moves a viewer towards its thread and disturbs no other.
LEMMA PlacedUndisturbed ==
    ASSUME IInv, NEW v \in Viewers, NEW pc \in {"new", "counted", "hello"},
           viewer[v].pc \in {"none", "new", "counted"},
           viewer' = [viewer EXCEPT ![v].pc = pc]
    PROVE  \A u \in Viewers : Undisturbed(u)
  <1>1. viewer \in [Viewers -> Viewer]
    BY RisingTypes
  <1>2. viewer'[v] = [viewer[v] EXCEPT !.pc = pc]
    BY <1>1
  <1>3. Undisturbed(v)
    BY <1>1, <1>2 DEF Undisturbed, Viewer
  <1>4. \A u \in Viewers \ {v} : Undisturbed(u)
    BY <1>1 DEF Undisturbed
  <1> QED
    BY <1>3, <1>4

LEMMA OrderStep ==
    ASSUME IInv, InOrder, [Next]_vars, IInv'
    PROVE  (\A u \in Viewers : InTurn(viewer[u]))' /\ Ordered
  <1> DEFINE Goal == (\A u \in Viewers : InTurn(viewer[u]))' /\ Ordered
  <1> SUFFICES Goal
    OBVIOUS
  <1>0. ASSUME stream' = stream, \A u \in Viewers : Undisturbed(u) \/ Ended(u) PROVE Goal
    <2>1. \A s \in Streams : Renewed(s)
      BY <1>0 DEF Renewed
    <2> QED
      BY <1>0, <2>1, Broadcasts
  <1>1. ASSUME stream' = stream, viewer' = viewer PROVE Goal
    <2>1. \A u \in Viewers : Undisturbed(u)
      BY <1>1 DEF Undisturbed
    <2> QED
      BY <1>0, <1>1, <2>1
  <1>2. ASSUME NEW s \in Streams, NEW h264 \in BOOLEAN, Configure(s, h264) PROVE Goal
    <2>1. /\ stream' = [stream EXCEPT ![s] = Configured(s, h264)]
          /\ viewer' = Woken(viewer)
      BY <1>2 DEF Configure
    <2>2. Configured(s, h264).config = stream[s].config + 1
      BY DEF Configured
    <2>3. \A r \in Streams : Renewed(r)
      BY <2>1, <2>2, RisingTypes DEF Renewed
    <2> QED
      BY <2>1, <2>3, WokenUndisturbed, Broadcasts
  <1>3. CASE PublishStore
    <2>1. CASE stream' = stream /\ viewer' = viewer
      BY <1>1, <2>1
    <2>2. CASE /\ stream' = [stream EXCEPT ![capture.stream] = Published(capture.stream)]
               /\ viewer' = Woken(viewer)
      <3>1. /\ Published(capture.stream).config = stream[capture.stream].config
            /\ Published(capture.stream).frame.id = capture.frame.id
        BY DEF Published
      <3>2. stream[capture.stream].frame.id < capture.frame.id
        BY <1>3, RisingTypes DEF PublishStore, InOrder, Rising
      <3>3. \A r \in Streams : Renewed(r)
        BY <2>2, <3>1, <3>2, RisingTypes DEF Renewed
      <3> QED
        BY <2>2, <3>3, WokenUndisturbed, Broadcasts
    <2> QED
      BY <1>3, <2>1, <2>2 DEF PublishStore
  <1>4. CASE PublishSkip \/ PublishCopy
    BY <1>1, <1>4 DEF PublishSkip, PublishCopy
  <1>5. ASSUME NEW s \in Streams, Reencode(s) PROVE Goal
    BY <1>1, <1>5 DEF Reencode
  <1>6. ASSUME NEW s \in Streams, NEW key \in BOOLEAN, Capture(s, key) PROVE Goal
    BY <1>1, <1>6 DEF Capture
  <1>7. CASE ServerTest \/ AcceptFails
    BY <1>1, <1>7 DEF ServerTest, AcceptFails
  <1>8. ASSUME NEW v \in Viewers, CountClient(v) PROVE Goal
    <2>1. \A u \in Viewers : Undisturbed(u)
      BY <1>8, PlacedUndisturbed DEF CountClient
    <2> QED
      BY <1>0, <1>8, <2>1 DEF CountClient
  <1>9. ASSUME NEW v \in Viewers, Spawn(v) PROVE Goal
    <2>1. \A u \in Viewers : Undisturbed(u) \/ Ended(u)
      BY <1>9, PlacedUndisturbed, FinishedUndisturbed DEF Spawn
    <2> QED
      BY <1>0, <1>9, <2>1 DEF Spawn
  <1>10. ASSUME NEW v \in Viewers, Accept(v) PROVE Goal
    <2>1. \A u \in Viewers : Undisturbed(u)
      BY <1>10, PlacedUndisturbed DEF Accept
    <2> QED
      BY <1>0, <1>10, <2>1 DEF Accept
  <1>11. ASSUME NEW v \in Viewers, ClientThread(v) \/ SpuriousWake(v) PROVE Goal
    <2>1. CASE Finish(v)
      BY <1>0, <2>1, FinishedUndisturbed DEF Finish
    <2>2. CASE ~Finish(v)
      <3>1. PICK new : Client(v, new) /\ Advanced(v, new)
        BY <1>11, <2>2, ClientAdvances DEF ClientThread
      <3>2. /\ viewer'[v] = new /\ stream' = stream
            /\ \A u \in Viewers \ {v} : viewer'[u] = viewer[u]
        BY <3>1, RisingTypes DEF Client
      <3>3. (\A u \in Viewers : InTurn(viewer[u]))'
        <4> SUFFICES ASSUME NEW u \in Viewers PROVE InTurn(viewer[u])'
          OBVIOUS
        <4>1. CASE u = v
          BY <3>1, <3>2, <4>1 DEF Advanced, InTurn
        <4>2. CASE u # v
          BY <3>2, <4>2 DEF InOrder, InTurn
        <4> QED
          BY <4>1, <4>2
      <3>4. Ordered
        BY <3>1, <3>2 DEF Ordered, Advanced
      <3> QED
        BY <3>3, <3>4
    <2> QED
      BY <2>1, <2>2
  <1>12. CASE CloseSignal
    BY <1>0, <1>12, WokenUndisturbed DEF CloseSignal
  <1>13. CASE CloseStop \/ CloseListener \/ CloseJoin \/ CloseDrain
    BY <1>1, <1>13 DEF CloseStop, CloseListener, CloseJoin, CloseDrain
  <1>14. CASE UNCHANGED vars
    BY <1>1, <1>14 DEF vars
  <1> HIDE DEF Goal
  <1> QED
    BY <1>2, <1>3, <1>4, <1>5, <1>6, <1>7, <1>8, <1>9, <1>10, <1>11, <1>12, <1>13, <1>14, Zenon
    DEF Next, CaptureThread, ServerThread, Closing

\* client_thread sends a viewer each access unit once, in encoder order, however
\* publish, configure, the broadcasts and the other viewers come between.
THEOREM SentInOrder == Spec => ViewedInOrder
  <1>1. Init => InOrder
    <2> SUFFICES ASSUME Init PROVE InOrder
      OBVIOUS
    <2>1. \A s \in Streams : stream[s].frame.id = 0
      BY DEF Init, NoFrame
    <2>2. capture.pc = "idle" /\ frames = 0
      BY DEF Init
    <2>3. \A v \in Viewers : viewer[v].pc = "none" /\ viewer[v].sent = 0
      BY DEF Init, Gone
    <2> QED
      BY <2>1, <2>2, <2>3 DEF InOrder, Rising, InTurn, Watching
  <1>2. IInv /\ InOrder /\ [Next]_vars => (IInv /\ InOrder)'
    BY NextIInv, RisingKeeps, OrderStep DEF InOrder
  <1>3. IInv /\ InOrder /\ [Next]_vars
          => [\A v \in Viewers :
                viewer[v].pc = "write" /\ viewer'[v].pc = "test" /\ viewer'[v].started =>
                    viewer'[v].sent > viewer[v].sent]_vars
    BY NextIInv, OrderStep DEF Ordered
  <1> QED
    BY <1>1, <1>2, <1>3, InitIInv, PTL DEF Spec, ViewedInOrder
====
