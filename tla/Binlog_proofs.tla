---------------------------- MODULE Binlog_proofs ----------------------------
(***************************************************************************)
(* Proofs about Binlog, for every queue and buffer size and any number of  *)
(* sessions and records: its state is well typed, so that the writer's     *)
(* buffer never overflows; the ring never holds more entries than it has   *)
(* slots; every file holds its session's records without a gap; and a      *)
(* session that ends without a storage failure is complete and durable.    *)
(*                                                                         *)
(* The last two rest on a chain (LogInv): what has reached the card, the   *)
(* entry in the writer's hand, the queue and the place where producers go  *)
(* on follow each other, except where a failure has broken the chain that  *)
(* the writer is about to drop.                                            *)
(***************************************************************************)
EXTENDS Binlog, SequenceTheorems, TLAPS

\* Records stop two short of the ring's size and a start needs half of it free,
\* so a stop, which asks for nothing, finds a slot.
Reserve ==
    /\ Len(queue) <= QueueSize - 1
    /\ active => Len(queue) <= QueueSize - 2

\* An active logger has a session, and a header under way has records left.
ActiveSession ==
    /\ active => session \in Sessions
    /\ control = "header" => header # 0

\* Past the flush the entry in hand fits the buffer.
Fits ==
    pc \in {"sync", "switch", "fail", "store"} => Len(buffer) + Len(entry) <= BufferSize

\* Nothing is buffered without a file, and nothing when the file is to be closed.
NothingBuffered ==
    /\ fd = 0 => buffer = <<>>
    /\ pc \in {"sync", "switch"} /\ (Lifecycle \/ quitting) => buffer = <<>>

IInv == TypeOK /\ Reserve /\ ActiveSession /\ Fits /\ NothingBuffered

USE BinlogAssumption

LEMMA InitHolds == Init => IInv
  <1> SUFFICES ASSUME Init PROVE IInv
    OBVIOUS
  <1>1. TypeOK
    <2>1. /\ active \in BOOLEAN /\ quit \in BOOLEAN /\ quitting \in BOOLEAN
          /\ failing \in BOOLEAN /\ initialized \in BOOLEAN /\ wanted \in BOOLEAN
          /\ pc \in {"take", "none"}
      BY Zenon DEF Init
    <2>2. /\ queue = <<>> /\ entry = <<>> /\ buffer = <<>>
          /\ <<>> \in Seq(Entry) /\ Len(<<>>) = 0
      BY DEF Init
    <2>3. /\ files \in [Sessions -> Seq(Entry)]
          /\ synced \in [Sessions -> Nat]
          /\ accepted \in [Sessions -> Nat]
      BY <2>2 DEF Init
    <2> QED
      BY <2>1, <2>2, <2>3 DEF Init, TypeOK
  <1>2. Reserve /\ ActiveSession
    BY DEF Init, Reserve, ActiveSession
  <1>3. Fits /\ NothingBuffered
    BY DEF Init, Fits, NothingBuffered
  <1> QED
    BY <1>1, <1>2, <1>3 DEF IInv

-----------------------------------------------------------------------------
(* The producers *)

\* What ca_binlog_emit does to the queue: at most one more entry, while active
\* and below the reserve.
LEMMA EmitEffect ==
    ASSUME IInv, Emit
    PROVE  /\ queue' \in Seq(Entry)
           /\ accepted' \in [Sessions -> Nat]
           /\ dropped' \in Nat
           /\ Len(queue') <= Len(queue) \/ (active /\ Len(queue') <= QueueSize - 2)
  <1>1. CASE active /\ HasRoom
    <2> DEFINE e == [kind |-> "record", session |-> session,
                     n |-> accepted[session] + 1]
    <2>1. session \in Sessions /\ accepted[session] \in Nat
      BY <1>1 DEF IInv, ActiveSession, TypeOK
    <2>2. e \in Entry
      BY <2>1 DEF Entry
    <2>3. queue' = Append(queue, e) /\ accepted' = [accepted EXCEPT ![session] = @ + 1] /\ dropped' = dropped
      BY <1>1 DEF Emit
    <2> HIDE DEF e
    <2>4. queue' \in Seq(Entry) /\ Len(queue') = Len(queue) + 1
      BY <2>2, <2>3 DEF IInv, TypeOK
    <2>5. Len(queue) + 1 <= QueueSize - 2
      BY <1>1 DEF HasRoom, IInv, TypeOK
    <2>6. accepted' \in [Sessions -> Nat]
      BY <2>1, <2>3 DEF IInv, TypeOK
    <2> QED
      BY <1>1, <2>3, <2>4, <2>5, <2>6 DEF IInv, TypeOK
  <1>2. CASE ~(active /\ HasRoom)
    BY <1>2 DEF Emit, IInv, TypeOK
  <1> QED
    BY <1>1, <1>2

\* ca_binlog_stop: one more entry at most, and then no active session.
LEMMA StopEffect ==
    ASSUME IInv, Stop
    PROVE  /\ queue' \in Seq(Entry)
           /\ active' = FALSE
           /\ Len(queue') <= QueueSize - 1
  <1>1. CASE active
    <2> DEFINE e == [kind |-> "stop", session |-> session,
                     n |-> accepted[session]]
    <2>1. session \in Sessions /\ accepted[session] \in Nat
      BY <1>1 DEF IInv, ActiveSession, TypeOK
    <2>2. e \in Entry
      BY <2>1 DEF Entry
    <2>3. queue' = Append(queue, e) /\ active' = FALSE
      BY <1>1 DEF Stop
    <2> HIDE DEF e
    <2> QED
      BY <1>1, <2>2, <2>3 DEF IInv, TypeOK, Reserve
  <1>2. CASE ~active
    BY <1>2 DEF Stop, IInv, TypeOK, Reserve
  <1> QED
    BY <1>1, <1>2

\* Steps that leave the writer alone keep what is said of it.
LEMMA WriterAlone ==
    ASSUME IInv, UNCHANGED writerVars
    PROVE  Fits' /\ NothingBuffered'
  BY DEF IInv, writerVars, Fits, NothingBuffered, Lifecycle

LEMMA EmitSampleKeeps ==
    ASSUME IInv, EmitSample PROVE IInv'
  <1>1. Emit
    BY DEF EmitSample
  <1>2. /\ queue' \in Seq(Entry)
        /\ accepted' \in [Sessions -> Nat]
        /\ dropped' \in Nat
        /\ Len(queue') <= Len(queue) \/ (active /\ Len(queue') <= QueueSize - 2)
    BY <1>1, EmitEffect
  <1>3. TypeOK'
    BY <1>2 DEF EmitSample, IInv, TypeOK, controlVars, writerVars, cardVars
  <1>4. Reserve'
    BY <1>2 DEF EmitSample, IInv, TypeOK, Reserve
  <1>5. ActiveSession'
    BY DEF EmitSample, IInv, ActiveSession, controlVars
  <1>6. Fits' /\ NothingBuffered'
    BY WriterAlone DEF EmitSample
  <1> QED
    BY <1>3, <1>4, <1>5, <1>6 DEF IInv

LEMMA EmitHeaderKeeps ==
    ASSUME IInv, EmitHeader PROVE IInv'
  <1>1. Emit
    BY DEF EmitHeader
  <1>2. /\ queue' \in Seq(Entry)
        /\ accepted' \in [Sessions -> Nat]
        /\ dropped' \in Nat
        /\ Len(queue') <= Len(queue) \/ (active /\ Len(queue') <= QueueSize - 2)
    BY <1>1, EmitEffect
  <1>3. header \in Nat \ {0} /\ header' = header - 1 /\ control' = IF header = 1 THEN "loop" ELSE "header"
    BY DEF EmitHeader, IInv, TypeOK, ActiveSession
  <1>4. TypeOK'
    BY <1>2, <1>3 DEF EmitHeader, IInv, TypeOK, writerVars, cardVars
  <1>5. Reserve'
    BY <1>2 DEF EmitHeader, IInv, TypeOK, Reserve
  <1>6. ActiveSession'
    BY <1>3 DEF EmitHeader, IInv, ActiveSession
  <1>7. Fits' /\ NothingBuffered'
    BY WriterAlone DEF EmitHeader
  <1> QED
    BY <1>4, <1>5, <1>6, <1>7 DEF IInv

LEMMA StopPolicyKeeps ==
    ASSUME IInv, StopPolicy PROVE IInv'
  <1>1. Emit
    BY DEF StopPolicy
  <1>2. /\ queue' \in Seq(Entry)
        /\ accepted' \in [Sessions -> Nat]
        /\ dropped' \in Nat
        /\ Len(queue') <= Len(queue) \/ (active /\ Len(queue') <= QueueSize - 2)
    BY <1>1, EmitEffect
  <1>3. TypeOK'
    BY <1>2 DEF StopPolicy, IInv, TypeOK, writerVars, cardVars
  <1>4. Reserve'
    BY <1>2 DEF StopPolicy, IInv, TypeOK, Reserve
  <1>5. ActiveSession'
    BY DEF StopPolicy, IInv, ActiveSession
  <1>6. Fits' /\ NothingBuffered'
    BY WriterAlone DEF StopPolicy
  <1> QED
    BY <1>3, <1>4, <1>5, <1>6 DEF IInv

LEMMA StartSessionKeeps ==
    ASSUME IInv, StartSession PROVE IInv'
  <1>1. CASE initialized /\ Len(queue) < QueueSize \div 2
    <2> DEFINE e == [kind |-> "start", session |-> session + 1, n |-> 0]
    <2>1. session + 1 \in Sessions
      BY DEF StartSession, IInv, TypeOK, Sessions
    <2>2. e \in Entry
      BY <2>1 DEF Entry
    <2>3. /\ queue' = Append(queue, e) /\ active' = TRUE /\ session' = session + 1
          /\ control' = "header" /\ header' = HeaderRecords /\ log_retry' = "recent"
      BY <1>1 DEF StartSession
    <2> HIDE DEF e
    <2>4. queue' \in Seq(Entry) /\ Len(queue') = Len(queue) + 1
      BY <2>2, <2>3 DEF IInv, TypeOK
    <2>5. Len(queue') <= QueueSize - 2
      BY <1>1, <2>4 DEF IInv, TypeOK
    <2>6. TypeOK'
      <3>1. session' \in 0..MaxSessions /\ active' \in BOOLEAN /\ header' \in Nat
        BY <2>1, <2>3 DEF Sessions
      <3> QED
        BY <2>3, <2>4, <3>1 DEF StartSession, IInv, TypeOK, writerVars, cardVars
    <2>7. Reserve' /\ ActiveSession'
      BY <2>1, <2>3, <2>4, <2>5 DEF Reserve, ActiveSession, IInv, TypeOK
    <2>8. Fits' /\ NothingBuffered'
      BY WriterAlone DEF StartSession
    <2> QED
      BY <2>6, <2>7, <2>8 DEF IInv
  <1>2. CASE ~(initialized /\ Len(queue) < QueueSize \div 2)
    <2>1. UNCHANGED <<queue, active, session, control, header>> /\ log_retry' = "recent"
      BY <1>2 DEF StartSession
    <2>2. TypeOK'
      BY <2>1 DEF StartSession, IInv, TypeOK, writerVars, cardVars
    <2>3. Reserve' /\ ActiveSession'
      BY <2>1 DEF Reserve, ActiveSession, IInv
    <2>4. Fits' /\ NothingBuffered'
      BY WriterAlone DEF StartSession
    <2> QED
      BY <2>2, <2>3, <2>4 DEF IInv
  <1> QED
    BY <1>1, <1>2

LEMMA StopSessionKeeps ==
    ASSUME IInv, StopSession \/ (CloseStop /\ initialized) PROVE IInv'
  <1>1. Stop
    BY DEF StopSession, CloseStop
  <1>2. queue' \in Seq(Entry) /\ active' = FALSE /\ Len(queue') <= QueueSize - 1
    BY <1>1, StopEffect
  <1>3. TypeOK'
    BY <1>2 DEF StopSession, CloseStop, IInv, TypeOK, writerVars, cardVars, historyVars
  <1>4. Reserve' /\ ActiveSession'
    BY <1>2 DEF StopSession, CloseStop, IInv, Reserve, ActiveSession
  <1>5. Fits' /\ NothingBuffered'
    BY WriterAlone DEF StopSession, CloseStop
  <1> QED
    BY <1>3, <1>4, <1>5 DEF IInv

\* Steps of the control thread and its clock that do not touch the queue.
LEMMA QuietKeeps ==
    ASSUME IInv,
           \/ SetWanted \/ RetryElapses \/ CloseQuit \/ CloseJoin
           \/ CloseStop /\ ~initialized
           \/ Finished \/ UNCHANGED vars
    PROVE  IInv'
  <1>0. wanted' \in BOOLEAN /\ quit' \in BOOLEAN /\ initialized' \in BOOLEAN
    BY Zenon DEF SetWanted, RetryElapses, CloseQuit, CloseJoin, CloseStop, Finished, IInv, TypeOK,
           vars, loggerVars, controlVars
  <1>1. TypeOK'
    BY <1>0 DEF SetWanted, RetryElapses, CloseQuit, CloseJoin, CloseStop, Finished, IInv, TypeOK,
           vars, loggerVars, controlVars, writerVars, cardVars, historyVars
  <1>2. UNCHANGED <<queue, active, session, header>> /\ (control' = "header" => control = "header")
    BY DEF SetWanted, RetryElapses, CloseQuit, CloseJoin, CloseStop, Finished,
           vars, loggerVars, controlVars, historyVars
  <1>3. Reserve' /\ ActiveSession'
    BY <1>2 DEF IInv, Reserve, ActiveSession
  <1>4. UNCHANGED writerVars
    BY DEF SetWanted, RetryElapses, CloseQuit, CloseJoin, CloseStop, Finished, vars
  <1>5. Fits' /\ NothingBuffered'
    BY <1>4, WriterAlone
  <1> QED
    BY <1>1, <1>3, <1>5 DEF IInv

-----------------------------------------------------------------------------
(* The writer *)

\* Steps that leave the control thread and the queue alone keep what is said of
\* them.
LEMMA ControlAlone ==
    ASSUME IInv, UNCHANGED <<loggerVars, controlVars, session>>
    PROVE  Reserve' /\ ActiveSession'
  BY DEF IInv, loggerVars, controlVars, Reserve, ActiveSession

LEMMA WriterTakeKeeps ==
    ASSUME IInv, WriterTake PROVE IInv'
  <1>1. /\ queue' \in Seq(Entry) /\ Len(queue') <= Len(queue)
        /\ entry' \in Seq(Entry) /\ Len(entry') <= 1
    <2>1. CASE queue = <<>>
      BY <2>1 DEF WriterTake, IInv, TypeOK
    <2>2. CASE queue # <<>>
      BY <2>2 DEF WriterTake, IInv, TypeOK
    <2> QED
      BY <2>1, <2>2
  <1>2. quitting' \in BOOLEAN
    BY DEF WriterTake
  <1>3. TypeOK'
    BY <1>1, <1>2 DEF WriterTake, IInv, TypeOK, controlVars, cardVars, historyVars
  <1>4. Reserve' /\ ActiveSession'
    BY <1>1 DEF WriterTake, IInv, TypeOK, Reserve, ActiveSession, controlVars, historyVars
  <1>5. Fits' /\ NothingBuffered'
    BY DEF WriterTake, IInv, Fits, NothingBuffered
  <1> QED
    BY <1>3, <1>4, <1>5 DEF IInv

LEMMA FlushKeeps ==
    ASSUME IInv, Flush PROVE IInv'
  <1>1. fd \in Sessions
    BY DEF Flush, IInv, TypeOK, Sessions
  <1>2. PICK k \in 0..Len(buffer) :
          /\ files' = [files EXCEPT ![fd] = @ \o SubSeq(buffer, 1, k)]
          /\ failing' = (k < Len(buffer))
          /\ lost' = IF k < Len(buffer) THEN lost \cup {fd} ELSE lost
    BY DEF Flush
  <1>3. files' \in [Sessions -> Seq(Entry)]
    <2>1. SubSeq(buffer, 1, k) \in Seq(Entry)
      BY DEF IInv, TypeOK
    <2>2. files[fd] \o SubSeq(buffer, 1, k) \in Seq(Entry)
      BY <1>1, <2>1 DEF IInv, TypeOK
    <2> QED
      BY <1>1, <1>2, <2>2 DEF IInv, TypeOK
  <1>4. failing' \in BOOLEAN /\ lost' \subseteq Sessions
    BY <1>1, <1>2 DEF IInv, TypeOK
  <1>5. buffer' = <<>> /\ buffer' \in Seq(Entry) /\ Len(buffer') = 0
    BY DEF Flush
  <1>6. TypeOK'
    BY <1>3, <1>4, <1>5 DEF Flush, IInv, TypeOK, loggerVars, controlVars
  <1>7. Reserve' /\ ActiveSession'
    BY ControlAlone DEF Flush
  <1>8. Fits' /\ NothingBuffered'
    BY <1>5 DEF Flush, IInv, TypeOK, Fits, NothingBuffered
  <1> QED
    BY <1>6, <1>7, <1>8 DEF IInv

LEMMA FlushNothingKeeps ==
    ASSUME IInv, FlushNothing PROVE IInv'
  <1>1. TypeOK'
    BY DEF FlushNothing, IInv, TypeOK, loggerVars, controlVars, cardVars, historyVars
  <1>2. Reserve' /\ ActiveSession'
    BY ControlAlone DEF FlushNothing, historyVars
  <1>3. buffer = <<>> \/ ~MustFlush
    BY DEF FlushNothing, IInv, NothingBuffered
  <1>4. Fits'
    BY <1>3 DEF FlushNothing, MustFlush, IInv, TypeOK, Fits
  <1>5. NothingBuffered'
    BY <1>3 DEF FlushNothing, MustFlush, IInv, NothingBuffered, Lifecycle
  <1> QED
    BY <1>1, <1>2, <1>4, <1>5 DEF IInv

LEMMA SyncKeeps ==
    ASSUME IInv, Sync \/ SyncNothing PROVE IInv'
  <1>1. CASE Sync
    <2>1. fd \in Sessions /\ Len(files[fd]) \in Nat
      BY <1>1 DEF Sync, IInv, TypeOK, Sessions
    <2>2. synced' \in [Sessions -> Nat] /\ lost' \subseteq Sessions /\ failing' \in BOOLEAN
      BY <1>1, <2>1 DEF Sync, IInv, TypeOK
    <2> QED
      BY <1>1, <2>2 DEF Sync, IInv, TypeOK, loggerVars, controlVars, Reserve, ActiveSession,
         Fits, NothingBuffered, Lifecycle
  <1>2. CASE SyncNothing
    BY <1>2 DEF SyncNothing, IInv, TypeOK, loggerVars, controlVars, cardVars, historyVars,
       Reserve, ActiveSession, Fits, NothingBuffered, Lifecycle
  <1> QED
    BY <1>1, <1>2

LEMMA SwitchKeeps ==
    ASSUME IInv, OpenLog \/ OpenLogFails \/ NoOpen PROVE IInv'
  <1>1. Starts => entry[1].session \in Sessions
    <2>1. Starts => entry[1] \in Entry
      BY DEF Starts, IInv, TypeOK
    <2> QED
      BY <2>1 DEF Entry
  <1>2. /\ fd' \in 0..MaxSessions
        /\ lost' \subseteq Sessions
        /\ fd' = 0 => fd = 0 \/ Lifecycle \/ quitting
    <2>1. CASE OpenLog
      BY <1>1, <2>1 DEF OpenLog, SwitchFile, IInv, TypeOK, Sessions
    <2>2. CASE OpenLogFails
      BY <1>1, <2>2 DEF OpenLogFails, SwitchFile, IInv, TypeOK, Starts, Lifecycle
    <2>3. CASE NoOpen
      BY <2>3 DEF NoOpen, SwitchFile, IInv, TypeOK
    <2> QED
      BY <2>1, <2>2, <2>3
  <1>3. /\ failing' \in BOOLEAN
        /\ pc = "switch"
        /\ pc' \in {"fail", "store"}
        /\ UNCHANGED <<loggerVars, controlVars, entry, quitting, buffer, cardVars,
                       session, accepted, samples>>
    BY DEF OpenLog, OpenLogFails, NoOpen, SwitchFile
  <1>4. TypeOK'
    BY <1>2, <1>3 DEF IInv, TypeOK, loggerVars, controlVars, cardVars
  <1>5. Reserve' /\ ActiveSession'
    BY <1>3, ControlAlone
  <1>6. Fits' /\ NothingBuffered'
    BY <1>2, <1>3 DEF IInv, Fits, NothingBuffered
  <1> QED
    BY <1>4, <1>5, <1>6 DEF IInv

LEMMA FailKeeps ==
    ASSUME IInv, Fail PROVE IInv'
  <1>1. Pending \subseteq Sessions
    <2>0. \A i \in 1..Len(queue) : queue[i] \in Entry
      BY DEF IInv, TypeOK
    <2>1. \A i \in 1..Len(queue) : queue[i].session \in Sessions
      BY <2>0 DEF Entry
    <2> QED
      BY <2>1 DEF Pending, IInv, ActiveSession
  <1>2. /\ queue' = <<>> /\ queue' \in Seq(Entry) /\ Len(queue') = 0
        /\ buffer' = <<>> /\ buffer' \in Seq(Entry) /\ Len(buffer') = 0
    BY DEF Fail
  <1>3. TypeOK'
    <2>0. active' \in BOOLEAN
      BY Zenon DEF Fail
    <2>1. /\ fd' \in 0..MaxSessions /\ errors' \in Nat /\ lost' \subseteq Sessions
          /\ pc' = "store"
      BY <1>1 DEF Fail, IInv, TypeOK
    <2>2. UNCHANGED <<quit, initialized, dropped, controlVars, entry, quitting,
                      failing, cardVars, session, accepted, samples>>
      BY DEF Fail
    <2> QED
      BY <1>2, <2>0, <2>1, <2>2 DEF IInv, TypeOK, controlVars, cardVars
  <1>4. Reserve' /\ ActiveSession'
    BY <1>2 DEF Fail, IInv, Reserve, ActiveSession, controlVars
  <1>5. Fits' /\ NothingBuffered'
    BY <1>2 DEF Fail, IInv, TypeOK, Fits, NothingBuffered
  <1> QED
    BY <1>3, <1>4, <1>5 DEF IInv

LEMMA StoreKeeps ==
    ASSUME IInv, Store PROVE IInv'
  <1>1. buffer' \in Seq(Entry) /\ Len(buffer') <= BufferSize
    BY DEF Store, IInv, TypeOK, Fits
  <1>2. entry' = <<>> /\ entry' \in Seq(Entry) /\ Len(entry') = 0
        /\ pc' \in {"take", "done"}
    BY DEF Store
  <1>3. TypeOK'
    <2>0. failing' \in BOOLEAN
      BY Zenon DEF Store
    <2>1. UNCHANGED <<loggerVars, controlVars, quitting, fd, cardVars, historyVars>>
      BY DEF Store
    <2> QED
      BY <1>1, <1>2, <2>0, <2>1 DEF IInv, TypeOK, loggerVars, controlVars, cardVars, historyVars
  <1>4. Reserve' /\ ActiveSession'
    BY ControlAlone DEF Store, historyVars
  <1>5. Fits' /\ NothingBuffered'
    BY <1>2 DEF Store, IInv, Fits, NothingBuffered
  <1> QED
    BY <1>3, <1>4, <1>5 DEF IInv

-----------------------------------------------------------------------------
LEMMA StepKeeps ==
    ASSUME IInv, [Next]_vars PROVE IInv'
  <1>1. CASE EmitSample
    BY <1>1, EmitSampleKeeps
  <1>2. CASE SetWanted \/ RetryElapses \/ Finished \/ UNCHANGED vars
    BY <1>2, QuietKeeps
  <1>3. CASE Control
    BY <1>3, StartSessionKeeps, EmitHeaderKeeps, StopPolicyKeeps, StopSessionKeeps, QuietKeeps
       DEF Control
  <1>4. CASE Writer
    BY <1>4, WriterTakeKeeps, FlushKeeps, FlushNothingKeeps, SyncKeeps, SwitchKeeps, FailKeeps,
       StoreKeeps DEF Writer, FlushNeeded, FlushTimed
  <1> QED
    BY <1>1, <1>2, <1>3, <1>4 DEF Next

LEMMA Invariance == Spec => []IInv
  BY InitHolds, StepKeeps, PTL DEF Spec

\* The logger's state is well typed: the records the writer collects never
\* exceed its buffer, and every session it opens, loses or counts exists.
THEOREM TypeCorrect == Spec => []TypeOK
  <1>1. IInv => TypeOK
    BY DEF IInv
  <1> QED
    BY <1>1, Invariance, PTL

\* enqueue never overwrites an entry: over any sequence of sessions, failures
\* and overload the ring holds at most QUEUE_SIZE entries.
THEOREM RingNeverOverflows == Spec => []QueueBounded
  <1>1. IInv => QueueBounded
    BY DEF IInv, TypeOK, Reserve, QueueBounded
  <1> QED
    BY <1>1, Invariance, PTL

-----------------------------------------------------------------------------
(* From the queue to the card *)

\* The writer has an entry to deal with: it has not reached the switch, or the
\* entry is a record that joins the buffer.
Writing == pc \in {"flush", "sync", "switch"}
InHand == entry # <<>> /\ (Writing \/ (pc = "store" /\ entry[1].kind = "record" /\ fd # 0))

\* A failure that the writer has not yet acted on.
Broken == failing /\ pc \in {"sync", "switch", "fail"}

\* What has reached the file or the buffer, as if it were an entry: the last
\* record of the open file, or the stop of an earlier session.
CardEnd ==
    IF fd # 0 THEN [kind |-> "record", session |-> fd, n |-> Len(files[fd]) + Len(buffer)]
    ELSE [kind |-> "stop", session |-> 0, n |-> 0]
Hand == IF InHand THEN entry[1] ELSE CardEnd

Hands == [kind : {"record", "start", "stop"}, session : 0 .. MaxSessions, n : Nat]

\* Entry b may be enqueued after a.
Follows(a, b) ==
    /\ b.kind = "start" => a.kind = "stop" /\ b.n = 0
    /\ b.kind # "start" => a.kind # "stop" /\ b.session = a.session
    /\ b.kind = "record" => b.n = a.n + 1
    /\ b.kind = "stop" => b.n = a.n

\* The queue q behind the hand h.
Nth(h, q, i) == IF i = 0 THEN h ELSE q[i]

Chained(h, q, broken) ==
    \A i \in 1 .. Len(q) : (i = 1 /\ broken) \/ Follows(Nth(h, q, i - 1), q[i])

\* The last entry is where the producers go on.
EndsAt(t, act, ses, acc) ==
    IF act THEN t.kind # "stop" /\ t.session = ses /\ t.n = acc[ses] ELSE t.kind = "stop"
Ends(h, q, broken, act, ses, acc) ==
    (q = <<>> /\ broken) \/ EndsAt(Nth(h, q, Len(q)), act, ses, acc)

\* Sessions follow each other.
Ordered(h, q, ses) ==
    /\ \A i \in 0 .. Len(q) : Nth(h, q, i).session <= ses
    /\ \A i, j \in 0 .. Len(q) : i < j =>
          /\ Nth(h, q, i).session <= Nth(h, q, j).session
          /\ Nth(h, q, j).kind = "start" => Nth(h, q, i).session < Nth(h, q, j).session

\* A stop carries the number of records that its session has accepted.
Stopped(e, act, ses, acc) ==
    e.kind = "stop" /\ e.session # 0 => e.n = acc[e.session] /\ (act => e.session < ses)
\* The file of a session whose start is still to come is empty.
Fresh(e) == e.kind = "start" => files[e.session] = <<>> /\ fd # e.session

QueueInv ==
    /\ Chained(Hand, queue, Broken)
    /\ Ends(Hand, queue, Broken, active, session, accepted)
    /\ Ordered(Hand, queue, session)
    /\ \A i \in 0 .. Len(queue) : Stopped(Nth(Hand, queue, i), active, session, accepted)
    /\ \A i \in 0 .. Len(queue) : Fresh(Nth(Hand, queue, i))
    /\ \A s \in Sessions : s > session => files[s] = <<>> /\ accepted[s] = 0

\* The writer's own state against the entry it has, and what a failure costs.
WriterInv ==
    /\ InHand => /\ Broken \/ Follows(CardEnd, entry[1])
                 /\ IF entry[1].kind = "start" THEN fd = 0 ELSE entry[1].session = fd
    /\ Broken => /\ entry # <<>> => entry[1].session \in lost
                 /\ pc # "fail" => fd # 0
                 /\ fd # 0 => fd \in lost
    /\ pc = "store" /\ ~failing /\ entry # <<>> /\ entry[1].kind = "record" => fd # 0
    /\ pc = "switch" /\ ~failing /\ Lifecycle /\ fd # 0 => synced[fd] = Len(files[fd])
    /\ pc \in {"take", "none", "done"} => entry = <<>>
    /\ pc \in {"take", "flush"} => ~failing
    /\ pc = "fail" => failing

QuitInv ==
    /\ quit => ~active /\ control \in {"quitting", "closed"}
    /\ quitting => quit /\ queue = <<>> /\ entry = <<>>
    /\ control \in {"closing", "quitting", "closed"} => ~active
    /\ active => initialized

BufferInv == \A j \in 1 .. Len(buffer) : buffer[j].session = fd /\ buffer[j].n = Len(files[fd]) + j

\* Nothing of session s is on its way any more.
Over(s) ==
    /\ s <= session /\ fd # s /\ ~(active /\ s = session)
    /\ \A i \in 1 .. Len(queue) : queue[i].session # s
    /\ ~(InHand /\ entry[1].session = s)
OverInv == \A s \in Sessions : Over(s) /\ s \notin lost => synced[s] = accepted[s]

LogInv == QueueInv /\ WriterInv /\ QuitInv /\ BufferInv /\ OverInv /\ FilesFaithful

-----------------------------------------------------------------------------
LEMMA NthTypes ==
    ASSUME NEW h \in Hands, NEW q \in Seq(Entry)
    PROVE  /\ Len(q) \in Nat
           /\ \A i \in 1 .. Len(q) : q[i] \in Entry /\ q[i] \in Hands /\ q[i].session \in Sessions /\ q[i].n \in Nat
           /\ \A i \in 0 .. Len(q) : /\ Nth(h, q, i) \in Hands /\ Nth(h, q, i).session \in Nat
                                     /\ Nth(h, q, i).n \in Nat
<1>1. Len(q) \in Nat /\ \A i \in 1 .. Len(q) : q[i] \in Entry
  BY LenProperties, ElementOfSeq
<1>2. \A e \in Entry : e \in Hands /\ e.session \in Sessions /\ e.n \in Nat
  <2>1. \A s \in Sessions : s \in 0 .. MaxSessions
    BY SMT DEF Sessions
  <2> QED BY <2>1 DEF Entry, Hands
<1>3. \A e \in Hands : e.session \in Nat /\ e.n \in Nat
  BY SMT DEF Hands
<1>4. \A i \in 0 .. Len(q) : i = 0 \/ i \in 1 .. Len(q)
  BY <1>1, SMT
<1> QED BY <1>1, <1>2, <1>3, <1>4 DEF Nth

\* A producer appends an entry.
LEMMA NthAppend ==
    ASSUME NEW h \in Hands, NEW q \in Seq(Entry), NEW e \in Entry
    PROVE  /\ Append(q, e) \in Seq(Entry) /\ Len(Append(q, e)) = Len(q) + 1
           /\ \A i \in 0 .. Len(q) : Nth(h, Append(q, e), i) = Nth(h, q, i)
           /\ \A i \in 1 .. Len(q) : Append(q, e)[i] = q[i]
           /\ Nth(h, Append(q, e), Len(q) + 1) = e /\ Append(q, e)[Len(q) + 1] = e
           /\ \A i \in 0 .. Len(q) + 1 : i \in 0 .. Len(q) \/ i = Len(q) + 1
<1>1. Len(q) \in Nat
  BY LenProperties
<1>2. /\ Append(q, e) \in Seq(Entry) /\ Len(Append(q, e)) = Len(q) + 1
      /\ Append(q, e)[Len(q) + 1] = e /\ \A i \in 1 .. Len(q) : Append(q, e)[i] = q[i]
  BY AppendProperties
<1>3. /\ \A i \in 0 .. Len(q) : i = 0 \/ i \in 1 .. Len(q)
      /\ Len(q) + 1 # 0
      /\ \A i \in 0 .. Len(q) + 1 : i \in 0 .. Len(q) \/ i = Len(q) + 1
  BY <1>1, SMT
<1> QED BY <1>2, <1>3 DEF Nth

LEMMA LineAppends ==
    ASSUME NEW h \in Hands, NEW q \in Seq(Entry), NEW e \in Entry, NEW broken, NEW act, NEW ses \in Nat, NEW acc,
           NEW act2, NEW ses2 \in Nat, NEW acc2,
           Chained(h, q, broken), Ends(h, q, broken, act, ses, acc), Ordered(h, q, ses),
           EndsAt(e, act2, ses2, acc2), e.session = ses2, ses <= ses2, e.kind = "start" => ses < ses2,
           \A a \in Hands : EndsAt(a, act, ses, acc) => Follows(a, e)
    PROVE  /\ Chained(h, Append(q, e), broken) /\ Ends(h, Append(q, e), broken, act2, ses2, acc2)
           /\ Ordered(h, Append(q, e), ses2)
<1> DEFINE p == Append(q, e)
           n == Len(q)
<1>1. n \in Nat /\ \A i \in 0 .. n : Nth(h, q, i) \in Hands /\ Nth(h, q, i).session \in Nat
  BY NthTypes
<1>2. /\ Len(p) = n + 1 /\ \A i \in 0 .. n : Nth(h, p, i) = Nth(h, q, i)
      /\ \A i \in 1 .. n : p[i] = q[i]
      /\ Nth(h, p, n + 1) = e /\ p[n + 1] = e /\ \A i \in 0 .. n + 1 : i \in 0 .. n \/ i = n + 1
  BY NthAppend
<1>2a. q = <<>> => n = 0
  BY SMT
<1>2b. n = 0 => q = <<>>
  BY EmptySeq
<1> HIDE DEF p
<1>3. Chained(h, p, broken)
  <2>1. ASSUME NEW i \in 1 .. n + 1
        PROVE  (i = 1 /\ broken) \/ Follows(Nth(h, p, i - 1), p[i])
    <3>1. CASE i \in 1 .. n
      <4>1. i - 1 \in 0 .. n
        BY <1>1, <3>1, SMT
      <4> QED BY <1>2, <3>1, <4>1 DEF Chained
    <3>2. CASE i = n + 1
      <4>1. i - 1 = n /\ n \in 0 .. n
        BY <1>1, <3>2, SMT
      <4>2. Nth(h, p, i - 1) = Nth(h, q, n) /\ Nth(h, q, n) \in Hands /\ p[i] = e
        BY <1>1, <1>2, <3>2, <4>1
      <4>3. CASE EndsAt(Nth(h, q, n), act, ses, acc)
        BY <4>2, <4>3
      <4>4. CASE q = <<>> /\ broken
        BY <1>2a, <3>2, <4>4, SMT
      <4> QED BY <4>3, <4>4 DEF Ends
    <3> QED BY <1>1, <3>1, <3>2, SMT
  <2> QED BY <1>2, <2>1 DEF Chained
<1>4. Ends(h, p, broken, act2, ses2, acc2)
  BY <1>2 DEF Ends
<1>5. Ordered(h, p, ses2)
  <2>1. \A i \in 0 .. n : Nth(h, p, i).session <= ses
    BY <1>2 DEF Ordered
  <2>2. \A i \in 0 .. n : Nth(h, p, i).session <= ses2 /\ Nth(h, p, i).session \in Nat
    BY <1>1, <1>2, <2>1, SMT
  <2>3. \A i \in 0 .. n + 1 : Nth(h, p, i).session <= ses2
    BY <1>2, <2>2, SMT
  <2>4. ASSUME NEW i \in 0 .. n + 1, NEW j \in 0 .. n + 1, i < j
        PROVE  /\ Nth(h, p, i).session <= Nth(h, p, j).session
               /\ Nth(h, p, j).kind = "start" => Nth(h, p, i).session < Nth(h, p, j).session
    <3>1. i \in 0 .. n
      BY <1>1, <2>4, SMT
    <3>2. CASE j \in 0 .. n
      BY <1>2, <2>4, <3>1, <3>2 DEF Ordered
    <3>3. CASE j = n + 1
      <4>1. Nth(h, p, j) = e
        BY <1>2, <3>3
      <4>2. e.kind = "start" => Nth(h, p, i).session < ses2
        <5> DEFINE x == Nth(h, p, i).session
        <5>1. x \in Nat /\ x <= ses
          BY <2>1, <2>2, <3>1
        <5> HIDE DEF x
        <5>2. ses < ses2 => x < ses2
          BY <5>1, SMT
        <5> QED BY <5>2 DEF x
      <4> QED BY <2>2, <3>1, <4>1, <4>2
    <3> QED BY <1>2, <3>2, <3>3
  <2> QED BY <1>2, <2>3, <2>4 DEF Ordered
<1> QED BY <1>3, <1>4, <1>5 DEF p

\* The writer takes the first entry.
LEMMA NthTail ==
    ASSUME NEW h \in Hands, NEW q \in Seq(Entry), q # <<>>
    PROVE  /\ Tail(q) \in Seq(Entry) /\ Len(q) \in Nat /\ Len(q) > 0 /\ Len(Tail(q)) = Len(q) - 1
           /\ Head(q) = q[1] /\ Head(q) \in Entry
           /\ \A i \in 1 .. Len(q) - 1 : Tail(q)[i] = q[i + 1]
           /\ \A i \in 0 .. Len(q) - 1 : Nth(Head(q), Tail(q), i) = Nth(h, q, i + 1) /\ i + 1 \in 0 .. Len(q)
<1>1. Tail(q) \in Seq(Entry) /\ Len(Tail(q)) = Len(q) - 1 /\ Head(q) \in Entry
      /\ \A i \in 1 .. Len(q) - 1 : Tail(q)[i] = q[i + 1]
  BY HeadTailProperties
<1>2. Len(q) \in Nat /\ Len(q) > 0 /\ Head(q) = q[1]
  BY LenProperties, EmptySeq, SMT
<1>3. \A i \in 0 .. Len(q) - 1 : (i = 0 \/ i \in 1 .. Len(q) - 1) /\ i + 1 \in 0 .. Len(q) /\ i + 1 # 0
  BY <1>2, SMT
<1> QED BY <1>1, <1>2, <1>3 DEF Nth

LEMMA LineTail ==
    ASSUME NEW h \in Hands, NEW q \in Seq(Entry), q # <<>>, NEW act, NEW ses, NEW acc,
           Chained(h, q, FALSE), Ends(h, q, FALSE, act, ses, acc), Ordered(h, q, ses)
    PROVE  /\ Follows(h, Head(q)) /\ Chained(Head(q), Tail(q), FALSE)
           /\ Ends(Head(q), Tail(q), FALSE, act, ses, acc) /\ Ordered(Head(q), Tail(q), ses)
<1> DEFINE p == Tail(q)
           g == Head(q)
           n == Len(q)
<1>1. n \in Nat /\ n > 0 /\ Len(p) = n - 1 /\ g = q[1]
      /\ \A i \in 1 .. n - 1 : p[i] = q[i + 1]
  BY NthTail
<1>1a. \A i \in 0 .. n - 1 : Nth(g, p, i) = Nth(h, q, i + 1)
  BY NthTail
<1>1b. \A i \in 0 .. n - 1 : i + 1 \in 0 .. n
  BY <1>1, SMT
<1>2. Follows(h, g)
  <2>1. 1 \in 1 .. n /\ Nth(h, q, 1 - 1) = h
    BY <1>1, SMT DEF Nth
  <2> QED BY <1>1, <2>1 DEF Chained
<1> HIDE DEF p, g
<1>3. Chained(g, p, FALSE)
  <2>1. ASSUME NEW i \in 1 .. n - 1
        PROVE  Follows(Nth(g, p, i - 1), p[i])
    <3>1. i - 1 \in 0 .. n - 1 /\ i + 1 \in 1 .. n /\ (i - 1) + 1 = (i + 1) - 1
      BY <1>1, SMT
    <3>2. Nth(g, p, i - 1) = Nth(h, q, (i + 1) - 1) /\ p[i] = q[i + 1]
      BY <1>1, <1>1a, <3>1
    <3> QED BY <3>1, <3>2 DEF Chained
  <2> QED BY <1>1, <2>1 DEF Chained
<1>4. Ends(g, p, FALSE, act, ses, acc)
  <2>1. n - 1 \in 0 .. n - 1 /\ (n - 1) + 1 = n
    BY <1>1, SMT
  <2>2. Nth(g, p, n - 1) = Nth(h, q, n)
    <3>1. Nth(g, p, n - 1) = Nth(h, q, (n - 1) + 1)
      BY <1>1a, <2>1
    <3> QED BY <2>1, <3>1
  <2> QED BY <1>1, <2>2 DEF Ends
<1>5. Ordered(g, p, ses)
  <2>1. \A i \in 0 .. n - 1 : Nth(g, p, i).session <= ses
    BY <1>1a, <1>1b DEF Ordered
  <2>2. ASSUME NEW i \in 0 .. n - 1, NEW j \in 0 .. n - 1, i < j
        PROVE  /\ Nth(g, p, i).session <= Nth(g, p, j).session
               /\ Nth(g, p, j).kind = "start" => Nth(g, p, i).session < Nth(g, p, j).session
    <3>1. i + 1 < j + 1
      BY <1>1, <2>2, SMT
    <3> QED BY <1>1a, <1>1b, <3>1 DEF Ordered
  <2> QED BY <1>1, <2>1, <2>2 DEF Ordered
<1> QED BY <1>2, <1>3, <1>4, <1>5 DEF p, g

\* The writer goes on: the hand is replaced by one that the queue follows as well.
LEMMA LineHand ==
    ASSUME NEW h \in Hands, NEW g \in Hands, NEW q \in Seq(Entry), NEW act, NEW ses \in Nat, NEW acc,
           NEW broken, NEW broken2,
           Chained(h, q, broken), Ends(h, q, broken, act, ses, acc), Ordered(h, q, ses),
           g.session <= h.session,
           broken2 \/ (~broken /\ (h.kind = "stop" <=> g.kind = "stop")
                               /\ (h.kind # "stop" => g.session = h.session /\ g.n = h.n)),
           broken => broken2
    PROVE  Chained(g, q, broken2) /\ Ends(g, q, broken2, act, ses, acc) /\ Ordered(g, q, ses)
<1>1. /\ Len(q) \in Nat /\ (Len(q) = 0 => q = <<>>)
      /\ \A i \in 1 .. Len(q) : q[i] \in Hands /\ Nth(h, q, i) = q[i] /\ Nth(g, q, i) = q[i] /\ i \in 0 .. Len(q)
  <2>1. Len(q) \in Nat
    BY LenProperties
  <2>2. \A i \in 1 .. Len(q) : i # 0 /\ i \in 0 .. Len(q)
    BY <2>1, SMT
  <2> QED BY <2>1, <2>2, NthTypes, EmptySeq DEF Nth
<1>2. Nth(h, q, 0) = h /\ Nth(g, q, 0) = g /\ 0 \in 0 .. Len(q)
  BY <1>1, SMT DEF Nth
<1>3. h.session \in Nat /\ g.session \in Nat
  BY SMT DEF Hands
<1>4. \A b \in Entry : ~broken2 /\ Follows(h, b) => Follows(g, b)
  BY DEF Follows
<1>5. Chained(g, q, broken2)
  <2>1. ASSUME NEW i \in 1 .. Len(q)
        PROVE  (i = 1 /\ broken2) \/ Follows(Nth(g, q, i - 1), q[i])
    <3>0. (i = 1 /\ broken) \/ Follows(Nth(h, q, i - 1), q[i])
      BY DEF Chained
    <3>1. CASE i = 1
      <4>1. i - 1 = 0 /\ q[i] \in Entry
        BY <3>1, NthTypes, SMT
      <4> QED BY <1>2, <1>4, <3>0, <3>1, <4>1
    <3>2. CASE i # 1
      <4>1. i - 1 \in 1 .. Len(q)
        BY <1>1, <3>2, SMT
      <4> QED BY <1>1, <3>0, <3>2, <4>1
    <3> QED BY <3>1, <3>2
  <2> QED BY <2>1 DEF Chained
<1>6. Ends(g, q, broken2, act, ses, acc)
  <2>1. CASE Len(q) = 0
    BY <1>1, <1>2, <2>1 DEF Ends, EndsAt
  <2>2. CASE Len(q) # 0
    <3>1. Len(q) \in 1 .. Len(q) /\ q # <<>>
      BY <1>1, <2>2, SMT
    <3> QED BY <1>1, <3>1 DEF Ends
  <2> QED BY <2>1, <2>2
<1>7. Ordered(g, q, ses)
  <2>1. \A i \in 0 .. Len(q) : i = 0 \/ i \in 1 .. Len(q)
    BY <1>1, SMT
  <2>2. \A i \in 1 .. Len(q) : Nth(g, q, i) = Nth(h, q, i)
    BY <1>1
  <2>3. \A i \in 0 .. Len(q) : Nth(g, q, i).session <= Nth(h, q, i).session
    <3>1. \A i \in 1 .. Len(q) : q[i].session <= q[i].session
      BY NthTypes, SMT DEF Sessions
    <3> QED BY <1>1, <1>2, <2>1, <3>1
  <2>4. \A i \in 0 .. Len(q) : /\ Nth(h, q, i).session <= ses /\ Nth(h, q, i).session \in Nat
                               /\ Nth(g, q, i).session \in Nat
    BY NthTypes DEF Ordered
  <2>5. ASSUME NEW i \in 0 .. Len(q)
        PROVE  Nth(g, q, i).session <= ses
    BY <2>3, <2>4, SMT
  <2>6. ASSUME NEW i \in 0 .. Len(q), NEW j \in 0 .. Len(q), i < j
        PROVE  /\ Nth(g, q, i).session <= Nth(g, q, j).session
               /\ Nth(g, q, j).kind = "start" => Nth(g, q, i).session < Nth(g, q, j).session
    <3>1. Nth(g, q, j) = Nth(h, q, j)
      BY <1>1, <2>1, <2>2, <2>6, SMT
    <3>2. /\ Nth(h, q, i).session <= Nth(h, q, j).session
          /\ Nth(h, q, j).kind = "start" => Nth(h, q, i).session < Nth(h, q, j).session
      BY <2>6 DEF Ordered
    <3> DEFINE x == Nth(g, q, i).session
               y == Nth(h, q, i).session
               z == Nth(h, q, j).session
    <3>3. x <= y /\ x \in Nat /\ y \in Nat /\ z \in Nat
      BY <2>3, <2>4
    <3> HIDE DEF x, y, z
    <3>4. (y <= z => x <= z) /\ (y < z => x < z)
      BY <3>3, SMT
    <3> QED BY <3>1, <3>2, <3>4 DEF x, y, z
  <2> QED BY <2>5, <2>6 DEF Ordered
<1> QED BY <1>5, <1>6, <1>7

-----------------------------------------------------------------------------
(* The producers *)

LEMMA HandType == IInv => Hand \in Hands /\ CardEnd \in Hands
<1> SUFFICES ASSUME IInv PROVE Hand \in Hands /\ CardEnd \in Hands
  OBVIOUS
<1>1. fd \in 0 .. MaxSessions /\ buffer \in Seq(Entry) /\ entry \in Seq(Entry)
      /\ \A s \in Sessions : files[s] \in Seq(Entry)
  BY DEF IInv, TypeOK
<1>2. CardEnd \in Hands
  <2>1. CASE fd = 0
    <3>1. 0 \in 0 .. MaxSessions /\ 0 \in Nat
      BY SMT
    <3> QED BY <2>1, <3>1 DEF CardEnd, Hands
  <2>2. CASE fd # 0
    <3>1. fd \in Sessions
      BY <1>1, <2>2, SMT DEF Sessions
    <3> DEFINE n == Len(files[fd]) + Len(buffer)
    <3>2. Len(files[fd]) \in Nat /\ Len(buffer) \in Nat
      BY <1>1, <3>1, LenProperties
    <3>3. n \in Nat
      BY <3>2, SMT
    <3> HIDE DEF n
    <3>4. CardEnd = [kind |-> "record", session |-> fd, n |-> n]
      BY <2>2 DEF CardEnd, n
    <3> QED BY <1>1, <3>3, <3>4 DEF Hands
  <2> QED BY <2>1, <2>2
<1>3. InHand => entry[1] \in Hands
  <2> SUFFICES ASSUME entry # <<>> PROVE entry[1] \in Hands
    BY DEF InHand
  <2>1. 1 \in 1 .. Len(entry)
    BY <1>1, LenProperties, EmptySeq, SMT
  <2> QED BY <1>1, <1>2, <2>1, NthTypes
<1> QED BY <1>2, <1>3 DEF Hand

LEMMA HandOfFd ==
    ASSUME IInv, LogInv
    PROVE  Hand.session <= session /\ fd <= session /\ session \in 0 .. MaxSessions /\ fd \in 0 .. MaxSessions
<1>1. Hand.session <= session
  <2>1. 0 \in 0 .. Len(queue)
    BY LenProperties, SMT DEF IInv, TypeOK
  <2>2. Nth(Hand, queue, 0) = Hand
    BY DEF Nth
  <2> QED BY <2>1, <2>2 DEF LogInv, QueueInv, Ordered
<1>2. session \in 0 .. MaxSessions /\ fd \in 0 .. MaxSessions
  BY DEF IInv, TypeOK
<1>3. fd = 0 \/ fd = Hand.session
  BY DEF Hand, CardEnd, LogInv, WriterInv
<1>4. fd <= session
  BY <1>1, <1>2, <1>3, SMT
<1> QED BY <1>1, <1>2, <1>4

AtCard == <<pc, entry, failing, fd, buffer, files, synced, lost>>

LEMMA CardSame ==
    ASSUME IInv, LogInv, UNCHANGED AtCard
    PROVE  /\ Hand' = Hand /\ Broken' = Broken /\ InHand' = InHand
           /\ WriterInv' /\ BufferInv' /\ FilesFaithful'
           /\ \A e : Fresh(e)' = Fresh(e)
<1>1. UNCHANGED <<pc, entry, failing, fd, buffer, files, synced, lost>>
  BY DEF AtCard
<1>2. InHand' = InHand /\ CardEnd' = CardEnd /\ Broken' = Broken
  BY <1>1 DEF InHand, CardEnd, Broken, Writing
<1>3. Hand' = Hand
  BY <1>1, <1>2 DEF Hand
<1>4. WriterInv'
  BY <1>1, <1>2 DEF LogInv, WriterInv, Lifecycle
<1>5. BufferInv' /\ FilesFaithful'
  BY <1>1 DEF LogInv, BufferInv, FilesFaithful
<1>6. \A e : Fresh(e)' = Fresh(e)
  BY <1>1 DEF Fresh
<1> QED BY <1>2, <1>3, <1>4, <1>5, <1>6

\* An entry is enqueued: a record or the stop of the active session, or the
\* start of the next one.
LEMMA Enqueued ==
    ASSUME IInv, LogInv, IInv', UNCHANGED AtCard, NEW e \in Entry,
           queue' = Append(queue, e), EndsAt(e, active', session', accepted'), e.session = session',
           (active /\ session' = session /\ e.kind # "start") \/ (~active /\ session' = session + 1),
           \A a \in Hands : EndsAt(a, active, session, accepted) => Follows(a, e),
           e.kind = "stop" => e.n = accepted'[session'],
           \A s \in Sessions : s # session' => accepted'[s] = accepted[s]
    PROVE  QueueInv' /\ WriterInv' /\ BufferInv' /\ OverInv' /\ FilesFaithful'
<1>1. Hand' = Hand /\ Broken' = Broken /\ InHand' = InHand /\ \A x : Fresh(x)' = Fresh(x)
  BY CardSame
<1>2. Hand \in Hands /\ queue \in Seq(Entry)
  BY HandType DEF IInv, TypeOK
<1>3. session \in 0 .. MaxSessions /\ session' \in 0 .. MaxSessions /\ fd <= session /\ fd \in 0 .. MaxSessions
  BY HandOfFd DEF IInv, TypeOK
<1>4. session \in Nat /\ session' \in Nat /\ session <= session' /\ (e.kind = "start" => session < session')
      /\ e.session \in Sessions
  <2>1. session \in Nat /\ session' \in Nat
    BY <1>3, SMT
  <2>2. CASE session' = session
    <3>1. session <= session /\ ~(session = session + 1)
      BY <2>1, SMT
    <3> QED BY <2>1, <2>2, <3>1 DEF Entry
  <2>3. CASE session' = session + 1
    <3>1. session < session + 1 /\ session <= session + 1
      BY <2>1, SMT
    <3> QED BY <2>1, <2>3, <3>1 DEF Entry
  <2> QED BY <2>2, <2>3
<1>5. /\ Chained(Hand, queue, Broken) /\ Ends(Hand, queue, Broken, active, session, accepted)
      /\ Ordered(Hand, queue, session)
  BY DEF LogInv, QueueInv
<1>6. /\ Chained(Hand, queue', Broken) /\ Ends(Hand, queue', Broken, active', session', accepted')
      /\ Ordered(Hand, queue', session')
  BY <1>2, <1>4, <1>5, LineAppends
<1>7. /\ \A i \in 0 .. Len(queue) : Nth(Hand, queue', i) = Nth(Hand, queue, i)
      /\ Nth(Hand, queue', Len(queue) + 1) = e /\ Len(queue') = Len(queue) + 1
      /\ \A i \in 0 .. Len(queue) + 1 : i \in 0 .. Len(queue) \/ i = Len(queue) + 1
      /\ \A i \in 1 .. Len(queue) : queue'[i] = queue[i]
      /\ queue'[Len(queue) + 1] = e
  BY <1>2, NthAppend
<1>8. \A i \in 0 .. Len(queue') : Stopped(Nth(Hand, queue', i), active', session', accepted')
  <2>1. ASSUME NEW i \in 0 .. Len(queue)
        PROVE  Stopped(Nth(Hand, queue, i), active', session', accepted')
    <3> DEFINE x == Nth(Hand, queue, i)
    <3>1. Stopped(x, active, session, accepted) /\ x.session <= session
      BY <1>5 DEF LogInv, QueueInv, Ordered
    <3>2. x.session \in 0 .. MaxSessions
      BY <1>2, NthTypes DEF Hands
    <3> HIDE DEF x
    <3> SUFFICES ASSUME x.kind = "stop", x.session # 0
                 PROVE  x.n = accepted'[x.session] /\ (active' => x.session < session')
      BY DEF Stopped, x
    <3>3. x.session \in Sessions /\ x.n = accepted[x.session] /\ (active => x.session < session)
      <4>1. x.session \in Sessions
        BY <3>2, SMT DEF Sessions
      <4> QED BY <3>1, <4>1 DEF Stopped
    <3>4. x.session < session' /\ x.session # session'
      <4>1. CASE active /\ session' = session
        <5>1. x.session < session
          BY <3>3, <4>1
        <5> QED BY <1>3, <3>2, <4>1, <5>1, SMT
      <4>2. CASE session' = session + 1
        <5>1. x.session <= session
          BY <3>1
        <5> QED BY <1>3, <3>2, <4>2, <5>1, SMT
      <4> QED BY <4>1, <4>2
    <3> QED BY <3>3, <3>4
  <2>2. Stopped(e, active', session', accepted')
    BY DEF Stopped, EndsAt
  <2> QED BY <1>7, <2>1, <2>2
<1>9. \A i \in 0 .. Len(queue') : Fresh(Nth(Hand, queue', i))
  <2>1. \A i \in 0 .. Len(queue) : Fresh(Nth(Hand, queue, i))
    BY DEF LogInv, QueueInv
  <2>2. Fresh(e)
    <3> SUFFICES ASSUME e.kind = "start" PROVE files[session'] = <<>> /\ fd # session'
      BY DEF Fresh
    <3>1. session < session' /\ session' \in Sessions /\ session' > session
      BY <1>4, SMT
    <3>2. files[session'] = <<>>
      BY <3>1 DEF LogInv, QueueInv
    <3>3. fd # session'
      BY <1>3, <3>1, SMT
    <3> QED BY <3>2, <3>3
  <2> QED BY <1>7, <2>1, <2>2
<1>10. \A s \in Sessions : s > session' => files'[s] = <<>> /\ accepted'[s] = 0
  <2> SUFFICES ASSUME NEW s \in Sessions, s > session' PROVE files'[s] = <<>> /\ accepted'[s] = 0
    OBVIOUS
  <2>1. s > session /\ s # session'
    BY <1>4, SMT DEF Sessions
  <2> QED BY <2>1 DEF LogInv, QueueInv, AtCard
<1>11. QueueInv'
  <2>1. Chained(Hand', queue', Broken') /\ Ends(Hand', queue', Broken', active', session', accepted')
        /\ Ordered(Hand', queue', session')
    BY <1>1, <1>6
  <2>2. \A i \in 0 .. Len(queue') : Stopped(Nth(Hand', queue', i), active', session', accepted')
    BY <1>1, <1>8
  <2>3. (\A i \in 0 .. Len(queue) : Fresh(Nth(Hand, queue, i)))'
    <3>1. UNCHANGED <<files, fd>>
      BY DEF AtCard
    <3> QED BY <1>1, <1>9, <3>1 DEF Fresh
  <2> QED BY <1>10, <2>1, <2>2, <2>3 DEF QueueInv
<1>12. OverInv'
  <2> SUFFICES ASSUME NEW s \in Sessions, Over(s)', s \notin lost' PROVE synced'[s] = accepted'[s]
    BY DEF OverInv
  <2>1. UNCHANGED <<lost, synced, fd, entry>>
    BY DEF AtCard
  <2>2. s <= session' /\ fd # s /\ \A i \in 1 .. Len(queue') : queue'[i].session # s
    BY <2>1 DEF Over
  <2>3. s # session'
    <3>1. Len(queue) \in Nat
      BY <1>2, LenProperties
    <3>2. Len(queue) + 1 \in 1 .. Len(queue')
      BY <1>7, <3>1, SMT
    <3> QED BY <1>7, <2>2, <3>2
  <2>4. \A i \in 1 .. Len(queue) : queue[i].session # s
    <3>1. Len(queue) \in Nat
      BY <1>2, LenProperties
    <3>2. \A i \in 1 .. Len(queue) : i \in 1 .. Len(queue')
      BY <1>7, <3>1, SMT
    <3> QED BY <1>7, <2>2, <3>2
  <2>5. s <= session /\ ~(active /\ s = session)
    <3>1. s \in Nat
      BY SMT DEF Sessions
    <3>2. CASE active /\ session' = session
      BY <2>2, <2>3, <3>2
    <3>3. CASE ~active /\ session' = session + 1
      <4>1. s <= session
        BY <1>4, <2>2, <2>3, <3>1, <3>3, SMT
      <4> QED BY <3>3, <4>1
    <3> QED BY <3>2, <3>3
  <2>6. ~(InHand /\ entry[1].session = s)
    BY <1>1, <2>1 DEF Over
  <2>7. Over(s)
    BY <2>2, <2>4, <2>5, <2>6 DEF Over
  <2> QED BY <2>1, <2>3, <2>7 DEF LogInv, OverInv
<1> QED BY <1>11, <1>12, CardSame

\* Nothing of the log changes.
LEMMA LogSame ==
    ASSUME IInv, LogInv, UNCHANGED <<AtCard, queue, active, session, accepted>>
    PROVE  QueueInv' /\ WriterInv' /\ BufferInv' /\ OverInv' /\ FilesFaithful'
<1>1. Hand' = Hand /\ Broken' = Broken /\ InHand' = InHand /\ WriterInv' /\ BufferInv' /\ FilesFaithful'
  BY CardSame
<1>2. UNCHANGED <<fd, entry, files, synced, lost>>
  BY DEF AtCard
<1>3. QueueInv'
  BY <1>1, <1>2 DEF LogInv, QueueInv, Fresh
<1>4. OverInv'
  BY <1>1, <1>2 DEF LogInv, OverInv, Over
<1> QED BY <1>1, <1>3, <1>4

\* Before the close nobody has asked the writer to quit.
LEMMA NotQuit ==
    ASSUME LogInv, active \/ control \in {"loop", "header", "stopping", "closing"}
    PROVE  ~quit /\ ~quitting
BY DEF LogInv, QuitInv

LEMMA EmitLogs ==
    ASSUME IInv, LogInv, IInv', Emit, UNCHANGED <<AtCard, active, session>>
    PROVE  QueueInv' /\ WriterInv' /\ BufferInv' /\ OverInv' /\ FilesFaithful'
<1>1. CASE active /\ HasRoom
  <2> DEFINE e == [kind |-> "record", session |-> session, n |-> accepted[session] + 1]
  <2>1. session \in Sessions /\ accepted \in [Sessions -> Nat] /\ accepted[session] \in Nat
    BY <1>1 DEF IInv, ActiveSession, TypeOK
  <2>2. e \in Entry /\ e.kind = "record" /\ e.session = session /\ e.n = accepted[session] + 1
    BY <2>1 DEF Entry
  <2>3. queue' = Append(queue, e) /\ accepted' = [accepted EXCEPT ![session] = @ + 1]
    BY <1>1 DEF Emit
  <2>4. accepted'[session] = accepted[session] + 1 /\ \A s \in Sessions : s # session => accepted'[s] = accepted[s]
    BY <2>1, <2>3
  <2> HIDE DEF e
  <2>5. EndsAt(e, active', session', accepted')
    BY <1>1, <2>2, <2>4 DEF EndsAt
  <2>6. \A a \in Hands : EndsAt(a, active, session, accepted) => Follows(a, e)
    BY <1>1, <2>2 DEF EndsAt, Follows
  <2> QED BY <1>1, <2>2, <2>3, <2>4, <2>5, <2>6, Enqueued
<1>2. CASE ~(active /\ HasRoom)
  <2>1. UNCHANGED <<queue, accepted>>
    BY <1>2 DEF Emit
  <2> QED BY <2>1, LogSame
<1> QED BY <1>1, <1>2

LEMMA EmitQuit ==
    ASSUME LogInv, Emit, UNCHANGED <<active, quit, quitting, entry, initialized>>,
           control \notin {"closing", "quitting", "closed"}, control' \notin {"closing", "quitting", "closed"}
    PROVE  QuitInv'
<1>1. ~quit /\ ~quitting
  BY DEF LogInv, QuitInv
<1> QED BY <1>1 DEF LogInv, QuitInv

ProducerEmits == EmitSample \/ EmitHeader \/ StopPolicy

LEMMA ProducerEmitsLog == IInv /\ LogInv /\ IInv' /\ ProducerEmits => LogInv'
<1> SUFFICES ASSUME IInv, LogInv, IInv', ProducerEmits PROVE LogInv'
  OBVIOUS
<1>1. Emit /\ UNCHANGED <<active, quit, initialized, session, writerVars, cardVars, lost>>
  BY DEF ProducerEmits, EmitSample, EmitHeader, StopPolicy
<1>2. control \notin {"closing", "quitting", "closed"} /\ control' \notin {"closing", "quitting", "closed"}
  BY DEF ProducerEmits, EmitSample, EmitHeader, StopPolicy, controlVars
<1>3. UNCHANGED <<AtCard, quitting>>
  BY <1>1 DEF AtCard, writerVars, cardVars
<1>4. UNCHANGED entry
  BY <1>3 DEF AtCard
<1> QED BY <1>1, <1>2, <1>3, <1>4, EmitLogs, EmitQuit DEF LogInv

LEMMA StartSessionLog == IInv /\ LogInv /\ IInv' /\ StartSession => LogInv'
<1> SUFFICES ASSUME IInv, LogInv, IInv', StartSession PROVE LogInv'
  OBVIOUS
<1>1. /\ control = "loop" /\ ~active /\ session < MaxSessions
      /\ UNCHANGED <<quit, initialized, writerVars, cardVars, accepted, lost>>
  BY DEF StartSession
<1>2. UNCHANGED <<AtCard, quitting, entry>>
  BY <1>1 DEF AtCard, writerVars, cardVars
<1>3. CASE UNCHANGED <<queue, active, session, control, header>>
  <2>1. UNCHANGED <<queue, active, session, control>>
    BY <1>3
  <2>2. QuitInv'
    BY <1>1, <1>2, <2>1 DEF LogInv, QuitInv
  <2> QED BY <1>1, <1>2, <2>1, <2>2, LogSame DEF LogInv
<1>4. CASE /\ queue' = Append(queue, [kind |-> "start", session |-> session + 1, n |-> 0])
           /\ active' = TRUE /\ session' = session + 1 /\ control' = "header" /\ initialized
  <2> DEFINE e == [kind |-> "start", session |-> session + 1, n |-> 0]
  <2>1. session' \in Sessions
    <3>1. session \in 0 .. MaxSessions
      BY DEF IInv, TypeOK
    <3> QED BY <1>1, <1>4, <3>1, SMT DEF Sessions
  <2>2. e \in Entry /\ e.kind = "start" /\ e.session = session' /\ e.n = 0 /\ queue' = Append(queue, e)
    <3>1. 0 \in Nat
      BY SMT
    <3> QED BY <1>4, <2>1, <3>1 DEF Entry
  <2>3. accepted'[session'] = 0
    <3>1. session' > session
      BY <1>4, HandOfFd, SMT
    <3> QED BY <1>1, <2>1, <3>1 DEF LogInv, QueueInv
  <2> HIDE DEF e
  <2>4. EndsAt(e, active', session', accepted')
    BY <1>4, <2>2, <2>3 DEF EndsAt
  <2>5. \A a \in Hands : EndsAt(a, active, session, accepted) => Follows(a, e)
    BY <1>1, <2>2 DEF EndsAt, Follows
  <2>6. QueueInv' /\ WriterInv' /\ BufferInv' /\ OverInv' /\ FilesFaithful'
    BY <1>1, <1>2, <1>4, <2>2, <2>4, <2>5, Enqueued
  <2>7. QuitInv'
    <3>1. ~quit /\ ~quitting
      BY <1>1, NotQuit
    <3> QED BY <1>1, <1>2, <1>4, <3>1 DEF QuitInv
  <2> QED BY <2>6, <2>7 DEF LogInv
<1> QED BY <1>3, <1>4 DEF StartSession

LEMMA StopLogs ==
    ASSUME IInv, LogInv, IInv', Stop, UNCHANGED <<AtCard, session, accepted>>
    PROVE  QueueInv' /\ WriterInv' /\ BufferInv' /\ OverInv' /\ FilesFaithful'
<1>1. CASE active
  <2> DEFINE e == [kind |-> "stop", session |-> session, n |-> accepted[session]]
  <2>1. session \in Sessions /\ accepted[session] \in Nat
    BY <1>1 DEF IInv, ActiveSession, TypeOK
  <2>2. e \in Entry /\ e.kind = "stop" /\ e.session = session /\ e.n = accepted[session]
    BY <2>1 DEF Entry
  <2>3. queue' = Append(queue, e) /\ active' = FALSE
    BY <1>1 DEF Stop
  <2> HIDE DEF e
  <2>5. EndsAt(e, active', session', accepted')
    BY <2>2, <2>3 DEF EndsAt
  <2>6. \A a \in Hands : EndsAt(a, active, session, accepted) => Follows(a, e)
    BY <1>1, <2>2 DEF EndsAt, Follows
  <2> QED BY <1>1, <2>2, <2>3, <2>5, <2>6, Enqueued
<1>2. CASE ~active
  <2>1. active = FALSE
    BY <1>2 DEF IInv, TypeOK
  <2>2. UNCHANGED <<queue, active>>
    BY <1>2, <2>1 DEF Stop
  <2> QED BY <2>2, LogSame
<1> QED BY <1>1, <1>2

LEMMA StopLog == IInv /\ LogInv /\ IInv' /\ (StopSession \/ CloseStop) => LogInv'
<1> SUFFICES ASSUME IInv, LogInv, IInv', StopSession \/ CloseStop PROVE LogInv'
  OBVIOUS
<1>1. control \in {"stopping", "loop"} /\ UNCHANGED <<quit, initialized, writerVars, cardVars, historyVars>>
  BY DEF StopSession, CloseStop
<1>2. UNCHANGED <<AtCard, quitting, entry, session, accepted>>
  BY <1>1 DEF AtCard, writerVars, cardVars, historyVars
<1>3. ~quit /\ ~quitting
  BY <1>1, NotQuit
<1>4. CASE Stop
  <2>1. QuitInv'
    BY <1>1, <1>2, <1>3, <1>4 DEF QuitInv, Stop
  <2> QED BY <1>2, <1>4, <2>1, StopLogs DEF LogInv
<1>5. CASE ~initialized /\ UNCHANGED <<queue, active>>
  <2>1. ~active
    BY <1>5 DEF LogInv, QuitInv
  <2>2. QuitInv'
    BY <1>1, <1>2, <1>3, <1>5, <2>1 DEF QuitInv
  <2> QED BY <1>2, <1>5, <2>2, LogSame DEF LogInv
<1> QED BY <1>4, <1>5 DEF StopSession, CloseStop

-----------------------------------------------------------------------------
(* The writer *)

AtProducers == <<active, quit, initialized, control, session, accepted>>

LEMMA QueueElements ==
    ASSUME IInv
    PROVE  /\ queue \in Seq(Entry) /\ Len(queue) \in Nat /\ 0 \in 0 .. Len(queue) /\ Nth(Hand, queue, 0) = Hand
           /\ \A i \in 1 .. Len(queue) : /\ i \in 0 .. Len(queue) /\ Nth(Hand, queue, i) = queue[i]
                                         /\ queue[i].session \in Sessions
           /\ \A h : \A i \in 1 .. Len(queue) : Nth(h, queue, i) = queue[i]
           /\ \A h : Nth(h, queue, 0) = h
           /\ \A i \in 0 .. Len(queue) : i = 0 \/ i \in 1 .. Len(queue)
<1>1. queue \in Seq(Entry) /\ Len(queue) \in Nat /\ Hand \in Hands
  BY HandType, LenProperties DEF IInv, TypeOK
<1>2. 0 \in 0 .. Len(queue) /\ \A i \in 1 .. Len(queue) : i \in 0 .. Len(queue) /\ i # 0
  BY <1>1, SMT
<1>3. \A i \in 0 .. Len(queue) : i = 0 \/ i \in 1 .. Len(queue)
  BY <1>1, SMT
<1> QED BY <1>1, <1>2, <1>3, NthTypes DEF Nth

\* The writer goes on with what it has, or fails.
LEMMA HandMoves ==
    ASSUME IInv, LogInv, IInv', UNCHANGED <<queue, active, session, accepted>>,
           Hand'.session <= Hand.session,
           Broken' \/ (~Broken /\ (Hand.kind = "stop" <=> Hand'.kind = "stop")
                               /\ (Hand.kind # "stop" => Hand'.session = Hand.session /\ Hand'.n = Hand.n)),
           Broken => Broken', Hand'.kind = "stop" /\ Hand'.session # 0 => Hand' = Hand,
           Fresh(Hand)', (\A i \in 1 .. Len(queue) : Fresh(queue[i]))',
           \A s \in Sessions : s > session => files'[s] = files[s]
    PROVE  QueueInv'
<1>1. Hand \in Hands /\ Hand' \in Hands
  <2>1. (Hand \in Hands)'
    BY HandType, PTL
  <2> QED BY <2>1, HandType
<1>2. queue \in Seq(Entry) /\ session \in Nat
  BY HandOfFd, SMT DEF IInv, TypeOK
<1>3. /\ Chained(Hand, queue, Broken) /\ Ends(Hand, queue, Broken, active, session, accepted)
      /\ Ordered(Hand, queue, session)
  BY DEF LogInv, QueueInv
<1>4. /\ Chained(Hand', queue, Broken') /\ Ends(Hand', queue, Broken', active, session, accepted)
      /\ Ordered(Hand', queue, session)
  <2> DEFINE h == Hand
             g == Hand'
             b == Broken
             c == Broken'
  <2>1. h \in Hands /\ g \in Hands /\ g.session <= h.session /\ (b => c)
    BY <1>1
  <2>2. c \/ (~b /\ (h.kind = "stop" <=> g.kind = "stop")
                 /\ (h.kind # "stop" => g.session = h.session /\ g.n = h.n))
    OBVIOUS
  <2>3. Chained(h, queue, b) /\ Ends(h, queue, b, active, session, accepted) /\ Ordered(h, queue, session)
    BY <1>3
  <2> HIDE DEF h, g, b, c
  <2>4. Chained(g, queue, c) /\ Ends(g, queue, c, active, session, accepted) /\ Ordered(g, queue, session)
    BY <1>2, <2>1, <2>2, <2>3, LineHand
  <2> QED BY <2>4 DEF g, c
<1>5. \A i \in 0 .. Len(queue) : Stopped(Nth(Hand', queue, i), active, session, accepted)
  <2>1. \A i \in 0 .. Len(queue) : Stopped(Nth(Hand, queue, i), active, session, accepted)
    BY DEF LogInv, QueueInv
  <2>2. Stopped(Hand, active, session, accepted)
    BY <2>1, QueueElements
  <2>3. Stopped(Hand', active, session, accepted)
    BY <2>2 DEF Stopped
  <2> QED BY <2>1, <2>3, QueueElements
<1>6. (\A i \in 0 .. Len(queue) : Fresh(Nth(Hand, queue, i)))'
  <2>1. (\A i \in 0 .. Len(queue) : i = 0 \/ i \in 1 .. Len(queue))'
    BY QueueElements
  <2> QED BY <2>1 DEF Nth
<1>7. \A s \in Sessions : s > session' => files'[s] = <<>> /\ accepted'[s] = 0
  BY DEF LogInv, QueueInv
<1> QED BY <1>4, <1>5, <1>6, <1>7 DEF QueueInv

LEMMA WriterTakeLog == IInv /\ LogInv /\ IInv' /\ WriterTake => LogInv'
<1> SUFFICES ASSUME IInv, LogInv, IInv', WriterTake PROVE LogInv'
  OBVIOUS
<1>1. /\ pc = "take" /\ pc' = "flush" /\ entry = <<>> /\ ~failing
      /\ UNCHANGED <<AtProducers, failing, fd, buffer, files, synced, lost>>
      /\ quitting' = (quit /\ queue = <<>>)
  BY DEF WriterTake, LogInv, WriterInv, AtProducers, controlVars, cardVars, historyVars
<1>2. ~Broken /\ ~Broken' /\ ~InHand /\ Hand = CardEnd /\ CardEnd' = CardEnd
  BY <1>1 DEF Broken, InHand, Hand, CardEnd
<1>3. BufferInv' /\ FilesFaithful'
  BY <1>1 DEF LogInv, BufferInv, FilesFaithful
<1>4. CASE queue = <<>>
  <2>1. entry' = <<>> /\ queue' = <<>>
    BY <1>4 DEF WriterTake
  <2>2. ~InHand' /\ Hand' = Hand
    BY <1>2, <2>1 DEF InHand, Hand
  <2>3. QueueInv'
    <3>1. Broken' = Broken
      BY <1>1 DEF Broken
    <3>2. queue' = queue
      BY <1>4, <2>1
    <3> QED BY <1>1, <2>2, <3>1, <3>2 DEF LogInv, QueueInv, Fresh, AtProducers
  <2>4. WriterInv'
    BY <1>1, <1>2, <2>2 DEF LogInv, WriterInv
  <2>5. QuitInv'
    BY <1>1, <1>4, <2>1 DEF LogInv, QuitInv, AtProducers
  <2>6. OverInv'
    BY <1>1, <1>2, <1>4, <2>1, <2>2 DEF LogInv, OverInv, Over, AtProducers
  <2> QED BY <1>3, <2>3, <2>4, <2>5, <2>6 DEF LogInv
<1>5. CASE queue # <<>>
  <2> DEFINE e == Head(queue)
  <2>1. entry' = <<e>> /\ queue' = Tail(queue) /\ ~quitting'
    BY <1>1, <1>5 DEF WriterTake
  <2>2. entry' # <<>> /\ entry'[1] = e
    BY <2>1
  <2>3. InHand' /\ Hand' = e
    BY <1>1, <2>2 DEF InHand, Hand, Writing
  <2>4. queue \in Seq(Entry) /\ Hand \in Hands
    BY HandType DEF IInv, TypeOK
  <2>5. /\ Len(queue) \in Nat /\ Len(queue) > 0 /\ Len(queue') = Len(queue) - 1 /\ e = queue[1] /\ e \in Entry
        /\ \A i \in 1 .. Len(queue) - 1 : queue'[i] = queue[i + 1]
    BY <1>5, <2>1, <2>4, NthTail
  <2>5a. \A i \in 0 .. Len(queue) - 1 : Nth(e, queue', i) = Nth(Hand, queue, i + 1)
    BY <1>5, <2>1, <2>4, NthTail
  <2>5b. \A i \in 0 .. Len(queue) - 1 : i + 1 \in 0 .. Len(queue)
    BY <2>5, SMT
  <2> HIDE DEF e
  <2>6. /\ Chained(Hand, queue, FALSE) /\ Ends(Hand, queue, FALSE, active, session, accepted)
        /\ Ordered(Hand, queue, session)
    BY <1>2 DEF LogInv, QueueInv, Chained, Ends
  <2>7. /\ Follows(Hand, e) /\ Chained(e, queue', FALSE)
        /\ Ends(e, queue', FALSE, active, session, accepted) /\ Ordered(e, queue', session)
    BY <1>5, <2>1, <2>4, <2>6, LineTail DEF e
  <2>8. QueueInv'
    <3>1. /\ Chained(Hand', queue', Broken') /\ Ends(Hand', queue', Broken', active', session', accepted')
          /\ Ordered(Hand', queue', session')
      BY <1>1, <1>2, <2>3, <2>7 DEF Chained, Ends, AtProducers
    <3>2. \A i \in 0 .. Len(queue') : Stopped(Nth(Hand', queue', i), active', session', accepted')
      <4>1. \A i \in 0 .. Len(queue) : Stopped(Nth(Hand, queue, i), active, session, accepted)
        BY DEF LogInv, QueueInv
      <4> QED BY <1>1, <2>3, <2>5, <2>5a, <2>5b, <4>1 DEF AtProducers
    <3>3. (\A i \in 0 .. Len(queue) : Fresh(Nth(Hand, queue, i)))'
      <4>1. \A i \in 0 .. Len(queue) : Fresh(Nth(Hand, queue, i))
        BY DEF LogInv, QueueInv
      <4>2. \A i \in 0 .. Len(queue) - 1 : Fresh(Nth(e, queue', i))
        BY <2>5a, <2>5b, <4>1
      <4> QED BY <1>1, <2>3, <2>5, <4>2 DEF Fresh
    <3>4. \A s \in Sessions : s > session' => files'[s] = <<>> /\ accepted'[s] = 0
      BY <1>1 DEF LogInv, QueueInv, AtProducers
    <3> QED BY <3>1, <3>2, <3>3, <3>4 DEF QueueInv
  <2>9. WriterInv'
    <3>1. IF e.kind = "start" THEN fd = 0 ELSE e.session = fd
      BY <1>2, <2>7 DEF Follows, CardEnd
    <3>2. Follows(CardEnd', entry'[1])
      BY <1>2, <2>2, <2>7
    <3> QED BY <1>1, <1>2, <2>2, <3>1, <3>2 DEF WriterInv
  <2>10. QuitInv'
    BY <1>1, <2>1 DEF LogInv, QuitInv, AtProducers
  <2>11. OverInv'
    <3> SUFFICES ASSUME NEW s \in Sessions, Over(s)', s \notin lost' PROVE synced'[s] = accepted'[s]
      BY DEF OverInv
    <3>1. \A i \in 1 .. Len(queue) : queue[i].session # s
      <4> SUFFICES ASSUME NEW i \in 1 .. Len(queue) PROVE queue[i].session # s
        OBVIOUS
      <4>1. CASE i = 1
        BY <2>2, <2>3, <2>5, <4>1 DEF Over
      <4>2. CASE i # 1
        <5>1. i - 1 \in 1 .. Len(queue) - 1 /\ (i - 1) + 1 = i
          BY <2>5, <4>2, SMT
        <5>2. queue'[i - 1] = queue[(i - 1) + 1] /\ queue'[i - 1].session # s
          BY <2>5, <5>1 DEF Over
        <5> QED BY <5>1, <5>2
      <4> QED BY <4>1, <4>2
    <3>2. Over(s)
      BY <1>1, <1>2, <3>1 DEF Over, AtProducers
    <3> QED BY <1>1, <3>2 DEF LogInv, OverInv, AtProducers
  <2> QED BY <1>3, <2>8, <2>9, <2>10, <2>11 DEF LogInv
<1> QED BY <1>4, <1>5

\* The next place of the writer, with nothing changed.
LEMMA FlushNothingLog == IInv /\ LogInv /\ IInv' /\ (FlushNothing \/ SyncNothing) => LogInv'
<1> SUFFICES ASSUME IInv, LogInv, IInv', FlushNothing \/ SyncNothing PROVE LogInv'
  OBVIOUS
<1>1. /\ UNCHANGED <<AtProducers, queue, entry, quitting, failing, fd, buffer, files, synced, lost>>
      /\ (pc = "flush" /\ pc' = "sync") \/ (pc = "sync" /\ pc' = "switch" /\ (fd = 0 \/ ~MustSync))
  BY DEF FlushNothing, SyncNothing, AtProducers, loggerVars, controlVars, cardVars, historyVars
<1>2. InHand' = InHand /\ CardEnd' = CardEnd /\ Hand' = Hand /\ Broken' = Broken
  <2>1. InHand' = InHand
    BY <1>1 DEF InHand, Writing
  <2>2. CardEnd' = CardEnd
    BY <1>1 DEF CardEnd
  <2>3. Broken' = Broken
    BY <1>1 DEF Broken, LogInv, WriterInv
  <2> QED BY <1>1, <2>1, <2>2, <2>3 DEF Hand
<1>3. QueueInv'
  BY <1>1, <1>2 DEF LogInv, QueueInv, Fresh, AtProducers
<1>4. WriterInv'
  BY <1>1, <1>2 DEF LogInv, WriterInv, MustSync, Lifecycle
<1>5. QuitInv' /\ BufferInv' /\ FilesFaithful'
  BY <1>1 DEF LogInv, QuitInv, BufferInv, FilesFaithful, AtProducers
<1>6. OverInv'
  BY <1>1, <1>2 DEF LogInv, OverInv, Over, AtProducers
<1> QED BY <1>3, <1>4, <1>5, <1>6 DEF LogInv

\* A record or nothing in hand: the hand's session is that of the open file.
LEMMA OpenFile ==
    ASSUME IInv, LogInv, fd # 0
    PROVE  /\ fd \in Sessions /\ Hand.session = fd /\ (InHand => entry[1].kind # "start" /\ entry[1].session = fd)
           /\ CardEnd.session = fd /\ CardEnd.kind = "record" /\ CardEnd.n = Len(files[fd]) + Len(buffer)
           /\ Len(files[fd]) \in Nat /\ files[fd] \in Seq(Entry)
<1>1. fd \in Sessions
  BY SMT DEF IInv, TypeOK, Sessions
<1>2. files[fd] \in Seq(Entry) /\ Len(files[fd]) \in Nat
  BY <1>1, LenProperties DEF IInv, TypeOK
<1>3. CardEnd.session = fd /\ CardEnd.kind = "record" /\ CardEnd.n = Len(files[fd]) + Len(buffer)
  BY DEF CardEnd
<1>4. InHand => entry[1].kind # "start" /\ entry[1].session = fd
  BY DEF LogInv, WriterInv
<1> QED BY <1>1, <1>2, <1>3, <1>4 DEF Hand

LEMMA FlushLog == IInv /\ LogInv /\ IInv' /\ Flush => LogInv'
<1> SUFFICES ASSUME IInv, LogInv, IInv', Flush PROVE LogInv'
  OBVIOUS
<1>1. /\ pc = "flush" /\ pc' = "sync" /\ fd # 0 /\ buffer # <<>> /\ buffer' = <<>> /\ ~failing
      /\ UNCHANGED <<AtProducers, queue, entry, quitting, fd, synced>>
  BY DEF Flush, LogInv, WriterInv, AtProducers, loggerVars, controlVars
<1>2. PICK k \in 0 .. Len(buffer) :
         /\ files' = [files EXCEPT ![fd] = @ \o SubSeq(buffer, 1, k)]
         /\ failing' = (k < Len(buffer))
         /\ lost' = IF k < Len(buffer) THEN lost \cup {fd} ELSE lost
  BY DEF Flush
<1>3. /\ fd \in Sessions /\ Hand.session = fd /\ (InHand => entry[1].kind # "start" /\ entry[1].session = fd)
      /\ CardEnd.session = fd /\ CardEnd.kind = "record" /\ CardEnd.n = Len(files[fd]) + Len(buffer)
      /\ Len(files[fd]) \in Nat /\ files[fd] \in Seq(Entry)
  BY <1>1, OpenFile
<1>4. buffer \in Seq(Entry) /\ Len(buffer) \in Nat /\ files \in [Sessions -> Seq(Entry)]
  BY LenProperties DEF IInv, TypeOK
<1> DEFINE piece == SubSeq(buffer, 1, k)
           f == files[fd]
<1>5. /\ piece \in Seq(Entry) /\ Len(piece) = k /\ \A i \in 1 .. k : piece[i] = buffer[i]
  <2>1. k \in Int /\ k <= Len(buffer) /\ \A i \in 1 .. k : i \in 1 .. Len(buffer)
    BY <1>4, SMT
  <2>2. \A i \in 1 .. k : buffer[i] \in Entry
    BY <1>4, <2>1, ElementOfSeq
  <2> QED BY <1>4, <2>1, <2>2, SubSeqProperties, SMT
<1>6. /\ files'[fd] = f \o piece /\ Len(f \o piece) = Len(f) + k
      /\ \A i \in 1 .. Len(f) : (f \o piece)[i] = f[i]
      /\ \A i \in Len(f) + 1 .. Len(f) + k : (f \o piece)[i] = piece[i - Len(f)]
  <2> HIDE DEF piece
  <2>1. files'[fd] = f \o piece
    BY <1>2, <1>3, <1>4 DEF piece
  <2> HIDE DEF f
  <2>2. f \in Seq(Entry) /\ Len(f) \in Nat
    BY <1>3 DEF f
  <2>3. /\ Len(f \o piece) = Len(f) + Len(piece)
        /\ \A i \in 1 .. Len(f) + Len(piece) :
              (f \o piece)[i] = IF i <= Len(f) THEN f[i] ELSE piece[i - Len(f)]
    BY <1>5, <2>2, ConcatProperties
  <2>4. \A i \in 1 .. Len(f) : (f \o piece)[i] = f[i]
    <3>1. \A i \in 1 .. Len(f) : i \in 1 .. Len(f) + Len(piece) /\ i <= Len(f)
      BY <1>5, <2>2, SMT
    <3> QED BY <2>3, <3>1
  <2>5. \A i \in Len(f) + 1 .. Len(f) + k : (f \o piece)[i] = piece[i - Len(f)]
    <3>1. \A i \in Len(f) + 1 .. Len(f) + k : i \in 1 .. Len(f) + Len(piece) /\ ~(i <= Len(f))
      BY <1>5, <2>2, SMT
    <3> QED BY <2>3, <3>1
  <2> QED BY <1>5, <2>1, <2>3, <2>4, <2>5 DEF f
<1>7. \A s \in Sessions : s # fd => files'[s] = files[s]
  BY <1>2, <1>4
<1>8. FilesFaithful'
  <2> SUFFICES ASSUME NEW s \in Sessions, NEW i \in 1 .. Len(files'[s])
               PROVE  files'[s][i].session = s /\ files'[s][i].n = i
    BY DEF FilesFaithful
  <2>1. CASE s # fd
    BY <1>7, <2>1 DEF LogInv, FilesFaithful
  <2>2. CASE s = fd
    <3>1. CASE i \in 1 .. Len(f)
      BY <1>3, <1>6, <2>2, <3>1 DEF LogInv, FilesFaithful
    <3>2. CASE i \in Len(f) + 1 .. Len(f) + k
      <4>1. i - Len(f) \in 1 .. k /\ i - Len(f) \in 1 .. Len(buffer) /\ Len(f) + (i - Len(f)) = i
        BY <1>3, <1>4, <3>2, SMT
      <4>2. files'[s][i] = buffer[i - Len(f)]
        BY <1>5, <1>6, <2>2, <3>2, <4>1
      <4>3. buffer[i - Len(f)].session = fd /\ buffer[i - Len(f)].n = Len(f) + (i - Len(f))
        BY <4>1 DEF LogInv, BufferInv
      <4> QED BY <2>2, <4>1, <4>2, <4>3
    <3>3. i \in 1 .. Len(f) + k
      BY <1>6, <2>2
    <3> QED BY <1>3, <3>1, <3>2, <3>3, SMT
  <2> QED BY <2>1, <2>2
<1>9. BufferInv'
  BY <1>1, SMT DEF BufferInv
<1>10. QuitInv'
  BY <1>1 DEF LogInv, QuitInv, AtProducers
<1>11. ~Broken /\ (Broken' <=> k < Len(buffer)) /\ InHand' = InHand
  BY <1>1, <1>2 DEF Broken, InHand, Writing
<1>12. CardEnd'.session = fd /\ CardEnd'.kind = "record" /\ CardEnd'.n = Len(f) + k
  <2>1. Len(buffer') = 0 /\ Len(files'[fd]) = Len(f) + k
    BY <1>1, <1>6
  <2>2. CardEnd' = [kind |-> "record", session |-> fd, n |-> Len(f) + k]
    <3>1. (Len(f) + k) + 0 = Len(f) + k
      BY <1>3, <1>4, SMT
    <3> QED BY <1>1, <2>1, <3>1 DEF CardEnd
  <2> QED BY <2>2
<1>13. k = Len(buffer) => CardEnd' = CardEnd
  BY <1>1, <1>12 DEF CardEnd
<1>14. QueueInv'
  <2>1. Hand'.session <= Hand.session
    <3>1. Hand'.session = fd
      BY <1>1, <1>3, <1>11, <1>12 DEF Hand
    <3>2. fd <= fd
      BY <1>3, SMT DEF Sessions
    <3> QED BY <1>3, <3>1, <3>2
  <2>2. k < Len(buffer) \/ k = Len(buffer)
    BY <1>4, SMT
  <2>3. k = Len(buffer) => Hand' = Hand
    BY <1>1, <1>11, <1>13 DEF Hand
  <2>4. Hand'.kind = "stop" => Hand' = Hand
    BY <1>1, <1>11, <1>12 DEF Hand
  <2>5. Fresh(Hand)'
    <3>1. Hand'.kind # "start"
      BY <1>1, <1>3, <1>11, <1>12 DEF Hand
    <3> QED BY <3>1 DEF Fresh
  <2>6. (\A i \in 1 .. Len(queue) : Fresh(queue[i]))'
    <3> SUFFICES ASSUME NEW i \in 1 .. Len(queue), queue[i].kind = "start"
                 PROVE  files'[queue[i].session] = <<>> /\ fd # queue[i].session
      BY <1>1 DEF Fresh
    <3>1. files[queue[i].session] = <<>> /\ fd # queue[i].session /\ queue[i].session \in Sessions
      <4>1. Fresh(queue[i]) /\ queue[i].session \in Sessions
        BY QueueElements DEF LogInv, QueueInv
      <4> QED BY <4>1 DEF Fresh
    <3> QED BY <1>7, <3>1
  <2>7. \A s \in Sessions : s > session => files'[s] = files[s]
    <3>1. \A s \in Sessions : s > session => s # fd
      BY HandOfFd, SMT DEF Sessions
    <3> QED BY <1>7, <3>1
  <2> QED BY <1>1, <1>11, <2>1, <2>2, <2>3, <2>4, <2>5, <2>6, <2>7, HandMoves DEF AtProducers
<1>15. WriterInv'
  <2>1. InHand => Follows(CardEnd, entry[1])
    BY <1>11 DEF LogInv, WriterInv
  <2>2. Broken' => fd \in lost'
    BY <1>2, <1>11
  <2>3. k < Len(buffer) \/ k = Len(buffer)
    BY <1>4, SMT
  <2>4. entry # <<>> => InHand
    BY <1>1 DEF InHand, Writing
  <2> QED BY <1>1, <1>3, <1>11, <1>13, <2>1, <2>2, <2>3, <2>4 DEF WriterInv
<1>16. OverInv'
  <2>1. \A s : Over(s)' => Over(s)
    BY <1>1, <1>11 DEF Over, AtProducers
  <2>2. lost \subseteq lost'
    BY <1>2
  <2> QED BY <1>1, <2>1, <2>2 DEF LogInv, OverInv, AtProducers
<1> QED BY <1>8, <1>9, <1>10, <1>14, <1>15, <1>16 DEF LogInv

LEMMA SyncLog == IInv /\ LogInv /\ IInv' /\ Sync => LogInv'
<1> SUFFICES ASSUME IInv, LogInv, IInv', Sync PROVE LogInv'
  OBVIOUS
<1>1. /\ pc = "sync" /\ pc' = "switch" /\ fd # 0
      /\ UNCHANGED <<AtProducers, queue, entry, quitting, fd, buffer, files>>
  BY DEF Sync, AtProducers, loggerVars, controlVars
<1>2. \/ synced' = [synced EXCEPT ![fd] = Len(files[fd])] /\ UNCHANGED <<failing, lost>>
      \/ failing' = TRUE /\ lost' = lost \cup {fd} /\ UNCHANGED synced
  BY DEF Sync
<1>3. /\ fd \in Sessions /\ Hand.session = fd /\ (InHand => entry[1].kind # "start" /\ entry[1].session = fd)
      /\ CardEnd.kind = "record"
  BY <1>1, OpenFile
<1>4. synced \in [Sessions -> Nat]
  BY DEF IInv, TypeOK
<1>5. InHand' = InHand /\ CardEnd' = CardEnd /\ Hand' = Hand /\ (Broken => Broken') /\ (entry # <<>> => InHand)
  <2>1. InHand' = InHand /\ (entry # <<>> => InHand)
    BY <1>1 DEF InHand, Writing
  <2>2. CardEnd' = CardEnd
    BY <1>1 DEF CardEnd
  <2>3. Broken => Broken'
    BY <1>1, <1>2 DEF Broken
  <2> QED BY <1>1, <2>1, <2>2, <2>3 DEF Hand
<1>6. QuitInv' /\ BufferInv' /\ FilesFaithful'
  BY <1>1 DEF LogInv, QuitInv, BufferInv, FilesFaithful, AtProducers
<1>7. QueueInv'
  <2>1. Hand'.session <= Hand.session
    <3>1. fd <= fd
      BY <1>3, SMT DEF Sessions
    <3> QED BY <1>3, <1>5, <3>1
  <2>2. Fresh(Hand)' /\ (\A i \in 1 .. Len(queue) : Fresh(queue[i]))'
    <3>1. Fresh(Hand) /\ \A i \in 1 .. Len(queue) : Fresh(queue[i])
      BY QueueElements DEF LogInv, QueueInv
    <3> QED BY <1>1, <1>5, <3>1 DEF Fresh
  <2>3. Broken' \/ ~Broken
    BY <1>5
  <2> QED BY <1>1, <1>5, <2>1, <2>2, <2>3, HandMoves DEF AtProducers
<1>8. WriterInv'
  <2>1. lost \subseteq lost'
    BY <1>2
  <2>2. ~failing' => synced'[fd] = Len(files[fd])
    BY <1>2, <1>3, <1>4
  <2>3. InHand => Broken' \/ Follows(CardEnd, entry[1])
    BY <1>5 DEF LogInv, WriterInv
  <2>4. Broken' => fd \in lost' /\ (entry # <<>> => entry[1].session \in lost')
    <3>1. CASE UNCHANGED <<failing, lost>>
      BY <1>1, <3>1 DEF LogInv, WriterInv, Broken
    <3>2. CASE lost' = lost \cup {fd}
      BY <1>3, <1>5, <3>2
    <3> QED BY <1>2, <3>1, <3>2
  <2> QED BY <1>1, <1>3, <1>5, <2>2, <2>3, <2>4 DEF WriterInv, Lifecycle
<1>9. OverInv'
  <2>1. \A s : Over(s)' => Over(s) /\ s # fd
    BY <1>1, <1>5 DEF Over, AtProducers
  <2>2. lost \subseteq lost' /\ \A s \in Sessions : s # fd => synced'[s] = synced[s]
    BY <1>2, <1>4
  <2> QED BY <1>1, <2>1, <2>2 DEF LogInv, OverInv, AtProducers
<1> QED BY <1>6, <1>7, <1>8, <1>9 DEF LogInv

LEMMA EntryInHand ==
    ASSUME IInv, entry # <<>>
    PROVE  entry[1] \in Entry /\ entry[1].session \in Sessions /\ entry[1].n \in Nat /\ Len(entry) = 1
<1>1. entry \in Seq(Entry) /\ Len(entry) \in Nat /\ Len(entry) <= 1 /\ Len(entry) # 0
  BY LenProperties, EmptySeq DEF IInv, TypeOK
<1>2. 1 \in 1 .. Len(entry) /\ Len(entry) = 1
  BY <1>1, SMT
<1>3. entry[1] \in Entry
  BY <1>1, <1>2, ElementOfSeq
<1> QED BY <1>2, <1>3 DEF Entry

\* What the writer knows at the switch of files.
LEMMA AtSwitch ==
    ASSUME IInv, LogInv, IInv', pc = "switch", UNCHANGED <<AtProducers, queue, entry, quitting, buffer, files, synced>>
    PROVE  /\ (InHand <=> entry # <<>>) /\ (Broken <=> failing)
           /\ (entry # <<>> => Hand = entry[1]) /\ (entry = <<>> => Hand = CardEnd)
           /\ QuitInv' /\ FilesFaithful'
           /\ \A i \in 1 .. Len(queue) : /\ queue[i].session \in Sessions
                                         /\ queue[i].kind = "start" => /\ files[queue[i].session] = <<>>
                                                                       /\ fd # queue[i].session
                                                                       /\ Hand.session < queue[i].session
           /\ Hand.session \in Nat /\ Hand.session <= Hand.session
<1>1. QuitInv' /\ FilesFaithful'
  BY DEF LogInv, QuitInv, FilesFaithful, AtProducers
<1>2. (InHand <=> entry # <<>>) /\ (Broken <=> failing)
  BY DEF InHand, Broken, Writing
<1>3. ASSUME NEW i \in 1 .. Len(queue)
      PROVE  /\ queue[i].session \in Sessions
             /\ queue[i].kind = "start" => /\ files[queue[i].session] = <<>>
                                           /\ fd # queue[i].session
                                           /\ Hand.session < queue[i].session
  <2>1. i \in 0 .. Len(queue) /\ Nth(Hand, queue, i) = queue[i] /\ queue[i].session \in Sessions
    BY QueueElements
  <2>2. 0 \in 0 .. Len(queue) /\ Nth(Hand, queue, 0) = Hand /\ 0 < i
    BY QueueElements, SMT
  <2>3. Fresh(queue[i])
    BY <2>1 DEF LogInv, QueueInv
  <2>4. queue[i].kind = "start" => Hand.session < queue[i].session
    BY <2>1, <2>2 DEF LogInv, QueueInv, Ordered
  <2> QED BY <2>1, <2>3, <2>4 DEF Fresh
<1>4. Hand.session \in Nat
  BY HandType, SMT DEF Hands
<1>5. Hand.session <= Hand.session
  BY <1>4, SMT
<1> QED BY <1>1, <1>2, <1>3, <1>4, <1>5 DEF Hand

\* Without a file nothing has reached the card that the queue would follow.
LEMMA NoFile ==
    ASSUME IInv, IInv', UNCHANGED buffer, pc \in {"sync", "switch"}, fd = 0 \/ Lifecycle \/ quitting
    PROVE  /\ buffer = <<>> /\ Len(buffer) = 0 /\ BufferInv'
           /\ fd' = 0 => CardEnd' = [kind |-> "stop", session |-> 0, n |-> 0]
<1>1. buffer = <<>> /\ Len(buffer) = 0
  BY DEF IInv, NothingBuffered
<1>2. BufferInv'
  BY <1>1, SMT DEF BufferInv
<1>3. fd' = 0 => CardEnd' = [kind |-> "stop", session |-> 0, n |-> 0]
  BY DEF CardEnd
<1> QED BY <1>1, <1>2, <1>3

LEMMA OpenLogLog == IInv /\ LogInv /\ IInv' /\ OpenLog => LogInv'
<1> SUFFICES ASSUME IInv, LogInv, IInv', OpenLog PROVE LogInv'
  OBVIOUS
<1> DEFINE s == entry[1].session
<1>1. /\ pc = "switch" /\ entry # <<>> /\ entry[1].kind = "start" /\ fd' = s
      /\ UNCHANGED <<AtProducers, queue, entry, quitting, buffer, files, synced, lost>>
      /\ failing' = (failing \/ FALSE) /\ pc' = IF failing \/ FALSE THEN "fail" ELSE "store"
  BY DEF OpenLog, SwitchFile, Starts, AtProducers, loggerVars, controlVars, cardVars
<1>2. /\ InHand /\ Hand = entry[1] /\ QuitInv' /\ FilesFaithful' /\ (Broken <=> failing)
      /\ \A i \in 1 .. Len(queue) : queue[i].kind = "start" =>
            files[queue[i].session] = <<>> /\ Hand.session < queue[i].session
      /\ Hand.session \in Nat /\ Hand.session <= Hand.session
  BY <1>1, AtSwitch
<1>3. fd = 0 /\ ~Broken /\ ~failing /\ pc' = "store" /\ ~failing'
  <2>1. fd = 0
    BY <1>1, <1>2 DEF LogInv, WriterInv
  <2>2. ~Broken
    BY <1>1, <2>1 DEF LogInv, WriterInv
  <2> QED BY <1>1, <1>2, <2>1, <2>2
<1>4. files[s] = <<>> /\ entry[1].n = 0
  <2>1. Fresh(Hand)
    BY QueueElements DEF LogInv, QueueInv
  <2>2. Follows(CardEnd, entry[1])
    BY <1>2, <1>3 DEF LogInv, WriterInv
  <2> QED BY <1>1, <1>2, <2>1, <2>2 DEF Fresh, Follows
<1>5. buffer = <<>> /\ Len(buffer) = 0 /\ BufferInv'
  BY <1>1, <1>3, NoFile
<1>6. s # 0
  <2>1. s \in Sessions
    BY <1>1, EntryInHand
  <2> QED BY <2>1, SMT DEF Sessions
<1>7. ~Broken' /\ ~InHand' /\ Hand' = CardEnd'
  <2>1. ~Broken' /\ ~InHand'
    BY <1>1, <1>3 DEF Broken, InHand, Writing
  <2> QED BY <2>1 DEF Hand
<1>8. CardEnd' = [kind |-> "record", session |-> s, n |-> 0]
  <2>1. Len(files'[fd']) = 0 /\ Len(buffer') = 0 /\ 0 + 0 = 0
    BY <1>1, <1>4, <1>5, SMT
  <2> QED BY <1>1, <1>6, <2>1 DEF CardEnd
<1>9. QueueInv'
  <2>1. Hand'.session <= Hand.session /\ Hand'.session = Hand.session /\ Hand'.n = Hand.n
        /\ Hand.kind = "start" /\ Hand'.kind = "record"
    BY <1>1, <1>2, <1>4, <1>7, <1>8
  <2>2. Fresh(Hand)'
    BY <2>1 DEF Fresh
  <2>3. (\A i \in 1 .. Len(queue) : Fresh(queue[i]))'
    <3> SUFFICES ASSUME NEW i \in 1 .. Len(queue), queue[i].kind = "start"
                 PROVE  files[queue[i].session] = <<>> /\ s # queue[i].session
      BY <1>1 DEF Fresh
    <3>1. files[queue[i].session] = <<>> /\ s < queue[i].session
      BY <1>2
    <3>2. s \in Nat
      BY <1>2
    <3>3. ~(s < s)
      BY <3>2, SMT
    <3> QED BY <3>1, <3>3
  <2>4. \A x \in Sessions : x > session => files'[x] = files[x]
    BY <1>1
  <2> QED BY <1>1, <1>3, <1>7, <2>1, <2>2, <2>3, <2>4, HandMoves DEF AtProducers
<1>10. WriterInv'
  BY <1>1, <1>3, <1>7 DEF WriterInv
<1>11. OverInv'
  <2>1. \A x \in Sessions : x # 0
    BY SMT DEF Sessions
  <2>2. \A x \in Sessions : Over(x)' => Over(x)
    BY <1>1, <1>3, <2>1 DEF Over, AtProducers
  <2> QED BY <1>1, <2>2 DEF LogInv, OverInv, AtProducers
<1> QED BY <1>2, <1>5, <1>9, <1>10, <1>11 DEF LogInv

LEMMA OpenLogFailsLog == IInv /\ LogInv /\ IInv' /\ OpenLogFails => LogInv'
<1> SUFFICES ASSUME IInv, LogInv, IInv', OpenLogFails PROVE LogInv'
  OBVIOUS
<1> DEFINE s == entry[1].session
<1>1. /\ pc = "switch" /\ entry # <<>> /\ entry[1].kind = "start" /\ fd' = 0 /\ pc' = "fail" /\ failing'
      /\ lost' = lost \cup {s}
      /\ UNCHANGED <<AtProducers, queue, entry, quitting, buffer, files, synced>>
  BY DEF OpenLogFails, SwitchFile, Starts, AtProducers, loggerVars, controlVars, cardVars
<1>2. /\ InHand /\ Hand = entry[1] /\ QuitInv' /\ FilesFaithful'
      /\ \A i \in 1 .. Len(queue) : /\ queue[i].session \in Sessions
                                    /\ queue[i].kind = "start" => files[queue[i].session] = <<>>
      /\ Hand.session \in Nat
  BY <1>1, AtSwitch
<1>3. fd = 0
  BY <1>1, <1>2 DEF LogInv, WriterInv
<1>4. BufferInv' /\ CardEnd' = [kind |-> "stop", session |-> 0, n |-> 0]
  BY <1>1, <1>3, NoFile
<1>5. Broken' /\ ~InHand' /\ Hand' = CardEnd'
  <2>1. Broken' /\ ~InHand'
    BY <1>1 DEF Broken, InHand, Writing
  <2> QED BY <2>1 DEF Hand
<1>6. \A x \in Sessions : x # 0
  BY SMT DEF Sessions
<1>7. QueueInv'
  <2>1. Hand'.session <= Hand.session /\ Hand'.session = 0 /\ Hand'.kind = "stop"
    <3>1. 0 <= Hand.session
      BY <1>2, SMT
    <3> QED BY <1>4, <1>5, <3>1
  <2>2. Fresh(Hand)'
    BY <2>1 DEF Fresh
  <2>3. (\A i \in 1 .. Len(queue) : Fresh(queue[i]))'
    BY <1>1, <1>2, <1>6 DEF Fresh
  <2>4. \A x \in Sessions : x > session => files'[x] = files[x]
    BY <1>1
  <2> QED BY <1>1, <1>5, <2>1, <2>2, <2>3, <2>4, HandMoves DEF AtProducers
<1>8. WriterInv'
  BY <1>1, <1>5 DEF WriterInv
<1>9. OverInv'
  <2>1. \A x \in Sessions : Over(x)' /\ x \notin lost' => Over(x) /\ x \notin lost
    BY <1>1, <1>3, <1>6 DEF Over, AtProducers
  <2> QED BY <1>1, <2>1 DEF LogInv, OverInv, AtProducers
<1> QED BY <1>2, <1>4, <1>7, <1>8, <1>9 DEF LogInv

LEMMA NoOpenFailed == IInv /\ LogInv /\ IInv' /\ NoOpen /\ failing => LogInv'
<1> SUFFICES ASSUME IInv, LogInv, IInv', NoOpen, failing PROVE LogInv'
  OBVIOUS
<1>1. /\ pc = "switch" /\ (entry # <<>> => entry[1].kind # "start") /\ pc' = "fail" /\ failing'
      /\ fd' = IF Lifecycle \/ quitting THEN 0 ELSE fd
      /\ UNCHANGED <<AtProducers, queue, entry, quitting, buffer, files, synced, lost>>
  BY DEF NoOpen, SwitchFile, Starts, AtProducers, loggerVars, controlVars, cardVars
<1>2. /\ InHand <=> entry # <<>>
      /\ Broken /\ QuitInv' /\ FilesFaithful'
      /\ \A i \in 1 .. Len(queue) : /\ queue[i].session \in Sessions
                                    /\ queue[i].kind = "start" => files[queue[i].session] = <<>>
                                                                  /\ fd # queue[i].session
      /\ Hand.session \in Nat /\ Hand.session <= Hand.session
  BY <1>1, AtSwitch
<1>3. fd # 0 /\ fd \in lost /\ (entry # <<>> => entry[1].session \in lost)
  BY <1>1, <1>2 DEF LogInv, WriterInv
<1>4. /\ fd \in Sessions /\ Hand.session = fd /\ CardEnd.session = fd /\ CardEnd.kind = "record"
  BY <1>3, OpenFile
<1>5. Broken' /\ ~InHand' /\ Hand' = CardEnd'
  <2>1. Broken' /\ ~InHand'
    BY <1>1 DEF Broken, InHand, Writing
  <2> QED BY <2>1 DEF Hand
<1>6. \A x \in Sessions : x # 0
  BY SMT DEF Sessions
<1>7. /\ Hand'.session <= Hand.session /\ Hand'.kind # "start" /\ BufferInv'
      /\ Hand'.kind = "stop" => Hand'.session = 0
  <2>1. CASE Lifecycle \/ quitting
    <3>1. BufferInv' /\ CardEnd' = [kind |-> "stop", session |-> 0, n |-> 0]
      BY <1>1, <2>1, NoFile
    <3>2. 0 <= Hand.session
      BY <1>2, SMT
    <3> QED BY <1>5, <3>1, <3>2
  <2>2. CASE ~(Lifecycle \/ quitting)
    <3>1. fd' = fd
      BY <1>1, <2>2
    <3>2. CardEnd' = CardEnd
      BY <1>1, <3>1 DEF CardEnd
    <3>3. BufferInv'
      BY <1>1, <3>1 DEF LogInv, BufferInv
    <3> QED BY <1>2, <1>4, <1>5, <3>2, <3>3
  <2> QED BY <2>1, <2>2
<1>8. QueueInv'
  <2>1. Fresh(Hand)'
    BY <1>7 DEF Fresh
  <2>2. (\A i \in 1 .. Len(queue) : Fresh(queue[i]))'
    BY <1>1, <1>2, <1>6 DEF Fresh
  <2>3. \A x \in Sessions : x > session => files'[x] = files[x]
    BY <1>1
  <2> QED BY <1>1, <1>2, <1>5, <1>7, <2>1, <2>2, <2>3, HandMoves DEF AtProducers
<1>9. WriterInv'
  BY <1>1, <1>3, <1>5 DEF WriterInv
<1>10. OverInv'
  <2>1. \A x \in Sessions : Over(x)' /\ x \notin lost' => Over(x) /\ x \notin lost
    BY <1>1, <1>2, <1>3, <1>6 DEF Over, AtProducers
  <2> QED BY <1>1, <2>1 DEF LogInv, OverInv, AtProducers
<1> QED BY <1>2, <1>7, <1>8, <1>9, <1>10 DEF LogInv

\* A stop that the writer has flushed and synced: its session is durable.
LEMMA StopDurable ==
    ASSUME IInv, LogInv, pc = "switch", ~failing, entry # <<>>, entry[1].kind = "stop"
    PROVE  fd # 0 /\ fd \in Sessions /\ entry[1].session = fd /\ synced[fd] = accepted[fd]
<1>1. InHand /\ Hand = entry[1] /\ ~Broken
  BY DEF InHand, Hand, Writing, Broken
<1>2. entry[1].session = fd /\ Follows(CardEnd, entry[1]) /\ entry[1].session \in Sessions
  BY <1>1, EntryInHand DEF LogInv, WriterInv
<1>3. fd # 0 /\ fd \in Sessions
  BY <1>2, SMT DEF Sessions
<1>4. CardEnd.n = Len(files[fd]) + Len(buffer) /\ Len(files[fd]) \in Nat
  BY <1>3, OpenFile
<1>5. Len(buffer) = 0
  BY DEF IInv, NothingBuffered, Lifecycle
<1>6. entry[1].n = Len(files[fd])
  <2>1. entry[1].n = Len(files[fd]) + Len(buffer)
    BY <1>2, <1>4 DEF Follows
  <2> QED BY <1>4, <1>5, <2>1, SMT
<1>7. synced[fd] = Len(files[fd])
  BY <1>3 DEF LogInv, WriterInv, Lifecycle
<1>8. entry[1].n = accepted[fd]
  <2>1. Stopped(Hand, active, session, accepted)
    BY QueueElements DEF LogInv, QueueInv
  <2> QED BY <1>1, <1>2, <1>3, <2>1 DEF Stopped
<1> QED BY <1>2, <1>3, <1>6, <1>7, <1>8

LEMMA NoOpenLog == IInv /\ LogInv /\ IInv' /\ NoOpen /\ ~failing => LogInv'
<1> SUFFICES ASSUME IInv, LogInv, IInv', NoOpen, ~failing PROVE LogInv'
  OBVIOUS
<1>1. /\ pc = "switch" /\ (entry # <<>> => entry[1].kind # "start") /\ pc' = "store" /\ ~failing'
      /\ fd' = IF Lifecycle \/ quitting THEN 0 ELSE fd
      /\ UNCHANGED <<AtProducers, queue, entry, quitting, buffer, files, synced, lost>>
  BY DEF NoOpen, SwitchFile, Starts, AtProducers, loggerVars, controlVars, cardVars
<1>2. /\ InHand <=> entry # <<>>
      /\ entry # <<>> => Hand = entry[1]
      /\ entry = <<>> => Hand = CardEnd
      /\ ~Broken /\ QuitInv' /\ FilesFaithful'
      /\ \A i \in 1 .. Len(queue) : /\ queue[i].session \in Sessions
                                    /\ queue[i].kind = "start" => files[queue[i].session] = <<>>
                                                                  /\ fd # queue[i].session
      /\ Hand.session \in Nat /\ Hand.session <= Hand.session
  BY <1>1, AtSwitch
<1>3. ~Broken'
  BY <1>1 DEF Broken
<1>4. \A x \in Sessions : x # 0
  BY SMT DEF Sessions
<1>5. QueueInv' /\ BufferInv' /\ WriterInv' /\ OverInv'
  <2>1. CASE entry # <<>> /\ entry[1].kind = "stop"
    <3>1. fd # 0 /\ fd \in Sessions /\ entry[1].session = fd /\ synced[fd] = accepted[fd]
      BY <1>1, <2>1, StopDurable
    <3>2. Lifecycle /\ fd' = 0
      BY <1>1, <2>1 DEF Lifecycle
    <3>3. BufferInv' /\ CardEnd' = [kind |-> "stop", session |-> 0, n |-> 0]
      BY <1>1, <3>2, NoFile
    <3>4. ~InHand' /\ Hand' = CardEnd'
      <4>1. ~InHand'
        BY <1>1, <2>1 DEF InHand, Writing
      <4> QED BY <4>1 DEF Hand
    <3>5. QueueInv'
      <4>1. Hand'.session <= Hand.session /\ Hand'.kind = "stop" /\ Hand'.session = 0 /\ Hand.kind = "stop"
        <5>1. 0 <= Hand.session
          BY <1>2, SMT
        <5> QED BY <1>2, <2>1, <3>3, <3>4, <5>1
      <4>2. Fresh(Hand)'
        BY <4>1 DEF Fresh
      <4>3. (\A i \in 1 .. Len(queue) : Fresh(queue[i]))'
        BY <1>1, <1>2, <1>4, <3>2 DEF Fresh
      <4>4. \A x \in Sessions : x > session => files'[x] = files[x]
        BY <1>1
      <4> QED BY <1>1, <1>2, <1>3, <4>1, <4>2, <4>3, <4>4, HandMoves DEF AtProducers
    <3>6. WriterInv'
      BY <1>1, <1>3, <2>1, <3>4 DEF WriterInv
    <3>7. OverInv'
      <4>1. \A x \in Sessions : Over(x)' => x = fd \/ Over(x)
        BY <1>1, <3>1 DEF Over, AtProducers
      <4> QED BY <1>1, <3>1, <4>1 DEF LogInv, OverInv, AtProducers
    <3> QED BY <3>3, <3>5, <3>6, <3>7
  <2>2. CASE entry = <<>> \/ entry[1].kind = "record"
    <3>1. fd' = fd
      <4>1. ~Lifecycle
        BY <2>2 DEF Lifecycle
      <4>2. quitting => fd = 0
        <5> SUFFICES ASSUME quitting PROVE fd = 0
          OBVIOUS
        <5>1. quit /\ queue = <<>> /\ entry = <<>> /\ ~active
          BY DEF LogInv, QuitInv
        <5>2. EndsAt(Hand, active, session, accepted)
          <6>1. Len(queue) = 0
            BY <5>1
          <6> QED BY <1>2, <6>1, QueueElements DEF LogInv, QueueInv, Ends
        <5>3. CardEnd.kind = "stop"
          BY <1>2, <5>1, <5>2 DEF EndsAt
        <5> QED BY <5>3, OpenFile
      <4> QED BY <1>1, <4>1, <4>2
    <3>2. CardEnd' = CardEnd
      BY <1>1, <3>1 DEF CardEnd
    <3>3. entry # <<>> => fd # 0 /\ entry[1].kind = "record"
      <4>1. entry # <<>> => entry[1].session = fd /\ entry[1].session \in Sessions
        BY <1>1, <1>2, EntryInHand DEF LogInv, WriterInv
      <4> QED BY <1>4, <2>2, <4>1
    <3>4. InHand' <=> InHand
      BY <1>1, <1>2, <3>1, <3>3 DEF InHand
    <3>5. Hand' = Hand
      BY <1>1, <3>2, <3>4 DEF Hand
    <3>6. QueueInv'
      <4>1. Fresh(Hand)'
        <5>1. Fresh(Hand)
          BY QueueElements DEF LogInv, QueueInv
        <5> QED BY <1>1, <3>1, <3>5, <5>1 DEF Fresh
      <4>2. (\A i \in 1 .. Len(queue) : Fresh(queue[i]))'
        BY <1>1, <1>2, <3>1 DEF Fresh
      <4>3. \A x \in Sessions : x > session => files'[x] = files[x]
        BY <1>1
      <4> QED BY <1>1, <1>2, <1>3, <3>5, <4>1, <4>2, <4>3, HandMoves DEF AtProducers
    <3>7. BufferInv'
      BY <1>1, <3>1 DEF LogInv, BufferInv
    <3>8. WriterInv'
      <4>1. InHand => Follows(CardEnd, entry[1]) /\ entry[1].session = fd /\ entry[1].kind = "record"
        BY <1>2, <3>3 DEF LogInv, WriterInv
      <4> QED BY <1>1, <1>3, <3>1, <3>2, <3>3, <3>4, <4>1 DEF WriterInv
    <3>9. OverInv'
      <4>1. \A x : Over(x)' => Over(x)
        BY <1>1, <3>1, <3>4 DEF Over, AtProducers
      <4> QED BY <1>1, <4>1 DEF LogInv, OverInv, AtProducers
    <3> QED BY <3>6, <3>7, <3>8, <3>9
  <2>3. entry # <<>> => entry[1].kind \in {"record", "start", "stop"}
    BY EntryInHand DEF Entry
  <2> QED BY <1>1, <2>1, <2>2, <2>3
<1> QED BY <1>2, <1>5 DEF LogInv

LEMMA FailLog == IInv /\ LogInv /\ IInv' /\ Fail => LogInv'
<1> SUFFICES ASSUME IInv, LogInv, IInv', Fail PROVE LogInv'
  OBVIOUS
<1>1. /\ pc = "fail" /\ pc' = "store" /\ fd' = 0 /\ buffer' = <<>> /\ active' = FALSE /\ queue' = <<>>
      /\ lost' = lost \cup Pending
      /\ UNCHANGED <<quit, initialized, control, session, accepted, entry, quitting, failing, files, synced>>
  BY DEF Fail, controlVars, cardVars
<1>2. failing /\ failing' /\ (fd # 0 => fd \in lost) /\ ~InHand
  BY <1>1 DEF LogInv, WriterInv, Broken, InHand, Writing
<1>3. Len(queue') = 0 /\ session \in Nat
  BY <1>1, HandOfFd, SMT
<1>4. ~InHand' /\ ~Broken' /\ Hand' = [kind |-> "stop", session |-> 0, n |-> 0]
  <2>1. ~InHand' /\ ~Broken'
    BY <1>1 DEF InHand, Broken, Writing
  <2>2. CardEnd' = [kind |-> "stop", session |-> 0, n |-> 0]
    BY <1>1 DEF CardEnd
  <2> QED BY <2>1, <2>2 DEF Hand
<1>5. QueueInv'
  <2>1. \A i \in 0 .. Len(queue') : i = 0
    BY <1>3, SMT
  <2>2. ~(1 <= 0) /\ \A i \in 1 .. Len(queue') : FALSE
    BY <1>3, SMT
  <2>3. Nth(Hand', queue', 0) = Hand' /\ 0 <= session /\ ~(0 < 0)
    BY <1>3, SMT DEF Nth
  <2>4. Chained(Hand', queue', Broken')
    BY <2>2 DEF Chained
  <2>5. Ends(Hand', queue', Broken', active', session', accepted')
    BY <1>1, <1>3, <1>4, <2>3 DEF Ends, EndsAt
  <2>6. Ordered(Hand', queue', session')
    BY <1>1, <1>4, <2>1, <2>3 DEF Ordered
  <2>7. \A i \in 0 .. Len(queue') : Stopped(Nth(Hand', queue', i), active', session', accepted')
    BY <1>4, <2>1, <2>3 DEF Stopped
  <2>8. (\A i \in 0 .. Len(queue) : Fresh(Nth(Hand, queue, i)))'
    <3>1. Hand'.kind # "start"
      BY <1>4
    <3> QED BY <2>1, <2>3, <3>1 DEF Fresh
  <2>9. \A s \in Sessions : s > session' => files'[s] = <<>> /\ accepted'[s] = 0
    BY <1>1 DEF LogInv, QueueInv
  <2> QED BY <2>4, <2>5, <2>6, <2>7, <2>8, <2>9 DEF QueueInv
<1>6. WriterInv'
  BY <1>1, <1>2, <1>4 DEF WriterInv
<1>7. QuitInv' /\ FilesFaithful'
  BY <1>1 DEF LogInv, QuitInv, FilesFaithful
<1>8. BufferInv'
  <2>1. Len(buffer') = 0
    BY <1>1
  <2> QED BY <2>1, SMT DEF BufferInv
<1>9. OverInv'
  <2>1. \A s : Over(s)' /\ s \notin lost' => Over(s) /\ s \notin lost
    BY <1>1, <1>2 DEF Over, Pending
  <2> QED BY <1>1, <2>1 DEF LogInv, OverInv
<1> QED BY <1>5, <1>6, <1>7, <1>8, <1>9 DEF LogInv

LEMMA StoreLog == IInv /\ LogInv /\ IInv' /\ Store => LogInv'
<1> SUFFICES ASSUME IInv, LogInv, IInv', Store PROVE LogInv'
  OBVIOUS
<1>1. /\ pc = "store" /\ pc' \in {"done", "take"} /\ entry' = <<>> /\ ~failing'
      /\ buffer' = IF entry # <<>> /\ ~Lifecycle /\ fd # 0 THEN buffer \o entry ELSE buffer
      /\ UNCHANGED <<AtProducers, queue, quitting, fd, files, synced, lost>>
  BY DEF Store, AtProducers, loggerVars, controlVars, cardVars, historyVars
<1>2. ~InHand' /\ ~Broken /\ ~Broken' /\ Hand' = CardEnd'
  <2>1. ~InHand' /\ ~Broken /\ ~Broken'
    BY <1>1 DEF InHand, Broken
  <2> QED BY <2>1 DEF Hand
<1>3. InHand <=> entry # <<>> /\ ~Lifecycle /\ fd # 0
  BY <1>1 DEF InHand, Lifecycle, Writing
<1>4. WriterInv'
  BY <1>1, <1>2 DEF WriterInv
<1>5. QuitInv' /\ FilesFaithful'
  BY <1>1 DEF LogInv, QuitInv, FilesFaithful, AtProducers
<1>6. OverInv'
  <2>1. InHand => entry[1].session = fd
    BY <1>3, OpenFile
  <2>2. \A s : Over(s)' => Over(s)
    BY <1>1, <2>1 DEF Over, AtProducers
  <2> QED BY <1>1, <2>2 DEF LogInv, OverInv, AtProducers
<1>7. /\ BufferInv' /\ Hand'.kind = Hand.kind /\ Hand'.session = Hand.session /\ Hand'.n = Hand.n
      /\ Hand.kind = "stop" => Hand' = Hand
  <2>1. CASE InHand
    <3>1. fd # 0 /\ entry # <<>> /\ entry[1].kind = "record" /\ Hand = entry[1] /\ buffer' = buffer \o entry
      BY <1>1, <1>3, <2>1 DEF Lifecycle, Hand
    <3>2. /\ entry[1].session = fd /\ CardEnd.kind = "record" /\ CardEnd.n = Len(files[fd]) + Len(buffer)
          /\ Len(files[fd]) \in Nat
      BY <2>1, <3>1, OpenFile
    <3>3. entry[1].n = (Len(files[fd]) + Len(buffer)) + 1
      BY <1>2, <2>1, <3>1, <3>2 DEF LogInv, WriterInv, Follows
    <3>4. buffer \in Seq(Entry) /\ entry \in Seq(Entry) /\ Len(entry) = 1 /\ Len(buffer) \in Nat
      BY <3>1, EntryInHand, LenProperties DEF IInv, TypeOK
    <3>5. /\ Len(buffer') = Len(buffer) + 1
          /\ \A j \in 1 .. Len(buffer) : buffer'[j] = buffer[j]
          /\ buffer'[Len(buffer) + 1] = entry[1]
      <4>1. /\ Len(buffer') = Len(buffer) + Len(entry)
            /\ \A j \in 1 .. Len(buffer) + Len(entry) :
                  buffer'[j] = IF j <= Len(buffer) THEN buffer[j] ELSE entry[j - Len(buffer)]
        BY <3>1, <3>4, ConcatProperties
      <4>2. \A j \in 1 .. Len(buffer) : j \in 1 .. Len(buffer) + Len(entry) /\ j <= Len(buffer)
        BY <3>4, SMT
      <4>3. /\ Len(buffer) + 1 \in 1 .. Len(buffer) + Len(entry) /\ ~(Len(buffer) + 1 <= Len(buffer))
            /\ (Len(buffer) + 1) - Len(buffer) = 1
        BY <3>4, SMT
      <4> QED BY <3>4, <4>1, <4>2, <4>3
    <3>5a. Len(files[fd]) + (Len(buffer) + 1) = (Len(files[fd]) + Len(buffer)) + 1
      <4>1. \A a, b \in Nat : a + (b + 1) = (a + b) + 1
        BY SMT
      <4> QED BY <3>2, <3>4, <4>1
    <3>5b. \A j \in 1 .. Len(buffer) + 1 : j \in 1 .. Len(buffer) \/ j = Len(buffer) + 1
      BY <3>4, SMT
    <3>6. BufferInv'
      <4> SUFFICES ASSUME NEW j \in 1 .. Len(buffer')
                   PROVE  buffer'[j].session = fd /\ buffer'[j].n = Len(files[fd]) + j
        BY <1>1 DEF BufferInv
      <4>1. CASE j \in 1 .. Len(buffer)
        BY <3>5, <4>1 DEF LogInv, BufferInv
      <4>2. CASE j = Len(buffer) + 1
        <5>1. Len(files[fd]) + j = (Len(files[fd]) + Len(buffer)) + 1
          BY <3>5a, <4>2
        <5> QED BY <3>2, <3>3, <3>5, <4>2, <5>1
      <4>3. j \in 1 .. Len(buffer) + 1
        BY <3>5
      <4> QED BY <3>5b, <4>1, <4>2, <4>3
    <3>7. CardEnd' = [kind |-> "record", session |-> fd, n |-> (Len(files[fd]) + Len(buffer)) + 1]
      BY <1>1, <3>1, <3>5, <3>5a DEF CardEnd
    <3> QED BY <1>2, <3>1, <3>2, <3>3, <3>6, <3>7
  <2>2. CASE ~InHand
    <3>1. buffer' = buffer
      BY <1>1, <1>3, <2>2
    <3>2. BufferInv' /\ CardEnd' = CardEnd
      BY <1>1, <3>1 DEF LogInv, BufferInv, CardEnd
    <3> QED BY <1>2, <2>2, <3>2 DEF Hand
  <2> QED BY <2>1, <2>2
<1>8. QueueInv'
  <2>1. Hand.session <= Hand.session
    <3>1. Hand.session \in Nat
      BY HandType, SMT DEF Hands
    <3> QED BY <3>1, SMT
  <2>2. Fresh(Hand)'
    <3>1. Fresh(Hand)
      BY QueueElements DEF LogInv, QueueInv
    <3> QED BY <1>1, <1>7, <3>1 DEF Fresh
  <2>3. (\A i \in 1 .. Len(queue) : Fresh(queue[i]))'
    <3>1. \A i \in 1 .. Len(queue) : Fresh(queue[i])
      BY QueueElements DEF LogInv, QueueInv
    <3> QED BY <1>1, <3>1 DEF Fresh
  <2>4. \A x \in Sessions : x > session => files'[x] = files[x]
    BY <1>1
  <2> QED BY <1>1, <1>2, <1>7, <2>1, <2>2, <2>3, <2>4, HandMoves DEF AtProducers
<1> QED BY <1>4, <1>5, <1>6, <1>7, <1>8 DEF LogInv

-----------------------------------------------------------------------------
(* The close, and every step together *)

LEMMA QuietLog ==
    IInv /\ LogInv /\ IInv' /\ (SetWanted \/ RetryElapses \/ CloseQuit \/ CloseJoin \/ Finished \/ UNCHANGED vars)
        => LogInv'
<1> SUFFICES ASSUME IInv, LogInv, IInv',
                    SetWanted \/ RetryElapses \/ CloseQuit \/ CloseJoin \/ Finished \/ UNCHANGED vars
             PROVE  LogInv'
  OBVIOUS
<1>1. UNCHANGED <<queue, active, writerVars, cardVars, historyVars>>
  BY DEF SetWanted, RetryElapses, CloseQuit, CloseJoin, Finished, vars, loggerVars
<1>2. UNCHANGED <<AtCard, queue, active, session, accepted, entry, quitting>>
  BY <1>1 DEF AtCard, writerVars, cardVars, historyVars
<1>3. QuitInv'
  <2>1. CASE SetWanted \/ RetryElapses \/ Finished \/ UNCHANGED vars
    BY <1>2, <2>1 DEF LogInv, QuitInv, SetWanted, RetryElapses, Finished, vars, loggerVars, controlVars
  <2>2. CASE CloseQuit
    BY <1>2, <2>2 DEF LogInv, QuitInv, CloseQuit
  <2>3. CASE CloseJoin
    BY <1>2, <2>3 DEF LogInv, QuitInv, CloseJoin
  <2> QED BY <2>1, <2>2, <2>3
<1> QED BY <1>2, <1>3, LogSame DEF LogInv

LEMMA InitLog == Init => LogInv
<1> SUFFICES ASSUME Init PROVE LogInv
  OBVIOUS
<1>1. /\ pc \in {"take", "none"} /\ queue = <<>> /\ entry = <<>> /\ buffer = <<>> /\ active = FALSE /\ quit = FALSE
      /\ quitting = FALSE /\ failing = FALSE /\ fd = 0 /\ session = 0 /\ control = "loop"
      /\ \A s \in Sessions : files[s] = <<>> /\ synced[s] = 0 /\ accepted[s] = 0
  BY Zenon DEF Init
<1>2. Len(queue) = 0 /\ Len(buffer) = 0 /\ \A s \in Sessions : Len(files[s]) = 0
  BY <1>1
<1>3. ~InHand /\ ~Broken /\ Hand = [kind |-> "stop", session |-> 0, n |-> 0]
  BY <1>1 DEF InHand, Broken, Hand, CardEnd
<1>4. QueueInv
  <2>1. \A i \in 0 .. Len(queue) : i = 0
    BY <1>2, SMT
  <2>2. ~(0 < 0) /\ 0 <= 0 /\ \A i \in 1 .. Len(queue) : FALSE
    BY <1>2, SMT
  <2>3. Nth(Hand, queue, 0) = Hand
    BY DEF Nth
  <2> QED BY <1>1, <1>2, <1>3, <2>1, <2>2, <2>3 DEF QueueInv, Chained, Ends, EndsAt, Ordered, Stopped, Fresh
<1>5. WriterInv /\ QuitInv
  BY <1>1, <1>3 DEF WriterInv, QuitInv
<1>6. BufferInv /\ FilesFaithful
  BY <1>2, SMT DEF BufferInv, FilesFaithful
<1>7. OverInv
  BY <1>1 DEF OverInv
<1> QED BY <1>4, <1>5, <1>6, <1>7 DEF LogInv

LEMMA LogStep == IInv /\ LogInv /\ [Next]_vars => IInv' /\ LogInv'
<1> SUFFICES ASSUME IInv, LogInv, [Next]_vars PROVE IInv' /\ LogInv'
  OBVIOUS
<1>1. IInv'
  BY StepKeeps
<1>2. CASE EmitSample \/ EmitHeader \/ StopPolicy
  BY <1>1, <1>2, ProducerEmitsLog DEF ProducerEmits
<1>3. CASE StartSession
  BY <1>1, <1>3, StartSessionLog
<1>4. CASE StopSession \/ CloseStop
  BY <1>1, <1>4, StopLog
<1>5. CASE SetWanted \/ RetryElapses \/ CloseQuit \/ CloseJoin \/ Finished \/ UNCHANGED vars
  BY <1>1, <1>5, QuietLog
<1>6. CASE WriterTake
  BY <1>1, <1>6, WriterTakeLog
<1>7. CASE FlushNeeded \/ FlushTimed
  BY <1>1, <1>7, FlushLog DEF FlushNeeded, FlushTimed
<1>8. CASE FlushNothing \/ SyncNothing
  BY <1>1, <1>8, FlushNothingLog
<1>9. CASE Sync
  BY <1>1, <1>9, SyncLog
<1>10. CASE OpenLog
  BY <1>1, <1>10, OpenLogLog
<1>11. CASE OpenLogFails
  BY <1>1, <1>11, OpenLogFailsLog
<1>12. CASE NoOpen
  BY <1>1, <1>12, NoOpenLog, NoOpenFailed
<1>13. CASE Fail
  BY <1>1, <1>13, FailLog
<1>14. CASE Store
  BY <1>1, <1>14, StoreLog
<1> QED
  BY <1>1, <1>2, <1>3, <1>4, <1>5, <1>6, <1>7, <1>8, <1>9, <1>10, <1>11, <1>12, <1>13, <1>14
     DEF Next, Control, Writer

LEMMA LogInvariance == Spec => [](IInv /\ LogInv)
<1>1. Init => IInv /\ LogInv
  BY InitHolds, InitLog
<1>2. (IInv /\ LogInv) /\ [Next]_vars => (IInv /\ LogInv)'
  BY LogStep
<1> QED BY <1>1, <1>2, PTL DEF Spec

\* Every file holds its own session's records, from the first on and without a
\* gap, whatever the order of producers, failures, partial writes and restarts:
\* the writer drops the rest of a failed session with its buffer, and open_log
\* creates a file of its own for every start (O_EXCL).
THEOREM FilesStayFaithful == Spec => []FilesFaithful
<1>1. LogInv => FilesFaithful
  BY DEF LogInv
<1> QED BY <1>1, LogInvariance, PTL

\* A session that ended without a storage failure is wholly on the card and
\* synced: the stop that ca_binlog_stop queues behind its last record makes
\* the writer flush and fdatasync before it closes the file.
THEOREM SessionsEndDurable == Spec => []SessionDurable
<1>1. IInv /\ LogInv => SessionDurable
  <2> SUFFICES ASSUME IInv, LogInv, NEW s \in Sessions, Gone(s), s \notin lost
               PROVE  synced[s] = accepted[s]
    BY DEF SessionDurable
  <2>1. s <= session
    <3>1. session \in Nat
      BY HandOfFd, SMT
    <3> QED BY <3>1, SMT DEF Gone
  <2>2. ~(InHand /\ entry[1].session = s)
    <3> SUFFICES ASSUME entry # <<>> PROVE entry[1].session # s
      BY DEF InHand
    <3>1. 1 \in 1 .. Len(entry)
      BY EntryInHand, SMT
    <3> QED BY <3>1 DEF Gone
  <2>3. Over(s)
    BY <2>1, <2>2 DEF Gone, Over
  <2> QED BY <2>3 DEF LogInv, OverInv
<1> QED BY <1>1, LogInvariance, PTL
=============================================================================
