------------------------------- MODULE Binlog -------------------------------
(***************************************************************************)
(* The diagnostic BIN log (camera_app/src/recording/binlog.c) with the     *)
(* policy that drives it (update_binlog of protocol/mavlink_server.c) and  *)
(* the exposure monitor, its second producer (media/media.c).              *)
(*                                                                         *)
(* Producers append records to a bounded queue under logger.mutex; the     *)
(* control thread also appends the start and stop of sessions; one writer  *)
(* thread takes entries off, buffers them and is the only one to touch the *)
(* card.  Every critical section is one action, and so is each of the      *)
(* writer's file operations between them.  A record is its session and its *)
(* number among the records accepted for that session.  Times are          *)
(* abstracted to "has the interval elapsed", the ring buffer to the        *)
(* sequence of its entries.                                                *)
(***************************************************************************)
EXTENDS Integers, Sequences, SequencesExt

CONSTANTS
    QueueSize,        \* QUEUE_SIZE
    BufferSize,       \* sizeof(buffer) in the writer, counted in records
    HeaderRecords,    \* records ca_binlog_start emits for every session
    MaxSessions,      \* bound: sessions started
    MaxSamples        \* bound: records offered other than headers

ASSUME BinlogAssumption ==
    /\ QueueSize \in Nat /\ QueueSize >= 4
    /\ BufferSize \in Nat \ {0}
    /\ HeaderRecords \in Nat \ {0}
    /\ MaxSessions \in Nat \ {0}
    /\ MaxSamples \in Nat

VARIABLES
    \* the logger structure
    queue,            \* logger.queue from head on, count entries
    active,           \* logger.active
    quit,             \* logger.quit
    initialized,      \* logger.initialized
    dropped,          \* logger.dropped
    errors,           \* logger.errors
    \* the control thread
    wanted,           \* vehicle_armed || settings.log_disarmed
    log_retry,        \* log_retry_ms: "none", "recent" or "elapsed" (10 s)
    control,          \* where the control thread is
    header,           \* header records this session still lacks
    \* the writer thread
    pc,               \* where the writer is in its loop
    entry,            \* its local entry, as a sequence of at most one
    quitting,         \* its local quit
    failing,          \* its local failed
    fd,               \* session whose file is open, 0: none
    buffer,           \* buffer[0 .. used)
    \* the card
    files,            \* records written to each session's file
    synced,           \* how many of them fdatasync has made durable
    \* history
    session,          \* newest session started
    accepted,         \* records enqueued for each session
    lost,             \* sessions a storage failure has cost records
    samples           \* records offered other than headers

loggerVars == <<queue, active, quit, initialized, dropped, errors>>
controlVars == <<wanted, log_retry, control, header>>
writerVars == <<pc, entry, quitting, failing, fd, buffer>>
cardVars == <<files, synced>>
historyVars == <<session, accepted, lost, samples>>
vars == <<loggerVars, controlVars, writerVars, cardVars, historyVars>>

Sessions == 1..MaxSessions

\* struct entry: kind 0 is a record, 1 starts a session and 2 stops it.
Entry == [kind : {"record", "start", "stop"}, session : Sessions, n : Nat]

\* The local buffer of the writer is an array: its bound is part of its type.
TypeOK ==
    /\ queue \in Seq(Entry)
    /\ active \in BOOLEAN
    /\ quit \in BOOLEAN
    /\ initialized \in BOOLEAN
    /\ dropped \in Nat
    /\ errors \in Nat
    /\ wanted \in BOOLEAN
    /\ log_retry \in {"none", "recent", "elapsed"}
    /\ control \in {"loop", "header", "stopping", "closing", "quitting", "closed"}
    /\ header \in Nat
    /\ pc \in {"none", "take", "flush", "sync", "switch", "fail", "store", "done"}
    /\ entry \in Seq(Entry) /\ Len(entry) <= 1
    /\ quitting \in BOOLEAN
    /\ failing \in BOOLEAN
    /\ fd \in 0..MaxSessions
    /\ buffer \in Seq(Entry) /\ Len(buffer) <= BufferSize
    /\ files \in [Sessions -> Seq(Entry)]
    /\ synced \in [Sessions -> Nat]
    /\ session \in 0..MaxSessions
    /\ accepted \in [Sessions -> Nat]
    /\ lost \subseteq Sessions
    /\ samples \in Nat

-----------------------------------------------------------------------------
\* ca_binlog_init, which main survives without; nothing is wanted yet.
Init ==
    /\ initialized \in BOOLEAN
    /\ pc = IF initialized THEN "take" ELSE "none"
    /\ queue = <<>> /\ entry = <<>> /\ buffer = <<>>
    /\ active = FALSE /\ quit = FALSE /\ quitting = FALSE /\ failing = FALSE
    /\ dropped = 0 /\ errors = 0
    /\ wanted = FALSE /\ log_retry = "none" /\ control = "loop" /\ header = 0
    /\ fd = 0
    /\ files = [s \in Sessions |-> <<>>]
    /\ synced = [s \in Sessions |-> 0]
    /\ session = 0
    /\ accepted = [s \in Sessions |-> 0]
    /\ lost = {}
    /\ samples = 0

-----------------------------------------------------------------------------

\* The test of ca_binlog_emit: two slots stay free for lifecycle entries.
HasRoom == Len(queue) < QueueSize - 2

\* ca_binlog_emit: an inactive logger ignores the record, a full one counts it.
Emit ==
    IF active /\ HasRoom
    THEN /\ queue' = Append(queue, [kind |-> "record", session |-> session,
                                    n |-> accepted[session] + 1])
         /\ accepted' = [accepted EXCEPT ![session] = @ + 1]
         /\ UNCHANGED dropped
    ELSE /\ dropped' = IF active THEN dropped + 1 ELSE dropped
         /\ UNCHANGED <<queue, accepted>>

\* Any record of the control loop, or a sample of monitor_exposure, which runs
\* beside it until ca_media_close joins it.  Without a session it is a no-op.
EmitSample ==
    /\ control \notin {"closing", "quitting", "closed"}
    /\ active
    /\ samples < MaxSamples
    /\ samples' = samples + 1
    /\ Emit
    /\ UNCHANGED <<active, quit, initialized, errors, controlVars, writerVars,
                   cardVars, session, lost>>

\* A heartbeat reports the vehicle armed or disarmed, or LOG_DISARMED changes.
SetWanted ==
    /\ control = "loop"
    /\ wanted' = ~wanted
    /\ UNCHANGED <<loggerVars, log_retry, control, header, writerVars, cardVars,
                   historyVars>>

\* Ten seconds have passed since the last attempt to start.
RetryElapses ==
    /\ log_retry = "recent"
    /\ log_retry' = "elapsed"
    /\ UNCHANGED <<loggerVars, wanted, control, header, writerVars, cardVars,
                   historyVars>>

\* The start branch of update_binlog with the locked part of ca_binlog_start.
\* Only this thread sets active, so testing it twice is testing it once.
StartSession ==
    /\ control = "loop" /\ wanted /\ ~active /\ log_retry # "recent"
    /\ session < MaxSessions
    /\ log_retry' = "recent"
    /\ IF initialized /\ Len(queue) < QueueSize \div 2
       THEN /\ queue' = Append(queue, [kind |-> "start", session |-> session + 1,
                                       n |-> 0])
            /\ active' = TRUE
            /\ session' = session + 1
            /\ control' = "header"
            /\ header' = HeaderRecords
       ELSE UNCHANGED <<queue, active, session, control, header>>
    /\ UNCHANGED <<quit, initialized, dropped, errors, wanted, writerVars,
                   cardVars, accepted, lost, samples>>

\* The rest of ca_binlog_start: the build identity and every saved parameter,
\* one emit after the other with the mutex free in between.
EmitHeader ==
    /\ control = "header"
    /\ Emit
    /\ header' = header - 1
    /\ control' = IF header = 1 THEN "loop" ELSE "header"
    /\ UNCHANGED <<active, quit, initialized, errors, wanted, log_retry,
                   writerVars, cardVars, session, lost, samples>>

\* The last branch of update_binlog: the closing message, then the stop.
StopPolicy ==
    /\ control = "loop" /\ ~wanted /\ active
    /\ Emit
    /\ control' = "stopping"
    /\ UNCHANGED <<active, quit, initialized, errors, wanted, log_retry, header,
                   writerVars, cardVars, session, lost, samples>>

\* ca_binlog_stop: the entry is enqueued without looking at the room left.
Stop ==
    /\ active' = FALSE
    /\ queue' = IF active
                THEN Append(queue, [kind |-> "stop", session |-> session,
                                    n |-> accepted[session]])
                ELSE queue

StopSession ==
    /\ control = "stopping"
    /\ Stop
    /\ log_retry' = "none"
    /\ control' = "loop"
    /\ UNCHANGED <<quit, initialized, dropped, errors, wanted, header,
                   writerVars, cardVars, historyVars>>

\* ca_binlog_close, called once the main loop and ca_media_close are over:
\* stop, quit, join.  It returns at once when the logger never started.
CloseStop ==
    /\ control = "loop"
    /\ IF initialized
       THEN Stop /\ control' = "closing"
       ELSE UNCHANGED <<queue, active>> /\ control' = "closed"
    /\ UNCHANGED <<quit, initialized, dropped, errors, wanted, log_retry, header,
                   writerVars, cardVars, historyVars>>

CloseQuit ==
    /\ control = "closing"
    /\ quit' = TRUE
    /\ control' = "quitting"
    /\ UNCHANGED <<queue, active, initialized, dropped, errors, wanted,
                   log_retry, header, writerVars, cardVars, historyVars>>

CloseJoin ==
    /\ control = "quitting" /\ pc = "done"
    /\ initialized' = FALSE
    /\ control' = "closed"
    /\ UNCHANGED <<queue, active, quit, dropped, errors, wanted, log_retry,
                   header, writerVars, cardVars, historyVars>>

-----------------------------------------------------------------------------
\* The writer's lifecycle flag: it holds the start or the stop of a session.
Lifecycle == entry # <<>> /\ entry[1].kind # "record"

\* The critical section at the top of the loop.  The wait is timed (100 ms), so
\* the writer also gets here without a signal and without an entry.
WriterTake ==
    /\ pc = "take"
    /\ entry' = IF queue = <<>> THEN <<>> ELSE <<Head(queue)>>
    /\ queue' = IF queue = <<>> THEN queue ELSE Tail(queue)
    /\ quitting' = (quit /\ queue = <<>>)
    /\ pc' = "flush"
    /\ UNCHANGED <<active, quit, initialized, dropped, errors, controlVars, failing,
                   fd, buffer, cardVars, historyVars>>

\* Reasons to write the buffer out whatever the time is.
MustFlush ==
    \/ Lifecycle
    \/ quitting
    \/ Len(buffer) + Len(entry) > BufferSize

\* write_all of the buffer: all of it, or a prefix and a failure.
Flush ==
    /\ pc = "flush" /\ fd # 0 /\ buffer # <<>>
    /\ \E k \in 0..Len(buffer) :
          /\ files' = [files EXCEPT ![fd] = @ \o SubSeq(buffer, 1, k)]
          /\ failing' = (k < Len(buffer))
          /\ lost' = IF k < Len(buffer) THEN lost \cup {fd} ELSE lost
    /\ buffer' = <<>>
    /\ pc' = "sync"
    /\ UNCHANGED <<loggerVars, controlVars, entry, quitting, fd, synced,
                   session, accepted, samples>>

FlushNeeded == MustFlush /\ Flush

\* Mutant of FlushTimed: there is no periodic flush.
FlushTimedNever == FALSE

\* 250 ms have passed since the last flush.
FlushTimed == ~MustFlush /\ Flush

\* Nothing to write, or no reason to write it yet.
FlushNothing ==
    /\ pc = "flush"
    /\ fd = 0 \/ buffer = <<>> \/ ~MustFlush
    /\ pc' = "sync"
    /\ UNCHANGED <<loggerVars, controlVars, entry, quitting, failing, fd, buffer,
                   cardVars, historyVars>>

\* Mutant of MustSync: only the timer makes the writer sync.
MustSyncNever == FALSE

\* Reasons to sync whatever the time is.
MustSync == quitting \/ Lifecycle

\* fdatasync succeeds or fails; it is tried after a failed write too.
Sync ==
    /\ pc = "sync" /\ fd # 0
    /\ \/ /\ synced' = [synced EXCEPT ![fd] = Len(files[fd])]
          /\ UNCHANGED <<failing, lost>>
       \/ /\ failing' = TRUE
          /\ lost' = lost \cup {fd}
          /\ UNCHANGED synced
    /\ pc' = "switch"
    /\ UNCHANGED <<loggerVars, controlVars, entry, quitting, fd, buffer, files,
                   session, accepted, samples>>

\* No file, or neither a reason nor the 2 s interval.
SyncNothing ==
    /\ pc = "sync"
    /\ fd = 0 \/ ~MustSync
    /\ pc' = "switch"
    /\ UNCHANGED <<loggerVars, controlVars, entry, quitting, failing, fd, buffer,
                   cardVars, historyVars>>

\* The old file is closed and the next opened; an earlier failure of this pass
\* is acted on next, and so is one of open_log.
SwitchFile(newFd, fails) ==
    /\ pc = "switch"
    /\ fd' = newFd
    /\ failing' = (failing \/ fails)
    /\ pc' = IF failing \/ fails THEN "fail" ELSE "store"
    /\ UNCHANGED <<loggerVars, controlVars, entry, quitting, buffer, cardVars,
                   session, accepted, samples>>

Starts == entry # <<>> /\ entry[1].kind = "start"

OpenLog ==
    /\ Starts
    /\ SwitchFile(entry[1].session, FALSE)
    /\ UNCHANGED lost

OpenLogFails ==
    /\ Starts
    /\ SwitchFile(0, TRUE)
    /\ lost' = lost \cup {entry[1].session}

\* No start: the file is closed by a stop or a quit and otherwise kept.
NoOpen ==
    /\ ~Starts
    /\ SwitchFile(IF Lifecycle \/ quitting THEN 0 ELSE fd, FALSE)
    /\ UNCHANGED lost

\* Sessions with an entry still in the queue, and the one records go to.
Pending ==
    {queue[i].session : i \in 1..Len(queue)} \cup (IF active THEN {session} ELSE {})

\* Mutant of Fail: what is buffered for the failed file is kept.
FailKeepsBuffer ==
    /\ pc = "fail"
    /\ fd' = 0
    /\ errors' = errors + 1
    /\ active' = FALSE
    /\ queue' = <<>>
    /\ lost' = lost \cup Pending
    /\ pc' = "store"
    /\ UNCHANGED <<quit, initialized, dropped, controlVars, entry, quitting,
                   failing, buffer, cardVars, session, accepted, samples>>

\* The failure branch: close, then under the mutex end the session and discard
\* whatever is queued.
Fail ==
    /\ pc = "fail"
    /\ fd' = 0 /\ buffer' = <<>>
    /\ errors' = errors + 1
    /\ active' = FALSE
    /\ queue' = <<>>
    /\ lost' = lost \cup Pending
    /\ pc' = "store"
    /\ UNCHANGED <<quit, initialized, dropped, controlVars, entry, quitting,
                   failing, cardVars, session, accepted, samples>>

\* The record joins the buffer of the open file; a pass that quits is the last.
Store ==
    /\ pc = "store"
    /\ buffer' = IF entry # <<>> /\ ~Lifecycle /\ fd # 0
                 THEN buffer \o entry ELSE buffer
    /\ pc' = IF quitting THEN "done" ELSE "take"
    /\ entry' = <<>>
    /\ failing' = FALSE
    /\ UNCHANGED <<loggerVars, controlVars, quitting, fd, cardVars, historyVars>>

-----------------------------------------------------------------------------
Control ==
    \/ StartSession \/ EmitHeader \/ StopPolicy \/ StopSession
    \/ CloseStop \/ CloseQuit \/ CloseJoin

Writer ==
    \/ WriterTake \/ FlushNeeded \/ FlushTimed \/ FlushNothing
    \/ Sync \/ SyncNothing \/ OpenLog \/ OpenLogFails \/ NoOpen
    \/ Fail \/ Store

\* After the join nothing is left to do.
Finished ==
    /\ control = "closed"
    /\ UNCHANGED vars

Next ==
    \/ EmitSample \/ SetWanted \/ RetryElapses \/ Control \/ Writer \/ Finished

Spec == Init /\ [][Next]_vars

\* The control loop runs on, apart from the decision to close; clocks run on;
\* the writer's file operations return; and an interval that has elapsed is
\* noticed in some later pass.
FairSpec ==
    /\ Spec
    /\ WF_vars(StartSession \/ EmitHeader \/ StopPolicy \/ StopSession \/ CloseQuit \/ CloseJoin)
    /\ WF_vars(RetryElapses)
    /\ WF_vars(Writer)
    /\ SF_vars(FlushTimed)

-----------------------------------------------------------------------------
\* The ring buffer never holds more entries than it has slots: enqueue does not
\* check, so an entry too many would overwrite the oldest one.
QueueBounded == Len(queue) <= QueueSize

\* Every file holds the records accepted for its own session, in order and
\* without a gap, whatever failures, restarts and partial writes happened.
FilesFaithful ==
    \A s \in Sessions : \A i \in 1..Len(files[s]) :
        files[s][i].session = s /\ files[s][i].n = i

\* No entry of session s is on its way to the card.
Gone(s) ==
    /\ s \in 1..session
    /\ ~(active /\ s = session)
    /\ \A i \in 1..Len(queue) : queue[i].session # s
    /\ \A i \in 1..Len(entry) : entry[i].session # s
    /\ fd # s

\* A session that ended without a storage failure is complete and durable: each
\* record it accepted has been written and synced before its file was closed.
SessionDurable ==
    \A s \in Sessions : Gone(s) /\ s \notin lost => synced[s] = accepted[s]

\* While logging is wanted it resumes after every failure: from some point on a
\* session is active and its file open, unless the bound on sessions is used up.
LogsAgain ==
    <>[](wanted /\ initialized /\ control \in {"loop", "header"})
        => <>[](session = MaxSessions \/ (active /\ fd = session))

\* The writer flushes at intervals: once no more records come, every accepted
\* record of a session without failure is in its file.
AllWritten ==
    <>[](\A s \in Sessions : s \in lost \/ Len(files[s]) = accepted[s])

\* A close ends: the writer sees the quit flag and can be joined.
CloseTerminates == (control = "closing") ~> (control = "closed")

\* The logger does not get stuck: not in a failure, not in a buffer that
\* nothing more fills, not in a shutdown (writer_thread, ca_binlog_close).
Progress == LogsAgain /\ AllWritten /\ CloseTerminates

\* Said of the failure branch: it discards the failed session.  A failure must
\* then leave the entries of a later session alone.
FailureIsItsOwn ==
    [][errors' # errors => lost' = lost]_vars
=============================================================================
