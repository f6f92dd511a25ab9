---------------------------- MODULE Mp4Recorder ----------------------------
(***************************************************************************)
(* The MP4 recording writer (camera_app/src/recording/mp4_minimp4.c): the  *)
(* frame thread appends access units to the current part, rolls over to a  *)
(* new part at an IDR on a FAT card, and closes the recording; every part  *)
(* has a background sync worker; a part that was rolled away from is       *)
(* closed by a retire thread.                                              *)
(*                                                                         *)
(* Every critical section of a file's sync_lock is one action; flushes are *)
(* split into the call and its return.  An access unit is its number among *)
(* the pictures offered, its kind and its size; the muxer and the kernel   *)
(* are abstracted to success or failure.  Times are abstracted to "the     *)
(* interval has or has not passed".                                        *)
(***************************************************************************)
EXTENDS Integers, Sequences, SequencesExt, FiniteSets

CONSTANTS
    RollBytes,   \* writer->roll_bytes, 0 when the filesystem is not FAT
    HardLimit,   \* file->hard_limit
    Overhead,    \* SEI, headers and boxes added to the length in the bound
    Kinds,       \* access units the encoder may produce, [hdr, pic, idr, length]
    MaxOffers,   \* bound: access units offered
    MaxParts     \* bound: parts of one recording

ParameterSets == {"sps", "pps"}

ASSUME Mp4RecorderAssumption ==
    /\ RollBytes \in Nat
    /\ HardLimit \in Nat
    /\ Overhead \in Nat
    /\ Kinds \subseteq [hdr : SUBSET ParameterSets, pic : BOOLEAN,
                        idr : BOOLEAN, length : Nat]
    /\ \A u \in Kinds : u.idr => u.pic   \* an IDR slice is a picture
    /\ MaxOffers \in Nat
    /\ MaxParts \in Nat \ {0}

Parts == 1 .. MaxParts

VARIABLES
    file,         \* the parts: struct ca_mp4_file, its card contents and worker
    part,         \* writer->part, the part writer->file points to
    retired,      \* writer->retired as a part number, 0 for NULL
    retire_done,  \* writer->retire_done
    retire_error, \* writer->retire_error # 0
    error,        \* writer->error # 0
    headers,      \* writer->headers
    pc,           \* where the frame thread is
    unit,         \* the access unit it is writing
    offers,       \* access units offered so far
    pictures,     \* pictures offered so far
    result        \* what ca_mp4_close returned

vars == <<file, part, retired, retire_done, retire_error, error, headers,
          pc, unit, offers, pictures, result>>

WorkerPC == {"test", "wait", "timed", "call", "data", "dir", "relock", "exit"}
ClosePC == {"no", "stop", "join", "closed"}

FileState ==
    [exists : BOOLEAN,           \* created and not unlinked
     samples : Seq(Nat),         \* pictures appended, by number
     idrFirst : BOOLEAN,         \* the first of them is an IDR
     have : SUBSET ParameterSets,\* cleared need_sps, need_pps
     bytes : Nat,                \* file->bytes
     dirty : BOOLEAN,            \* sync_dirty
     stopping : BOOLEAN,         \* sync_stopping
     sync_error : BOOLEAN,       \* sync_error # 0
     worker : WorkerPC,
     last : BOOLEAN,             \* the worker's local stopping
     failed : BOOLEAN,           \* the worker's local error
     synced_once : BOOLEAN,      \* the worker's local have_synced
     flushing : Nat,             \* samples the flush in progress covers
     durable : Nat,              \* samples known to be on the card
     named : BOOLEAN,            \* directory_fd closed: its entry is on the card
     closing : ClosePC,          \* progress of file_close
     mux_failed : BOOLEAN]       \* MP4E_close or close reported an error

NoUnit == [hdr |-> {}, pic |-> FALSE, idr |-> FALSE, length |-> 0]

FramePC == {"idle", "roll", "write", "mark", "close", "reap", "done"}

TypeOK ==
    /\ file \in [Parts -> FileState]
    /\ part \in Parts
    /\ retired \in 0 .. MaxParts
    /\ retire_done \in BOOLEAN
    /\ retire_error \in BOOLEAN
    /\ error \in BOOLEAN
    /\ headers \subseteq ParameterSets
    /\ pc \in FramePC
    /\ unit \in Kinds \cup {NoUnit}
    /\ offers \in 0 .. MaxOffers
    /\ pictures \in 0 .. MaxOffers
    /\ result \in {"none", "ok", "failed"}

-----------------------------------------------------------------------------
\* file_open: an empty file, its directory entry not yet synced, its worker at
\* the top of its loop.  have is what a continuation is seeded with.
OpenFile(have) ==
    [exists |-> TRUE, samples |-> <<>>, idrFirst |-> FALSE, have |-> have,
     bytes |-> 0, dirty |-> FALSE, stopping |-> FALSE, sync_error |-> FALSE,
     worker |-> "test", last |-> FALSE, failed |-> FALSE, synced_once |-> FALSE,
     flushing |-> 0, durable |-> 0, named |-> FALSE, closing |-> "no",
     mux_failed |-> FALSE]

\* A part that has not been opened.
NoFile == [OpenFile({}) EXCEPT !.exists = FALSE, !.worker = "exit"]

\* ca_mp4_open.
Init ==
    /\ file = [p \in Parts |-> IF p = 1 THEN OpenFile({}) ELSE NoFile]
    /\ part = 1
    /\ retired = 0
    /\ retire_done = FALSE
    /\ retire_error = FALSE
    /\ error = FALSE
    /\ headers = {}
    /\ pc = "idle"
    /\ unit = NoUnit
    /\ offers = 0
    /\ pictures = 0
    /\ result = "none"

\* pthread_cond_signal(&sync_changed): the worker is the only waiter.
Signalled(f) ==
    IF f.worker \in {"wait", "timed"} THEN [f EXCEPT !.worker = "test"] ELSE f

\* goto fail in ca_mp4_write_h264: the error is sticky.
FailWrite ==
    /\ error' = TRUE
    /\ pc' = "idle"
    /\ unit' = NoUnit

-----------------------------------------------------------------------------
\* ca_mp4_write_h264 is entered with an access unit and reaps the retired part
\* if its thread has finished.
WriteReap(u) ==
    /\ pc = "idle"
    /\ offers < MaxOffers
    /\ ~error
    /\ offers' = offers + 1
    /\ pictures' = IF u.pic THEN pictures + 1 ELSE pictures
    /\ IF retired # 0 /\ retire_done
       THEN /\ retired' = 0
            /\ IF retire_error
               THEN FailWrite
               ELSE pc' = "roll" /\ unit' = u /\ UNCHANGED error
       ELSE pc' = "roll" /\ unit' = u /\ UNCHANGED <<retired, error>>
    /\ UNCHANGED <<file, part, retire_done, retire_error, headers, result>>

\* The size ca_mp4_write_h264 reserves for an access unit.
Bound(length) == length * 2 + Overhead

\* bound > hard_limit - bytes, the refusal before anything is written.
TooLarge(f) == Bound(unit.length) > HardLimit - f.bytes

\* Mutant of WantsRoll: any picture rolls the recording over.
WantsRollAnywhere == unit.pic /\ file[part].bytes >= RollBytes /\ retired = 0

\* ca_mp4_write_h264: the parameter sets are cached and the recording rolls
\* over at an IDR once the part is large enough and no part is still being
\* retired.  cache_headers and roll_file may fail; a part that roll_file opened
\* in vain is closed and unlinked before it returns.
WantsRoll == unit.idr /\ file[part].bytes >= RollBytes /\ retired = 0

WriteRoll ==
    /\ pc = "roll"
    /\ headers' = IF RollBytes > 0 THEN headers \cup unit.hdr ELSE headers
    /\ IF RollBytes > 0 /\ WantsRoll
       THEN /\ part < MaxParts
            /\ file' = [file EXCEPT ![part + 1] = OpenFile(headers'),
                                    ![part].closing = "stop"]
            /\ part' = part + 1
            /\ retired' = part
            /\ retire_done' = FALSE
       ELSE UNCHANGED <<file, part, retired, retire_done>>
    /\ IF TooLarge(file'[part'])
       THEN FailWrite
       ELSE pc' = "write" /\ UNCHANGED <<error, unit>>
    /\ UNCHANGED <<retire_error, offers, pictures, result>>

WriteRollFails ==
    /\ pc = "roll"
    /\ RollBytes > 0
    /\ WantsRoll \/ unit.hdr # {}
    /\ FailWrite
    /\ UNCHANGED <<file, part, retired, retire_done, retire_error, headers,
                   offers, pictures, result>>

\* write_h264 in the current part: parameter sets are noted, an access unit
\* without a picture and one before the part can start are not stored.
Stored(f) == unit.pic /\ f.have \cup unit.hdr = ParameterSets
                      /\ (f.samples = <<>> => unit.idr)

\* file_write_h264 up to the unlock of the file: the sync worker's error is
\* taken over, else the access unit is written as one fragment whose size is
\* within the bound.  Even then the unlock may fail.
WriteFrame ==
    /\ pc = "write"
    /\ ~file[part].sync_error
    /\ LET f == [file[part] EXCEPT !.have = @ \cup unit.hdr] IN
       IF Stored(file[part])
       THEN \E size \in unit.length .. Bound(unit.length) :
              /\ file' = [file EXCEPT ![part] =
                            [f EXCEPT !.samples = Append(@, pictures),
                                      !.idrFirst = IF f.samples = <<>> THEN unit.idr ELSE @,
                                      !.bytes = @ + size]]
              /\ \/ pc' = "mark" /\ unit' = NoUnit /\ UNCHANGED error
                 \/ FailWrite
       ELSE /\ file' = [file EXCEPT ![part] = f]
            /\ pc' = "idle" /\ unit' = NoUnit /\ UNCHANGED error
    /\ UNCHANGED <<part, retired, retire_done, retire_error, headers,
                   offers, pictures, result>>

\* The sync worker has failed, or the lock, the muxer or pwrite fails; an
\* incomplete fragment may stay behind the complete ones.
WriteFrameFails ==
    /\ pc = "write"
    /\ FailWrite
    /\ UNCHANGED <<file, part, retired, retire_done, retire_error, headers,
                   offers, pictures, result>>

\* Mutant of MarkDirty: the worker is not woken.
MarkDirtyQuietly ==
    /\ pc = "mark"
    /\ file' = [file EXCEPT ![part].dirty = TRUE]
    /\ pc' = "idle"
    /\ UNCHANGED <<part, retired, retire_done, retire_error, error, headers,
                   unit, offers, pictures, result>>

\* file_write_h264: the worker is told under the lock.
MarkDirty ==
    /\ pc = "mark"
    /\ file' = [file EXCEPT ![part] =
                  IF @.dirty THEN @ ELSE Signalled([@ EXCEPT !.dirty = TRUE])]
    /\ pc' = "idle"
    /\ UNCHANGED <<part, retired, retire_done, retire_error, error, headers,
                   unit, offers, pictures, result>>

FrameThread ==
    \/ \E u \in Kinds : WriteReap(u)
    \/ WriteRoll \/ WriteRollFails \/ WriteFrame \/ WriteFrameFails \/ MarkDirty

-----------------------------------------------------------------------------
\* sync_recording, at the top of its loop with the lock: wait for work, wait
\* for the interval, or unlock and flush.  A clock or wait error ends it.
SyncWait(p) ==
    /\ file[p].worker = "test"
    /\ ~file[p].stopping
    /\ ~file[p].dirty
    /\ file' = [file EXCEPT ![p].worker = "wait"]

SyncInterval(p) ==
    /\ file[p].worker = "test"
    /\ file[p].dirty /\ ~file[p].stopping /\ file[p].synced_once
    /\ file' = [file EXCEPT ![p].worker = "timed"]

SyncClockFails(p) ==
    /\ file[p].worker = "test"
    /\ file[p].dirty /\ ~file[p].stopping /\ file[p].synced_once
    /\ file' = [file EXCEPT ![p].sync_error = TRUE, ![p].worker = "exit"]

SyncStart(p) ==
    /\ file[p].worker = "test"
    /\ file[p].stopping \/ file[p].dirty
    /\ file' = [file EXCEPT ![p].last = file[p].stopping,
                            ![p].dirty = FALSE,
                            ![p].worker = "call"]

\* pthread_cond_timedwait returns when the interval has passed ...
SyncTimeout(p) ==
    /\ file[p].worker = "timed"
    /\ file' = [file EXCEPT ![p].worker = "test"]

\* ... and a condition wait may return without a signal.
SyncSpuriousWake(p) ==
    /\ file[p].worker = "wait"
    /\ file' = [file EXCEPT ![p].worker = "test"]

\* fdatasync is called, outside the lock: it covers what was written before.
SyncCall(p) ==
    /\ file[p].worker = "call"
    /\ file' = [file EXCEPT ![p].flushing = Len(file[p].samples),
                            ![p].worker = "data"]

\* fdatasync returns; the directory is synced until that has succeeded once.
SyncData(p) ==
    /\ file[p].worker = "data"
    /\ \/ file' = [file EXCEPT ![p].durable = file[p].flushing,
                               ![p].worker = IF file[p].named THEN "relock" ELSE "dir"]
       \/ file' = [file EXCEPT ![p].failed = TRUE, ![p].worker = "relock"]

SyncDirectory(p) ==
    /\ file[p].worker = "dir"
    /\ \/ file' = [file EXCEPT ![p].named = TRUE, ![p].worker = "relock"]
       \/ file' = [file EXCEPT ![p].failed = TRUE, ![p].worker = "relock"]

\* Mutant of SyncRelock: the dirty flag is cleared after the flush.
SyncRelockClears(p) ==
    /\ file[p].worker = "relock"
    /\ file' = [file EXCEPT
                  ![p].synced_once = TRUE,
                  ![p].dirty = FALSE,
                  ![p].sync_error = @ \/ file[p].failed,
                  ![p].worker = IF file[p].failed \/ file[p].last THEN "exit" ELSE "test"]

\* The lock is taken again: publish the error, end, or go round the loop.
SyncRelock(p) ==
    /\ file[p].worker = "relock"
    /\ file' = [file EXCEPT
                  ![p].synced_once = TRUE,
                  ![p].sync_error = @ \/ file[p].failed,
                  ![p].worker = IF file[p].failed \/ file[p].last THEN "exit" ELSE "test"]

SyncStep(p) ==
    \/ SyncWait(p) \/ SyncInterval(p) \/ SyncClockFails(p) \/ SyncStart(p)
    \/ SyncTimeout(p) \/ SyncCall(p) \/ SyncData(p) \/ SyncDirectory(p)
    \/ SyncRelock(p)

frameVars == <<part, retired, retire_done, retire_error, error, headers,
               pc, unit, offers, pictures, result>>

SyncWorker(p) == SyncStep(p) /\ UNCHANGED frameVars

SyncWake(p) == SyncSpuriousWake(p) /\ UNCHANGED frameVars

-----------------------------------------------------------------------------

\* file_close, run by the retire thread or by ca_mp4_close: the muxer ends,
\* the worker is told to stop ...
FileCloseStop(p) ==
    /\ file[p].closing = "stop"
    /\ \E failure \in BOOLEAN :
         file' = [file EXCEPT ![p] =
                    Signalled([@ EXCEPT !.mux_failed = failure, !.stopping = TRUE,
                                        !.closing = "join"])]
    /\ UNCHANGED frameVars

\* ... and joined after its final flush.
FileCloseJoin(p) ==
    /\ file[p].closing = "join"
    /\ file[p].worker = "exit"
    /\ \E failure \in BOOLEAN :
         file' = [file EXCEPT ![p].closing = "closed",
                              ![p].mux_failed = @ \/ failure]
    /\ UNCHANGED frameVars

\* What file_close returns.
CloseFails(f) == f.sync_error \/ f.mux_failed

\* retire_file publishes the result of its file_close.
RetireFile ==
    /\ retired # 0
    /\ ~retire_done
    /\ file[retired].closing = "closed"
    /\ retire_error' = CloseFails(file[retired])
    /\ retire_done' = TRUE
    /\ UNCHANGED <<file, part, retired, error, headers, pc, unit, offers,
                   pictures, result>>

\* ca_mp4_close: the current part is closed first ...
CloseBegin ==
    /\ pc = "idle"
    /\ pc' = "close"
    /\ file' = [file EXCEPT ![part].closing = "stop"]
    /\ UNCHANGED <<part, retired, retire_done, retire_error, error, headers,
                   unit, offers, pictures, result>>

CloseFile ==
    /\ pc = "close"
    /\ file[part].closing = "closed"
    /\ error' = (error \/ CloseFails(file[part]))
    /\ pc' = "reap"
    /\ UNCHANGED <<file, part, retired, retire_done, retire_error, headers,
                   unit, offers, pictures, result>>

\* Mutant of CloseReap: the retired part's result is not asked for.
CloseReapBlind ==
    /\ pc = "reap"
    /\ retired # 0 => retire_done
    /\ retired' = 0
    /\ result' = IF error THEN "failed" ELSE "ok"
    /\ pc' = "done"
    /\ UNCHANGED <<file, part, retire_done, retire_error, error, headers,
                   unit, offers, pictures>>

\* ... then the retired one is waited for.
CloseReap ==
    /\ pc = "reap"
    /\ retired # 0 => retire_done
    /\ retired' = 0
    /\ result' = IF error \/ (retired # 0 /\ retire_error) THEN "failed" ELSE "ok"
    /\ pc' = "done"
    /\ UNCHANGED <<file, part, retire_done, retire_error, error, headers,
                   unit, offers, pictures>>

Closing == CloseFile \/ CloseReap \/ RetireFile
             \/ \E p \in Parts : FileCloseStop(p) \/ FileCloseJoin(p)

Next ==
    \/ FrameThread
    \/ CloseBegin
    \/ Closing
    \/ \E p \in Parts : SyncWorker(p) \/ SyncWake(p)

Spec == Init /\ [][Next]_vars

\* A call of ca_mp4_write_h264 that has begun ends, the workers run, flushes
\* return, the interval passes sooner or later (hence strong fairness of
\* SyncStart), and a close goes on once begun.  Nothing obliges
\* the encoder to offer access units or the owner to close.
FairSpec ==
    /\ Spec
    /\ WF_vars(WriteRoll \/ WriteRollFails \/ WriteFrame \/ WriteFrameFails \/ MarkDirty)
    /\ WF_vars(Closing)
    /\ \A p \in Parts : /\ WF_vars(SyncWorker(p))
                        /\ SF_vars(SyncStart(p) /\ UNCHANGED frameVars)

-----------------------------------------------------------------------------
(* Properties *)

\* Normal close "waits for the worker's final flush and reports any
\* asynchronous I/O error": once ca_mp4_close has returned success, every
\* picture of every part, the retired ones included, and every part's name
\* are on the card.
CloseDurable ==
    result = "ok" => \A p \in 1 .. part :
        /\ file[p].durable = Len(file[p].samples)
        /\ file[p].named
        /\ file[p].closing = "closed" /\ ~CloseFails(file[p])

\* The coalescing dirty flag forgets nothing: a picture that is not yet on the
\* card is covered by the flag, by a flush that has still to be called or that
\* covers it, by the final flush to come, or by an error.
NoPictureForgotten ==
    \A p \in Parts : Len(file[p].samples) > file[p].durable =>
        LET f == file[p] IN
        \/ f.dirty \/ f.stopping \/ f.failed \/ f.sync_error
        \/ f.worker = "call"
        \/ f.worker = "data" /\ f.flushing = Len(f.samples)
        \/ p = part /\ (pc = "mark" \/ error)

\* Rolling over loses nothing: each part starts with an IDR, the pictures of
\* all parts, in order, have consecutive numbers, and unless a write has failed
\* the last is the latest picture the recorder has finished with.  In
\* particular a continuation stores the very IDR it was opened for, although
\* the encoder may never repeat its parameter sets.
Continuous ==
    /\ \A p \in Parts : file[p].samples # <<>> => file[p].idrFirst
    /\ LET all == FlattenSeq([p \in Parts |-> file[p].samples]) IN
       /\ \A i \in 1 .. Len(all) - 1 : all[i + 1] = all[i] + 1
       /\ all # <<>> /\ ~error /\ pc \notin {"roll", "write"} => Last(all) = pictures

\* No part outgrows its filesystem, however long the retired part's final
\* flush defers the next rollover.
WithinLimit == \A p \in Parts : file[p].bytes <= HardLimit

\* "At most one completed file can await its final background flush": any
\* other earlier part is closed, its worker joined.
OneRetired ==
    \A p \in 1 .. part - 1 : p # retired => file[p].closing = "closed"

\* Every picture stored reaches the card, or an error is noted, even if the
\* encoder falls silent: from some point on nothing is left to flush.
EventuallyDurable ==
    <>[](\A p \in Parts :
            file[p].durable = Len(file[p].samples) \/ file[p].sync_error \/ error)

\* ca_mp4_close returns: no wake-up of a waiting worker is lost, and the
\* worker, the retire thread and the closer do not wait for each other.
CloseTerminates == pc = "close" ~> pc = "done"

\* Neither a picture nor a close waits for ever, whatever the worker was doing
\* when it was signalled (sync_recording, file_close).
Progress == EventuallyDurable /\ CloseTerminates
=============================================================================
