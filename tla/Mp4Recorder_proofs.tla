------------------------ MODULE Mp4Recorder_proofs ------------------------
(***************************************************************************)
(* Proofs about the MP4 recording writer, for any number of parts and      *)
(* access units and any limits: a close that reports success has put every *)
(* picture of every part on the card, the dirty flag forgets no picture,   *)
(* no part outgrows its filesystem, at most one part is being retired, and *)
(* the parts are one recording without a gap.                              *)
(*                                                                         *)
(* Every step of a worker or of file_close replaces one part, so those     *)
(* steps are first described as steps of a single file (WorkerStep,        *)
(* CloserStep) and then lifted to the recording by one lemma (FileStep).   *)
(*                                                                         *)
(* For the recording without a gap, the second half keeps RunInv: each     *)
(* part is a run of consecutive pictures from an IDR, and the next part    *)
(* goes on where it ended.  That the parts one after the other then hold   *)
(* every picture is a fact about FlattenSeq, proved by taking the least    *)
(* number of parts that would fail it.                                     *)
(***************************************************************************)
EXTENDS Mp4Recorder, WellFoundedInduction, TLAPS

\* What the worker's position says about its file.  The final flush begins
\* after sync_stopping is set, when nothing is appended any more, so what it
\* covers is everything; a worker that ends otherwise has noted an error.
WorkerOrder(f) ==
    /\ f.closing \in {"join", "closed"} <=> f.stopping
    /\ f.closing = "closed" => f.worker = "exit"
    /\ f.last => f.stopping
    /\ f.failed => f.worker = "relock" \/ (f.worker = "exit" /\ f.sync_error)
    /\ f.durable <= Len(f.samples)
    /\ f.worker = "data" => f.durable <= f.flushing /\ f.flushing <= Len(f.samples)
    /\ f.last /\ f.worker = "data" => f.flushing = Len(f.samples)
    /\ f.last /\ f.worker = "dir" => f.durable = Len(f.samples)
    /\ f.worker = "relock" /\ ~f.failed => f.named
    /\ f.last /\ f.worker = "relock" /\ ~f.failed => f.durable = Len(f.samples)
    /\ f.exists /\ f.worker = "exit" /\ ~f.sync_error =>
          f.last /\ f.named /\ f.durable = Len(f.samples)

\* NoPictureForgotten for one file, the frame thread aside.
Covered(f) ==
    Len(f.samples) > f.durable =>
        \/ f.dirty \/ f.stopping \/ f.failed \/ f.sync_error
        \/ f.worker = "call"
        \/ f.worker = "data" /\ f.flushing = Len(f.samples)

\* A part that is closed, its failure known to the frame thread unless the
\* recording has ended.
Settled(p) ==
    /\ file[p].closing = "closed"
    /\ CloseFails(file[p]) => error \/ pc = "done"

Workers == \A p \in Parts : WorkerOrder(file[p])
Opened == \A p \in Parts : IF p <= part THEN file[p].exists ELSE file[p] = NoFile
Writing == pc \in {"idle", "roll", "write", "mark"} => file[part].closing = "no"
Earlier == \A p \in Parts : p < part /\ p # retired => Settled(p)
Retiring ==
    retired # 0 =>
        /\ retired < part
        /\ retire_done => /\ file[retired].closing = "closed"
                          /\ CloseFails(file[retired]) => retire_error
Ending ==
    /\ pc \in {"reap", "done"} => Settled(part)
    /\ result # "none" => pc = "done"
    /\ result = "ok" => \A p \in Parts : p <= part =>
          file[p].closing = "closed" /\ ~CloseFails(file[p])
Clean == pc \in {"roll", "write", "mark"} => ~error
Room == pc = "write" => Bound(unit.length) <= HardLimit - file[part].bytes
Flushed == \A p \in Parts : Covered(file[p]) \/ (p = part /\ (pc = "mark" \/ error))

IInv ==
    /\ TypeOK /\ pictures <= offers
    /\ Workers /\ Opened /\ Writing /\ Earlier /\ Retiring /\ Ending
    /\ Clean /\ Room /\ WithinLimit /\ Flushed

-----------------------------------------------------------------------------
LEMMA WorkerNames ==
    /\ "test" \in WorkerPC /\ "wait" \in WorkerPC /\ "timed" \in WorkerPC
    /\ "call" \in WorkerPC /\ "data" \in WorkerPC /\ "dir" \in WorkerPC
    /\ "relock" \in WorkerPC /\ "exit" \in WorkerPC
  BY DEF WorkerPC

LEMMA CloseNames ==
    "no" \in ClosePC /\ "stop" \in ClosePC /\ "join" \in ClosePC /\ "closed" \in ClosePC
  BY DEF ClosePC

LEMMA PartsInt == /\ Parts \subseteq Int /\ 1 \in Parts
                  /\ \A p \in Parts : 1 <= p /\ p <= MaxParts
                  /\ \A p \in Int : 1 <= p /\ p <= MaxParts => p \in Parts
  BY Mp4RecorderAssumption DEF Parts

\* A file that file_open has just made.
LEMMA OpenFileSound ==
    ASSUME NEW h \in SUBSET ParameterSets
    PROVE  /\ OpenFile(h) \in FileState
           /\ WorkerOrder(OpenFile(h)) /\ Covered(OpenFile(h))
           /\ OpenFile(h).exists /\ OpenFile(h).closing = "no" /\ OpenFile(h).bytes = 0
PROOF
  <1>1. OpenFile(h) \in FileState
    BY WorkerNames, CloseNames DEF OpenFile, FileState
  <1>2. Len(OpenFile(h).samples) = 0 /\ OpenFile(h).durable = 0
    BY DEF OpenFile
  <1>3. WorkerOrder(OpenFile(h))
    BY <1>2 DEF OpenFile, WorkerOrder
  <1>4. Covered(OpenFile(h))
    BY <1>2 DEF Covered
  <1> QED
    BY <1>1, <1>3, <1>4 DEF OpenFile

LEMMA NoFileSound ==
    /\ NoFile \in FileState
    /\ WorkerOrder(NoFile) /\ Covered(NoFile)
    /\ NoFile.closing = "no" /\ NoFile.worker = "exit" /\ NoFile.bytes = 0
PROOF
  <1> DEFINE o == OpenFile({})
  <1>1. o \in FileState /\ WorkerOrder(o) /\ Covered(o) /\ o.closing = "no" /\ o.bytes = 0
    BY OpenFileSound
  <1>2. o.worker = "test"
    BY DEF OpenFile
  <1>3. NoFile = [o EXCEPT !.exists = FALSE, !.worker = "exit"]
    BY DEF NoFile
  <1> HIDE DEF o
  <1> QED
    BY <1>1, <1>2, <1>3, WorkerNames DEF WorkerOrder, Covered, FileState

LEMMA Replaced ==
    ASSUME file \in [Parts -> FileState], NEW p \in Parts, NEW g \in FileState,
           file' = [file EXCEPT ![p] = g]
    PROVE  /\ file' \in [Parts -> FileState]
           /\ file'[p] = g
           /\ \A q \in Parts : q # p => file'[q] = file[q]
  OBVIOUS

-----------------------------------------------------------------------------
(* The steps of one file. *)

\* What a worker may make of its file.
WorkerStep(f, g) ==
    /\ g \in FileState /\ WorkerOrder(g) /\ (Covered(f) => Covered(g))
    /\ g.exists = f.exists /\ g.samples = f.samples /\ g.bytes = f.bytes
    /\ g.closing = f.closing /\ f.worker # "exit"

\* What a worker or file_close may make of a file: one that is open, and never
\* its contents.
PartStep(f, g) ==
    /\ g \in FileState /\ WorkerOrder(g) /\ (Covered(f) => Covered(g))
    /\ g.exists = f.exists /\ g.samples = f.samples /\ g.bytes = f.bytes
    /\ f # NoFile /\ f.closing # "closed"
    /\ f.closing = "no" => g.closing = "no"

LEMMA WorkerIsPartStep ==
    ASSUME NEW f, NEW g, WorkerOrder(f), WorkerStep(f, g)
    PROVE  PartStep(f, g)
  BY NoFileSound DEF WorkerStep, PartStep, WorkerOrder

LEMMA WorkerSteps ==
    ASSUME file \in [Parts -> FileState], NEW p \in Parts, WorkerOrder(file[p]),
           SyncStep(p) \/ SyncSpuriousWake(p)
    PROVE  \E g : file' = [file EXCEPT ![p] = g] /\ WorkerStep(file[p], g)
PROOF
  <1> DEFINE f == file[p]
  <1>0. f \in FileState /\ WorkerOrder(f)
    OBVIOUS
  <1>1. CASE SyncWait(p)
    <2> DEFINE g == [f EXCEPT !.worker = "wait"]
    <2>1. file' = [file EXCEPT ![p] = g] /\ f.worker = "test"
      BY <1>1 DEF SyncWait
    <2> HIDE DEF f
    <2>2. WorkerStep(f, g)
      BY <1>0, <2>1, WorkerNames DEF WorkerStep, WorkerOrder, Covered, FileState
    <2> QED
      BY <2>1, <2>2, Zenon DEF f
  <1>2. CASE SyncInterval(p)
    <2> DEFINE g == [f EXCEPT !.worker = "timed"]
    <2>1. file' = [file EXCEPT ![p] = g] /\ f.worker = "test"
      BY <1>2 DEF SyncInterval
    <2> HIDE DEF f
    <2>2. WorkerStep(f, g)
      BY <1>0, <2>1, WorkerNames DEF WorkerStep, WorkerOrder, Covered, FileState
    <2> QED
      BY <2>1, <2>2, Zenon DEF f
  <1>3. CASE SyncClockFails(p)
    <2> DEFINE g == [f EXCEPT !.sync_error = TRUE, !.worker = "exit"]
    <2>1. file' = [file EXCEPT ![p] = g] /\ f.worker = "test"
      BY <1>3 DEF SyncClockFails
    <2> HIDE DEF f
    <2>2. WorkerStep(f, g)
      BY <1>0, <2>1, WorkerNames DEF WorkerStep, WorkerOrder, Covered, FileState
    <2> QED
      BY <2>1, <2>2, Zenon DEF f
  <1>4. CASE SyncStart(p)
    <2> DEFINE g == [f EXCEPT !.last = f.stopping, !.dirty = FALSE, !.worker = "call"]
    <2>1. file' = [file EXCEPT ![p] = g] /\ f.worker = "test"
      BY <1>4 DEF SyncStart
    <2> HIDE DEF f
    <2>2. WorkerStep(f, g)
      BY <1>0, <2>1, WorkerNames DEF WorkerStep, WorkerOrder, Covered, FileState
    <2> QED
      BY <2>1, <2>2, Zenon DEF f
  <1>5. CASE SyncTimeout(p) \/ SyncSpuriousWake(p)
    <2> DEFINE g == [f EXCEPT !.worker = "test"]
    <2>1. file' = [file EXCEPT ![p] = g] /\ f.worker \in {"wait", "timed"}
      BY <1>5 DEF SyncTimeout, SyncSpuriousWake
    <2> HIDE DEF f
    <2>2. WorkerStep(f, g)
      BY <1>0, <2>1, WorkerNames DEF WorkerStep, WorkerOrder, Covered, FileState
    <2> QED
      BY <2>1, <2>2, Zenon DEF f
  <1>6. CASE SyncCall(p)
    <2> DEFINE g == [f EXCEPT !.flushing = Len(f.samples), !.worker = "data"]
    <2>1. file' = [file EXCEPT ![p] = g] /\ f.worker = "call"
      BY <1>6 DEF SyncCall
    <2> HIDE DEF f
    <2>a. Len(f.samples) \in Nat
      BY <1>0 DEF FileState
    <2>b. g \in FileState
      BY <1>0, <2>a, WorkerNames DEF FileState
    <2>c. /\ g.flushing = Len(f.samples) /\ g.worker = "data" /\ g.samples = f.samples
      BY <1>0 DEF FileState
    <2>2. WorkerStep(f, g)
      BY <1>0, <2>1, <2>b, <2>c DEF WorkerStep, WorkerOrder, Covered, FileState
    <2> QED
      BY <2>1, <2>2, Zenon DEF f
  <1>7. CASE SyncData(p)
    <2> DEFINE g == [f EXCEPT !.durable = f.flushing,
                              !.worker = IF f.named THEN "relock" ELSE "dir"]
               h == [f EXCEPT !.failed = TRUE, !.worker = "relock"]
    <2>1. /\ file' = [file EXCEPT ![p] = g] \/ file' = [file EXCEPT ![p] = h]
          /\ f.worker = "data"
      BY <1>7 DEF SyncData
    <2> HIDE DEF f
    <2>2. WorkerStep(f, g)
      <3> DEFINE w == IF f.named THEN "relock" ELSE "dir"
      <3>1. w \in WorkerPC
        BY WorkerNames
      <3>2. (w = "relock" /\ f.named) \/ (w = "dir" /\ ~f.named)
        OBVIOUS
      <3>3. g = [f EXCEPT !.durable = f.flushing, !.worker = w]
        OBVIOUS
      <3> HIDE DEF w
      <3>4. g \in FileState
        BY <1>0, <3>1, <3>3 DEF FileState
      <3>5. /\ g.durable = f.flushing /\ g.worker = w /\ g.exists = f.exists
            /\ g.samples = f.samples /\ g.bytes = f.bytes /\ g.closing = f.closing
            /\ g.stopping = f.stopping /\ g.last = f.last /\ g.failed = f.failed
            /\ g.sync_error = f.sync_error /\ g.named = f.named /\ g.dirty = f.dirty
        BY <1>0, <3>3 DEF FileState
      <3> HIDE DEF g
      <3>6. WorkerOrder(g)
        BY <1>0, <2>1, <3>2, <3>4, <3>5 DEF WorkerOrder, FileState
      <3>7. Covered(f) => Covered(g)
        BY <1>0, <2>1, <3>2, <3>4, <3>5 DEF WorkerOrder, Covered, FileState
      <3> QED
        BY <2>1, <3>4, <3>5, <3>6, <3>7 DEF WorkerStep
    <2>3. WorkerStep(f, h)
      BY <1>0, <2>1, WorkerNames DEF WorkerStep, WorkerOrder, Covered, FileState
    <2> QED
      BY <2>1, <2>2, <2>3, Zenon DEF f
  <1>8. CASE SyncDirectory(p)
    <2> DEFINE g == [f EXCEPT !.named = TRUE, !.worker = "relock"]
               h == [f EXCEPT !.failed = TRUE, !.worker = "relock"]
    <2>1. /\ file' = [file EXCEPT ![p] = g] \/ file' = [file EXCEPT ![p] = h]
          /\ f.worker = "dir"
      BY <1>8 DEF SyncDirectory
    <2> HIDE DEF f
    <2>2. WorkerStep(f, g)
      BY <1>0, <2>1, WorkerNames DEF WorkerStep, WorkerOrder, Covered, FileState
    <2>3. WorkerStep(f, h)
      BY <1>0, <2>1, WorkerNames DEF WorkerStep, WorkerOrder, Covered, FileState
    <2> QED
      BY <2>1, <2>2, <2>3, Zenon DEF f
  <1>9. CASE SyncRelock(p)
    <2> DEFINE g == [f EXCEPT !.synced_once = TRUE,
                              !.sync_error = f.sync_error \/ f.failed,
                              !.worker = IF f.failed \/ f.last THEN "exit" ELSE "test"]
    <2>1. file' = [file EXCEPT ![p] = g] /\ f.worker = "relock"
      BY <1>9 DEF SyncRelock
    <2> HIDE DEF f
    <2>2. WorkerStep(f, g)
      BY <1>0, <2>1, WorkerNames DEF WorkerStep, WorkerOrder, Covered, FileState
    <2> QED
      BY <2>1, <2>2, Zenon DEF f
  <1> QED
    BY <1>1, <1>2, <1>3, <1>4, <1>5, <1>6, <1>7, <1>8, <1>9 DEF SyncStep

\* Waking the worker loses nothing.
LEMMA SignalledSound ==
    ASSUME NEW f \in FileState, WorkerOrder(f), Covered(f)
    PROVE  LET g == Signalled(f) IN
           /\ g \in FileState /\ WorkerOrder(g) /\ Covered(g)
           /\ g.exists = f.exists /\ g.samples = f.samples /\ g.bytes = f.bytes
           /\ g.closing = f.closing
PROOF
  <1>1. CASE f.worker \in {"wait", "timed"}
    BY <1>1, WorkerNames DEF Signalled, WorkerOrder, Covered, FileState
  <1>2. CASE f.worker \notin {"wait", "timed"}
    <2>1. Signalled(f) = f
      BY <1>2 DEF Signalled
    <2> QED
      BY <2>1
  <1> QED
    BY <1>1, <1>2

\* What file_close may make of a file.
LEMMA CloserSteps ==
    ASSUME file \in [Parts -> FileState], NEW p \in Parts, WorkerOrder(file[p]),
           FileCloseStop(p) \/ FileCloseJoin(p)
    PROVE  \E g : file' = [file EXCEPT ![p] = g] /\ PartStep(file[p], g)
PROOF
  <1> DEFINE f == file[p]
  <1>0. f \in FileState /\ WorkerOrder(f)
    OBVIOUS
  <1>1. CASE FileCloseStop(p)
    <2>1. PICK b \in BOOLEAN :
            file' = [file EXCEPT ![p] =
                       Signalled([file[p] EXCEPT !.mux_failed = b, !.stopping = TRUE,
                                                 !.closing = "join"])]
      BY <1>1 DEF FileCloseStop
    <2> DEFINE c == [f EXCEPT !.mux_failed = b, !.stopping = TRUE, !.closing = "join"]
               g == Signalled(c)
    <2>2. f.closing = "stop"
      BY <1>1 DEF FileCloseStop
    <2>3. file' = [file EXCEPT ![p] = g]
      BY <2>1
    <2> HIDE DEF f
    <2>4. c \in FileState /\ WorkerOrder(c) /\ Covered(c)
      BY <1>0, <2>2, CloseNames DEF WorkerOrder, Covered, FileState
    <2>5. /\ c.exists = f.exists /\ c.samples = f.samples /\ c.bytes = f.bytes
          /\ c.closing = "join" /\ c.stopping
      BY <1>0 DEF FileState
    <2> HIDE DEF c
    <2>6. /\ g \in FileState /\ WorkerOrder(g) /\ Covered(g)
          /\ g.exists = c.exists /\ g.samples = c.samples /\ g.bytes = c.bytes
          /\ g.closing = c.closing
      BY <2>4, SignalledSound
    <2> HIDE DEF g
    <2>8. PartStep(f, g)
      BY <2>2, <2>5, <2>6, NoFileSound DEF PartStep
    <2> QED
      BY <2>3, <2>8, Zenon DEF f
  <1>2. CASE FileCloseJoin(p)
    <2>1. PICK b \in BOOLEAN :
            file' = [file EXCEPT ![p].closing = "closed", ![p].mux_failed = @ \/ b]
      BY <1>2 DEF FileCloseJoin
    <2> DEFINE g == [f EXCEPT !.closing = "closed", !.mux_failed = f.mux_failed \/ b]
    <2>2. f.closing = "join" /\ f.worker = "exit"
      BY <1>2 DEF FileCloseJoin
    <2>3. file' = [file EXCEPT ![p] = g]
      BY <2>1
    <2> HIDE DEF f
    <2>4. /\ g \in FileState
          /\ g.exists = f.exists /\ g.samples = f.samples /\ g.bytes = f.bytes
          /\ g.closing = "closed"
      BY <1>0, CloseNames DEF FileState
    <2>5. WorkerOrder(g) /\ (Covered(f) => Covered(g))
      BY <1>0, <2>2 DEF WorkerOrder, Covered, FileState
    <2>6. PartStep(f, g)
      BY <2>2, <2>4, <2>5, NoFileSound DEF PartStep
    <2> QED
      BY <2>3, <2>6, Zenon DEF f
  <1> QED
    BY <1>1, <1>2

-----------------------------------------------------------------------------
\* A step of one open part, of which the frame thread learns nothing,
\* preserves the invariant.
LEMMA FileStep ==
    ASSUME IInv, UNCHANGED frameVars, NEW p \in Parts, NEW g, PartStep(file[p], g),
           file' = [file EXCEPT ![p] = g]
    PROVE  IInv'
PROOF
  <1>0. /\ TypeOK /\ pictures <= offers /\ Workers /\ Opened /\ Writing /\ Earlier
        /\ Retiring /\ Ending /\ Clean /\ Room /\ WithinLimit /\ Flushed
    BY DEF IInv
  <1>1. /\ part' = part /\ retired' = retired /\ retire_done' = retire_done
        /\ retire_error' = retire_error /\ error' = error /\ headers' = headers
        /\ pc' = pc /\ unit' = unit /\ offers' = offers /\ pictures' = pictures
        /\ result' = result
    BY DEF frameVars
  <1>2. file \in [Parts -> FileState] /\ part \in Parts /\ retired \in 0 .. MaxParts
    BY <1>0 DEF TypeOK
  <1>3. /\ g \in FileState /\ WorkerOrder(g) /\ (Covered(file[p]) => Covered(g))
        /\ g.exists = file[p].exists /\ g.samples = file[p].samples
        /\ g.bytes = file[p].bytes /\ file[p].closing # "closed" /\ file[p] # NoFile
        /\ file[p].closing = "no" => g.closing = "no"
    BY DEF PartStep
  <1>4. /\ file' \in [Parts -> FileState] /\ file'[p] = g
        /\ \A q \in Parts : q # p => file'[q] = file[q]
    BY <1>2, <1>3, Replaced
  <1>5. p <= part
    BY <1>0, <1>3 DEF Opened
  <1>6. TypeOK'
    BY <1>0, <1>1, <1>4, Zenon DEF TypeOK
  <1>7. Workers'
    BY <1>0, <1>3, <1>4, Zenon DEF Workers
  <1>8. Opened'
    BY <1>0, <1>1, <1>3, <1>4, <1>5 DEF Opened
  <1>9. Writing'
    BY <1>0, <1>1, <1>2, <1>3, <1>4 DEF Writing
  <1>10. \A q \in Parts : Settled(q) => Settled(q)'
    BY <1>1, <1>3, <1>4, Zenon DEF Settled, CloseFails
  <1>11. Earlier'
    BY <1>0, <1>1, <1>10, Zenon DEF Earlier
  <1>12. Retiring'
    <2>1. retired # 0 => retired \in Parts
      BY <1>2, Mp4RecorderAssumption DEF Parts
    <2> QED
      BY <1>0, <1>1, <1>3, <1>4, <2>1, Zenon DEF Retiring, CloseFails
  <1>13. Ending'
    BY <1>0, <1>1, <1>2, <1>3, <1>4, <1>5, <1>10, Zenon DEF Ending, CloseFails
  <1>14. (pictures <= offers)' /\ Clean'
    BY <1>0, <1>1, Zenon DEF Clean
  <1>15. \A q \in Parts : file'[q].bytes = file[q].bytes
    BY <1>3, <1>4, Zenon
  <1>16. Room' /\ WithinLimit'
    BY <1>0, <1>1, <1>2, <1>15, Zenon DEF Room, WithinLimit, Bound
  <1>17. Flushed'
    BY <1>0, <1>1, <1>3, <1>4, Zenon DEF Flushed
  <1> QED
    BY <1>6, <1>7, <1>8, <1>9, <1>11, <1>12, <1>13, <1>14, <1>16, <1>17 DEF IInv

-----------------------------------------------------------------------------
(* The frame thread. *)

LEMMA UnitType ==
    ASSUME TypeOK
    PROVE  /\ unit.length \in Nat /\ unit.hdr \in SUBSET ParameterSets
           /\ Bound(unit.length) \in Nat /\ unit.idr \in BOOLEAN
PROOF
  <1>1. unit \in Kinds \/ unit = NoUnit
    BY DEF TypeOK
  <1>2. CASE unit \in Kinds
    BY <1>2, Mp4RecorderAssumption DEF Bound
  <1>3. CASE unit = NoUnit
    BY <1>3, Mp4RecorderAssumption DEF Bound, NoUnit
  <1> QED
    BY <1>1, <1>2, <1>3

LEMMA FrameNames ==
    /\ "idle" \in FramePC /\ "roll" \in FramePC /\ "write" \in FramePC /\ "mark" \in FramePC
    /\ "close" \in FramePC /\ "reap" \in FramePC /\ "done" \in FramePC
  BY DEF FramePC

LEMMA WriteReapInv == ASSUME IInv, NEW u \in Kinds, WriteReap(u) PROVE IInv'
PROOF
  <1>0. /\ TypeOK /\ pictures <= offers /\ Workers /\ Opened /\ Writing /\ Earlier
        /\ Retiring /\ Ending /\ Clean /\ Room /\ WithinLimit /\ Flushed
    BY DEF IInv
  <1>1. /\ file' = file /\ part' = part /\ headers' = headers /\ result' = result
        /\ retire_error' = retire_error /\ retire_done' = retire_done
    BY DEF WriteReap
  <1>2. pc = "idle" /\ ~error
    BY DEF WriteReap
  <1>3. \/ pc' = "roll" /\ unit' = u /\ error' = error /\ retired' = retired
        \/ /\ retired # 0 /\ retire_done /\ retired' = 0
           /\ \/ pc' = "roll" /\ unit' = u /\ error' = error /\ ~retire_error
              \/ pc' = "idle" /\ unit' = NoUnit /\ error' = TRUE
    BY DEF WriteReap, FailWrite
  <1>4. /\ offers' \in 0 .. MaxOffers /\ pictures' \in 0 .. MaxOffers
        /\ pictures' <= offers'
    <2>1. /\ offers' = offers + 1 /\ offers < MaxOffers
          /\ pictures' = pictures + 1 \/ pictures' = pictures
      BY DEF WriteReap
    <2>2. offers \in 0 .. MaxOffers /\ pictures \in 0 .. MaxOffers
      BY <1>0 DEF TypeOK
    <2> QED
      BY <1>0, <2>1, <2>2, Mp4RecorderAssumption
  <1>5. /\ error' \in BOOLEAN
    BY <1>0, <1>3, Zenon DEF TypeOK
  <1>6. retired' \in 0 .. MaxParts
    BY <1>0, <1>3, Mp4RecorderAssumption DEF TypeOK
  <1>7. pc' \in FramePC /\ unit' \in Kinds \cup {NoUnit}
    BY <1>3, FrameNames, Zenon
  <1>8. TypeOK'
    BY <1>0, <1>1, <1>4, <1>5, <1>6, <1>7, Zenon DEF TypeOK
  <1>9. Workers' /\ Opened' /\ Writing' /\ WithinLimit'
    BY <1>0, <1>1, <1>2, <1>3 DEF Workers, Opened, Writing, WithinLimit
  <1>10. ASSUME NEW q \in Parts, (q < part /\ q # retired)' PROVE Settled(q)'
    <2>1. CASE q # retired
      BY <1>0, <1>1, <1>2, <1>3, <1>10, <2>1, Zenon DEF Earlier, Settled, CloseFails
    <2>2. CASE q = retired
      BY <1>0, <1>1, <1>2, <1>3, <1>10, <2>2, Zenon DEF Retiring, Settled, CloseFails
    <2> QED
      BY <2>1, <2>2
  <1>11. Earlier'
    BY <1>10 DEF Earlier
  <1>12. Retiring'
    BY <1>0, <1>1, <1>3, Zenon DEF Retiring, CloseFails
  <1>13. pc' # "reap" /\ pc' # "done" /\ pc' # "write" /\ pc' # "mark" /\ result = "none"
    BY <1>0, <1>2, <1>3 DEF Ending
  <1>14. Ending' /\ Clean' /\ Room'
    BY <1>0, <1>1, <1>2, <1>3, <1>13 DEF Ending, Clean, Room
  <1>15. Flushed'
    BY <1>0, <1>1, <1>2 DEF Flushed
  <1> QED
    BY <1>4, <1>8, <1>9, <1>11, <1>12, <1>14, <1>15 DEF IInv

\* goto fail before anything of the recording has changed.
LEMMA FailsInv ==
    ASSUME IInv, pc \in {"roll", "write"}, FailWrite,
           UNCHANGED <<file, part, retired, retire_done, retire_error, headers,
                       offers, pictures, result>>
    PROVE  IInv'
PROOF
  <1>0. /\ TypeOK /\ pictures <= offers /\ Workers /\ Opened /\ Writing /\ Earlier
        /\ Retiring /\ Ending /\ Clean /\ Room /\ WithinLimit /\ Flushed
    BY DEF IInv
  <1>1. /\ file' = file /\ part' = part /\ retired' = retired /\ headers' = headers
        /\ retire_done' = retire_done /\ retire_error' = retire_error
        /\ offers' = offers /\ pictures' = pictures /\ result' = result
    OBVIOUS
  <1>2. error' = TRUE /\ pc' = "idle" /\ unit' = NoUnit
    BY DEF FailWrite
  <1>3. TypeOK'
    BY <1>0, <1>1, <1>2, FrameNames, Zenon DEF TypeOK
  <1>4. Workers' /\ Opened' /\ Writing' /\ WithinLimit' /\ Clean' /\ Room'
    BY <1>0, <1>1, <1>2 DEF Workers, Opened, Writing, WithinLimit, Clean, Room
  <1>5. Earlier'
    BY <1>0, <1>1, <1>2, Zenon DEF Earlier, Settled, CloseFails
  <1>6. Retiring'
    <2>1. Retiring
      BY <1>0
    <2> QED
      BY <1>1, <2>1 DEF Retiring, CloseFails
  <1>7. Ending'
    BY <1>0, <1>1, <1>2 DEF Ending
  <1>8. Flushed'
    BY <1>0, <1>1, <1>2, Zenon DEF Flushed
  <1> QED
    BY <1>0, <1>1, <1>3, <1>4, <1>5, <1>6, <1>7, <1>8 DEF IInv

\* The part that is left is told to close, the next one is new.
LEMMA RolledOver ==
    ASSUME IInv, pc = "roll", part < MaxParts, NEW h \in SUBSET ParameterSets,
           file' = [file EXCEPT ![part + 1] = OpenFile(h), ![part].closing = "stop"]
    PROVE  /\ part + 1 \in Parts /\ file' \in [Parts -> FileState]
           /\ file'[part + 1] = OpenFile(h)
           /\ \A q \in Parts : q # part /\ q # part + 1 => file'[q] = file[q]
           /\ WorkerOrder(file'[part]) /\ Covered(file'[part])
           /\ file'[part].exists /\ file'[part].bytes = file[part].bytes
PROOF
  <1> DEFINE f == file[part]
             c == [f EXCEPT !.closing = "stop"]
  <1>0. /\ file \in [Parts -> FileState] /\ part \in Parts /\ part + 1 \in Parts
        /\ part # part + 1
    BY PartsInt, Mp4RecorderAssumption DEF IInv, TypeOK
  <1>1. /\ f \in FileState /\ WorkerOrder(f) /\ f.closing = "no"
        /\ f.exists /\ Covered(f)
    <2>1. part <= part
      BY <1>0, PartsInt
    <2>2. f \in FileState /\ WorkerOrder(f) /\ f.closing = "no" /\ f.exists
      BY <1>0, <2>1 DEF IInv, Workers, Writing, Opened
    <2>3. Covered(f)
      BY <1>0 DEF IInv, Flushed, Clean
    <2> QED
      BY <2>2, <2>3
  <1>2. OpenFile(h) \in FileState
    BY OpenFileSound
  <1>3. file' = [file EXCEPT ![part + 1] = OpenFile(h), ![part] = c]
    BY <1>0
  <1> HIDE DEF f
  <1>4. /\ c \in FileState /\ WorkerOrder(c) /\ Covered(c) /\ c.exists
        /\ c.bytes = f.bytes
    BY <1>1, CloseNames DEF WorkerOrder, Covered, FileState
  <1> HIDE DEF c
  <1>5. /\ file' \in [Parts -> FileState]
        /\ file'[part + 1] = OpenFile(h) /\ file'[part] = c
        /\ \A q \in Parts : q # part /\ q # part + 1 => file'[q] = file[q]
    BY <1>0, <1>2, <1>3, <1>4
  <1> QED
    BY <1>0, <1>4, <1>5, Zenon DEF f

LEMMA WriteRollInv == ASSUME IInv, WriteRoll PROVE IInv'
PROOF
  <1>0. /\ TypeOK /\ pictures <= offers /\ Workers /\ Opened /\ Writing /\ Earlier
        /\ Retiring /\ Ending /\ Clean /\ Room /\ WithinLimit /\ Flushed
    BY DEF IInv
  <1>1. /\ retire_error' = retire_error /\ offers' = offers /\ pictures' = pictures
        /\ result' = result /\ pc = "roll"
    BY DEF WriteRoll
  <1>2. headers' \in SUBSET ParameterSets
    BY <1>0, UnitType DEF WriteRoll, TypeOK
  <1>3. ~error /\ result = "none" /\ \A q \in Parts : Covered(file[q])
    BY <1>0, <1>1 DEF Clean, Ending, Flushed
  <1>4. \/ pc' = "idle" /\ unit' = NoUnit /\ error' = TRUE
        \/ pc' = "write" /\ unit' = unit /\ error' = error /\ ~TooLarge(file'[part'])
    BY DEF WriteRoll, FailWrite
  <1>5. error' \in BOOLEAN
    BY <1>0, <1>4, Zenon DEF TypeOK
  <1>6. pc' \in FramePC /\ unit' \in Kinds \cup {NoUnit}
    BY <1>0, <1>4, FrameNames, Zenon DEF TypeOK
  <1>7. Ending' /\ Clean'
    BY <1>1, <1>3, <1>4 DEF Ending, Clean
  <1>8. ASSUME part' \in Parts, file' \in [Parts -> FileState] PROVE Room'
    <2>1. file'[part'].bytes \in Nat
      BY <1>8 DEF FileState
    <2> QED
      BY <1>0, <1>4, <2>1, UnitType, Mp4RecorderAssumption DEF Room, TooLarge, Bound
  <1>9. CASE UNCHANGED <<file, part, retired, retire_done>>
    <2>1. file' = file /\ part' = part /\ retired' = retired /\ retire_done' = retire_done
      BY <1>9
    <2>2. TypeOK'
      BY <1>0, <1>1, <1>2, <1>5, <1>6, <2>1, Zenon DEF TypeOK
    <2>3. Workers' /\ Opened' /\ Writing' /\ WithinLimit'
      BY <1>0, <1>1, <2>1 DEF Workers, Opened, Writing, WithinLimit
    <2>4. Earlier'
      BY <1>0, <1>1, <1>3, <2>1 DEF Earlier, Settled, CloseFails
    <2>5. Retiring'
      BY <1>0, <1>1, <2>1, Zenon DEF Retiring, CloseFails
    <2>6. Flushed'
      BY <1>3, <2>1 DEF Flushed
    <2>7. Room'
      BY <1>8, <2>2 DEF TypeOK
    <2> QED
      BY <1>0, <1>1, <1>7, <2>2, <2>3, <2>4, <2>5, <2>6, <2>7 DEF IInv
  <1>10. CASE ~UNCHANGED <<file, part, retired, retire_done>>
    <2>1. /\ part < MaxParts /\ part' = part + 1 /\ retired' = part /\ retire_done' = FALSE
          /\ file' = [file EXCEPT ![part + 1] = OpenFile(headers'), ![part].closing = "stop"]
          /\ retired = 0
      BY <1>10 DEF WriteRoll, WantsRoll
    <2> DEFINE h == headers'
    <2>2. h \in SUBSET ParameterSets
      BY <1>2
    <2> HIDE DEF h
    <2>3. file' = [file EXCEPT ![part + 1] = OpenFile(h), ![part].closing = "stop"]
      BY <2>1 DEF h
    <2>4. /\ part + 1 \in Parts /\ file' \in [Parts -> FileState]
          /\ file'[part + 1] = OpenFile(h)
          /\ \A q \in Parts : q # part /\ q # part + 1 => file'[q] = file[q]
          /\ WorkerOrder(file'[part]) /\ Covered(file'[part])
          /\ file'[part].exists /\ file'[part].bytes = file[part].bytes
      BY <1>1, <2>1, <2>2, <2>3, RolledOver
    <2>5. /\ WorkerOrder(OpenFile(h)) /\ Covered(OpenFile(h))
          /\ OpenFile(h).exists /\ OpenFile(h).closing = "no" /\ OpenFile(h).bytes = 0
      BY <2>2, OpenFileSound
    <2>6. part \in Parts
      BY <1>0 DEF TypeOK
    <2>7. part' \in Parts /\ retired' \in 0 .. MaxParts
      BY <2>1, <2>4, <2>6, Mp4RecorderAssumption DEF Parts
    <2>8. TypeOK'
      BY <1>0, <1>1, <1>2, <1>5, <1>6, <2>1, <2>4, <2>7, Zenon DEF TypeOK
    <2>9. Workers'
      BY <1>0, <2>4, <2>5, Zenon DEF Workers
    <2>10. Opened'
      BY <1>0, <2>1, <2>4, <2>5, <2>6, PartsInt DEF Opened
    <2>11. Writing'
      BY <2>1, <2>4, <2>5 DEF Writing
    <2>12. ASSUME NEW q \in Parts, (q < part /\ q # retired)' PROVE Settled(q)'
      <3>1. q < part /\ q # part + 1 /\ q # part /\ q # retired
        BY <2>1, <2>6, <2>12, PartsInt
      <3>2. file'[q] = file[q]
        BY <2>4, <3>1
      <3>3. file[q].closing = "closed" /\ ~CloseFails(file[q])
        BY <1>0, <1>1, <1>3, <3>1 DEF Earlier, Settled
      <3> QED
        BY <3>2, <3>3, Zenon DEF Settled, CloseFails
    <2>13. Earlier'
      BY <2>12 DEF Earlier
    <2>14. Retiring'
      BY <2>1, <2>6, PartsInt DEF Retiring
    <2>15. \A q \in Parts : file'[q].bytes <= HardLimit
      BY <1>0, <2>4, <2>5, Mp4RecorderAssumption DEF WithinLimit
    <2>16. WithinLimit'
      BY <2>15 DEF WithinLimit
    <2>17. Flushed'
      BY <1>3, <2>4, <2>5, Zenon DEF Flushed
    <2>18. Room'
      BY <1>8, <2>4, <2>7
    <2> QED
      BY <1>0, <1>1, <1>7, <2>8, <2>9, <2>10, <2>11, <2>13, <2>14, <2>16, <2>17, <2>18 DEF IInv
  <1> QED
    BY <1>9, <1>10

\* The frame thread changes the current part before it closes it.
LEMMA CurrentPart ==
    ASSUME IInv, pc \in {"idle", "write", "mark"},
           NEW g \in FileState, WorkerOrder(g), g.exists, g.bytes <= HardLimit,
           file' = [file EXCEPT ![part] = g],
           UNCHANGED <<part, retired, retire_done, retire_error, headers,
                       offers, pictures, result>>,
           error' = error \/ error' = TRUE,
           pc' \in FramePC \ {"reap", "done"}, unit' \in Kinds \cup {NoUnit}
    PROVE  /\ TypeOK' /\ (pictures <= offers)' /\ Workers' /\ Opened' /\ Earlier'
           /\ Retiring' /\ Ending' /\ WithinLimit'
           /\ file'[part'] = g
           /\ \A q \in Parts : q # part => file'[q] = file[q]
PROOF
  <1>0. /\ TypeOK /\ pictures <= offers /\ Workers /\ Opened /\ Earlier
        /\ Retiring /\ Ending /\ WithinLimit
    BY DEF IInv
  <1>1. /\ part' = part /\ retired' = retired /\ headers' = headers
        /\ retire_done' = retire_done /\ retire_error' = retire_error
        /\ offers' = offers /\ pictures' = pictures /\ result' = result
    OBVIOUS
  <1>2. file \in [Parts -> FileState] /\ part \in Parts
    BY <1>0 DEF TypeOK
  <1>3. /\ file' \in [Parts -> FileState] /\ file'[part] = g
        /\ \A q \in Parts : q # part => file'[q] = file[q]
    BY <1>2, Replaced
  <1>4. error' \in BOOLEAN /\ pc' \in FramePC
    BY <1>0, Zenon DEF TypeOK
  <1>5. TypeOK'
    BY <1>0, <1>1, <1>3, <1>4, Zenon DEF TypeOK
  <1>6. Workers'
    BY <1>0, <1>3, Zenon DEF Workers
  <1>7. Opened'
    BY <1>0, <1>1, <1>2, <1>3, PartsInt DEF Opened
  <1>8. ASSUME NEW q \in Parts, q < part, q # retired PROVE Settled(q)'
    <2>1. q # part
      BY <1>2, <1>8, PartsInt
    <2>2. file'[q] = file[q] /\ Settled(q)
      BY <1>0, <1>3, <1>8, <2>1 DEF Earlier
    <2>3. pc # "done"
      OBVIOUS
    <2>4. error => error'
      BY Zenon
    <2> QED
      BY <2>2, <2>3, <2>4 DEF Settled, CloseFails
  <1>9. Earlier'
    BY <1>1, <1>8, Zenon DEF Earlier
  <1>10. Retiring'
    <2>1. retired # 0 => retired \in Parts /\ retired # part
      BY <1>0, <1>2, PartsInt, Mp4RecorderAssumption DEF TypeOK, Retiring, Parts
    <2>2. retired # 0 => file'[retired] = file[retired]
      BY <1>3, <2>1
    <2>3. Retiring
      BY <1>0
    <2> QED
      BY <1>1, <2>2, <2>3 DEF Retiring, CloseFails
  <1>11. Ending'
    BY <1>0, <1>1 DEF Ending
  <1>12. WithinLimit'
    BY <1>0, <1>3, Zenon DEF WithinLimit
  <1> QED
    BY <1>0, <1>1, <1>3, <1>5, <1>6, <1>7, <1>9, <1>10, <1>11, <1>12

LEMMA WriteFrameInv == ASSUME IInv, WriteFrame PROVE IInv'
PROOF
  <1> DEFINE f == file[part]
             c == [f EXCEPT !.have = f.have \cup unit.hdr]
  <1>0. /\ TypeOK /\ Workers /\ Opened /\ Writing /\ Clean /\ Room /\ WithinLimit /\ Flushed
    BY DEF IInv
  <1>1. /\ pc = "write" /\ ~f.sync_error /\ part \in Parts
        /\ UNCHANGED <<part, retired, retire_done, retire_error, headers,
                       offers, pictures, result>>
    BY <1>0 DEF WriteFrame, TypeOK
  <1>2. /\ f \in FileState /\ WorkerOrder(f) /\ f.closing = "no" /\ f.exists /\ Covered(f)
        /\ f.bytes <= HardLimit /\ Bound(unit.length) <= HardLimit - f.bytes
    <2>1. part <= part
      BY <1>1, PartsInt
    <2>2. f \in FileState /\ WorkerOrder(f) /\ f.closing = "no" /\ f.exists
      BY <1>0, <1>1, <2>1 DEF TypeOK, Workers, Writing, Opened
    <2>3. Covered(f)
      BY <1>0, <1>1 DEF Flushed, Clean
    <2> QED
      BY <1>0, <1>1, <2>2, <2>3 DEF Room, WithinLimit
  <1>3. \A q \in Parts : q # part => Covered(file[q])
    BY <1>0 DEF Flushed
  <1>4. /\ unit.length \in Nat /\ unit.hdr \in SUBSET ParameterSets
        /\ Bound(unit.length) \in Nat /\ pictures \in Nat
    BY <1>0, UnitType, Mp4RecorderAssumption DEF TypeOK
  <1>5. /\ "idle" \in FramePC \ {"reap", "done"} /\ "mark" \in FramePC \ {"reap", "done"}
    BY FrameNames
  <1>6. NoUnit \in Kinds \cup {NoUnit}
    OBVIOUS
  <1>7. CASE Stored(f)
    <2>1. PICK size \in unit.length .. Bound(unit.length) :
            /\ file' = [file EXCEPT ![part] =
                          [c EXCEPT !.samples = Append(c.samples, pictures),
                                    !.idrFirst = IF c.samples = <<>> THEN unit.idr
                                                                     ELSE c.idrFirst,
                                    !.bytes = c.bytes + size]]
            /\ \/ pc' = "mark" /\ unit' = NoUnit /\ error' = error
               \/ pc' = "idle" /\ unit' = NoUnit /\ error' = TRUE
      BY <1>7 DEF WriteFrame, FailWrite
    <2> DEFINE g == [c EXCEPT !.samples = Append(c.samples, pictures),
                              !.idrFirst = IF c.samples = <<>> THEN unit.idr ELSE c.idrFirst,
                              !.bytes = c.bytes + size]
    <2>2. file' = [file EXCEPT ![part] = g]
      BY <2>1
    <2>3. unit.idr \in BOOLEAN
      BY <1>0, UnitType
    <2> HIDE DEF f
    <2>4. /\ c \in FileState /\ c.samples = f.samples /\ c.bytes = f.bytes
          /\ c.closing = "no" /\ c.exists = f.exists /\ WorkerOrder(c)
          /\ c.sync_error = f.sync_error
      BY <1>2, <1>4 DEF FileState, WorkerOrder
    <2> HIDE DEF c
    <2>5. size \in Nat /\ c.bytes + size \in Nat /\ c.bytes + size <= HardLimit
      BY <1>2, <1>4, <2>4, Mp4RecorderAssumption DEF FileState
    <2>6. /\ Append(c.samples, pictures) \in Seq(Nat)
          /\ Len(Append(c.samples, pictures)) = Len(c.samples) + 1
          /\ Len(c.samples) \in Nat
      BY <1>4, <2>4 DEF FileState
    <2>7. /\ g \in FileState
          /\ g.samples = Append(c.samples, pictures) /\ g.bytes = c.bytes + size
          /\ g.closing = c.closing /\ g.exists = c.exists /\ g.stopping = c.stopping
          /\ g.last = c.last /\ g.worker = c.worker /\ g.failed = c.failed
          /\ g.sync_error = c.sync_error /\ g.durable = c.durable /\ g.named = c.named
          /\ g.flushing = c.flushing
      BY <2>3, <2>4, <2>5, <2>6 DEF FileState
    <2> HIDE DEF g
    <2>8. WorkerOrder(g)
      <3>1. ~c.stopping /\ ~c.last
        BY <2>4 DEF WorkerOrder
      <3>2. c.worker # "exit"
        BY <1>1, <1>2, <2>4, <3>1 DEF WorkerOrder, f
      <3> QED
        BY <2>4, <2>6, <2>7, <3>1, <3>2 DEF WorkerOrder, FileState
    <2>9. g.exists /\ g.bytes <= HardLimit /\ g.closing = "no"
      BY <1>2, <2>4, <2>5, <2>7
    <2>10. /\ error' = error \/ error' = TRUE
           /\ pc' \in FramePC \ {"reap", "done"} /\ unit' \in Kinds \cup {NoUnit}
      BY <1>5, <1>6, <2>1, Zenon
    <2>11. /\ TypeOK' /\ (pictures <= offers)' /\ Workers' /\ Opened' /\ Earlier'
           /\ Retiring' /\ Ending' /\ WithinLimit'
           /\ file'[part'] = g
           /\ \A q \in Parts : q # part => file'[q] = file[q]
      BY <1>1, <2>2, <2>7, <2>8, <2>9, <2>10, CurrentPart
    <2>12. Writing'
      BY <2>9, <2>11 DEF Writing
    <2>13. Clean' /\ Room' /\ (pc' = "mark" \/ error')
      BY <1>0, <1>1, <2>1 DEF Clean, Room
    <2>14. Flushed'
      <3>1. part' = part
        BY <1>1
      <3> QED
        BY <1>3, <2>11, <2>13, <3>1, Zenon DEF Flushed
    <2> QED
      BY <2>11, <2>12, <2>13, <2>14 DEF IInv
  <1>8. CASE ~Stored(f)
    <2>1. /\ file' = [file EXCEPT ![part] = c]
          /\ pc' = "idle" /\ unit' = NoUnit /\ error' = error
      BY <1>8 DEF WriteFrame
    <2> HIDE DEF f
    <2>2. /\ c \in FileState /\ c.bytes = f.bytes /\ c.closing = "no" /\ c.exists
          /\ WorkerOrder(c) /\ Covered(c)
      BY <1>2, <1>4 DEF FileState, WorkerOrder, Covered
    <2> HIDE DEF c
    <2>3. /\ TypeOK' /\ (pictures <= offers)' /\ Workers' /\ Opened' /\ Earlier'
          /\ Retiring' /\ Ending' /\ WithinLimit'
          /\ file'[part'] = c
          /\ \A q \in Parts : q # part => file'[q] = file[q]
      BY <1>1, <1>2, <1>5, <1>6, <2>1, <2>2, CurrentPart
    <2>4. Writing' /\ Clean' /\ Room'
      BY <2>1, <2>2, <2>3 DEF Writing, Clean, Room
    <2>5. Flushed'
      <3>1. part' = part
        BY <1>1
      <3> QED
        BY <1>3, <2>2, <2>3, <3>1, Zenon DEF Flushed
    <2> QED
      BY <2>3, <2>4, <2>5 DEF IInv
  <1> QED
    BY <1>7, <1>8

LEMMA MarkDirtyInv == ASSUME IInv, MarkDirty PROVE IInv'
PROOF
  <1> DEFINE f == file[part]
             c == [f EXCEPT !.dirty = TRUE]
             g == IF f.dirty THEN f ELSE Signalled(c)
  <1>0. /\ TypeOK /\ Workers /\ Opened /\ Writing /\ Clean /\ WithinLimit /\ Flushed
    BY DEF IInv
  <1>1. /\ pc = "mark" /\ part \in Parts
        /\ UNCHANGED <<part, retired, retire_done, retire_error, headers,
                       offers, pictures, result>>
        /\ pc' = "idle" /\ unit' = unit /\ error' = error
    BY <1>0 DEF MarkDirty, TypeOK
  <1>2. file' = [file EXCEPT ![part] = g]
    BY DEF MarkDirty
  <1>3. /\ f \in FileState /\ WorkerOrder(f) /\ f.closing = "no" /\ f.exists
        /\ f.bytes <= HardLimit
    <2>1. part <= part
      BY <1>1, PartsInt
    <2> QED
      BY <1>0, <1>1, <2>1 DEF TypeOK, Workers, Writing, Opened, WithinLimit
  <1>4. \A q \in Parts : q # part => Covered(file[q])
    BY <1>0 DEF Flushed
  <1> HIDE DEF f
  <1>5. /\ c \in FileState /\ WorkerOrder(c) /\ Covered(c) /\ c.exists
        /\ c.bytes = f.bytes /\ c.closing = "no"
    BY <1>3 DEF FileState, WorkerOrder, Covered
  <1> HIDE DEF c
  <1>6. /\ g \in FileState /\ WorkerOrder(g) /\ Covered(g) /\ g.exists
        /\ g.bytes <= HardLimit /\ g.closing = "no"
    <2>1. CASE f.dirty
      BY <1>3, <2>1 DEF Covered
    <2>2. CASE ~f.dirty
      BY <1>3, <1>5, <2>2, SignalledSound
    <2> QED
      BY <2>1, <2>2
  <1> HIDE DEF g
  <1>7. pc' \in FramePC \ {"reap", "done"} /\ unit' \in Kinds \cup {NoUnit}
    BY <1>0, <1>1, FrameNames DEF TypeOK
  <1>8. /\ TypeOK' /\ (pictures <= offers)' /\ Workers' /\ Opened' /\ Earlier'
        /\ Retiring' /\ Ending' /\ WithinLimit'
        /\ file'[part'] = g
        /\ \A q \in Parts : q # part => file'[q] = file[q]
    BY <1>1, <1>2, <1>6, <1>7, CurrentPart
  <1>9. Writing' /\ Clean' /\ Room'
    BY <1>1, <1>6, <1>8 DEF Writing, Clean, Room
  <1>10. Flushed'
    <2>1. part' = part
      BY <1>1
    <2> QED
      BY <1>4, <1>6, <1>8, <2>1, Zenon DEF Flushed
  <1> QED
    BY <1>8, <1>9, <1>10 DEF IInv

-----------------------------------------------------------------------------
(* The end of a recording. *)

LEMMA CloseBeginInv == ASSUME IInv, CloseBegin PROVE IInv'
PROOF
  <1> DEFINE f == file[part]
             g == [f EXCEPT !.closing = "stop"]
  <1>0. /\ TypeOK /\ Workers /\ Opened /\ Writing /\ Clean /\ WithinLimit /\ Flushed
    BY DEF IInv
  <1>1. /\ pc = "idle" /\ part \in Parts
        /\ UNCHANGED <<part, retired, retire_done, retire_error, headers,
                       offers, pictures, result>>
        /\ pc' = "close" /\ unit' = unit /\ error' = error
    BY <1>0 DEF CloseBegin, TypeOK
  <1>2. file' = [file EXCEPT ![part] = g]
    BY DEF CloseBegin
  <1>3. /\ f \in FileState /\ WorkerOrder(f) /\ f.closing = "no" /\ f.exists
        /\ f.bytes <= HardLimit /\ (Covered(f) \/ error)
    <2>1. part <= part
      BY <1>1, PartsInt
    <2>2. f \in FileState /\ WorkerOrder(f) /\ f.closing = "no" /\ f.exists
          /\ f.bytes <= HardLimit
      BY <1>0, <1>1, <2>1 DEF TypeOK, Workers, Writing, Opened, WithinLimit
    <2>3. Covered(f) \/ error
      BY <1>0, <1>1 DEF Flushed
    <2> QED
      BY <2>2, <2>3
  <1>4. \A q \in Parts : q # part => Covered(file[q])
    BY <1>0 DEF Flushed
  <1> HIDE DEF f
  <1>5. /\ g \in FileState /\ WorkerOrder(g) /\ g.exists
        /\ g.bytes <= HardLimit /\ (Covered(f) => Covered(g))
    BY <1>3, CloseNames DEF FileState, WorkerOrder, Covered
  <1> HIDE DEF g
  <1>6. pc' \in FramePC \ {"reap", "done"} /\ unit' \in Kinds \cup {NoUnit}
    BY <1>0, <1>1, FrameNames DEF TypeOK
  <1>7. /\ TypeOK' /\ (pictures <= offers)' /\ Workers' /\ Opened' /\ Earlier'
        /\ Retiring' /\ Ending' /\ WithinLimit'
        /\ file'[part'] = g
        /\ \A q \in Parts : q # part => file'[q] = file[q]
    BY <1>1, <1>2, <1>5, <1>6, CurrentPart
  <1>8. Writing' /\ Clean' /\ Room'
    BY <1>1 DEF Writing, Clean, Room
  <1>9. Flushed'
    <2>1. part' = part /\ error' = error
      BY <1>1
    <2> QED
      BY <1>3, <1>4, <1>5, <1>7, <2>1, Zenon DEF Flushed
  <1> QED
    BY <1>7, <1>8, <1>9 DEF IInv

LEMMA CloseFileInv == ASSUME IInv, CloseFile PROVE IInv'
PROOF
  <1>0. /\ TypeOK /\ pictures <= offers /\ Workers /\ Opened /\ Earlier
        /\ Retiring /\ Ending /\ WithinLimit /\ Flushed
    BY DEF IInv
  <1>1. /\ file' = file /\ part' = part /\ retired' = retired /\ headers' = headers
        /\ retire_done' = retire_done /\ retire_error' = retire_error /\ unit' = unit
        /\ offers' = offers /\ pictures' = pictures /\ result' = result
    BY DEF CloseFile
  <1>2. pc = "close" /\ pc' = "reap" /\ file[part].closing = "closed"
    BY DEF CloseFile
  <1>3. error' = (error \/ CloseFails(file[part]))
    BY DEF CloseFile
  <1>4. error' \in BOOLEAN /\ (error => error') /\ (CloseFails(file[part]) => error')
    BY <1>3, Zenon
  <1>5. TypeOK'
    BY <1>0, <1>1, <1>2, <1>4, FrameNames, Zenon DEF TypeOK
  <1>6. Workers' /\ Opened' /\ WithinLimit'
    BY <1>0, <1>1 DEF Workers, Opened, WithinLimit
  <1>7. Writing' /\ Clean' /\ Room'
    BY <1>2 DEF Writing, Clean, Room
  <1>8. ASSUME NEW q \in Parts, Settled(q) PROVE Settled(q)'
    BY <1>1, <1>2, <1>4, <1>8 DEF Settled, CloseFails
  <1>9. Earlier'
    BY <1>0, <1>1, <1>8, Zenon DEF Earlier
  <1>10. Retiring'
    <2>1. Retiring
      BY <1>0
    <2> QED
      BY <1>1, <2>1 DEF Retiring, CloseFails
  <1>11. Ending'
    <2>1. Settled(part)'
      BY <1>1, <1>2, <1>4 DEF Settled, CloseFails
    <2> QED
      BY <1>0, <1>1, <1>2, <2>1 DEF Ending
  <1>12. Flushed'
    BY <1>0, <1>1, <1>2, <1>4 DEF Flushed
  <1> QED
    BY <1>0, <1>1, <1>5, <1>6, <1>7, <1>9, <1>10, <1>11, <1>12 DEF IInv

LEMMA CloseReapInv == ASSUME IInv, CloseReap PROVE IInv'
PROOF
  <1>0. /\ TypeOK /\ pictures <= offers /\ Workers /\ Opened /\ Earlier
        /\ Retiring /\ Ending /\ WithinLimit /\ Flushed
    BY DEF IInv
  <1>1. /\ file' = file /\ part' = part /\ headers' = headers
        /\ retire_done' = retire_done /\ retire_error' = retire_error /\ unit' = unit
        /\ offers' = offers /\ pictures' = pictures /\ error' = error
    BY DEF CloseReap
  <1>2. pc = "reap" /\ pc' = "done" /\ retired' = 0
    BY DEF CloseReap
  <1>3. /\ retired # 0 => retire_done
        /\ result' \in {"ok", "failed"}
        /\ result' = "ok" => ~error /\ (retired # 0 => ~retire_error)
    BY DEF CloseReap
  <1>4. 0 \in 0 .. MaxParts /\ result' \in {"none", "ok", "failed"}
    BY <1>3, Mp4RecorderAssumption
  <1>5. TypeOK'
    BY <1>0, <1>1, <1>2, <1>4, FrameNames, Zenon DEF TypeOK
  <1>6. Workers' /\ Opened' /\ WithinLimit'
    BY <1>0, <1>1 DEF Workers, Opened, WithinLimit
  <1>7. Writing' /\ Clean' /\ Room' /\ Retiring'
    BY <1>2 DEF Writing, Clean, Room, Retiring
  <1>8. ASSUME NEW q \in Parts, q <= part
        PROVE  file[q].closing = "closed" /\ (result' = "ok" => ~CloseFails(file[q]))
    <2>1. CASE q = part
      BY <1>0, <1>2, <1>3, <2>1 DEF Ending, Settled
    <2>2. CASE q # part /\ q = retired
      <3>1. retired # 0
        BY <2>2, PartsInt
      <3> QED
        BY <1>0, <1>3, <2>2, <3>1 DEF Retiring
    <2>3. CASE q # part /\ q # retired
      <3>1. q < part
        BY <1>0, <1>8, <2>3, PartsInt DEF TypeOK
      <3> QED
        BY <1>0, <1>2, <1>3, <2>3, <3>1 DEF Earlier, Settled
    <2> QED
      BY <2>1, <2>2, <2>3
  <1>9. \A q \in Parts : q <= part => Settled(q)'
    BY <1>1, <1>2, <1>8 DEF Settled
  <1>10. part \in Parts /\ \A q \in Parts : q < part => q <= part
    BY <1>0, PartsInt DEF TypeOK
  <1>11. Earlier'
    BY <1>1, <1>9, <1>10, Zenon DEF Earlier
  <1>12. Ending'
    <2>1. part <= part
      BY <1>10, PartsInt
    <2>2. Settled(part)'
      BY <1>1, <1>2, <1>8, <1>10, <2>1 DEF Settled
    <2>3. result' = "ok" => \A q \in Parts : q <= part =>
             file'[q].closing = "closed" /\ ~CloseFails(file'[q])
      BY <1>1, <1>8
    <2> QED
      BY <1>1, <1>2, <2>2, <2>3 DEF Ending, Settled
  <1>13. Flushed'
    BY <1>0, <1>1, <1>2 DEF Flushed
  <1> QED
    BY <1>0, <1>1, <1>5, <1>6, <1>7, <1>11, <1>12, <1>13 DEF IInv

LEMMA RetireFileInv == ASSUME IInv, RetireFile PROVE IInv'
PROOF
  <1>0. /\ TypeOK /\ pictures <= offers /\ Workers /\ Opened /\ Writing /\ Earlier
        /\ Retiring /\ Ending /\ Clean /\ Room /\ WithinLimit /\ Flushed
    BY DEF IInv
  <1>1. /\ file' = file /\ part' = part /\ retired' = retired /\ headers' = headers
        /\ error' = error /\ unit' = unit /\ pc' = pc
        /\ offers' = offers /\ pictures' = pictures /\ result' = result
    BY DEF RetireFile
  <1>2. /\ retired # 0 /\ file[retired].closing = "closed" /\ retire_done' = TRUE
        /\ retire_error' = CloseFails(file[retired])
    BY DEF RetireFile
  <1>3. retire_error' \in BOOLEAN
    BY <1>2, Zenon DEF CloseFails
  <1>4. TypeOK'
    BY <1>0, <1>1, <1>2, <1>3, Zenon DEF TypeOK
  <1>5. Workers' /\ Opened' /\ Writing' /\ WithinLimit' /\ Clean' /\ Room'
    BY <1>0, <1>1 DEF Workers, Opened, Writing, WithinLimit, Clean, Room, Bound
  <1>6. Earlier' /\ Ending'
    BY <1>0, <1>1 DEF Earlier, Ending, Settled, CloseFails
  <1>7. Retiring'
    <2>1. retired < part
      BY <1>0, <1>2 DEF Retiring
    <2>2. CloseFails(file[retired]) => retire_error'
      BY <1>2, Zenon
    <2> QED
      BY <1>1, <1>2, <2>1, <2>2 DEF Retiring
  <1>8. Flushed'
    BY <1>0, <1>1 DEF Flushed
  <1> QED
    BY <1>0, <1>1, <1>4, <1>5, <1>6, <1>7, <1>8 DEF IInv

-----------------------------------------------------------------------------
LEMMA InitIInv == Init => IInv
PROOF
  <1> SUFFICES ASSUME Init PROVE IInv
    OBVIOUS
  <1>1. /\ OpenFile({}) \in FileState /\ WorkerOrder(OpenFile({})) /\ Covered(OpenFile({}))
        /\ OpenFile({}).exists /\ OpenFile({}).closing = "no" /\ OpenFile({}).bytes = 0
    BY OpenFileSound
  <1>2. /\ part = 1 /\ retired = 0 /\ retire_done = FALSE /\ retire_error = FALSE
        /\ error = FALSE /\ headers = {} /\ pc = "idle" /\ unit = NoUnit
        /\ offers = 0 /\ pictures = 0 /\ result = "none"
    BY DEF Init
  <1>3. /\ file \in [Parts -> FileState] /\ file[1] = OpenFile({})
        /\ \A p \in Parts : p # 1 => file[p] = NoFile
    BY <1>1, NoFileSound, PartsInt DEF Init
  <1>4. TypeOK
    <2>1. 0 \in 0 .. MaxParts /\ 0 \in 0 .. MaxOffers /\ 1 \in Parts
      BY PartsInt, Mp4RecorderAssumption
    <2> QED
      BY <1>2, <1>3, <2>1, FrameNames, Zenon DEF TypeOK
  <1>5. Workers
    BY <1>1, <1>3, NoFileSound, Zenon DEF Workers
  <1>6. Opened
    <2>1. \A p \in Parts : p <= part <=> p = 1
      BY <1>2, PartsInt
    <2> QED
      BY <1>1, <1>3, <2>1, Zenon DEF Opened
  <1>7. Writing /\ Earlier /\ Retiring /\ Ending /\ Clean /\ Room
    BY <1>1, <1>2, <1>3, PartsInt DEF Writing, Earlier, Retiring, Ending, Clean, Room
  <1>8. WithinLimit
    BY <1>1, <1>3, NoFileSound, Mp4RecorderAssumption DEF WithinLimit
  <1>9. Flushed
    BY <1>1, <1>3, NoFileSound, Zenon DEF Flushed
  <1> QED
    BY <1>2, <1>4, <1>5, <1>6, <1>7, <1>8, <1>9 DEF IInv

LEMMA StutterIInv == ASSUME IInv, UNCHANGED vars PROVE IInv'
  BY Zenon DEF IInv, vars, TypeOK, Workers, Opened, Writing, Earlier, Settled, Retiring,
               Ending, Clean, Room, WithinLimit, Flushed, CloseFails, Bound

LEMMA NextIInv == IInv /\ [Next]_vars => IInv'
PROOF
  <1> SUFFICES ASSUME IInv, [Next]_vars PROVE IInv'
    OBVIOUS
  <1>0. file \in [Parts -> FileState] /\ \A p \in Parts : WorkerOrder(file[p])
    BY DEF IInv, TypeOK, Workers
  <1>1. CASE FrameThread
    <2>1. ASSUME NEW u \in Kinds, WriteReap(u) PROVE IInv'
      BY <2>1, WriteReapInv
    <2>2. CASE WriteRoll
      BY <2>2, WriteRollInv
    <2>3. CASE WriteRollFails
      BY <2>3, FailsInv DEF WriteRollFails
    <2>4. CASE WriteFrame
      BY <2>4, WriteFrameInv
    <2>5. CASE WriteFrameFails
      BY <2>5, FailsInv DEF WriteFrameFails
    <2>6. CASE MarkDirty
      BY <2>6, MarkDirtyInv
    <2> QED
      BY <1>1, <2>1, <2>2, <2>3, <2>4, <2>5, <2>6 DEF FrameThread
  <1>2. CASE CloseBegin
    BY <1>2, CloseBeginInv
  <1>3. CASE Closing
    <2>1. ASSUME NEW p \in Parts, FileCloseStop(p) \/ FileCloseJoin(p) PROVE IInv'
      <3>1. UNCHANGED frameVars
        BY <2>1 DEF FileCloseStop, FileCloseJoin
      <3>2. PICK g : file' = [file EXCEPT ![p] = g] /\ PartStep(file[p], g)
        BY <1>0, <2>1, CloserSteps
      <3> QED
        BY <3>1, <3>2, FileStep
    <2> QED
      BY <1>3, <2>1, CloseFileInv, CloseReapInv, RetireFileInv DEF Closing
  <1>4. ASSUME NEW p \in Parts, SyncWorker(p) \/ SyncWake(p) PROVE IInv'
    <2>1. UNCHANGED frameVars /\ (SyncStep(p) \/ SyncSpuriousWake(p))
      BY <1>4 DEF SyncWorker, SyncWake
    <2>2. PICK g : file' = [file EXCEPT ![p] = g] /\ WorkerStep(file[p], g)
      BY <1>0, <2>1, WorkerSteps
    <2>3. PartStep(file[p], g)
      BY <1>0, <2>2, WorkerIsPartStep
    <2> QED
      BY <2>1, <2>2, <2>3, FileStep
  <1>5. CASE UNCHANGED vars
    BY <1>5, StutterIInv
  <1> QED
    BY <1>1, <1>2, <1>3, <1>4, <1>5 DEF Next

LEMMA Invariance == Spec => []IInv
  BY InitIInv, NextIInv, PTL DEF Spec

\* The writer, its parts and their workers keep their types, for any number of
\* parts and access units.
THEOREM TypeCorrect == Spec => []TypeOK
PROOF
  <1>1. IInv => TypeOK
    BY DEF IInv
  <1> QED
    BY <1>1, Invariance, PTL

\* ca_mp4_close: success means that every picture of every part, those of parts
\* retired in the background included, and every part's name are on the card.
THEOREM ClosedIsDurable == Spec => []CloseDurable
PROOF
  <1>1. ASSUME IInv PROVE CloseDurable
    <2>1. ASSUME result = "ok", NEW p \in 1 .. part
          PROVE  /\ file[p].durable = Len(file[p].samples) /\ file[p].named
                 /\ file[p].closing = "closed" /\ ~CloseFails(file[p])
      <3>1. p \in Parts /\ p <= part
        BY <1>1, PartsInt, Mp4RecorderAssumption DEF IInv, TypeOK, Parts
      <3>2. file[p].closing = "closed" /\ ~CloseFails(file[p])
        BY <1>1, <2>1, <3>1 DEF IInv, Ending
      <3>3. WorkerOrder(file[p]) /\ file[p].exists
        BY <1>1, <3>1 DEF IInv, Workers, Opened
      <3> QED
        BY <3>2, <3>3 DEF WorkerOrder, CloseFails
    <2> QED
      BY <2>1 DEF CloseDurable
  <1> QED
    BY <1>1, Invariance, PTL

\* sync_recording and file_write_h264: clearing sync_dirty before a flush that
\* runs unlocked never hides a picture written meanwhile.
THEOREM NothingForgotten == Spec => []NoPictureForgotten
PROOF
  <1>1. ASSUME IInv PROVE NoPictureForgotten
    BY <1>1 DEF IInv, Flushed, Covered, NoPictureForgotten
  <1> QED
    BY <1>1, Invariance, PTL

\* ca_mp4_write_h264: what it reserves before a write keeps every part within
\* the limit of its filesystem.
THEOREM PartsWithinLimit == Spec => []WithinLimit
PROOF
  <1>1. IInv => WithinLimit
    BY DEF IInv
  <1> QED
    BY <1>1, Invariance, PTL

\* roll_file and reap_file: all earlier parts but the one being retired are
\* closed.
THEOREM OnlyOneRetired == Spec => []OneRetired
PROOF
  <1>1. ASSUME IInv PROVE OneRetired
    <2>1. ASSUME NEW p \in 1 .. part - 1, p # retired PROVE file[p].closing = "closed"
      <3>1. p \in Parts /\ p < part
        BY <1>1, PartsInt, Mp4RecorderAssumption DEF IInv, TypeOK, Parts
      <3> QED
        BY <1>1, <2>1, <3>1 DEF IInv, Earlier, Settled
    <2> QED
      BY <2>1 DEF OneRetired
  <1> QED
    BY <1>1, Invariance, PTL

-----------------------------------------------------------------------------
(* The pictures of all parts, in order. *)

LEMMA LeastNumber ==
    ASSUME NEW S, S \subseteq Nat, S # {}
    PROVE  \E n \in S : \A m \in S : n <= m
PROOF
  <1>1. PICK x \in S : \A y \in S : ~(<<y, x>> \in OpToRel(<, Nat))
    BY WFMin, NatLessThanWellFounded, Zenon
  <1>2. \A y \in S : ~(y < x)
    BY <1>1 DEF OpToRel
  <1>3. x \in Nat /\ \A y \in S : y \in Nat
    OBVIOUS
  <1> QED
    BY <1>2, <1>3

\* FlattenSeq of the first m sequences.
FlatUpTo(seqs, m, g) == g = [i \in 1 .. m |-> IF i = 1 THEN seqs[i] ELSE g[i - 1] \o seqs[i]]

LEMMA FlatExists ==
    ASSUME NEW seqs, NEW n \in Nat
    PROVE  \A m \in 1 .. n : \E g : FlatUpTo(seqs, m, g)
PROOF
  <1> DEFINE Bad == {m \in 1 .. n : ~\E g : FlatUpTo(seqs, m, g)}
  <1> SUFFICES ASSUME Bad # {} PROVE FALSE
    OBVIOUS
  <1>0. Bad \subseteq Nat
    OBVIOUS
  <1>1. PICK m \in Bad : \A k \in Bad : m <= k
    BY <1>0, LeastNumber
  <1>2. m \in Nat /\ 1 <= m /\ m <= n
    OBVIOUS
  <1>3. CASE m = 1
    <2> DEFINE g == [i \in 1 .. 1 |-> seqs[1]]
    <2>1. FlatUpTo(seqs, 1, g)
      BY DEF FlatUpTo
    <2> QED
      BY <1>3, <2>1
  <1>4. CASE m # 1
    <2>1. m - 1 \in 1 .. n /\ m - 1 \notin Bad
      BY <1>1, <1>2, <1>4
    <2>2. PICK g : FlatUpTo(seqs, m - 1, g)
      BY <2>1
    <2> DEFINE e == g[m - 1] \o seqs[m]
    <2> DEFINE h == [i \in 1 .. m |-> IF i = m THEN e ELSE g[i]]
    <2> HIDE DEF e
    <2>3. \A i \in 1 .. m - 1 : h[i] = g[i]
      <3>1. \A i \in 1 .. m - 1 : i \in 1 .. m /\ i # m
        BY <1>2
      <3> QED
        BY <3>1
    <2>4. h[m] = e
      <3>1. m \in 1 .. m
        BY <1>2
      <3> QED
        BY <3>1
    <2>5. \A i \in 1 .. m - 1 : g[i] = IF i = 1 THEN seqs[i] ELSE g[i - 1] \o seqs[i]
      BY <2>2, Zenon DEF FlatUpTo
    <2>6. h = [i \in 1 .. m |-> h[i]]
      OBVIOUS
    <2> HIDE DEF h
    <2>7. ASSUME NEW i \in 1 .. m
          PROVE  h[i] = IF i = 1 THEN seqs[i] ELSE h[i - 1] \o seqs[i]
      <3>1. CASE i = m
        <4>1. i # 1 /\ i - 1 \in 1 .. m - 1
          BY <1>2, <1>4, <3>1
        <4> QED
          BY <2>3, <2>4, <3>1, <4>1 DEF e
      <3>2. CASE i # m
        <4>1. i \in 1 .. m - 1 /\ (i # 1 => i - 1 \in 1 .. m - 1)
          BY <1>2, <3>2
        <4> QED
          BY <2>3, <2>5, <4>1
      <3> QED
        BY <3>1, <3>2
    <2>8. FlatUpTo(seqs, m, h)
      BY <2>6, <2>7, Zenon DEF FlatUpTo
    <2> QED
      BY <2>8
  <1> QED
    BY <1>3, <1>4

LEMMA FlatIs ==
    ASSUME NEW seqs, Len(seqs) \in Nat, Len(seqs) # 0
    PROVE  \E g : FlatUpTo(seqs, Len(seqs), g) /\ FlattenSeq(seqs) = g[Len(seqs)]
PROOF
  <1> DEFINE f == CHOOSE g : g = [i \in 1 .. Len(seqs) |-> IF i = 1 THEN seqs[i] ELSE g[i - 1] \o seqs[i]]
  <1>1. FlattenSeq(seqs) = f[Len(seqs)]
    BY DEF FlattenSeq
  <1>2. \A g : FlatUpTo(seqs, Len(seqs), g) <=> g = [i \in 1 .. Len(seqs) |-> IF i = 1 THEN seqs[i] ELSE g[i - 1] \o seqs[i]]
    BY Zenon DEF FlatUpTo
  <1>3. Len(seqs) \in 1 .. Len(seqs)
    OBVIOUS
  <1>4. \E g : FlatUpTo(seqs, Len(seqs), g)
    BY <1>3, FlatExists
  <1>5. FlatUpTo(seqs, Len(seqs), f)
    BY <1>2, <1>4, Zenon
  <1> QED
    BY <1>1, <1>5

\* Consecutive numbers.
Run(s) == \A i \in 1 .. Len(s) - 1 : s[i + 1] = s[i] + 1

LEMMA RunsJoin ==
    ASSUME NEW y \in Seq(Nat), NEW s \in Seq(Nat), Run(y), Run(s), y # <<>>, s # <<>>, s[1] = Last(y) + 1
    PROVE  LET z == y \o s IN z \in Seq(Nat) /\ Run(z) /\ z # <<>> /\ Last(z) = Last(s)
PROOF
  <1> DEFINE z == y \o s  k == Len(y)  m == Len(s)
  <1>1. /\ z \in Seq(Nat) /\ k \in Nat \ {0} /\ m \in Nat \ {0} /\ Len(z) = k + m
        /\ \A i \in 1 .. k : z[i] = y[i]
        /\ \A i \in 1 .. m : z[k + i] = s[i]
    OBVIOUS
  <1>2. Last(y) = y[k] /\ Last(s) = s[m] /\ Last(z) = z[k + m]
    BY <1>1 DEF Last
  <1>3. /\ \A i \in 1 .. k - 1 : y[i + 1] = y[i] + 1
        /\ \A i \in 1 .. m - 1 : s[i + 1] = s[i] + 1
    BY DEF Run
  <1> HIDE DEF z, k, m
  <1>4. Last(z) = Last(s) /\ z # <<>>
    <2>1. m \in 1 .. m
      BY <1>1
    <2> QED
      BY <1>1, <1>2, <2>1
  <1>5. ASSUME NEW i \in 1 .. k + m - 1
        PROVE  z[i + 1] = z[i] + 1
    <2>1. CASE i < k
      <3>1. i \in 1 .. k - 1 /\ i \in 1 .. k /\ i + 1 \in 1 .. k
        BY <1>1, <2>1
      <3>2. z[i] = y[i] /\ z[i + 1] = y[i + 1] /\ y[i + 1] = y[i] + 1
        BY <1>1, <1>3, <3>1
      <3> QED
        BY <3>2
    <2>2. CASE i = k
      <3>1. 1 \in 1 .. m /\ k \in 1 .. k
        BY <1>1
      <3>2. z[k + 1] = s[1] /\ z[k] = y[k]
        BY <1>1, <3>1
      <3> QED
        BY <1>2, <2>2, <3>2
    <2>3. CASE i > k
      <3>1. i - k \in 1 .. m - 1 /\ i - k \in 1 .. m /\ i - k + 1 \in 1 .. m /\ k + (i - k) = i /\ k + (i - k + 1) = i + 1
        BY <1>1, <2>3
      <3>2. z[k + (i - k)] = s[i - k] /\ z[k + (i - k + 1)] = s[i - k + 1] /\ s[i - k + 1] = s[i - k] + 1
        BY <1>1, <1>3, <3>1
      <3> QED
        BY <3>1, <3>2
    <2> QED
      BY <1>1, <2>1, <2>2, <2>3
  <1>6. Run(z)
    BY <1>1, <1>5 DEF Run
  <1> QED
    BY <1>1, <1>4, <1>6 DEF z

\* The last of the parts that hold a picture ends with the last picture.
EndsWith(y, seqs, m) ==
    \E i \in 1 .. m : seqs[i] # <<>> /\ Last(y) = Last(seqs[i]) /\ \A j \in i + 1 .. m : seqs[j] = <<>>
Joins(y, seqs, m) ==
    /\ y \in Seq(Nat) /\ Run(y)
    /\ seqs[m] # <<>> => y # <<>> /\ Last(y) = Last(seqs[m])
    /\ y # <<>> => EndsWith(y, seqs, m)
\* A part that holds pictures goes on where the one before it ends.
GoesOn(seqs, n) ==
    \A i \in 1 .. n - 1 : seqs[i + 1] # <<>> => seqs[i] # <<>> /\ seqs[i + 1][1] = Last(seqs[i]) + 1

LEMMA JoinsStep ==
    ASSUME NEW n \in Nat, NEW seqs, \A i \in 1 .. n : seqs[i] \in Seq(Nat) /\ Run(seqs[i]), GoesOn(seqs, n),
           NEW m \in 1 .. n - 1, NEW y, Joins(y, seqs, m)
    PROVE  Joins(y \o seqs[m + 1], seqs, m + 1)
PROOF
  <1> DEFINE s == seqs[m + 1]  z == y \o s
  <1>1. m + 1 \in 1 .. n /\ m \in 1 .. n /\ m \in Nat
    OBVIOUS
  <1>2. s \in Seq(Nat) /\ Run(s) /\ y \in Seq(Nat) /\ Run(y)
    BY <1>1 DEF Joins
  <1>3. CASE s = <<>>
    <2>1. z = y
      BY <1>2, <1>3
    <2>2. y # <<>> => EndsWith(y, seqs, m + 1)
      <3> SUFFICES ASSUME y # <<>> PROVE EndsWith(y, seqs, m + 1)
        OBVIOUS
      <3>1. PICK i \in 1 .. m : seqs[i] # <<>> /\ Last(y) = Last(seqs[i]) /\ \A j \in i + 1 .. m : seqs[j] = <<>>
        BY DEF Joins, EndsWith
      <3>2. \A j \in i + 1 .. m + 1 : j = m + 1 \/ j \in i + 1 .. m
        BY <1>1
      <3>3. \A j \in i + 1 .. m + 1 : seqs[j] = <<>>
        BY <1>3, <3>1, <3>2
      <3>4. i \in 1 .. m + 1
        BY <1>1
      <3> QED
        BY <3>1, <3>3, <3>4 DEF EndsWith
    <2> QED
      BY <1>2, <1>3, <2>1, <2>2 DEF Joins
  <1>4. CASE s # <<>>
    <2>1. seqs[m] # <<>> /\ s[1] = Last(seqs[m]) + 1
      BY <1>4 DEF GoesOn
    <2>2. y # <<>> /\ Last(y) = Last(seqs[m])
      BY <2>1 DEF Joins
    <2> HIDE DEF s
    <2>3. z \in Seq(Nat) /\ Run(z) /\ z # <<>> /\ Last(z) = Last(s)
      BY <1>2, <1>4, <2>1, <2>2, RunsJoin
    <2> HIDE DEF z
    <2>4. \A j \in (m + 1) + 1 .. m + 1 : FALSE
      BY <1>1
    <2>5. m + 1 \in 1 .. m + 1
      BY <1>1
    <2>6. EndsWith(z, seqs, m + 1)
      BY <1>4, <2>3, <2>4, <2>5 DEF EndsWith, s
    <2>7. Joins(z, seqs, m + 1)
      BY <2>3, <2>6 DEF Joins, s
    <2> QED
      BY <2>7 DEF z, s
  <1> QED
    BY <1>3, <1>4

LEMMA FlattenedRuns ==
    ASSUME NEW n \in Nat \ {0}, NEW seqs, Len(seqs) = n,
           \A i \in 1 .. n : seqs[i] \in Seq(Nat) /\ Run(seqs[i]), GoesOn(seqs, n)
    PROVE  Joins(FlattenSeq(seqs), seqs, n)
PROOF
  <1>1. PICK g : FlatUpTo(seqs, n, g) /\ FlattenSeq(seqs) = g[n]
    BY FlatIs
  <1>2. \A i \in 1 .. n : g[i] = IF i = 1 THEN seqs[i] ELSE g[i - 1] \o seqs[i]
    BY <1>1, Zenon DEF FlatUpTo
  <1> DEFINE Bad == {m \in 1 .. n : ~Joins(g[m], seqs, m)}
  <1>3. Bad = {}
    <2> SUFFICES ASSUME Bad # {} PROVE FALSE
      OBVIOUS
    <2>0. Bad \subseteq Nat
      OBVIOUS
    <2>1. PICK m \in Bad : \A k \in Bad : m <= k
      BY <2>0, LeastNumber
    <2>2. m \in Nat /\ 1 <= m /\ m <= n
      OBVIOUS
    <2>3. CASE m = 1
      <3>1. 1 \in 1 .. n
        OBVIOUS
      <3>2. g[1] = seqs[1] /\ seqs[1] \in Seq(Nat) /\ Run(seqs[1])
        BY <1>2, <3>1
      <3>3. \A j \in 1 + 1 .. 1 : FALSE
        OBVIOUS
      <3>4. Joins(g[1], seqs, 1)
        BY <3>2, <3>3 DEF Joins, EndsWith
      <3> QED
        BY <2>3, <3>4
    <2>4. CASE m # 1
      <3>1. m - 1 \in 1 .. n /\ m - 1 \in 1 .. n - 1 /\ m - 1 \notin Bad /\ (m - 1) + 1 = m
        BY <2>1, <2>2, <2>4
      <3>2. Joins(g[m - 1], seqs, m - 1)
        BY <3>1
      <3>3. Joins(g[m - 1] \o seqs[(m - 1) + 1], seqs, (m - 1) + 1)
        BY <3>1, <3>2, JoinsStep
      <3>4. g[m] = g[m - 1] \o seqs[m]
        BY <1>2, <2>4
      <3> QED
        BY <3>1, <3>3, <3>4
    <2> QED
      BY <2>3, <2>4
  <1>4. n \in 1 .. n
    OBVIOUS
  <1> QED
    BY <1>1, <1>3, <1>4

-----------------------------------------------------------------------------
(* A recording without a gap. *)

Runs == \A p \in Parts : Run(file[p].samples)
\* Only the current part may be empty, and each goes on where the one before
\* it ended.
Joined ==
    \A p \in Parts : p < part =>
        /\ file[p].samples # <<>>
        /\ file[p + 1].samples # <<>> => file[p + 1].samples[1] = Last(file[p].samples) + 1
Started ==
    \A p \in Parts :
        /\ file[p].samples # <<>> => file[p].idrFirst /\ file[p].have = ParameterSets
        /\ file[p].bytes # 0 => file[p].samples # <<>>
\* The cache knows all that a part was ever given, so it can seed the next.
Cached == RollBytes > 0 => /\ \A p \in Parts : file[p].have \subseteq headers
                           /\ pc = "write" => unit.hdr \subseteq headers
\* The latest picture the recorder has finished with.
Finished == IF pc \in {"roll", "write"} /\ unit.pic THEN pictures - 1 ELSE pictures
\* An empty continuation is about to get the IDR it was opened for.
Latest ==
    ~error =>
        /\ file[part].samples # <<>> => Last(file[part].samples) = Finished
        /\ file[part].samples = <<>> /\ part > 1 =>
              /\ pc = "write" /\ unit.idr /\ unit.pic /\ file[part].have = ParameterSets
              /\ Last(file[part - 1].samples) = Finished
RunInv == Runs /\ Joined /\ Started /\ Cached /\ Latest

LEMMA InitRunInv == Init => RunInv
PROOF
  <1> SUFFICES ASSUME Init PROVE RunInv
    OBVIOUS
  <1>1. /\ file = [p \in Parts |-> IF p = 1 THEN OpenFile({}) ELSE NoFile]
        /\ part = 1 /\ pc = "idle" /\ headers = {}
    BY DEF Init
  <1>2. ASSUME NEW p \in Parts
        PROVE  file[p].samples = <<>> /\ file[p].bytes = 0 /\ file[p].have = {}
    BY <1>1 DEF OpenFile, NoFile
  <1>3. Run(<<>>)
    BY DEF Run
  <1>4. Runs /\ Started
    BY <1>2, <1>3 DEF Runs, Started
  <1>5. Joined
    BY <1>1, PartsInt DEF Joined
  <1>6. Cached
    BY <1>1, <1>2 DEF Cached
  <1>7. Latest
    BY <1>1, <1>2, PartsInt DEF Latest
  <1> QED
    BY <1>4, <1>5, <1>6, <1>7 DEF RunInv

\* What is recorded stays as it is.
Contents(f) == <<f.samples, f.idrFirst, f.have, f.bytes>>
Kept == part' = part /\ \A p \in Parts : Contents(file'[p]) = Contents(file[p])
KeptAll ==
    /\ part' = part
    /\ \A p \in Parts : /\ file'[p].samples = file[p].samples /\ file'[p].bytes = file[p].bytes
                        /\ file'[p].idrFirst = file[p].idrFirst /\ file'[p].have = file[p].have
LEMMA KeptIs == Kept => KeptAll
  BY DEF Kept, KeptAll, Contents

LEMMA KeptRuns ==
    ASSUME TypeOK, RunInv, Kept
    PROVE  Runs' /\ Joined' /\ Started'
PROOF
  <1>1. KeptAll /\ Runs /\ Joined /\ Started
    BY KeptIs DEF RunInv
  <1>2. part \in Parts
    BY DEF TypeOK
  <1>3. \A p \in Parts : p < part => p + 1 \in Parts
    BY <1>2, Mp4RecorderAssumption DEF Parts
  <1>4. part' = part /\ \A p \in Parts : file'[p].samples = file[p].samples
    BY <1>1 DEF KeptAll
  <1>5. Runs'
    BY <1>1, <1>4, Zenon DEF Runs
  <1>6. ASSUME NEW p \in Parts, p < part
        PROVE  /\ file'[p].samples # <<>>
               /\ file'[p + 1].samples # <<>> => file'[p + 1].samples[1] = Last(file'[p].samples) + 1
    BY <1>1, <1>3, <1>4, <1>6, Zenon DEF Joined
  <1>7. Joined'
    BY <1>4, <1>6, Zenon DEF Joined
  <1>8. Started'
    BY <1>1, Zenon DEF Started, KeptAll
  <1> QED
    BY <1>5, <1>7, <1>8

\* A step of the frame thread, or of those that close, which records nothing.
LEMMA QuietInv ==
    ASSUME TypeOK, RunInv, Kept, headers \subseteq headers',
           Cached => (RollBytes > 0 /\ pc' = "write" => unit'.hdr \subseteq headers'),
           error' \/ (~error /\ Finished' = Finished /\ (pc' = pc \/ pc # "write") /\ (pc = "write" => unit' = unit))
    PROVE  RunInv'
PROOF
  <1>1. KeptAll /\ Cached /\ Latest /\ part \in Parts
    BY KeptIs DEF RunInv, TypeOK
  <1>2. Runs' /\ Joined' /\ Started'
    BY KeptRuns
  <1>3. Cached'
    BY <1>1 DEF Cached, KeptAll
  <1>4. ASSUME error' PROVE Latest'
    BY <1>4, Zenon DEF Latest
  <1>5. ASSUME ~error, Finished' = Finished, pc' = pc \/ pc # "write", pc = "write" => unit' = unit PROVE Latest'
    <2>1. /\ file'[part].samples = file[part].samples /\ file'[part].have = file[part].have /\ part' = part
      BY <1>1 DEF KeptAll
    <2>2. part > 1 => part - 1 \in Parts
      BY <1>1, Mp4RecorderAssumption DEF Parts
    <2>3. part > 1 => file'[part - 1].samples = file[part - 1].samples
      BY <1>1, <2>2 DEF KeptAll
    <2>4. /\ file[part].samples # <<>> => Last(file[part].samples) = Finished
          /\ file[part].samples = <<>> /\ part > 1 =>
              /\ pc = "write" /\ unit.idr /\ unit.pic /\ file[part].have = ParameterSets
              /\ Last(file[part - 1].samples) = Finished
      BY <1>1, <1>5 DEF Latest
    <2>5. file'[part'].samples # <<>> => Last(file'[part'].samples) = Finished'
      BY <1>5, <2>1, <2>4
    <2>6. ASSUME file'[part'].samples = <<>>, part' > 1
          PROVE  /\ pc' = "write" /\ unit'.idr /\ unit'.pic /\ file'[part'].have = ParameterSets
                 /\ Last(file'[part' - 1].samples) = Finished'
      BY <1>5, <2>1, <2>3, <2>4, <2>6
    <2> QED
      BY <2>5, <2>6, Zenon DEF Latest
  <1> QED
    BY <1>2, <1>3, <1>4, <1>5 DEF RunInv

LEMMA OneKeeps ==
    ASSUME file \in [Parts -> FileState], NEW p \in Parts, NEW g, file' = [file EXCEPT ![p] = g],
           Contents(g) = Contents(file[p])
    PROVE  \A q \in Parts : Contents(file'[q]) = Contents(file[q])
  BY Zenon

LEMMA SignalKeeps == ASSUME NEW f \in FileState PROVE Contents(Signalled(f)) = Contents(f)
  BY DEF Signalled, Contents, FileState

LEMMA WorkersKeep ==
    ASSUME file \in [Parts -> FileState], NEW p \in Parts,
           SyncStep(p) \/ SyncSpuriousWake(p) \/ FileCloseStop(p) \/ FileCloseJoin(p)
    PROVE  \A q \in Parts : Contents(file'[q]) = Contents(file[q])
PROOF
  <1> DEFINE f == file[p]
  <1>0. f \in FileState
    OBVIOUS
  <1>1. ASSUME NEW w, file' = [file EXCEPT ![p].worker = w]
        PROVE  \A q \in Parts : Contents(file'[q]) = Contents(file[q])
    <2> DEFINE g == [f EXCEPT !.worker = w]
    <2>1. Contents(g) = Contents(f)
      BY <1>0 DEF Contents, FileState
    <2> QED
      BY <1>1, <2>1, OneKeeps
  <1>2. CASE SyncClockFails(p)
    <2> DEFINE g == [f EXCEPT !.sync_error = TRUE, !.worker = "exit"]
    <2>1. Contents(g) = Contents(f)
      BY <1>0 DEF Contents, FileState
    <2>2. file' = [file EXCEPT ![p] = g]
      BY <1>2 DEF SyncClockFails
    <2> QED
      BY <2>1, <2>2, OneKeeps
  <1>3. CASE SyncStart(p)
    <2> DEFINE g == [f EXCEPT !.last = f.stopping, !.dirty = FALSE, !.worker = "call"]
    <2>1. Contents(g) = Contents(f)
      BY <1>0 DEF Contents, FileState
    <2>2. file' = [file EXCEPT ![p] = g]
      BY <1>3 DEF SyncStart
    <2> QED
      BY <2>1, <2>2, OneKeeps
  <1>4. CASE SyncCall(p)
    <2> DEFINE g == [f EXCEPT !.flushing = Len(f.samples), !.worker = "data"]
    <2>1. Contents(g) = Contents(f)
      BY <1>0 DEF Contents, FileState
    <2>2. file' = [file EXCEPT ![p] = g]
      BY <1>4 DEF SyncCall
    <2> QED
      BY <2>1, <2>2, OneKeeps
  <1>5. CASE SyncData(p)
    <2> DEFINE w == IF f.named THEN "relock" ELSE "dir"
               g == [f EXCEPT !.durable = f.flushing, !.worker = w]
               h == [f EXCEPT !.failed = TRUE, !.worker = "relock"]
    <2>1. Contents(g) = Contents(f) /\ Contents(h) = Contents(f)
      <3> HIDE DEF w
      <3> QED
        BY <1>0 DEF Contents, FileState
    <2>2. file' = [file EXCEPT ![p] = g] \/ file' = [file EXCEPT ![p] = h]
      BY <1>5 DEF SyncData
    <2> QED
      BY <2>1, <2>2, OneKeeps
  <1>6. CASE SyncDirectory(p)
    <2> DEFINE g == [f EXCEPT !.named = TRUE, !.worker = "relock"]
               h == [f EXCEPT !.failed = TRUE, !.worker = "relock"]
    <2>1. Contents(g) = Contents(f) /\ Contents(h) = Contents(f)
      BY <1>0 DEF Contents, FileState
    <2>2. file' = [file EXCEPT ![p] = g] \/ file' = [file EXCEPT ![p] = h]
      BY <1>6 DEF SyncDirectory
    <2> QED
      BY <2>1, <2>2, OneKeeps
  <1>7. CASE SyncRelock(p)
    <2> DEFINE e == f.sync_error \/ f.failed
               w == IF f.failed \/ f.last THEN "exit" ELSE "test"
               g == [f EXCEPT !.synced_once = TRUE, !.sync_error = e, !.worker = w]
    <2>1. Contents(g) = Contents(f)
      <3> HIDE DEF e, w
      <3> QED
        BY <1>0 DEF Contents, FileState
    <2>2. file' = [file EXCEPT ![p] = g]
      BY <1>7 DEF SyncRelock
    <2> QED
      BY <2>1, <2>2, OneKeeps
  <1>8. CASE FileCloseStop(p)
    <2>1. PICK b \in BOOLEAN :
            file' = [file EXCEPT ![p] =
                       Signalled([file[p] EXCEPT !.mux_failed = b, !.stopping = TRUE, !.closing = "join"])]
      BY <1>8 DEF FileCloseStop
    <2> DEFINE c == [f EXCEPT !.mux_failed = b, !.stopping = TRUE, !.closing = "join"]
    <2>2. c \in FileState /\ Contents(c) = Contents(f)
      BY <1>0, CloseNames DEF Contents, FileState
    <2>3. Contents(Signalled(c)) = Contents(f)
      BY <2>2, SignalKeeps
    <2> QED
      BY <2>1, <2>3, OneKeeps
  <1>9. CASE FileCloseJoin(p)
    <2>1. PICK b \in BOOLEAN : file' = [file EXCEPT ![p].closing = "closed", ![p].mux_failed = @ \/ b]
      BY <1>9 DEF FileCloseJoin
    <2> DEFINE e == f.mux_failed \/ b
               g == [f EXCEPT !.closing = "closed", !.mux_failed = e]
    <2>2. Contents(g) = Contents(f)
      <3> HIDE DEF e
      <3> QED
        BY <1>0 DEF Contents, FileState
    <2>3. file' = [file EXCEPT ![p] = g]
      BY <2>1
    <2> QED
      BY <2>2, <2>3, OneKeeps
  <1>10. CASE SyncWait(p) \/ SyncInterval(p) \/ SyncTimeout(p) \/ SyncSpuriousWake(p)
    BY <1>1, <1>10 DEF SyncWait, SyncInterval, SyncTimeout, SyncSpuriousWake
  <1> QED
    BY <1>2, <1>3, <1>4, <1>5, <1>6, <1>7, <1>8, <1>9, <1>10 DEF SyncStep

LEMMA SameFileKept == file' = file /\ part' = part => Kept
  BY Zenon DEF Kept

LEMMA WriteReapRuns == ASSUME IInv, RunInv, NEW u \in Kinds, WriteReap(u) PROVE RunInv'
PROOF
  <1>1. TypeOK /\ pictures \in Nat
    BY Mp4RecorderAssumption DEF IInv, TypeOK
  <1>2. file' = file /\ part' = part /\ headers' = headers /\ pc = "idle" /\ ~error
    BY DEF WriteReap
  <1>3. \/ error'
        \/ /\ pc' = "roll" /\ unit' = u /\ error' = error
           /\ (u.pic /\ pictures' = pictures + 1) \/ (~u.pic /\ pictures' = pictures)
    BY DEF WriteReap, FailWrite
  <1>4. Kept
    BY <1>2, SameFileKept
  <1>5. pc' # "write" \/ error'
    BY <1>3
  <1>6. error' \/ Finished' = Finished
    BY <1>1, <1>2, <1>3 DEF Finished
  <1>7. CASE error'
    <2>1. Cached => Cached'
      BY <1>2, <1>7 DEF Cached, WriteReap, FailWrite
    <2>2. pc' # "write"
      BY <1>2, <1>7 DEF WriteReap, FailWrite
    <2> QED
      BY <1>1, <1>2, <1>4, <1>7, <2>2, QuietInv
  <1>8. CASE ~error'
    BY <1>1, <1>2, <1>3, <1>4, <1>5, <1>6, <1>8, QuietInv
  <1> QED
    BY <1>7, <1>8

LEMMA FailsRuns ==
    ASSUME IInv, RunInv, FailWrite, UNCHANGED <<file, part>>, headers' = headers
    PROVE  RunInv'
PROOF
  <1>1. Kept
    BY SameFileKept
  <1>2. error' /\ pc' = "idle"
    BY DEF FailWrite
  <1> QED
    BY <1>1, <1>2, QuietInv DEF IInv

LEMMA WriteRollRuns == ASSUME IInv, RunInv, WriteRoll PROVE RunInv'
PROOF
  <1>1. TypeOK /\ Clean /\ part \in Parts /\ headers \subseteq ParameterSets
    BY DEF IInv, TypeOK
  <1>2. pc = "roll" /\ ~error /\ pictures' = pictures
    BY <1>1 DEF WriteRoll, Clean
  <1>3. headers' = (IF RollBytes > 0 THEN headers \cup unit.hdr ELSE headers)
    BY DEF WriteRoll
  <1>4. (pc' = "idle" /\ error') \/ (pc' = "write" /\ unit' = unit /\ error' = error)
    BY DEF WriteRoll, FailWrite
  <1>5. headers \subseteq headers' /\ (RollBytes > 0 => unit.hdr \subseteq headers')
    BY <1>3
  <1>6. CASE UNCHANGED <<file, part>>
    <2>1. Kept
      BY <1>6, SameFileKept
    <2>2. error' \/ (Finished' = Finished /\ pc # "write")
      BY <1>2, <1>4 DEF Finished
    <2>3. RollBytes > 0 /\ pc' = "write" => unit'.hdr \subseteq headers'
      BY <1>4, <1>5
    <2> QED
      BY <1>1, <1>2, <1>5, <2>1, <2>2, <2>3, QuietInv
  <1>7. CASE ~UNCHANGED <<file, part>>
    <2>1. /\ part < MaxParts /\ part' = part + 1 /\ RollBytes > 0
          /\ file' = [file EXCEPT ![part + 1] = OpenFile(headers'), ![part].closing = "stop"]
          /\ unit.idr /\ file[part].bytes >= RollBytes
      BY <1>7 DEF WriteRoll, WantsRoll
    <2> DEFINE h == headers'
    <2>2. h \in SUBSET ParameterSets
      BY <1>1, <1>3, UnitType
    <2> HIDE DEF h
    <2>3. file' = [file EXCEPT ![part + 1] = OpenFile(h), ![part].closing = "stop"]
      BY <2>1 DEF h
    <2>a. part # part + 1
      BY <1>1, PartsInt
    <2>4. /\ part + 1 \in Parts /\ part # part + 1
          /\ file'[part + 1] = OpenFile(h)
          /\ \A q \in Parts : q # part /\ q # part + 1 => file'[q] = file[q]
      BY <1>2, <2>1, <2>2, <2>3, <2>a, RolledOver
    <2>5. file[part] \in FileState /\ file \in [Parts -> FileState]
      BY <1>1 DEF TypeOK
    <2>6. Contents(file'[part]) = Contents(file[part])
      <3>1. file'[part] = [file[part] EXCEPT !.closing = "stop"]
        BY <1>1, <2>3, <2>4, <2>5
      <3> QED
        BY <2>5, <3>1 DEF Contents, FileState
    <2>7. /\ OpenFile(h).samples = <<>> /\ OpenFile(h).bytes = 0 /\ OpenFile(h).have = h
      BY DEF OpenFile
    <2>8. ASSUME NEW q \in Parts, q # part + 1
          PROVE  /\ file'[q].samples = file[q].samples /\ file'[q].bytes = file[q].bytes
                 /\ file'[q].idrFirst = file[q].idrFirst /\ file'[q].have = file[q].have
      BY <2>4, <2>6, <2>8 DEF Contents
    <2>9. file[part].samples # <<>> /\ file[part].have = ParameterSets
      <3>1. file[part].bytes # 0
        BY <2>1, <2>5, Mp4RecorderAssumption DEF FileState
      <3> QED
        BY <1>1, <3>1 DEF RunInv, Started
    <2>10. h = ParameterSets
      BY <1>1, <1>5, <2>1, <2>2, <2>9 DEF RunInv, Cached, h
    <2>11. unit.pic
      <3>1. unit \in Kinds
        BY <1>1, <2>1 DEF TypeOK, NoUnit
      <3> QED
        BY <2>1, <3>1, Mp4RecorderAssumption
    <2>12. Runs'
      <3>1. ASSUME NEW q \in Parts PROVE Run(file'[q].samples)
        <4>1. Run(<<>>)
          BY DEF Run
        <4> QED
          BY <2>4, <2>7, <2>8, <4>1 DEF RunInv, Runs
      <3> QED
        BY <3>1 DEF Runs
    <2>13. Joined'
      <3>1. ASSUME NEW q \in Parts, q < part + 1
            PROVE  /\ file'[q].samples # <<>>
                   /\ file'[q + 1].samples # <<>> => file'[q + 1].samples[1] = Last(file'[q].samples) + 1
        <4>1. CASE q = part
          BY <2>4, <2>7, <2>8, <2>9, <4>1
        <4>2. CASE q # part
          <5>1. q < part /\ q # part + 1 /\ q + 1 \in Parts /\ q + 1 # part + 1
            BY <1>1, <3>1, <4>2, Mp4RecorderAssumption DEF Parts
          <5>2. file'[q].samples = file[q].samples /\ file'[q + 1].samples = file[q + 1].samples
            BY <2>8, <5>1
          <5> QED
            BY <5>1, <5>2 DEF RunInv, Joined
        <4> QED
          BY <4>1, <4>2
      <3> QED
        BY <2>1, <3>1, Zenon DEF Joined
    <2>14. Started'
      <3>1. ASSUME NEW q \in Parts
            PROVE  /\ file'[q].samples # <<>> => file'[q].idrFirst /\ file'[q].have = ParameterSets
                   /\ file'[q].bytes # 0 => file'[q].samples # <<>>
        BY <2>4, <2>7, <2>8 DEF RunInv, Started
      <3> QED
        BY <3>1, Zenon DEF Started
    <2>15. Cached'
      <3>1. ASSUME NEW q \in Parts PROVE file'[q].have \subseteq h
        BY <1>5, <2>1, <2>4, <2>7, <2>8 DEF RunInv, Cached, h
      <3>2. pc' = "write" => unit'.hdr \subseteq headers'
        BY <1>4, <1>5, <2>1
      <3> QED
        BY <3>1, <3>2 DEF Cached, h
    <2>16. Latest'
      <3> SUFFICES ASSUME ~error'
                   PROVE /\ file'[part'].samples # <<>> => Last(file'[part'].samples) = Finished'
                         /\ /\ pc' = "write" /\ unit'.idr /\ unit'.pic /\ file'[part'].have = ParameterSets
                            /\ Last(file'[part' - 1].samples) = Finished'
        BY Zenon DEF Latest
      <3>1. pc' = "write" /\ unit' = unit
        BY <1>4
      <3>2. file'[part'].samples = <<>> /\ file'[part'].have = ParameterSets
        BY <2>1, <2>4, <2>7, <2>10
      <3>3. part' - 1 = part
        BY <1>1, <2>1, PartsInt
      <3>4. Last(file[part].samples) = Finished /\ Finished' = Finished
        BY <1>2, <2>9, <3>1 DEF RunInv, Latest, Finished
      <3>5. file'[part].samples = file[part].samples
        BY <1>1, <2>4, <2>8
      <3> QED
        BY <2>1, <2>11, <3>1, <3>2, <3>3, <3>4, <3>5
    <2> QED
      BY <2>12, <2>13, <2>14, <2>15, <2>16 DEF RunInv
  <1> QED
    BY <1>6, <1>7

LEMMA WriteFrameRuns == ASSUME IInv, RunInv, WriteFrame PROVE RunInv'
PROOF
  <1> DEFINE f == file[part]
             have == f.have \cup unit.hdr
  <1>1. TypeOK /\ Clean /\ part \in Parts /\ file \in [Parts -> FileState] /\ f \in FileState
        /\ headers \subseteq ParameterSets /\ pictures \in Nat
    BY Mp4RecorderAssumption DEF IInv, TypeOK
  <1>2. pc = "write" /\ ~error /\ part' = part /\ headers' = headers /\ pictures' = pictures
    BY <1>1 DEF WriteFrame, Clean
  <1>3. unit.hdr \in SUBSET ParameterSets /\ unit.idr \in BOOLEAN
    BY <1>1, UnitType
  <1>4. /\ f.samples # <<>> => f.idrFirst /\ f.have = ParameterSets
        /\ f.samples = <<>> /\ part > 1 =>
             /\ unit.idr /\ unit.pic /\ f.have = ParameterSets /\ Last(file[part - 1].samples) = Finished
        /\ f.samples # <<>> => Last(f.samples) = Finished
        /\ f.bytes # 0 => f.samples # <<>>
        /\ Run(f.samples) /\ f.samples \in Seq(Nat)
    BY <1>1, <1>2 DEF RunInv, Started, Latest, Runs, FileState
  <1>5. have \subseteq ParameterSets /\ (f.have = ParameterSets => have = ParameterSets)
    BY <1>1, <1>3 DEF FileState
  <1>6. RollBytes > 0 => have \subseteq headers
    BY <1>1, <1>2 DEF RunInv, Cached
  <1>7. \A q \in Parts : q < part => q + 1 \in Parts /\ q # part
    BY <1>1, Mp4RecorderAssumption DEF Parts
  <1>8. CASE ~Stored(f)
    <2> DEFINE g == [f EXCEPT !.have = have]
    <2>1. file' = [file EXCEPT ![part] = g] /\ pc' = "idle" /\ unit' = NoUnit /\ error' = error
      BY <1>8 DEF WriteFrame
    <2>2. g.samples = f.samples /\ g.bytes = f.bytes /\ g.idrFirst = f.idrFirst /\ g.have = have
      BY <1>1 DEF FileState
    <2> HIDE DEF g
    <2>3. file'[part] = g /\ \A q \in Parts : q # part => file'[q] = file[q]
      BY <1>1, <2>1
    <2>4. \A q \in Parts : file'[q].samples = file[q].samples
      BY <2>2, <2>3, Zenon
    <2>5. Runs'
      BY <2>4, Zenon DEF RunInv, Runs
    <2>6. ASSUME NEW q \in Parts, q < part
          PROVE  /\ file'[q].samples # <<>>
                 /\ file'[q + 1].samples # <<>> => file'[q + 1].samples[1] = Last(file'[q].samples) + 1
      BY <1>7, <2>4, <2>6, Zenon DEF RunInv, Joined
    <2>7. Joined'
      BY <1>2, <2>6, Zenon DEF Joined
    <2>8. ASSUME NEW q \in Parts
          PROVE  /\ file'[q].samples # <<>> => file'[q].idrFirst /\ file'[q].have = ParameterSets
                 /\ file'[q].bytes # 0 => file'[q].samples # <<>>
      <3>1. CASE q = part
        BY <1>4, <1>5, <2>2, <2>3, <3>1
      <3>2. CASE q # part
        BY <2>3, <3>2, Zenon DEF RunInv, Started
      <3> QED
        BY <3>1, <3>2
    <2>9. Started'
      BY <2>8, Zenon DEF Started
    <2>10. Cached'
      <3>1. ASSUME NEW q \in Parts, RollBytes > 0 PROVE file'[q].have \subseteq headers'
        BY <1>2, <1>6, <2>2, <2>3, <3>1 DEF RunInv, Cached
      <3> QED
        BY <2>1, <3>1, Zenon DEF Cached
    <2>11. f.samples # <<>> => ~unit.pic
      BY <1>4, <1>5, <1>8 DEF Stored
    <2>12. ~(f.samples = <<>> /\ part > 1)
      BY <1>4, <1>5, <1>8 DEF Stored
    <2>13. f.samples # <<>> => Last(f.samples) = Finished'
      BY <1>2, <1>4, <2>1, <2>11 DEF Finished
    <2>14. file'[part'].samples = f.samples
      BY <1>2, <2>2, <2>3
    <2>15. Latest'
      BY <1>2, <2>12, <2>13, <2>14, Zenon DEF Latest
    <2> QED
      BY <2>5, <2>7, <2>9, <2>10, <2>15 DEF RunInv
  <1>9. CASE Stored(f)
    <2> DEFINE c == [f EXCEPT !.have = have]
    <2>1. PICK size \in unit.length .. Bound(unit.length) :
            /\ file' = [file EXCEPT ![part] =
                          [c EXCEPT !.samples = Append(c.samples, pictures),
                                    !.idrFirst = IF c.samples = <<>> THEN unit.idr ELSE c.idrFirst,
                                    !.bytes = c.bytes + size]]
            /\ pc' \in {"mark", "idle"}
      BY <1>9 DEF WriteFrame, FailWrite
    <2> DEFINE s == Append(f.samples, pictures)
               first == IF f.samples = <<>> THEN unit.idr ELSE f.idrFirst
               b == f.bytes + size
               g == [c EXCEPT !.samples = s, !.idrFirst = first, !.bytes = b]
    <2>2. c.samples = f.samples /\ c.bytes = f.bytes /\ c.idrFirst = f.idrFirst /\ c.have = have
          /\ DOMAIN c = DOMAIN f
      BY <1>1 DEF FileState
    <2>3. file' = [file EXCEPT ![part] = g]
      BY <2>1, <2>2
    <2>4. g.samples = s /\ g.idrFirst = first /\ g.have = have
      <3> HIDE DEF s, first, b
      <3> QED
        BY <1>1 DEF FileState
    <2> HIDE DEF g, c
    <2>5. file'[part] = g /\ \A q \in Parts : q # part => file'[q] = file[q]
      BY <1>1, <2>3
    <2>6. unit.pic /\ have = ParameterSets /\ (f.samples = <<>> => unit.idr)
      BY <1>9 DEF Stored
    <2>7. /\ s \in Seq(Nat) /\ s # <<>> /\ Last(s) = pictures
          /\ s[1] = (IF f.samples = <<>> THEN pictures ELSE f.samples[1])
      <3> DEFINE k == Len(f.samples)
      <3>1. /\ k \in Nat /\ s \in Seq(Nat) /\ Len(s) = k + 1 /\ s[k + 1] = pictures
            /\ \A i \in 1 .. k : s[i] = f.samples[i]
        BY <1>1, <1>4
      <3>2. f.samples = <<>> <=> k = 0
        BY <1>4
      <3>3. s # <<>> /\ Last(s) = pictures
        <4> HIDE DEF s, k
        <4>1. s # <<>>
          BY <3>1
        <4> QED
          BY <3>1, <4>1 DEF Last
      <3>4. s[1] = (IF f.samples = <<>> THEN pictures ELSE f.samples[1])
        <4>1. CASE k = 0
          BY <3>1, <3>2, <4>1
        <4>2. CASE k # 0
          <5>1. 1 \in 1 .. k
            BY <3>1, <4>2
          <5> HIDE DEF s, k
          <5> QED
            BY <3>1, <3>2, <4>2, <5>1
        <4> QED
          BY <4>1, <4>2
      <3> QED
        BY <3>1, <3>3, <3>4
    <2>8. Run(s)
      <3> DEFINE k == Len(f.samples)
      <3>1. /\ k \in Nat /\ Len(s) = k + 1 /\ s[k + 1] = pictures
            /\ \A i \in 1 .. k : s[i] = f.samples[i]
        BY <1>1, <1>4
      <3>2. k # 0 => f.samples[k] = pictures - 1 /\ k \in 1 .. k
        BY <1>2, <1>4, <2>6, <3>1 DEF Last, Finished
      <3>3. \A i \in 1 .. k - 1 : f.samples[i + 1] = f.samples[i] + 1
        BY <1>4 DEF Run
      <3> HIDE DEF k, s
      <3>4. ASSUME NEW i \in 1 .. k PROVE s[i + 1] = s[i] + 1
        <4>1. CASE i = k
          BY <1>1, <3>1, <3>2, <4>1
        <4>2. CASE i # k
          <5>1. i \in 1 .. k - 1 /\ i + 1 \in 1 .. k
            BY <3>1, <4>2
          <5> QED
            BY <3>1, <3>3, <5>1
        <4> QED
          BY <4>1, <4>2
      <3>5. Len(s) - 1 = k
        BY <3>1
      <3> QED
        BY <3>4, <3>5 DEF Run
    <2> HIDE DEF s
    <2>9. ASSUME NEW q \in Parts PROVE Run(file'[q].samples)
      <3>1. CASE q = part
        BY <2>4, <2>5, <2>8, <3>1
      <3>2. CASE q # part
        BY <2>5, <3>2, Zenon DEF RunInv, Runs
      <3> QED
        BY <3>1, <3>2
    <2>10. Runs'
      BY <2>9, Zenon DEF Runs
    <2>11. ASSUME NEW q \in Parts, q < part
          PROVE  /\ file'[q].samples # <<>>
                 /\ file'[q + 1].samples # <<>> => file'[q + 1].samples[1] = Last(file'[q].samples) + 1
      <3>1. file'[q] = file[q] /\ q + 1 \in Parts /\ file[q].samples # <<>>
        BY <1>7, <2>5, <2>11 DEF RunInv, Joined
      <3>2. CASE q + 1 = part
        <4>1. file'[q + 1].samples = s
          BY <2>4, <2>5, <3>2
        <4>2. CASE f.samples = <<>>
          <5>1. part > 1 /\ part - 1 = q
            BY <1>1, <3>2, PartsInt
          <5>2. Last(file[q].samples) = pictures - 1
            BY <1>2, <1>4, <2>6, <4>2, <5>1 DEF Finished
          <5>3. s[1] = pictures
            BY <2>7, <4>2
          <5> QED
            BY <1>1, <3>1, <4>1, <5>2, <5>3
        <4>3. CASE f.samples # <<>>
          <5>1. s[1] = f.samples[1]
            BY <2>7, <4>3
          <5>2. f.samples[1] = Last(file[q].samples) + 1
            BY <2>11, <3>2, <4>3 DEF RunInv, Joined
          <5> QED
            BY <3>1, <4>1, <5>1, <5>2
        <4> QED
          BY <4>2, <4>3
      <3>3. CASE q + 1 # part
        <4>1. file'[q + 1] = file[q + 1]
          BY <2>5, <3>1, <3>3
        <4> QED
          BY <2>11, <3>1, <4>1 DEF RunInv, Joined
      <3> QED
        BY <3>2, <3>3
    <2>12. Joined'
      BY <1>2, <2>11, Zenon DEF Joined
    <2>13. ASSUME NEW q \in Parts
          PROVE  /\ file'[q].samples # <<>> => file'[q].idrFirst /\ file'[q].have = ParameterSets
                 /\ file'[q].bytes # 0 => file'[q].samples # <<>>
      <3>1. CASE q = part
        BY <1>4, <2>4, <2>5, <2>6, <2>7, <3>1
      <3>2. CASE q # part
        BY <2>5, <3>2, Zenon DEF RunInv, Started
      <3> QED
        BY <3>1, <3>2
    <2>14. Started'
      BY <2>13, Zenon DEF Started
    <2>15. Cached'
      <3>1. ASSUME NEW q \in Parts, RollBytes > 0 PROVE file'[q].have \subseteq headers'
        BY <1>2, <1>6, <2>4, <2>5, <3>1 DEF RunInv, Cached
      <3>2. pc' # "write"
        BY <2>1
      <3> QED
        BY <3>1, <3>2, Zenon DEF Cached
    <2>16. Finished' = pictures
      BY <1>2, <2>1 DEF Finished
    <2>17. file'[part'].samples = s
      BY <1>2, <2>4, <2>5
    <2>18. Latest'
      BY <2>7, <2>16, <2>17, Zenon DEF Latest
    <2> QED
      BY <2>10, <2>12, <2>14, <2>15, <2>18 DEF RunInv
  <1> QED
    BY <1>8, <1>9

LEMMA MarkDirtyRuns == ASSUME IInv, RunInv, MarkDirty PROVE RunInv'
PROOF
  <1> DEFINE f == file[part]
             c == [f EXCEPT !.dirty = TRUE]
             g == IF f.dirty THEN f ELSE Signalled(c)
  <1>1. TypeOK /\ Clean /\ f \in FileState /\ file \in [Parts -> FileState] /\ part \in Parts
    BY DEF IInv, TypeOK
  <1>2. /\ file' = [file EXCEPT ![part] = g] /\ part' = part /\ headers' = headers /\ pc = "mark"
        /\ pc' = "idle" /\ pictures' = pictures /\ error' = error /\ ~error
    BY <1>1 DEF MarkDirty, Clean
  <1>3. c \in FileState /\ Contents(c) = Contents(f)
    BY <1>1 DEF Contents, FileState
  <1>4. Contents(g) = Contents(f)
    BY <1>3, SignalKeeps
  <1> HIDE DEF g
  <1>5. Kept
    BY <1>1, <1>2, <1>4, OneKeeps DEF Kept
  <1>6. Finished' = Finished
    BY <1>2 DEF Finished
  <1> QED
    BY <1>1, <1>2, <1>5, <1>6, QuietInv

\* Whoever closes changes nothing that is recorded.
LEMMA CloseRuns ==
    ASSUME IInv, RunInv, Kept, UNCHANGED <<headers, unit, pictures>>, error => error',
           pc' = pc \/ (pc \notin {"roll", "write"} /\ pc' \notin {"roll", "write"})
    PROVE  RunInv'
PROOF
  <1>1. Finished' = Finished /\ (pc' = pc \/ pc # "write")
    BY DEF Finished
  <1>2. RunInv /\ (Cached => (RollBytes > 0 /\ pc' = "write" => unit'.hdr \subseteq headers'))
    BY DEF Cached
  <1> QED
    BY <1>1, <1>2, QuietInv DEF IInv

LEMMA NextRunInv == IInv /\ RunInv /\ [Next]_vars => RunInv'
PROOF
  <1> SUFFICES ASSUME IInv, RunInv, [Next]_vars PROVE RunInv'
    OBVIOUS
  <1>0. file \in [Parts -> FileState] /\ part \in Parts
    BY DEF IInv, TypeOK
  <1>1. CASE FrameThread
    <2>1. ASSUME NEW u \in Kinds, WriteReap(u) PROVE RunInv'
      BY <2>1, WriteReapRuns
    <2>2. CASE WriteRollFails \/ WriteFrameFails
      BY <2>2, FailsRuns DEF WriteRollFails, WriteFrameFails
    <2> QED
      BY <1>1, <2>1, <2>2, WriteRollRuns, WriteFrameRuns, MarkDirtyRuns DEF FrameThread
  <1>2. CASE CloseBegin
    <2> DEFINE g == [file[part] EXCEPT !.closing = "stop"]
    <2>1. Contents(g) = Contents(file[part])
      BY <1>0 DEF Contents, FileState
    <2>2. file' = [file EXCEPT ![part] = g] /\ part' = part
      BY <1>2 DEF CloseBegin
    <2>3. Kept
      BY <1>0, <2>1, <2>2, OneKeeps DEF Kept
    <2> QED
      BY <1>2, <2>3, CloseRuns DEF CloseBegin
  <1>3. CASE CloseFile \/ CloseReap \/ RetireFile
    <2>1. Kept
      BY <1>3, SameFileKept DEF CloseFile, CloseReap, RetireFile
    <2>2. /\ UNCHANGED <<headers, unit, pictures>> /\ (error => error')
          /\ pc' = pc \/ (pc \notin {"roll", "write"} /\ pc' \notin {"roll", "write"})
      <3>1. CASE CloseFile
        <4>1. UNCHANGED <<headers, unit, pictures>> /\ (error => error')
          BY <3>1, Zenon DEF CloseFile
        <4>2. pc = "close" /\ pc' \notin {"roll", "write"}
          BY <3>1 DEF CloseFile
        <4> QED
          BY <4>1, <4>2
      <3>2. CASE CloseReap
        BY <3>2 DEF CloseReap
      <3>3. CASE RetireFile
        BY <3>3 DEF RetireFile
      <3> QED
        BY <1>3, <3>1, <3>2, <3>3
    <2> QED
      BY <2>1, <2>2, CloseRuns
  <1>4. ASSUME NEW p \in Parts, SyncWorker(p) \/ SyncWake(p) \/ FileCloseStop(p) \/ FileCloseJoin(p)
        PROVE  RunInv'
    <2>1. UNCHANGED frameVars /\ (SyncStep(p) \/ SyncSpuriousWake(p) \/ FileCloseStop(p) \/ FileCloseJoin(p))
      BY <1>4 DEF SyncWorker, SyncWake, FileCloseStop, FileCloseJoin
    <2>2. Kept
      BY <1>0, <2>1, WorkersKeep DEF Kept, frameVars
    <2> QED
      BY <2>1, <2>2, CloseRuns DEF frameVars
  <1>5. CASE UNCHANGED vars
    <2>1. Kept
      BY <1>5, SameFileKept DEF vars
    <2> QED
      BY <1>5, <2>1, CloseRuns DEF vars
  <1> QED
    BY <1>1, <1>2, <1>3, <1>4, <1>5 DEF Next, Closing

\* roll_file: whatever the lengths of the parts, the access units and the order
\* of flushes and retirements, the parts are one recording without a gap, each
\* starting at an IDR.
THEOREM RecordingContinuous == Spec => []Continuous
PROOF
  <1>1. ASSUME IInv, RunInv PROVE Continuous
    <2> DEFINE parts == [p \in Parts |-> file[p].samples]
               all == FlattenSeq(parts)
    <2>1. TypeOK /\ Opened /\ Runs /\ Joined /\ Started /\ Latest
      BY <1>1 DEF IInv, RunInv
    <2>2. file \in [Parts -> FileState] /\ part \in Parts /\ part \in Nat /\ MaxParts \in Nat \ {0} /\ Parts = 1 .. MaxParts
      BY <2>1, Mp4RecorderAssumption DEF TypeOK, Parts
    <2>3. \A p \in Parts : file[p].samples \in Seq(Nat)
      BY <2>2 DEF FileState
    <2>4. parts \in Seq(Seq(Nat)) /\ Len(parts) = MaxParts
      BY <2>2, <2>3
    <2>5. \A p \in Parts : p > part => file[p].samples = <<>>
      <3>1. ASSUME NEW p \in Parts, p > part PROVE file[p].samples = <<>>
        <4>1. file[p] = NoFile
          BY <2>1, <2>2, <3>1 DEF Opened
        <4> QED
          BY <4>1 DEF NoFile, OpenFile
      <3> QED
        BY <3>1
    <2>6. \A i \in 1 .. MaxParts : parts[i] = file[i].samples /\ parts[i] \in Seq(Nat) /\ Run(parts[i])
      BY <2>1, <2>2, <2>3 DEF Runs
    <2> HIDE DEF parts
    <2>7. GoesOn(parts, MaxParts)
      <3>1. ASSUME NEW i \in 1 .. MaxParts - 1, parts[i + 1] # <<>>
            PROVE  parts[i] # <<>> /\ parts[i + 1][1] = Last(parts[i]) + 1
        <4>1. i \in Parts /\ i + 1 \in Parts
          BY <2>2
        <4>2. parts[i] = file[i].samples /\ parts[i + 1] = file[i + 1].samples
          BY <2>2, <2>6, <4>1
        <4>3. ~(i + 1 > part)
          BY <2>5, <3>1, <4>1, <4>2
        <4>4. i < part
          BY <2>2, <4>1, <4>3
        <4> QED
          BY <2>1, <3>1, <4>1, <4>2, <4>4 DEF Joined
      <3> QED
        BY <3>1 DEF GoesOn
    <2>8. Joins(all, parts, MaxParts)
      BY <2>2, <2>4, <2>6, <2>7, FlattenedRuns
    <2> HIDE DEF all
    <2>9. \A i \in 1 .. Len(all) - 1 : all[i + 1] = all[i] + 1
      BY <2>8 DEF Joins, Run
    <2>10. ASSUME all # <<>>, ~error, pc \notin {"roll", "write"} PROVE Last(all) = pictures
      <3>1. PICK i \in 1 .. MaxParts :
              parts[i] # <<>> /\ Last(all) = Last(parts[i]) /\ \A j \in i + 1 .. MaxParts : parts[j] = <<>>
        BY <2>8, <2>10 DEF Joins, EndsWith
      <3>2. i \in Parts /\ parts[i] = file[i].samples
        BY <2>2, <2>6
      <3>3. ~(i > part)
        BY <2>5, <3>1, <3>2
      <3>4. i = part
        <4> SUFFICES ASSUME i < part PROVE FALSE
          BY <2>2, <3>2, <3>3
        <4>1. part > 1
          BY <2>2, <3>2
        <4>2. file[part].samples # <<>>
          BY <2>1, <2>10, <4>1 DEF Latest
        <4>3. part \in i + 1 .. MaxParts
          BY <2>2, <3>2
        <4>4. parts[part] = <<>>
          BY <3>1, <4>3
        <4> QED
          BY <2>2, <2>6, <4>2, <4>4
      <3>5. Last(file[part].samples) = Finished /\ Finished = pictures
        BY <2>1, <2>10, <3>1, <3>2, <3>4 DEF Latest, Finished
      <3> QED
        BY <3>1, <3>2, <3>4, <3>5
    <2>11. \A p \in Parts : file[p].samples # <<>> => file[p].idrFirst
      BY <2>1 DEF Started
    <2> QED
      BY <2>9, <2>10, <2>11, Zenon DEF Continuous, all, parts
  <1>2. Spec => [](IInv /\ RunInv)
    <2>1. Init => IInv /\ RunInv
      BY InitIInv, InitRunInv
    <2>2. IInv /\ RunInv /\ [Next]_vars => (IInv /\ RunInv)'
      BY NextIInv, NextRunInv
    <2> QED
      BY <2>1, <2>2, PTL DEF Spec
  <1> QED
    BY <1>1, <1>2, PTL
=============================================================================
