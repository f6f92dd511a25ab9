------------------------ MODULE GimbalControl_proofs ------------------------
(***************************************************************************)
(* Proofs about GimbalControl, for any lengths of lease, pulse, retry and  *)
(* reopen, on both command paths and for any number of packets.            *)
(***************************************************************************)
EXTENDS GimbalControl, TLAPS

\* Every token was created for a packet.
Counted == issued <= commands

\* Under a lease the tracker is not turning the gimbal.
Paused == active => ~rate

IInv == TypeOK /\ Counted /\ NoRunaway /\ Exclusive /\ Paused /\ TrackerKnown

-----------------------------------------------------------------------------
\* What a movement command may do to the gimbal.
LEMMA SentResult ==
    ASSUME NEW g, NEW by, NEW turning, NEW o \in Sent(g, by, turning)
    PROVE  /\ o.ok \in BOOLEAN
           /\ o.gimbal = g \/ o.gimbal = [owner |-> by, turning |-> turning]
           /\ o.ok => o.gimbal = [owner |-> by, turning |-> turning]
  <1> DEFINE new == [owner |-> by, turning |-> turning]
  <1>1. \/ o = [ok |-> TRUE, gimbal |-> new]
        \/ o = [ok |-> FALSE, gimbal |-> new]
        \/ o = [ok |-> FALSE, gimbal |-> g]
    BY Zenon DEF Sent
  <1> HIDE DEF new
  <1>2. CASE o = [ok |-> TRUE, gimbal |-> new]
    BY <1>2, Zenon DEF new
  <1>3. CASE o = [ok |-> FALSE, gimbal |-> new]
    BY <1>3, Zenon DEF new
  <1>4. CASE o = [ok |-> FALSE, gimbal |-> g]
    BY <1>4, Zenon DEF new
  <1> QED
    BY <1>1, <1>2, <1>3, <1>4, Zenon

\* The same for a command of the MAVLink server; blocked, it does nothing.
LEMMA InternalResult ==
    ASSUME NEW g, NEW by, NEW turning, NEW o \in Internal(g, by, turning)
    PROVE  /\ o.ok \in BOOLEAN
           /\ o.gimbal = g \/ o.gimbal = [owner |-> by, turning |-> turning]
           /\ o.ok /\ ~active => o.gimbal = [owner |-> by, turning |-> turning]
  <1>1. CASE PublicPath /\ active
    <2>1. o = [ok |-> TRUE, gimbal |-> g]
      BY <1>1, Zenon DEF Internal, ManualBlocked
    <2>2. o.ok = TRUE /\ o.gimbal = g
      BY <2>1, Zenon
    <2> QED
      BY <1>1, <2>2, Zenon
  <1>2. CASE ~(PublicPath /\ active)
    <2>1. o \in Sent(g, by, turning)
      BY <1>2, Zenon DEF Internal, ManualBlocked
    <2>2. /\ o.ok \in BOOLEAN
          /\ o.gimbal = g \/ o.gimbal = [owner |-> by, turning |-> turning]
          /\ o.ok => o.gimbal = [owner |-> by, turning |-> turning]
      BY <2>1, SentResult
    <2> QED
      BY <2>2, Zenon
  <1> QED
    BY <1>1, <1>2, Zenon

\* What stop_tracking_rate may do: nothing where nothing is to be stopped,
\* else a stop that is known to have failed or has reached the gimbal.
LEMMA StopTrackingResult ==
    ASSUME TypeOK, NEW g, NEW s \in StopTrackingRate(g)
    PROVE  /\ s.lost \in BOOLEAN
           /\ s.gimbal = g \/ s.gimbal = [owner |-> "track", turning |-> FALSE]
           /\ ~rate => s.gimbal = g /\ s.lost = lost
           /\ rate /\ ~s.lost /\ ~active => s.gimbal = [owner |-> "track", turning |-> FALSE]
  <1>1. CASE rate
    <2>1. PICK o \in Internal(g, "track", FALSE) : s = [gimbal |-> o.gimbal, lost |-> ~o.ok]
      BY <1>1, Zenon DEF StopTrackingRate
    <2>2. s.gimbal = o.gimbal /\ s.lost = ~o.ok
      BY <2>1, Zenon
    <2> DEFINE still == [owner |-> "track", turning |-> FALSE]
    <2>3. /\ o.ok \in BOOLEAN
          /\ o.gimbal = g \/ o.gimbal = still
          /\ o.ok /\ ~active => o.gimbal = still
      BY InternalResult
    <2> HIDE DEF still
    <2>4. /\ s.lost \in BOOLEAN
          /\ s.gimbal = g \/ s.gimbal = still
          /\ ~s.lost /\ ~active => s.gimbal = still
      BY <2>2, <2>3, Zenon
    <2> QED
      BY <1>1, <2>4, Zenon DEF still
  <1>2. CASE ~rate
    <2>1. s = [gimbal |-> g, lost |-> lost]
      BY <1>2, Zenon DEF StopTrackingRate
    <2>2. s.gimbal = g /\ s.lost = lost
      BY <2>1, Zenon
    <2>3. lost \in BOOLEAN
      BY Zenon DEF TypeOK
    <2> QED
      BY <1>2, <2>2, <2>3, Zenon
  <1> QED
    BY <1>1, <1>2, Zenon

-----------------------------------------------------------------------------
\* The counters and deadlines keep their types.
TypeNumbers ==
    /\ issued \in 0 .. MaxCommands
    /\ token \in 0 .. MaxCommands
    /\ lease \in 0 .. Lease
    /\ stop \in {NoStop} \cup 0 .. Pulse
    /\ commands \in 0 .. MaxCommands
    /\ turned \in 0 .. Overlong
    /\ issued <= commands

\* The flags keep their types.
TypeFlags ==
    /\ running \in BOOLEAN
    /\ active \in BOOLEAN
    /\ target \in BOOLEAN
    /\ rate \in BOOLEAN
    /\ lost \in BOOLEAN

\* The loop's position, the settings and the gimbal keep their types.
TypeOthers ==
    /\ pc \in {"poll", "timers", "packets", "events"}
    /\ settings \in [method : {"angle", "rate"}, targeting : BOOLEAN]
    /\ gimbal \in Gimbal

LEMMA TypeParts == TypeOK /\ Counted <=> TypeNumbers /\ TypeFlags /\ TypeOthers
  BY Zenon DEF TypeOK, Counted, TypeNumbers, TypeFlags, TypeOthers

\* Time that passes leaves the deadlines in their ranges.
LEMMA ElapseTyped ==
    ASSUME TypeNumbers, NEW n \in Nat, Elapse(n)
    PROVE  /\ lease' \in 0 .. Lease
           /\ stop' \in {NoStop} \cup 0 .. Pulse
           /\ stop # NoStop => stop' # NoStop
           /\ turned' \in 0 .. Overlong
  <1> USE GimbalControlAssumption
  <1>1. lease' \in 0 .. Lease
    BY DEF TypeNumbers, Elapse, Left
  <1>2. stop' \in {NoStop} \cup 0 .. Pulse /\ (stop # NoStop => stop' # NoStop)
    BY DEF TypeNumbers, Elapse, Left, NoStop
  <1>3. turned' \in 0 .. Overlong
    BY DEF TypeNumbers, Elapse, Overlong
  <1> QED
    BY <1>1, <1>2, <1>3

\* An attempt to stop leaves the deadlines in their ranges and retries one
\* that failed.
LEMMA StopMotionResult ==
    ASSUME NEW o, StopMotion(o)
    PROVE  /\ o.ok \in BOOLEAN
           /\ o.gimbal = gimbal \/ o.gimbal = [owner |-> "manual", turning |-> FALSE]
           /\ o.ok => o.gimbal = [owner |-> "manual", turning |-> FALSE]
           /\ ~o.ok => stop' # NoStop
           /\ stop' \in {NoStop} \cup 0 .. Pulse
           /\ turned' \in 0 .. Overlong
  <1>1. /\ o.ok \in BOOLEAN
        /\ o.gimbal = gimbal \/ o.gimbal = [owner |-> "manual", turning |-> FALSE]
        /\ o.ok => o.gimbal = [owner |-> "manual", turning |-> FALSE]
    BY SentResult DEF StopMotion
  <1>2. (stop' = NoStop \/ stop' = Retry) /\ (~o.ok => stop' = Retry)
    BY <1>1, Zenon DEF StopMotion, RetryOf
  <1>3. stop' \in {NoStop} \cup 0 .. Pulse /\ Retry # NoStop
    BY <1>2, GimbalControlAssumption DEF NoStop
  <1>4. turned' \in 0 .. Overlong
    BY GimbalControlAssumption DEF StopMotion, Overlong
  <1>5. ~o.ok => stop' # NoStop
    BY <1>2, <1>3, Zenon
  <1> QED
    BY <1>1, <1>3, <1>4, <1>5, Zenon

LEMMA NumbersStep == TypeNumbers /\ [Next]_vars => TypeNumbers'
  <1> SUFFICES ASSUME TypeNumbers, [Next]_vars PROVE TypeNumbers'
    OBVIOUS
  <1> USE GimbalControlAssumption
  <1> DEFINE Kept == UNCHANGED <<issued, token, lease, stop, commands, turned>>
  <1>1. ASSUME Kept PROVE TypeNumbers'
    BY <1>1 DEF TypeNumbers, Overlong
  <1>2. CASE Poll
    <2>1. PICK n \in 0 .. 1 : Elapse(n)
      BY <1>2 DEF Poll
    <2>2. UNCHANGED <<issued, token, commands>>
      BY <1>2 DEF Poll
    <2> QED
      BY <2>1, <2>2, ElapseTyped DEF TypeNumbers
  <1>3. CASE UpdateTimers
    <2>1. stop' \in {NoStop} \cup 0 .. Pulse /\ turned' \in 0 .. Overlong
      <3>1. CASE StopDue
        <4>1. \E o : StopMotion(o)
          BY <1>3, <3>1, Zenon DEF UpdateTimers
        <4> QED
          BY <4>1, StopMotionResult
      <3>2. CASE ~StopDue
        BY <1>3, <3>2 DEF UpdateTimers, TypeNumbers
      <3> QED
        BY <3>1, <3>2
    <2>2. token' \in 0 .. MaxCommands /\ UNCHANGED <<issued, lease, commands>>
      BY <1>3 DEF UpdateTimers, TypeNumbers
    <2> QED
      BY <2>1, <2>2 DEF TypeNumbers
  <1>4. CASE Acquire
    <2>1. /\ issued' = issued + 1 /\ token' = issued + 1
          /\ commands' = commands + 1 /\ commands < MaxCommands
          /\ lease' = Lease \/ lease' = lease
      BY <1>4 DEF Acquire, Packet
    <2>2. \E o : StopMotion(o)
      BY <1>4, Zenon DEF Acquire
    <2>3. stop' \in {NoStop} \cup 0 .. Pulse /\ turned' \in 0 .. Overlong
      BY <2>2, StopMotionResult
    <2> QED
      BY <2>1, <2>3 DEF TypeNumbers
  <1>5. CASE Refuse
    BY <1>5 DEF Refuse, Packet, TypeNumbers, Overlong
  <1>6. ASSUME NEW t \in 0 .. issued, Release(t) PROVE TypeNumbers'
    <2>1. /\ commands' = commands + 1 /\ commands < MaxCommands
          /\ token' = 0 \/ token' = token
          /\ UNCHANGED <<issued, lease>>
      BY <1>6 DEF Release, Owned, Packet
    <2>2. \E o : StopMotion(o)
      BY <1>6, Zenon DEF Release
    <2>3. stop' \in {NoStop} \cup 0 .. Pulse /\ turned' \in 0 .. Overlong
      BY <2>2, StopMotionResult
    <2> QED
      BY <2>1, <2>3 DEF TypeNumbers
  <1>7. ASSUME NEW t \in 0 .. issued, Renew(t) PROVE TypeNumbers'
    BY <1>7 DEF Renew, Owned, Packet, TypeNumbers, Overlong
  <1>8. ASSUME NEW t \in 0 .. issued, Move(t) PROVE TypeNumbers'
    BY <1>8 DEF Move, Owned, Packet, TypeNumbers, Overlong
  <1>9. ASSUME NEW t \in 0 .. issued, Center(t) PROVE TypeNumbers'
    <2>1. stop' = NoStop \/ stop' = stop
      BY <1>9, Zenon DEF Center
    <2>2. /\ commands' = commands + 1 /\ commands < MaxCommands
          /\ UNCHANGED <<token, issued, lease, turned>>
      BY <1>9 DEF Center, Owned, Packet
    <2> QED
      BY <2>1, <2>2 DEF TypeNumbers
  <1>10. CASE Reconfigure
    <2>1. Elapse(Reopen) /\ UNCHANGED <<issued, token, commands>>
      BY <1>10 DEF Reconfigure
    <2> QED
      BY <2>1, ElapseTyped DEF TypeNumbers
  <1>11. CASE Close
    <2>1. UNCHANGED <<issued, token, lease, commands>>
      BY <1>11 DEF Close
    <2>2. (\E o : StopMotion(o)) \/ UNCHANGED <<stop, turned>>
      BY <1>11, Zenon DEF Close
    <2>3. stop' \in {NoStop} \cup 0 .. Pulse /\ turned' \in 0 .. Overlong
      BY <2>2, StopMotionResult DEF TypeNumbers
    <2> QED
      BY <2>1, <2>3 DEF TypeNumbers
  <1>12. CASE PacketsDone \/ VendorCommand
    BY <1>1, <1>12, Zenon DEF PacketsDone, VendorCommand, manualVars
  <1>13. CASE SetAttitude \/ SetRoi \/ ClearRoi \/ ConfigureUndone
    BY <1>1, <1>13, Zenon DEF SetAttitude, SetRoi, ClearRoi, ConfigureUndone, Event, manualVars
  <1>14. ASSUME NEW next \in [method : {"angle", "rate"}, targeting : BOOLEAN],
                ConfigureTracking(next)
         PROVE  TypeNumbers'
    BY <1>1, <1>14, Zenon DEF ConfigureTracking, Event, manualVars
  <1>15. CASE LoopEnds
    BY <1>1, <1>15, Zenon DEF LoopEnds, UpdateTargetSkip, UpdateTargetStop,
       UpdateTargetAngle, UpdateTargetRate, Periodic, manualVars
  <1>16. CASE UNCHANGED vars
    BY <1>1, <1>16, Zenon DEF vars
  <1> QED
    BY <1>2, <1>3, <1>4, <1>5, <1>6, <1>7, <1>8, <1>9, <1>10, <1>11, <1>12, <1>13,
       <1>14, <1>15, <1>16, Zenon DEF Next, ManualStep, OtherStep

\* How the gimbal may be moved by a step, and what else then changes.  The
\* safety properties are about nothing else.
Manual(turning) == [owner |-> "manual", turning |-> turning]
Track(turning) == [owner |-> "track", turning |-> turning]

\* The tracker is stopped, as far as the link allows.
TrackerStopped ==
    /\ rate' = FALSE
    /\ \E s \in StopTrackingRate(gimbal) : gimbal' = s.gimbal /\ lost' = s.lost

\* Flags of the tracker after a stop.
LEMMA TrackerStoppedResult ==
    ASSUME TypeOK, TrackerStopped
    PROVE  /\ lost' \in BOOLEAN
           /\ rate' = FALSE
           /\ gimbal' = gimbal \/ gimbal' = Track(FALSE)
           /\ ~rate => gimbal' = gimbal /\ lost' = lost
           /\ rate /\ ~lost' /\ ~active => gimbal' = Track(FALSE)
  <1>1. PICK s \in StopTrackingRate(gimbal) : gimbal' = s.gimbal /\ lost' = s.lost
    BY Zenon DEF TrackerStopped
  <1>2. /\ s.lost \in BOOLEAN
        /\ s.gimbal = gimbal \/ s.gimbal = Track(FALSE)
        /\ ~rate => s.gimbal = gimbal /\ s.lost = lost
        /\ rate /\ ~s.lost /\ ~active => s.gimbal = Track(FALSE)
    BY StopTrackingResult DEF Track
  <1> QED
    BY <1>1, <1>2, Zenon DEF TrackerStopped

\* The tracker's stop that follows a stop of the lease finds a gimbal at rest.
LEMMA StoppedTwice ==
    ASSUME TypeOK, NEW o, StopMotion(o),
           \E s \in StopTrackingRate(o.gimbal) : gimbal' = s.gimbal /\ lost' = s.lost
    PROVE  /\ lost' \in BOOLEAN
           /\ gimbal' = o.gimbal \/ gimbal' = Track(FALSE)
           /\ ~rate => gimbal' = o.gimbal /\ lost' = lost
           /\ rate /\ ~lost' /\ ~active => gimbal' = Track(FALSE)
  <1>1. PICK s \in StopTrackingRate(o.gimbal) : gimbal' = s.gimbal /\ lost' = s.lost
    OBVIOUS
  <1>2. /\ s.lost \in BOOLEAN
        /\ s.gimbal = o.gimbal \/ s.gimbal = Track(FALSE)
        /\ ~rate => s.gimbal = o.gimbal /\ s.lost = lost
        /\ rate /\ ~s.lost /\ ~active => s.gimbal = Track(FALSE)
    BY StopTrackingResult DEF Track
  <1> QED
    BY <1>1, <1>2, Zenon

\* What a step does to the gimbal, by the part of the program that takes it.
\* A stop of the lease that may fail, or one of its pulses:
ByLease ==
    /\ gimbal' = gimbal \/ gimbal' = Manual(FALSE)
    /\ gimbal' = Manual(FALSE) \/ stop' # NoStop \/ stop' = stop
    /\ UNCHANGED <<rate, lost>>
    /\ active' => active
ByPulse ==
    /\ active
    /\ gimbal' = gimbal \/ gimbal' = Manual(TRUE)
    /\ stop' # NoStop
    /\ UNCHANGED <<rate, lost, active>>
\* The beginning of a lease:
ByAcquire ==
    /\ ~active
    /\ active' = TRUE
    /\ rate' = FALSE
    /\ gimbal' = Manual(FALSE) \/ gimbal' = Track(FALSE)
    /\ lost' \in BOOLEAN
\* The tracker's stop, alone or after another controller's command:
ByStop ==
    /\ lost' \in BOOLEAN
    /\ rate' = FALSE
    /\ gimbal' = gimbal \/ gimbal' = Track(FALSE)
    /\ ~rate => gimbal' = gimbal /\ lost' = lost
    /\ rate /\ ~lost' /\ ~active => gimbal' = Track(FALSE)
    /\ active' = active
    /\ stop # NoStop => stop' # NoStop
\* Another controller:
ByOther ==
    /\ ~active
    /\ active' = FALSE
    /\ gimbal' \in Gimbal
    /\ gimbal' # Manual(TRUE) \/ (gimbal' = gimbal /\ stop' = stop)
    /\ gimbal' = Track(TRUE) => rate' \/ lost'
    /\ rate' \in BOOLEAN
    /\ lost' \in BOOLEAN
\* The end of the program:
ByClose ==
    /\ running' = FALSE
    /\ active' = FALSE
    /\ gimbal' \in Gimbal
    /\ rate' = FALSE
    /\ lost' \in BOOLEAN
    /\ gimbal' = Track(TRUE) => lost'

ByNobody ==
    /\ UNCHANGED <<gimbal, rate, lost, active>>
    /\ stop # NoStop => stop' # NoStop

Effect ==
    /\ running' => running
    /\ ByNobody \/ ByLease \/ ByPulse \/ ByAcquire \/ ByStop \/ ByOther \/ ByClose

Safety == NoRunaway /\ Exclusive /\ Paused /\ TrackerKnown

LEMMA GimbalFields ==
    /\ \A b \in BOOLEAN : /\ Manual(b) \in Gimbal /\ Manual(b).owner = "manual" /\ Manual(b).turning = b
                          /\ Track(b) \in Gimbal /\ Track(b).owner = "track" /\ Track(b).turning = b
    /\ \A g \in Gimbal : /\ g.owner = "manual" /\ g.turning => g = Manual(TRUE)
                         /\ g.owner = "track" /\ g.turning => g = Track(TRUE)
  <1>1. ASSUME NEW b \in BOOLEAN
        PROVE  /\ Manual(b) \in Gimbal /\ Manual(b).owner = "manual" /\ Manual(b).turning = b
               /\ Track(b) \in Gimbal /\ Track(b).owner = "track" /\ Track(b).turning = b
    BY DEF Manual, Track, Gimbal, Owners
  <1>2. ASSUME NEW g \in Gimbal, g.turning
        PROVE  /\ g.owner = "manual" => g = Manual(TRUE)
               /\ g.owner = "track" => g = Track(TRUE)
    <2>1. g.turning = TRUE
      BY <1>2, Zenon DEF Gimbal
    <2>2. g = [owner |-> g.owner, turning |-> g.turning]
      BY DEF Gimbal
    <2> QED
      BY <2>1, <2>2, Zenon DEF Manual, Track
  <1> QED
    BY <1>1, <1>2, Zenon

\* Whatever has such an effect preserves the safety properties.
LEMMA SafetyStep ==
    ASSUME TypeOK, Safety, Effect
    PROVE  Safety' /\ gimbal' \in Gimbal /\ rate' \in BOOLEAN /\ lost' \in BOOLEAN
  <1>1. gimbal \in Gimbal /\ rate \in BOOLEAN /\ lost \in BOOLEAN /\ active \in BOOLEAN
    BY Zenon DEF TypeOK
  <1>2. /\ gimbal.owner = "manual" /\ gimbal.turning <=> gimbal = Manual(TRUE)
        /\ gimbal.owner = "track" /\ gimbal.turning <=> gimbal = Track(TRUE)
    BY <1>1, GimbalFields, Zenon
  <1>3. /\ Manual(TRUE) # Manual(FALSE) /\ Manual(TRUE) # Track(FALSE) /\ Manual(TRUE) # Track(TRUE)
        /\ Track(TRUE) # Track(FALSE) /\ Track(TRUE) # Manual(FALSE)
        /\ Manual(TRUE) \in Gimbal /\ Manual(FALSE) \in Gimbal /\ Track(FALSE) \in Gimbal
        /\ ~Manual(FALSE).turning /\ ~Track(FALSE).turning /\ Manual(TRUE).owner = "manual"
    BY GimbalFields
  <1>4. gimbal' \in Gimbal /\ rate' \in BOOLEAN /\ lost' \in BOOLEAN
    BY <1>1, <1>3, Zenon DEF Effect, ByNobody, ByLease, ByPulse, ByAcquire, ByStop, ByOther, ByClose
  <1>5. /\ gimbal'.owner = "manual" /\ gimbal'.turning <=> gimbal' = Manual(TRUE)
        /\ gimbal'.owner = "track" /\ gimbal'.turning <=> gimbal' = Track(TRUE)
    BY <1>4, GimbalFields, Zenon
  <1>6. running' /\ gimbal' = Manual(TRUE) => stop' # NoStop
    BY <1>2, <1>3, Zenon DEF Safety, NoRunaway, ManualTurning, Effect, ByNobody, ByLease, ByPulse,
       ByAcquire, ByStop, ByOther, ByClose
  <1>7. active' /\ gimbal'.turning => gimbal'.owner = "manual"
    BY <1>2, <1>3, Zenon DEF Safety, Exclusive, Effect, ByNobody, ByLease, ByPulse,
       ByAcquire, ByStop, ByOther, ByClose
  <1>8. active' => ~rate'
    BY Zenon DEF Safety, Paused, Effect, ByNobody, ByLease, ByPulse, ByAcquire, ByStop,
       ByOther, ByClose
  <1>9. gimbal' = Track(TRUE) => rate' \/ lost'
    <2>1. gimbal = Track(TRUE) => rate \/ lost
      BY <1>2, Zenon DEF Safety, TrackerKnown, TrackTurning
    <2>2. CASE ByNobody \/ ByLease \/ ByPulse
      <3>1. rate' = rate /\ lost' = lost
        BY <2>2, Zenon DEF ByNobody, ByLease, ByPulse
      <3>2. gimbal' = Track(TRUE) => gimbal = Track(TRUE)
        BY <2>2, <1>3, GimbalFields, Zenon DEF ByNobody, ByLease, ByPulse
      <3> QED
        BY <2>1, <3>1, <3>2, Zenon
    <2>3. CASE ByStop
      <3>1. CASE rate
        <4>1. ~active
          BY <3>1, Zenon DEF Safety, Paused
        <4> QED
          BY <2>3, <3>1, <4>1, <1>3, Zenon DEF ByStop
      <3>2. CASE ~rate
        <4>1. gimbal' = gimbal /\ lost' = lost
          BY <2>3, <3>2, Zenon DEF ByStop
        <4> QED
          BY <2>1, <3>2, <4>1, Zenon
      <3> QED
        BY <3>1, <3>2
    <2>4. CASE ByAcquire \/ ByOther \/ ByClose
      BY <2>4, <1>3, Zenon DEF ByAcquire, ByOther, ByClose
    <2> QED
      BY <2>2, <2>3, <2>4, Zenon DEF Effect
  <1> QED
    BY <1>4, <1>5, <1>6, <1>7, <1>8, <1>9, Zenon
       DEF Safety, NoRunaway, Exclusive, Paused, TrackerKnown, ManualTurning, TrackTurning

\* The location tracker's commands.
LEMMA LoopEndsEffect ==
    ASSUME TypeOK, Safety, LoopEnds
    PROVE  Effect
  <1>1. running /\ running' = running /\ active' = active /\ stop' = stop
    BY Zenon DEF LoopEnds, UpdateTargetSkip, UpdateTargetStop, UpdateTargetAngle, UpdateTargetRate, Periodic, manualVars
  <1>2. gimbal \in Gimbal /\ rate \in BOOLEAN /\ lost \in BOOLEAN /\ active \in BOOLEAN
    BY Zenon DEF TypeOK
  <1>3. CASE UpdateTargetSkip
    BY <1>1, <1>3, Zenon DEF UpdateTargetSkip, Effect, ByNobody
  <1>4. CASE UpdateTargetStop
    <2>1. TrackerStopped
      BY <1>4, Zenon DEF UpdateTargetStop, TrackerStopped
    <2> QED
      BY <1>1, <2>1, TrackerStoppedResult, Zenon DEF Effect, ByStop
  <1>5. CASE UpdateTargetAngle
    <2>0. PICK s \in StopTrackingRate(gimbal) :
            \E o \in Internal(s.gimbal, "track", FALSE) :
              gimbal' = o.gimbal /\ lost' = (s.lost \/ ~o.ok)
      BY <1>5, Zenon DEF UpdateTargetAngle
    <2>1. PICK o \in Internal(s.gimbal, "track", FALSE) :
            gimbal' = o.gimbal /\ lost' = (s.lost \/ ~o.ok)
      BY <2>0
    <2>2. ~active /\ rate' = FALSE
      BY <1>5, Zenon DEF UpdateTargetAngle
    <2>3. /\ s.lost \in BOOLEAN
          /\ s.gimbal = gimbal \/ s.gimbal = Track(FALSE)
          /\ ~rate => s.gimbal = gimbal /\ s.lost = lost
          /\ rate /\ ~s.lost /\ ~active => s.gimbal = Track(FALSE)
      BY StopTrackingResult DEF Track
    <2>4. /\ o.ok \in BOOLEAN
          /\ o.gimbal = s.gimbal \/ o.gimbal = Track(FALSE)
          /\ o.ok /\ ~active => o.gimbal = Track(FALSE)
      BY InternalResult DEF Track
    <2>5. gimbal' \in Gimbal
      BY <2>1, <2>3, <2>4, <1>2, GimbalFields, Zenon
    <2>6. Track(FALSE) # Track(TRUE) /\ Track(FALSE) # Manual(TRUE)
      BY GimbalFields
    <2>7. gimbal' = gimbal \/ gimbal' = Track(FALSE)
      BY <2>1, <2>3, <2>4, Zenon
    <2>8. lost' \/ gimbal' = Track(FALSE)
      BY <2>1, <2>2, <2>4, Zenon
    <2>9. lost' \in BOOLEAN
      BY <2>1, Zenon
    <2> QED
      BY <1>1, <1>2, <2>2, <2>5, <2>6, <2>7, <2>8, <2>9, Zenon DEF Effect, ByOther
  <1>6. CASE UpdateTargetRate
    <2>1. PICK o \in Internal(gimbal, "track", TRUE) :
            IF o.ok
            THEN rate' = TRUE /\ gimbal' = o.gimbal /\ lost' = FALSE
            ELSE /\ rate' = FALSE
                 /\ IF rate
                    THEN \E s \in StopTrackingRate(o.gimbal) : gimbal' = s.gimbal /\ lost' = s.lost
                    ELSE gimbal' = o.gimbal /\ lost' = TRUE
      BY <1>6, Zenon DEF UpdateTargetRate
    <2>2. ~active
      BY <1>6, Zenon DEF UpdateTargetRate
    <2>3. /\ o.ok \in BOOLEAN
          /\ o.gimbal = gimbal \/ o.gimbal = [owner |-> "track", turning |-> TRUE]
          /\ o.ok /\ ~active => o.gimbal = [owner |-> "track", turning |-> TRUE]
      BY InternalResult, Zenon
    <2>4. /\ Track(FALSE) # Track(TRUE) /\ Track(FALSE) # Manual(TRUE) /\ Track(TRUE) # Manual(TRUE)
          /\ Track(FALSE) \in Gimbal /\ Track(TRUE) \in Gimbal
      BY GimbalFields
    <2>5. CASE o.ok \/ ~rate
      <3>1. gimbal' = o.gimbal /\ (rate' \/ lost') /\ rate' \in BOOLEAN /\ lost' \in BOOLEAN
        BY <2>1, <2>5, Zenon
      <3> QED
        BY <1>1, <1>2, <2>2, <2>3, <2>4, <3>1, Zenon DEF Effect, ByOther, Track
    <2>6. CASE ~o.ok /\ rate
      <3>1. PICK s \in StopTrackingRate(o.gimbal) : gimbal' = s.gimbal /\ lost' = s.lost
        BY <2>1, <2>6, Zenon
      <3>2. /\ s.lost \in BOOLEAN
            /\ s.gimbal = o.gimbal \/ s.gimbal = Track(FALSE)
            /\ rate /\ ~s.lost /\ ~active => s.gimbal = Track(FALSE)
        BY StopTrackingResult DEF Track
      <3>3. rate' = FALSE
        BY <2>1, <2>6, Zenon
      <3> QED
        BY <1>1, <1>2, <2>2, <2>3, <2>4, <2>6, <3>1, <3>2, <3>3, Zenon DEF Effect, ByOther, Track
    <2> QED
      BY <2>5, <2>6, Zenon
  <1> QED
    BY <1>3, <1>4, <1>5, <1>6, Zenon DEF LoopEnds

\* The commands of the lease and its timers.
LEMMA ManualEffect ==
    ASSUME TypeOK, Safety, ManualStep
    PROVE  Effect
  <1>0. gimbal \in Gimbal /\ rate \in BOOLEAN /\ lost \in BOOLEAN /\ active \in BOOLEAN
    BY Zenon DEF TypeOK
  <1>1. CASE UpdateTimers
    <2>1. running' => running
      BY <1>1, Zenon DEF UpdateTimers
    <2>2. UNCHANGED <<rate, lost>> /\ (active' => active)
      BY <1>1, Zenon DEF UpdateTimers
    <2>3. CASE StopDue
      <3>1. PICK o : StopMotion(o) /\ gimbal' = o.gimbal
        BY <1>1, <2>3, Zenon DEF UpdateTimers
      <3> QED
        BY <2>1, <2>2, <3>1, StopMotionResult, Zenon DEF Effect, ByLease, Manual
    <2>4. CASE ~StopDue
      <3>1. UNCHANGED <<stop, gimbal>>
        BY <1>1, <2>4, Zenon DEF UpdateTimers
      <3> QED
        BY <2>1, <2>2, <3>1, Zenon DEF Effect, ByLease
    <2> QED
      BY <2>3, <2>4
  <1>2. CASE Acquire
    <2>1. PICK o : /\ StopMotion(o)
                   /\ IF o.ok
                      THEN /\ active' = TRUE
                           /\ lease' = Lease
                           /\ target' = Suspended
                           /\ rate' = FALSE
                           /\ \E s \in StopTrackingRate(o.gimbal) :
                                gimbal' = s.gimbal /\ lost' = s.lost
                      ELSE gimbal' = o.gimbal /\ UNCHANGED <<active, lease, target, rate, lost>>
      BY <1>2, Zenon DEF Acquire
    <2>2. running' = running /\ ~active
      BY <1>2, Zenon DEF Acquire, Packet
    <2>3. CASE o.ok
      <3>1. /\ lost' \in BOOLEAN
            /\ gimbal' = o.gimbal \/ gimbal' = Track(FALSE)
        BY <2>1, <2>3, StoppedTwice, Zenon
      <3>2. o.gimbal = Manual(FALSE)
        BY <2>1, <2>3, StopMotionResult, Zenon DEF Manual
      <3> QED
        BY <2>1, <2>2, <2>3, <3>1, <3>2, Zenon DEF Effect, ByAcquire
    <2>4. CASE ~o.ok
      <3>1. gimbal' = o.gimbal /\ UNCHANGED <<active, rate, lost>>
        BY <2>1, <2>4, Zenon
      <3>2. stop' # NoStop /\ (o.gimbal = gimbal \/ o.gimbal = Manual(FALSE))
        BY <2>1, <2>4, StopMotionResult, Zenon DEF Manual
      <3> QED
        BY <2>2, <3>1, <3>2, Zenon DEF Effect, ByLease
    <2> QED
      BY <2>3, <2>4
  <1>3. CASE Refuse \/ PacketsDone \/ \E t \in 0 .. issued : Renew(t)
    BY <1>3, Zenon DEF Refuse, PacketsDone, Renew, Owned, Packet, Effect, ByNobody
  <1>4. ASSUME NEW t \in 0 .. issued, Release(t) PROVE Effect
    <2>1. PICK o : StopMotion(o) /\ gimbal' = o.gimbal
      BY <1>4, Zenon DEF Release
    <2>2. running' = running /\ active /\ UNCHANGED <<rate, lost>>
      BY <1>4, Zenon DEF Release, Owned, Packet
    <2> QED
      BY <2>1, <2>2, StopMotionResult, Zenon DEF Effect, ByLease, Manual
  <1>5. ASSUME NEW t \in 0 .. issued, Move(t) PROVE Effect
    <2>1. PICK o \in Sent(gimbal, "manual", TRUE) : gimbal' = o.gimbal
      BY <1>5, Zenon DEF Move
    <2>2. running' = running /\ active /\ UNCHANGED <<rate, lost, active>> /\ stop' = Pulse
      BY <1>5, Zenon DEF Move, Owned, Packet
    <2>3. Pulse # NoStop
      BY GimbalControlAssumption DEF NoStop
    <2>4. /\ o.ok \in BOOLEAN
          /\ o.gimbal = gimbal \/ o.gimbal = [owner |-> "manual", turning |-> TRUE]
          /\ o.ok => o.gimbal = [owner |-> "manual", turning |-> TRUE]
      BY SentResult, Zenon
    <2> QED
      BY <2>1, <2>2, <2>3, <2>4, Zenon DEF Effect, ByPulse, Manual
  <1>6. ASSUME NEW t \in 0 .. issued, Center(t) PROVE Effect
    <2>1. PICK o \in Sent(gimbal, "manual", FALSE) :
            gimbal' = o.gimbal /\ stop' = IF o.ok THEN NoStop ELSE stop
      BY <1>6, Zenon DEF Center
    <2>2. running' = running /\ active' = active /\ UNCHANGED <<rate, lost>>
      BY <1>6, Zenon DEF Center, Owned, Packet
    <2>3. /\ o.ok \in BOOLEAN
          /\ o.gimbal = gimbal \/ o.gimbal = [owner |-> "manual", turning |-> FALSE]
          /\ o.ok => o.gimbal = [owner |-> "manual", turning |-> FALSE]
      BY SentResult, Zenon
    <2>4. o.ok \/ stop' = stop
      BY <2>1, Zenon
    <2> QED
      BY <2>1, <2>2, <2>3, <2>4, Zenon DEF Effect, ByLease, Manual
  <1> QED
    BY <1>1, <1>2, <1>3, <1>4, <1>5, <1>6, Zenon DEF ManualStep

\* Everybody else.
LEMMA OtherEffect ==
    ASSUME TypeOK, Counted, Safety, OtherStep
    PROVE  Effect
  <1>0. gimbal \in Gimbal /\ rate \in BOOLEAN /\ lost \in BOOLEAN /\ active \in BOOLEAN
    BY Zenon DEF TypeOK
  <1>1. CASE VendorCommand
    <2>1. PICK turning \in BOOLEAN : \E o \in Sent(gimbal, "vendor", turning) : gimbal' = o.gimbal
      BY <1>1, Zenon DEF VendorCommand
    <2>2. PICK o \in Sent(gimbal, "vendor", turning) : gimbal' = o.gimbal
      BY <2>1
    <2>3. /\ o.ok \in BOOLEAN
          /\ o.gimbal = gimbal \/ o.gimbal = [owner |-> "vendor", turning |-> turning]
          /\ o.ok => o.gimbal = [owner |-> "vendor", turning |-> turning]
      BY SentResult, Zenon
    <2>4. running' = running /\ ~active /\ active' = active /\ stop' = stop /\ UNCHANGED <<rate, lost>>
      BY <1>1, Zenon DEF VendorCommand, ManualBlocked, manualVars, trackVars
    <2>5. CASE gimbal' = gimbal
      BY <2>4, <2>5, Zenon DEF Effect, ByNobody
    <2>6. CASE gimbal' = [owner |-> "vendor", turning |-> turning]
      <3>1. gimbal' \in Gimbal /\ gimbal'.owner = "vendor"
        BY <2>6 DEF Gimbal, Owners
      <3>2. gimbal' # Manual(TRUE) /\ gimbal' # Track(TRUE)
        BY <3>1, GimbalFields
      <3> QED
        BY <1>0, <2>4, <3>1, <3>2, Zenon DEF Effect, ByOther
    <2> QED
      BY <2>2, <2>3, <2>5, <2>6, Zenon
  <1>2. CASE SetAttitude
    <2>1. PICK s \in StopTrackingRate(gimbal) :
            /\ lost' = s.lost
            /\ \/ gimbal' = s.gimbal
               \/ \E turning \in BOOLEAN :
                    \E o \in Internal(s.gimbal, "mavlink", turning) : gimbal' = o.gimbal
      BY <1>2, Zenon DEF SetAttitude
    <2>2. /\ running' = running /\ ~active /\ active' = active /\ stop' = stop
          /\ rate' = FALSE
      BY <1>2, Zenon DEF SetAttitude, Event, manualVars
    <2>3. CASE gimbal' = s.gimbal
      <3>1. TrackerStopped
        BY <2>1, <2>2, <2>3, Zenon DEF TrackerStopped
      <3> QED
        BY <2>2, <3>1, TrackerStoppedResult, Zenon DEF Effect, ByStop
    <2>4. CASE gimbal' # s.gimbal
      <3>1. PICK turning \in BOOLEAN :
              \E o \in Internal(s.gimbal, "mavlink", turning) : gimbal' = o.gimbal
        BY <2>1, <2>4, Zenon
      <3>2. PICK o \in Internal(s.gimbal, "mavlink", turning) : gimbal' = o.gimbal
        BY <3>1
      <3>3. /\ o.ok \in BOOLEAN
            /\ o.gimbal = s.gimbal \/ o.gimbal = [owner |-> "mavlink", turning |-> turning]
            /\ o.ok /\ ~active => o.gimbal = [owner |-> "mavlink", turning |-> turning]
        BY InternalResult, Zenon
      <3>4. gimbal' = [owner |-> "mavlink", turning |-> turning]
        BY <2>4, <3>2, <3>3, Zenon
      <3>5. gimbal' \in Gimbal /\ gimbal'.owner = "mavlink"
        BY <3>4 DEF Gimbal, Owners
      <3>6. gimbal' # Manual(TRUE) /\ gimbal' # Track(TRUE)
        BY <3>5, GimbalFields
      <3>7. lost' \in BOOLEAN
        BY <2>1, StopTrackingResult, Zenon
      <3> QED
        BY <1>0, <2>2, <3>5, <3>6, <3>7, Zenon DEF Effect, ByOther
    <2> QED
      BY <2>3, <2>4
  <1>3. CASE SetRoi
    BY <1>3, Zenon DEF SetRoi, Event, manualVars, Effect, ByNobody
  <1>4. CASE ClearRoi \/ ConfigureUndone
    <2>1. TrackerStopped
      BY <1>4, Zenon DEF ClearRoi, ConfigureUndone, TrackerStopped
    <2>2. running' = running /\ active' = active /\ stop' = stop
      BY <1>4, Zenon DEF ClearRoi, ConfigureUndone, Event, manualVars
    <2> QED
      BY <2>1, <2>2, TrackerStoppedResult, Zenon DEF Effect, ByStop
  <1>5. CASE Reconfigure
    <2>1. TrackerStopped /\ Elapse(Reopen) /\ running' = running /\ active' = active
      BY <1>5, Zenon DEF Reconfigure, TrackerStopped
    <2>2. stop # NoStop => stop' # NoStop
      BY <2>1, ElapseTyped, TypeParts, GimbalControlAssumption
    <2> QED
      BY <2>1, <2>2, TrackerStoppedResult, Zenon DEF Effect, ByStop
  <1>6. ASSUME NEW next \in [method : {"angle", "rate"}, targeting : BOOLEAN],
               ConfigureTracking(next)
        PROVE  Effect
    <2>1. running' = running /\ active' = active /\ stop' = stop
      BY <1>6, Zenon DEF ConfigureTracking, Event, manualVars
    <2>2. TrackerStopped \/ UNCHANGED <<rate, gimbal, lost>>
      BY <1>6, Zenon DEF ConfigureTracking, TrackerStopped
    <2>3. CASE TrackerStopped
      BY <2>1, <2>3, TrackerStoppedResult, Zenon DEF Effect, ByStop
    <2>4. CASE UNCHANGED <<rate, gimbal, lost>>
      BY <2>1, <2>4, Zenon DEF Effect, ByNobody
    <2> QED
      BY <2>2, <2>3, <2>4
  <1> QED
    BY <1>1, <1>2, <1>3, <1>4, <1>5, <1>6, LoopEndsEffect, Zenon DEF OtherStep

\* The end of the program.
LEMMA CloseEffect ==
    ASSUME TypeOK, Safety, Close
    PROVE  Effect
  <1>0. gimbal \in Gimbal /\ rate \in BOOLEAN /\ lost \in BOOLEAN /\ active \in BOOLEAN
    BY Zenon DEF TypeOK
  <1>1. running' = FALSE /\ active' = FALSE /\ rate' = FALSE
    BY Zenon DEF Close
  <1>2. gimbal = Track(TRUE) => ~active /\ (rate \/ lost)
    <2>1. Track(TRUE).owner = "track" /\ Track(TRUE).turning = TRUE
      BY GimbalFields, Zenon
    <2>2. "track" # "manual"
      OBVIOUS
    <2> QED
      BY <2>1, <2>2, Zenon DEF Safety, TrackerKnown, TrackTurning, Exclusive
  <1>3. /\ Manual(FALSE) \in Gimbal /\ Track(FALSE) \in Gimbal
        /\ Manual(FALSE) # Track(TRUE) /\ Track(FALSE) # Track(TRUE)
    BY GimbalFields
  <1>4. CASE active \/ stop # NoStop
    <2>1. PICK o : /\ StopMotion(o)
                   /\ \E s \in StopTrackingRate(o.gimbal) : gimbal' = s.gimbal /\ lost' = s.lost
      BY <1>4, Zenon DEF Close
    <2>2. /\ lost' \in BOOLEAN
          /\ gimbal' = o.gimbal \/ gimbal' = Track(FALSE)
          /\ ~rate => gimbal' = o.gimbal /\ lost' = lost
          /\ rate /\ ~lost' /\ ~active => gimbal' = Track(FALSE)
      BY <2>1, StoppedTwice, Zenon
    <2>3. o.gimbal = gimbal \/ o.gimbal = Manual(FALSE)
      BY <2>1, StopMotionResult, Zenon DEF Manual
    <2>4. gimbal' \in Gimbal
      BY <1>0, <1>3, <2>2, <2>3, Zenon
    <2>5. ASSUME gimbal' = Track(TRUE) PROVE lost'
      <3>1. gimbal = Track(TRUE)
        BY <1>3, <2>2, <2>3, <2>5, Zenon
      <3>2. CASE rate
        BY <1>2, <1>3, <2>2, <2>5, <3>1, <3>2, Zenon
      <3>3. CASE ~rate
        <4>1. lost /\ lost' = lost
          BY <1>2, <2>2, <3>1, <3>3, Zenon
        <4> QED
          BY <4>1, Zenon
      <3> QED
        BY <3>2, <3>3
    <2> QED
      BY <1>1, <2>2, <2>4, <2>5, Zenon DEF Effect, ByClose
  <1>5. CASE ~(active \/ stop # NoStop)
    <2>1. TrackerStopped
      BY <1>1, <1>5, Zenon DEF Close, TrackerStopped
    <2>2. /\ lost' \in BOOLEAN
          /\ gimbal' = gimbal \/ gimbal' = Track(FALSE)
          /\ ~rate => gimbal' = gimbal /\ lost' = lost
          /\ rate /\ ~lost' /\ ~active => gimbal' = Track(FALSE)
      BY <2>1, TrackerStoppedResult, Zenon
    <2>3. ASSUME gimbal' = Track(TRUE) PROVE lost'
      <3>1. gimbal = Track(TRUE)
        BY <1>3, <2>2, <2>3, Zenon
      <3>2. CASE rate
        BY <1>2, <1>3, <2>2, <2>3, <3>1, <3>2, Zenon
      <3>3. CASE ~rate
        <4>1. lost /\ lost' = lost
          BY <1>2, <2>2, <3>1, <3>3, Zenon
        <4> QED
          BY <4>1, Zenon
      <3> QED
        BY <3>2, <3>3
    <2>4. gimbal' \in Gimbal
      BY <1>0, <1>3, <2>2, Zenon
    <2> QED
      BY <1>1, <2>2, <2>3, <2>4, Zenon DEF Effect, ByClose
  <1> QED
    BY <1>4, <1>5

LEMMA EffectStep ==
    ASSUME TypeOK, Counted, Safety, [Next]_vars
    PROVE  Effect
  <1>1. CASE Poll
    <2>1. PICK n \in 0 .. 1 : Elapse(n)
      BY <1>1, Zenon DEF Poll
    <2>2. UNCHANGED <<gimbal, rate, lost, active>> /\ running' = running
      BY <1>1, Zenon DEF Poll
    <2>3. stop # NoStop => stop' # NoStop
      BY <2>1, ElapseTyped, TypeParts
    <2> QED
      BY <2>2, <2>3, Zenon DEF Effect, ByNobody
  <1>2. CASE UNCHANGED vars
    BY <1>2, Zenon DEF vars, Effect, ByNobody
  <1> QED
    BY <1>1, <1>2, ManualEffect, OtherEffect, CloseEffect, Zenon DEF Next

\* Flags and positions that the effect on the gimbal does not speak of.
LEMMA ControlStep ==
    ASSUME TypeOK, [Next]_vars
    PROVE  /\ running' \in BOOLEAN /\ active' \in BOOLEAN /\ target' \in BOOLEAN
           /\ pc' \in {"poll", "timers", "packets", "events"}
           /\ settings' \in [method : {"angle", "rate"}, targeting : BOOLEAN]
  <1> DEFINE Settings == [method : {"angle", "rate"}, targeting : BOOLEAN]
             Places == {"poll", "timers", "packets", "events"}
  <1> SUFFICES /\ running' \in BOOLEAN /\ active' \in BOOLEAN /\ target' \in BOOLEAN
               /\ pc' \in Places /\ settings' \in Settings
    OBVIOUS
  <1>1. /\ running \in BOOLEAN /\ active \in BOOLEAN /\ target \in BOOLEAN
        /\ pc \in Places /\ settings \in Settings
    BY Zenon DEF TypeOK
  <1>2. "poll" \in Places /\ "timers" \in Places /\ "packets" \in Places /\ "events" \in Places
    OBVIOUS
  <1>0. \/ Poll \/ UpdateTimers \/ PacketsDone \/ Refuse \/ UNCHANGED vars
        \/ Acquire
        \/ \E t \in 0 .. issued : Release(t) \/ Renew(t) \/ Move(t) \/ Center(t)
        \/ VendorCommand \/ SetAttitude \/ SetRoi \/ ClearRoi \/ Reconfigure \/ ConfigureUndone
        \/ \E next \in Settings : ConfigureTracking(next)
        \/ LoopEnds \/ Close
    BY Zenon DEF Next, ManualStep, OtherStep
  <1> HIDE DEF Settings, Places
  <1>3. CASE Poll \/ UpdateTimers \/ PacketsDone \/ Refuse \/ UNCHANGED vars
    BY <1>1, <1>2, <1>3, Zenon DEF Poll, UpdateTimers, PacketsDone, Refuse, Packet, vars
  <1>4. CASE Acquire
    <2>1. UNCHANGED <<running, pc, settings>>
      BY <1>4, Zenon DEF Acquire, Packet
    <2>2. (active' = TRUE /\ target' = target) \/ UNCHANGED <<active, target>>
      BY <1>4, Zenon DEF Acquire, Suspended
    <2> QED
      BY <1>1, <2>1, <2>2, Zenon
  <1>5. CASE \E t \in 0 .. issued : Release(t) \/ Renew(t) \/ Move(t) \/ Center(t)
    <2>1. UNCHANGED <<running, pc, settings, target>>
      BY <1>5, Zenon DEF Release, Renew, Move, Center, Owned, Packet
    <2>2. active' = active \/ \E o : active' = ~o.ok
      BY <1>5, Zenon DEF Release, Renew, Move, Center
    <2> QED
      BY <1>1, <2>1, <2>2, Zenon
  <1>6. CASE VendorCommand \/ SetAttitude \/ SetRoi \/ ClearRoi \/ Reconfigure \/ ConfigureUndone
    BY <1>1, <1>6, Zenon DEF VendorCommand, SetAttitude, SetRoi, ClearRoi, Reconfigure,
       ConfigureUndone, Event, manualVars, trackVars
  <1>7. CASE \E next \in Settings : ConfigureTracking(next)
    BY <1>1, <1>7, Zenon DEF ConfigureTracking, Event, manualVars
  <1>8. CASE LoopEnds \/ Close
    BY <1>1, <1>2, <1>8, Zenon DEF LoopEnds, UpdateTargetSkip, UpdateTargetStop, UpdateTargetAngle,
       UpdateTargetRate, Periodic, manualVars, Close
  <1> QED
    BY <1>0, <1>3, <1>4, <1>5, <1>6, <1>7, <1>8, Zenon

LEMMA Initial == Init => IInv
  <1> SUFFICES ASSUME Init PROVE IInv
    OBVIOUS
  <1>1. TypeNumbers
    BY GimbalControlAssumption DEF Init, TypeNumbers, Overlong
  <1>2. TypeFlags
    BY Zenon DEF Init, TypeFlags
  <1>3. TypeOthers /\ gimbal.turning = FALSE
    BY DEF Init, TypeOthers, Gimbal, Owners
  <1>4. Safety
    <2>1. ~gimbal.turning /\ ~active
      BY <1>3, Zenon DEF Init
    <2> QED
      BY <2>1, Zenon DEF Safety, NoRunaway, Exclusive, Paused, TrackerKnown, ManualTurning, TrackTurning
  <1> QED
    BY <1>1, <1>2, <1>3, <1>4, TypeParts, Zenon DEF IInv, Safety

LEMMA Step == IInv /\ [Next]_vars => IInv'
  <1> SUFFICES ASSUME IInv, [Next]_vars PROVE IInv'
    OBVIOUS
  <1>1. TypeOK /\ Counted /\ Safety
    BY Zenon DEF IInv, Safety
  <1>2. TypeNumbers'
    BY <1>1, NumbersStep, TypeParts, Zenon
  <1>3. Safety' /\ gimbal' \in Gimbal /\ rate' \in BOOLEAN /\ lost' \in BOOLEAN
    BY <1>1, EffectStep, SafetyStep, Zenon
  <1>4. TypeFlags' /\ TypeOthers'
    BY <1>1, <1>3, ControlStep, Zenon DEF TypeFlags, TypeOthers
  <1>5. TypeOK' /\ Counted'
    BY <1>2, <1>4, Zenon DEF TypeOK, Counted, TypeNumbers, TypeFlags, TypeOthers
  <1> QED
    BY <1>3, <1>5, Zenon DEF IInv, Safety

\* The invariant behind the theorems: the types, the bookkeeping of tokens, and
\* that a lease begins with the tracker at rest (Paused).
THEOREM Inductive == Spec => []IInv
  BY Initial, Step, PTL DEF Spec

\* Every variable of manual control, tracker and gimbal keeps its type.
THEOREM TypeCorrect == Spec => []TypeOK
  <1>1. IInv => TypeOK
    BY Zenon DEF IInv
  <1> QED
    BY <1>1, Inductive, PTL

\* stop_motion and command never forget a gimbal that a page has set turning.
THEOREM NeverForgotten == Spec => []NoRunaway
  <1>1. IInv => NoRunaway
    BY Zenon DEF IInv
  <1> QED
    BY <1>1, Inductive, PTL

\* Under a lease only the page that holds it keeps the gimbal turning.
THEOREM LeaseExclusive == Spec => []Exclusive
  <1>1. IInv => Exclusive
    BY Zenon DEF IInv
  <1> QED
    BY <1>1, Inductive, PTL

\* tracking_rate_active is set while the tracker turns the gimbal, unless a
\* command of the tracker failed.
THEOREM TrackerAccounted == Spec => []TrackerKnown
  <1>1. IInv => TrackerKnown
    BY Zenon DEF IInv
  <1> QED
    BY <1>1, Inductive, PTL

\* While a lease lasts no command of another controller reaches the gimbal.
THEOREM LeaseUndisturbed == Spec => Undisturbed
  <1>1. ASSUME IInv, [Next]_vars
        PROVE  [active /\ active' => gimbal' = gimbal \/ gimbal'.owner = "manual"]_vars
    <2>1. TypeOK /\ Counted /\ Safety
      BY <1>1, Zenon DEF IInv, Safety
    <2>2. Effect
      BY <1>1, <2>1, EffectStep, Zenon
    <2>3. active => ~rate
      BY <2>1, Zenon DEF Safety, Paused
    <2>4. Manual(TRUE).owner = "manual" /\ Manual(FALSE).owner = "manual"
      BY GimbalFields, Zenon
    <2> QED
      BY <2>2, <2>3, <2>4, Zenon DEF Effect, ByNobody, ByLease, ByPulse, ByAcquire, ByStop,
         ByOther, ByClose
  <1> QED
    BY <1>1, Inductive, PTL DEF Spec, Undisturbed

\* From the first moment of a lease to the last, only the settings can take a
\* location target away.
THEOREM TargetSurvives == Spec => TargetKept
  <1>1. ASSUME [Next]_vars
        PROVE  [(active \/ active') /\ settings' = settings => target' = target]_vars
    <2>1. CASE Poll \/ ManualStep \/ Close \/ UNCHANGED vars
      BY <2>1, Zenon DEF Poll, ManualStep, UpdateTimers, Acquire, Suspended, Refuse, Release, Renew,
         Move, Center, PacketsDone, Close, vars
    <2>2. CASE OtherStep
      BY <2>2, Zenon DEF OtherStep, VendorCommand, SetAttitude, SetRoi, ClearRoi, Reconfigure,
         ConfigureTracking, ConfigureUndone, LoopEnds, UpdateTargetSkip, UpdateTargetStop,
         UpdateTargetAngle, UpdateTargetRate, Periodic, Event, manualVars, trackVars
    <2> QED
      BY <1>1, <2>1, <2>2, Zenon DEF Next
  <1> QED
    BY <1>1, PTL DEF Spec, TargetKept
=============================================================================
