--------------------------- MODULE GimbalBackend ---------------------------
(***************************************************************************)
(* What the gimbal backends of the MT11 and of the SIYI cameras (A8, ZR10)  *)
(* remember of the gimbal: the absolute angle last transmitted, so that an  *)
(* identical request is not sent again, the attitude last reported, and how *)
(* the camera is mounted, which decides the signs on the wire.  The gimbal  *)
(* controller is outside the program: it turns to the angle it was given,   *)
(* and it may lose a command, be moved by somebody else or restart without  *)
(* telling anyone.                                                          *)
(*                                                                         *)
(* One joint with the angles -1..1; an inverted mount changes its sign on   *)
(* the wire.  Times are ticks, held at Hold, one second.                    *)
(***************************************************************************)
EXTENDS Integers

CONSTANTS Hold,       \* ticks in the second an identical target is held back
          MaxUpsets   \* bound on lost commands, other movements and wrong replies
ASSUME BackendAssumption == Hold \in Nat \ {0} /\ MaxUpsets \in Nat

Angles == -1 .. 1
Upright == 1
Inverted == 2

VARIABLES
  build,       \* "mt11" or "siyi"
  orientation, \* what the configuration says of the mount
  mounted,     \* how the camera really hangs
  gimbal,      \* the controller: where it is and where it is going
  want,        \* the angle the autopilot keeps requesting
  direction, known, inferred, \* mounting_direction and what it rests on
  asked,       \* a mounting query is at the controller
  queried,     \* age of the last mounting query
  target,      \* struct ca_angle_target, sent_ms as an age
  seen,        \* the last attitude, timestamp_ms as an age
  upsets
backendVars == <<build, orientation, mounted, gimbal, want, direction, known,
                 inferred, asked, queried, target, seen, upsets>>

\* apcam_transform: its matrices are their own inverses.
Signed(d, angle) == IF d = Inverted THEN -angle ELSE angle
Older(age) == IF age < Hold THEN age + 1 ELSE age
Upset == upsets < MaxUpsets /\ upsets' = upsets + 1

\* ca_backend_open and send_startup.
BackendInit ==
    /\ build \in {"mt11", "siyi"}
    /\ orientation \in {"auto", "upright", "inverted"}
    /\ mounted \in {Upright, Inverted}
    /\ gimbal = [at |-> 0, goal |-> 0]
    /\ want \in {-1, 1}
    /\ direction = IF orientation = "inverted" THEN Inverted ELSE Upright
    /\ known = (orientation # "auto")
    /\ inferred = FALSE
    /\ asked \in BOOLEAN /\ (build = "mt11" => asked) \* the ZR10's send_startup does not ask
    /\ queried = 0
    /\ target = [valid |-> FALSE, wire |-> 0, age |-> Hold]
    /\ seen = [have |-> FALSE, at |-> 0, moving |-> FALSE, age |-> Hold]
    /\ upsets = 0

(***************************************************************************)
(* Time, and the controller as the program meets it.                        *)
(***************************************************************************)
Turns(g) == [g EXCEPT !.at = CASE g.at < g.goal -> g.at + 1
                               [] g.at > g.goal -> g.at - 1
                               [] OTHER -> g.at]
BackendTick ==
    /\ gimbal' = Turns(gimbal)
    /\ target' = [target EXCEPT !.age = Older(@)]
    /\ seen' = [seen EXCEPT !.age = Older(@)]
    /\ queried' = Older(queried)
    /\ UNCHANGED <<build, orientation, mounted, want, direction, known, inferred, asked, upsets>>

\* The controller restarts, or is moved by hand: the program hears nothing.
Disturbed ==
    /\ Upset
    /\ \E goal \in Angles \ {gimbal.goal} : gimbal' = [gimbal EXCEPT !.goal = goal]
    /\ UNCHANGED <<build, orientation, mounted, want, direction, known, inferred, asked, queried,
                   target, seen>>

(***************************************************************************)
(* Commands.                                                                *)
(***************************************************************************)
\* ca_angle_target_invalidate_siyi: movement from anywhere else.
Invalidated(t) == [t EXCEPT !.valid = FALSE]
\* ca_angle_target_sent
Remembered(wire) == [valid |-> TRUE, wire |-> wire, age |-> 0]

\* Mutant of Suppressed: whatever was last transmitted is held back for good.
mutant_Suppressed(wire) == target.valid /\ target.wire = wire
\* ca_angle_target_suppress
Suppressed(wire) ==
    /\ target.valid /\ target.wire = wire
    /\ \/ target.age < Hold
       \/ seen.have /\ seen.age < Hold /\ (seen.at = want \/ seen.moving)

\* ca_backend_set_gimbal_angles.  The write fails, is lost on the line, or
\* reaches the controller.
SetGimbalAngles ==
    LET wire == Signed(direction, want) IN
    /\ ~Suppressed(wire)
    /\ \/ Upset /\ target' = Invalidated(target) /\ UNCHANGED gimbal
       \/ Upset /\ target' = Remembered(wire) /\ UNCHANGED gimbal
       \/ /\ target' = Remembered(wire)
          /\ gimbal' = [gimbal EXCEPT !.goal = Signed(mounted, wire)]
          /\ UNCHANGED upsets
    /\ UNCHANGED <<build, orientation, mounted, want, direction, known, inferred, asked, queried, seen>>

\* Rates, neutral, and a vendor packet passed on by ca_backend_handle_siyi:
\* the cached target goes before the write, whatever becomes of the write.
MoveElsewhere ==
    /\ Upset
    /\ target' = Invalidated(target)
    /\ \E goal \in Angles : gimbal' = [gimbal EXCEPT !.goal = goal]
    /\ UNCHANGED <<build, orientation, mounted, want, direction, known, inferred, asked, queried, seen>>

\* The autopilot changes its mind.
Retarget ==
    /\ Upset
    /\ want' \in {-1, 1} \ {want}
    /\ UNCHANGED <<build, orientation, mounted, gimbal, direction, known, inferred, asked, queried,
                   target, seen>>

(***************************************************************************)
(* Mounting.                                                                *)
(***************************************************************************)
\* The mount the configuration and a report d amount to.
Effective(d) == CASE orientation = "auto" -> d
                  [] orientation = "inverted" -> Inverted
                  [] OTHER -> Upright
DirectionBecomes(d) ==
    /\ direction' = d
    /\ target' = IF d # direction THEN Invalidated(target) ELSE target

\* handle_private 0x17, the MT11's report.  If the picture cannot be turned
\* the report is believed as it came.
MountingReported(d) ==
    /\ build = "mt11"
    /\ \/ d = mounted /\ UNCHANGED upsets
       \/ d # mounted /\ Upset
    /\ \/ DirectionBecomes(Effective(d))
       \/ DirectionBecomes(d)
    /\ asked' = FALSE
    /\ UNCHANGED <<build, orientation, mounted, gimbal, want, known, inferred, queried, seen>>

\* apply_mounting_direction of the SIYI backend: a picture that cannot be
\* turned leaves everything as it was.
ApplyMountingDirection(d) ==
    \/ DirectionBecomes(Effective(d)) /\ known' = TRUE
    \/ UNCHANGED <<direction, target, known>>

\* handle_frame, A8_SUB_MOUNTING.  While it starts the controller may answer
\* wrongly.
MountingReply(d) ==
    /\ build = "siyi" /\ asked
    /\ \/ d = mounted /\ UNCHANGED upsets
       \/ d # mounted /\ Upset
    /\ asked' = FALSE
    /\ IF inferred THEN UNCHANGED <<direction, target, known>> ELSE ApplyMountingDirection(d)
    /\ UNCHANGED <<build, orientation, mounted, gimbal, want, inferred, queried, seen>>

\* The query or its answer is lost.
MountingLost ==
    /\ asked /\ asked' = FALSE
    /\ UNCHANGED <<build, orientation, mounted, gimbal, want, direction, known, inferred, queried,
                   target, seen, upsets>>

\* ca_backend_periodic asks again each second until the mounting is known.
QueryMounting ==
    /\ build = "siyi" /\ orientation = "auto" /\ ~known
    /\ queried = Hold
    /\ queried' = 0 /\ asked' = TRUE
    /\ UNCHANGED <<build, orientation, mounted, gimbal, want, direction, known, inferred, target,
                   seen, upsets>>

(***************************************************************************)
(* Attitude.                                                                *)
(***************************************************************************)
\* Only an inverted mount can show a raw pitch beyond 90 degrees, and only
\* while the camera is nearly level.
Infers(beyond) ==
    beyond /\ build = "siyi" /\ orientation = "auto" /\ ~known /\ mounted = Inverted

\* handle_private and update_attitude: the angle comes from the wire through
\* the mount the backend believes in, the rates only with a SIYI 0x0d reply.
Attitude(rates) ==
    /\ \E beyond \in BOOLEAN :
         \/ /\ Infers(beyond)
            /\ ApplyMountingDirection(Inverted)
            /\ inferred' = known'
         \/ ~Infers(beyond) /\ UNCHANGED <<direction, target, known, inferred>>
    /\ seen' = [have |-> TRUE, age |-> 0,
                at |-> Signed(direction', Signed(mounted, gimbal.at)),
                moving |-> IF rates THEN gimbal.at # gimbal.goal ELSE seen.moving]
    /\ UNCHANGED <<build, orientation, mounted, gimbal, want, asked, queried, upsets>>
\* The reply to ca_backend_request_gimbal_attitude.
AttitudeReply == Attitude(TRUE)
\* The A8's own stream, A8_SUB_ATTITUDE.
AttitudeStream == build = "siyi" /\ Attitude(FALSE)

BackendNext ==
    \/ BackendTick \/ Disturbed \/ SetGimbalAngles \/ MoveElsewhere \/ Retarget
    \/ \E d \in {Upright, Inverted} : MountingReported(d) \/ MountingReply(d)
    \/ MountingLost \/ QueryMounting \/ AttitudeReply \/ AttitudeStream

\* Time passes, the autopilot repeats its request, and the attitude polled at
\* 10 Hz keeps being answered.
BackendFairness ==
    WF_backendVars(BackendTick) /\ WF_backendVars(SetGimbalAngles) /\ WF_backendVars(AttitudeReply)

(***************************************************************************)
(* Properties.                                                              *)
(***************************************************************************)
\* Holding back identical requests never strands the gimbal: once nothing
\* disturbs it any more, and if the backend has the mounting right, a request
\* that is repeated is reached, whatever was lost or moved before.
TargetReached == <>[](direction = mounted) => <>[](gimbal.at = want)

=============================================================================
