------------------------------ MODULE MC_Control ------------------------------
(* What the commands of the event loop do, in two scenes that share no state: *)
(*   gimbal  manual control, its clients and rivals; ticks are scaled to a    *)
(*           lease of four, a pulse of two and a retry of one;                *)
(*   mt11    the MT11 media: three zooms of which two use the zoom lens, and  *)
(*           three commands, the third of which meets what the second, having *)
(*           failed, has left of the first.                                   *)
EXTENDS GimbalControl, Mt11Media

VARIABLE scene
controlVars == <<scene, vars, mediaVars>>

ControlInit ==
    /\ scene \in {"gimbal", "mt11"}
    /\ Init /\ MediaInit
    \* what only one scene starts with in several ways
    /\ scene # "gimbal" => settings = [method |-> "angle", targeting |-> FALSE]
    /\ scene # "mt11" => config = "a"
ControlNext ==
    /\ UNCHANGED scene
    /\ \/ scene = "gimbal" /\ Next /\ UNCHANGED mediaVars
       \/ scene = "mt11" /\ MediaNext /\ UNCHANGED vars
\* The fairness of GimbalControl's FairSpec, in its own scene.
OfGimbal(A) == scene = "gimbal" /\ A
ControlFairness ==
    /\ WF_vars(OfGimbal(Poll)) /\ SF_vars(OfGimbal(Poll /\ Elapse(1)))
    /\ WF_vars(OfGimbal(UpdateTimers)) /\ SF_vars(OfGimbal(StopReaches))
    /\ WF_vars(OfGimbal(PacketsDone))
    /\ WF_vars(OfGimbal(LoopEnds))
ControlSpec == ControlInit /\ [][ControlNext]_controlVars /\ ControlFairness
=============================================================================
