----------------------------- MODULE MC_Cameras -----------------------------
(* The cameras behind the protocols, in five scenes that share no state:     *)
(*   bring up  every target, three encoder channels, opened twice in a row;  *)
(*   lens      two calibration rows with overlapping focus ranges, one of    *)
(*             them longer than two coarse steps; two failures;              *)
(*   thermal   frames of two payloads, up to two lost in a row, two          *)
(*             transfers in flight, one client, two callers;                 *)
(*   sigma     the A8 and the ZR10, two image settings, two digital zooms;   *)
(*   siyi      the requests of SIYI clients on all three cameras.            *)
EXTENDS BringUp, Mt11Focus, Thermal, SigmaMedia, SiyiCamera

TwoRows == <<[zoom |-> 2, focus |-> 0, min |-> 0, max |-> 4],
             [zoom |-> 4, focus |-> 3, min |-> 2, max |-> 10]>>

VARIABLE scene
camerasVars == <<scene, bringUpVars, focusVars, thermalVars, sigmaVars, siyiVars>>

\* One initial state of the scenes that are not played.
Still(name, v) == scene # name => v
Init ==
    /\ scene \in {"bring up", "lens", "thermal", "sigma", "siyi"}
    /\ BringUpInit /\ FocusInit /\ ThermalInit /\ SiyiCameraInit
    /\ IF scene = "sigma" THEN SigmaInit ELSE SigmaFrom("gone")
    /\ Still("bring up", target = "app")
    /\ Still("lens", peak = 4)
    /\ Still("thermal", device.frame = 1)
    /\ Still("sigma", maker = "a8" /\ image = "a" /\ media_inverted)
    /\ Still("siyi", camera = "mt11")
Next ==
    /\ UNCHANGED scene
    /\ \/ /\ scene = "bring up" /\ BringUpNext
          /\ UNCHANGED <<focusVars, thermalVars, sigmaVars, siyiVars>>
       \/ /\ scene = "lens" /\ FocusNext
          /\ UNCHANGED <<bringUpVars, thermalVars, sigmaVars, siyiVars>>
       \/ /\ scene = "thermal" /\ ThermalNext
          /\ UNCHANGED <<bringUpVars, focusVars, sigmaVars, siyiVars>>
       \/ /\ scene = "sigma" /\ SigmaNext
          /\ UNCHANGED <<bringUpVars, focusVars, thermalVars, siyiVars>>
       \/ /\ scene = "siyi" /\ SiyiCameraNext
          /\ UNCHANGED <<bringUpVars, focusVars, thermalVars, sigmaVars>>
\* The fairness of each module, in its own scene.
Fairness ==
    /\ WF_bringUpVars(scene = "bring up" /\ UndoStep) /\ WF_bringUpVars(scene = "bring up" /\ CloseDone)
    /\ WF_bringUpVars(scene = "bring up" /\ \E r \in alive : Stops(r))
    /\ WF_thermalVars(scene = "thermal" /\ ThermalThread)
    /\ WF_thermalVars(scene = "thermal" /\ (AcceptFails \/ Copy \/ Send))
    /\ WF_thermalVars(scene = "thermal" /\ (Discard \/ AllDiscarded \/ JoinThermal \/ CloseFd \/ CloseServer \/ JoinServer))
Spec == Init /\ [][Next]_camerasVars /\ Fairness
=============================================================================
