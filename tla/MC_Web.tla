------------------------------- MODULE MC_Web -------------------------------
(* Three scenes that share no state: the files, a restart, or camera.ini *)
(* between its writers and the running application.                      *)
EXTENDS WebAccess, WebRestart, ConfigSync

\* The ZR10, which alone keeps its configuration beneath MEDIA_ROOT.
Zr10CardFiles == {Password, Config, Backup}

VARIABLE scene
webVars == <<scene, accessVars, restartVars, configVars>>
Init ==
    /\ AccessInit /\ RestartInit /\ ConfigInit
    /\ scene \in {"files", "restart", "config"} /\ (scene # "restart" => target = "mt11")
Next ==
    /\ UNCHANGED scene
    /\ \/ scene = "files" /\ AccessNext /\ UNCHANGED <<restartVars, configVars>>
       \/ scene = "restart" /\ RestartNext /\ UNCHANGED <<accessVars, configVars>>
       \/ scene = "config" /\ ConfigNext /\ UNCHANGED <<accessVars, restartVars>>
\* RestartFairness and ConfigFairness, each in its own scene.
Fairness ==
    /\ WF_restartVars(scene = "restart" /\ AppStep) /\ WF_restartVars(scene = "restart" /\ LauncherStep)
    /\ \A w \in Restarters : WF_restartVars(scene = "restart" /\ RestarterStep(w))
    /\ WF_configVars(scene = "config" /\ ReaderStep)
Spec == Init /\ [][Next]_webVars /\ Fairness
=============================================================================
