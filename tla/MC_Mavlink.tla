----------------------------- MODULE MC_Mavlink -----------------------------
(* Seven scenes that share no state: the links, the bytes on the UART, the *)
(* camera commands, the file transfer, the relay to the SupportProxy, the  *)
(* video that is published there, and the gimbal backend the commands end  *)
(* in.  The video's lengths of 1 and 3 against a limit of 4 bytes and 3    *)
(* frames reach either limit first in some behaviours; 5 never fits.       *)
EXTENDS SupportVideo, MavlinkLinks, MavlinkUart, MavlinkCamera, CameraFtp, SupportMavlink, GimbalBackend

VARIABLE scene
mavlinkVars == <<scene, serverVars, uartVars, cameraVars, ftpVars, linkVars, vars, backendVars>>
MavlinkInit ==
    /\ scene \in {"links", "uart", "camera", "ftp", "relay", "video", "backend"}
    /\ ServerInit /\ UartInit /\ CameraInit /\ FtpInit /\ LinkInit /\ Init /\ BackendInit
    \* what only one scene starts with in several ways
    /\ scene # "links" => ~uart /\ system = 1
    /\ scene # "camera" => settings.autorecord = "off"
    /\ scene # "relay" => clock = 1
    /\ scene # "backend" => build = "mt11" /\ orientation = "auto" /\ mounted = Inverted /\ want = 1
MavlinkNext ==
    /\ UNCHANGED scene
    /\ \/ /\ scene = "links" /\ ServerNext
          /\ UNCHANGED <<uartVars, cameraVars, ftpVars, linkVars, vars, backendVars>>
       \/ /\ scene = "uart" /\ UartNext
          /\ UNCHANGED <<serverVars, cameraVars, ftpVars, linkVars, vars, backendVars>>
       \/ /\ scene = "camera" /\ CameraNext
          /\ UNCHANGED <<serverVars, uartVars, ftpVars, linkVars, vars, backendVars>>
       \/ /\ scene = "ftp" /\ FtpNext
          /\ UNCHANGED <<serverVars, uartVars, cameraVars, linkVars, vars, backendVars>>
       \/ /\ scene = "relay" /\ LinkNext
          /\ UNCHANGED <<serverVars, uartVars, cameraVars, ftpVars, vars, backendVars>>
       \/ /\ scene = "video" /\ Next
          /\ UNCHANGED <<serverVars, uartVars, cameraVars, ftpVars, linkVars, backendVars>>
       \/ /\ scene = "backend" /\ BackendNext
          /\ UNCHANGED <<serverVars, uartVars, cameraVars, ftpVars, linkVars, vars>>
\* BackendFairness and that of SupportVideo's FairSpec, each in its own scene.
MavlinkFairness ==
    /\ WF_backendVars(scene = "backend" /\ BackendTick)
    /\ WF_backendVars(scene = "backend" /\ SetGimbalAngles)
    /\ WF_backendVars(scene = "backend" /\ AttitudeReply)
    /\ WF_vars(scene = "video" /\ Publisher) /\ WF_vars(scene = "video" /\ (CloseSignal \/ CloseJoin))
MavlinkSpec == MavlinkInit /\ [][MavlinkNext]_mavlinkVars /\ MavlinkFairness
=============================================================================
