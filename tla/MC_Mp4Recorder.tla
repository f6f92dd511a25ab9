-------------------------- MODULE MC_Mp4Recorder ---------------------------
(* The encoder sends its parameter sets with an IDR, or one of them alone and *)
(* never again; IDRs without parameter sets, and other pictures.  A fragment  *)
(* takes 1 or 2 bytes, a part rolls over from 2 bytes on and may hold 4: a    *)
(* part fills up without an IDR to roll over at, and a roll-over is put off   *)
(* while the part before is still being closed.                               *)
EXTENDS Mp4Recorder
MCKinds ==
    {[hdr |-> {"sps"}, pic |-> FALSE, idr |-> FALSE, length |-> 1],
     [hdr |-> {"pps"}, pic |-> TRUE, idr |-> TRUE, length |-> 1],
     [hdr |-> {"sps", "pps"}, pic |-> TRUE, idr |-> TRUE, length |-> 1],
     [hdr |-> {}, pic |-> TRUE, idr |-> TRUE, length |-> 1],
     [hdr |-> {}, pic |-> TRUE, idr |-> FALSE, length |-> 1]}
=============================================================================
