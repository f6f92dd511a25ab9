----------------------------- MODULE MC_Binlog -----------------------------
(***************************************************************************)
(* Small instances of Binlog for TLC; the values are in the cfg files.     *)
(***************************************************************************)
EXTENDS Binlog
=============================================================================
