----------------------------- MODULE NewestQueue -----------------------------
(***************************************************************************)
(* What a message queue of the SupportProxy link promises, whatever memory *)
(* it uses: messages are numbered as they are given; the taker gets, each  *)
(* time, the oldest it has not got of the newest Size.  So messages arrive *)
(* in order and once, and one is lost only when Size newer ones wait.      *)
(***************************************************************************)
EXTENDS Integers

CONSTANT Size
VARIABLES given, taken  \* number of the last message given, and taken

queueVars == <<given, taken>>
Init == given = 0 /\ taken = 0
Oldest == 1 + (IF taken < given - Size THEN given - Size ELSE taken)
Give == given' = given + 1 /\ UNCHANGED taken
Take == Oldest <= given /\ taken' = Oldest /\ UNCHANGED given
Spec == Init /\ [][Give \/ Take]_queueVars
=============================================================================
