---------------------------- MODULE MCFileGuard ----------------------------
(***************************************************************************)
(* FileGuard with two threads of one Java machine and one of another.      *)
(***************************************************************************)
EXTENDS FileGuard, TLC

CONSTANTS a1, a2, b

MCMachineOf == a1 :> "A" @@ a2 :> "A" @@ b :> "B"
=============================================================================
