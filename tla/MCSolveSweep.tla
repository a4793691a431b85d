---------------------------- MODULE MCSolveSweep ----------------------------
(***************************************************************************)
(* Small grids for TLC.                                                    *)
(***************************************************************************)
EXTENDS SolveSweepProps

ThreeCombos == <<"a", "b", "c">>
=============================================================================
