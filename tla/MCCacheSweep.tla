---------------------------- MODULE MCCacheSweep ----------------------------
(***************************************************************************)
(* Small sweeps for TLC: the sets are given by the configurations.         *)
(***************************************************************************)
EXTENDS CacheSweepProps
=============================================================================
