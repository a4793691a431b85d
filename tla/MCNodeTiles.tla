----------------------------- MODULE MCNodeTiles -----------------------------
(***************************************************************************)
(* Up to five factors to be placed besides the kernel's, one of them of    *)
(* another prime; every mapping is run through to its last tile.           *)
(***************************************************************************)
EXTENDS NodeTilesProps, SmallMappings

SmallLayers ==
  {Layer(<<2, 2>>, <<2>>, <<2>>, <<3>>, <<2>>), Layer(<<2>>, <<2, 3>>, <<2>>, <<2>>, <<1>>)}

SmallMachines ==
  {Prosperity(2, 4, FALSE, Unlimited), Prosperity(3, 1, TRUE, Unlimited),
   LoAS(1, 4, FALSE, Unlimited), GustavSNN(1, 2, 2, FALSE, Unlimited),
   SpinalFlow(4, 4, FALSE, Buffers([weight |-> 144, psum |-> 8, vmem |-> 4],
                                   [weight |-> 144, psum |-> 24, vmem |-> 12]))}

(* Every traffic mode but both_dram_ootk. *)
OtherModes ==
  {"base", "psum_dram_otok", "psum_gb_otok", "vmem_dram_xxxt", "vmem_gb_xxxt",
   "dram_oooo", "dram_ooot", "dram_oook", "gb_oooo", "gb_ooot", "gb_oook", "gb_ootk"}
=============================================================================
