------------------------- MODULE MCPalletRefinesBox -------------------------
(* The instance of MCVotingPallet with counters wide enough for every      *)
(* account and every reveal.                                               *)
EXTENDS MCVotingPallet, PalletRefinesBox

ASSUME NoSaturation
=============================================================================
