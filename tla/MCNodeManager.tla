----------------------------- MODULE MCNodeManager -----------------------------
(* MosaicNodeManager with interchangeable MOSAIC ids. *)
EXTENDS CellRouting, TLC

IdSymmetry == Permutations(MosaicId)
=============================================================================
