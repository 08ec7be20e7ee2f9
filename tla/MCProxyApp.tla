------------------------------- MODULE MCProxyApp -------------------------------
(* MosaicProxyApp with interchangeable messages and, but for RemoveNode,   *)
(* interchangeable applications.                                           *)
EXTENDS MosaicProxyApp, TLC

IdSymmetry == Permutations(MsgId) \cup Permutations(FirstApp)
=============================================================================
