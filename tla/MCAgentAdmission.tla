-------------------------- MODULE MCAgentAdmission --------------------------
(***************************************************************************)
(* AgentAdmission for TLC.  Workers are interchangeable, so are gateways,  *)
(* and no invariant tells them apart.                                      *)
(***************************************************************************)
EXTENDS AgentAdmission, TLC

Interchangeable == Permutations(Workers) \cup Permutations(Gateways)
=============================================================================
