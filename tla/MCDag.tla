------------------------------- MODULE MCDag -------------------------------
(***************************************************************************)
(* DagExecutor on the graphs of MCGraphs.                                  *)
(***************************************************************************)
EXTENDS DagExecutor

G == INSTANCE MCGraphs

MCDiamond == G!Diamond
MCDiamondFanOut == G!DiamondFanOut
MCRouterAsks == G!RouterAsks
=============================================================================
