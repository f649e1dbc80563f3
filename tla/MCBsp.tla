------------------------------- MODULE MCBsp -------------------------------
(***************************************************************************)
(* BspExecutor on the graphs of MCGraphs.                                  *)
(***************************************************************************)
EXTENDS BspExecutor

G == INSTANCE MCGraphs

MCDiamond == G!Diamond
MCDiamondBreakAfter == G!DiamondBreakAfter
MCForkTwoInterrupts == G!ForkTwoInterrupts
MCRouter == G!Router
MCRouterPauses == G!RouterPauses
MCFanOutFailing == G!FanOutFailing
=============================================================================
