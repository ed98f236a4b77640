--------------------------- MODULE MCS1WController ---------------------------
\* S1WController with three groups per sweep and two profiles, the second in
\* standard order, in several builds at once.
EXTENDS S1WController, TLC

MCMaxSweeps == 0 :> 2 @@ 1 :> 1

MCModes ==
  {ProductionMode,
   [ProductionMode EXCEPT !.interval = 2],                    \* replay every other sweep
   [ProductionMode EXCEPT !.force = FALSE],                   \* inline parity only
   [ProductionMode EXCEPT !.relay = TRUE, !.inline = FALSE],
   [ProductionMode EXCEPT !.relay = TRUE, !.riskDefer = FALSE, !.hashOnly = TRUE]}
MCInlineModes == {[ProductionMode EXCEPT !.force = FALSE]}
=============================================================================
