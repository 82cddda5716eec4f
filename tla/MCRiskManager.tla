-------------------------- MODULE MCRiskManager --------------------------
(* Values for the constants of RiskManager that a .cfg cannot write.      *)
EXTENDS RiskManager, TLC

CONSTANTS m1, m2, s1, s2

TwoSymbols == m1 :> s1 @@ m2 :> s2
\* A relaunch: two mints under one ticker.
OneSymbol == m1 :> s1 @@ m2 :> s1

\* Swapping the mints, with their symbols where these differ, maps behaviours
\* to behaviours.
Swap      == {m1 :> m2 @@ m2 :> m1 @@ s1 :> s2 @@ s2 :> s1}
SwapMints == {m1 :> m2 @@ m2 :> m1}

HalfLegs == <<50, 50>>
OneLeg   == <<50>>
=============================================================================
