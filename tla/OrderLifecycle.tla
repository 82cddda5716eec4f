-------------------------- MODULE OrderLifecycle --------------------------
(***************************************************************************)
(* What a trader with delayed fills promises of each mint: a position is   *)
(* the fill of a buy submitted in an earlier step, a mint that is owned    *)
(* stays owned until it is closed, a death forgets orders but no position, *)
(* and never more than Slots mints are owned at once.                      *)
(***************************************************************************)
EXTENDS Naturals, FiniteSets

CONSTANTS Mints, Slots

VARIABLE stage

Stages == {"idle", "buying", "held", "selling"}

Owned(st) == {m \in Mints : st[m] \in {"held", "selling"}}

Init == stage = [m \in Mints |-> "idle"]

\* Where one step of a running trader may take a mint.  A sell that fills may
\* be followed by a new buy in the same step, a buy by its sell.
Successors(s) ==
  CASE s = "idle"    -> {"idle", "buying"}
    [] s = "buying"  -> {"buying", "idle", "held", "selling"}
    [] s = "held"    -> {"held", "selling", "idle"}
    [] s = "selling" -> {"selling", "idle", "buying"}

Trade == \A m \in Mints : stage'[m] \in Successors(stage[m])

\* Orders in flight are lost; positions stay, or were closed just before.
Die == \A m \in Mints :
  stage'[m] \in IF m \in Owned(stage) THEN {"held", "idle"} ELSE {"idle"}

Next ==
  /\ stage' \in [Mints -> Stages]
  /\ Trade \/ Die
  /\ Cardinality(Owned(stage')) <= Slots

Spec == Init /\ [][Next]_stage
=============================================================================
