------------------------ MODULE MCGraduationSniper ------------------------
(* Levels for the runs of GraduationSniper, in half SOL.                  *)
EXTENDS GraduationSniper, TLC

CONSTANTS m1, m2

\* 50.0 is cold, and a disaster for a position; 80.5 is in the entry band; a
\* buy decided there still fills at 81.5 but not at 84.0, which is past the exit.
FourLevels == {100, 161, 163, 168}

Swap == Permutations(Mints)
=============================================================================
