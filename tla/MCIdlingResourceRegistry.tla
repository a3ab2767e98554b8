----------------------- MODULE MCIdlingResourceRegistry -----------------------
(* Instances of IdlingResourceRegistry for TLC.                            *)
EXTENDS IdlingResourceRegistry

CONSTANTS r1, r2

OneResource  == {r1}
TwoResources == {r1, r2}
NoResource   == {}
Follower     == {r2}
=============================================================================
