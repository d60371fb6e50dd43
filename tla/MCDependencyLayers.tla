------------------------- MODULE MCDependencyLayers -------------------------
(* Three planned tables and one outside the plan, and four keys, each with *)
(* every choice of its ends: chains, diamonds, parallel keys, cycles with  *)
(* and without tables hanging off them, self-references, outside ends.     *)
EXTENDS DependencyLayers

CONSTANTS a, b, c, outside, k1, k2, k3, k4
MCTable == {a, b, c, outside}
MCPlanned == {a, b, c}
MCFK == {k1, k2, k3, k4}
=============================================================================
