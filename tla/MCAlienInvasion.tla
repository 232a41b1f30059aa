--------------------------- MODULE MCAlienInvasion ---------------------------
(* AlienInvasion with things of one pixel, and a long bullet, on a small screen: *)
(* one column of aliens in the window, two on the full screen.                *)
EXTENDS AlienInvasion

Small == [w |-> 5, h |-> 8]
Large == [w |-> 6, h |-> 8]

\* speedup_scale is 1.1.
PowersOfSpeedup == [l \in 0..MaxLevel |-> 11^l * 10^(MaxLevel - l)]
=============================================================================
