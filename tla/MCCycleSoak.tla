---------------------------- MODULE MCCycleSoak ----------------------------
(* Three zones, runtimes of 0 to 4 minutes, cycles of 1 and 2 minutes and   *)
(* soaks shorter than, as long as and longer than what the other zones can  *)
(* fill: every demand and every setting is an initial state.                *)
EXTENDS CycleSoak

MCDurations   == 0 .. 4
MCCycleLimits == 0 .. 2
MCSoaks       == {0, 1, 3, 7}
=============================================================================
