---------------------------- MODULE MCInstallRun ----------------------------
(* Two hosts in two waves, and the command lines that differ in what they *)
(* may leave behind.                                                        *)
EXTENDS InstallRun

CONSTANTS n1, n2

MCNode       == {n1, n2}
MCCommands   == <<{n1}, {n1, n2}>>
MCOptionSets == {{"E", "U", "B"}, {"U", "B"}, {"E", "R", "C", "d", "D", "a"}}
==============================================================================
