--------------------------- MODULE MCDesktopEngine ---------------------------
(* Symmetry and ports of the small instances of DesktopEngine. *)
EXTENDS DesktopEngine, TLC

EngineSymmetry == Permutations(Tasks) \cup Permutations(Procs)

\* Each OLC RTC profile has a port of its own, or all have the default one.
OwnPort  == [profile \in OlcProfiles |-> profile]
SamePort == [profile \in OlcProfiles |-> 10808]
=============================================================================
