-------------------------- MODULE MCConsoleDesktop --------------------------
EXTENDS ConsoleDesktop, TLC

CONSTANTS a, b, c, shot

\* Controllers are interchangeable, and so are view-only devices.
Symmetry == Permutations(Controllers) \cup Permutations(Viewers \ Controllers)
=============================================================================
