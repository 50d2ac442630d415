------------------------- MODULE MCCloneFilesBootstrap -------------------------
(* Two concurrent clone-files bootstraps in one host process.               *)
EXTENDS CloneFilesBootstrap, TLC

CONSTANTS e1, e2, MaxFd

MCExecs == {e1, e2}
MCSlots == 0 .. MaxFd - 1
Symmetry == Permutations(MCExecs)
=============================================================================
