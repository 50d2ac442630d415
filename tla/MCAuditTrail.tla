----------------------------- MODULE MCAuditTrail -----------------------------
(* Two threads, an event whose line is written at once and one whose line can *)
(* fall in two.                                                               *)
EXTENDS AuditTrail, TLC

CONSTANTS t1, t2, short, long

MCThreads == {t1, t2}
MCEvents == {short, long}
MCSize == (short :> 1) @@ (long :> 2)
Symmetry == Permutations(MCThreads)
=============================================================================
