----------------------------- MODULE MCSupervision -----------------------------
(* A command of up to three processes and one output stream.                 *)
EXTENDS Supervision

CONSTANTS root, p1, p2

MCTwo == {root, p1}
MCThree == {root, p1, p2}
MCStdout == {"stdout"}
=============================================================================
