---------------------------- MODULE MCProxyHandoff -----------------------------
(* A clone-files execution and a pidfd one in one host process, or the pidfd *)
(* one alone.                                                                *)
EXTENDS ProxyHandoff

CONSTANTS c1, p1, MaxFd

MCOneClone == {c1}
MCOnePidfd == {p1}
MCNone == {}
MCPair == {c1, p1}
MCSlots == 0 .. MaxFd - 1
=============================================================================
