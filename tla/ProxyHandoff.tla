----------------------------- MODULE ProxyHandoff ------------------------------
(***************************************************************************)
(* Proxy-only executions of both kinds in one host process, sharing its    *)
(* descriptor table and SHARED_BOOTSTRAP_MUTEX.                            *)
(***************************************************************************)
EXTENDS CloneFilesBootstrap, PidfdHandoff

ASSUME HandoffsPartition == CloneExecs \cap PidfdExecs = {} /\ CloneExecs \cup PidfdExecs = Execs

allVars == <<vars, pidfdVars>>

HandoffsInit == Init /\ PidfdInit

HandoffsNext ==
  \/ (CloneNext \/ AppStep) /\ UNCHANGED pidfdVars
  \/ PidfdNext /\ UNCHANGED cloneVars

HandoffsSpec == HandoffsInit /\ [][HandoffsNext]_allVars

\* As in CloneFilesBootstrap: parents and children that can run do run.
HandoffsFairness ==
  /\ \A e \in CloneExecs : /\ WF_allVars(ParentStep(e) /\ UNCHANGED pidfdVars)
                           /\ WF_allVars(BootstrapStep(e) /\ UNCHANGED pidfdVars)
  /\ \A e \in PidfdExecs : /\ WF_allVars(PidfdParentStep(e) /\ UNCHANGED cloneVars)
                           /\ WF_allVars(PidfdChildStep(e) /\ UNCHANGED cloneVars)

HandoffsFairSpec == HandoffsSpec /\ HandoffsFairness

-----------------------------------------------------------------------------
HandoffsTypeOK == TypeOK /\ PidfdTypeOK

\* What the abstract handoff sees of the two bootstraps.
ListenerState(e) ==
  IF pc[e] \in {"unlock", "drop", "failed", "done"}
  THEN IF OpenSomewhere(FileOf("listener", e)) THEN "lost" ELSE "closed"
  ELSE IF \/ pc[e] \in {"owned", "ackSent", "ackFailed", "disown", "supervising",
                         "dropNotify", "closeNotify", "writeAck"}
          \/ e \in PidfdExecs /\ known[e] # NoSlot THEN "owned"
  ELSE IF \/ e \in PidfdExecs /\ cpc[e] \in {"filtered", "announced"}
          \/ OpenSomewhere(FileOf("listener", e)) THEN "created"
  ELSE "none"

TargetState(e) ==
  CASE cpc[e] = "target" -> "running"
    [] cpc[e] \in {"dead", "reaped"} -> "gone"
    [] OTHER -> "absent"

Promise == INSTANCE ListenerHandoff WITH
  listener <- [e \in Execs |-> ListenerState(e)],
  target <- [e \in Execs |-> TargetState(e)],
  needed <- fallback

\* Both bootstraps implement the promise of ListenerHandoff, whatever dies and
\* whatever the other executions do: no program whose network is trapped without
\* an adopted listener, no listener closed under a running program, and no
\* listener lost that was ever adopted.
ImplementsPromise == Promise!HandoffSpec

\* A call of either kind returns with its child reaped and no descriptor left in
\* the host; the exception of NothingLeaks is one of the clone-files calls only.
NoHandoffLeaks ==
  \A e \in Execs :
    pc[e] \in {"failed", "done"} =>
      /\ cpc[e] \in {"none", "reaped"}
      /\ LeavesNothingElse(e)
      /\ e \in PidfdExecs => Leftovers(e) = {}

\* A pidfd child that waits for the ACK is never forgotten, even while other
\* threads go through the mutex: the wait loop keeps polling the socket.
AckedOrGone ==
  \A e \in PidfdExecs :
    cpc[e] = "announced" ~> cpc[e] \in {"target", "dead", "reaped"}

\* After the deadline the call reports a timeout: "On timeout, kills the process
\* group and returns 124" (docs/python/api/functions.mdx).
TimeoutIsReported ==
  \A e \in PidfdExecs : pc[e] = "done" /\ expired[e] => result[e] = "timeout"
=============================================================================
