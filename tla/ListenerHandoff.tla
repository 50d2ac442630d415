---------------------------- MODULE ListenerHandoff ----------------------------
(***************************************************************************)
(* What both bootstraps promise about one execution's seccomp listener and *)
(* the program it mediates.  The listener is created with the filter, in   *)
(* the child; the parent adopts it; only then is the program launched; and *)
(* the parent keeps the listener until the program is gone.  A listener    *)
(* nobody adopted is discarded, or, when the cleanup cannot find it, lost: *)
(* open for as long as the host lives, with no program behind it.  A call  *)
(* whose network another mechanism mediates needs no listener and has none.*)
(***************************************************************************)
CONSTANT Execs

VARIABLES
  listener,   \* listener[e]: none, created, owned, closed or lost
  target,     \* target[e]: absent, running or gone
  needed      \* needed[e]: the network calls of the program are trapped

handoffVars == <<listener, target, needed>>

HandoffInit ==
  /\ listener = [e \in Execs |-> "none"]
  /\ target = [e \in Execs |-> "absent"]
  /\ needed \in [Execs -> BOOLEAN]

ListenerStep(e, from, to) ==
  /\ listener[e] = from
  /\ listener' = [listener EXCEPT ![e] = to]

Create(e) ==
  /\ needed[e] /\ target[e] = "absent"
  /\ ListenerStep(e, "none", "created")
  /\ UNCHANGED target

Adopt(e) == target[e] # "running" /\ ListenerStep(e, "created", "owned") /\ UNCHANGED target

\* An unadopted listener goes with its child or is closed by the cleanup.
Discard(e) ==
  /\ ListenerStep(e, "created", "none")
  /\ target' \in {target, [target EXCEPT ![e] = "gone"]}
  /\ target'[e] # "running"

Lose(e) == target[e] = "gone" /\ ListenerStep(e, "created", "lost") /\ UNCHANGED target

Launch(e) ==
  /\ needed[e] => listener[e] = "owned"
  /\ target[e] = "absent"
  /\ target' = [target EXCEPT ![e] = "running"]
  /\ UNCHANGED listener

\* The child ends, before or after it became the program.
Vanish(e) ==
  /\ target' = [target EXCEPT ![e] = "gone"]
  /\ UNCHANGED listener

\* The parent gives the listener up, or returns without ever having had one.
Close(e) == target[e] = "gone" /\ ListenerStep(e, "owned", "closed") /\ UNCHANGED target

Abandon(e) == target[e] # "running" /\ ListenerStep(e, "none", "closed") /\ UNCHANGED target

HandoffNext ==
  /\ UNCHANGED needed
  /\ \E e \in Execs : \/ Create(e) \/ Adopt(e) \/ Discard(e) \/ Lose(e) \/ Launch(e)
                      \/ Vanish(e) \/ Close(e) \/ Abandon(e)

HandoffSpec == HandoffInit /\ [][HandoffNext]_handoffVars
=============================================================================
