----------------------------- MODULE SandboxSetup -----------------------------
(***************************************************************************)
(* An application that sets a sandbox up: it builds a CapabilitySet by     *)
(* hand and from policy groups, saves and restores it, checks denied paths *)
(* against it, then runs a command whose stderr is diagnosed against the   *)
(* set.  Composes Capabilities, Policy and Diagnosis.                      *)
(***************************************************************************)
EXTENDS Policy, Diagnosis

CONSTANTS
  GroupLists,   \* lists of names the application passes to resolve_groups
  AllowPaths,   \* paths it passes to allow_path and allow_file
  Lines,        \* what a line of stderr may be
  MaxCalls,     \* bound on the calls of the setup
  MaxLines      \* MaxLines[n]: bound on the lines after n calls

ASSUME SetupAssumption ==
  /\ MaxCalls \in Nat /\ MaxLines \in [0..MaxCalls -> Nat]
  /\ \A l \in Lines :
       /\ l.code \in BOOLEAN /\ l.denial \in BOOLEAN /\ (l.code => l.denial)
       /\ l.missing \in BOOLEAN /\ l.net \in BOOLEAN
       /\ l.syscall \in AccessModes \cup {None} /\ l.access \in AccessModes
       /\ l.spath \in Seq(Names) \cup {None} /\ l.path \in Seq(Names) \cup {None}
       /\ l.relwrite \in Seq(Names) \cup {None}
  /\ AllowPaths \subseteq Seq(Names)
  /\ \A names \in GroupLists : names \in Seq(ToSet(names))

VARIABLES
  calls,    \* how many calls the setup took
  stderr    \* the lines the command wrote

setupVars == <<capabilityVars, policyVars, calls, stderr>>

-----------------------------------------------------------------------------
Init == CapabilitiesInit /\ PolicyInit /\ calls = 0 /\ stderr = <<>>

BuildByHand ==
  /\ \/ \E p \in AllowPaths, m \in AccessModes, is_file \in BOOLEAN : Allow(p, m, is_file)
     \/ BlockNetwork
     \/ ProxyOnly
     \/ \E list \in {"localhost", "connect", "bind"}, port \in Ports : AllowPort(list, port)
     \/ FromCaps
     \/ ToCaps
  /\ UNCHANGED policyVars

BuildFromPolicy == (\E names \in GroupLists : ResolveGroups(names)) \/ ValidateDenyOverlaps

Setup ==
  /\ stderr = <<>> /\ calls < MaxCalls
  /\ BuildByHand \/ BuildFromPolicy
  /\ calls' = calls + 1
  /\ UNCHANGED stderr

(* The command runs on a copy of the set. *)
CommandComplains ==
  /\ Len(stderr) < MaxLines[calls]
  /\ \E l \in Lines : stderr' = Append(stderr, l)
  /\ UNCHANGED <<capabilityVars, policyVars, calls>>

Next == Setup \/ CommandComplains

Spec == Init /\ [][Next]_setupVars

-----------------------------------------------------------------------------
(* What a set holds is what the constructors made: canonical paths that     *)
(* exist, files for files, and a report can be made of any stderr.          *)
SetupTypeOK ==
  /\ \A c \in ToSet(caps.fs) : /\ c.resolved \in Real /\ c.access \in AccessModes
                               /\ c.is_file = (c.resolved \in Files)
                               /\ c.source \in {"user"} \cup DOMAIN Groups
  /\ caps.network \in {"allow_all", "blocked", "proxy_only"}
  /\ UNION {caps.localhost, caps.connect, caps.bind} \subseteq Ports
  /\ raised \in {None, "FileNotFoundError", "OSError", "ValueError", "RuntimeError"}
  /\ \A p \in DOMAIN analyze_error_output(stderr).observed :
       analyze_error_output(stderr).observed[p] \in AccessModes
  /\ calls \in 0..MaxCalls

(* AdviceIsEnough for what the command wrote, and for one more denial of    *)
(* any path of Lines.                                                       *)
RemediationIsEnough ==
  \A lines \in {stderr} \cup {<<l>> : l \in Lines} : AdviceIsEnough(caps, lines)

(* HintsAreJustifiedBy for what the command wrote. *)
HintsAreJustified == HintsAreJustifiedBy(stderr)
=============================================================================
