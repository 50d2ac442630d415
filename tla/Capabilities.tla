----------------------------- MODULE Capabilities -----------------------------
(***************************************************************************)
(* CapabilitySet and SandboxState of src/src/lib.rs, over a small file     *)
(* system.  A path is the sequence of its names; an access mode is the set *)
(* of rights it stands for, so that containing is a superset and merging   *)
(* a union.  What a set lets a process do is what the documentation of its *)
(* methods says of Landlock: rights add up over every capability that      *)
(* covers a path, and TCP is filtered by port only.                        *)
(***************************************************************************)
EXTENDS Naturals, SequencesExt

CONSTANTS
  Names,      \* what a path is made of
  Real,       \* canonical paths that exist
  Files,      \* those of them that are regular files
  Links,      \* Links[p]: where the symbolic link p leads, canonical
  Ports,      \* TCP ports
  ProxyPort,  \* the one the proxy listens on
  None        \* None

Read == {"r"}
Write == {"w"}
ReadWrite == {"r", "w"}
AccessModes == {Read, Write, ReadWrite}

ASSUME CapabilitiesAssumption ==
  /\ Real \subseteq Seq(Names) /\ Files \subseteq Real
  /\ \A p \in Real : \A n \in 0..Len(p) : SubSeq(p, 1, n) \in Real
  /\ DOMAIN Links \subseteq Seq(Names) \ Real /\ Links \in [DOMAIN Links -> Seq(Names)]
  /\ ProxyPort \in Ports
  /\ None \notin Ports /\ None \notin AccessModes
  /\ None \notin {"FileNotFoundError", "OSError", "ValueError", "RuntimeError"}

VARIABLES
  caps,    \* the CapabilitySet the application builds
  state,   \* the SandboxState it saved, with the set it was made from
  raised   \* the exception its last call raised

capabilityVars == <<caps, state, raised>>

-----------------------------------------------------------------------------
(* canonicalize: every link on the way is followed. *)
Follow(p) == IF p \in DOMAIN Links THEN Links[p] ELSE p
Canonical(path) == FoldLeft(LAMBDA at, name : Follow(Append(at, name)), <<>>, path)
Exists(path) == Canonical(path) \in Real
IsDir(path) == Exists(path) /\ Canonical(path) \notin Files

(* FsCapability::new_dir and new_file: what they refuse ... *)
FsError(path, is_file) ==
  IF ~Exists(path) THEN "FileNotFoundError"
  ELSE IF (Canonical(path) \in Files) # is_file THEN "ValueError"
  ELSE None

(* A plausible bug: the path is kept as it was written. *)
FsCapability_AsWritten(path, mode, is_file, source) ==
  [resolved |-> path, access |-> mode, is_file |-> is_file, source |-> source]

(* ... and what they make. *)
FsCapability(path, mode, is_file, source) ==
  [resolved |-> Canonical(path), access |-> mode, is_file |-> is_file, source |-> source]

EmptySet == [fs |-> <<>>, network |-> "allow_all",
             localhost |-> {}, connect |-> {}, bind |-> {}]

AddFs(set, cap) == [set EXCEPT !.fs = Append(@, cap)]
SetNetworkBlocked(set) == [set EXCEPT !.network = "blocked"]

(* A capability on a directory covers all below it, one on a file itself. *)
Covers(cap, canonical) ==
  IF cap.is_file THEN cap.resolved = canonical ELSE IsPrefix(cap.resolved, canonical)

Granted(set, canonical) ==
  UNION {cap.access : cap \in {c \in ToSet(set.fs) : Covers(c, canonical)}}

(* The ports a process under the set can connect to and bind.  A port list  *)
(* makes an allowlist out of allow-all, except the one for localhost.       *)
Connectable(set) ==
  CASE set.network = "allow_all" ->
         IF set.connect = {} /\ set.bind = {} THEN Ports ELSE set.connect
    [] set.network = "blocked" -> set.localhost \cup set.connect
    [] set.network = "proxy_only" -> {ProxyPort} \cup set.localhost \cup set.connect

Bindable(set) ==
  IF set.network = "allow_all" /\ set.connect = {} /\ set.bind = {} THEN Ports
  ELSE set.bind \cup (IF set.network = "allow_all" THEN {} ELSE set.localhost)

IsNetworkBlocked(set) == set.network # "allow_all"

-----------------------------------------------------------------------------
CapabilitiesInit == caps = EmptySet /\ state = None /\ raised = None

(* allow_path and allow_file: a capability, or an error and the set as it was. *)
Allow(path, mode, is_file) ==
  /\ raised' = FsError(path, is_file)
  /\ caps' = IF raised' # None THEN caps
             ELSE AddFs(caps, FsCapability(path, mode, is_file, "user"))
  /\ UNCHANGED state

BlockNetwork ==
  /\ caps' = SetNetworkBlocked(caps)
  /\ raised' = None
  /\ UNCHANGED state

ProxyOnly ==
  /\ caps' = [caps EXCEPT !.network = "proxy_only"]
  /\ raised' = None
  /\ UNCHANGED state

AllowPort(list, port) ==
  /\ caps' = [caps EXCEPT ![list] = @ \cup {port}]
  /\ raised' = None
  /\ UNCHANGED state

(* A plausible bug: a set that may only bind is taken for one without ports. *)
FromCaps_ForgetsBind ==
  \/ /\ caps.connect = {} /\ caps.localhost = {}
     /\ state' = [fs |-> caps.fs, net_blocked |-> IsNetworkBlocked(caps), from |-> caps]
     /\ raised' = None
     /\ UNCHANGED caps
  \/ /\ caps.connect # {} \/ caps.localhost # {}
     /\ raised' = "ValueError"
     /\ UNCHANGED <<caps, state>>

(* SandboxState.from_caps refuses what it cannot represent. *)
FromCaps ==
  \/ /\ caps.connect = {} /\ caps.bind = {} /\ caps.localhost = {}
     /\ state' = [fs |-> caps.fs, net_blocked |-> IsNetworkBlocked(caps), from |-> caps]
     /\ raised' = None
     /\ UNCHANGED caps
  \/ /\ caps.connect # {} \/ caps.bind # {} \/ caps.localhost # {}
     /\ raised' = "ValueError"
     /\ UNCHANGED <<caps, state>>

(* to_caps, with the JSON between: path, access and kind of each capability, *)
(* no source, and whether the network is blocked.                            *)
Restored ==
  [EmptySet EXCEPT
     !.fs = [i \in DOMAIN state.fs |-> [state.fs[i] EXCEPT !.source = "user"]],
     !.network = IF state.net_blocked THEN "blocked" ELSE "allow_all"]

ToCaps ==
  /\ state # None
  /\ caps' = Restored
  /\ raised' = None
  /\ UNCHANGED state

-----------------------------------------------------------------------------
(* "To keep this fail-closed": whatever was built, in whatever order, and    *)
(* saved, the set that comes back from a SandboxState gives no path more     *)
(* rights and no port more ways than the set it was made from.               *)
RoundTripIsNoWider ==
  state # None =>
    /\ \A p \in Real : Granted(Restored, p) \subseteq Granted(state.from, p)
    /\ Connectable(Restored) \subseteq Connectable(state.from)
    /\ Bindable(Restored) \subseteq Bindable(state.from)
=============================================================================
