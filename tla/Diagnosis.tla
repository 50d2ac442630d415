------------------------------- MODULE Diagnosis ------------------------------
(***************************************************************************)
(* The report of a failed command: the hints analyze_error_output reads    *)
(* from its stderr (src/src/stderr_observation.rs) and the remediations    *)
(* made of them and of its capabilities (src/src/diagnostic.rs).  A line   *)
(* of stderr is what the helpers recognise in it:                          *)
(*   code, denial, missing   an errno name beside a denial; a denial; "no  *)
(*                           such file"                                    *)
(*   syscall, spath          the access a structured syscall property      *)
(*                           stands for, the path a path property names    *)
(*   path, access            the path a denial names, the access its       *)
(*                           wording tells                                 *)
(*   relwrite                a file said to be created, below the cwd      *)
(*   net, failure            a network denial; a failure of another kind   *)
(* No file is protected: the bindings never name one.                      *)
(***************************************************************************)
EXTENDS Capabilities, FiniteSetsExt

CONSTANTS
  Cwd,           \* the working directory of the command, a path or None
  MaxPathHints,  \* MAX_PATH_HINTS
  MaxPending     \* MAX_STRUCTURED_PENDING_LINES

(* The working directory is canonical, and the command could change to it. *)
ASSUME DiagnosisAssumption ==
  /\ MaxPathHints \in Nat /\ MaxPending \in Nat
  /\ Cwd # None => Cwd \in Real \ Files

-----------------------------------------------------------------------------
NoPending == [on |-> FALSE, lines |-> 0, access |-> None]

NothingObserved ==
  [observed |-> << >>, missing |-> {}, relwrite |-> None, pend |-> NoPending,
   net |-> FALSE, failure |-> None]

(* The modes are sets of rights: merging two that differ gives both. *)
Observe(a, path, access) ==
  LET before == IF path \in DOMAIN a.observed THEN a.observed[path] ELSE {}
  IN  IF Cardinality(DOMAIN a.observed) >= MaxPathHints THEN a
      ELSE [a EXCEPT !.observed =
              [p \in DOMAIN @ \cup {path} |-> IF p = path THEN access \cup before ELSE @[p]]]

(* What every line may tell, whatever else it is. *)
Notice(a, line) ==
  [a EXCEPT !.net = @ \/ line.net,
            !.failure = IF @ = None THEN line.failure ELSE @,
            !.relwrite = IF line.relwrite # None /\ Cwd # None THEN Cwd \o line.relwrite ELSE @]

(* A plausible bug: giving up forgets the denial and keeps the access. *)
Await_KeepsAccess(pend, line) ==
  LET p == IF line.code THEN [pend EXCEPT !.on = TRUE, !.lines = 0] ELSE pend
  IN  IF ~p.on THEN p
      ELSE IF p.lines = MaxPending THEN [p EXCEPT !.on = FALSE, !.lines = 0]
      ELSE [p EXCEPT !.lines = @ + 1,
                     !.access = IF line.syscall # None THEN line.syscall ELSE @]

(* A denial with a code waits for its properties on the lines after it; the  *)
(* lines start anew with every code, an access already read stays.           *)
Await(pend, line) ==
  LET p == IF line.code THEN [pend EXCEPT !.on = TRUE, !.lines = 0] ELSE pend
  IN  IF ~p.on THEN p
      ELSE IF p.lines = MaxPending THEN NoPending
      ELSE [p EXCEPT !.lines = @ + 1,
                     !.access = IF line.syscall # None THEN line.syscall ELSE @]

(* A line read for what it says by itself, or with the file named before. *)
PlainDenial(a, line) ==
  IF line.missing THEN [a EXCEPT !.missing = @ \cup ({line.path} \ {None})]
  ELSE IF ~line.denial \/ (line.path = None /\ a.relwrite = None) THEN a
  ELSE [(IF line.path # None THEN Observe(a, line.path, line.access)
         ELSE Observe(a, a.relwrite, Write)) EXCEPT !.relwrite = None]

(* One turn of the loop of analyze_error_output. *)
ReadLine(acc, line) ==
  LET a == Notice(acc, line)
      p == Await(a.pend, line)
  IN  IF p.on /\ line.spath # None /\ p.access # None
      THEN [Observe(a, line.spath, p.access) EXCEPT !.pend = NoPending]
      ELSE PlainDenial([a EXCEPT !.pend = p], line)

analyze_error_output(lines) == FoldLeft(ReadLine, NothingObserved, lines)

-----------------------------------------------------------------------------
(* closest_covering_capability: the longest, and the last of those, if any. *)
Covering(set, path) == {i \in DOMAIN set.fs : Covers(set.fs[i], Canonical(path))}
ClosestCovering(set, path) ==
  set.fs[CHOOSE i \in Covering(set, path) : \A j \in Covering(set, path) :
           \/ Len(set.fs[j].resolved) < Len(set.fs[i].resolved)
           \/ Len(set.fs[j].resolved) = Len(set.fs[i].resolved) /\ j <= i]

(* A plausible bug: the half that is granted is named instead of the other. *)
narrow_missing_access_Granted(granted, inferred) ==
  IF inferred = ReadWrite THEN granted ELSE inferred

narrow_missing_access(granted, inferred) ==
  IF inferred = ReadWrite /\ granted # ReadWrite THEN ReadWrite \ granted ELSE inferred

(* actionable_observed_access: None when the closest one allows it anyway. *)
Actionable(set, path, inferred) ==
  LET cap == ClosestCovering(set, path)
  IN  IF Covering(set, path) = {} THEN inferred
      ELSE IF inferred \subseteq cap.access THEN None
      ELSE narrow_missing_access(cap.access, inferred)

PointsToUngrantedCwd(set, path) ==
  Cwd # None /\ IsPrefix(Cwd, path) /\ Covering(set, Cwd) = {}

GrantPath(path, is_file, access) ==
  [kind |-> "grant_path", path |-> path, is_file |-> is_file, access |-> access]

remediation_for_observed_hint(set, path, access) ==
  LET cap == ClosestCovering(set, path)
  IN  IF PointsToUngrantedCwd(set, path) THEN [kind |-> "allow_cwd"]
      ELSE IF Covering(set, path) # {}
      THEN GrantPath(cap.resolved, cap.is_file, narrow_missing_access(cap.access, access))
      ELSE GrantPath(path, ~IsDir(path), access)

(* append_stderr_observations, on a report that is empty: the missing paths, *)
(* the failure, the network, then a diagnostic for each hint that no         *)
(* diagnostic names yet.                                                     *)
append_stderr_observations(set, observation) ==
  LET hints == {p \in DOMAIN observation.observed \ observation.missing :
                  Actionable(set, p, observation.observed[p]) # None}
  IN  {[code |-> "missing_path", path |-> p] : p \in observation.missing}
      \cup {[code |-> "application", message |-> m] : m \in {observation.failure} \ {None}}
      \cup {[code |-> "network"] : n \in {TRUE} \cap {observation.net /\ IsNetworkBlocked(set)}}
      \cup {LET access == Actionable(set, p, observation.observed[p])
            IN  [code |-> "likely_sandbox", path |-> p, access |-> access,
                 remediation |-> remediation_for_observed_hint(set, p, access)] : p \in hints}

(* build_session_report_from_exec: the diagnostics of the report. *)
build_session_report_from_exec(exit_code, lines, set) ==
  append_stderr_observations(set, analyze_error_output(lines))
    \cup {[code |-> "follow_up"] : n \in {TRUE} \cap {exit_code # 0}}

-----------------------------------------------------------------------------
(* The set after the application has done what a diagnostic advises. *)
Remedied(set, d) ==
  LET cwd == d.remediation.kind = "allow_cwd"
      path == IF cwd THEN Cwd ELSE d.remediation.path
      access == IF cwd THEN d.access ELSE d.remediation.access
      is_file == ~cwd /\ d.remediation.is_file
  IN  IF FsError(path, is_file) = None
      THEN AddFs(set, FsCapability(path, access, is_file, "user")) ELSE set

(* Advice that is followed helps, and silence means the access was granted:  *)
(* for an existing path and whatever was granted before, a command denied    *)
(* the path can do what its stderr tells after one round of the remediation  *)
(* of its report, or could before.  Links that lead out of a working         *)
(* directory that is not granted are the exception: to allow that directory  *)
(* does not reach their targets.                                             *)
AdviceIsEnough(set, lines) ==
  LET observed == analyze_error_output(lines).observed
      report == build_session_report_from_exec(1, lines, set)
      advice(p) == {d \in report : d.code = "likely_sandbox" /\ d.path = p}
  IN  \A p \in DOMAIN observed \ analyze_error_output(lines).missing :
        Exists(p) /\ (Cwd # None /\ IsPrefix(Cwd, p) => IsPrefix(Canonical(Cwd), Canonical(p))) =>
          \/ advice(p) = {} /\ observed[p] \subseteq Granted(set, Canonical(p))
          \/ \E d \in advice(p) :
               observed[p] \subseteq Granted(Remedied(set, d), Canonical(p))

(* What the lines of stderr justify, said line by line: the line itself      *)
(* denies a path; or it denies and a file was last said to be created on a   *)
(* line no denial has used up; or it has a path property, a code at most     *)
(* MaxPending lines back and the access of the last syscall property, since  *)
(* which codes kept coming that often and no path property was paired.  That *)
(* syscall may belong to an earlier error of such a series: a new code       *)
(* starts the count anew and keeps the access (lines 91-94 of the source).   *)
Justified(lines, k, p) ==
  LET line == lines[k]
      fresh(x) == \E y \in 1..x : lines[y].code /\ x - y < MaxPending
      paired == line.spath # None /\ fresh(k)
  IN  {m \in AccessModes :
        \/ line.denial /\ ~line.missing /\ line.path = p /\ line.access = m
        \/ /\ line.denial /\ ~line.missing /\ line.path = None /\ m = Write
           /\ Cwd # None /\ \E i \in 1..k :
                              /\ lines[i].relwrite # None /\ Cwd \o lines[i].relwrite = p
                              /\ \A j \in (i + 1)..k : lines[j].relwrite = None
                              /\ \A j \in i..(k - 1) : ~lines[j].denial \/ lines[j].missing
                                                       \/ lines[j].spath # None
        \/ /\ paired /\ line.spath = p
           /\ \E i \in 1..k : /\ lines[i].syscall = m
                              /\ \A x \in i..k : fresh(x)
                              /\ \A x \in (i + 1)..k : lines[x].syscall = None
                              /\ \A x \in i..(k - 1) : lines[x].spath = None}

(* A hint is read off one denial, or off the lines of one series of codes: a  *)
(* path is paired with the access of the last syscall named before it, and   *)
(* with none from before the wait was given up, or before another path was   *)
(* paired; where errors follow each other within MaxPending lines, one that  *)
(* names no syscall of its own gets the access of the one before it.  No     *)
(* file said to be created is blamed for two denials, and there are never    *)
(* more than MaxPathHints.                                                   *)
HintsAreJustifiedBy(lines) ==
  LET observed == analyze_error_output(lines).observed
  IN  /\ Cardinality(DOMAIN observed) <= MaxPathHints
      /\ \A p \in DOMAIN observed :
           observed[p] \subseteq UNION UNION {Justified(lines, k, p) : k \in DOMAIN lines}
=============================================================================
