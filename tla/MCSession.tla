------------------------------- MODULE MCSession ------------------------------
(* One name under two roots, ignored by the .gitignore of one of them.  The   *)
(* events of the passing run are two that set_network_events knows, one of    *)
(* which the application may spoil; the violation run takes one for each      *)
(* value of each field.                                                       *)
EXTENDS Session

CONSTANTS r1, r2, f, none, missing, untyped

MCRoots == {r1, r2}
MCNames == {f}
MCFileStates == {[hash |-> 1, permissions |-> 6]}
MCGitignore == (r1 :> {f}) @@ (r2 :> {})
MCExclusion == [use_gitignore |-> TRUE, patterns |-> {}, force_include |-> {}]

MCPlain ==
  [mode |-> "connect", decision |-> "allow", auth_mechanism |-> none, auth_outcome |-> none,
   injection_mode |-> none, denial_category |-> none]
MCKind(fields) == [fields |-> fields, hidden |-> "upstream"]
MCKnown ==
  {MCKind([MCPlain EXCEPT !.mode = "reverse", !.decision = "deny",
                          !.denial_category = "host_denied"])}
MCEvery ==
  UNION {{MCKind([MCPlain EXCEPT ![fld] = v]) : v \in Written[fld]} : fld \in Fields}
MCEdits ==
  {<<"decision", missing>>, <<"denial_category", missing>>, <<"denial_category", untyped>>}

(* Days around the leap days of 1972, 2000, 2024 and 2100 and around the ends  *)
(* of their years; the seconds at which the hour and the minute change.       *)
MCDays == (0..2) \cup (785..800) \cup (1090..1100) \cup (10950..11020) \cup (11320..11325)
            \cup (19715..19790) \cup (47475..47545) \cup (47845..47850)
MCClocks == {[day |-> d, second |-> 0] : d \in MCDays}
              \cup {[day |-> 0, second |-> s] : s \in {59, 60, 3599, 3600, 43200, 86399}}
=============================================================================
