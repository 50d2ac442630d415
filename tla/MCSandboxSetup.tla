---------------------------- MODULE MCSandboxSetup ----------------------------
(* A home directory with a file, a link that leads out of it and a link that  *)
(* leads nowhere; groups that allow and deny around them, one per way a       *)
(* network can ask for a proxy, one of another platform and one that needs a  *)
(* variable that is not set, one that denies a path below a file.             *)
EXTENDS SandboxSetup

CONSTANTS none

home == <<"h">>
MCReal == {<<>>, home, <<"h", "d">>, <<"h", "d", "f">>, <<"t">>, <<"t", "s">>}
MCNames == {"h", "d", "f", "t", "s", "l", "x", "g", "n"}
MCFiles == {<<"h", "d", "f">>}
MCLinks == (<<"h", "l">> :> <<"t">>) @@ (<<"h", "x">> :> <<"t", "g">>)
MCPorts == {443, 8080}
MCEnv == [HOME |-> home, TMPDIR |-> none]

AtHome(rest) == [var |-> "HOME", rest |-> rest]
NoNetwork == [block |-> FALSE, allow_domain |-> <<>>, credentials |-> {}, route_hosts |-> <<>>,
              upstream_proxy |-> none, upstream_bypass |-> {}, max_connections |-> none]
Group(allow, deny, network) ==
  [platform |-> none, allow |-> allow, deny |-> deny, network |-> network]

MCGroups ==
  [base |-> Group(<<[path |-> AtHome(<<"d">>), mode |-> Read],
                    [path |-> AtHome(<<"d", "f">>), mode |-> ReadWrite],
                    [path |-> AtHome(<<"n">>), mode |-> Read]>>, <<>>, none),
   secrets |-> Group(<<>>, <<AtHome(<<"l", "s">>), AtHome(<<"l", "n">>), AtHome(<<"x">>)>>, none),
   broken |-> Group(<<[path |-> AtHome(<<"l">>), mode |-> Write],
                      [path |-> [var |-> "TMPDIR", rest |-> <<>>], mode |-> Write],
                      [path |-> AtHome(<<"d">>), mode |-> Write]>>,
                    <<AtHome(<<"d">>)>>, [NoNetwork EXCEPT !.block = TRUE]),
   below |-> Group(<<[path |-> AtHome(<<"d">>), mode |-> Write]>>,
                   <<AtHome(<<"d", "f", "n">>)>>, NoNetwork),
   mac |-> [Group(<<[path |-> AtHome(<<>>), mode |-> ReadWrite]>>, <<>>,
                  [NoNetwork EXCEPT !.allow_domain = <<"m">>]) EXCEPT !.platform = "macos"],
   web |-> Group(<<>>, <<>>, [NoNetwork EXCEPT !.allow_domain = <<"a", "b">>,
                              !.upstream_proxy = "p1", !.max_connections = 5]),
   api |-> Group(<<>>, <<>>, [NoNetwork EXCEPT !.allow_domain = <<"b", "c", "c">>,
                              !.route_hosts = <<"r", none>>, !.max_connections = 3]),
   other |-> Group(<<>>, <<>>, [NoNetwork EXCEPT !.upstream_proxy = "p2"]),
   bypass |-> Group(<<>>, <<>>, [NoNetwork EXCEPT !.upstream_bypass = {"i"}]),
   vault |-> Group(<<>>, <<>>, [NoNetwork EXCEPT !.credentials = {"c"}])]

MCGroupLists ==
  {<<n>> : n \in DOMAIN MCGroups \cup {"unknown"}}
    \cup {<<"web", "api">>, <<"api", "web">>, <<"web", "other">>, <<"bypass", "web">>,
          <<"mac", "base">>, <<"web", "unknown", "base">>, <<"api", "broken", "base">>,
          <<"below", "base">>, <<"secrets", "api">>}

MCAllowPaths == {home, <<"h", "d", "f">>, <<"h", "l">>, <<"h", "n">>}

(* A line without anything, and what the others have more. *)
Noise == [code |-> FALSE, denial |-> FALSE, missing |-> FALSE, syscall |-> none, spath |-> none,
          path |-> none, relwrite |-> none, access |-> ReadWrite, net |-> FALSE, failure |-> none]
Denial(p, m) == [Noise EXCEPT !.denial = TRUE, !.path = p, !.access = m]

MCLines ==
  {Noise,
   [Noise EXCEPT !.code = TRUE, !.denial = TRUE],
   [Noise EXCEPT !.syscall = Write], [Noise EXCEPT !.syscall = ReadWrite],
   [Noise EXCEPT !.spath = <<"h", "d", "f">>],
   Denial(<<"h", "d", "f">>, Read), Denial(<<"t", "s">>, ReadWrite), Denial(<<"h", "l", "s">>, ReadWrite),
   [Noise EXCEPT !.missing = TRUE, !.path = <<"t", "s">>],
   [Noise EXCEPT !.relwrite = <<"n">>],
   [Noise EXCEPT !.denial = TRUE, !.net = TRUE, !.failure = "EEXIST"]}

MCMaxLines == 0 :> 5 @@ 1 :> 2 @@ 2 :> 0 @@ 3 :> 0
=============================================================================
