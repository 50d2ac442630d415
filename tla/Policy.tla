-------------------------------- MODULE Policy --------------------------------
(***************************************************************************)
(* Policy of src/src/policy.rs: groups resolved into a capability set, the *)
(* paths they deny, the proxy configuration they ask for, and the check of *)
(* denied paths against the final set; with the filter the configuration   *)
(* gets in src/src/proxy.rs.  Linux is the platform.  Of network.route a   *)
(* group keeps the hosts of its upstreams.                                 *)
(***************************************************************************)
EXTENDS Capabilities, FiniteSetsExt

CONSTANTS
  Groups,        \* Groups[name]: a policy group
  Env,           \* Env[v]: a path, or None when v is unset or not absolute
  DenyAllHost    \* DENY_ALL_CONNECT_HOST

(* A path in a group: below a variable, or as it is. *)
Expressions == [var : DOMAIN Env \cup {None}, rest : Seq(Names)]

ASSUME PolicyAssumption ==
  /\ Env \in [DOMAIN Env -> Seq(Names) \cup {None}]
  /\ \A n \in DOMAIN Groups :
       /\ Groups[n].allow \in Seq([path : Expressions, mode : AccessModes])
       /\ Groups[n].deny \in Seq(Expressions)
       /\ \A w \in {Groups[n].network} \ {None} :
            /\ w.allow_domain \in Seq(ToSet(w.allow_domain))
            /\ w.route_hosts \in Seq(ToSet(w.route_hosts))
            /\ w.max_connections \in Nat \cup {None}

VARIABLES
  named,     \* the group names of the last resolve_groups
  denied,    \* the deny paths it returned, of every call so far
  checked    \* the set and the deny paths validate_deny_overlaps last accepted

policyVars == <<named, denied, checked>>

-----------------------------------------------------------------------------
(* expand_path: below $HOME or $TMPDIR, or as written. *)
Expandable(p) == p.var = None \/ Env[p.var] # None
expand_path(p) == IF p.var = None THEN p.rest ELSE Env[p.var] \o p.rest

group_matches_platform(group) == group.platform \in {None, "linux"}

network_requires_proxy(network) ==
  \/ network.allow_domain # <<>>
  \/ network.credentials # {}
  \/ network.route_hosts # <<>>
  \/ network.upstream_proxy # None
  \/ network.upstream_bypass # {}
  \/ network.max_connections # None

(* add_fs_capability: a path that is not there is passed over in silence. *)
add_fs_capability(acc, entry, name) ==
  IF acc.error # None THEN acc
  ELSE IF ~Expandable(entry.path) THEN [acc EXCEPT !.error = "ValueError"]
  ELSE LET path == expand_path(entry.path)
       IN  IF ~Exists(path) THEN acc
           ELSE [acc EXCEPT !.caps =
                   AddFs(@, FsCapability(path, entry.mode, ~IsDir(path), name))]

(* resolve_parent_symlinks: the nearest ancestor there is, made canonical. *)
NearestAncestor(path) ==
  Max({n \in 0..Len(path) : n = 0 \/ Exists(SubSeq(path, 1, n))})
resolve_parent_symlinks(path) ==
  Canonical(SubSeq(path, 1, NearestAncestor(path)))
    \o SubSeq(path, NearestAncestor(path) + 1, Len(path))

(* Below a regular file canonicalize fails, and not with "not found". *)
BelowFile(path) ==
  /\ NearestAncestor(path) < Len(path)
  /\ Canonical(SubSeq(path, 1, NearestAncestor(path))) \in Files

(* A plausible bug: the path as written is enough. *)
DenyPathsOf_Literal(path) == {path}

(* add_deny_access_rules: the path and where it really is. *)
DenyPathsOf(path) ==
  {path, IF Exists(path) THEN Canonical(path) ELSE resolve_parent_symlinks(path)}

add_deny_access_rules(acc, p) ==
  IF acc.error # None THEN acc
  ELSE IF ~Expandable(p) THEN [acc EXCEPT !.error = "ValueError"]
  ELSE IF BelowFile(expand_path(p)) THEN [acc EXCEPT !.error = "OSError"]
  ELSE [acc EXCEPT !.deny_paths = @ \cup DenyPathsOf(expand_path(p))]

block_network(acc, network) ==
  IF acc.error = None /\ network # None /\ (network.block \/ network_requires_proxy(network))
  THEN [acc EXCEPT !.caps = SetNetworkBlocked(@)] ELSE acc

resolve_single_group(acc, name) ==
  LET group == Groups[name]
      allowed == FoldLeft(LAMBDA a, entry : add_fs_capability(a, entry, name), acc, group.allow)
      denies == FoldLeft(LAMBDA a, p : add_deny_access_rules(a, p), allowed, group.deny)
  IN  block_network(denies, group.network)

(* A plausible bug: the error is kept for the end, and the loop goes on. *)
ResolveNext_GoesOn(acc, name) ==
  IF name \notin DOMAIN Groups THEN [acc EXCEPT !.error = "ValueError"]
  ELSE IF ~group_matches_platform(Groups[name]) THEN acc
  ELSE LET r == resolve_single_group([acc EXCEPT !.names = Append(@, name), !.error = None], name)
       IN  IF acc.error = None THEN r ELSE [r EXCEPT !.error = acc.error]

(* One turn of the loop of resolve_groups_impl; an error ends it, and what   *)
(* was done to the set of the caller stays.                                  *)
ResolveNext(acc, name) ==
  IF acc.error # None THEN acc
  ELSE IF name \notin DOMAIN Groups THEN [acc EXCEPT !.error = "ValueError"]
  ELSE IF ~group_matches_platform(Groups[name]) THEN acc
  ELSE resolve_single_group([acc EXCEPT !.names = Append(@, name)], name)

resolve_groups_impl(names, set) ==
  FoldLeft(ResolveNext,
           [caps |-> set, names |-> <<>>, deny_paths |-> {}, error |-> None], names)

-----------------------------------------------------------------------------
AppendNew(hosts, host) == IF host \in ToSet(hosts) THEN hosts ELSE Append(hosts, host)

(* A plausible bug: a group with a list of exceptions only is forgotten. *)
NothingToProxy_IgnoresBypass(config) ==
  /\ config.allowed_hosts = <<>> /\ config.route_hosts = <<>>
  /\ config.upstream_proxy = None /\ config.max_connections = None

NothingToProxy(config) ==
  /\ config.allowed_hosts = <<>> /\ config.route_hosts = <<>>
  /\ config.upstream_proxy = None /\ config.upstream_bypass = {}
  /\ config.max_connections = None

(* One group merged into what the groups before it asked for. *)
MergeNetwork(acc, network) ==
  IF network.credentials # {} THEN [acc EXCEPT !.error = "ValueError"]
  ELSE IF /\ network.upstream_proxy # None /\ acc.upstream_proxy # None
          /\ network.upstream_proxy # acc.upstream_proxy
  THEN [acc EXCEPT !.error = "ValueError"]
  ELSE [acc EXCEPT
          !.allowed_hosts = FoldLeft(AppendNew, @, network.allow_domain),
          !.route_hosts = @ \o network.route_hosts,
          !.upstream_proxy = IF @ = None THEN network.upstream_proxy ELSE @,
          !.upstream_bypass = @ \cup network.upstream_bypass,
          !.max_connections =
             IF network.max_connections = None THEN @
             ELSE IF @ = None THEN network.max_connections
             ELSE Min({@, network.max_connections})]

(* One turn of the loop of resolve_proxy_config_impl. *)
MergeGroup(acc, name) ==
  IF acc.error # None THEN acc
  ELSE IF name \notin DOMAIN Groups THEN [acc EXCEPT !.error = "ValueError"]
  ELSE IF ~group_matches_platform(Groups[name]) \/ Groups[name].network = None THEN acc
  ELSE MergeNetwork(acc, Groups[name].network)

NoConfig == [allowed_hosts |-> <<>>, route_hosts |-> <<>>, upstream_proxy |-> None,
             upstream_bypass |-> {}, max_connections |-> None, error |-> None]

(* No configuration, or one with an error or without. *)
resolve_proxy_config_impl(names) ==
  LET config == FoldLeft(MergeGroup, NoConfig, names)
  IN  IF config.error = None /\ NothingToProxy(config) THEN {}
      \* exceptions without an upstream proxy have nothing to bypass
      ELSE IF config.upstream_proxy = None THEN {[config EXCEPT !.upstream_bypass = {}]}
      ELSE {config}

(* effective_filter_hosts: an empty filter would let every host through. *)
effective_filter_hosts(hosts, route_hosts, allow_all) ==
  IF allow_all THEN {}
  ELSE LET filter == ToSet(hosts) \cup (ToSet(route_hosts) \ {None})
       IN  IF filter = {} THEN {DenyAllHost} ELSE filter

(* ProxyConfig::from_inner. *)
FilterOf(config) == effective_filter_hosts(config.allowed_hosts, config.route_hosts, FALSE)

-----------------------------------------------------------------------------
PolicyInit == named = <<>> /\ denied = {} /\ checked = None

ResolveGroups(names) ==
  LET result == resolve_groups_impl(names, caps)
  IN  /\ caps' = result.caps
      /\ raised' = result.error
      /\ named' = names
      /\ denied' = IF result.error = None THEN denied \cup result.deny_paths ELSE denied
      /\ UNCHANGED <<state, checked>>

(* validate_deny_overlaps: Landlock cannot deny below what the user allows. *)
Overlaps(deny_path, cap) ==
  /\ ~cap.is_file /\ cap.source = "user"
  /\ IsPrefix(cap.resolved, deny_path) /\ cap.resolved # deny_path

ValidateDenyOverlaps ==
  /\ \/ /\ \E d \in denied, c \in ToSet(caps.fs) : Overlaps(d, c)
        /\ raised' = "RuntimeError"
        /\ UNCHANGED checked
     \/ /\ \A d \in denied, c \in ToSet(caps.fs) : ~Overlaps(d, c)
        /\ raised' = None
        /\ checked' = [caps |-> caps, denied |-> denied]
  /\ UNCHANGED <<caps, state, named, denied>>

-----------------------------------------------------------------------------
(* A path that goes through a link whose target is not there. *)
Dangling(path) ==
  \E n \in 1..Len(path) : Canonical(SubSeq(path, 1, n)) \in {Links[l] : l \in DOMAIN Links} \ Real

(* A set that passed validate_deny_overlaps leaves no denied path below a    *)
(* directory the user allowed, wherever symbolic links on the way lead and   *)
(* whether the path exists or not; only a link that leads nowhere yet is not *)
(* followed.                                                                 *)
DeniedPathsStayOutOfReach ==
  checked # None =>
    \A d \in checked.denied : ~Dangling(d) =>
      \A c \in ToSet(checked.caps.fs) :
        ~c.is_file /\ c.source = "user" /\ Covers(c, Canonical(d)) => c.resolved = Canonical(d)

(* A group resolve_groups fails on: one it does not know, or one of this      *)
(* platform with an expression that names an unset variable or a denied path  *)
(* that cannot be.                                                            *)
Faulty(name) ==
  \/ name \notin DOMAIN Groups
  \/ /\ Groups[name].platform \in {None, "linux"}
     /\ \/ \E e \in DOMAIN Groups[name].allow : ~Expandable(Groups[name].allow[e].path)
        \/ \E d \in DOMAIN Groups[name].deny :
             \/ ~Expandable(Groups[name].deny[d])
             \/ BelowFile(expand_path(Groups[name].deny[d]))

(* What a group of this platform allows before the first bad expression. *)
Offered(cap, name) ==
  /\ name \in DOMAIN Groups /\ Groups[name].platform \in {None, "linux"}
  /\ \E e \in DOMAIN Groups[name].allow :
       /\ \A b \in 1..e : Expandable(Groups[name].allow[b].path)
       /\ cap.resolved = Canonical(expand_path(Groups[name].allow[e].path))
       /\ cap.access = Groups[name].allow[e].mode /\ cap.source = name

(* A failing resolve_groups leaves the set with what came before the error:  *)
(* nothing is taken back; nothing is granted of a group of another platform, *)
(* of one named after an unknown or a broken group, or of what a broken      *)
(* group allows after the bad expression; the error is raised; and no call   *)
(* opens the network.                                                        *)
GrantsStopAtTheError ==
  [][\A names \in {named'} :
       named' # named \/ denied' # denied =>
         /\ IsPrefix(caps.fs, caps'.fs)
         /\ \A i \in DOMAIN caps'.fs \ DOMAIN caps.fs :
              \E k \in DOMAIN names :
                /\ \A j \in 1..(k - 1) : ~Faulty(names[j])
                /\ Offered(caps'.fs[i], names[k])
         /\ (\E k \in DOMAIN names : Faulty(names[k])) => raised' # None
         /\ IsNetworkBlocked(caps) => IsNetworkBlocked(caps')]_<<capabilityVars, policyVars>>

(* The network a group closes for the sake of a proxy gets its proxy: the    *)
(* same groups give a configuration, or an error, and never nothing.  That   *)
(* configuration is no wider than each group: its filter is never empty and  *)
(* holds no host nobody asked for, the upstream proxy is the one every group *)
(* that names one names, and no group's limit on connections is exceeded     *)
(* (0, which stands for no limit, aside), in whatever order they are named.  *)
ProxyConfigIsNoWider ==
  LET configs == resolve_proxy_config_impl(named)
      networks == {Groups[n].network : n \in {m \in ToSet(named) \cap DOMAIN Groups :
                       Groups[m].platform \in {None, "linux"}}} \ {None}
  IN  /\ (\E w \in networks : network_requires_proxy(w)) => configs # {}
      /\ \A config \in {c \in configs : c.error = None} :
           /\ FilterOf(config) # {}
           /\ FilterOf(config) \subseteq {DenyAllHost} \cup
                UNION {ToSet(w.allow_domain) \cup ToSet(w.route_hosts) : w \in networks}
           /\ IsInjective(config.allowed_hosts)
           /\ \A w \in networks : w.upstream_proxy \in {None, config.upstream_proxy}
           /\ (\A w \in networks : w.max_connections # 0) =>
                \A w \in networks : w.max_connections # None =>
                  config.max_connections <= w.max_connections
=============================================================================
