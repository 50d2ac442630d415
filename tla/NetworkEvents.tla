---------------------------- MODULE NetworkEvents -----------------------------
(***************************************************************************)
(* The way of a network event from the proxy to the metadata of a session: *)
(* drain_audit_events and audit_event_to_py_dict of src/src/proxy.rs, then *)
(* set_network_events, the getter and the JSON of SessionMetadata in       *)
(* src/src/undo.rs.  An enumerated field is its Python string on both      *)
(* sides; id stands for the fields that are simply copied, time stamp and  *)
(* target, hidden for those the dictionary does not have.                  *)
(***************************************************************************)
EXTENDS Naturals, SequencesExt

CONSTANTS
  EventKinds,    \* the events the proxy may observe, without their id
  None,          \* an optional field without a value
  MaxEvents,     \* bound on the events of a proxy
  Missing,       \* the value of a field a dictionary does not have
  Untyped,       \* a value of another type than the field's
  Edits,         \* what the application may write into a field: <<field, value>>
  NoMetadata     \* no metadata

VARIABLES
  proxy,      \* "none", "running" or "stopped"
  buffer,     \* events observed and not yet drained
  observed,   \* history: how many events there were
  hand,       \* the list of dictionaries the application holds
  meta,       \* the SessionMetadata of the process
  saved,      \* the metadata on disk
  reply,      \* how the last set_network_events ended: "error" is an exception
  accepted    \* history: the last list that was accepted

eventVars == <<proxy, buffer, observed, hand, meta, saved, reply, accepted>>

-----------------------------------------------------------------------------
Fields == {"mode", "decision", "auth_mechanism", "auth_outcome", "injection_mode",
           "denial_category"}

(* What audit_event_to_py_dict writes for each field ... *)
Written ==
  [mode |-> {"connect", "connect_intercept", "reverse", "external"},
   decision |-> {"allow", "deny", "approve_requested", "approve_granted",
                 "approve_denied", "approve_timeout", "approve_error"},
   auth_mechanism |-> {None, "proxy_authorization", "phantom_header", "phantom_path",
                       "phantom_query", "spiffe_jwt_bearer", "spiffe_oauth_assertion"},
   auth_outcome |-> {None, "succeeded", "failed"},
   injection_mode |-> {None, "header", "url_path", "query_param", "basic_auth", "oauth2",
                       "spiffe_jwt"},
   denial_category |-> {None, "authentication_failed", "endpoint_policy",
                        "managed_credential_unavailable", "host_denied",
                        "intercept_handshake_failed", "upstream_connect_failed",
                        "connect_bypasses_l7", "external_proxy_rejected",
                        "unsupported_upgrade"}]

(* ... and what set_network_events reads. *)
ReadModes == {"connect", "connect_intercept", "reverse", "external"}
ReadDecisions ==
  {"allow", "deny", "approve_requested", "approve_granted", "approve_denied",
   "approve_timeout", "approve_error"}
ReadMechanisms ==
  {"proxy_authorization", "phantom_header", "phantom_path", "phantom_query",
   "spiffe_jwt_bearer", "spiffe_oauth_assertion"}
ReadOutcomes == {"succeeded", "failed"}
ReadInjections == {"header", "url_path", "query_param", "basic_auth", "oauth2", "spiffe_jwt"}
ReadCategories ==
  {"authentication_failed", "endpoint_policy", "managed_credential_unavailable",
   "host_denied", "intercept_handshake_failed", "upstream_connect_failed",
   "connect_bypasses_l7", "external_proxy_rejected"}

(* audit_event_to_py_dict: the fields the proxy alone knows are left out. *)
ToDict(event) == [id |-> event.id, fields |-> event.fields]
Dicts(events) == [i \in DOMAIN events |-> ToDict(events[i])]

(* get_item and extract: what a dictionary gives for a field.  For an         *)
(* optional field .ok() makes None of a missing or wrongly typed value; a     *)
(* required one is then an error, None being none of the values it may have.  *)
Given(d, f) == IF d.fields[f] \in {Missing, Untyped} THEN None ELSE d.fields[f]

Readable(d) ==
  /\ Given(d, "mode") \in ReadModes
  /\ Given(d, "decision") \in ReadDecisions
  /\ Given(d, "auth_mechanism") \in ReadMechanisms \cup {None}
  /\ Given(d, "auth_outcome") \in ReadOutcomes \cup {None}
  /\ Given(d, "injection_mode") \in ReadInjections \cup {None}
  /\ Given(d, "denial_category") \in ReadCategories \cup {None}

FromDict(d) == [id |-> d.id, fields |-> [f \in Fields |-> Given(d, f)], hidden |-> None]
Events(dicts) == [i \in DOMAIN dicts |-> FromDict(dicts[i])]

NewMetadata == [network_events |-> <<>>]

(* The events of a proxy, the dictionaries made of them or edited, and what   *)
(* becomes of them in the metadata.                                           *)
Texts == (UNION {Written[f] : f \in Fields}) \cup {None, Missing, Untyped, "unknown"}
Stamp(kind, n) == [id |-> n, fields |-> kind.fields, hidden |-> kind.hidden]
Ids == 0..(MaxEvents - 1)
Observable == {Stamp(k, n) : k \in EventKinds, n \in Ids}
Dictionaries == [id : Ids, fields : [Fields -> Texts]]
Stored == [id : Ids, fields : [Fields -> Texts], hidden : {None}]

ASSUME EventsAssumption ==
  /\ MaxEvents \in Nat
  /\ \A k \in EventKinds : /\ k.fields \in [Fields -> Texts]
                            /\ \A f \in Fields : k.fields[f] \in Written[f]
  /\ Edits \subseteq Fields \X Texts
  /\ None \notin ReadModes \cup ReadDecisions \cup {Missing, Untyped}
  /\ NoMetadata \notin [network_events : Seq(Stored)]

-----------------------------------------------------------------------------
EventsInit ==
  /\ proxy = "none" /\ buffer = <<>> /\ observed = 0
  /\ hand = <<>> /\ meta = NoMetadata /\ saved = NoMetadata
  /\ reply = "none" /\ accepted = <<>>

StartProxy ==
  /\ proxy = "none"
  /\ proxy' = "running"
  /\ UNCHANGED <<buffer, observed, hand, meta, saved, reply, accepted>>

(* A request of the sandboxed command passes through the proxy. *)
ProxyObserves ==
  /\ proxy = "running" /\ observed < MaxEvents
  /\ \E k \in EventKinds :
       buffer' = Append(buffer, Stamp(k, observed))
  /\ observed' = observed + 1
  /\ UNCHANGED <<proxy, hand, meta, saved, reply, accepted>>

(* A plausible bug: the buffer is read and left as it is. *)
DrainAuditEvents_KeepsBuffer ==
  /\ proxy # "none"
  /\ hand' = hand \o Dicts(buffer)
  /\ UNCHANGED <<proxy, buffer, observed, meta, saved, reply, accepted>>

(* Also after shutdown: the handle keeps what was observed. *)
DrainAuditEvents ==
  /\ proxy # "none" /\ buffer # <<>>
  /\ hand' = hand \o Dicts(buffer)
  /\ buffer' = <<>>
  /\ UNCHANGED <<proxy, observed, meta, saved, reply, accepted>>

Shutdown ==
  /\ proxy = "running"
  /\ proxy' = "stopped"
  /\ UNCHANGED <<buffer, observed, hand, meta, saved, reply, accepted>>

(* The application takes a field out of a dictionary, or writes a value no    *)
(* event has into it, of the field's type or of another: once in a list.      *)
ApplicationEdits ==
  /\ \A i \in DOMAIN hand, edit \in Edits : hand[i].fields[edit[1]] # edit[2]
  /\ \E i \in DOMAIN hand, edit \in Edits :
       hand' = [hand EXCEPT ![i].fields[edit[1]] = edit[2]]
  /\ UNCHANGED <<proxy, buffer, observed, meta, saved, reply, accepted>>

(* A plausible bug: events are stored one by one up to the bad one. *)
SetNetworkEvents_OneByOne ==
  /\ meta # NoMetadata
  /\ LET good == SelectInSeq(hand, LAMBDA d : ~Readable(d))
         taken == IF good = 0 THEN hand ELSE SubSeq(hand, 1, good - 1)
     IN  /\ meta' = [meta EXCEPT !.network_events = Events(taken)]
         /\ reply' = IF good = 0 THEN "ok" ELSE "error"
         /\ accepted' = IF good = 0 THEN hand ELSE accepted
  /\ UNCHANGED <<proxy, buffer, observed, hand, saved>>

(* set_network_events: the whole list, or an error and the list as it was. *)
SetNetworkEvents ==
  /\ meta # NoMetadata
  /\ \/ /\ \A i \in DOMAIN hand : Readable(hand[i])
        /\ meta' = [meta EXCEPT !.network_events = Events(hand)]
        /\ reply' = "ok" /\ accepted' = hand
     \/ /\ \E i \in DOMAIN hand : ~Readable(hand[i])
        /\ reply' = "error"
        /\ UNCHANGED <<meta, accepted>>
  /\ UNCHANGED <<proxy, buffer, observed, hand, saved>>

(* The network_events getter, from which an application goes on. *)
ReadNetworkEvents ==
  /\ meta # NoMetadata /\ hand = <<>>
  /\ hand' = Dicts(meta.network_events)
  /\ UNCHANGED <<proxy, buffer, observed, meta, saved, reply, accepted>>

(* SessionMetadata(...): a session of its own. *)
CreateMetadata ==
  /\ meta = NoMetadata
  /\ meta' = NewMetadata
  /\ accepted' = <<>>
  /\ UNCHANGED <<proxy, buffer, observed, hand, saved, reply>>

(* save_session_metadata, or to_json written to a file. *)
SaveSessionMetadata ==
  /\ meta # NoMetadata
  /\ saved' = meta
  /\ UNCHANGED <<proxy, buffer, observed, hand, meta, reply, accepted>>

(* load_session_metadata, or from_json of that file. *)
LoadSessionMetadata ==
  /\ saved # NoMetadata
  /\ meta' = saved
  /\ accepted' = Dicts(saved.network_events)
  /\ UNCHANGED <<proxy, buffer, observed, hand, saved, reply>>

(* What the process held is gone; its proxy was in it. *)
ProcessEnds ==
  /\ proxy' = "none" /\ buffer' = <<>> /\ hand' = <<>> /\ meta' = NoMetadata
  /\ reply' = "none" /\ accepted' = <<>>
  /\ UNCHANGED <<observed, saved>>

EventStep ==
  \/ StartProxy \/ ProxyObserves \/ DrainAuditEvents \/ Shutdown \/ ApplicationEdits
  \/ SetNetworkEvents \/ ReadNetworkEvents \/ CreateMetadata \/ LoadSessionMetadata

-----------------------------------------------------------------------------
EventsTypeOK ==
  /\ proxy \in {"none", "running", "stopped"}
  /\ observed \in 0..MaxEvents
  /\ buffer \in Seq(Observable)
  /\ hand \in Seq(Dictionaries)
  /\ {meta, saved} \subseteq [network_events : Seq(Stored)] \cup {NoMetadata}
  /\ reply \in {"none", "ok", "error"}

InOrderOnce(events) ==
  \A i, j \in DOMAIN events : i < j => events[i].id < events[j].id

(* Whatever mix of drains, loads, saves and crashes a session went through, *)
(* its events are in the order the proxy observed them, and none is twice.  *)
EventsInOrderOnce ==
  \A m \in {meta, saved} \ {NoMetadata} : InOrderOnce(m.network_events)

(* What the getter gives back for a dictionary that was put in: every value   *)
(* that was there with its type, None for every other field, and no None for  *)
(* a field every event has.                                                   *)
GivesBack(back, d) ==
  /\ back.id = d.id
  /\ \A f \in Fields :
       back.fields[f] = IF d.fields[f] \in {Missing, Untyped} THEN None ELSE d.fields[f]
  /\ None \notin {back.fields.mode, back.fields.decision}

(* A list with a dictionary that set_network_events refuses leaves the events *)
(* stored as they were; of a list it accepts every event is stored, in its    *)
(* place, and read back with what was said of it.                             *)
StoredIsTheAcceptedList ==
  meta # NoMetadata =>
    /\ DOMAIN meta.network_events = DOMAIN accepted
    /\ \A i \in DOMAIN accepted :
         GivesBack(Dicts(meta.network_events)[i], accepted[i])

(* "Set network events from a list of dicts (as returned by                 *)
(* ProxyHandle.drain_audit_events())": such a list is accepted.             *)
DrainedEventsAreAccepted ==
  (\A i \in DOMAIN hand : \E e \in Observable : hand[i] = ToDict(e)) => reply # "error"
=============================================================================
