# A verification development of nono-py

nono-py is a Python extension (Rust, PyO3) over the external `nono` and
`nono_proxy` crates. Its own logic is the execution of a command in a sandboxed
child (`src/src/sandboxed_exec.rs`), the tamper-evident audit log
(`src/python/nono_py/audit.py`), snapshots (`src/src/undo.rs`), policy
resolution (`src/src/policy.rs`) and thin bindings around the rest. This
directory holds TLA+ models of it, the TLC runs that check them and the proofs
TLAPS checks. Paths below are relative to the repository; line numbers are in
`PROJECT.json`, under "map".

## 1. Inventory

### sandboxed_exec: one call, several threads and processes

A call makes a supervisor socket pair and two pipes, creates a child, hands the
child's seccomp listener over to the parent, waits for the child while it
answers trapped system calls and drains the pipes, and returns output and exit
code. The GIL is released meanwhile, so calls run concurrently in one process.

| Part | State | Operations | What is hard |
|---|---|---|---|
| clone-files handoff (`do_clone_files_sandbox_exec`, `child_process_clone_files`) | the process's descriptor table, `SHARED_BOOTSTRAP_MUTEX`, listener snapshot, bytes on the socket pair | clone, install, report, unshare, DETACHED, validate, ACK, cleanup of every failure | the child runs on the parent's descriptor table until it unshares; it may die anywhere; a full table; other calls creating and closing listeners |
| pidfd handoff (`try_receive_proxy_notify_fd`, `install_proxy_fallback_if_needed`) | the child's own table, socket, cloned listener | fork, announce, `pidfd_getfd`, ACK, from within the wait loop | the handoff races the child's death and the deadline; it inserts listeners under the snapshot of the other kind |
| supervision (`parent_process`, `wait_for_child`, `service_proxy_supervisor`, reader threads) | wait loop, cancel flag, reader threads, pipes, process group, kernel queue of trapped calls | poll, answer, waitpid, kill at the deadline, abort, join | a process tree that outlives its root; EINTR; requests withdrawn between poll and receive; joins that depend on processes nobody serves |
| stdio wiring, limits, environment | descriptors 0 to 2, `setrlimit`, uid and gid, environment | dup2, close, sanitize | numbers that coincide when the embedder has closed 0 to 2 |

Correct means: no listener is mistaken for another call's, none is leaked that the
parent was told of or could list, no program whose network is trapped runs
unmediated, a call that returns leaves neither descriptor nor
process, output is complete, a timeout ends the group, and nobody waits for ever.

### The other components

- **Audit log** (`audit.py`). `AlphaRecorder` keeps a sequence number, the head
  of a hash chain and a Merkle list and appends JSON lines under a lock;
  `tail_session` follows a file that may rotate; `verify_log`,
  `build_inclusion_proof` and `verify_inclusion_proof` check it; a ledger chains
  session digests. Hard: recorder state against a failed write, rotation races,
  torn lines, boundary indices of proofs, duplicated sessions. Correct: the file
  is a chain that extends what was acknowledged, a proof verifies exactly the
  members, a tail yields the records of its file in order, once each.
- **Snapshots** (`undo.rs`). `SnapshotManager` numbers manifests on disk
  (baseline, incremental, resume, restore); `SessionMetadata` stores network
  events. Hard: resuming over stale manifests, an event list rejected half-way.
- **Policy** (`policy.rs`). Resolves groups and proxy settings into a capability
  set, by mutation. Hard: an error after part of the groups was applied.
- **Capabilities and state** (`lib.rs`). Network-mode transitions, JSON round
  trip, queries. Hard: a mode lost in the round trip.
- **Proxy bindings** (`proxy.rs`), **diagnostics** (`diagnostic.rs`,
  `stderr_observation.rs`), **limits wrapper** (`limited.py`): conversions, text
  analysis and glue around the components above.

They interact through calls only: policy and capabilities feed
`sandboxed_exec`, which calls diagnostics with the captured stderr; proxy events
are converted and stored with a session in `undo.rs`; the audit log is driven by
the application.

`PROJECT.json` lists every hazard of this code found so far at its line, with
the properties that cover it.

## 2. Modules

| Module | Models |
|---|---|
| `HostProcess` | the descriptor table the calls of one process share, the private tables of children, `SHARED_BOOTSTRAP_MUTEX`, the application's own descriptors, `seccomp_notify_fds` |
| `SandboxedExec` | what every proxy-only call has: preparation of socket pair and pipes, ownership of their ends, messages from child to parent, the drop of `ProxyNotifyFd`, the death of a child |
| `CloneFilesBootstrap` | the clone-files handoff, parent and child, with every failure path |
| `PidfdHandoff` | the pidfd handoff within the wait loop, its deadline and error paths |
| `ProxyHandoff` | calls of both kinds in one process, and the refinement mapping |
| `ListenerHandoff` | abstract specification: what both handoffs promise about a listener and the program it mediates |
| `Supervision` | one call from launch to return against a growing process tree |
| `CloneFilesBootstrapProofs` | theorems about `CloneFilesBootstrap` |
| `ProxyHandoffProofs` | theorems about `ProxyHandoff`, the refinement among them |
| `SupervisionProofs` | theorems about `Supervision` |
| `StdioWiring` | the descriptors a call opens before its child exists, and the child's closes and `dup2`s, in all three kinds of child |
| `StdioWiringProofs` | theorems about `StdioWiring` |
| `Snapshots` | `SnapshotManager` over the manifests of a session directory |
| `NetworkEvents` | audit events from the proxy through `drain_audit_events`, `set_network_events`, the session file and back |
| `Calendar` | `chrono_now_iso8601` against the definition of the Gregorian calendar |
| `Session` | snapshots, events and metadata of one session, used by one process after another |
| `SessionProofs` | theorems about `Session` |
| `Capabilities` | paths, links and canonicalisation; `CapabilitySet`, network modes and ports, `SandboxState` |
| `Policy` | `resolve_groups`, `resolve_deny_paths`, `resolve_proxy_config`, `validate_deny_overlaps` |
| `Diagnosis` | the line loop of `analyze_error_output`, the report and its remediations |
| `SandboxSetup` | an application that builds a set, saves, restores and checks it, and has the stderr of its command diagnosed |
| `SandboxSetupProofs` | theorems about `SandboxSetup`, `Capabilities`, `Policy` and `Diagnosis` |
| `Merkle` | the Merkle tree of the audit log, inclusion proofs and their verification |
| `AuditLog` | `AlphaRecorder` shared by threads, its file, rotation, crashes, `verify_log` |
| `AuditTrail` | `AuditLog` with a tail, a stored summary and damage to the file at rest |
| `AuditTrailProofs` | theorems about `AuditTrail`, `AuditLog` and `Merkle` |
| `InductionLemmas` | induction over the naturals and definition by recursion, without operator parameters |
| `MC*` | constants for TLC |

`SandboxedExec` extends `HostProcess`; `CloneFilesBootstrap` and `PidfdHandoff`
extend `SandboxedExec`; `ProxyHandoff` extends both and instantiates
`ListenerHandoff`. `Supervision` stands alone: it takes over where the handoff
ends and needs no descriptor numbers. So does `StdioWiring`, whose numbers are
the lowest ones, which the other modules never reach. `Session` extends
`Snapshots`, `NetworkEvents` and `Calendar`; `Policy` and `Diagnosis` extend
`Capabilities`, and `SandboxSetup` extends both; `AuditTrail` extends `AuditLog`,
which extends `Merkle`.

### How state and actions correspond to the code

- `fdTable[s]` is descriptor `s` of the host: the kind of its open file and the
  call it was made for. The kernel hands out the lowest free number, as POSIX
  requires. The four pipe descriptors of a call are opened and closed together,
  so they are one entry. `childTable[e]` is the child's own table after
  `close_range(CLOSE_RANGE_UNSHARE)` or `fork`; it tracks sockets only, since an
  end kept open elsewhere is what decides end of file and EPIPE.
- `pc[e]` is a place in the parent thread, named for what it does next;
  `cpc[e]` is the place of the child. Each action is the code between two points
  where another thread, the child or the kernel can interfere.
- RAII is explicit: `held[e]` is the set of ends the parent still owns, and a
  drop closes `HeldSlots`. A parameter outlives the function's locals, hence the
  `drop` phase after the mutex is released.
- The probe of `read_bootstrap_exact` (poll found nothing, then
  `waitpid(WNOHANG)`) is one action without a guard on the queue: the queue may
  fill between the two calls. `BootstrapFails` is every other way the handshake can
  end badly (poll, read, `waitpid`, a wrong marker, the signal mask): the child is
  then alive, anywhere before its ACK.
- The cleanup finds an unreported listener by listing `/proc/self/fd`, for which it
  needs a free number, and takes a listing that fails for an empty one
  (`ListNewListeners`). `unlisted[e]` is a history variable: the cleanup of `e` could
  not list and had not been told of a slot either. The snapshot before the clone uses
  the same listing, but aborts the call when it fails.
- `fallback[e]` says whether the sandbox of a pidfd child comes back with the
  `ProxyOnly` fallback. If not (Landlock mediates the network while the pidfd handoff
  was asked for), the child closes its socket and goes on to `execve` (`SkipFilter`),
  and its parent, which has made a socket pair and polls, must take that for
  nothing to adopt. In `ListenerHandoff` this is `needed`.
- `KillAndReap` is one action: whatever the child does before SIGKILL lands are
  steps that come before it.
- The close of `fds[e]["child"]` by the child and its `execve` never touch the
  host, so the descriptor scrub is one action.
- In `Supervision` a process of the tree may fork inside or outside the group
  (`setsid`) with any subset of its streams, write, trap, be interrupted and
  exit at any time. `Queued` are the trapped calls nobody has received, in the
  order `ahead` gives them; `serving` is the one being answered, withdrawn when its caller dies or
  is interrupted. A pipe holds `PipeCapacity` chunks, and a reader checks the
  cancel flag, reads, and polls exactly as the loop does. Both answers of
  `handle_proxy_notification` resume the caller, so the policy is left out.

- In `StdioWiring` a table maps numbers to the end that is open there. The
  parent opens lowest numbers first over whatever the embedder left open, the
  child copies the table and runs its closes and `dup2`s in the order of the
  source, which `After` gives for each kind of child. A close is by number,
  whatever is open there by then: that is the point of the module.
- In `Snapshots` a manifest is a number and the file states it saw; `manager`
  holds what the Rust object holds, so that a process that ends loses it and a
  new one finds only `manifests`. `NetworkEvents` keeps, for each optional field
  of an event, the strings the getter writes (`Written`) and those the setter
  reads (`Read...`), translated from the two sides separately. A dictionary may lack
  a field or have a value of another type in it (`Missing`, `Untyped`), which the
  application writes into what it was given (`ApplicationEdits`): the setter refuses
  it where the field is required and takes it for `None` where it is not (`Given`).
  What an event has besides (`hidden`) is not in the dictionary and is lost.
- Paths are sequences of names, links a function from paths to paths, `Follow`
  and `Canonical` what the kernel makes of them. An access mode is a set of
  rights. `resolve_groups` is a fold over the names that stops at the first
  error, since the set it mutates keeps what was granted before.
- A line of stderr is the record of what the string helpers of
  `stderr_observation.rs` find in it (an error code, a denial phrase, a syscall
  property, a path, ...). The machine that pairs lines with each other
  (`pending_*`) is modelled in full.
- In the audit modules a hash is the term that was hashed, so two hashes are
  equal when their inputs are. A file is a sequence of pieces of lines: a write
  can be seen, fail or be lost between two of them. `mishaps` records which kinds
  of accident a behaviour had, and each property says which it tolerates.

## 3. What the runs show

| Run | Specification and bounds | Shows |
|---|---|---|
| `clone_safety` | `Spec`, two calls, 7 descriptors, one application descriptor, symmetry; 2.5 million states | the seven invariants and `ClosesOnlyItsOwn`; only a listener nobody reported and nobody could list is left |
| `clone_liveness` | `FairSpec`, two calls, 6 descriptors | a waiting bootstrap gets through; a dead child is collected |
| `handoff` | one clone-files and one pidfd call, 7 descriptors | both implement `ListenerHandoff`, with a fallback and without; the snapshot stays current; nothing of a pidfd call leaks; the announced child is acknowledged or gone |
| `supervision` | tree of up to three processes, one stream, two chunks, pipe of one chunk, one signal | group gone after timeout or error, complete output, reaped root, no deadlock among command, readers and parent |
| `timeout_report` | one pidfd call | *violated*: a handoff in flight at the deadline turns 124 into an exception |
| `traps_after_exit` | tree of two | *violated*: a descendant that traps after the root was reaped is never answered |
| `background_writer` | tree of two | *violated*: a descendant holding stdout outlasts the deadline |
| `session` | two roots, one name, `MaxNumber` 2, `MaxTaken` 3, two events, one edit in a list, clocks around leap days; 2.4 million states | a resumed manager continues from the whole latest manifest; events are drained in order and once, stored all or none, and read back as they were given; the start date is right |
| `event_round_trip` | one event for each value of each field | *violated*: a drained list is refused by `set_network_events` |
| `sandbox_setup` | eight directories and files, two links, ten groups, three calls, five lines of stderr; 201 thousand states | denied paths that passed the check are out of reach, proxy configuration and restored state are no wider than what they come from, an unknown or broken group stops the grants, advice is sufficient, hints are justified |
| `stdio` | descriptors 0 to 7, any set of them open | *violated*: a plain-fork child closes the stream it has just wired |
| `audit` | two threads, a short and a long line, three records, two files, three mishaps, symmetry; 1.4 million states | the log verifies, a verified log is the session, a tail is faithful, proofs are exact |

Why the bounds are enough. Two calls are what it takes for one to interfere
with another's critical section; the theorems of section 5 cover any number. A
call needs two socket entries and a pipe entry, then a listener and, for a
moment, a pidfd. In the clone-files runs, seven entries with one for the
application, or six without, hold one call and most of a second, so that every
kind of allocation meets a full table in some behaviours and succeeds in others.
`handoff` has seven and no application: room for the pidfd call to clone its
listener while the clone-files call is inside its critical section, which is
what the mutex must prevent; its failures for want of an entry are the
`CloneFdFails` that may happen at any clone. With three processes
the tree has a descendant inside the group and one outside, and two that trap at
a time. Two chunks and a pipe of one make the writer block. One signal
interrupts one `waitpid`. The second stream behaves like the first and is left
to the constants. A composition of two clone-files calls with a pidfd call is
beyond TLC here; the pairs are checked, and safety is proved for any number.

`session` takes two roots because the path filter is built per root, and two
manifests beyond the baseline so that there is a wrong one to resume from. The
clocks cover every kind of year (ordinary, leap, century, 400 years) at both ends of
February and of the year. `sandbox_setup`
has a link that leads out of the home directory and one that leads nowhere, a
group for each way a network can ask for a proxy, one that fails between two of its
grants, one that denies a path below a file, one of another platform, and lists in
which a group that grants follows one that fails; after three calls of the setup no new kind of set appears
that these properties tell apart, and five lines are what it takes to begin, give up,
and begin again to pair a denial with a path (`MAX_STRUCTURED_PENDING_LINES` and
`MAX_PATH_HINTS` are 2 here instead of 5 and 50). The setup allows five lines with no call, two
after one and none after more, since advice depends on the set and the lines
only. It takes `is_network_blocked` to be true of `blocked` and of `proxy_only`,
`set_network_blocked` to replace the mode, and a capability restored from JSON
to have the source `user`: these belong to the nono crate. `stdio` needs a number
more than the call opens. `audit` needs two threads to race, a line of two pieces
to be torn, two files for a rotation, and up to five leaves for a tree with an
odd level above an odd level (`MaxReplayed`). A behaviour of `AuditTrail` has
either a tail or a verification: both only read.

Deadlock is checked in `clone_safety`, where the application always has a step;
the other runs stop when every call has returned.

Each property of a passing run has a mutant: a definition of the model changed
the way a plausible bug would change the code (a dropped mutex, an ACK not
awaited, a kill of the direct child only, an empty pipe taken for its end). TLC
finds the property violated with it. Mutants stand before the definition they
replace and are named after it.

### Disagreements met

1. `wait_for_child` services the supervisor after the kill; an error there
   replaces the documented 124 (`timeout_report`).
2. `parent_process` joins the readers without serving the listener it still
   holds (`traps_after_exit`): background descendant, readers and parent wait on
   each other for ever.
3. `timeout_secs` is not a maximum runtime when a descendant outlives the direct
   child with stdout open (`background_writer`).
4. `set_network_events` takes lists "as returned by
   `ProxyHandle.drain_audit_events()`", but does not know the denial category
   `unsupported_upgrade` (`event_round_trip`).
5. `child_process` closes both pipe write ends after `dup2` even if one of them
   is descriptor 1 or 2 (`stdio`): with 1 and 2 closed in the embedder a plain
   fork starts the command without stderr. The clone-files child checks, and
   `StdioWiringProofs` proves that it is right.

Seen but with no run of their own: when the descriptor table is full and a
clone-files child dies before it has reported its listener, the cleanup cannot
list the descriptors, `unwrap_or_default` makes that an empty list
(`sandboxed_exec.rs:1493-1494`) and the listener stays open for as long as the
process lives, while "Every debug fault phase fails closed and releases bootstrap
descriptors" (`tests/test_proxy_only_pre_v4_regression.py:490`, of
`test_pre_v4_bootstrap_failures_do_not_leak_listeners`); `NothingLeaks` states
exactly this exception, and without it `clone_safety` is violated. A
trapped caller that is withdrawn between poll and receive, or between the validity
check and the response, ends a healthy execution with an error.
`analyze_error_output` resets the count of lines when a new code starts the wait
anew, and keeps the access (`stderr_observation.rs:91-94`): the path of an error
that names no syscall gets the access of the error before it when the two are
within `MAX_STRUCTURED_PENDING_LINES` of each other. `HintsAreJustified` allows
that much and nothing more: no access from before the wait was given up or a path
was paired. `set_network_events` takes a value of another type in an
optional field for `None` without a word. `service_proxy_supervisor` keeps answering a
command that traps without pause and looks at no deadline meanwhile; the
`waitpid` after a kill is not retried on EINTR, which leaves a zombie
(`ChildIsReaped` states the exception); after an error past the deadline the
pid that was reaped is killed and waited for once more. `tail_session` "yields
each freshly appended record as it lands" (`audit.py:143-144`), but when it finds
another file at the path after its sleep it closes the old one without having
read what was appended to that meanwhile; `TailIsFaithful` therefore speaks of
the file the tail is in only. A tail does not notice a file that was truncated
and has grown past its position again: it skips records or stops on half a line,
and a rename between its `stat` and its `open` raises
`FileNotFoundError`. `verify_log` reports a wrong event count but does not reject
it, and `verify_inclusion_proof` takes the leaf count from the proof. After a
flush that failed, `AlphaRecorder` is ahead of the file until the buffer of the
same handle gets out; a handle that is given up loses the chain
(`KeptHandleVerifies` states the condition). A new baseline in an old session
leaves the higher manifests on disk, and the next process resumes from those
(`rebased`). `analyze_error_output` cuts stderr at a byte index, which panics
inside a character. The scrub that keeps a socket closes numbers below the soft
limit only. Merging `max_connections` with min lets one group's 0, "unlimited" in
the documentation, remove the limit of another. A remediation that allows the
working directory does not reach a path below it that a link leads out of. The
handshake socket of the pidfd child may itself be descriptor 1 or 2.

## 4. Fairness

`Fairness` of `CloneFilesBootstrap` and `HandoffsFairness`: weak fairness of
each parent thread and of each child during its bootstrap, since the operating
system runs every runnable thread and both loops poll with bounded sleeps.
Weak, not strong, fairness suffices for the mutex in these instances: a call
enters and leaves the critical section finitely often. No fairness for the death
of a child, the exit of a program, the application or the kill at a deadline:
nothing in the code makes them happen, so the liveness properties hold even when
targets run for ever. `Supervision` adds that time goes on (`DeadlinePasses`)
and that the readers run; a command owes nothing. The other modules promise
nothing that must happen and state no fairness.

## 5. Proofs

`CloneFilesBootstrapProofs` proves, for every finite or infinite set of calls,
every set of descriptor numbers and every number of application descriptors:
type correctness (`TypeCorrect`), the inductive invariant (`InvariantHolds`)
and from it `SharingIsExclusive`, `SnapshotIsCurrent`, `ValidationAccepts`,
`OwnsItsListener`, `TargetIsMediated` and `NothingLeaks`. The assumptions are
`HostAssumption` and `CloneAssumption`: descriptors are naturals, the value of a
free mutex is no call, the clone-files calls are calls.

The properties are not inductive alone. `IInv` adds, per call:

- `PhaseInv`: how far the child can be at each phase of the parent;
- `HeldInv` and `Accounts`: the ends the parent owns are open under the numbers
  it has, and the table has no other entry of this call but its listener;
- `MessagesInv`: what is in flight, so that what the parent reads is what the
  child sent last;
- `ListenerInv`: a listener stays at the slot `install_raw` returned until the
  parent closes it, what the parent knows of it is right, and only a cleanup that
  was `unlisted` leaves it open;
- `SnapshotInv`: the snapshot against the table;

and, over all calls, `MutexInv`: the holder of the mutex is the one call whose
thread is in a critical section. The argument is by frames: a step of one call
touches its own variables, fills free entries for itself and frees its own
(`VarsStep`, `TableStep`), and listeners come and go only while the stepping
call holds the mutex (`ListenersStep`). `StepPreserves` concludes from the frame
that what the invariant says of every other clone-files call is kept, so each
action is proved about its own call only, and gives the frame (`Frame`) back to
whoever has to argue about calls of the other kind. `IInv` was checked with TLC on the instance of
`clone_safety` before it was proved.

From the same invariant follows the action property `ClosesOnlyItsOwn`
(`AlwaysClosesOnlyItsOwn`): whatever number a step closes is a number of the
call that takes the step (`OwnSlots`).

`ProxyHandoffProofs` proves of any number of calls of both kinds in one process
type correctness (`HandoffsTypeCorrect`), that the snapshot of a clone-files call
stays right next to pidfd calls (`SnapshotStaysCurrent`), that a pidfd call that
returned left nothing and a clone-files call no more than `NothingLeaks` allows
(`NoHandoffEverLeaks`), and that every call, with a fallback or without, implements
`ListenerHandoff` (`HandoffsKeepPromise`), from the two assumptions above,
`PidfdAssumption` and `HandoffsPartition` (every call is of exactly one kind).
`HandoffsInv` is `IInv` for the clone-files calls, and for each pidfd call how far
its parent and its child can be (`ProgressInv`), which entries of the table are
its own (`OwnershipInv`), that it knows the number of a listener exactly when the
table has one for it (`AdoptedInv`) and what is known of the child's end of the
socket (`ChildEndInv`); of the private tables only sockets are tracked
(`CopiesInv`). A step of either kind keeps to its frame (`SharedFrame`), so it leaves every other
call alone (`OthersKept`). The refinement uses the same frames: the invariant
tells where a listener is from the place of its call (`StatesKnown`), each step
of a call moves its own listener and program as the promise allows
(`PromisedStep`, in `CloneKeepsPromise` and `PidfdKeepsPromise`), and those of the
other calls stay (`StateFrame`). `HandoffsInv` was checked with TLC on the
instance of `handoff` and on two pidfd calls before it was proved.

`SupervisionProofs` proves type correctness, `EndsTheGroup`, `OutputIsComplete`
and `ChildIsReaped` of `Supervision` for every process tree, any number of
streams, chunks and signals, from `SupervisionAssumption` (the root is a process,
the bounds are naturals). `IInv` adds where the calling thread can be at each
result (`PhaseInv`), that a received call that is still valid has its caller
blocked (`ServingInv`: an answer revives nobody), that the root has started and
leads the group (`RootInv`), that nothing of the group lives after a kill
whatever is forked later (`KillInv`), that the root is reaped (`ReapInv`), and
that the chunks of a stream are captured or in the pipe unless a reader was told
to stop (`StreamInv`).

`SessionProofs` proves type correctness, `ResumeIsWhole`, `EventsInOrderOnce` and
`StoredIsTheAcceptedList` of `Session` for every set of roots, names and
manifests, any number of snapshots, observations and processes, from
`SnapshotsAssumption`, `ManifestAssumption`, `EventsAssumption` and
`SessionAssumption` (a clock has a second of the day). The invariant
has one part per component. `SnapshotsInv`: a manager that is closed or has seen
no manifest counts nothing (`CountInv`), before the first snapshot there is
nothing anywhere (`FreshInv`), and until a new baseline restarts the numbers the
manifests on disk are `0..n` with `n` the last one taken, each the child of the
one before, and an open manager's latest and counts agree with it (`DiskInv`).
`EventsInv`: the proxy's buffer is in the order of observation (`BufferInv`),
everything drained is older than everything still buffered (`HandInv`), the metadata
in memory and on disk hold such a list, whose events have all their fields
(`MetadataInv`), and it is the one accepted last (`AcceptedInv`). `StartedIsTheDate` is
a fact about `chrono_now_iso8601` alone (`StartsOnTheDate`), for all days from 1970 on:
the day a state of the year loop stands for does not change (`DayOf`), so the loop
stops in the year `Start` puts that day in (`YearLoopIs`); the month loop likewise, by
induction from December down (`MonthLoopIs`); and the reference counts the same
days from March (`DayNumberIs`). That the recursive functions exist, without which a
recursive definition says nothing, is proved first (`YearLoopExists`, `MonthLoopExists`).

`StdioWiringProofs` proves, for every highest descriptor number of at least 2
and every set of open descriptors, that a clone-files child starts its program
with its pipes on 1 and 2 and nothing above (`CloneFilesIsWired`), and a plain
fork when the embedder has 0, 1 and 2 open (`ForkIsWired`). The invariant
(`StdioInvariant`) says that numbers are given out in ascending order
(`Ascending`) and what the child's table holds at each step (`ChildInv`).

`AuditTrailProofs` proves the four properties of `audit` for every set of threads
and of events, every number of pieces a line can fall into and all bounds, from
`AuditAssumption` (no thread is the free lock, no event is `None`, a line has at
least a piece, there is at least one file).

- `VerifiedLogIsTheSession` needs nothing of the log but types and that a summary
  is a prefix of the recorder's chain (`LogTypes`): a text that `verify_log`
  accepts chains its own events (`VerifiedChain`), and the head of a chain
  determines them.
- `InclusionProofsAreExact` is about `Merkle` alone. `LevelsShape` gives the width of
  every level and what is above it, `SiblingExpected` that a level contributes the
  sibling whose side the verifier expects, or none, `BelowIsPrefix` where that
  sibling stands in the proof. From the root down, the levels that use up a sibling
  and its side there determine the index of a proof that verifies
  (`VerifiedIndex`); at its own index the computed hash is that of the tree exactly
  if the leaf is (`VerifiedLeaf`).
- `KeptLogVerifies` and `FaithfulTail` follow from the inductive invariant
  (`LogIsInOrder`), each part of it under the accidents it tolerates. `OrderInv`: in a
  file with the buffer of its handle, records are in the order of their sequence
  numbers, and later files hold later records. `LineInv`: every piece stands in its
  line, and a live handle is at the end of one. `ChainInv`: that text is a chain with
  all acknowledged records and the recorder, or the record a thread is about to
  write, continues it. `TailOrder`: what the tail has yielded is ordered and
  older than all it has yet to read. `TailLines`: its buffer is the part of the
  current line it has read, and every whole line before was yielded. What
  a step does to files is said once (`Moves`, `Loses`, `Truncate`, `Writes`; `FileSteps`),
  and each part is kept under each of them. The invariant was checked with TLC on
  the instance of `audit` before it was proved.

`SandboxSetupProofs` proves all properties of the run `sandbox_setup`, for every file
system, policy, environment, list of groups, sequence of calls and every stderr. The
assumptions are types, and besides: a parent of a path that exists exists, a symbolic
link leads to a canonical path in one step, and the working directory of the command is
a canonical directory (`CapabilitiesAssumption`, `PolicyAssumption`,
`DiagnosisAssumption`, `SetupAssumption`). The inductive invariant (`SetupInv`) is small,
since what is hard is in the loops the calls run:

- The loops are folds, and the fold of the community modules is recursive over sets
  of positions. `FoldExists` proves that such a fold exists, by induction over the
  first k positions; for each loop of the code there is a lemma that it goes on
  element by element (`AllowSteps`, `DenySteps`, `ResolveSteps`, `ReadSteps`,
  `AppendSteps`, `MergeSteps`), after which an invariant of the loop is proved by
  `InductionUpTo`.
- `resolve_groups` (`ResolveGrants`): a turn adds capabilities in the name of its
  group, and only what the entries before the first bad expression offer (`Grants`,
  `GroupGrants`), and two turns add up (`GrantsTransitive`). An error is never
  recovered from, so that a turn after it adds nothing (`ResolveKeeps`), hence
  `SetupGrantsStopAtTheError`.
- Denied paths (`SetupDeniedPaths`): `canonicalize` is a walk over the names
  (`CanonicalWalk`). Below the nearest ancestor that exists a walk meets no link unless
  the path is dangling (`WalkBeyond`), so `resolve_parent_symlinks` returns the
  canonical form, and the deny paths are `Settled`: each with its canonical form. What
  passed the overlap check was therefore compared under both names, and stays so
  (`Accepted`).
- Restored sets (`SetupRoundTrip`): a saved state is the set it was made from less the
  port lists, and `from_caps` refuses a set that has any (`Saved`).
- The proxy configuration (`SetupProxyConfig`): after k names it serves every network
  merged so far and holds no other host (`Merged`), and a later merge takes nothing away
  (`GoesOn`).
- Hints (`SetupHints`): after k lines the access a denial waits with and the file last
  created are those the reference `Justified` speaks of (`Awaiting`, `Created`), and
  what was observed is told by the lines (`Watched`).
- Remediations (`SetupRemediation`): the report has one diagnostic for a path or is
  silent (`AdviceIs`), the closest covering capability exists when one covers
  (`ClosestIs`), and what it grants makes up, with the narrowed rest, what was denied
  (`NarrowIs`, `RemediedGrants`).

`SetupInv` holds in TLC on the instance of `sandbox_setup` as well.

Recursive definitions are reasoned about with `InductionLemmas`: a set of numbers
with 0 that is closed under successor holds all of them (`Induction`, from the
well-foundedness of the naturals), and a first value and a step determine a function
over `0..n` (`Recursion`), so that the recursive functions of `Merkle` and `AuditLog`
satisfy their equations (`LevelsDefined`, `ClimbDefined`, `UpToDefined`, ...).

Only model-checked: the properties that need fairness (`BootstrapResolves`,
`DeadChildIsCollected`, `AckedOrGone`, `FullPipesDrain`, `RootIsServiced`,
`ReturnsAfterTheTree`), since TLAPS proves neither liveness under fairness nor ENABLED,
and the absence of deadlock in `clone_safety`. Every invariant and every other action
property of a passing run is a theorem.

## 6. Not modelled

- Failure to set the pipes non-blocking; the death of the host process (PDEATHSIG).
- Reuse of process ids; a root that leaves its own process group. `Supervision`
  starts with the group in place: before either `setpgid` the child has no
  descendants.
- The two pipes of a call are one entry, so a stderr pipe that fails after the stdout
  pipe was made is a failure of the entry (`CreatePipes`; `StdioWiring` has both).
- The clone-files model collects a child and drops its listener in one step
  (`ReapChild`); the join of the readers in between is in `Supervision`, whose runs
  show that it may not end. `DeadChildIsCollected` is about the bootstrap and its
  descriptors.
- A reader that ends with an error, which `unwrap_or_default` turns into empty output
  next to the exit code: reading and polling a pipe the reader owns does not fail
  otherwise than by EAGAIN and EINTR, which are handled (`ReadEmpty`).
- `nono` and `nono_proxy` themselves, and what the filter traps.
- Around a command: validation of arguments, program lookup, environment
  building, `setrlimit`, `chdir`, the privilege drop. They are sequential and
  share no state with anything modelled.
- Audit: the session ledger and its digest (one more chain, whose entries nobody
  reads back but the verifier), attestation (signatures of the `nono` crate over
  a digest, and comparisons of fields), the validation of events. A last line that
  is complete but for its newline, which `verify_log` accepts and `Parses` does not
  (a piece carries its newline), and a `write` that raises itself, which a line
  longer than the buffer makes possible and which loses what the buffer cannot take:
  here only the flush raises (`FlushFails`).
- Snapshots: the walk over the file system, the object store, errors of the crate
  such as a budget or a full disk; a session directory that cannot be read
  (`FindLatest`); setters of single metadata fields.
- Policy: macOS rules, unlink overrides, `validate_group_exclusions`, the reading
  of `policy.json`; of the errors of `canonicalize` other than "not found", only that
  a component is a file (`BelowFile`): no permission, too many links and `..` end
  `resolve_groups` in the same place. A path that vanished before `to_caps`, which
  raises and restores nothing. Capabilities: `deduplicate`, `platform_rule` and the queries
  of `QueryContext`, which call straight into the crate.
- Diagnostics: how a line is recognised (string matching, which the unit tests
  cover); protected files, which the bindings never name; proxy diagnostics.
- `limited.py`, the type stubs, examples and packaging: no behaviour of their own.

## 7. Plan

1. The session ledger against duplicated sessions.
2. Environment building, as a function of the three sources a variable has.
3. Recognising lines of stderr, as far as a marker in one line hides another.
