# NetMedic in TLA+

Specifications of NetMedic, a network diagnosis and repair tool for the Linux
desktop: what its daemon promises about privileged operations, how an elevated
command is carried out, how Smart Repair decides, and how instances of the
program start, stop and crash next to each other, what clients learn about what they
asked for, how the window follows its threads, what the repairs of the network
do when their commands fail or come late, how the VPN script reaches root, and
what rotation keeps of the audit log. Paths below are relative to
`src/netmedic/netmedic/` unless they begin with `src/`.

## 1. The system

One process is at the same time GTK window (or headless loop) and IPC daemon.
The window does not touch the network itself: like the MCP server and scripts
it sends requests to the daemon over a Unix socket.

    window / MCP / AI pilot            daemon process                 root
    SyncIPCClient, PilotClient --> NetMedicIPCServer (4 workers)
                                     create_action_dispatcher
                                       catalogue, peer, token, polkit
                                       slot (1), audit log
                                       handler --> NetworkMedic --> run_elevated
                                                                     | pkexec
                                                                     v
                                                              netmedic-helper: commands

| component | state | operations | hard because |
|---|---|---|---|
| dispatcher (`ipc_actions.py`, `ipc_security.py`, `ipc_bridge.py`, `action_catalog.py`) | the semaphore of privileged slots, the session token, one thread per request | authorize, acquire, record the intent, run the handler, record the result, release | many exits, exceptions, threads; a fail-closed gate in the middle |
| audit log (`audit_log.py`) | `audit.log`, the limiter of denials | append, rotate, limit | appends fail, half or whole; the limiter is asked under a lock that is given up before the append |
| elevation (`system.py`, `helper_main.py`, `helper_verbs.py`) | a process tree of two users | plan, spawn pkexec, time out, kill, journal | two clocks; the daemon cannot signal what has become root |
| Smart Repair (`repair.py`, `network.py`, `probes.py`) | diagnosis before and after, results of the repairs | diagnose, skip, flush, renew, verify, verdict | the network changes while it is diagnosed |
| lifecycle (`lifecycle.py`, `runtime.py`) | `netmedic.lock`, `ipc.pid`, `ipc.sock`, `ipc.token` | acquire the lock, reap orphans, bind, clean up, handle signals | files are locked by inode and removed by path |
| network operations (`network.py`, `helper_verbs.py`) | the host; a verb of one or two commands under way | flush or change DNS, renew the address, restart NetworkManager or the adapter, toggle the firewall | the host changes by itself; commands fail half way, and are carried out after the daemon gave up |
| IPC clients (`ipc_sync_client.py`, `ipc_client.py`, `gui_actions.py`) | cached token, queue | request, refresh, retry | retry of what was done, timeout of 30 s against longer operations |
| window (`ui.py`, `ui_vpn.py`, `ai_console.py`) | busy counter, executor, queue of idle callbacks | run tasks, lock and unlock the controls, close, end by a signal | three kinds of threads; signal handlers run in the middle of the GTK thread |
| VPN operator (`operators/vpn/angristan.py`, `helper_main.py`) | the script and its copies, the PKI index, the service, helpers left behind | install, add and revoke clients, list them, start and restart the service | contents change between the hash and the run; dialogs are confirmed late |
| AI pilot (`src/netmedic_ai`), MCP server (`src/tools`), Wi-Fi, sensors, status, configuration | little or none | parse, adapt | |

Correctness, component by component: privileged operations are authorized,
announced before they start, serialised, answered truthfully and recorded once;
an elevated verb ends before its slot is given to another; a verdict of Smart
Repair says what is true of the network; one instance serves and leftovers of a
crash never lock the user out; a client that is told something can rely on it;
the controls are locked exactly while something is under way; a repair that
reports success has had its effect; root runs the pinned script or none; the
newest entries of the log survive its rotation.

`PROJECT.json` lists, under "hazards", the places where this is hard to test.

## 2. Modules

| module | models | abstract or detailed |
|---|---|---|
| `AuditTrail` | `audit_log.py` as its callers see it | part of `Dispatch` |
| `Dispatch` | `dispatch` and its callers and callees, by thread | detailed |
| `PrivilegedGate` | the promise: announced, bounded, at most once | abstract |
| `DispatchInvariant`, `DispatchProofs` | inductive invariant and theorems | proof |
| `Elevation` | `run_elevated`, pkexec and the helper, with clocks | detailed |
| `ElevationProofs` | inductive invariant and theorems | proof |
| `SmartRepair` | `run_smart_repair` and `run_diagnostics` | detailed |
| `SmartRepairProofs` | inductive invariant and theorems | proof |
| `Lifecycle` | `LifecycleManager`, `bootstrap`, `shutdown`, `handle_signals` | detailed |
| `LifecycleProofs` | inductive invariant and theorems | proof |
| `IpcClient` | `SyncIPCClient`, `PilotClient` and the daemons they talk to | detailed |
| `Window` | `MainWindow`, the VPN panel, the palette and signals | detailed |
| `UserSideProofs` | inductive invariants of `IpcClient` and of `Window`, and theorems | proof |
| `NetworkOps` | the six repairs of `NetworkMedic` and the plans of their verbs | detailed |
| `NetworkOpsProofs` | inductive invariant and theorems | proof |
| `VpnOperator` | `AngristanOperator` and the helper's staging of its script | detailed |
| `VpnOperatorProofs` | inductive invariants and theorems | proof |
| `AuditLog` | the files and the rotation of `audit_log.py` | detailed |
| `AuditLogProofs` | inductive invariants and theorems | proof |
| `MCDispatch`, `MCElevation`, `MCLifecycle`, `MCIpcClient`, `MCWindow`, `MCVpnOperator` | small instances | |

The module of every component has a `TypeOK` (`WindowTypeOK` in `Window`, whose
names keep apart from those of `IpcClient`), which says what its variables
hold. It is proved for each of them; no run spends itself on it.

### AuditTrail and Dispatch

A request is one connection. `pc[r]` is the point its worker thread has
reached, and an action covers the code from one use of shared state (slot, log,
limiter) to the next: the rest of what a thread touches is its own.

- `Receive` is `_listen_loop`, `_handle_connection` and `_handle_payload` for a
  well-formed request. At most `Workers` are in flight.
- `Reject`, `DenyAuth`, `AuthRaises`, `RejectParams`, `Admit` are the checks in
  their order: peer and catalogue, `validate_privileged`, parameters. With the
  helper in use polkit is asked by pkexec, otherwise it may deny here.
  `compare_digest` raises for a token that is not ASCII (`AuthRaises`).
  `get_session_token` behaves as a safe action.
- `AcquireSlot`, `Busy` are the non-blocking semaphore.
- `LimitDenial` and `LogDenial` are the two critical sections of
  `record(outcome="denied")`; other threads run between them.
- `Begin`, `RefuseUnaudited`, `IntentRaises` are `record_intent`: success,
  `OSError`, and the `UnicodeEncodeError` of parameters with lone surrogates,
  which is not an `OSError` and takes another path. The branch for an action
  without a handler cannot be reached: every action of the catalogue has one.
- `HandlerReturns`, `HandlerRaises`, `LogCompletion`, `LogException`, `Leave`
  are the handler, `_finish_privileged`, `except Exception` and `finally`.
- `Crash` kills the daemon; threads, slots and limiter are lost, the file stays.

An append writes the line, nothing, a torn line, or all of it with a failing
fsync (`AppendFails`). A line behind a torn one is not `intact`. The files
behind the log are the subject of `AuditLog`; a denial window may expire at any
time; on a machine that booted less than 5 s ago all windows count as open.

`ran`, `unlogged` and `crashes` are history. `unlogged` remembers the requests
of which a record was lost, so that properties can excuse exactly those.

### PrivilegedGate

Three sets: `announced`, `active`, `entered`. `Dispatch` implements it under
the mapping announced = requests with an intent in the log, active = privileged
handlers running, entered = privileged requests that ever ran (`GateSpec`).

### Elevation

One call is one `run_elevated`; the daemon waits for one at a time, and what it
leaves behind goes on. `stage` is where the helper process is (dialog, command,
killing a process group, ended), `clock` the seconds it has spent there,
`waited` those of the daemon. `Tick` is a second. The helper gives every
command of the verb the whole timeout, as `_execute_plan_inner` does. When the
daemon's limit expires it can end pkexec only while the dialog is open
(`_terminate_process_group` gets EPERM afterwards). `spent` adds up what a call
has spent outside the command now running (the dialog, the commands before it,
killing), which is what the margin of the daemon has to pay for; `begun`
remembers the calls whose helper became root.

A command that fails ends in one of three ways (`CommandFails`): a failure in
the journal and in the answer; "dismissed" in its output, a cancellation in both;
"cancel" in its message, a failure in the journal and the exit code of a
cancellation, which the daemon answers. An exception nobody catches
(`HelperRaises`: a command that cannot be executed, output that does not decode,
a copy that cannot be staged) ends the helper without a record. A record that is
written is taken to reach the journal. `run_elevated`'s refusals before pkexec is
called (an invalid verb, no helper, another version) have no root side and are
left out.

### SmartRepair

`Network` is the state of the host; each probe reads it when it runs, and
`NetChange` may come between any two steps. `ProbeGateway`, `ProbeDns`,
`ProbeInternet`, `ProbePortal` are `run_diagnostics` in order, `CodeOf` its
result code, `DiagnosisLost` a failing IPC request. `Decide`, `FlushDns`,
`RenewIp`, `Conclude` are the sequence and the verdict. Waiting for the
interface to settle only takes time and is part of the steps around it.
`settled` remembers whether the network has changed since the diagnosis began.

### Lifecycle

Every system call on a shared file is a step. `path` is the inode the name
`netmedic.lock` leads to, `fd[p]` the one process p has open, `pidIn` what is
written in it. `Open`, `Flock`, `Truncate`, `Write` are `_try_acquire_lock`,
`Exists`, `Read`, `Reap` the recovery in `acquire_lock`; `WritePid`,
`IssueToken`, `RemoveStaleSocket`, `Bind` the rest of `bootstrap`; `Stop`,
`Revoke`, `Unlock`, `RemovePid`, `RemoveSocket`, `RemoveLock`, `RemoveToken` the
end. `StraySignal` is a signal to a process that does not serve: the handlers
are installed before the lock is acquired. `Kill` may come at any point. Pids
are not reused. `orderly` remembers that starts and ends have not overlapped and
that no stray signal came, `rival` which processes started beside a serving one.

### IpcClient

A request is one call of `request` or one item of `PilotClient`'s queue, with at
most two attempts; `pc[r]` is the next call of its client on the socket, and
`job[r][k]` what the daemon did about attempt k. `Begin`, `FetchToken`,
`FetchFails`, `Send`, `Unreachable`, `Receive`, `Closed`, `TimeOut` are the
client, `Resolve` the retry on a message that mentions the token. `Handle` and
`Finish` stand for all of `Dispatch`: token, slot, operation. A daemon is known
by its number, and so is its token. `Stop` cancels some of the waiting
connections (those no worker has taken) and leaves the others; `Kill` closes
them. `token` is one per client object. The window's bridge shares one
`SyncIPCClient` among its workers, but its daemon is in its own process and is
never restarted under it, so the requests of one client follow each other here.

An operation may fail with a message that contains "token" (`mention`), for
example about a VPN client of that name; the client then repeats an operation
that was carried out and failed. `disturbed` remembers the requests during which
a daemon was started or no token could be fetched.

### Window

`gtk` is the step of an event handler the GTK thread is in, `idle` the callbacks
`idle_add` has queued, in order. A task goes from `set_busy(True)` through the
executor (or `PilotClient`, for proposals of the palette) to its done callback,
`set_busy(False)` and a result callback, which may start the next task
(`follow`: the list of VPN clients after a change). `Close` is `on_destroy`;
`Signal` is `handle_signals`, which Python runs between any two bytecodes of the
GTK thread. `lock` is `_busy_lock` while the GTK thread holds it; a worker's
`set_busy` is one step, as nothing interrupts a worker. The lock of the executor
is held at the point "submitting".

### NetworkOps

`host` is what the operations look at and work on: firewall, NetworkManager,
resolver, the connection's profile, link and address, and which tools and
helper there are. An operation goes through `Ask`, `Look` (its conditions),
the commands of its verb (`Plan`, from `plan_verb`), `Verify` (the look after
the command; NetworkManager and the adapter are polled) and `Return`. A command
succeeds (`CommandSucceeds`), fails with or without its effect (`CommandFails`),
is dismissed (`Dismiss`) or outlasts the daemon (`TimesOut`): then the rest of
the plan is put into `late`, and `LateCommand` carries it out at any time, or
never. `renew_ip` falls back from nmcli to dhclient (`Failed`). `Effects` is
what a command that reports success leaves behind; it is external and generous:
`ufw` may report success and do nothing. `HostChanges` is the user,
NetworkManager and the network. `said` is what was last reported of the
firewall, `op.start` the host the operation began on, `op.disturbed` whether
somebody else changed it since.

### VpnOperator

`script` is `openvpn-install.sh`, `copy[n]` what the daemon made of it for
operation n, `job[n]` the helper that waits for the user, stages and runs it.
`Download`, `Validate`, `HashScript`, `CopyScript`, `HashCopy` are
`install_openvpn` and `_execute_verified_script`; `JobRefused`, `StageCopy`,
`HashStaged`, `RunScript` the helper; `TimesOut` the daemon's deadline, after
which the copy is removed and the helper is not. Others write to the script or
a copy between any two steps (`FilesChange`), the daemon is killed (`Kill`).
`List` and `Verify` read the PKI index, of which the helper shows the first
20000 characters: one of `Listings`, which are the whole index and, if it is
longer than the `Cap` lines that always fit, its beginnings, cut after a line or
in the middle of one. A line cut in its name reads as one of another client, if
there is one of that name (`CutLine`, `Beginnings`). `intime`, of a job, remembers
whether the daemon was waiting for the helper when it staged its copy. What the
script does is external (`Scripted`): anything it may do before it exits, and
nothing.

### AuditLog

Entries have numbers, a file holds an interval of them. `Begin` finds the log
full or not, `RemoveOldest`, `MoveBackup`, `MoveLog` are the rounds of
`_rotate`, each of which may fail and is then passed over, `Write`, `Tear` and
`GiveUp` the append; a kill is a `GiveUp` or a `Tear` at that point. There is one
writer: of the threads of a process by the locks of the module, of processes only
as far as the instance lock admits one, and `LifecycleRace` shows that it can
admit two; what two writers would do to the log is not modelled. `lossy`
remembers that a backup could not be moved out of the way of the next one.

## 3. Runs

| run | instance | shows |
|---|---|---|
| `DispatchPaths` | 2 requests of 10 kinds, polkit asked by pkexec, 2 workers, 1 slot, 1 kill, fair threads | `RefusedNeverRan`, `OneTrueVerdict`, `TwoRecords` on every path of the code; `EveryRequestAnswered`, `SlotsComeBack` |
| `DispatchContention` | 3 requests of one kind, which may get as far as the slot, polkit asked in process, 3 workers, 1 slot, 1 kill | `NoActionWithoutIntent`, `LogBracketsOperations`, `DenialsConserved`, and that `PrivilegedGate` is implemented (`GateSpec`, which bounds what runs at a time) |
| `Elevation` | 2 calls, verbs of 1 or 2 commands, timeout 4, margin 2, killing up to 3 | `NoOverlap`, `FittingVerbsEndFirst`, `AnswerMatchesJournal` (with at most one record of the journal for each call), `OkMeansAllCommands`, `EveryCallReturns` |
| `SmartRepair` | every network, verified or not, 1 change | `VerdictIsHonest`, `NeverOkUnverified`, `RepairsFitTheNetwork`, `Concludes` |
| `NetworkOps` | 2 of the six repairs on any host, 1 change by others, 2 looks | `SuccessIsReal`, `DismissedIsUntouched`, `FirewallAnswerHolds` |
| `VpnOperator` | 2 operations, clients `bob` and `bobby` with up to 2 entries, lists cut anywhere after 1 line, 2 changes or kills | `OnlyPinnedRuns`, `ClientVerdictsAreTrue`, `LateDialogRunsNothing` |
| `AuditLog` | 3 backups, logs of 2 entries, 14 entries, 3 of them torn | `NewestKept`, `RetainedIsSuffix`, `TornSpoilsNext` |
| `Lifecycle` | 3 processes, 4 inodes, kills and signals anywhere | `OrderlyInstancesExclude`, `OrderlyInstanceIsFound`, `NoOneLockedOut`, `CleanExit` |
| `LifecycleRace` | the same | violated: `OneActiveInstance` |
| `IpcClient` | one request of each kind of client, 2 daemons started, stopped or killed anywhere | `OneSuccess`, `OnlySilenceIsUncertain`, `RestartIsInvisible`, `EveryRequestAnswered` |
| `Window` | 2 plain tasks, one with a follower, 1 proposal, 1 worker, 1 signal | `CountIsWork`, `ShownIsTrue`, `ControlsComeBack`, `PaletteComesBack` |
| `WindowSignal` | the same with 3 workers | violated: `SignalEndsLoop` |

The last requests, calls and processes end, so the runs do not check deadlock;
that nothing gets stuck before is what the liveness properties say.

Bounds. Two requests reach every pair of paths, and a third one contends for a
slot while one is held and another denied; with one slot a leak is visible after
one request and a double release after two. One kill is enough for "before" and
"after": everything but the log is reset by it. In `Elevation` the limits keep
the order they have in the code: a command may take longer (30 s) than killing it
(three waits of 2 s), and that longer than the margin (5 s). The dialog may stay
open for ever; two calls are a call and its retry. One change of the network
puts every probe, decision and repair before or after it. Three processes are
one that serves, one that starts beside it and one that comes after; four
inodes, so that there is always a free one. In `IpcClient` two requests contend
for the slot of a daemon, and two daemons, of which the first may have left its
token with the clients, make a token stale before and during a request. In
`Window` one worker makes tasks wait and so be cancelled; the code has three. In
`NetworkOps` and `VpnOperator` the second operation meets what the first one,
given up, still does, and may be its retry or its opposite; changes come before,
during and after it. With one line that always fits, every second line, old or
new, may be left out or cut, and `bobby` to `bob`. In `AuditLog` fourteen
entries fill the log and the three backups and go on for three more rotations,
so that backups are removed after any pattern of failures and kills before.

Fairness. `Dispatch`: every thread that has a request keeps moving; with the
helper in use (the run sets `UseHelper`) every subprocess a handler waits for
has a timeout, and the locks are held for finite code. The in-process polkit
query has no such limit, which is why the run leaves it out. `Elevation`: time
passes, a root helper leaves a stage at its limit and not earlier, the daemon
thread is scheduled; nobody has to answer a dialog.
`SmartRepair`: probes and requests have timeouts. `IpcClient`: a client's call
returns within `IPC_SOCKET_TIMEOUT`; nothing is asked of the daemons. `Window`:
the GTK loop runs and tasks end, which is the former; a modal dialog is waited
for before the task is announced, or shown by a callback of its own.
`Lifecycle`, `NetworkOps`, `VpnOperator` and `AuditLog` are checked for safety
only and state no fairness.

### What the violated properties show

- `OneActiveInstance`: an empty lock file is taken for corrupt while its holder
  is about to write its pid. The same happens when a signal reaches a process
  whose start was refused: its cleanup removes the files of the one that serves.
- `SignalEndsLoop`: the handler runs the window's teardown in the GTK thread. If
  that thread is inside `executor.submit`, or inside `set_busy` while another
  task waits for a worker, the teardown waits for a lock its own thread holds:
  the server is not stopped and the files stay (docs/ARCHITECTURE.md 111).

Other places where the code does not do what a doc or a comment says, or less
than one would expect, are modelled as they are, and the properties that hold
say how far they reach:

- A write that fails half way leaves a torn line; the intent appended behind it
  is reported as written, and no line of the file reads as it, while
  `src/docs/OPS.md` 36-37 promises JSONL and no action without a record
  (`AppendFails`). `TornSpoilsNext`: one torn line, one spoiled entry at most.
- The helper's timeout is per command, the daemon's limit per verb, so that a
  verb of two commands outlives it, unlike the comment in `system.py` 192-195
  (`Tick`). Nor is the margin enough for one command that has to be
  killed: killing takes up to 6 s (`_kill_process_group`), the margin is 5 s.
  `FittingVerbsEndFirst` says what does hold: the helper ends first as long as the
  dialog, the commands before the last and killing took less than the margin.
- An exception nobody catches ends the helper without a journal record, while
  its docstring promises "exactly one root-side journal record per verb execution,
  whatever the outcome" (`helper_main.py` 425-426; `HelperRaises`).
  `AnswerMatchesJournal` promises at most one, and excepts this end (`Unrecorded`).
- Behind a redirecting portal Smart Repair skips a network as healthy that its
  diagnosis calls PARTIAL (`LooksHealthy`); a portal that answers with a page
  (200) is not seen, unlike the docstring of `check_portal_at_url` (`PortalSeen`);
  DNS is flushed also when names resolve, unlike `src/VERBS.md` 111 (`FlushDns`).
- `restart_adapter` is content with the flag UP (`network.py` 608), which an
  interface without carrier has, too (`PostCondition`).
- "cancel" and "dismissed" among the words of a command that failed are taken for
  a dismissal by the user (`helper_main.py` 451-457 and 548, `system.py` 219-223;
  `CommandFails` of `Elevation` and of `NetworkOps`). With "cancel" the journal
  has a failure and the user is told of a cancellation: `AnswerMatchesJournal`
  excepts exactly this (`Misread`), and `DismissedIsUntouched` such answers.
- A diagnosis takes seconds, and the network may change while it lasts.
  `VerdictIsHonest` and `RepairsFitTheNetwork` speak of a network that did not; of
  a snapshot no network ever was in they say nothing.
- A second download fails on a script that was sealed with mode 0500
  (`angristan.py` 202; `Download`).
- `restart_service` answers by whether the service is active, which it also is
  when the restart was refused (`angristan.py` 388; `Unit`).
- A revocation is confirmed by any revoked entry of that name, also an older
  one (`angristan.py` 351; `Confirmed`), and the list a client is looked up in is
  cut at 20000 characters, in the middle of a line (`helper_main.py` 411;
  `Listings`): the revoked "bobby", cut to "bob", confirms a revocation of "bob"
  that did nothing. `ClientVerdictsAreTrue` says what the verdicts mean all the
  same, and excepts names that are the beginning of another's beyond the lines
  that always fit (`MayBeCutTo`).
- A script whose copy was staged in time may still run after the daemon gave up
  and answered (`HashStaged` and `RunScript` after `TimesOut`);
  `LateDialogRunsNothing` excludes only dialogs that are confirmed later.

## 4. Proofs

Every invariant and action property that a passing run checks is also a theorem,
for every value of the constants. TLC finds each inductive invariant true on
the runs' instances (`SuffixInv`, which is about all numbers, for those of the
entries there). A proof module holds the invariant of its
component, one lemma or step per action, and the theorems at the end.

`DispatchProofs` proves, for any finite set of requests, any inputs, slots,
workers and number of kills:

| theorem | statement |
|---|---|
| `TypeCorrect` | `Spec => []TypeOK` |
| `SlotsSerialise` | `Spec => []Serialised` |
| `IntentBeforeAction` | `Spec => []NoActionWithoutIntent` |
| `LogIsBracketed` | `Spec => []LogBracketsOperations` |
| `RefusalIsSafe` | `Spec => []RefusedNeverRan` |
| `VerdictIsTrue` | `Spec => []OneTrueVerdict` |
| `BothRecordsWritten` | `Spec => []TwoRecords` |
| `DenialsAddUp` | `Spec => []DenialsConserved` |
| `ImplementsGate` | `Spec => GateSpec` |

Assumed are only the named assumptions of `Dispatch`: requests are finite, an
action is not privileged and safe at once, slots and workers are positive.

None of the properties is inductive. `Serialised` needs to know that every
operation that runs holds a slot and that slots are neither lost nor made:
`free + |held| = Slots` (`SlotInv`). That a slot is held until the verdict is
written, and that only privileged requests come that far (`PathInv`), gives
`LogBracketsOperations`. `OneTrueVerdict` and `RefusedNeverRan` need to know at
which points the answer is still open (`AnswerInv`) and that there is no entry
about a request before its intent and no verdict before the point that writes it
(`LogInv`). `IInv` is the conjunction, proved inductive in `NextInv`: one lemma
per conjunct over the steps of one thread, from three lemmas that say which
steps touch what (`StepFrame`, `StepLog`, `StepKeepsRan`), and one for each of
`Receive`, `Crash` and the expiry of a window. `ImplementsGate` then maps every
step to a step of the gate: `AcquireSlot` and the like stutter, `Begin` is
`Enter`, a failing intent that reached the file is `Announce`, returning or
raising is `Exit`, `Crash` is `Reset`. In that module `Gate!Cardinality` is the
copy of `Cardinality` that the instance brings along; a lemma equates the two.

Two invariants stand beside `IInv`. `RecordsInv`, for `TwoRecords`: whoever ran
had parameters that can be encoded (`plain`), so that the verdict fails only by
`OSError`, which `unlogged` remembers, and a verdict is appended behind the
intent that `IInv` promises. `DenialInv`, for `DenialsConserved`: between the two
critical sections of `record` a denial is in none of the counters the log shows,
and an append that opens a window takes along what it read before; so
`Balanced(a)` counts, for each action, the denials answered against those in the
log, those still on their way through the limiter with what they carry, and the
suppressed ones. `Behind(S, n)` is the set of (denial, number) pairs that stand
for what the denials of S carry; with it sums over sets become cardinalities,
which the library has theorems about, and every step adds or removes an element
or moves a block. `DenialAnswers` says that the limiter sees no other answers.

`ElevationProofs` proves `TypeCorrect`, `FittingVerbsAreOver`
(`FittingVerbsEndFirst`), `OneAtATime` (`NoOverlap`), `OkIsComplete`
(`OkMeansAllCommands`) and `AnswersAreJournalled` (`AnswerMatchesJournal`), for
any timeout, margin, time to kill a group, number of calls and length of verbs.
The clocks of the two processes are independent in the code; `Elapsed` adds them
up: while the daemon waits for a call, the time it has waited is what was spent
on the dialog, the commands before and killing, and the time of the command now
running. With it `LimitOutlastsWork` compares the daemon's limit with the latest
moment at which the helper of a call within the margin can still be at work.
`Awaited` says that only the call the daemon waits for can be without an answer,
`Counted` that commands are counted up to the plan, `Recorded` that a helper
has written its record when it ends, unless an exception ended it, and not
before, and `Reported` that a helper that has ended has said how. `EndInv` is what
the ways a helper can end have in common.

`LifecycleProofs` proves `TypeCorrect`, `InstancesExclude`
(`OrderlyInstancesExclude`), `InstanceIsFound` (`OrderlyInstanceIsFound`),
`LeftoversLockNobodyOut` (`NoOneLockedOut`) and `ExitIsClean` (`CleanExit`), for
any number of processes and inodes and a kill between any two steps. `LockInv`
holds in every history. `OrderlyInv` holds while starts and ends have not
overlapped, and says for each step of a start or an end what the steps before it
have left in the files: the path leads to the inode the process has open, the
pid in it is its own, and so on (`Established`, `CleanedUp`); a serving instance
is undisturbed by a start beside it, which gets no further than to the pid in
the lock file (`Undisputed`); and a start that found no instance meets none
(`Welcome`). `LifecycleRace` shows that one instance at a time is not to be had
without `orderly`.

`UserSideProofs` is about the two modules on the user's side of the socket. For
`Window` it proves `WindowTypeCorrect`, `CountsAreWork` (`CountIsWork`) and
`ControlsAreTrue` (`ShownIsTrue`), for any finite set of tasks, any callbacks
that start one task each, and any number of workers. The count is right only if
no task is announced or ended twice. `GtkInv` ties what the GTK thread is in the
middle of to the stage of its task; `BackInv` says that a callback is queued at
most once, and for a task that waits for it; `FollowInv`, that the task a
callback will start has not been started and is in nobody's hands. `ShownIsTrue`
needs `CountIsWork` when the executor cancels: the count must not go below zero.
A signal that leaves the GTK thread stuck ends the claim about the count, and
not that about the controls.

For `IpcClient` it proves, for any finite set of requests, any clients of either
kind and any number of daemons, `TypeCorrect`, `RetryIsSafe` (`OneSuccess`),
`AnswersSettle` (`OnlySilenceIsUncertain`) and `RestartsAreInvisible`
(`RestartIsInvisible`). The invariant has four parts, because none of the
properties knows of the other attempt: `Attempts` says that a second attempt is
made only after the daemon answered the first with an error, so that only one is
ever open; `Told` is `OnlySilenceIsUncertain` for one request; `Fresh`, that the
token of a second attempt is that of the daemon it goes to as long as no daemon
was started; and `Alone`, that requests of one client do not overlap, without
which another one could replace the token. Four frame lemmas say what the steps
of daemons, workers and clients touch, and each part is shown to be kept by each
kind of step.

`SmartRepairProofs` proves `TypeCorrect`, `VerdictsAreHonest`
(`VerdictIsHonest`), `UnverifiedIsNotOk` (`NeverOkUnverified`) and
`RepairsAreFitting` (`RepairsFitTheNetwork`) for any number of changes of the
network. A verdict is about a diagnosis that is over, a diagnosis about probes that
are; so the invariant follows a finding from the probe that made it (`Probing`)
through the diagnosis that delivered it (`Diagnosed`, `Checked`) to the verdict
(`Ends`), each as long as the network has not changed since. `Coded` ties a
diagnosis to its code, `Path` says what was asked for so far at each point.

`NetworkOpsProofs` proves `TypeCorrect`, `SuccessesAreReal` (`SuccessIsReal`),
`DismissalsAreHarmless` (`DismissedIsUntouched`) and `FirewallAnswersHold`
(`FirewallAnswerHolds`), for any number of operations, looks and changes by
others. The look after the command is as good as what it is compared with:
`Remembered` says that what the operation read before is what was there when it
began; `ProfileSet`, that the profile has the asked server once nmcli took it,
which the look after it cannot see when NetworkManager is away; `NotBegun`, what
can have been begun before a dialog is dismissed; `NothingSaid`, that nothing is
claimed about the firewall while a toggle is under way, so that only a late
command for the other state can make a claim false. `Planned` bounds what root
may be left with, so that each command is one the verb planned.

`VpnOperatorProofs` proves `TypeCorrect`, `RootRunsPinned` (`OnlyPinnedRuns`),
`LateDialogsRunNothing` (`LateDialogRunsNothing`) and `VerdictsAreTrue`
(`ClientVerdictsAreTrue`) for any clients, length of a list, operations, kills and
changes of the files. The first rests on `ReadyIsPinned`: what is about to run was hashed
where only root may write. None of the daemon's three hashes is needed for it;
they only tell the user earlier. The second rests on `CopiesAreHeld`: a copy
exists only while the operation that made it is waiting, or if its daemon was
killed, so a helper whose dialog is confirmed late finds nothing to stage, and what is
about to run was staged in time or for a daemon that was killed (`StagedInTime`);
`NoHelperYet` adds that an operation has no helper before it is called.
`VerdictsAreTrue` needs to know that nobody but the helpers changes the index: until
its own helper has run, an operation is on the index it began on, unless a helper
of an operation given up has ended meanwhile, which marks it `disturbed`
(`OnItsIndex`); that what a complete list did not show was not there
(`ListedWasFree`); that what a list shows is in the index, but for the line that
is cut; that no client ever has two valid certificates, so that revoking one
leaves none (`IndexInv`, `RevokedIsGone`); and that the helper has the verb and
the client of the operation that waits for it (`Named`, `JobsNamed`).

`AuditLogProofs` proves `TypeCorrect`, `NewestAreKept` (`NewestKept`), `NoHoles`
(`RetainedIsSuffix`) and `TornLinesAreFew` (`TornSpoilsNext`), for any number of
backups and any size of a log. `NoHoles` needs `SuffixInv`: between the end of any
backup and the beginning of the log every entry is in a newer backup, and inside
a rotation the name that a file is about to get is free, or that of the oldest.

No theorem of these modules assumes more than the named assumptions on their
constants; the bounds on operations, changes and entries are constants like the
others, so the theorems hold for each value.

Only model-checked: liveness (`EveryRequestAnswered`, `SlotsComeBack`,
`EveryCallReturns`, `Concludes`, `ControlsComeBack`, `PaletteComesBack`), as the
prover has neither fairness nor `ENABLED`. `OneActiveInstance` and
`SignalEndsLoop` are violated, so there is nothing to prove.

## 5. Not modelled

The framing of messages, the running handlers at shutdown and the legacy
elevation path; polkit's and pkexec's own logic beyond allowed, dismissed and
unanswered; the parsing of tool output and the syntax of arguments
(`validators.py`); widgets and the contents of the VPN panel, the AI pilot, the
MCP server, Wi-Fi and sensors.

Virtual adapters (`create_virtual_adapter`, `network.py` 663, the list of
created interfaces and its reaping, 103 and 208) are left out although the list
is written after the interface exists: nothing in the catalogue, the window or a
client creates one, only tests do, so no sequence of requests reaches that state.
`PROJECT.json` says so per component.

## 6. Plan

1. done: `AuditTrail`, `Dispatch`, `PrivilegedGate`, invariant and proofs;
   `Elevation`, `SmartRepair`, `Lifecycle`, `IpcClient`, `Window`, `NetworkOps`,
   `VpnOperator` and `AuditLog` with proofs.
2. dropped: the list of virtual interfaces (see 5).
3. `Dispatch` and `Lifecycle` composed: operations that go on while their daemon
   stops and the next one serves, with a slot of its own.
4. done: theorems for every safety property the passing runs check.
   Next: an abstract specification of one instance at a time that `Lifecycle`
   implements in its orderly histories, as `PrivilegedGate` is of `Dispatch`.
