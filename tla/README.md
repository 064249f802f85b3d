# Traffic Keeper in TLA+

TLA+ modules for the master and the agent of traffic-keeper, the TLC
configurations that check them on small instances, and TLAPS proofs of their
safety properties for every value of the constants.

    tlc -workers 2 -config TunnelSafety.cfg MCTunnel     # a run: X.cfg with its MC module
    tlapm TunnelProofs.tla                               # the proofs of a module

PROJECT.json lists the components, the runs, the source lines behind every
definition (`map`), the hazards of the code with the properties aimed at them,
the mutations each property was seen to catch, the findings and the theorems.

- [The system](#the-system)
- [The modules](#the-modules)
- [The runs](#the-runs): what each shows, its bounds, its fairness
- [Findings](#findings)
- [The proofs](#the-proofs)
- [What is not modelled](#what-is-not-modelled)
- [Plan](#plan)

## The system

An **agent** on each VPS uploads random bytes to one or several **masters** at
the pace of a policy it pulls from them. A master hides behind a Cloudflare
quick tunnel, whose address changes with every start of `cloudflared`, and
tells the agents that address with the policy. A web **panel** edits policies,
switches the tunnel, upgrades agents.

| component | state it keeps | operations | what is hard | what makes it correct |
|---|---|---|---|---|
| tunnel manager (`internal/master/tunnel.go`, `server.go`, `cmd/master/main.go`) | `enabled`, `cmd`, `url`, `consecNotFound`, `lastSelfHeal` under `t.mu`; the setting `tunnel_enabled`; the cloudflared processes | Enable, Disable, ApplyEdge, self-heal, restore at boot, Stop; a scanner goroutine per process | every operation is several critical sections with process calls in between; scanners of killed processes go on writing; crashes between the setting and the process | the fields agree with one another and with a process somebody reads; no process is killed twice; an address is told once and withdrawn with its tunnel; a dropped tunnel is replaced |
| agent state file (`writeFile`, `LoadStateFile` in `internal/agent/agent.go`) | the JSON file and `<path>.tmp` | truncate, write, rename; open, read | one temporary name for all savers, the daemon and the commands are different processes, a death between two system calls | a reader gets a whole document, and one that was saved, unless a command's save ran into another one |
| agent supervisor and command line (`agent.go`, `cmd/agent/main.go`) | the file, `a.file`, `a.masters`, `a.cancelers`, the owner of the automation, `hupCh` | Run, loadState, reconcile; add, remove, stop, start; SIGHUP | the list is read, edited and written back by several processes without a lock; signals coalesce, kill or are never sent | the loops that run are those of the file; a command's edit stays; the owner is the first active master |
| upload loop and data plane (`agent.go`, `upload.go`, `agent_api.go`) | `c.policy`, `lastUpload`, `failBackoffUntil`; the policy row; stats | policy pull, upload, backoff, refresh; handlePolicy, handleUpload | answers are read in three steps and overtake one another, addresses die under the agent, an upload is counted before it is acknowledged | counts agree up to lost answers; dead targets are left; a switch-off takes effect; uploads resume |
| host automation (`internal/agent/automation.go`) | `a.automation`, samples, `automationRunning`, `automationCancel` | the 20 s tick, samples, the download task, cancellation | tick, policy pull, reload and task in separate critical sections; samples outlive the daemon and the policy | samples of one interface and window are compared; one task, which can be cancelled; nothing runs once it is off |
| agent self-upgrade (`agent.go`, `agent_api.go`, `panel_api.go`, `store/agents.go`) | `pending_upgrade`, `version`; `a.upgrading`; the binary and `<exe>.new` | mark, heartbeat, download, replace, restart | two masters of different releases, lost heartbeats, broken downloads, the restart that comes later | the installed binary is whole; a mark stands until it is served; upgrades end |
| automation sources and configuration (`automation_api.go`, `store/automation.go`) | `app_sources`, `automation_config` | save, test, verify, enable, select, delete, seed; the policy agents pull | a source is tested over the network and marked afterwards, while it may be rewritten; errors of reads are dropped | what agents are told to download was tested; a failed read is made up for |
| node API and policies (`panel_api.go`, `store/agents.go`, `store/policies.go`) | `agents`, `policies`, `stats` | create, edit, delete | a policy is read, merged, checked and written back whole, in two statements; the node may go meanwhile | a stored policy passes its checks; edits add up; nothing of a deleted node is left |
| health sentinel (`health.go`) | none: a comparison of rows and the clock | threshold, comparison | an upload that lasts, fails once, or waits long by its policy is no outage; an outage of a node that never uploaded is one | an alarm has a cause, an outage has its alarm |
| edge probe (`edgeprobe.go`) | the best edge IP | sampling, measuring | network | not modelled, see below |
| listen port, authentication, store, cleaners, web panel, deployment | see PROJECT.json | | | |

How they interact: the panel's requests and the boot call the tunnel manager;
agents call the master over HTTP (heartbeat, policy, upload, events); the
command line and the daemon meet in the state file and in SIGHUP; the upload
loop reads what the policy pull wrote under `c.mu`; the automation reads the
owner's policy through `a.masters`; the upgrade replaces the daemon by way of
systemd, which also restarts a daemon or a master that has died
(`Restart=always`, `deploy/manage.sh:102` and `:158`).

## The modules

    AtomicFile      <-- refines --  StateFile        (StateFileProofs)
    AtomicFile      <-- refines --  Upgrade's binary (UpgradeProofs)
    TunnelAddress   <-- refines --  Tunnel           (TunnelProofs)
         ^
         +--------- composed by --  UploadPath       (UploadPathProofs)
    Policies        <-- extended by -- UploadHealth  (UploadHealthProofs)
    AgentSupervisor   Automation   Sources           (AgentSupervisorProofs,
                                                      AutomationProofs, SourcesProofs)

MC*X*.tla is the instance of module *X* for TLC. Definitions named "faulty
variant" are never part of a specification: each is the form a plausible
mistake would give to the definition below it, and the property it breaks is
named in PROJECT.json (`mutants`).

### Tunnel, TunnelAddress

One action per critical section of `t.mu` and per process call between two of
them. `pc[a]` is where goroutine `a` (a panel request, the self-heal loop, the
boot's restore, main) is, `op[a]` the call it is in, `own[a]` its local
`*exec.Cmd`. `Enable` is EnableCheck, EnableLaunch (or EnableFail) and
EnablePublish; `Disable` is DisableTake and DisableKill; `ApplyEdge` is
Snapshot followed by both. HealCheck and HealMark are `selfHealNeeded` and
`selfHeal`'s first section, which the code separates. Each process has a
scanner: ScanLine handles one line (`url`, `registered`, `notfound`), ScanEnd is
its exit section, which does not ask whose process `cmd` is.

cloudflared and the edge are external: a process prints its address once,
registrations while its tunnel is listed, refusals once it was dropped, and may
exit. The address of process `p` is `p`.

Notes on the translation. `EdgeApply` with mode "off" and an IP in one request
calls ApplyEdge twice, which is two apply requests here. Errors of `SetSetting`
are ignored by the handlers, so the setting always changes. `--edge` is passed
only under `--protocol quic`, which nothing selects, so the edge IP is left out.
The 2 s sleep of `selfHeal` is HealWake, which waits for the scanners of dead
processes unless the fault `lateScanner` is on: this is what the comment of the
sleep says it is for. With `transient` and `lateScanner` two comments of the code
(`tunnel_test.go:48-51` on inherited refusals, `tunnel.go:320-322` on a race-free
check) can be seen to fail; no run is spent on them.

TunnelAddress is what agents may rely on: an address is published at most once,
only while the tunnel is up, and withdrawn together with it; after that it is
spent. `ImplementsTunnelAddress` maps `enabled` and `url` to it, and the set of
processes that have printed their address and whose line is no longer waiting to
the spent ones.

### StateFile, AtomicFile

`writeFile` as system calls on inodes: OpenTmp (O_CREATE and O_TRUNC), WriteTmp
through the open file, Rename. An inode is a sequence of blocks labelled with
the document they came from, so that a torn file is visible. Writers in `Locked`
hold `stateMu`: the goroutines of the daemon. The commands save through
SaveStateFile (`agent.go:800`, `825`, `838`) and hold nothing, so their saves run into
one another and into the daemon's. `Processes` die as a whole between any two
calls. AtomicFile has one document that a save replaces in one step and a load returns.

The comment of SaveStateFile says "atomically" (`agent.go:760`), which is false of the
unlocked savers: one truncates or renames what the other has open. The properties say
how far it is true. `mixed` collects the inodes that saves had open
while a command's save and another one overlapped; FileIsWhole speaks of all others, and
ImplementsAtomicFile lets only a save that has run into another one (RanIntoAnother)
step out of the abstraction. A later save through a truncated inode makes it whole again and
takes it out of `mixed`.

### AgentSupervisor

The list of masters in three places: on disk, in `a.file` (assigned by loadState
only) and in what a command or a reconcile has read. A command is CmdRead,
CmdSave or CmdSaveFails, and CmdReload or CmdUntold: the reload may fail, its error is
dropped (`agent.go:857-861`), and the command may be killed before it. The daemon is
LoadState, LoadPersist, Notify, BootRead, BootApply, and for SIGHUP HupTake, HupRead,
HupApply. `Flagged` says whether it is run with `--server`, under which LoadPersist writes
an empty list too. SaveSamples is a save of `a.file` by the automation. Reading and saving
are atomic here; StateFile says when that is right. No list has a server twice
(SupervisorEachOnce), so that `Without` can cut at the place of a server where RemoveMaster
filters the list, and `Update` can change every match where the code stops at the first.

Two history variables keep the exemptions narrow. `unread` is "untold" from a write that nobody
tells the daemon of (samples, a command without a reload) to the next reconcile that
reads the file. `overtaken` is set when a reload applies the file while the first
reconcile still holds another list. LoopsFollowFile exempts these two and
nothing else, and TLC refutes it when either is taken away. CommandsTakeEffect says
that a master active in the file comes to run and one that is not stops, unless the file changes
again or for these exemptions, and that a master active in the file while the daemon is down
comes to run without exemption: a start makes up for every reload that got lost.

### UploadPath

One agent and its master over TunnelAddress. A pull of the policy is asked, then
the master reads the row, the address and `enabled` in three steps, then the
agent applies the answer (`ApplyPolicy`), whatever was applied meanwhile. The
upload loop is Check (uploadLoop's conditions), Send or Skip (upload reads the
policy a second time), Arrive and Count (handleUpload), Ack or Fail. `ahead` is
what the master has counted minus what the agent takes as done. An abandoned
handler that has the body may still count; that choice is made when the agent
gives up. The throttle of `triggerPolicyRefresh` is left out because one loop
fails at most once per `failBackoff`.

### Automation

The tick is a program of critical sections (`tick.at`): read the policy of the
owner, and when it is off cancel; adopt it, when it differs cancel and reset the
samples; check `automationRunning` and the interval; sample; compare; launch.
`refreshPolicy` (Pull, then PullCancels after the unlock), of `policyLoop` and of
`triggerPolicyRefresh` side by side, and `reconcile` may run between any two of them, and so may the end of the task (TaskReturns, then the
deferred TaskCleans). A pair of interface and window is a `Conf`; counters are
left out and the comparison is a choice. A sample remembers the Conf it was read
under, which the code does not store: that is what makes BaselineIsOfPolicy
worth checking. Connections made by loadState have no `agent`: a switch-off
pulled through one ends the daemon (`Alive`), which the model contains.

### Upgrade

The panel marks the node with the master's release (Ask); a heartbeat is Beat,
ReadRow (authenticateAgent), Touch, Direct and Answered, or CallFails anywhere;
`selfUpgrade` is Open, Copy, CheckSize, Rename and RequestRestart with an error
exit at each; Restart is systemd's. `upgrading` is reset when the restart has been
requested, so a second download can start before it comes. Connections are warmed up one
after the other, and the ticks of each start after its own warm-up.

A handler does not end with its call. When a call fails or the agent dies (GivesUp), the handler may run
on beside those of later heartbeats (`late`), whose row it may touch or whose mark it may clear, until the
server cancels its context (LateEnds) or it is done.

A mark is cleared by the row that was read before TouchAgent, and by id only.
ClearedWhenReached, which the code does not keep, speaks of any mark. MarksStand speaks of marks
that only a restart of the agent can meet (`owed`): made while the agent ran something else and
while no heartbeat was under way, live or late, that names the target or has found a mark it
meets (`Meets`). Such a mark stands until the agent has been restarted into its target. Without
the clause about late handlers TLC finds the one of a dead daemon that clears a mark the new daemon has yet to serve.

### Sources

One action per SQL statement and per answer of the network: a save is SaveAsked, which
looks for a verified row if it is to enable, and SaveAppSource, which keeps or drops
the mark (`KeepsProof`: the `CASE` of the upsert); a test is ProbeFindsApk or
ProbeFails, Look and Mark; a pull reads the configuration and then the sources, and each read
may fail, which the handler takes for an empty answer. `rows[i].proven` is
`verified_url = url`. A restart of the master seeds what is missing. Two history
variables say what tests have passed (`passed`) and which rows were marked after
a look at other hosts (`crossed`, the window of `automation_api.go:189`).

### Policies, UploadHealth

Policies is a node with its policy row and the two statements of an edit, `put[w]`
between them. `promised` is the seed with the bodies of all acknowledged requests
on top, `crossed` says that two requests have overlapped. UploadHealth puts
the agent, its data link and the sentinel's comparison on top. Its unit of time
is 5 minutes: `Tick` waits for everything that is over sooner (requests, the 30 s pull,
the 10 s upload loop, the backoff), so that an upload is never late by more than
the unit it lasts into. An agent that is cut off counts as down. Time is counted
while the node is there; `born` is frozen once it has uploaded, for nothing reads it
then. Rolls are those of `computeInterval` without 0: with `interval_min_sec` 0 a
roll of 0 pauses the loop until the next pull re-rolls it, and that all ten pulls
of a unit roll 0 is left to chance.

## The runs

| run | instance | shows |
|---|---|---|
| TunnelSafety | 2 processes, 2 requests by 2 handlers, 1 restart, threshold 1, every fault but transient refusals and late scanners | the fields agree in every interleaving (EnabledIffCmd, CmdIsRead, LeftoversAreRead), a process is killed by one goroutine (OneOwner), heals keep the cooldown (HealsAreSpaced), Tunnel implements TunnelAddress |
| TunnelLiveness | 2 processes, 1 request, threshold 2 | an exit is noticed, Stop returns, a dropped tunnel is replaced |
| TunnelStop | 3 processes | finding 1 |
| StateFile | 2 goroutines of the daemon, 1 command, 1 reader, a short and a long document, 4 inodes, symmetry | the file is whole and implements AtomicFile, but for saves that ran into one another with no lock between them |
| AgentSupervisor | 2 servers, 2 commands by 2 processes, 2 starts, samples on | once quiet the loops are those of the file, unless nobody told the daemon of a change or a reload overtook the first reconcile; what the file says is acted on |
| AgentLostCommand | 2 servers, 3 commands by one process, `--server` given | finding 2 |
| UploadPath | one tunnel address and the direct one, one refresh beside the loop's pull, 1 fault | the counts agree; dead targets are left; switch-offs take effect; uploads resume |
| Automation | 2 configurations, 3 samples, 2 pulls at a time, any number of restarts | samples of one configuration; one cancellable task; off means off; checks go on |
| Upgrade | 2 masters, 2 releases, 2 requests or updates, 1 fault, handlers of one master that outlive their calls | whole binary; marks stand until they are served; upgrades end |
| UpgradeMarkLost | 1 master, 2 releases, 3 requests or updates | finding 3 |
| Sources | one source with 2 URLs and 2 lists of hosts, 2 requests at a time, 5 operations | enabled sources were tested; agents are told what was tested; they learn what holds in the end |
| UploadHealth | 2 edits at a time, 9 bodies, the seed of 30 minutes, 3 failures or restarts | stored policies pass; edits add up; no orphans; an alarm has a cause, an outage its alarm |

**Bounds.** Two processes are a tunnel and its successor, the pair that every
race of the manager is between; TunnelStop needs a third. A threshold of 1 makes
every refusal count and keeps the safety instance small; the liveness instance
has 2, so that a registration can fall between two refusals. `MaxPending = 1`
unread line per process suffices for leftovers of a killed process. UploadPath
has one tunnel address: together with the direct one there are two live targets
to confuse, an address is never published again, and a second address takes the
state space past a million without a new kind of step. Three samples are a
baseline, a newer one and one that is dropped. Four inodes are the file, the
temporary, one that a reader holds and one that a save has open after its name was
taken; the goroutines of the daemon and the inodes are symmetric, and the run has no liveness
property. In Upgrade two releases are enough for two masters that disagree, and the one
installed at first is fixed (`Installed`) because the names of releases are
interchangeable; `Slow` is one master, because one late handler meets every
step of a later call; UpgradeMarkLost needs a third request and nothing else. In Sources five operations are a save, a test, an edit between its
look and its mark, a selection and an enabling. In UploadHealth ages stop at 30
units, above the largest threshold the bodies allow (28); two edits are the
overlapping pair; three changes are a failure, its end and a restart. `Grace`
is tight: with one unit less AlarmHasCause fails. The bounds on requests, starts and faults
are in the guards of the actions that use them up, and `CHECK_DEADLOCK FALSE` is
set only where such a bound (or a master that has exited) really ends everything.

**Fairness.** Weak fairness of goroutines (the Go scheduler), of tickers and
timers (the cooldown, the backoff, the interval, the automation's tick), of handlers
of requests that arrived, of the agents' pulls of Sources, and of systemd.
UploadHealth has no fairness: its Tick is urgent instead, and its properties are
invariants. No request, signal, failure or exit is
ever forced. A request to a dead address ends because the client has a timeout
(UploadFails with MustFail). In Automation only a *cancelled* download must
return, although the client's 5 min timeout ends every one; ChecksGoOn has the
end of downloads as its premise. Lost calls are bounded by `MaxFaults`: UpgradesSettle
and UploadsResume say what follows when losses stop.

**What the properties leave open on purpose.** FileIsWhole and ImplementsAtomicFile exempt
saves that ran into one another with no lock between them. LoopsFollowFile
exempts a change nobody has told the daemon of (a save of samples that puts the old list back,
finding 2, or a reload that failed) and a reload that overtook the first reconcile,
whose older list is then applied last. MarksStand exempts marks that a heartbeat under way
takes back (finding 3). UpgradesSettle exempts a run of restarts that all come before the agent has
warmed up its connections: a warm-up may take the 5 min of the client's timeout,
the first tick of the other connection comes after 30 s, and when a download fits in between each time,
two masters of different releases do pull the agent to and fro. RecoversFreshUrl is checked without launch
failures: Enable failing inside a heal leaves `enabled` off, and `selfHealNeeded`
asks for it. TargetsAreLeft speaks of the limit, because a torn answer may name a
dead target for one more pull. ToldWasTested exempts `crossed`: hosts edited between
a test's look and its mark. No property excludes a cloudflared that nobody owns: two Enables, or a late
exit section under `lateScanner`, leave one. EditsAddUp exempts requests that overlap, of which the
later one puts back what it has read. AlarmHasCause is about nodes that are to upload,
and about rolls other than 0.

## Findings

1. Stop misses a cloudflared that an Enable has launched and not yet published
   (TunnelStop).
2. Saves of samples put back the list of masters of the daemon's start and undo
   what commands have saved (AgentLostCommand).
3. A heartbeat clears the mark for an upgrade that the panel has set since the
   handler read the row, for a release the agent does not run (UpgradeMarkLost). It
   came up in a proof: the invariant that was to carry ClearedWhenReached was not
   inductive, and a third request shows why.

Seen while modelling, and not given a run:

- `Enabled` says "intended to be up" (`tunnel.go:128`) and reports whether a process
  runs; after an exit of cloudflared agents fall back to direct connections.
- SaveStateFile "atomically writes a StateFile to disk" (`agent.go:760`), but a command and the daemon, or two
  commands, share the temporary's name (`agent.go:874`) and no lock: a load may find a torn or an empty file, and a
  rename may fail or install what another save has half written. `mixed` in StateFile is this case;
  without it TLC refutes FileIsWhole within a few steps.
- A reload that comes while the first reconcile is between its read and `runMu` (`agent.go:208-219`) is
  undone by it: the daemon goes on with the older list until the next signal (`overtaken`).
- Two masters of different releases can keep an agent restarting while one of them is slow to
  answer warm-up heartbeats (`agent.go:299-308`; see UpgradesSettle).
- After a reload the owner of the automation is chosen from the list of the daemon's
  start (`agent.go:262-265`): a daemon that started with an empty file has none until it
  is restarted.
- The samples that `agent.go:715` calls retained across upgrades are dropped by the
  first enabled tick after every start, since `a.automation` starts as the zero value.
- A node paused with the panel's switch (`upload_enabled`) is reported by the sentinel
  for ever, which asks for `enabled` only (`health.go:46`; `health_test.go:59`
  says "policy paused -> not expected to upload").
- A test whose `allowed_hosts` is blank is meant to allow the host of the URL
  (`automation_api.go:156-158`), but `Split` of the empty string is one empty host, so the branch
  is never taken and no redirect is followed; and what passes is not marked (`:188`), for the row has
  the host that the form filled in (`:86-88`).
- A node is created with `size_mb` 50 (`store/agents.go:46`), above the 5 an edit may set;
  the form clamps it.

## The proofs

| module | theorem | for every value of the constants |
|---|---|---|
| TunnelProofs | TunnelTypes, TunnelEnabledIffCmd, TunnelCmdIsRead, TunnelLeftoversAreRead, TunnelOneOwner, TunnelHealsAreSpaced | the safety properties of TunnelSafety |
| | TunnelImplementsAddress, TunnelWithdrawsForGood | the refinement of TunnelSafety, and what agents get from it |
| StateFileProofs | StateFileTypes, StateFileWhole, StateFileRefines | the properties of StateFile, for writers with and without `stateMu` |
| | StateFileLockSuffices | with every writer under `stateMu` nothing is ever exempted |
| AutomationProofs | AutomationTypes, AutomationBaseline, AutomationTask | the safety properties of Automation |
| UpgradeProofs | UpgradeTypes, UpgradeExeIsWhole, UpgradeMarksStand | the safety properties of Upgrade |
| | UpgradeReplacesAtomically, UpgradeRestartIsDue | the binary is an AtomicFile; what is installed runs or is about to |
| SourcesProofs | SourcesTypes, SourcesEnabledWasTested, SourcesToldWasTested | the safety properties of Sources |
| UploadHealthProofs | UploadHealthTypes, UploadHealthNoOrphans, UploadHealthStoredPasses, UploadHealthEditsAddUp, UploadHealthAlarmHasCause, UploadHealthOutageIsSeen | the properties of UploadHealth |
| AgentSupervisorProofs | SupervisorTypes, SupervisorLoopsFollowFile | the safety properties of AgentSupervisor |
| | SupervisorEachOnce, SupervisorSavesWhatIsAsked, SupervisorLossIsStale | what a command does to the list, and how its edit can be lost |
| UploadPathProofs | UploadPathTypes, UploadPathAccounts | the invariants of UploadPath, for finitely many addresses |

**Tunnel.** The assumptions are those of the module: the goroutines are distinct,
the bounds are naturals, `NoProc` is no process. None of the safety properties
is inductive. OneOwner needs to know *where* a goroutine holds a process
(HoldsWhere: exactly before publishing and before killing), that whoever is held
was started (KnownAreStarted, so that a launch does not pick it again) and that
the boot goroutine is not started twice (BootWaits). CmdIsRead and EnabledIffCmd
rest on these: a publish starts the scanner of the process it owns. HealsAreSpaced
needs MarkIsCool: between `selfHealNeeded` and `selfHeal` nothing else starts the
cooldown. The conjunction is IInv; each part has a lemma of its own with a step
per action that can disturb it.

**Refinement.** A step of the manager maps to a launch, a publication, a
withdrawal or a stutter. UrlFirst is the invariant it needs: an address waits
only as the first line of its process, and the manager's `url` is spent, so a
scanner that handles an address line publishes one that was never seen before.
TunnelWithdrawsForGood is proved of TunnelAddress alone (WithdrawnStays: no step of the
abstraction brings a withdrawn address back) and holds of the manager because it
implements it.

**State file.** No assumption is made on who takes `stateMu`. The mutex keeps the writers in
`Locked` apart (Mutex). Alone says what a save has that nobody ran into: its file is the
temporary, empty until it is written and the image of its document after. Overlaps says that two
saves under way at once have their files in `mixed`, so that what a rename installs is either the
renamer's own document or known to be mixed, and TmpIsPrivate that no load has the temporary open,
which a truncation could empty under it. StateFileLockSuffices shows that the exemption is about the lock and
nothing else: if every writer took it, `mixed` would stay empty.

**Automation.** A tick acts on a policy it read some sections ago, so
BaselineIsOfPolicy needs what the tick's stage says of the policy adopted last
(TickIsOfLast) and that samples are of that one (SamplesAreOfLast): an adoption that
differs resets them. TaskIsCancellable needs RunningIsTask: `automationRunning` is
set exactly while there is a task, which is what keeps a tick out.

**Upgrade.** OneJob is the mutex that `upgrading` is; TmpIsDownload says what the
temporary holds at each stage of the one download, so that a rename installs a
whole release; a death leaves the temporary and no job. MarksStand is not inductive:
OwedUnmet adds that the daemon runs something other than what is owed and that no handler, live or late,
meets it. A heartbeat that is sent names the daemon's release, a row that is read
holds what is owed, which its heartbeat does not name, and a late handler is one that was live before. The same invariant carries the refinement of
AtomicFile: a job saves its target from the moment its request is sent until the rename, which
commits; every other end, a restart included, aborts. RestartIsDue is inductive beside it.

**Sources.** Two facts about rows (RowsWereTested: an enabled or proven row has a URL that passed;
ProvenWasTested: a proven one has hosts that passed with it, or crossed), and HandlersKnow, what a request
between two statements has seen: a save that enables has seen a proven row of this
URL, a mark follows a passed test. The upsert keeps a mark only for an unchanged URL and
unchanged hosts, which is the step in which both meet.

**UploadHealth.** RowsPass and OneAtATime say the same of the stored row and of the rows
that requests are about to store: as long as no two have overlapped there is one
at most, and it holds the stored row with its body on top.

**UploadHealth, time.** OutageIsSeen holds because nothing is counted while the link is down: the
silence the sentinel sees is at least as old as the outage (OutageIsSilence, which
needs that an upload of before the failure is lost with it). AlarmHasCause goes the other
way, through the agent: what it has seen acknowledged was counted no later
(AckedIsCounted); in the second calm unit an upload that was to fail has failed
(CalmIsSound); in the third one an upload has been counted within the longest wait of the
policy, or one that is on its way has lasted a unit into it (CalmIsCounted). The
threshold is larger than either. HealthAssumption says that `Never` is no age and
`NoFlight` no upload.

**Supervisor.** LoopsFollowFile speaks of a moment at which nothing is under way, and says
nothing of the steps that lead there. The invariant says, for every stage, who will still
bring the loops in line: `Told` is a signal, a reconcile that has yet to read, a
command that has saved and not signalled, or `unread = "untold"`; HupIsFresh and BootIsFresh say that
a reconcile holds the file as it is or somebody has been told; LoopsAreFresh says
it of the loops. Deaf says that before `signal.Notify` no signal waits and no reconcile
of one runs. The types need more than they seem to. The owner is
the *first* master that is not stopped, which exists because every set of
positions has a least one (the well-foundedness of `<`); the lists are sequences without
repetitions (`Lists`), and the lemmas about Update, Append and Without say that
each edit yields such a list, does what it was asked to its server and touches no other.
The last fact gives SupervisorLossIsStale: CommandsStick, which finding 2 refutes, fails only
in a step that writes a list that was no longer the file, and never in the save of
a command whose copy is still current.

**Upload path.** The account of a lost answer: `Lost` is what was counted and is not to be
answered, plus the upload that is doomed because its address died while a handler
has it; `Credit` is the faults and the dead addresses. A withdrawal dooms at
most one upload and is one more dead address; a giving-up turns doomed into lost or
costs a fault. The module assumes finitely many addresses.

Every invariant, action property and refinement that a passing run checks is a
theorem. Only model-checked is liveness (TLAPS has no rule for fairness here): ExitIsNoticed,
StopReturns, RecoversFreshUrl, CommandsTakeEffect, TargetsAreLeft, SwitchingOffTakesEffect,
UploadsResume, TaskStopsWhenOff, ChecksGoOn, UpgradesSettle, AgentsLearn.

## What is not modelled

Sizes, intervals and seconds, outside UploadHealth: time is a wait that may be over.
The log buffer. The legacy v1 state file, unreadable files and first-run
registration. Counters of interfaces and the checks of a download; so a reboot between
two samples, which resets the counters (`automation.go:145`), is not seen. Event
records, and stats other than the upload count and its time. Loss of power (pages not
on disk). SQL is atomic per statement: the store has one connection.

The edge probe measures random addresses over the network and shows the best; what
it finds is passed to cloudflared only under `--protocol quic`, which nothing
selects, so it has no state another part depends on. The change of the listen port
is one handler that rewrites a unit and calls systemctl. Authentication is lookups and
comparisons. The cleaners delete by age. The panel and the scripts are the environment of
the modules. PROJECT.json lists each with its reason.

## Plan

Done, in this order: the tunnel manager with its abstraction and proofs, the state file
with its abstraction and proofs, the supervisor over atomic files, the upload path over
the abstract tunnel, the automation, the upgrade, the sources, the policies and the
sentinel, and the proofs of all their safety properties. Next:

1. **Proofs.** Safety steps towards the liveness properties: what each fair action leads
   to (an upload in flight always ends, a heal always wakes), stated as action properties.
2. **Composition.** AgentSupervisor with StateFile's unlocked saves instead of
   atomic ones; stop and start of a connection in UploadPath; UploadPath and
   UploadHealth over one policy.
3. **Refinement.** An abstract life of a source (unknown, tested, enabled) that Sources
   implements; an abstract upgrade (marked, served) that Upgrade implements.
