------------------------------- MODULE Tunnel -------------------------------
(***************************************************************************)
(* The master's TunnelManager (internal/master/tunnel.go): one cloudflared *)
(* quick tunnel, switched on and off by panel requests, restarted by the   *)
(* self-heal loop and by "apply edge IP", restored at boot and torn down   *)
(* by Stop.  Every critical section of t.mu is one action; between two of  *)
(* them any other goroutine may run.  Each cloudflared process is read by  *)
(* a scanner goroutine of its own, which shares the manager's fields with  *)
(* the scanners of earlier processes.                                      *)
(*                                                                         *)
(* cloudflared and the Cloudflare edge are external: a process prints the  *)
(* address it was given, registrations and refusals, and may exit.  The    *)
(* trycloudflare address of process p is represented by p itself.          *)
(*                                                                         *)
(* Left out: the log buffer, the probe results and the edge IP.  --edge is *)
(* passed only under --protocol quic and nothing sets protocolMode to      *)
(* anything but "http2", so the edge IP changes no process.                *)
(***************************************************************************)
EXTENDS Naturals, Sequences

CONSTANTS
  Procs,        \* cloudflared processes that can be started, over all boots
  Panel,        \* goroutines serving panel requests
  Healer,       \* the SelfHealLoop goroutine
  Boot,         \* the goroutine RestoreTunnelIntent starts
  Main,         \* the main goroutine: boot, wait for the signal, Shutdown, Stop
  NoProc,
  Threshold,    \* selfHealNotFoundThreshold
  MaxPending,   \* bound: lines a process has printed and nobody has read
  MaxOps,       \* bound: panel requests
  MaxBoots,     \* bound: starts of the master after the first
  Faults        \* what the environment may do, a subset of FaultKinds

FaultKinds ==
  {"launch",      \* Install, StderrPipe or Start fails
   "exit",        \* cloudflared exits by itself
   "crash",       \* the master is killed
   "signal",      \* the master is asked to stop
   "drop",        \* Cloudflare forgets a quick tunnel for good
   "transient",   \* the edge refuses a tunnel it has not dropped
   "lateScanner"} \* a scanner may need more than selfHeal's 2 s to see EOF

ASSUME ThresholdAssumption == Threshold \in Nat \ {0}
ASSUME BoundsAssumption == MaxPending \in Nat /\ MaxOps \in Nat /\ MaxBoots \in Nat
ASSUME FaultsAssumption == Faults \subseteq FaultKinds
ASSUME ActorsAssumption ==
  /\ Healer # Boot /\ Healer # Main /\ Boot # Main
  /\ Healer \notin Panel /\ Boot \notin Panel /\ Main \notin Panel
ASSUME NoProcAssumption == NoProc \notin Procs

Actors == Panel \cup {Healer, Boot, Main}
Lines  == {"url", "registered", "notfound"}
Ops    == {"none", "enable", "disable", "apply", "heal", "restore", "stop"}
PCs    == {"idle", "persistOn", "check", "launch", "publish", "take", "kill",
           "persistOff", "snapshot", "mark", "sleep",
           "boot", "serving", "draining", "return", "exited"}

VARIABLES
  enabled, cmd, url, consecNotFound,  \* the fields of TunnelManager
  cooling,    \* time.Since(lastSelfHeal) <= selfHealCooldown
  intent,     \* the persisted setting tunnel_enabled
  pc, op,     \* per goroutine: the next critical section, the call it belongs to
  own,        \* per goroutine: its local *exec.Cmd (Enable's new one, Disable's old one)
  proc,       \* per process: not started, running or exited
  reader,     \* per process: its scanner goroutine
  lines,      \* per process: what it printed and its scanner has not handled
  edge,       \* per process: where its tunnel is at Cloudflare
  ops, boots  \* counters of the bounds

manager == <<enabled, cmd, url, consecNotFound>>
threads == <<pc, op, own>>
world   == <<proc, reader, lines, edge>>
bounds  == <<ops, boots>>
vars    == <<manager, cooling, intent, threads, world, bounds>>

ManagerOK ==
  /\ enabled \in BOOLEAN
  /\ cmd \in Procs \cup {NoProc}
  /\ url \in Procs \cup {NoProc}
  /\ consecNotFound \in Nat
  /\ cooling \in BOOLEAN

ThreadsOK ==
  /\ pc \in [Actors -> PCs]
  /\ op \in [Actors -> Ops]
  /\ own \in [Actors -> Procs \cup {NoProc}]

WorldOK ==
  /\ proc \in [Procs -> {"unborn", "running", "exited"}]
  /\ reader \in [Procs -> {"none", "reading", "done"}]
  /\ edge \in [Procs -> {"new", "listed", "dropped"}]

LinesOK == lines \in [Procs -> Seq(Lines)]

StoredOK == intent \in BOOLEAN /\ ops \in Nat /\ boots \in Nat

TypeOK == ManagerOK /\ ThreadsOK /\ WorldOK /\ LinesOK /\ StoredOK

(* The memory of a freshly started master. *)
FreshMemory ==
  /\ enabled' = FALSE /\ cmd' = NoProc /\ url' = NoProc /\ consecNotFound' = 0
  /\ cooling' = FALSE

Init ==
  /\ enabled = FALSE /\ cmd = NoProc /\ url = NoProc /\ consecNotFound = 0
  /\ cooling = FALSE
  /\ intent \in BOOLEAN
  /\ pc = [a \in Actors |-> IF a = Main THEN "boot" ELSE "idle"]
  /\ op = [a \in Actors |-> "none"]
  /\ own = [a \in Actors |-> NoProc]
  /\ proc = [p \in Procs |-> "unborn"]
  /\ reader = [p \in Procs |-> "none"]
  /\ lines = [p \in Procs |-> <<>>]
  /\ edge = [p \in Procs |-> "new"]
  /\ ops = 0 /\ boots = 0

(* Goroutine a moves on within its call, which is over when it is idle again. *)
Goto(a, from, to) ==
  /\ pc[a] = from /\ pc' = [pc EXCEPT ![a] = to]
  /\ op' = [op EXCEPT ![a] = IF to = "idle" THEN "none" ELSE @]

Begin(a, from, to, o) ==
  /\ pc[a] = from /\ pc' = [pc EXCEPT ![a] = to]
  /\ op' = [op EXCEPT ![a] = o]

(* Where Disable and Enable hand control back to, by the call they are part of. *)
AfterDisable(a) == CASE op[a] = "disable" -> "persistOff"
                     [] op[a] = "apply"   -> "check"
                     [] op[a] = "heal"    -> "sleep"
                     [] OTHER             -> "return"

-----------------------------------------------------------------------------
(* Panel requests: the handlers around TunnelManager. *)

Listening == pc[Main] \in {"boot", "serving"}

Request(a, o, first) ==
  /\ Listening /\ ops < MaxOps
  /\ Begin(a, "idle", first, o)
  /\ ops' = ops + 1
  /\ UNCHANGED <<manager, cooling, intent, own, world, boots>>

(* POST /api/tunnel, POST /api/tunnel/disable, POST /api/tunnel/edge/apply. *)
RequestEnable(a)  == Request(a, "enable", "persistOn")
RequestDisable(a) == Request(a, "disable", "take")
RequestApply(a)   == Request(a, "apply", "snapshot")

(* handleTunnel persists the intent, answers, and leaves Enable to a goroutine. *)
PersistOn(a) ==
  /\ Goto(a, "persistOn", "check")
  /\ intent' = TRUE
  /\ UNCHANGED <<manager, cooling, own, world, bounds>>

(* handleTunnelDisable persists the intent after the tunnel is down. *)
PersistOff(a) ==
  /\ Goto(a, "persistOff", "idle")
  /\ intent' = FALSE
  /\ UNCHANGED <<manager, cooling, own, world, bounds>>

(* ApplyEdge reads enabled and decides whether to restart cloudflared. *)
Snapshot(a) ==
  /\ Goto(a, "snapshot", IF enabled THEN "take" ELSE "idle")
  /\ UNCHANGED <<manager, cooling, intent, own, world, bounds>>

-----------------------------------------------------------------------------
(* Enable: check under the lock, install and launch outside it, publish under it. *)

EnableCheck(a) ==
  /\ Goto(a, "check", IF enabled THEN "idle" ELSE "launch")
  /\ UNCHANGED <<manager, cooling, intent, own, world, bounds>>

EnableLaunch(a, p) ==
  /\ proc[p] = "unborn"
  /\ Goto(a, "launch", "publish")
  /\ own' = [own EXCEPT ![a] = p]
  /\ proc' = [proc EXCEPT ![p] = "running"]
  /\ UNCHANGED <<manager, cooling, intent, reader, lines, edge, bounds>>

EnableFail(a) ==
  /\ "launch" \in Faults
  /\ Goto(a, "launch", "idle")
  /\ UNCHANGED <<manager, cooling, intent, own, world, bounds>>

EnablePublish(a) ==
  /\ Goto(a, "publish", "idle")
  /\ cmd' = own[a] /\ enabled' = TRUE
  /\ reader' = [reader EXCEPT ![own[a]] = "reading"]
  /\ own' = [own EXCEPT ![a] = NoProc]
  /\ UNCHANGED <<url, consecNotFound, cooling, intent, proc, lines, edge, bounds>>

-----------------------------------------------------------------------------
(* Disable: take the command and clear the state under the lock, then kill. *)

(* Faulty variant: the command stays in the manager until the process is dead. *)
DisableTakeKeepsCmd(a) ==
  /\ Goto(a, "take", IF cmd = NoProc THEN AfterDisable(a) ELSE "kill")
  /\ own' = [own EXCEPT ![a] = cmd]
  /\ url' = NoProc /\ consecNotFound' = 0
  /\ UNCHANGED <<enabled, cmd, cooling, intent, world, bounds>>

DisableTake(a) ==
  /\ Goto(a, "take", IF cmd = NoProc THEN AfterDisable(a) ELSE "kill")
  /\ own' = [own EXCEPT ![a] = cmd]
  /\ enabled' = FALSE /\ cmd' = NoProc /\ url' = NoProc /\ consecNotFound' = 0
  /\ UNCHANGED <<cooling, intent, world, bounds>>

(* Kill and Wait; Wait closes the pipe, so what was not read may be lost. *)
DisableKill(a) ==
  /\ Goto(a, "kill", AfterDisable(a))
  /\ proc' = [proc EXCEPT ![own[a]] = "exited"]
  /\ \E rest \in {lines[own[a]], <<>>} : lines' = [lines EXCEPT ![own[a]] = rest]
  /\ own' = [own EXCEPT ![a] = NoProc]
  /\ UNCHANGED <<manager, cooling, intent, reader, edge, bounds>>

-----------------------------------------------------------------------------
(* The scanner goroutine of process p. *)

(* Faulty variant: a registration takes one refusal back. *)
ScanLineDecrements(p) ==
  /\ reader[p] = "reading" /\ lines[p] # <<>>
  /\ lines' = [lines EXCEPT ![p] = Tail(@)]
  /\ url' = IF Head(lines[p]) = "url" /\ url = NoProc THEN p ELSE url
  /\ consecNotFound' = CASE Head(lines[p]) = "notfound"   -> consecNotFound + 1
                         [] Head(lines[p]) = "registered" -> consecNotFound - 1
                         [] OTHER                         -> consecNotFound
  /\ UNCHANGED <<enabled, cmd, cooling, intent, threads, proc, reader, edge, bounds>>

(* Faulty variant: a later address replaces the one that is published. *)
ScanLineReplaces(p) ==
  /\ reader[p] = "reading" /\ lines[p] # <<>>
  /\ lines' = [lines EXCEPT ![p] = Tail(@)]
  /\ url' = IF Head(lines[p]) = "url" THEN p ELSE url
  /\ consecNotFound' = CASE Head(lines[p]) = "notfound"   -> consecNotFound + 1
                         [] Head(lines[p]) = "registered" -> 0
                         [] OTHER                         -> consecNotFound
  /\ UNCHANGED <<enabled, cmd, cooling, intent, threads, proc, reader, edge, bounds>>

ScanLine(p) ==
  /\ reader[p] = "reading" /\ lines[p] # <<>>
  /\ lines' = [lines EXCEPT ![p] = Tail(@)]
  /\ url' = IF Head(lines[p]) = "url" /\ url = NoProc THEN p ELSE url
  /\ consecNotFound' = CASE Head(lines[p]) = "notfound"   -> consecNotFound + 1
                         [] Head(lines[p]) = "registered" -> 0
                         [] OTHER                         -> consecNotFound
  /\ UNCHANGED <<enabled, cmd, cooling, intent, threads, proc, reader, edge, bounds>>

(* Faulty variants of the exit section: without one of its assignments. *)
ScanEndKeepsCmd(p) ==
  /\ reader[p] = "reading" /\ lines[p] = <<>> /\ proc[p] = "exited"
  /\ reader' = [reader EXCEPT ![p] = "done"]
  /\ enabled' = FALSE /\ url' = NoProc /\ consecNotFound' = 0
  /\ UNCHANGED <<cmd, cooling, intent, threads, proc, lines, edge, bounds>>

ScanEndKeepsCount(p) ==
  /\ reader[p] = "reading" /\ lines[p] = <<>> /\ proc[p] = "exited"
  /\ reader' = [reader EXCEPT ![p] = "done"]
  /\ enabled' = FALSE /\ cmd' = NoProc /\ url' = NoProc
  /\ UNCHANGED <<consecNotFound, cooling, intent, threads, proc, lines, edge, bounds>>

(* The pipe is at its end: the exit section, which asks nothing about cmd. *)
ScanEnd(p) ==
  /\ reader[p] = "reading" /\ lines[p] = <<>> /\ proc[p] = "exited"
  /\ reader' = [reader EXCEPT ![p] = "done"]
  /\ enabled' = FALSE /\ cmd' = NoProc /\ url' = NoProc /\ consecNotFound' = 0
  /\ UNCHANGED <<cooling, intent, threads, proc, lines, edge, bounds>>

-----------------------------------------------------------------------------
(* The self-heal loop: selfHealNeeded and selfHeal are separate critical sections. *)

(* Faulty variants: without the cooldown, and only for a tunnel without an address. *)
HealNeededAlways == enabled /\ consecNotFound >= Threshold
HealNeededNoUrl  == enabled /\ consecNotFound >= Threshold /\ ~cooling /\ url = NoProc

HealNeeded == enabled /\ consecNotFound >= Threshold /\ ~cooling

HealCheck ==
  /\ HealNeeded
  /\ Begin(Healer, "idle", "mark", "heal")
  /\ UNCHANGED <<manager, cooling, intent, own, world, bounds>>

HealMark ==
  /\ Goto(Healer, "mark", "take")
  /\ cooling' = TRUE
  /\ UNCHANGED <<manager, intent, own, world, bounds>>

(* The 2 s sleep "lets the old process fully exit": unless scanners may be late, *)
(* every reader of an exited process has ended when it is over.                  *)
HealWake ==
  /\ "lateScanner" \in Faults \/ \A p \in Procs : ~(proc[p] = "exited" /\ reader[p] = "reading")
  /\ Goto(Healer, "sleep", "check")
  /\ UNCHANGED <<manager, cooling, intent, own, world, bounds>>

CooldownElapses ==
  /\ cooling /\ cooling' = FALSE
  /\ UNCHANGED <<manager, intent, threads, world, bounds>>

-----------------------------------------------------------------------------
(* The life of the master process. *)

(* RestoreTunnelIntent: Enable in a goroutine of its own if the intent is on. *)
Restore ==
  /\ pc[Main] = "boot"
  /\ pc' = [pc EXCEPT ![Main] = "serving", ![Boot] = IF intent THEN "check" ELSE "idle"]
  /\ op' = [op EXCEPT ![Boot] = IF intent THEN "restore" ELSE "none"]
  /\ UNCHANGED <<manager, cooling, intent, own, world, bounds>>

Signal ==
  /\ "signal" \in Faults
  /\ Begin(Main, "serving", "draining", "stop")
  /\ UNCHANGED <<manager, cooling, intent, own, world, bounds>>

(* http.Server.Shutdown waits for handlers, not for the goroutines they started. *)
InHandler(a) == pc[a] = "persistOn" \/ (op[a] \in {"disable", "apply"} /\ pc[a] # "idle")

(* Faulty variant: wait for the tunnel to be down, which only the Stop after it does. *)
ShutdownAwaitsTunnel ==
  /\ ~enabled /\ \A a \in Panel : ~InHandler(a)
  /\ Goto(Main, "draining", "take")
  /\ UNCHANGED <<manager, cooling, intent, own, world, bounds>>

Shutdown ==
  /\ \A a \in Panel : ~InHandler(a)
  /\ Goto(Main, "draining", "take")
  /\ UNCHANGED <<manager, cooling, intent, own, world, bounds>>

(* What is left when the process is gone: its children, and the database. *)
Halt(next) ==
  /\ FreshMemory
  /\ pc' = [a \in Actors |-> IF a = Main THEN next ELSE "idle"]
  /\ op' = [a \in Actors |-> "none"]
  /\ own' = [a \in Actors |-> NoProc]
  /\ reader' = [p \in Procs |-> IF reader[p] = "reading" THEN "done" ELSE reader[p]]
  /\ UNCHANGED <<intent, edge, ops>>

Exit ==
  /\ pc[Main] = "return"
  /\ Halt("exited")
  /\ UNCHANGED <<proc, lines, boots>>

(* The service manager kills what is left of the control group and starts a new master. *)
Reap ==
  /\ proc' = [p \in Procs |-> IF proc[p] = "running" THEN "exited" ELSE proc[p]]
  /\ lines' = [p \in Procs |-> <<>>]

Restart ==
  /\ pc[Main] = "exited" /\ boots < MaxBoots
  /\ Halt("boot") /\ Reap
  /\ boots' = boots + 1

Crash ==
  /\ "crash" \in Faults /\ pc[Main] # "exited" /\ boots < MaxBoots
  /\ Halt("boot") /\ Reap
  /\ boots' = boots + 1

-----------------------------------------------------------------------------
(* cloudflared and the Cloudflare edge. *)

Say(p, line) ==
  /\ proc[p] = "running" /\ Len(lines[p]) < MaxPending
  /\ lines' = [lines EXCEPT ![p] = Append(@, line)]
  /\ UNCHANGED <<manager, cooling, intent, threads, proc, reader, bounds>>

PrintUrl(p) ==
  /\ edge[p] = "new"
  /\ edge' = [edge EXCEPT ![p] = "listed"]
  /\ Say(p, "url")

PrintRegistered(p) ==
  /\ edge[p] = "listed"
  /\ Say(p, "registered") /\ UNCHANGED edge

(* The counter of refusals is capped just above the threshold it is compared with. *)
PrintNotFound(p) ==
  /\ edge[p] = "dropped" \/ (edge[p] = "listed" /\ "transient" \in Faults)
  /\ consecNotFound <= Threshold
  /\ Say(p, "notfound") /\ UNCHANGED edge

(* Cloudflare forgets the quick tunnel; another process can still be started. *)
EdgeDrops(p) ==
  /\ "drop" \in Faults
  /\ edge[p] = "listed" /\ proc[p] = "running"
  /\ \E q \in Procs : proc[q] = "unborn"
  /\ edge' = [edge EXCEPT ![p] = "dropped"]
  /\ UNCHANGED <<manager, cooling, intent, threads, proc, reader, lines, bounds>>

ProcExits(p) ==
  /\ "exit" \in Faults /\ proc[p] = "running"
  /\ proc' = [proc EXCEPT ![p] = "exited"]
  /\ UNCHANGED <<manager, cooling, intent, threads, reader, lines, edge, bounds>>

-----------------------------------------------------------------------------
EnableSteps(a)  == EnableCheck(a) \/ (\E p \in Procs : EnableLaunch(a, p)) \/ EnablePublish(a)
DisableSteps(a) == DisableTake(a) \/ DisableKill(a)
HandlerSteps(a) == PersistOn(a) \/ PersistOff(a) \/ Snapshot(a)
Requests(a)     == RequestEnable(a) \/ RequestDisable(a) \/ RequestApply(a)
Scanner(p)      == ScanLine(p) \/ ScanEnd(p)
HealSteps       == HealCheck \/ HealMark \/ HealWake

Next ==
  \/ \E a \in Panel : Requests(a) \/ HandlerSteps(a)
  \/ \E a \in Actors : EnableSteps(a) \/ EnableFail(a) \/ DisableSteps(a)
  \/ HealSteps \/ CooldownElapses
  \/ Restore \/ Signal \/ Shutdown \/ Exit \/ Restart \/ Crash
  \/ \E p \in Procs : \/ Scanner(p) \/ ProcExits(p) \/ EdgeDrops(p)
                      \/ PrintUrl(p) \/ PrintRegistered(p) \/ PrintNotFound(p)

Spec == Init /\ [][Next]_vars

(* Goroutines are scheduled, time passes and a running cloudflared keeps talking to *)
(* the edge.  Nothing makes a request, a signal, a failure or an exit happen.       *)
Fairness ==
  /\ \A a \in Actors : WF_vars(EnableSteps(a)) /\ WF_vars(DisableSteps(a))
  /\ \A a \in Panel : WF_vars(HandlerSteps(a))
  /\ WF_vars(HealSteps) /\ WF_vars(CooldownElapses)
  /\ WF_vars(Restore) /\ WF_vars(Shutdown) /\ WF_vars(Exit)
  /\ \A p \in Procs : /\ WF_vars(Scanner(p)) /\ WF_vars(PrintUrl(p))
                      /\ WF_vars(PrintNotFound(p) /\ edge[p] = "dropped")

FairSpec == Spec /\ Fairness

-----------------------------------------------------------------------------
(* Safety.  The fields of the manager are written by Enable, by Disable and by every *)
(* scanner, in critical sections that do not look at one another's process.          *)

\* enabled and cmd are written together by five critical sections of Enable, Disable and
\* the scanners: no interleaving of them leaves a tunnel shown as up without a process,
\* or a process recorded for a tunnel shown as down.
EnabledIffCmd == enabled <=> cmd # NoProc

\* The process of a tunnel shown as up has a live scanner, so that its exit is noticed
\* and the agents stop being sent to it, whatever earlier scanners did in between.
CmdIsRead == cmd # NoProc => reader[cmd] = "reading"

\* Leftovers of earlier processes may set url and consecNotFound after Disable has
\* cleared them, but never when no scanner is left whose exit section clears them again.
LeftoversAreRead ==
  url # NoProc \/ consecNotFound > 0 => \E p \in Procs : reader[p] = "reading"

\* A process is held by at most one goroutine or by the manager: Disable's Kill and Wait
\* are never run twice on one command, whoever else disables at the same time.
OneOwner ==
  \A a \in Actors : own[a] # NoProc =>
    own[a] # cmd /\ \A b \in Actors \ {a} : own[b] # own[a]

\* Two self-heals are separated by the cooldown, although the cooldown is tested in one
\* critical section (selfHealNeeded) and started in another (selfHeal).
HealsAreSpaced ==
  [][pc[Healer] = "mark" /\ pc'[Healer] = "take" => ~cooling]_vars

(* An address is spent when it was printed and is no longer on its way to the manager. *)
Unread(p) == \E i \in 1..Len(lines[p]) : lines[p][i] = "url"
Spent     == {p \in Procs : edge[p] # "new" /\ ~Unread(p)}

Address == INSTANCE TunnelAddress WITH
  Addresses <- Procs, NoAddress <- NoProc, up <- enabled, addr <- url, spent <- Spent

\* What agents are told of: although scanners of killed processes still write url, no
\* address replaces another without the tunnel going down in between, and an address that
\* was withdrawn is never published again, so that agents who keep it can only be wrong.
ImplementsTunnelAddress == Address!Spec

\* The exit of the process of a tunnel shown as up is noticed: that process does not stay
\* the manager's command.
ExitIsNoticed ==
  \A p \in Procs : cmd = p /\ proc[p] = "exited" ~> cmd # p

\* Once the master is asked to stop, Shutdown's wait for the handlers ends and so does
\* Stop, unless the bound on processes keeps a handler from launching one.
StopReturns ==
  pc[Main] = "draining" ~> pc[Main] = "exited" \/ \A p \in Procs : proc[p] # "unborn"

\* The comment of SelfHealLoop: when the edge has dropped the quick tunnel of the running
\* cloudflared, agents are given a fresh address without human intervention (no request,
\* no signal), unless cloudflared exits by itself, which the loop does not look for.
RecoversFreshUrl ==
  (\E p \in Procs : cmd = p /\ edge[p] = "dropped")
    ~> \/ url # NoProc /\ edge[url] # "dropped"
       \/ ops > 0 \/ pc[Main] # "serving"
       \/ cmd # NoProc /\ proc[cmd] = "exited"

-----------------------------------------------------------------------------
(* What comments say and the code does not do. *)

\* server.go, Stop: cloudflared exits cleanly "instead of being SIGKILLed by the cgroup on
\* process exit", so none is running when the master has returned from main.
StopLeavesNoCloudflared ==
  pc[Main] = "exited" => \A p \in Procs : proc[p] # "running"
=============================================================================
