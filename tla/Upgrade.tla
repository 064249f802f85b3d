------------------------------- MODULE Upgrade -------------------------------
(***************************************************************************)
(* The self-upgrade of one agent that serves several masters: the panel    *)
(* marks the node, the next heartbeat carries the target, the agent        *)
(* downloads the binary beside its own, renames it over its own and has    *)
(* the service manager restart it (internal/agent/agent.go, handlers in    *)
(* internal/master/agent_api.go and panel_api.go).                         *)
(*                                                                         *)
(* The handler of a heartbeat does not end with the call: when the link    *)
(* breaks or the agent dies, it runs on until the server notices and       *)
(* cancels its context, beside the handlers of later heartbeats.  One such *)
(* handler is kept for each master in Slow; a further one displaces it.    *)
(***************************************************************************)
EXTENDS Naturals

CONSTANTS
  Masters, Versions,
  Slow,       \* bound: the masters whose handlers may outlive their calls
  Jobs,       \* goroutines of selfUpgrade there may be at a time
  None,       \* no version; no file
  Part,       \* the content of a binary that was not written to its end
  Page,       \* a complete answer of less than 1 MB: an error page
  MaxAsks,    \* bound: requests of the panel and updates of a master
  MaxFaults   \* bound: lost calls, failed downloads, deaths of the daemon

ASSUME ContentsAssumption == {None, Part, Page} \cap Versions = {} /\ None \notin {Part, Page}
ASSUME BoundsAssumption == MaxAsks \in Nat /\ MaxFaults \in Nat

VARIABLES
  release,    \* release[m]: s.version of the master
  pending,    \* pending[m]: agents.pending_upgrade of the node
  shown,      \* shown[m]: agents.version, what the panel shows
  owed,       \* owed[m]: a target that only a restart of the agent can meet
  call,       \* call[m]: the heartbeat of this connection
  late,       \* late[m]: a handler whose call the agent has given up
  warm,       \* the connections startMaster has still to warm up
  version,    \* a.cfg.Version of the running daemon
  upgrading,  \* a.upgrading
  job,        \* job[j]: a goroutine of selfUpgrade
  exe, tmp,   \* the installed binary and <exe>.new
  restarting, \* the daemon has asked for its restart, or has exited for it
  asks, faults

master == <<release, pending, owed, shown>>
calls  == <<call, late>>
daemon == <<warm, version, upgrading>>
files  == <<exe, tmp>>
bounds == <<asks, faults>>
vars   == <<master, calls, daemon, job, files, restarting, bounds>>

NoCall == [at |-> "idle"]
NoJob  == [at |-> "none"]

AtMaster == {"sent", "read", "touched"}

Calls == {NoCall}
  \cup [at : {"sent"}, v : Versions]
  \cup [at : {"read", "touched"}, v : Versions, p : Versions \cup {None}]
  \cup [at : {"answered"}, to : Versions \cup {None}]

TypeOK ==
  /\ release \in [Masters -> Versions] /\ shown \in [Masters -> Versions \cup {None}]
  /\ pending \in [Masters -> Versions \cup {None}] /\ owed \in [Masters -> Versions \cup {None}]
  /\ call \in [Masters -> Calls]
  /\ late \in [Masters -> {h \in Calls : h.at # "answered"}]
  /\ warm \subseteq Masters /\ version \in Versions /\ upgrading \in BOOLEAN
  /\ job \in [Jobs -> {NoJob} \cup [at : {"fetch", "copy", "check", "rename", "restart"}, to : Versions]]
  /\ exe \in Versions \cup {Part, Page} /\ tmp \in Versions \cup {None, Part, Page}
  /\ restarting \in BOOLEAN
  /\ asks \in 0..MaxAsks /\ faults \in 0..MaxFaults

Init ==
  /\ release \in [Masters -> Versions] /\ version \in Versions
  /\ pending = [m \in Masters |-> None] /\ owed = pending /\ shown = pending
  /\ call = [m \in Masters |-> NoCall] /\ late = call
  /\ warm = Masters /\ upgrading = FALSE
  /\ job = [j \in Jobs |-> NoJob]
  /\ exe = version /\ tmp = None /\ restarting = FALSE
  /\ asks = 0 /\ faults = 0

Fault == faults < MaxFaults /\ faults' = faults + 1

-----------------------------------------------------------------------------
(* The panel and the handler of the heartbeat. *)

(* Heartbeat h takes back a mark for v when it comes to it: it will find the mark and names v, *)
(* or it has found, before, a mark that it meets.                                              *)
Meets(h, v) ==
  \/ h.at = "sent" /\ h.v = v
  \/ h.at \in {"read", "touched"} /\ h.p = h.v

(* handleNodeUpgrade: the target is the release of this master. *)
Ask(m) ==
  /\ asks < MaxAsks /\ asks' = asks + 1
  /\ pending' = [pending EXCEPT ![m] = release[m]]
  /\ owed' = [owed EXCEPT ![m] =
       IF version = release[m] \/ Meets(call[m], release[m]) \/ Meets(late[m], release[m])
       THEN None ELSE release[m]]
  /\ UNCHANGED <<release, shown, calls, daemon, job, files, restarting, faults>>

(* A master is replaced by another release; Shutdown has waited for its handlers. *)
UpdateMaster(m) ==
  /\ asks < MaxAsks /\ asks' = asks + 1
  /\ {call[m].at, late[m].at} \cap {"read", "touched"} = {}
  /\ \E v \in Versions \ {release[m]} : release' = [release EXCEPT ![m] = v]
  /\ UNCHANGED <<pending, owed, shown, calls, daemon, job, files, restarting, faults>>

(* Handler h goes on as g; nobody hears the answer of a call that was given up. *)
Serve(m, h, g) ==
  \/ call[m] = h /\ call' = [call EXCEPT ![m] = g] /\ UNCHANGED late
  \/ /\ late[m] = h /\ UNCHANGED call
     /\ late' = [late EXCEPT ![m] = IF g.at = "answered" THEN NoCall ELSE g]

(* authenticateAgent reads the row once for the whole request. *)
ReadRow(m) ==
  /\ \E h \in {call[m], late[m]} :
       h.at = "sent" /\ Serve(m, h, [at |-> "read", v |-> h.v, p |-> pending[m]])
  /\ UNCHANGED <<master, daemon, job, files, restarting, bounds>>

(* TouchAgent. *)
Touch(m) ==
  /\ \E h \in {call[m], late[m]} :
       /\ h.at = "read" /\ Serve(m, h, [at |-> "touched", v |-> h.v, p |-> h.p])
       /\ shown' = [shown EXCEPT ![m] = h.v]
  /\ UNCHANGED <<release, pending, owed, daemon, job, files, restarting, bounds>>

(* Faulty variant: the mark is cleared as soon as it has been sent. *)
DirectOnce(m) ==
  /\ \E h \in {call[m], late[m]} :
       /\ h.at = "touched" /\ Serve(m, h, [at |-> "answered", to |-> h.p])
       /\ pending' = [pending EXCEPT ![m] = IF h.p = None THEN @ ELSE None]
  /\ UNCHANGED <<release, owed, shown, daemon, job, files, restarting, bounds>>

(* The mark is cleared for an agent that runs its target, and sent to any other. *)
Direct(m) ==
  /\ \E h \in {call[m], late[m]} :
       LET reached == h.p = h.v IN
       /\ h.at = "touched" /\ Serve(m, h, [at |-> "answered", to |-> IF reached THEN None ELSE h.p])
       /\ pending' = [pending EXCEPT ![m] = IF reached THEN None ELSE @]
  /\ UNCHANGED <<release, owed, shown, daemon, job, files, restarting, bounds>>

(* The server notices that the connection is closed and cancels the handler. *)
LateEnds(m) ==
  /\ late[m] # NoCall /\ late' = [late EXCEPT ![m] = NoCall]
  /\ UNCHANGED <<master, call, daemon, job, files, restarting, bounds>>

-----------------------------------------------------------------------------
(* The heartbeats of the agent. *)

(* startMaster warms up one connection after the other; the heartbeatLoop of each ticks from then on. *)
Beat(m) ==
  /\ call[m] = NoCall
  /\ m \in warm => \A o \in warm : call[o] = NoCall
  /\ call' = [call EXCEPT ![m] = [at |-> "sent", v |-> version]]
  /\ UNCHANGED <<master, late, daemon, job, files, restarting, bounds>>

(* A goroutine more; which of the free names it gets makes no difference. *)
Free == CHOOSE j \in Jobs : job[j] = NoJob

(* Faulty variant: the flag is only set. *)
MaybeSelfUpgradeTwice(to) ==
  /\ \E j \in Jobs : job[j] = NoJob
  /\ job' = [job EXCEPT ![Free] = [at |-> "fetch", to |-> to]] /\ upgrading' = TRUE

MaybeSelfUpgrade(to) ==
  IF upgrading THEN UNCHANGED <<job, upgrading>>
  ELSE /\ \E j \in Jobs : job[j] = NoJob
       /\ job' = [job EXCEPT ![Free] = [at |-> "fetch", to |-> to]] /\ upgrading' = TRUE

(* The target of a warm-up is not looked at. *)
Answered(m) ==
  /\ call[m].at = "answered"
  /\ call' = [call EXCEPT ![m] = NoCall]
  /\ IF m \notin warm /\ call[m].to \notin {None, version}
     THEN MaybeSelfUpgrade(call[m].to)
     ELSE UNCHANGED <<job, upgrading>>
  /\ warm' = warm \ {m}
  /\ UNCHANGED <<master, late, version, files, restarting, bounds>>

(* The agent gives its calls to ms up; what the masters do for them may go on. *)
GivesUp(ms) ==
  /\ call' = [m \in Masters |-> IF m \in ms THEN NoCall ELSE call[m]]
  /\ \E on \in SUBSET {m \in ms \cap Slow : call[m].at \in AtMaster} :
       late' = [m \in Masters |-> IF m \in on THEN call[m] ELSE late[m]]

(* The request or its answer is lost, or the master is away. *)
CallFails(m) ==
  /\ call[m] # NoCall /\ Fault
  /\ GivesUp({m})
  /\ warm' = warm \ {m}
  /\ UNCHANGED <<master, version, upgrading, job, files, restarting, asks>>

-----------------------------------------------------------------------------
(* selfUpgrade. *)

(* Faulty variant: a return forgets the flag. *)
ReturnsUpgrading(j) == job' = [job EXCEPT ![j] = NoJob] /\ UNCHANGED upgrading

(* The deferred reset of the flag comes with every return. *)
Returns(j) == job' = [job EXCEPT ![j] = NoJob] /\ upgrading' = FALSE

Goes(j, at) == job' = [job EXCEPT ![j].at = at] /\ UNCHANGED upgrading

(* A 200 has come; the temporary is created or truncated. *)
Open(j) ==
  /\ job[j].at = "fetch" /\ Goes(j, "copy")
  /\ tmp' = Part
  /\ UNCHANGED <<master, calls, warm, version, exe, restarting, bounds>>

(* The request fails or has another status. *)
FetchFails(j) ==
  /\ job[j].at = "fetch" /\ Fault /\ Returns(j)
  /\ UNCHANGED <<master, calls, warm, version, files, restarting, asks>>

Copy(j) ==
  /\ job[j].at = "copy" /\ Goes(j, "check")
  /\ \/ tmp' = job[j].to /\ UNCHANGED faults
     \/ tmp' = Page /\ Fault
  /\ UNCHANGED <<master, calls, warm, version, exe, restarting, asks>>

CopyFails(j) ==
  /\ job[j].at = "copy" /\ Fault /\ Returns(j)
  /\ tmp' = None
  /\ UNCHANGED <<master, calls, warm, version, exe, restarting, asks>>

(* The size is all that is looked at; a partial file may well be large enough. *)
CheckSize(j) ==
  /\ job[j].at = "check"
  /\ IF tmp \in {None, Page}
     THEN tmp' = None /\ Returns(j)
     ELSE UNCHANGED tmp /\ Goes(j, "rename")
  /\ UNCHANGED <<master, calls, warm, version, exe, restarting, bounds>>

Rename(j) ==
  /\ job[j].at = "rename" /\ Goes(j, "restart")
  /\ tmp # None /\ exe' = tmp /\ tmp' = None
  /\ UNCHANGED <<master, calls, warm, version, restarting, bounds>>

(* Faulty variant: the old binary is removed to make room for the new one. *)
RenameFailsAfterRemove(j) ==
  /\ job[j].at = "rename" /\ Fault /\ Returns(j)
  /\ exe' = None /\ tmp' = None
  /\ UNCHANGED <<master, calls, warm, version, restarting, asks>>

RenameFails(j) ==
  /\ job[j].at = "rename" /\ Fault /\ Returns(j)
  /\ tmp' = None
  /\ UNCHANGED <<master, calls, warm, version, exe, restarting, asks>>

(* systemctl is started, not waited for; without it the process exits. *)
RequestRestart(j) ==
  /\ job[j].at = "restart" /\ Returns(j)
  /\ restarting' = TRUE
  /\ UNCHANGED <<master, calls, warm, version, files, bounds>>

Job(j) ==
  \/ Open(j) \/ FetchFails(j) \/ Copy(j) \/ CopyFails(j)
  \/ CheckSize(j) \/ Rename(j) \/ RenameFails(j) \/ RequestRestart(j)

-----------------------------------------------------------------------------
(* The service manager ends the daemon and runs what is installed. *)
Reboot ==
  /\ exe \in Versions /\ version' = exe
  /\ warm' = Masters /\ upgrading' = FALSE /\ restarting' = FALSE
  /\ GivesUp(Masters) /\ job' = [j \in Jobs |-> NoJob]
  /\ owed' = [m \in Masters |-> IF owed[m] = exe THEN None ELSE owed[m]]
  /\ UNCHANGED <<release, pending, shown, files>>

Restart == restarting /\ Reboot /\ UNCHANGED bounds

Die == Fault /\ Reboot /\ UNCHANGED asks

Next ==
  \/ \E m \in Masters :
       \/ Ask(m) \/ UpdateMaster(m) \/ ReadRow(m) \/ Touch(m) \/ Direct(m) \/ LateEnds(m)
       \/ Beat(m) \/ Answered(m) \/ CallFails(m)
  \/ \E j \in Jobs : Job(j)
  \/ Restart \/ Die

Spec == Init /\ [][Next]_vars

(* Tickers and goroutines are scheduled, handlers run, the service manager does its work. *)
Fairness ==
  /\ \A m \in Masters :
       /\ WF_vars(Beat(m)) /\ WF_vars(Answered(m))
       /\ WF_vars(ReadRow(m) \/ Touch(m) \/ Direct(m)) /\ WF_vars(LateEnds(m))
  /\ \A j \in Jobs : WF_vars(Job(j))
  /\ WF_vars(Restart)

FairSpec == Spec /\ Fairness

-----------------------------------------------------------------------------
\* The installed binary is at every moment a whole one, whichever call failed, whichever master
\* asked for another release meanwhile and wherever the daemon was killed: what the service
\* manager starts next is a program.
ExeIsWhole == exe \in Versions

\* A mark stands until the agent has been restarted into its target or the panel asks anew,
\* whatever becomes of calls, answers, downloads and daemons, and whichever handlers of calls
\* long given up are still to come; unless, when it was made, the agent ran the target or a
\* heartbeat was under way that would take it back, be it one of a daemon that is long dead.
MarksStand == \A m \in Masters : owed[m] # None => pending[m] = owed[m]

\* Once the panel asks for nothing more, every mark is served and the masters show what runs:
\* two masters of different releases do not pull the agent to and fro for ever.  They would if
\* one were, after each restart, so slow to answer its warm-up that the other's first tick and
\* a whole download came before: a heartbeat comes 30 s after a warm-up, which may last 5 min.
UpgradesSettle ==
  \/ <>[](\A m \in Masters : pending[m] = None /\ shown[m] = version)
  \/ []<>(restarting /\ warm # {})

-----------------------------------------------------------------------------
(* What a comment says and the code does not do. *)

\* "if a target is pending and the agent isn't on it yet, tell it [...]; if it already is, clear"
\* (handleAgentHeartbeat): a mark is cleared only while the agent runs its target.
ClearedWhenReached ==
  [][\A m \in Masters : pending[m] # None /\ pending'[m] = None => version = pending[m]]_vars
=============================================================================
