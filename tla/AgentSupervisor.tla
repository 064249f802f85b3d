--------------------------- MODULE AgentSupervisor ---------------------------
(***************************************************************************)
(* The agent daemon and its command line (internal/agent/agent.go,         *)
(* cmd/agent/main.go).  The commands add, remove, stop and start edit the  *)
(* state file and poke the daemon with SIGHUP; the daemon reads the file   *)
(* and starts and stops the loops of its masters to match.                 *)
(*                                                                         *)
(* The state file is three things: what is on disk, the copy loadState put *)
(* in a.file when the daemon started, and the copies that commands and     *)
(* reconciles have read and not yet used.  Reads and writes of the file    *)
(* are atomic here (module StateFile says when they are).                  *)
(*                                                                         *)
(* Left out: samples other than the write that saves them, the legacy v1   *)
(* format, unreadable files, and what the loops do (startMaster's warm-up  *)
(* heartbeat and policy pull change nothing that is modelled here).        *)
(***************************************************************************)
EXTENDS Naturals, Sequences

CONSTANTS
  Servers, NoServer,
  Commands,   \* processes of the command line
  Preset,     \* bound: masters in the state file to begin with
  MaxCmds,    \* bound: commands
  MaxStarts,  \* bound: starts of the daemon
  Flagged,    \* the daemon is run with --server (or TK_SERVER)
  Sampling    \* the policies of the masters have the automation enabled

ASSUME SupervisorAssumption ==
  /\ NoServer \notin Servers
  /\ Preset \in Nat /\ MaxCmds \in Nat /\ MaxStarts \in Nat
  /\ Flagged \in BOOLEAN /\ Sampling \in BOOLEAN

Entry == [server: Servers, cred: Nat, stopped: BOOLEAN]   \* StateMaster
Conn  == [cred: Nat, stopped: BOOLEAN, pulled: BOOLEAN]   \* masterConn; pulled: its loops
                                                          \* have run, so it has a policy
NoConn == [cred |-> 0, stopped |-> TRUE, pulled |-> FALSE] \* no such key in a.masters

VARIABLES
  disk,        \* the masters in the state file, in file order
  written,     \* there is a state file
  cmds,        \* per command: where it is, what it asks and what it has read
  issued,      \* the last credentials issued; also counts commands
  phase,       \* the daemon's Run, from start to the loops being up
  file,        \* a.file.Masters
  conns,       \* a.masters
  running,     \* the keys of a.cancelers: masters whose loops run
  owner,       \* a.automationOwnerServer
  hup,         \* a signal waits in hupCh
  hupAt, hupRead, \* the goroutine of SIGHUP: where it is, what its reconcile has read
  bootRead,    \* what the first reconcile has read
  starts,      \* counter of the bound
  unread,      \* history: whether the file has changed since a reconcile read it, and then
               \* whether every such change was told, or is being told, to the daemon
  overtaken,   \* history: the last reconcile of a signal applied the file inside the first
               \* reconcile, which had read another list
  asked        \* history: what the last successful command on a server asked for

daemon == <<phase, file, conns, running, owner, hup, hupAt, hupRead, bootRead, overtaken>>
stored == <<disk, written, unread>>
vars == <<stored, cmds, issued, daemon, starts, asked>>

Phases == {"down", "loaded", "starting", "notified", "booting", "running"}
Kinds  == {"add", "remove", "stop", "start"}
Status == {"absent", "stopped", "active"}

Idle      == [at |-> "idle"]
Reloading == [at |-> "reload"]

TypeOK ==
  /\ disk \in Seq(Entry) /\ file \in Seq(Entry)
  /\ hupRead \in Seq(Entry) /\ bootRead \in Seq(Entry)
  /\ cmds \in [Commands -> {Idle, Reloading} \cup
                 [at: {"save"}, kind: Kinds, server: Servers, new: Seq(Entry)]]
  /\ issued \in Nat /\ starts \in Nat
  /\ phase \in Phases
  /\ conns \in [Servers -> Conn]
  /\ running \in SUBSET Servers
  /\ owner \in Servers \cup {NoServer}
  /\ hup \in BOOLEAN /\ overtaken \in BOOLEAN /\ hupAt \in {"wait", "read", "apply"}
  /\ asked \in [Servers -> Status]
  /\ written \in BOOLEAN /\ unread \in {"no", "told", "untold"}

-----------------------------------------------------------------------------
(* The list of masters.  No list has a server twice (proved as EachOnce). *)

Has(ms, s)   == \E i \in 1..Len(ms) : ms[i].server = s
Place(ms, s) == CHOOSE i \in 1..Len(ms) : ms[i].server = s
At(ms, s)    == ms[Place(ms, s)]
StatusIn(ms, s) == IF ~Has(ms, s) THEN "absent"
                   ELSE IF At(ms, s).stopped THEN "stopped" ELSE "active"
Wanted(ms)   == {s \in Servers : StatusIn(ms, s) = "active"}
Update(ms, e) == [i \in 1..Len(ms) |-> IF ms[i].server = e.server THEN e ELSE ms[i]]
(* RemoveMaster drops every entry of its server; there is one at most. *)
Without(ms, s) == SubSeq(ms, 1, Place(ms, s) - 1) \o SubSeq(ms, Place(ms, s) + 1, Len(ms))

(* AddMaster: the same server gets new credentials and runs, a new one is appended. *)
Added(ms, s, cred) ==
  LET e == [server |-> s, cred |-> cred, stopped |-> FALSE]
  IN  IF Has(ms, s) THEN Update(ms, e) ELSE Append(ms, e)

(* Faulty variant: remove blanks the name of the server. *)
EditedBlanks(ms, kind, s, cred) ==
  CASE kind = "add"    -> Added(ms, s, cred)
    [] kind = "remove" -> [i \in 1..Len(ms) |->
                            IF ms[i].server = s THEN [ms[i] EXCEPT !.server = NoServer] ELSE ms[i]]
    [] kind = "stop"   -> Update(ms, [At(ms, s) EXCEPT !.stopped = TRUE])
    [] kind = "start"  -> Update(ms, [At(ms, s) EXCEPT !.stopped = FALSE])

Edited(ms, kind, s, cred) ==
  CASE kind = "add"    -> Added(ms, s, cred)
    [] kind = "remove" -> Without(ms, s)
    [] kind = "stop"   -> Update(ms, [At(ms, s) EXCEPT !.stopped = TRUE])
    [] kind = "start"  -> Update(ms, [At(ms, s) EXCEPT !.stopped = FALSE])

Outcome(kind) == CASE kind = "remove" -> "absent" [] kind = "stop" -> "stopped"
                   [] OTHER -> "active"

(* reconcileAutomationOwner: the first master of a list that is not stopped. *)
FirstActive(ms) ==
  IF Wanted(ms) = {} THEN NoServer
  ELSE ms[CHOOSE i \in 1..Len(ms) :
            /\ ~ms[i].stopped
            /\ \A j \in 1..(i - 1) : ms[j].stopped].server

(* The file as earlier commands left it. *)
EarlierFile ==
  {ms \in UNION {[1..n -> [server: Servers, cred: {1}, stopped: BOOLEAN]] : n \in 0..Preset} :
     \A i, j \in DOMAIN ms : i # j => ms[i].server # ms[j].server}

Init ==
  /\ disk \in EarlierFile
  /\ written \in BOOLEAN /\ (disk # <<>> => written) /\ unread = "no"
  /\ file = <<>> /\ hupRead = <<>> /\ bootRead = <<>>
  /\ cmds = [c \in Commands |-> Idle]
  /\ issued = 1 /\ starts = 0
  /\ phase = "down"
  /\ conns = [s \in Servers |-> NoConn]
  /\ running = {} /\ owner = NoServer
  /\ hup = FALSE /\ hupAt = "wait" /\ overtaken = FALSE
  /\ asked = [s \in Servers |-> StatusIn(disk, s)]

-----------------------------------------------------------------------------
(* The command line.  A command reads the file, saves its edit of what it read, and  *)
(* has the service manager signal the daemon.                                       *)

(* A command that does not find its server returns without saving. *)
CmdRead(c, kind, s) ==
  /\ cmds[c] = Idle /\ issued <= MaxCmds
  /\ kind = "add" \/ Has(disk, s)
  /\ issued' = issued + 1
  /\ cmds' = [cmds EXCEPT ![c] = [at |-> "save", kind |-> kind, server |-> s,
                                  new |-> Edited(disk, kind, s, issued + 1)]]
  /\ UNCHANGED <<stored, daemon, starts, asked>>

(* The file is written, by somebody who tells the daemon of the change or does not. *)
Write(ms, how) ==
  /\ disk' = ms /\ written' = TRUE
  /\ unread' = IF ms = disk \/ unread = "untold" THEN unread ELSE how

CmdSave(c) ==
  /\ cmds[c].at = "save"
  /\ Write(cmds[c].new, "told")
  /\ asked' = [asked EXCEPT ![cmds[c].server] = Outcome(cmds[c].kind)]
  /\ cmds' = [cmds EXCEPT ![c] = Reloading]
  /\ UNCHANGED <<issued, daemon, starts>>

(* The save fails, or the command is killed before it: it returns without a reload. *)
CmdSaveFails(c) ==
  /\ cmds[c].at = "save"
  /\ cmds' = [cmds EXCEPT ![c] = Idle]
  /\ UNCHANGED <<stored, issued, daemon, starts, asked>>

(* What is left of a daemon that is gone. *)
Gone ==
  /\ phase' = "down" /\ file' = <<>> /\ running' = {} /\ owner' = NoServer
  /\ conns' = [s \in Servers |-> NoConn]
  /\ hup' = FALSE /\ hupAt' = "wait" /\ hupRead' = <<>> /\ bootRead' = <<>>
  /\ overtaken' = FALSE

(* Faulty variant: the signal is ignored until the first reconcile is over. *)
CmdReloadDeafAtBoot(c) ==
  /\ cmds[c] = Reloading
  /\ cmds' = [cmds EXCEPT ![c] = Idle]
  /\ hup' = (hup \/ phase = "running")
  /\ UNCHANGED <<stored, issued, phase, file, conns, running, owner, hupAt, hupRead, bootRead,
                 overtaken, starts, asked>>

(* Reload: nothing happens without a daemon, a daemon that has not called            *)
(* signal.Notify yet dies of SIGHUP, and signals coalesce in hupCh.                  *)
CmdReload(c) ==
  /\ cmds[c] = Reloading
  /\ cmds' = [cmds EXCEPT ![c] = Idle]
  /\ CASE phase = "down" -> UNCHANGED daemon
       [] phase \in {"loaded", "starting"} -> Gone
       [] OTHER -> /\ hup' = TRUE
                   /\ UNCHANGED <<phase, file, conns, running, owner, hupAt, hupRead, bootRead,
                                 overtaken>>
  /\ UNCHANGED <<stored, issued, starts, asked>>

(* Reload drops the error of systemctl, and a command may be killed before it gets there: *)
(* no signal is sent.                                                                      *)
CmdUntold(c) ==
  /\ cmds[c] = Reloading
  /\ cmds' = [cmds EXCEPT ![c] = Idle]
  /\ unread' = IF unread = "no" THEN "no" ELSE "untold"
  /\ UNCHANGED <<disk, written, issued, daemon, starts, asked>>

-----------------------------------------------------------------------------
(* Run: loadState, detect the country, take over SIGHUP, reconcile. *)

(* Without a file loadState is over. *)
LoadState ==
  /\ phase = "down" /\ starts < MaxStarts
  /\ starts' = starts + 1
  /\ phase' = IF written THEN "loaded" ELSE "starting"
  /\ file' = disk
  /\ conns' = [s \in Servers |-> IF Has(disk, s)
                 THEN [cred |-> At(disk, s).cred, stopped |-> At(disk, s).stopped,
                       pulled |-> FALSE]
                 ELSE NoConn]
  /\ UNCHANGED <<stored, cmds, issued, running, owner, hup, hupAt, hupRead, bootRead,
                 overtaken, asked>>

(* loadState writes the list it has read back to the file, an empty one only under --server. *)
LoadPersist ==
  /\ phase = "loaded"
  /\ phase' = "starting"
  /\ IF file # <<>> \/ Flagged THEN Write(file, "told") ELSE UNCHANGED stored
  /\ UNCHANGED <<cmds, issued, file, conns, running, owner, hup, hupAt, hupRead, bootRead,
                 overtaken, starts, asked>>

Notify ==
  /\ phase = "starting"
  /\ phase' = "notified"
  /\ UNCHANGED <<stored, cmds, issued, file, conns, running, owner, hup, hupAt, hupRead,
                 bootRead, overtaken, starts, asked>>

Listening == phase \in {"notified", "booting", "running"}

(* Faulty variant: the list is applied to the masters the daemon knows, and those that  *)
(* are no longer in it are kept.                                                        *)
ApplyKeepsRemoved(ms) ==
  /\ conns' = [s \in Servers |-> IF Has(ms, s)
                 THEN [cred |-> At(ms, s).cred, stopped |-> At(ms, s).stopped,
                       pulled |-> conns[s].pulled \/ ~At(ms, s).stopped]
                 ELSE conns[s]]
  /\ running' = {s \in Servers : ~conns'[s].stopped}
  /\ owner' = FirstActive(file)

(* reconcile under runMu: the list that was read decides the connections and the loops, *)
(* a master that is started has its policy pulled,                                      *)
(* a.file decides the owner of the automation.                                          *)
Apply(ms) ==
  /\ conns' = [s \in Servers |-> IF Has(ms, s)
                 THEN [cred |-> At(ms, s).cred, stopped |-> At(ms, s).stopped,
                       pulled |-> conns[s].pulled \/ ~At(ms, s).stopped]
                 ELSE NoConn]
  /\ running' = Wanted(ms)
  /\ owner' = FirstActive(file)

BootRead ==
  /\ phase = "notified"
  /\ phase' = "booting"
  /\ bootRead' = disk
  /\ unread' = IF hupAt = "apply" THEN unread ELSE "no"
  /\ UNCHANGED <<disk, written, cmds, issued, file, conns, running, owner, hup, hupAt, hupRead,
                 overtaken, starts, asked>>

BootApply ==
  /\ phase = "booting"
  /\ phase' = "running"
  /\ Apply(bootRead)
  /\ bootRead' = <<>>
  /\ UNCHANGED <<stored, cmds, issued, file, hup, hupAt, hupRead, overtaken, starts, asked>>

HupTake ==
  /\ Listening /\ hup /\ hupAt = "wait"
  /\ hup' = FALSE /\ hupAt' = "read"
  /\ UNCHANGED <<stored, cmds, issued, phase, file, conns, running, owner, hupRead, bootRead,
                 overtaken, starts, asked>>

HupRead ==
  /\ hupAt = "read"
  /\ hupAt' = "apply" /\ hupRead' = disk /\ unread' = "no"
  /\ UNCHANGED <<disk, written, cmds, issued, phase, file, conns, running, owner, hup, bootRead,
                 overtaken, starts, asked>>

HupApply ==
  /\ hupAt = "apply"
  /\ hupAt' = "wait"
  /\ overtaken' = (phase = "booting" /\ hupRead = disk /\ bootRead # hupRead)
  /\ Apply(hupRead)
  /\ hupRead' = <<>>
  /\ UNCHANGED <<stored, cmds, issued, phase, file, hup, bootRead, starts, asked>>

(* A tick of the automation, with the policy of the owner: appendSample and          *)
(* resetSamplingBaseline save a.file, masters and all.                                *)
SaveSamples ==
  /\ Sampling /\ phase = "running"
  /\ owner # NoServer /\ conns[owner].pulled
  /\ Write(file, "untold")
  /\ UNCHANGED <<cmds, issued, daemon, starts, asked>>

(* The daemon stops or dies; the service manager starts it again. *)
Die ==
  /\ phase # "down" /\ starts < MaxStarts
  /\ Gone
  /\ UNCHANGED <<stored, cmds, issued, starts, asked>>

Command(c) == CmdSave(c) \/ CmdSaveFails(c) \/ CmdReload(c) \/ CmdUntold(c)
Boot       == LoadState \/ LoadPersist \/ Notify \/ BootRead \/ BootApply
Hup        == HupTake \/ HupRead \/ HupApply

Next ==
  \/ \E c \in Commands : \/ \E kind \in Kinds, s \in Servers : CmdRead(c, kind, s)
                         \/ Command(c)
  \/ Boot \/ Hup \/ SaveSamples \/ Die

Spec == Init /\ [][Next]_vars

(* Commands run to their end, the service manager restarts the daemon (Restart=always) *)
(* and the daemon's two goroutines are scheduled.                                      *)
FairSpec ==
  Spec /\ (\A c \in Commands : WF_vars(Command(c))) /\ WF_vars(Boot) /\ WF_vars(Hup)

-----------------------------------------------------------------------------
(* Nothing is under way between the command line and the loops. *)
Settled ==
  /\ phase = "running" /\ ~hup /\ hupAt = "wait"
  /\ \A c \in Commands : cmds[c] # Reloading

Follows(ms) ==
  /\ running = Wanted(ms)
  /\ \A s \in Wanted(ms) : conns[s].cred = At(ms, s).cred

\* Signals coalesce, commands overlap, a daemon that is starting dies of the signal: still
\* the loops that run, and the credentials they use, are those of the file once nothing is
\* under way.  The exceptions are the two the code has.  Nobody has told the daemon of a change
\* that no reconcile has read since: the reload of its command failed, or it was a save of
\* samples, which puts the list of the daemon's start back.  Or a reconcile of a signal applied
\* the file before the first reconcile, which had read an older list and not yet held runMu.
LoopsFollowFile == Settled => Follows(disk) \/ unread = "untold" \/ overtaken

\* A master that is active in the file comes to run, and one that is stopped or removed in it
\* stops, unless the file changes again or for the exceptions of LoopsFollowFile.  A start of
\* the daemon makes up for every reload that did not get through: what is active in the file
\* while there is no daemon comes to run without exception.  (Until the bound on starts.)
CommandsTakeEffect ==
  \A s \in Servers :
    LET Active == s \in Wanted(disk)
        Runs   == s \in running
        Over   == phase = "down" /\ starts = MaxStarts
    IN  /\ Active ~> Runs \/ ~Active \/ unread = "untold" \/ overtaken \/ Over
        /\ ~Active ~> ~Runs \/ Active \/ unread = "untold" \/ overtaken
        /\ Active /\ phase = "down" ~> Runs \/ ~Active \/ Over

-----------------------------------------------------------------------------
(* What comments say and the code does not do. *)

\* Reload: "the state file is already updated, so the next start picks up the change": what
\* the last successful command asked of a server is in the file.
CommandsStick == \A s \in Servers : StatusIn(disk, s) = asked[s]
=============================================================================
