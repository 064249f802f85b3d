---------------------------- MODULE TunnelProofs ----------------------------
(***************************************************************************)
(* Proofs about Tunnel, for every set of processes and goroutines and      *)
(* every threshold.  IInv is the inductive invariant; beside the           *)
(* properties it says which goroutine holds which process at which point   *)
(* of Enable and Disable, and that a process that was never started is     *)
(* known to nobody.                                                        *)
(***************************************************************************)
EXTENDS Tunnel, TLAPS

(* A goroutine holds a command exactly between Start and publish, and between take and kill. *)
HoldsWhere == \A a \in Actors : own[a] # NoProc <=> pc[a] \in {"publish", "kill"}

(* Nobody knows a process before it is started. *)
KnownAreStarted ==
  /\ cmd # NoProc => proc[cmd] # "unborn"
  /\ \A a \in Actors : own[a] # NoProc => proc[own[a]] # "unborn"

(* The cooldown tested by selfHealNeeded is still over when selfHeal starts the next one. *)
MarkIsCool == pc[Healer] = "mark" => ~cooling

(* RestoreTunnelIntent starts its goroutine once per boot. *)
BootWaits == pc[Main] = "boot" => pc[Boot] = "idle"

OwnInv == BootWaits /\ HoldsWhere /\ KnownAreStarted /\ OneOwner
ReadInv == EnabledIffCmd /\ CmdIsRead /\ LeftoversAreRead
IInv == TypeOK /\ OwnInv /\ ReadInv /\ MarkIsCool

-----------------------------------------------------------------------------
\* Disable hands control to a step that is none of Enable's or Disable's holding points.
LEMMA AfterDisablePC ==
  \A a \in Actors : AfterDisable(a) \in {"persistOff", "check", "sleep", "return"}
BY DEF AfterDisable

\* The initial state has the right types and satisfies the invariant.
LEMMA InitIInv == Init => IInv
<1> SUFFICES ASSUME Init PROVE IInv
  OBVIOUS
<1> USE DEF Init
<1>1. TypeOK
  <2>1. pc \in [Actors -> PCs] /\ op \in [Actors -> Ops] /\ own \in [Actors -> Procs \cup {NoProc}]
    BY DEF Actors, PCs, Ops
  <2>2. lines \in [Procs -> Seq(Lines)]
    OBVIOUS
  <2> QED
    BY <2>1, <2>2 DEF TypeOK, ManagerOK, ThreadsOK, WorldOK, LinesOK, StoredOK
<1>2. OwnInv
  BY ActorsAssumption DEF OwnInv, BootWaits, HoldsWhere, KnownAreStarted, OneOwner, Actors
<1>3. ReadInv
  BY DEF ReadInv, EnabledIffCmd, CmdIsRead, LeftoversAreRead
<1>4. MarkIsCool
  BY DEF MarkIsCool
<1> QED
  BY <1>1, <1>2, <1>3, <1>4 DEF IInv

-----------------------------------------------------------------------------
(* One lemma per part of the type invariant: one step per action that writes the part. *)

\* The fields of TunnelManager keep their types.
LEMMA ManagerStep == TypeOK /\ [Next]_vars => ManagerOK'
<1> SUFFICES ASSUME TypeOK, [Next]_vars PROVE ManagerOK'
  OBVIOUS
<1>1. ASSUME NEW a \in Actors, EnablePublish(a) PROVE ManagerOK'
  <2>1. own[a] \in Procs \cup {NoProc}
    BY DEF TypeOK, ThreadsOK
  <2> QED
    BY <1>1, <2>1 DEF EnablePublish, TypeOK, ManagerOK
<1>2. ASSUME NEW a \in Actors, DisableTake(a) PROVE ManagerOK'
  BY <1>2
     DEF DisableTake, Goto, TypeOK, ManagerOK, manager
<1>3. CASE HealSteps
  BY <1>3
     DEF HealSteps, HealCheck, HealMark, HealWake, HealNeeded, Goto, Begin,
         TypeOK, ManagerOK, manager
<1>4. CASE CooldownElapses
  BY <1>4
     DEF CooldownElapses, TypeOK, ManagerOK, manager
<1>5. CASE Exit
  <2>1. FreshMemory
    BY <1>5 DEF Exit, Halt
  <2> QED
    BY <2>1 DEF FreshMemory, ManagerOK
<1>6. CASE Restart \/ Crash
  <2>1. FreshMemory
    BY <1>6 DEF Restart, Crash, Halt
  <2> QED
    BY <2>1 DEF FreshMemory, ManagerOK
<1>7. ASSUME NEW p \in Procs, ScanLine(p) PROVE ManagerOK'
  BY <1>7
     DEF ScanLine, TypeOK, ManagerOK, manager
<1>8. ASSUME NEW p \in Procs, ScanEnd(p) PROVE ManagerOK'
  BY <1>8
     DEF ScanEnd, TypeOK, ManagerOK, manager
<1>9. CASE UNCHANGED <<manager, cooling>>
  BY <1>9 DEF TypeOK, ManagerOK, manager, manager, threads, world, bounds
<1> QED
  BY <1>1, <1>2, <1>3, <1>4, <1>5, <1>6, <1>7, <1>8, <1>9
     DEF Next, EnableSteps, DisableSteps, Scanner, vars, manager, threads, world,
         bounds, Requests, RequestEnable, RequestDisable, RequestApply, Request, Begin,
         HandlerSteps, PersistOn, PersistOff, Snapshot, Goto, EnableCheck,
         EnableLaunch, EnableFail, DisableKill, Restore, Signal, Shutdown, ProcExits,
         EdgeDrops, PrintUrl, PrintRegistered, PrintNotFound, Say

\* Goroutines stay at known points of known calls.
LEMMA ThreadsStep == TypeOK /\ [Next]_vars => ThreadsOK'
<1> SUFFICES ASSUME TypeOK, [Next]_vars PROVE ThreadsOK'
  OBVIOUS
<1>1. ASSUME NEW a \in Panel, Requests(a) PROVE ThreadsOK'
  BY <1>1
     DEF Requests, RequestEnable, RequestDisable, RequestApply, Request,
         Begin, TypeOK, ManagerOK, ThreadsOK, PCs, Ops, Actors
<1>2. ASSUME NEW a \in Panel, HandlerSteps(a) PROVE ThreadsOK'
  BY <1>2
     DEF HandlerSteps, PersistOn, PersistOff, Snapshot, Goto, TypeOK,
         ManagerOK, ThreadsOK, PCs, Ops, Actors
<1>3. ASSUME NEW a \in Actors, EnableCheck(a) PROVE ThreadsOK'
  BY <1>3
     DEF EnableCheck, Goto, TypeOK, ManagerOK, ThreadsOK, PCs, Ops, Actors
<1>4. ASSUME NEW a \in Actors, NEW p \in Procs, EnableLaunch(a, p) PROVE ThreadsOK'
  BY <1>4
     DEF EnableLaunch, Goto, TypeOK, ManagerOK, ThreadsOK, PCs, Ops, Actors
<1>5. ASSUME NEW a \in Actors, EnableFail(a) PROVE ThreadsOK'
  BY <1>5
     DEF EnableFail, Goto, TypeOK, ManagerOK, ThreadsOK, PCs, Ops, Actors
<1>6. ASSUME NEW a \in Actors, EnablePublish(a) PROVE ThreadsOK'
  BY <1>6
     DEF EnablePublish, Goto, TypeOK, ManagerOK, ThreadsOK, PCs, Ops, Actors
<1>7. ASSUME NEW a \in Actors, DisableTake(a) PROVE ThreadsOK'
  BY <1>7, AfterDisablePC
     DEF DisableTake, Goto, TypeOK, ManagerOK, ThreadsOK,
         PCs, Ops, Actors
<1>8. ASSUME NEW a \in Actors, DisableKill(a) PROVE ThreadsOK'
  BY <1>8, AfterDisablePC
     DEF DisableKill, Goto, TypeOK, ManagerOK, ThreadsOK,
         PCs, Ops, Actors
<1>9. CASE HealSteps
  BY <1>9
     DEF HealSteps, HealCheck, HealMark, HealWake, HealNeeded, Goto, Begin,
         TypeOK, ManagerOK, ThreadsOK, PCs, Ops, Actors
<1>10. CASE Restore
  BY <1>10
     DEF Restore, TypeOK, ManagerOK, ThreadsOK, PCs, Ops, Actors
<1>11. CASE Signal \/ Shutdown
  BY <1>11
     DEF Signal, Shutdown, Goto, Begin, TypeOK, ManagerOK, ThreadsOK, PCs,
         Ops, Actors
<1>12. CASE Exit
  BY <1>12
     DEF Exit, Halt, FreshMemory, TypeOK, ManagerOK, ThreadsOK, PCs, Ops,
         Actors
<1>13. CASE Restart \/ Crash
  BY <1>13
     DEF Restart, Crash, Halt, FreshMemory, Reap, TypeOK, ManagerOK,
         ThreadsOK, PCs, Ops, Actors
<1>14. CASE UNCHANGED threads
  BY <1>14 DEF TypeOK, ManagerOK, ThreadsOK, PCs, Ops, Actors, manager, threads, world,
         bounds
<1> QED
  BY <1>1, <1>2, <1>3, <1>4, <1>5, <1>6, <1>7, <1>8, <1>9, <1>10, <1>11, <1>12, <1>13,
     <1>14
     DEF Next, EnableSteps, DisableSteps, Scanner, vars, manager, threads, world,
         bounds, CooldownElapses, ScanLine, ScanEnd, ProcExits, EdgeDrops, PrintUrl,
         PrintRegistered, PrintNotFound, Say

\* Processes, scanners and tunnels stay in known states.
LEMMA WorldStep == TypeOK /\ [Next]_vars => WorldOK'
<1> SUFFICES ASSUME TypeOK, [Next]_vars PROVE WorldOK'
  OBVIOUS
<1>1. ASSUME NEW a \in Actors, NEW p \in Procs, EnableLaunch(a, p) PROVE WorldOK'
  BY <1>1
     DEF EnableLaunch, Goto, TypeOK, WorldOK
<1>2. ASSUME NEW a \in Actors, EnablePublish(a) PROVE WorldOK'
  BY <1>2
     DEF EnablePublish, Goto, TypeOK, WorldOK
<1>3. ASSUME NEW a \in Actors, DisableKill(a) PROVE WorldOK'
  BY <1>3
     DEF DisableKill, Goto, TypeOK, WorldOK
<1>4. CASE Exit
  BY <1>4
     DEF Exit, Halt, FreshMemory, TypeOK, WorldOK
<1>5. CASE Restart \/ Crash
  BY <1>5
     DEF Restart, Crash, Halt, FreshMemory, Reap, TypeOK, WorldOK
<1>6. ASSUME NEW p \in Procs, ScanEnd(p) PROVE WorldOK'
  BY <1>6
     DEF ScanEnd, TypeOK, WorldOK
<1>7. ASSUME NEW p \in Procs, ProcExits(p) PROVE WorldOK'
  BY <1>7
     DEF ProcExits, TypeOK, WorldOK
<1>8. ASSUME NEW p \in Procs, EdgeDrops(p) PROVE WorldOK'
  BY <1>8
     DEF EdgeDrops, TypeOK, WorldOK
<1>9. ASSUME NEW p \in Procs, PrintUrl(p) \/ PrintRegistered(p) \/ PrintNotFound(p) PROVE WorldOK'
  BY <1>9
     DEF PrintUrl, PrintRegistered, PrintNotFound, Say, TypeOK, WorldOK
<1>10. CASE UNCHANGED <<proc, reader, edge>>
  BY <1>10 DEF TypeOK, WorldOK, manager, threads, world, bounds
<1> QED
  BY <1>1, <1>2, <1>3, <1>4, <1>5, <1>6, <1>7, <1>8, <1>9, <1>10
     DEF Next, EnableSteps, DisableSteps, Scanner, vars, manager, threads, world,
         bounds, Requests, RequestEnable, RequestDisable, RequestApply, Request, Begin,
         HandlerSteps, PersistOn, PersistOff, Snapshot, Goto, EnableCheck, EnableFail,
         DisableTake, HealSteps, HealCheck, HealMark, HealWake, HealNeeded,
         CooldownElapses, Restore, Signal, Shutdown, ScanLine

\* What a process has printed is a sequence of lines.
LEMMA LinesStep == TypeOK /\ [Next]_vars => LinesOK'
<1> SUFFICES ASSUME TypeOK, [Next]_vars PROVE LinesOK'
  OBVIOUS
<1>1. ASSUME NEW a \in Actors, DisableKill(a) PROVE LinesOK'
  <2>1. own[a] \in Procs => lines[own[a]] \in Seq(Lines) /\ <<>> \in Seq(Lines)
    BY DEF TypeOK, LinesOK
  <2>2. PICK rest \in {lines[own[a]], <<>>} : lines' = [lines EXCEPT ![own[a]] = rest]
    BY <1>1 DEF DisableKill
  <2> QED
    BY <2>1, <2>2 DEF TypeOK, LinesOK
<1>2. CASE Restart \/ Crash
  <2>1. lines' = [p \in Procs |-> <<>>]
    BY <1>2 DEF Restart, Crash, Reap
  <2> QED
    BY <2>1 DEF LinesOK
<1>3. ASSUME NEW p \in Procs, ScanLine(p) PROVE LinesOK'
  <2>1. lines[p] \in Seq(Lines) /\ lines[p] # <<>>
    BY <1>3 DEF ScanLine, TypeOK, LinesOK
  <2>2. Tail(lines[p]) \in Seq(Lines)
    BY <2>1
  <2> QED
    BY <1>3, <2>2 DEF ScanLine, TypeOK, LinesOK
<1>4. ASSUME NEW p \in Procs, PrintUrl(p) \/ PrintRegistered(p) \/ PrintNotFound(p) PROVE LinesOK'
  <2>1. PICK line \in Lines : lines' = [lines EXCEPT ![p] = Append(@, line)]
    BY <1>4 DEF PrintUrl, PrintRegistered, PrintNotFound, Say, Lines
  <2>2. Append(lines[p], line) \in Seq(Lines)
    BY DEF TypeOK, LinesOK
  <2> QED
    BY <2>1, <2>2 DEF TypeOK, LinesOK
<1>5. CASE UNCHANGED lines
  BY <1>5 DEF TypeOK, LinesOK, manager, threads, world, bounds
<1> QED
  BY <1>1, <1>2, <1>3, <1>4, <1>5
     DEF Next, EnableSteps, DisableSteps, Scanner, vars, manager, threads, world,
         bounds, Requests, RequestEnable, RequestDisable, RequestApply, Request, Begin,
         HandlerSteps, PersistOn, PersistOff, Snapshot, Goto, EnableCheck,
         EnableLaunch, EnableFail, EnablePublish, DisableTake, HealSteps, HealCheck,
         HealMark, HealWake, HealNeeded, CooldownElapses, Restore, Signal, Shutdown,
         Exit, Halt, FreshMemory, ScanEnd, ProcExits, EdgeDrops

\* The persisted intent and the bounds keep their types.
LEMMA StoredStep == TypeOK /\ [Next]_vars => StoredOK'
<1> SUFFICES ASSUME TypeOK, [Next]_vars PROVE StoredOK'
  OBVIOUS
<1>1. ASSUME NEW a \in Panel, Requests(a) PROVE StoredOK'
  BY <1>1
     DEF Requests, RequestEnable, RequestDisable, RequestApply, Request,
         Begin, TypeOK, StoredOK, bounds
<1>2. ASSUME NEW a \in Panel, HandlerSteps(a) PROVE StoredOK'
  BY <1>2
     DEF HandlerSteps, PersistOn, PersistOff, Snapshot, Goto, TypeOK,
         StoredOK, bounds
<1>3. CASE Exit
  BY <1>3
     DEF Exit, Halt, FreshMemory, TypeOK, StoredOK, bounds
<1>4. CASE Restart \/ Crash
  BY <1>4
     DEF Restart, Crash, Halt, FreshMemory, Reap, TypeOK, StoredOK, bounds
<1>5. CASE UNCHANGED <<intent, ops, boots>>
  BY <1>5 DEF TypeOK, StoredOK, bounds, manager, threads, world, bounds
<1> QED
  BY <1>1, <1>2, <1>3, <1>4, <1>5
     DEF Next, EnableSteps, DisableSteps, Scanner, vars, manager, threads, world,
         bounds, EnableCheck, Goto, EnableLaunch, EnableFail, EnablePublish,
         DisableTake, DisableKill, HealSteps, HealCheck, HealMark, HealWake,
         HealNeeded, Begin, CooldownElapses, Restore, Signal, Shutdown, ScanLine,
         ScanEnd, ProcExits, EdgeDrops, PrintUrl, PrintRegistered, PrintNotFound, Say

\* Every step keeps the types of all variables.
LEMMA TypeStep == TypeOK /\ [Next]_vars => TypeOK'
BY ManagerStep, ThreadsStep, WorldStep, LinesStep, StoredStep DEF TypeOK

-----------------------------------------------------------------------------
(* The parts of OwnInv: who holds which process. *)

\* Nothing moves the boot goroutine before Restore does.
LEMMA BootWaitsStep == TypeOK /\ BootWaits /\ [Next]_vars => BootWaits'
<1> SUFFICES ASSUME TypeOK /\ BootWaits, [Next]_vars PROVE BootWaits'
  OBVIOUS
<1>1. ASSUME NEW a \in Panel, Requests(a) PROVE BootWaits'
  BY <1>1, ActorsAssumption
     DEF Requests, RequestEnable, RequestDisable,
         RequestApply, Request, Begin, TypeOK, ThreadsOK, BootWaits, Actors
<1>2. ASSUME NEW a \in Panel, HandlerSteps(a) PROVE BootWaits'
  BY <1>2, ActorsAssumption
     DEF HandlerSteps, PersistOn, PersistOff, Snapshot,
         Goto, TypeOK, ThreadsOK, BootWaits, Actors
<1>3. ASSUME NEW a \in Actors, EnableCheck(a) PROVE BootWaits'
  BY <1>3, ActorsAssumption
     DEF EnableCheck, Goto, TypeOK, ThreadsOK, BootWaits,
         Actors
<1>4. ASSUME NEW a \in Actors, NEW p \in Procs, EnableLaunch(a, p) PROVE BootWaits'
  BY <1>4, ActorsAssumption
     DEF EnableLaunch, Goto, TypeOK, ThreadsOK, BootWaits,
         Actors
<1>5. ASSUME NEW a \in Actors, EnableFail(a) PROVE BootWaits'
  BY <1>5, ActorsAssumption
     DEF EnableFail, Goto, TypeOK, ThreadsOK, BootWaits,
         Actors
<1>6. ASSUME NEW a \in Actors, EnablePublish(a) PROVE BootWaits'
  BY <1>6, ActorsAssumption
     DEF EnablePublish, Goto, TypeOK, ThreadsOK, BootWaits,
         Actors
<1>7. ASSUME NEW a \in Actors, DisableTake(a) PROVE BootWaits'
  BY <1>7, ActorsAssumption, AfterDisablePC
     DEF DisableTake, Goto, TypeOK,
         ThreadsOK, BootWaits, Actors
<1>8. ASSUME NEW a \in Actors, DisableKill(a) PROVE BootWaits'
  BY <1>8, ActorsAssumption, AfterDisablePC
     DEF DisableKill, Goto, TypeOK,
         ThreadsOK, BootWaits, Actors
<1>9. CASE HealSteps
  BY <1>9, ActorsAssumption
     DEF HealSteps, HealCheck, HealMark, HealWake,
         HealNeeded, Goto, Begin, TypeOK, ThreadsOK, BootWaits, Actors
<1>10. CASE Restore
  BY <1>10, ActorsAssumption
     DEF Restore, TypeOK, ThreadsOK, BootWaits, Actors
<1>11. CASE Signal \/ Shutdown
  BY <1>11, ActorsAssumption
     DEF Signal, Shutdown, Goto, Begin, TypeOK, ThreadsOK,
         BootWaits, Actors
<1>12. CASE Exit
  BY <1>12, ActorsAssumption
     DEF Exit, Halt, FreshMemory, TypeOK, ThreadsOK,
         BootWaits, Actors
<1>13. CASE Restart \/ Crash
  BY <1>13, ActorsAssumption
     DEF Restart, Crash, Halt, FreshMemory, Reap, TypeOK,
         ThreadsOK, BootWaits, Actors
<1>14. CASE UNCHANGED threads
  BY <1>14, ActorsAssumption DEF TypeOK, ThreadsOK, BootWaits, Actors, manager,
         threads, world, bounds
<1> QED
  BY <1>1, <1>2, <1>3, <1>4, <1>5, <1>6, <1>7, <1>8, <1>9, <1>10, <1>11, <1>12, <1>13,
     <1>14
     DEF Next, EnableSteps, DisableSteps, Scanner, vars, manager, threads, world,
         bounds, CooldownElapses, ScanLine, ScanEnd, ProcExits, EdgeDrops, PrintUrl,
         PrintRegistered, PrintNotFound, Say

\* A goroutine holds a command exactly while Enable or Disable is between its two steps.
LEMMA HoldsWhereStep == TypeOK /\ BootWaits /\ HoldsWhere /\ [Next]_vars => HoldsWhere'
<1> SUFFICES ASSUME TypeOK /\ BootWaits /\ HoldsWhere, [Next]_vars PROVE HoldsWhere'
  OBVIOUS
<1>1. ASSUME NEW a \in Panel, Requests(a) PROVE HoldsWhere'
  BY <1>1, NoProcAssumption
     DEF Requests, RequestEnable, RequestDisable,
         RequestApply, Request, Begin, TypeOK, ThreadsOK, ManagerOK, BootWaits,
         HoldsWhere, Actors
<1>2. ASSUME NEW a \in Panel, HandlerSteps(a) PROVE HoldsWhere'
  BY <1>2, NoProcAssumption
     DEF HandlerSteps, PersistOn, PersistOff, Snapshot,
         Goto, TypeOK, ThreadsOK, ManagerOK, BootWaits, HoldsWhere, Actors
<1>3. ASSUME NEW a \in Actors, EnableCheck(a) PROVE HoldsWhere'
  BY <1>3, NoProcAssumption
     DEF EnableCheck, Goto, TypeOK, ThreadsOK, ManagerOK,
         BootWaits, HoldsWhere, Actors
<1>4. ASSUME NEW a \in Actors, NEW p \in Procs, EnableLaunch(a, p) PROVE HoldsWhere'
  BY <1>4, NoProcAssumption
     DEF EnableLaunch, Goto, TypeOK, ThreadsOK, ManagerOK,
         BootWaits, HoldsWhere, Actors
<1>5. ASSUME NEW a \in Actors, EnableFail(a) PROVE HoldsWhere'
  BY <1>5, NoProcAssumption
     DEF EnableFail, Goto, TypeOK, ThreadsOK, ManagerOK,
         BootWaits, HoldsWhere, Actors
<1>6. ASSUME NEW a \in Actors, EnablePublish(a) PROVE HoldsWhere'
  BY <1>6, NoProcAssumption
     DEF EnablePublish, Goto, TypeOK, ThreadsOK, ManagerOK,
         BootWaits, HoldsWhere, Actors
<1>7. ASSUME NEW a \in Actors, DisableTake(a) PROVE HoldsWhere'
  BY <1>7, NoProcAssumption, AfterDisablePC
     DEF DisableTake, Goto, TypeOK,
         ThreadsOK, ManagerOK, BootWaits, HoldsWhere, Actors
<1>8. ASSUME NEW a \in Actors, DisableKill(a) PROVE HoldsWhere'
  BY <1>8, NoProcAssumption, AfterDisablePC
     DEF DisableKill, Goto, TypeOK,
         ThreadsOK, ManagerOK, BootWaits, HoldsWhere, Actors
<1>9. CASE HealSteps
  BY <1>9, NoProcAssumption
     DEF HealSteps, HealCheck, HealMark, HealWake,
         HealNeeded, Goto, Begin, TypeOK, ThreadsOK, ManagerOK, BootWaits, HoldsWhere,
         Actors
<1>10. CASE Restore
  BY <1>10, NoProcAssumption
     DEF Restore, TypeOK, ThreadsOK, ManagerOK, BootWaits,
         HoldsWhere, Actors
<1>11. CASE Signal \/ Shutdown
  BY <1>11, NoProcAssumption
     DEF Signal, Shutdown, Goto, Begin, TypeOK, ThreadsOK,
         ManagerOK, BootWaits, HoldsWhere, Actors
<1>12. CASE Exit
  BY <1>12, NoProcAssumption
     DEF Exit, Halt, FreshMemory, TypeOK, ThreadsOK,
         ManagerOK, BootWaits, HoldsWhere, Actors
<1>13. CASE Restart \/ Crash
  <2>1. /\ own' = [a \in Actors |-> NoProc]
        /\ pc' = [a \in Actors |-> IF a = Main THEN "boot" ELSE "idle"]
    BY <1>13 DEF Restart, Crash, Halt
  <2> QED
    BY <2>1 DEF HoldsWhere
<1>14. CASE UNCHANGED threads
  BY <1>14, NoProcAssumption DEF TypeOK, ThreadsOK, ManagerOK, BootWaits, HoldsWhere,
         Actors, manager, threads, world, bounds
<1> QED
  BY <1>1, <1>2, <1>3, <1>4, <1>5, <1>6, <1>7, <1>8, <1>9, <1>10, <1>11, <1>12, <1>13,
     <1>14
     DEF Next, EnableSteps, DisableSteps, Scanner, vars, manager, threads, world,
         bounds, CooldownElapses, ScanLine, ScanEnd, ProcExits, EdgeDrops, PrintUrl,
         PrintRegistered, PrintNotFound, Say

\* Processes known to the manager or to a goroutine have been started.
LEMMA KnownStep == TypeOK /\ HoldsWhere /\ KnownAreStarted /\ [Next]_vars => KnownAreStarted'
<1> SUFFICES ASSUME TypeOK /\ HoldsWhere /\ KnownAreStarted, [Next]_vars PROVE KnownAreStarted'
  OBVIOUS
<1>1. ASSUME NEW a \in Actors, NEW p \in Procs, EnableLaunch(a, p) PROVE KnownAreStarted'
  <2>1. /\ own' = [own EXCEPT ![a] = p] /\ cmd' = cmd
        /\ proc' = [proc EXCEPT ![p] = "running"]
    BY <1>1 DEF EnableLaunch, manager
  <2>2. own \in [Actors -> Procs \cup {NoProc}] /\ cmd \in Procs \cup {NoProc}
        /\ proc \in [Procs -> {"unborn", "running", "exited"}]
    BY DEF TypeOK, ManagerOK, ThreadsOK, WorldOK
  <2> QED
    BY <2>1, <2>2, NoProcAssumption DEF KnownAreStarted
<1>2. ASSUME NEW a \in Actors, EnablePublish(a) PROVE KnownAreStarted'
  <2>1. /\ own' = [own EXCEPT ![a] = NoProc] /\ cmd' = own[a]
        /\ proc' = proc
    BY <1>2 DEF EnablePublish
  <2>2. own \in [Actors -> Procs \cup {NoProc}] /\ cmd \in Procs \cup {NoProc}
        /\ proc \in [Procs -> {"unborn", "running", "exited"}]
    BY DEF TypeOK, ManagerOK, ThreadsOK, WorldOK
  <2> QED
    BY <2>1, <2>2, NoProcAssumption DEF KnownAreStarted
<1>3. ASSUME NEW a \in Actors, DisableTake(a) PROVE KnownAreStarted'
  <2>1. /\ own' = [own EXCEPT ![a] = cmd] /\ cmd' = NoProc
        /\ proc' = proc
    BY <1>3 DEF DisableTake, world
  <2>2. own \in [Actors -> Procs \cup {NoProc}] /\ cmd \in Procs \cup {NoProc}
        /\ proc \in [Procs -> {"unborn", "running", "exited"}]
    BY DEF TypeOK, ManagerOK, ThreadsOK, WorldOK
  <2> QED
    BY <2>1, <2>2, NoProcAssumption DEF KnownAreStarted
<1>4. ASSUME NEW a \in Actors, DisableKill(a) PROVE KnownAreStarted'
  <2>1. /\ own' = [own EXCEPT ![a] = NoProc] /\ cmd' = cmd
        /\ proc' = [proc EXCEPT ![own[a]] = "exited"]
    BY <1>4 DEF DisableKill, manager
  <2>2. own \in [Actors -> Procs \cup {NoProc}] /\ cmd \in Procs \cup {NoProc}
        /\ proc \in [Procs -> {"unborn", "running", "exited"}]
    BY DEF TypeOK, ManagerOK, ThreadsOK, WorldOK
  <2> QED
    BY <2>1, <2>2, NoProcAssumption DEF KnownAreStarted
<1>5. CASE Exit
  BY <1>5, NoProcAssumption
     DEF Exit, Halt, FreshMemory, TypeOK, ThreadsOK,
         WorldOK, HoldsWhere, KnownAreStarted
<1>6. CASE Restart \/ Crash
  <2>1. own' = [b \in Actors |-> NoProc] /\ cmd' = NoProc
    BY <1>6 DEF Restart, Crash, Halt, FreshMemory
  <2>2. own \in [Actors -> Procs \cup {NoProc}] /\ cmd \in Procs \cup {NoProc}
        /\ proc \in [Procs -> {"unborn", "running", "exited"}]
    BY DEF TypeOK, ManagerOK, ThreadsOK, WorldOK
  <2> QED
    BY <2>1, <2>2, NoProcAssumption DEF KnownAreStarted
<1>7. ASSUME NEW p \in Procs, ScanEnd(p) PROVE KnownAreStarted'
  <2>1. /\ own' = own /\ cmd' = NoProc
        /\ proc' = proc
    BY <1>7 DEF ScanEnd, threads
  <2>2. own \in [Actors -> Procs \cup {NoProc}] /\ cmd \in Procs \cup {NoProc}
        /\ proc \in [Procs -> {"unborn", "running", "exited"}]
    BY DEF TypeOK, ManagerOK, ThreadsOK, WorldOK
  <2> QED
    BY <2>1, <2>2, NoProcAssumption DEF KnownAreStarted
<1>8. ASSUME NEW p \in Procs, ProcExits(p) PROVE KnownAreStarted'
  <2>1. /\ own' = own /\ cmd' = cmd
        /\ proc' = [proc EXCEPT ![p] = "exited"]
    BY <1>8 DEF ProcExits, manager, threads
  <2>2. own \in [Actors -> Procs \cup {NoProc}] /\ cmd \in Procs \cup {NoProc}
        /\ proc \in [Procs -> {"unborn", "running", "exited"}]
    BY DEF TypeOK, ManagerOK, ThreadsOK, WorldOK
  <2> QED
    BY <2>1, <2>2, NoProcAssumption DEF KnownAreStarted
<1>9. CASE UNCHANGED <<cmd, own, proc>>
  BY <1>9, NoProcAssumption DEF TypeOK, ThreadsOK, WorldOK, HoldsWhere,
         KnownAreStarted, manager, threads, world, bounds
<1> QED
  BY <1>1, <1>2, <1>3, <1>4, <1>5, <1>6, <1>7, <1>8, <1>9
     DEF Next, EnableSteps, DisableSteps, Scanner, vars, manager, threads, world,
         bounds, Requests, RequestEnable, RequestDisable, RequestApply, Request, Begin,
         HandlerSteps, PersistOn, PersistOff, Snapshot, Goto, EnableCheck, EnableFail,
         HealSteps, HealCheck, HealMark, HealWake, HealNeeded, CooldownElapses,
         Restore, Signal, Shutdown, ScanLine, EdgeDrops, PrintUrl, PrintRegistered,
         PrintNotFound, Say

\* No process gets a second owner.
LEMMA OneOwnerStep == TypeOK /\ OwnInv /\ [Next]_vars => OneOwner'
<1> SUFFICES ASSUME TypeOK /\ OwnInv, [Next]_vars PROVE OneOwner'
  OBVIOUS
<1>1. ASSUME NEW a \in Actors, NEW p \in Procs, EnableLaunch(a, p) PROVE OneOwner'
  <2>1. /\ own' = [own EXCEPT ![a] = p] /\ cmd' = cmd
        /\ proc[p] = "unborn"
    BY <1>1 DEF EnableLaunch, manager
  <2>2. own \in [Actors -> Procs \cup {NoProc}] /\ cmd \in Procs \cup {NoProc}
        /\ proc \in [Procs -> {"unborn", "running", "exited"}]
    BY DEF TypeOK, ManagerOK, ThreadsOK, WorldOK
  <2> QED
    BY <2>1, <2>2, NoProcAssumption DEF OwnInv, KnownAreStarted, OneOwner
<1>2. ASSUME NEW a \in Actors, EnablePublish(a) PROVE OneOwner'
  <2>1. /\ own' = [own EXCEPT ![a] = NoProc] /\ cmd' = own[a]
        /\ own[a] # NoProc
    BY <1>2 DEF EnablePublish, Goto, OwnInv, HoldsWhere
  <2>2. own \in [Actors -> Procs \cup {NoProc}] /\ cmd \in Procs \cup {NoProc}
    BY DEF TypeOK, ManagerOK, ThreadsOK, WorldOK
  <2> QED
    BY <2>1, <2>2, NoProcAssumption DEF OwnInv, OneOwner
<1>3. ASSUME NEW a \in Actors, DisableTake(a) PROVE OneOwner'
  <2>1. /\ own' = [own EXCEPT ![a] = cmd] /\ cmd' = NoProc
    BY <1>3 DEF DisableTake
  <2>2. own \in [Actors -> Procs \cup {NoProc}] /\ cmd \in Procs \cup {NoProc}
    BY DEF TypeOK, ManagerOK, ThreadsOK, WorldOK
  <2> QED
    BY <2>1, <2>2, NoProcAssumption DEF OwnInv, OneOwner
<1>4. ASSUME NEW a \in Actors, DisableKill(a) PROVE OneOwner'
  <2>1. /\ own' = [own EXCEPT ![a] = NoProc] /\ cmd' = cmd
    BY <1>4 DEF DisableKill, manager
  <2>2. own \in [Actors -> Procs \cup {NoProc}] /\ cmd \in Procs \cup {NoProc}
    BY DEF TypeOK, ManagerOK, ThreadsOK, WorldOK
  <2> QED
    BY <2>1, <2>2, NoProcAssumption DEF OwnInv, OneOwner
<1>5. CASE Exit
  BY <1>5, NoProcAssumption
     DEF Exit, Halt, FreshMemory, TypeOK, ThreadsOK,
         ManagerOK, WorldOK, OwnInv, HoldsWhere, KnownAreStarted, OneOwner
<1>6. CASE Restart \/ Crash
  <2>1. own' = [b \in Actors |-> NoProc]
    BY <1>6 DEF Restart, Crash, Halt
  <2>2. own \in [Actors -> Procs \cup {NoProc}] /\ cmd \in Procs \cup {NoProc}
    BY DEF TypeOK, ManagerOK, ThreadsOK, WorldOK
  <2> QED
    BY <2>1, <2>2, NoProcAssumption DEF OneOwner
<1>7. ASSUME NEW p \in Procs, ScanEnd(p) PROVE OneOwner'
  <2>1. own' = own /\ cmd' = NoProc
    BY <1>7 DEF ScanEnd, threads
  <2>2. own \in [Actors -> Procs \cup {NoProc}] /\ cmd \in Procs \cup {NoProc}
    BY DEF TypeOK, ManagerOK, ThreadsOK, WorldOK
  <2> QED
    BY <2>1, <2>2, NoProcAssumption DEF OwnInv, OneOwner
<1>8. CASE UNCHANGED <<cmd, own>>
  BY <1>8, NoProcAssumption DEF TypeOK, ThreadsOK, ManagerOK, WorldOK, OwnInv,
         HoldsWhere, KnownAreStarted, OneOwner, manager, threads, world, bounds
<1> QED
  BY <1>1, <1>2, <1>3, <1>4, <1>5, <1>6, <1>7, <1>8
     DEF Next, EnableSteps, DisableSteps, Scanner, vars, manager, threads, world,
         bounds, Requests, RequestEnable, RequestDisable, RequestApply, Request, Begin,
         HandlerSteps, PersistOn, PersistOff, Snapshot, Goto, EnableCheck, EnableFail,
         HealSteps, HealCheck, HealMark, HealWake, HealNeeded, CooldownElapses,
         Restore, Signal, Shutdown, ScanLine, ProcExits, EdgeDrops, PrintUrl,
         PrintRegistered, PrintNotFound, Say

-----------------------------------------------------------------------------
(* The parts of ReadInv: what the manager shows has a scanner. *)

\* The tunnel is shown as up exactly while there is a command.
LEMMA EnabledIffCmdStep == TypeOK /\ OwnInv /\ EnabledIffCmd /\ [Next]_vars => EnabledIffCmd'
<1> SUFFICES ASSUME TypeOK /\ OwnInv /\ EnabledIffCmd, [Next]_vars PROVE EnabledIffCmd'
  OBVIOUS
<1>1. ASSUME NEW a \in Actors, EnablePublish(a) PROVE EnabledIffCmd'
  BY <1>1, NoProcAssumption
     DEF EnablePublish, Goto, TypeOK, ThreadsOK, OwnInv,
         HoldsWhere, EnabledIffCmd
<1>2. ASSUME NEW a \in Actors, DisableTake(a) PROVE EnabledIffCmd'
  BY <1>2, NoProcAssumption
     DEF DisableTake, Goto, TypeOK, ThreadsOK, OwnInv,
         HoldsWhere, EnabledIffCmd
<1>3. CASE Exit
  BY <1>3, NoProcAssumption
     DEF Exit, Halt, FreshMemory, TypeOK, ThreadsOK,
         OwnInv, HoldsWhere, EnabledIffCmd
<1>4. CASE Restart \/ Crash
  BY <1>4, NoProcAssumption
     DEF Restart, Crash, Halt, FreshMemory, Reap, TypeOK,
         ThreadsOK, OwnInv, HoldsWhere, EnabledIffCmd
<1>5. ASSUME NEW p \in Procs, ScanEnd(p) PROVE EnabledIffCmd'
  BY <1>5, NoProcAssumption
     DEF ScanEnd, TypeOK, ThreadsOK, OwnInv, HoldsWhere,
         EnabledIffCmd
<1>6. CASE UNCHANGED <<enabled, cmd>>
  BY <1>6, NoProcAssumption DEF TypeOK, ThreadsOK, OwnInv, HoldsWhere, EnabledIffCmd,
         manager, threads, world, bounds
<1> QED
  BY <1>1, <1>2, <1>3, <1>4, <1>5, <1>6
     DEF Next, EnableSteps, DisableSteps, Scanner, vars, manager, threads, world,
         bounds, Requests, RequestEnable, RequestDisable, RequestApply, Request, Begin,
         HandlerSteps, PersistOn, PersistOff, Snapshot, Goto, EnableCheck,
         EnableLaunch, EnableFail, DisableKill, HealSteps, HealCheck, HealMark,
         HealWake, HealNeeded, CooldownElapses, Restore, Signal, Shutdown, ScanLine,
         ProcExits, EdgeDrops, PrintUrl, PrintRegistered, PrintNotFound, Say

\* The current command has a scanner.
LEMMA CmdIsReadStep == TypeOK /\ OwnInv /\ CmdIsRead /\ [Next]_vars => CmdIsRead'
<1> SUFFICES ASSUME TypeOK /\ OwnInv /\ CmdIsRead, [Next]_vars PROVE CmdIsRead'
  OBVIOUS
<1>1. ASSUME NEW a \in Actors, EnablePublish(a) PROVE CmdIsRead'
  BY <1>1, NoProcAssumption
     DEF EnablePublish, Goto, TypeOK, ThreadsOK, WorldOK,
         OwnInv, HoldsWhere, CmdIsRead
<1>2. ASSUME NEW a \in Actors, DisableTake(a) PROVE CmdIsRead'
  BY <1>2, NoProcAssumption
     DEF DisableTake, Goto, TypeOK, ThreadsOK, WorldOK,
         OwnInv, HoldsWhere, CmdIsRead
<1>3. CASE Exit
  BY <1>3, NoProcAssumption
     DEF Exit, Halt, FreshMemory, TypeOK, ThreadsOK,
         WorldOK, OwnInv, HoldsWhere, CmdIsRead
<1>4. CASE Restart \/ Crash
  BY <1>4, NoProcAssumption
     DEF Restart, Crash, Halt, FreshMemory, Reap, TypeOK,
         ThreadsOK, WorldOK, OwnInv, HoldsWhere, CmdIsRead
<1>5. ASSUME NEW p \in Procs, ScanEnd(p) PROVE CmdIsRead'
  BY <1>5, NoProcAssumption
     DEF ScanEnd, TypeOK, ThreadsOK, WorldOK, OwnInv,
         HoldsWhere, CmdIsRead
<1>6. CASE UNCHANGED <<cmd, reader>>
  BY <1>6, NoProcAssumption DEF TypeOK, ThreadsOK, WorldOK, OwnInv, HoldsWhere,
         CmdIsRead, manager, threads, world, bounds
<1> QED
  BY <1>1, <1>2, <1>3, <1>4, <1>5, <1>6
     DEF Next, EnableSteps, DisableSteps, Scanner, vars, manager, threads, world,
         bounds, Requests, RequestEnable, RequestDisable, RequestApply, Request, Begin,
         HandlerSteps, PersistOn, PersistOff, Snapshot, Goto, EnableCheck,
         EnableLaunch, EnableFail, DisableKill, HealSteps, HealCheck, HealMark,
         HealWake, HealNeeded, CooldownElapses, Restore, Signal, Shutdown, ScanLine,
         ProcExits, EdgeDrops, PrintUrl, PrintRegistered, PrintNotFound, Say

\* An address or a count of refusals has a scanner that will clear it.
LEMMA LeftoversStep == TypeOK /\ OwnInv /\ LeftoversAreRead /\ [Next]_vars => LeftoversAreRead'
<1> SUFFICES ASSUME TypeOK /\ OwnInv /\ LeftoversAreRead, [Next]_vars PROVE LeftoversAreRead'
  OBVIOUS
<1>1. ASSUME NEW a \in Actors, EnablePublish(a) PROVE LeftoversAreRead'
  BY <1>1, NoProcAssumption
     DEF EnablePublish, Goto, TypeOK, ThreadsOK, ManagerOK,
         WorldOK, OwnInv, HoldsWhere, LeftoversAreRead
<1>2. ASSUME NEW a \in Actors, DisableTake(a) PROVE LeftoversAreRead'
  BY <1>2, NoProcAssumption
     DEF DisableTake, Goto, TypeOK, ThreadsOK, ManagerOK,
         WorldOK, OwnInv, HoldsWhere, LeftoversAreRead
<1>3. CASE Exit
  BY <1>3, NoProcAssumption
     DEF Exit, Halt, FreshMemory, TypeOK, ThreadsOK,
         ManagerOK, WorldOK, OwnInv, HoldsWhere, LeftoversAreRead
<1>4. CASE Restart \/ Crash
  BY <1>4, NoProcAssumption
     DEF Restart, Crash, Halt, FreshMemory, Reap, TypeOK,
         ThreadsOK, ManagerOK, WorldOK, OwnInv, HoldsWhere, LeftoversAreRead
<1>5. ASSUME NEW p \in Procs, ScanLine(p) PROVE LeftoversAreRead'
  BY <1>5, NoProcAssumption
     DEF ScanLine, TypeOK, ThreadsOK, ManagerOK, WorldOK,
         OwnInv, HoldsWhere, LeftoversAreRead
<1>6. ASSUME NEW p \in Procs, ScanEnd(p) PROVE LeftoversAreRead'
  BY <1>6, NoProcAssumption
     DEF ScanEnd, TypeOK, ThreadsOK, ManagerOK, WorldOK,
         OwnInv, HoldsWhere, LeftoversAreRead
<1>7. CASE UNCHANGED <<url, consecNotFound, reader>>
  BY <1>7, NoProcAssumption DEF TypeOK, ThreadsOK, ManagerOK, WorldOK, OwnInv,
         HoldsWhere, LeftoversAreRead, manager, threads, world, bounds
<1> QED
  BY <1>1, <1>2, <1>3, <1>4, <1>5, <1>6, <1>7
     DEF Next, EnableSteps, DisableSteps, Scanner, vars, manager, threads, world,
         bounds, Requests, RequestEnable, RequestDisable, RequestApply, Request, Begin,
         HandlerSteps, PersistOn, PersistOff, Snapshot, Goto, EnableCheck,
         EnableLaunch, EnableFail, DisableKill, HealSteps, HealCheck, HealMark,
         HealWake, HealNeeded, CooldownElapses, Restore, Signal, Shutdown, ProcExits,
         EdgeDrops, PrintUrl, PrintRegistered, PrintNotFound, Say

\* No heal starts in the cooldown of another: only the healer starts a cooldown.
LEMMA MarkIsCoolStep == TypeOK /\ MarkIsCool /\ [Next]_vars => MarkIsCool'
<1> SUFFICES ASSUME TypeOK /\ MarkIsCool, [Next]_vars PROVE MarkIsCool'
  OBVIOUS
<1>1. ASSUME NEW a \in Panel, Requests(a) PROVE MarkIsCool'
  BY <1>1, ActorsAssumption
     DEF Requests, RequestEnable, RequestDisable,
         RequestApply, Request, Begin, TypeOK, ThreadsOK, MarkIsCool, Actors, manager
<1>2. ASSUME NEW a \in Panel, HandlerSteps(a) PROVE MarkIsCool'
  BY <1>2, ActorsAssumption
     DEF HandlerSteps, PersistOn, PersistOff, Snapshot,
         Goto, TypeOK, ThreadsOK, MarkIsCool, Actors, manager
<1>3. ASSUME NEW a \in Actors, EnableCheck(a) PROVE MarkIsCool'
  BY <1>3, ActorsAssumption
     DEF EnableCheck, Goto, TypeOK, ThreadsOK, MarkIsCool,
         Actors, manager
<1>4. ASSUME NEW a \in Actors, NEW p \in Procs, EnableLaunch(a, p) PROVE MarkIsCool'
  BY <1>4, ActorsAssumption
     DEF EnableLaunch, Goto, TypeOK, ThreadsOK, MarkIsCool,
         Actors, manager
<1>5. ASSUME NEW a \in Actors, EnableFail(a) PROVE MarkIsCool'
  BY <1>5, ActorsAssumption
     DEF EnableFail, Goto, TypeOK, ThreadsOK, MarkIsCool,
         Actors, manager
<1>6. ASSUME NEW a \in Actors, EnablePublish(a) PROVE MarkIsCool'
  BY <1>6, ActorsAssumption
     DEF EnablePublish, Goto, TypeOK, ThreadsOK,
         MarkIsCool, Actors, manager
<1>7. ASSUME NEW a \in Actors, DisableTake(a) PROVE MarkIsCool'
  BY <1>7, ActorsAssumption, AfterDisablePC
     DEF DisableTake, Goto, TypeOK,
         ThreadsOK, MarkIsCool, Actors, manager
<1>8. ASSUME NEW a \in Actors, DisableKill(a) PROVE MarkIsCool'
  BY <1>8, ActorsAssumption, AfterDisablePC
     DEF DisableKill, Goto, TypeOK,
         ThreadsOK, MarkIsCool, Actors, manager
<1>9. CASE HealSteps
  BY <1>9, ActorsAssumption
     DEF HealSteps, HealCheck, HealMark, HealWake,
         HealNeeded, Goto, Begin, TypeOK, ThreadsOK, MarkIsCool, Actors, manager
<1>10. CASE Restore
  BY <1>10, ActorsAssumption
     DEF Restore, TypeOK, ThreadsOK, MarkIsCool, Actors,
         manager
<1>11. CASE Signal \/ Shutdown
  BY <1>11, ActorsAssumption
     DEF Signal, Shutdown, Goto, Begin, TypeOK, ThreadsOK,
         MarkIsCool, Actors, manager
<1>12. CASE Exit
  BY <1>12, ActorsAssumption
     DEF Exit, Halt, FreshMemory, TypeOK, ThreadsOK,
         MarkIsCool, Actors, manager
<1>13. CASE Restart \/ Crash
  BY <1>13, ActorsAssumption
     DEF Restart, Crash, Halt, FreshMemory, Reap, TypeOK,
         ThreadsOK, MarkIsCool, Actors, manager
<1>14. CASE CooldownElapses
  BY <1>14, ActorsAssumption
     DEF CooldownElapses, TypeOK, ThreadsOK, MarkIsCool,
         Actors, manager
<1>15. CASE UNCHANGED <<pc, cooling>>
  BY <1>15, ActorsAssumption DEF TypeOK, ThreadsOK, MarkIsCool, Actors, manager,
         manager, threads, world, bounds
<1> QED
  BY <1>1, <1>2, <1>3, <1>4, <1>5, <1>6, <1>7, <1>8, <1>9, <1>10, <1>11, <1>12, <1>13,
     <1>14, <1>15
     DEF Next, EnableSteps, DisableSteps, Scanner, vars, manager, threads, world,
         bounds, ScanLine, ScanEnd, ProcExits, EdgeDrops, PrintUrl, PrintRegistered,
         PrintNotFound, Say

-----------------------------------------------------------------------------
\* The invariant is inductive.
LEMMA NextIInv == IInv /\ [Next]_vars => IInv'
<1> SUFFICES ASSUME IInv, [Next]_vars PROVE IInv'
  OBVIOUS
<1>1. TypeOK /\ OwnInv /\ ReadInv /\ MarkIsCool
  BY DEF IInv
<1>2. OwnInv'
  BY <1>1, BootWaitsStep, HoldsWhereStep, KnownStep, OneOwnerStep DEF OwnInv
<1>3. ReadInv'
  BY <1>1, EnabledIffCmdStep, CmdIsReadStep, LeftoversStep DEF ReadInv
<1> QED
  BY <1>1, <1>2, <1>3, TypeStep, MarkIsCoolStep DEF IInv

\* The inductive invariant holds in every reachable state.
THEOREM TunnelInvariant == Spec => []IInv
BY InitIInv, NextIInv, PTL DEF Spec

\* Every variable keeps its type.
THEOREM TunnelTypes == Spec => []TypeOK
<1>1. IInv => TypeOK
  BY DEF IInv
<1> QED
  BY <1>1, TunnelInvariant, PTL

\* However Enable, Disable, the self-heal loop and the scanners of old processes interleave,
\* the tunnel is shown as up exactly while a command is recorded.
THEOREM TunnelEnabledIffCmd == Spec => []EnabledIffCmd
<1>1. IInv => EnabledIffCmd
  BY DEF IInv, ReadInv
<1> QED
  BY <1>1, TunnelInvariant, PTL

\* The process of a tunnel shown as up has a scanner of its own, so its exit will be seen.
THEOREM TunnelCmdIsRead == Spec => []CmdIsRead
<1>1. IInv => CmdIsRead
  BY DEF IInv, ReadInv
<1> QED
  BY <1>1, TunnelInvariant, PTL

\* A stale address or count left by an old scanner still has a scanner that will clear it.
THEOREM TunnelLeftoversAreRead == Spec => []LeftoversAreRead
<1>1. IInv => LeftoversAreRead
  BY DEF IInv, ReadInv
<1> QED
  BY <1>1, TunnelInvariant, PTL

\* Concurrent Disables never kill or wait for the same process twice.
THEOREM TunnelOneOwner == Spec => []OneOwner
<1>1. IInv => OneOwner
  BY DEF IInv, OwnInv
<1> QED
  BY <1>1, TunnelInvariant, PTL

\* Self-heals are separated by the cooldown.
THEOREM TunnelHealsAreSpaced == Spec => HealsAreSpaced
<1>1. IInv /\ [Next]_vars => [pc[Healer] = "mark" /\ pc'[Healer] = "take" => ~cooling]_vars
  BY DEF IInv, MarkIsCool
<1> QED
  BY <1>1, TunnelInvariant, PTL DEF Spec, HealsAreSpaced

-----------------------------------------------------------------------------
(***************************************************************************)
(* Tunnel implements TunnelAddress: what agents can learn of the tunnel    *)
(* goes through the steps of the abstract specification only.  Beside the  *)
(* types the proof needs that a process prints its address once, before    *)
(* anything else.                                                          *)
(***************************************************************************)

(* The address is the first line of its process that the scanner handles. *)
UrlFirst ==
  \A p \in Procs :
    /\ edge[p] = "new" => lines[p] = <<>>
    /\ \A i \in 1..Len(lines[p]) : lines[p][i] = "url" => i = 1

-----------------------------------------------------------------------------
\* The first line of a sequence is its only address, so that none is left when it is read.
LEMMA TailHasNoUrl ==
  ASSUME NEW s \in Seq(Lines), s # <<>>,
         \A i \in 1..Len(s) : s[i] = "url" => i = 1
  PROVE  \A i \in 1..Len(Tail(s)) : Tail(s)[i] # "url"
<1> SUFFICES ASSUME NEW i \in 1..Len(Tail(s)) PROVE Tail(s)[i] # "url"
  OBVIOUS
<1>1. Len(Tail(s)) = Len(s) - 1 /\ Len(s) \in Nat
  OBVIOUS
<1>2. Tail(s)[i] = s[i + 1] /\ i + 1 \in 1..Len(s) /\ i + 1 # 1
  BY <1>1
<1> QED
  BY <1>2

\* A line other than an address leaves the addresses in a sequence where they were.
LEMMA AppendKeepsUrls ==
  ASSUME NEW s \in Seq(Lines), NEW line \in Lines, line # "url"
  PROVE  \A i \in 1..Len(Append(s, line)) :
           Append(s, line)[i] = "url" => i \in 1..Len(s) /\ s[i] = "url"
OBVIOUS

\* A process prints its address once and first, and scanners read from the front.
LEMMA UrlFirstStep == TypeOK /\ UrlFirst /\ [Next]_vars => UrlFirst'
<1> SUFFICES ASSUME TypeOK /\ UrlFirst, [Next]_vars PROVE UrlFirst'
  OBVIOUS
<1> USE DEF UrlFirst
<1>1. ASSUME NEW a \in Actors, DisableKill(a) PROVE UrlFirst'
  <2>1. PICK rest \in {lines[own[a]], <<>>} : lines' = [lines EXCEPT ![own[a]] = rest]
    BY <1>1 DEF DisableKill
  <2>2. \A p \in Procs : lines'[p] \in {lines[p], <<>>}
    BY <2>1 DEF TypeOK, LinesOK
  <2>3. edge' = edge
    BY <1>1 DEF DisableKill
  <2> QED
    BY <2>2, <2>3
<1>2. CASE Restart \/ Crash
  BY <1>2 DEF Restart, Crash, Reap, Halt
<1>3. ASSUME NEW q \in Procs, ScanLine(q) PROVE UrlFirst'
  <2>1. lines[q] \in Seq(Lines) /\ lines[q] # <<>> /\ edge' = edge
    BY <1>3 DEF ScanLine, TypeOK, LinesOK
  <2>2. lines' = [lines EXCEPT ![q] = Tail(lines[q])]
    BY <1>3 DEF ScanLine
  <2>3. \A i \in 1..Len(Tail(lines[q])) : Tail(lines[q])[i] # "url"
    BY <2>1, TailHasNoUrl
  <2> QED
    BY <2>1, <2>2, <2>3 DEF TypeOK, LinesOK
<1>4. ASSUME NEW q \in Procs, PrintUrl(q) PROVE UrlFirst'
  <2>1. lines[q] = <<>> /\ edge' = [edge EXCEPT ![q] = "listed"]
    BY <1>4 DEF PrintUrl
  <2>2. lines' = [lines EXCEPT ![q] = Append(<<>>, "url")]
    BY <1>4, <2>1 DEF PrintUrl, Say
  <2> QED
    BY <2>1, <2>2 DEF TypeOK, LinesOK, WorldOK
<1>5. ASSUME NEW q \in Procs, PrintRegistered(q) \/ PrintNotFound(q) PROVE UrlFirst'
  <2>1. PICK line \in Lines \ {"url"} : lines' = [lines EXCEPT ![q] = Append(lines[q], line)]
    BY <1>5 DEF PrintRegistered, PrintNotFound, Say, Lines
  <2>2. edge' = edge /\ edge[q] # "new"
    BY <1>5 DEF PrintRegistered, PrintNotFound
  <2>3. \A i \in 1..Len(Append(lines[q], line)) :
          Append(lines[q], line)[i] = "url" => i \in 1..Len(lines[q]) /\ lines[q][i] = "url"
    BY AppendKeepsUrls DEF TypeOK, LinesOK
  <2> QED
    BY <2>1, <2>2, <2>3 DEF TypeOK, LinesOK
<1>6. ASSUME NEW q \in Procs, EdgeDrops(q) PROVE UrlFirst'
  BY <1>6 DEF EdgeDrops, TypeOK, WorldOK
<1>7. CASE UNCHANGED <<lines, edge>>
  BY <1>7
<1> QED
  BY <1>1, <1>2, <1>3, <1>4, <1>5, <1>6, <1>7
     DEF Next, EnableSteps, DisableSteps, Scanner, vars, manager, threads, world, bounds,
         Requests, RequestEnable, RequestDisable, RequestApply, Request, HandlerSteps,
         PersistOn, PersistOff, Snapshot, EnableCheck, EnableLaunch, EnableFail,
         EnablePublish, DisableTake, HealSteps, HealCheck, HealMark, HealWake,
         CooldownElapses, Restore, Signal, Shutdown, Exit, Halt, ScanEnd, ProcExits

-----------------------------------------------------------------------------
\* An address that is spent stays spent: it is printed once and never comes back.
LEMMA SpentGrows == TypeOK /\ [Next]_vars => Spent \subseteq Spent'
<1> SUFFICES ASSUME TypeOK, [Next]_vars PROVE Spent \subseteq Spent'
  OBVIOUS
<1> USE DEF Spent, Unread
<1>1. ASSUME NEW a \in Actors, DisableKill(a) PROVE Spent \subseteq Spent'
  <2>1. PICK rest \in {lines[own[a]], <<>>} : lines' = [lines EXCEPT ![own[a]] = rest]
    BY <1>1 DEF DisableKill
  <2>2. \A p \in Procs : lines'[p] \in {lines[p], <<>>}
    BY <2>1 DEF TypeOK, LinesOK
  <2>3. edge' = edge
    BY <1>1 DEF DisableKill
  <2> QED
    BY <2>2, <2>3
<1>2. CASE Restart \/ Crash
  BY <1>2 DEF Restart, Crash, Reap, Halt
<1>3. ASSUME NEW q \in Procs, ScanLine(q) PROVE Spent \subseteq Spent'
  <2>1. lines[q] \in Seq(Lines) /\ lines[q] # <<>> /\ edge' = edge
    BY <1>3 DEF ScanLine, TypeOK, LinesOK
  <2>2. lines' = [lines EXCEPT ![q] = Tail(lines[q])]
    BY <1>3 DEF ScanLine
  <2>3. \A i \in 1..Len(Tail(lines[q])) :
          Tail(lines[q])[i] = lines[q][i + 1] /\ i + 1 \in 1..Len(lines[q])
    BY <2>1
  <2> QED
    BY <2>1, <2>2, <2>3 DEF TypeOK, LinesOK
<1>4. ASSUME NEW q \in Procs, PrintUrl(q) PROVE Spent \subseteq Spent'
  <2>1. edge[q] = "new" /\ edge' = [edge EXCEPT ![q] = "listed"]
    BY <1>4 DEF PrintUrl
  <2>2. lines' = [lines EXCEPT ![q] = Append(lines[q], "url")]
    BY <1>4 DEF PrintUrl, Say
  <2> QED
    BY <2>1, <2>2 DEF TypeOK, LinesOK, WorldOK
<1>5. ASSUME NEW q \in Procs, PrintRegistered(q) \/ PrintNotFound(q) PROVE Spent \subseteq Spent'
  <2>1. PICK line \in Lines \ {"url"} : lines' = [lines EXCEPT ![q] = Append(lines[q], line)]
    BY <1>5 DEF PrintRegistered, PrintNotFound, Say, Lines
  <2>2. edge' = edge
    BY <1>5 DEF PrintRegistered, PrintNotFound
  <2>3. \A i \in 1..Len(Append(lines[q], line)) :
          Append(lines[q], line)[i] = "url" => i \in 1..Len(lines[q]) /\ lines[q][i] = "url"
    BY AppendKeepsUrls DEF TypeOK, LinesOK
  <2> QED
    BY <2>1, <2>2, <2>3 DEF TypeOK, LinesOK
<1>6. ASSUME NEW q \in Procs, EdgeDrops(q) PROVE Spent \subseteq Spent'
  BY <1>6 DEF EdgeDrops, TypeOK, WorldOK
<1>7. CASE UNCHANGED <<lines, edge>>
  BY <1>7
<1> QED
  BY <1>1, <1>2, <1>3, <1>4, <1>5, <1>6, <1>7
     DEF Next, EnableSteps, DisableSteps, Scanner, vars, manager, threads, world, bounds,
         Requests, RequestEnable, RequestDisable, RequestApply, Request, HandlerSteps,
         PersistOn, PersistOff, Snapshot, EnableCheck, EnableLaunch, EnableFail,
         EnablePublish, DisableTake, HealSteps, HealCheck, HealMark, HealWake,
         CooldownElapses, Restore, Signal, Shutdown, Exit, Halt, ScanEnd, ProcExits

\* A scanner that handles an address publishes it, unless another one is published: then
\* the address is lost.
LEMMA ScanLineMaps ==
  ASSUME TypeOK, UrlFirst, Spent \subseteq Spent', NEW q \in Procs, ScanLine(q)
  PROVE  Address!Next
<1>1. lines[q] \in Seq(Lines) /\ lines[q] # <<>> /\ edge' = edge
  BY DEF ScanLine, TypeOK, LinesOK
<1>2. lines' = [lines EXCEPT ![q] = Tail(lines[q])] /\ enabled' = enabled
  BY DEF ScanLine
<1>3. CASE lines[q][1] = "url" /\ url = NoProc
  <2>1. url' = q
    BY <1>1, <1>3 DEF ScanLine
  <2>2. edge[q] # "new"
    BY <1>1 DEF UrlFirst
  <2>3. q \notin Spent
    BY <1>1, <1>3 DEF Spent, Unread
  <2>4. Spent' = Spent \cup {q}
    <3>1. \A i \in 1..Len(Tail(lines[q])) : Tail(lines[q])[i] # "url"
      BY <1>1, TailHasNoUrl DEF UrlFirst
    <3>2. q \in Spent'
      BY <1>1, <1>2, <2>2, <3>1 DEF Spent, Unread, TypeOK, LinesOK
    <3>3. \A p \in Procs \ {q} : p \in Spent' <=> p \in Spent
      BY <1>1, <1>2 DEF Spent, Unread, TypeOK, LinesOK
    <3> QED
      BY <3>2, <3>3 DEF Spent
  <2>5. Address!Publish(q)
    BY <1>2, <1>3, <2>1, <2>3, <2>4 DEF Address!Publish
  <2> QED
    BY <2>5 DEF Address!Next
<1>4. CASE ~(lines[q][1] = "url" /\ url = NoProc)
  <2>1. url' = url
    BY <1>1, <1>4 DEF ScanLine
  <2>2. Address!Lose
    BY <1>2, <2>1 DEF Address!Lose, Address!MoreSpent, Spent
  <2> QED
    BY <2>2 DEF Address!Next
<1> QED
  BY <1>3, <1>4

\* Every step of the tunnel manager is a step of TunnelAddress.
LEMMA StepMaps ==
  ASSUME TypeOK, UrlFirst, [Next]_vars
  PROVE  Address!Next
<1>1. Spent \subseteq Spent' /\ Spent' \in SUBSET Procs
  BY SpentGrows DEF Spent
<1>2. ASSUME NEW a \in Actors, EnablePublish(a) PROVE Address!Next
  <2>1. Address!Launch
    BY <1>2 DEF EnablePublish, Address!Launch, Spent, Unread
  <2> QED
    BY <2>1 DEF Address!Next
<1>3. CASE \/ \E a \in Actors : DisableTake(a)
           \/ \E q \in Procs : ScanEnd(q)
           \/ Exit \/ Restart \/ Crash
  <2>1. enabled' = FALSE /\ url' = NoProc
    BY <1>3 DEF DisableTake, ScanEnd, Exit, Restart, Crash, Halt, FreshMemory
  <2>2. Address!Withdraw
    BY <1>1, <2>1 DEF Address!Withdraw, Address!MoreSpent
  <2> QED
    BY <2>2 DEF Address!Next
<1>4. ASSUME NEW q \in Procs, ScanLine(q) PROVE Address!Next
  BY <1>1, <1>4, ScanLineMaps
<1>5. CASE UNCHANGED <<enabled, url>>
  <2>1. Address!Lose
    BY <1>1, <1>5 DEF Address!Lose, Address!MoreSpent
  <2> QED
    BY <2>1 DEF Address!Next
<1> QED
  BY <1>2, <1>3, <1>4, <1>5
     DEF Next, EnableSteps, DisableSteps, Scanner, vars, manager, threads, world, bounds,
         Requests, RequestEnable, RequestDisable, RequestApply, Request, HandlerSteps,
         PersistOn, PersistOff, Snapshot, EnableCheck, EnableLaunch, EnableFail,
         DisableKill, HealSteps, HealCheck, HealMark, HealWake, CooldownElapses, Restore,
         Signal, Shutdown, ProcExits, EdgeDrops, PrintUrl, PrintRegistered,
         PrintNotFound, Say

\* The tunnel manager implements TunnelAddress: an address reaches the agents at most once
\* and leaves them only together with the tunnel.
THEOREM TunnelImplementsAddress == Spec => ImplementsTunnelAddress
<1>1. Init => TypeOK /\ UrlFirst
  BY InitIInv DEF IInv, Init, UrlFirst
<1>2. TypeOK /\ UrlFirst /\ [Next]_vars => TypeOK' /\ UrlFirst'
  BY TypeStep, UrlFirstStep
<1>3. Init => Address!Init
  BY DEF Init, Address!Init, Spent
<1>4. TypeOK /\ UrlFirst /\ [Next]_vars => [Address!Next]_(Address!tunnel)
  BY StepMaps
<1> QED
  BY <1>1, <1>2, <1>3, <1>4, PTL DEF Spec, ImplementsTunnelAddress, Address!Spec

(* What follows for the agents: the address of a process, once published and withdrawn. *)
Withdrawn(q) == q \in Spent /\ url # q

PublishedIsSpent == url # NoProc => url \in Spent

\* A step of TunnelAddress, whoever implements it, brings no withdrawn address back.
LEMMA WithdrawnStays ==
  ASSUME NEW q \in Procs, Withdrawn(q), [Address!Next]_(Address!tunnel)
  PROVE  Withdrawn(q)'
<1>1. q \in Spent /\ url # q /\ q # NoProc
  BY NoProcAssumption DEF Withdrawn
<1>2. CASE UNCHANGED Address!tunnel
  BY <1>1, <1>2 DEF Address!tunnel, Withdrawn
<1>3. CASE Address!Launch
  BY <1>1, <1>3 DEF Address!Launch, Withdrawn
<1>4. ASSUME NEW r \in Procs, Address!Publish(r) PROVE Withdrawn(q)'
  BY <1>1, <1>4 DEF Address!Publish, Withdrawn
<1>5. CASE Address!Withdraw
  BY <1>1, <1>5 DEF Address!Withdraw, Address!MoreSpent, Withdrawn
<1>6. CASE Address!Lose
  BY <1>1, <1>6 DEF Address!Lose, Address!MoreSpent, Withdrawn
<1> QED
  BY <1>2, <1>3, <1>4, <1>5, <1>6 DEF Address!Next

LEMMA PublishedStep ==
  PublishedIsSpent /\ [Address!Next]_(Address!tunnel) => PublishedIsSpent'
<1> SUFFICES ASSUME PublishedIsSpent, [Address!Next]_(Address!tunnel) PROVE PublishedIsSpent'
  OBVIOUS
<1>1. CASE UNCHANGED Address!tunnel
  BY <1>1 DEF Address!tunnel, PublishedIsSpent
<1>2. CASE Address!Launch
  BY <1>2 DEF Address!Launch, PublishedIsSpent
<1>3. ASSUME NEW r \in Procs, Address!Publish(r) PROVE PublishedIsSpent'
  BY <1>3 DEF Address!Publish, PublishedIsSpent
<1>4. CASE Address!Withdraw
  BY <1>4 DEF Address!Withdraw, PublishedIsSpent
<1>5. CASE Address!Lose
  BY <1>5 DEF Address!Lose, Address!MoreSpent, PublishedIsSpent
<1> QED
  BY <1>1, <1>2, <1>3, <1>4, <1>5 DEF Address!Next

\* An agent that still uses the address of a process after the manager has withdrawn it can
\* only be wrong: the manager never publishes it again, however its scanners, heals and
\* requests interleave.  Proved of TunnelAddress and inherited through the refinement.
THEOREM TunnelWithdrawsForGood ==
  ASSUME NEW q \in Procs
  PROVE  Spec => [](url = q => [](url # q => [](url # q)))
<1>1. Address!Init => PublishedIsSpent
  BY DEF Address!Init, PublishedIsSpent
<1>2. Address!Spec => []PublishedIsSpent
  BY <1>1, PublishedStep, PTL DEF Address!Spec
<1>3. q \in Spent /\ [Address!Next]_(Address!tunnel) => (q \in Spent)'
  BY DEF Address!Next, Address!Launch, Address!Publish, Address!Withdraw, Address!Lose,
         Address!MoreSpent, Address!tunnel
<1>4. PublishedIsSpent /\ url = q => q \in Spent
  BY NoProcAssumption DEF PublishedIsSpent
<1>5. Withdrawn(q) /\ [Address!Next]_(Address!tunnel) => Withdrawn(q)'
  BY WithdrawnStays
<1>6. Withdrawn(q) <=> q \in Spent /\ url # q
  BY DEF Withdrawn
<1> QED
  BY <1>2, <1>3, <1>4, <1>5, <1>6, TunnelImplementsAddress, PTL
     DEF Address!Spec, ImplementsTunnelAddress
=============================================================================
