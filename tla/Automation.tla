----------------------------- MODULE Automation -----------------------------
(***************************************************************************)
(* The host automation of the agent (internal/agent/automation.go): a tick *)
(* reads the policy of the master that owns the automation, samples the    *)
(* interface counters, compares them with the sample at the edge of the    *)
(* window and starts at most one download task.  The policy is switched    *)
(* off and on, and the owner's connection removed and added, in between.   *)
(*                                                                         *)
(* The owner is looked up in the list loadState has read, so it is one     *)
(* server for the life of the daemon (AgentSupervisor has the list).  Only *)
(* its connection has an automation policy; a pair of interface and window *)
(* is a Conf, the rest of the policy is left out, and so are the counters: *)
(* what the comparison finds is a choice.                                  *)
(***************************************************************************)
EXTENDS Naturals, Sequences

CONSTANTS
  Confs, NoConf,  \* interface and window of an enabled policy; NoConf: disabled
  Pulls,          \* the goroutines that pull at a time: policyLoop, triggerPolicyRefresh
  MaxSamples      \* bound: samples

ASSUME ConfsAssumption == NoConf \notin Confs
ASSUME BoundsAssumption == MaxSamples \in Nat \ {0}

VARIABLES
  conn,       \* the owner's masterConn: none, made by loadState or made by reconcile
  offered,    \* its policy.Automation, the one that was pulled last
  owes,       \* the pulls that have unlocked c.mu and have yet to cancel
  panicked,   \* one of them has found no agent to cancel through
  tick,       \* the goroutine of automationLoop
  last,       \* a.automation: the policy of the last enabled tick
  rested,     \* the interval drawn since lastAutomationCheck is over
  samples,    \* a.file.Samples, oldest first; old: before the window's edge
  task,       \* the goroutine of the task
  cancelled,  \* its context is cancelled
  running,    \* a.automationRunning
  cancel      \* a.automationCancel is not nil

policy == <<conn, offered, owes, panicked>>
work   == <<task, cancelled, running, cancel>>
vars   == <<policy, tick, last, rested, samples, work>>

Samples == [conf : Confs, old : BOOLEAN]
Idle    == [at |-> "idle"]

TypeOK ==
  /\ conn \in {"absent", "loaded", "added"}
  /\ offered \in Confs \cup {NoConf}
  /\ owes \subseteq Pulls /\ panicked \in BOOLEAN
  /\ tick \in [at : {"idle", "off"}] \cup
       [at : {"adopt", "cancel", "reset", "check", "sample", "compare", "launch"}, p : Confs]
  /\ last \in Confs \cup {NoConf}
  /\ samples \in Seq(Samples) /\ Len(samples) <= MaxSamples
  /\ task \in {"none", "downloading", "returning"}
  /\ rested \in BOOLEAN /\ cancelled \in BOOLEAN /\ running \in BOOLEAN /\ cancel \in BOOLEAN

(* The memory of a daemon whose loadState has found the owner. *)
Fresh ==
  [conn |-> "loaded", offered |-> NoConf, last |-> NoConf, rested |-> TRUE]

Init ==
  /\ conn = Fresh.conn /\ offered = Fresh.offered /\ owes = {} /\ panicked = FALSE
  /\ last = Fresh.last /\ rested = Fresh.rested
  /\ tick = Idle /\ task = "none"
  /\ cancelled = FALSE /\ running = FALSE /\ cancel = FALSE
  /\ samples \in {<<>>} \cup [1..1 -> Samples]

-----------------------------------------------------------------------------
(* The policy of the owner. *)

(* activeAutomation: c.automation follows policy.Automation while c is the owner's. *)
Active == IF conn = "absent" THEN NoConf ELSE offered

(* cancelAutomation. *)
CancelTask ==
  /\ cancelled' = (cancelled \/ cancel) /\ cancel' = FALSE
  /\ UNCHANGED <<task, running>>

(* refreshPolicy under c.mu.  A switch-off is passed on after the unlock, through  *)
(* c.agent, which only the connections made by reconcile have.                     *)
Pull(k, c) ==
  LET off == offered # NoConf /\ c = NoConf IN
  /\ conn # "absent" /\ k \notin owes /\ offered' = c
  /\ owes' = IF off /\ conn = "added" THEN owes \cup {k} ELSE owes
  /\ panicked' = (off /\ conn = "loaded")
  /\ UNCHANGED <<conn, tick, last, rested, samples, work>>

PullCancels(k) ==
  /\ k \in owes /\ owes' = owes \ {k}
  /\ CancelTask
  /\ UNCHANGED <<conn, offered, panicked, tick, last, rested, samples>>

(* reconcile drops a connection that was removed from the file and makes a new one *)
(* for a server that was added again.                                              *)
Reconcile ==
  /\ conn' = IF conn = "absent" THEN "added" ELSE "absent"
  /\ offered' = NoConf
  /\ UNCHANGED <<owes, panicked, tick, last, rested, samples, work>>

-----------------------------------------------------------------------------
(* automationTick.  Between two of its critical sections everything else may happen. *)

Step(from, to) == tick.at = from /\ tick' = to
Next1(at) == [tick EXCEPT !.at = at]

(* Faulty variant: the policy is taken whether it is enabled or not. *)
TickReadsAny ==
  /\ Step("idle", [at |-> "adopt", p |-> Active])
  /\ UNCHANGED <<policy, last, rested, samples, work>>

TickRead ==
  /\ Step("idle", IF Active = NoConf THEN [at |-> "off"] ELSE [at |-> "adopt", p |-> Active])
  /\ UNCHANGED <<policy, last, rested, samples, work>>

(* Faulty variant: the tick leaves the cancelling to refreshPolicy. *)
TickOffReturns ==
  /\ Step("off", Idle)
  /\ UNCHANGED <<policy, last, rested, samples, work>>

TickOff ==
  /\ Step("off", Idle)
  /\ CancelTask
  /\ UNCHANGED <<policy, last, rested, samples>>

(* Faulty variant: the samples of earlier runs are kept for the first policy. *)
TickAdoptKeeps ==
  /\ Step("adopt", Next1(IF last \in {NoConf, tick.p} THEN "check" ELSE "cancel"))
  /\ last' = tick.p
  /\ UNCHANGED <<policy, rested, samples, work>>

(* Another interface or window than the last tick's; after a start that is every one. *)
TickAdopt ==
  /\ Step("adopt", Next1(IF last = tick.p THEN "check" ELSE "cancel"))
  /\ last' = tick.p
  /\ UNCHANGED <<policy, rested, samples, work>>

TickCancel ==
  /\ Step("cancel", Next1("reset"))
  /\ CancelTask
  /\ UNCHANGED <<policy, last, rested, samples>>

(* resetSamplingBaseline. *)
TickReset ==
  /\ Step("reset", Next1("check"))
  /\ samples' = <<>>
  /\ UNCHANGED <<policy, last, rested, work>>

(* Faulty variant: a check may start while a task runs. *)
TickCheckBusy ==
  /\ Step("check", IF ~rested THEN Idle ELSE Next1("sample"))
  /\ rested' = IF tick'.at = "sample" THEN FALSE ELSE rested
  /\ UNCHANGED <<policy, last, samples, work>>

TickCheck ==
  /\ Step("check", IF running \/ ~rested THEN Idle ELSE Next1("sample"))
  /\ rested' = IF tick'.at = "sample" THEN FALSE ELSE rested
  /\ UNCHANGED <<policy, last, samples, work>>

(* The counters cannot be read. *)
TickUnreadable ==
  /\ Step("sample", Idle)
  /\ UNCHANGED <<policy, last, rested, samples, work>>

(* appendSample drops what is older than 8 days, which is before any window's edge; *)
(* without sources the tick ends here.                                              *)
TickSample ==
  /\ Step("sample", Next1("compare")) \/ Step("sample", Idle)
  /\ \E n \in 0..Len(samples) :
       /\ \A i \in 1..n : samples[i].old
       /\ Len(samples) - n < MaxSamples
       /\ samples' = Append(SubSeq(samples, n + 1, Len(samples)), [conf |-> tick.p, old |-> FALSE])
  /\ UNCHANGED <<policy, last, rested, work>>

(* The sample at the window's edge: the latest of the old ones. *)
OldOnes == {i \in 1..Len(samples) : samples[i].old}

(* No baseline, enough traffic, or a counter that went backwards; otherwise a task. *)
TickCompare ==
  /\ \/ Step("compare", Idle)
     \/ Step("compare", Next1("launch")) /\ OldOnes # {}
  /\ UNCHANGED <<policy, last, rested, samples, work>>

TickLaunch ==
  /\ Step("launch", Idle)
  /\ running' = TRUE /\ cancel' = TRUE
  /\ task' = "downloading" /\ cancelled' = FALSE
  /\ UNCHANGED <<policy, last, rested, samples>>

-----------------------------------------------------------------------------
(* The task, time and the daemon's end. *)

(* The sources were tried and reported, or the context was cancelled. *)
TaskReturns ==
  /\ task = "downloading" /\ task' = "returning"
  /\ UNCHANGED <<policy, tick, last, rested, samples, cancelled, running, cancel>>

(* Faulty variant: a cancelled task leaves before it cleans up. *)
TaskCleansUnlessCancelled ==
  /\ task = "returning" /\ task' = "none" /\ cancelled' = FALSE
  /\ running' = cancelled /\ cancel' = FALSE
  /\ UNCHANGED <<policy, tick, last, rested, samples>>

(* The deferred function. *)
TaskCleans ==
  /\ task = "returning" /\ task' = "none" /\ cancelled' = FALSE
  /\ running' = FALSE /\ cancel' = FALSE
  /\ UNCHANGED <<policy, tick, last, rested, samples>>

Rest ==
  /\ ~rested /\ rested' = TRUE
  /\ UNCHANGED <<policy, tick, last, samples, work>>

(* The window's edge passes the oldest sample that is still inside. *)
Age ==
  /\ \E i \in 1..Len(samples) :
       /\ ~samples[i].old /\ \A j \in 1..(i - 1) : samples[j].old
       /\ samples' = [samples EXCEPT ![i].old = TRUE]
  /\ UNCHANGED <<policy, tick, last, rested, work>>

(* The daemon stops, is killed, or panics when refreshPolicy calls through a nil     *)
(* c.agent; the next one finds the samples in the file.                              *)
Restart ==
  /\ conn' = Fresh.conn /\ offered' = Fresh.offered /\ owes' = {} /\ panicked' = FALSE
  /\ last' = Fresh.last /\ rested' = Fresh.rested
  /\ tick' = Idle /\ task' = "none"
  /\ cancelled' = FALSE /\ running' = FALSE /\ cancel' = FALSE
  /\ UNCHANGED samples

-----------------------------------------------------------------------------
Tick ==
  \/ TickRead \/ TickOff \/ TickAdopt \/ TickCancel \/ TickReset \/ TickCheck
  \/ TickUnreadable \/ TickSample \/ TickCompare \/ TickLaunch

(* A nil dereference ends every goroutine at once. *)
Alive == ~panicked

Next ==
  \/ Alive /\ \/ \E k \in Pulls : PullCancels(k) \/ \E c \in Confs \cup {NoConf} : Pull(k, c)
              \/ Reconcile \/ Tick \/ TaskReturns \/ TaskCleans \/ Rest \/ Age
  \/ Restart

Spec == Init /\ [][Next]_vars

(* The tick is scheduled, a cancelled download returns, time passes and the service  *)
(* manager restarts a daemon that has panicked.  A download that is not cancelled    *)
(* need not end.                                                                     *)
Fairness ==
  /\ WF_vars(Alive /\ Tick) /\ (\A k \in Pulls : WF_vars(Alive /\ PullCancels(k)))
  /\ WF_vars(Alive /\ cancelled /\ TaskReturns) /\ WF_vars(Alive /\ TaskCleans)
  /\ WF_vars(Alive /\ Rest) /\ WF_vars(~Alive /\ Restart)

FairSpec == Spec /\ Fairness

-----------------------------------------------------------------------------
\* Two samples are compared only when both were read from the interface, and for the window,
\* of the policy the tick acts on, although samples outlive the daemon and the policy changes
\* between any two steps of a tick.
BaselineIsOfPolicy ==
  tick.at \in {"compare", "launch"} => \A i \in 1..Len(samples) : samples[i].conf = tick.p

\* A check and a task exclude each other, so no second download starts beside the first, and
\* a download nobody has cancelled can still be cancelled: automationRunning and
\* automationCancel belong to the one task there is, although tick, pull and task write them
\* in critical sections of their own.
TaskIsCancellable ==
  /\ tick.at \in {"sample", "compare", "launch"} => task = "none"
  /\ task = "downloading" => running /\ (cancelled <=> ~cancel)

\* Once the automation is off for good its download does not run on, even when the cancel of
\* refreshPolicy came between the tick's decision and the task's start.
TaskStopsWhenOff ==
  (<>[](Active = NoConf)) => <>[](task # "downloading")

\* Under a policy that stays, checks go on as long as downloads come to their end: no
\* cancelled task and no change of policy leaves the loop blocked.
ChecksGoOn ==
  (\E c \in Confs : <>[](Active = c)) /\ ([]<>(task # "downloading")) => []<>(tick.at = "sample")
=============================================================================
