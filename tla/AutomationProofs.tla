-------------------------- MODULE AutomationProofs --------------------------
(***************************************************************************)
(* Proofs about Automation, for every set of configurations and every      *)
(* bound on the samples.  Two facts carry them: once a tick has left its   *)
(* reset behind, all samples are of the policy that was adopted last, and  *)
(* automationRunning is set exactly while there is a task.                 *)
(***************************************************************************)
EXTENDS Automation, SequenceTheorems, TLAPS

(* The policy a tick acts on is the one it has adopted. *)
TickIsOfLast ==
  tick.at \in {"cancel", "reset", "check", "sample", "compare", "launch"} => last = tick.p

(* Samples of another configuration are there only until the tick that adopts this one resets them. *)
SamplesAreOfLast ==
  last # NoConf /\ tick.at \notin {"cancel", "reset"} =>
    \A i \in 1..Len(samples) : samples[i].conf = last

(* automationRunning is written when a task is launched and when it is through. *)
RunningIsTask == running <=> task # "none"

IInv == TypeOK /\ TickIsOfLast /\ SamplesAreOfLast /\ RunningIsTask /\ TaskIsCancellable

-----------------------------------------------------------------------------
\* The policy pulled last is one of the configurations, or none.
LEMMA ActiveType == TypeOK => Active \in Confs \cup {NoConf}
BY DEF TypeOK, Active

\* What a tick knows of its policy has the type of its stage.
LEMMA TickType ==
  ASSUME TypeOK
  PROVE  tick.at \notin {"idle", "off"} => tick = [at |-> tick.at, p |-> tick.p] /\ tick.p \in Confs
BY DEF TypeOK

\* The initial state satisfies the invariant: the daemon has adopted nothing and runs nothing.
LEMMA InitIInv == Init => IInv
<1> SUFFICES ASSUME Init PROVE IInv
  OBVIOUS
<1>1. samples \in Seq(Samples) /\ Len(samples) <= MaxSamples
  <2>1. CASE samples = <<>>
    <3>1. <<>> \in Seq(Samples) /\ Len(<<>>) = 0
      OBVIOUS
    <3>2. 0 <= MaxSamples
      BY BoundsAssumption
    <3> QED
      BY <2>1, <3>1, <3>2
  <2>2. CASE samples \in [1..1 -> Samples]
    <3>1. samples \in Seq(Samples)
      BY <2>2, SeqDef
    <3>2. Len(samples) = 1
      BY <2>2
    <3> QED
      BY <3>1, <3>2, BoundsAssumption
  <2> QED
    BY <2>1, <2>2 DEF Init
<1>2. TypeOK
  BY <1>1 DEF Init, Fresh, Idle, TypeOK
<1>3. TickIsOfLast /\ SamplesAreOfLast /\ RunningIsTask /\ TaskIsCancellable
  BY DEF Init, Fresh, Idle, TickIsOfLast, SamplesAreOfLast, RunningIsTask, TaskIsCancellable
<1> QED
  BY <1>2, <1>3 DEF IInv

\* Dropping old samples and appending one keeps a sequence of samples.
LEMMA Appended ==
  ASSUME NEW s \in Seq(Samples), NEW n \in 0..Len(s), NEW e \in Samples
  PROVE  LET t == Append(SubSeq(s, n + 1, Len(s)), e)
         IN  /\ t \in Seq(Samples)
             /\ Len(t) = Len(s) - n + 1
             /\ \A i \in 1..Len(t) : t[i] = e \/ \E j \in 1..Len(s) : t[i] = s[j]
<1> DEFINE u == SubSeq(s, n + 1, Len(s))
<1>1. u \in Seq(Samples) /\ Len(u) = Len(s) - n
  OBVIOUS
<1>2. \A i \in 1..Len(u) : u[i] = s[n + i] /\ n + i \in 1..Len(s)
  OBVIOUS
<1> HIDE DEF u
<1>3. \A i \in 1..Len(u) + 1 : Append(u, e)[i] = IF i = Len(u) + 1 THEN e ELSE u[i]
  BY <1>1
<1>4. Append(u, e) \in Seq(Samples) /\ Len(Append(u, e)) = Len(u) + 1
  BY <1>1
<1>5. \A i \in 1..Len(u) + 1 : Append(u, e)[i] = e \/ \E j \in 1..Len(s) : Append(u, e)[i] = s[j]
  BY <1>1, <1>2, <1>3
<1> QED
  BY <1>1, <1>4, <1>5 DEF u

-----------------------------------------------------------------------------
(* The steps outside the tick. *)

\* Pulls and reconciles touch neither the tick nor the samples nor the task, except by
\* cancelling it.
LEMMA PolicyStep ==
  ASSUME IInv, (\E k \in Pulls : PullCancels(k) \/ \E c \in Confs \cup {NoConf} : Pull(k, c)) \/ Reconcile
  PROVE  IInv'
<1> USE DEF IInv
<1>1. ASSUME NEW k \in Pulls, NEW c \in Confs \cup {NoConf}, Pull(k, c) PROVE IInv'
  <2>1. TypeOK'
    BY <1>1 DEF Pull, work, TypeOK
  <2> QED
    BY <1>1, <2>1 DEF Pull, work, TickIsOfLast, SamplesAreOfLast, RunningIsTask, TaskIsCancellable
<1>2. ASSUME NEW k \in Pulls, PullCancels(k) PROVE IInv'
  <2>1. TypeOK'
    BY <1>2 DEF PullCancels, CancelTask, TypeOK
  <2>2. TickIsOfLast' /\ SamplesAreOfLast' /\ RunningIsTask'
    BY <1>2 DEF PullCancels, CancelTask, TickIsOfLast, SamplesAreOfLast, RunningIsTask
  <2>3. TaskIsCancellable'
    BY <1>2 DEF PullCancels, CancelTask, TaskIsCancellable, TypeOK
  <2> QED
    BY <2>1, <2>2, <2>3
<1>3. CASE Reconcile
  <2>1. TypeOK'
    BY <1>3 DEF Reconcile, work, TypeOK
  <2> QED
    BY <1>3, <2>1 DEF Reconcile, work, TickIsOfLast, SamplesAreOfLast, RunningIsTask, TaskIsCancellable
<1> QED
  BY <1>1, <1>2, <1>3

\* The task returns and cleans up after itself; the interval elapses.
LEMMA TaskStep ==
  ASSUME IInv, TaskReturns \/ TaskCleans \/ Rest
  PROVE  IInv'
<1> USE DEF IInv
<1>1. TypeOK'
  BY DEF TaskReturns, TaskCleans, Rest, policy, work, TypeOK
<1>2. TickIsOfLast' /\ SamplesAreOfLast'
  BY DEF TaskReturns, TaskCleans, Rest, TickIsOfLast, SamplesAreOfLast
<1>3. RunningIsTask'
  BY DEF TaskReturns, TaskCleans, Rest, work, RunningIsTask
<1>4. TaskIsCancellable'
  BY DEF TaskReturns, TaskCleans, Rest, work, TaskIsCancellable
<1> QED
  BY <1>1, <1>2, <1>3, <1>4

\* The window's edge moves on: the samples keep their configurations.
LEMMA AgeStep == ASSUME IInv, Age PROVE IInv'
<1> USE DEF IInv
<1>1. PICK i \in 1..Len(samples) : samples' = [samples EXCEPT ![i].old = TRUE]
  BY DEF Age
<1>2. samples \in Seq(Samples)
  BY DEF TypeOK
<1>3. samples' \in Seq(Samples) /\ Len(samples') = Len(samples)
  <2>1. samples[i] \in Samples
    BY <1>2
  <2>2. [samples[i] EXCEPT !.old = TRUE] \in Samples
    BY <2>1 DEF Samples
  <2> QED
    BY <1>1, <1>2, <2>2
<1>4. \A k \in 1..Len(samples) : samples'[k].conf = samples[k].conf
  BY <1>1, <1>2 DEF Samples
<1>5. TypeOK'
  BY <1>3 DEF Age, policy, work, TypeOK
<1>6. TickIsOfLast' /\ RunningIsTask' /\ TaskIsCancellable'
  BY DEF Age, work, TickIsOfLast, RunningIsTask, TaskIsCancellable
<1>7. SamplesAreOfLast'
  BY <1>3, <1>4 DEF Age, SamplesAreOfLast
<1> QED
  BY <1>5, <1>6, <1>7

\* The next daemon has adopted nothing, so the samples of the last one bind nobody.
LEMMA RestartStep == ASSUME IInv, Restart PROVE IInv'
<1> USE DEF IInv
<1>1. TypeOK'
  BY DEF Restart, Fresh, Idle, TypeOK
<1> QED
  BY <1>1 DEF Restart, Fresh, Idle, TickIsOfLast, SamplesAreOfLast, RunningIsTask, TaskIsCancellable

-----------------------------------------------------------------------------
(* The tick. *)

\* Reading the policy and giving up, with the cancel of a switch-off.
LEMMA TickReadStep == ASSUME IInv, TickRead \/ TickOff PROVE IInv'
<1> USE DEF IInv
<1>1. CASE TickRead
  <2>1. tick' \in {[at |-> "off"]} \cup [at : {"adopt"}, p : Confs]
    BY <1>1, ActiveType DEF TickRead, Step
  <2>2. TypeOK'
    BY <1>1, <2>1 DEF TickRead, policy, work, TypeOK
  <2> QED
    BY <1>1, <2>1, <2>2
       DEF TickRead, Step, Idle, work, TypeOK, TickIsOfLast, SamplesAreOfLast, RunningIsTask, TaskIsCancellable
<1>2. CASE TickOff
  <2>1. TypeOK'
    BY <1>2 DEF TickOff, Step, Idle, CancelTask, policy, TypeOK
  <2>2. TickIsOfLast' /\ SamplesAreOfLast' /\ RunningIsTask'
    BY <1>2 DEF TickOff, Step, Idle, CancelTask, TickIsOfLast, SamplesAreOfLast, RunningIsTask
  <2>3. TaskIsCancellable'
    BY <1>2 DEF TickOff, Step, Idle, CancelTask, TaskIsCancellable, TypeOK
  <2> QED
    BY <2>1, <2>2, <2>3
<1> QED
  BY <1>1, <1>2

\* Adopting the policy; the samples stay only if it is the last tick's.
LEMMA TickAdoptStep == ASSUME IInv, TickAdopt PROVE IInv'
<1> USE DEF IInv
<1>1. tick.p \in Confs /\ tick.at = "adopt"
  BY TickType DEF TickAdopt, Step
<1>2. tick' = [at |-> IF last = tick.p THEN "check" ELSE "cancel", p |-> tick.p]
  BY <1>1, TickType DEF TickAdopt, Step, Next1
<1>3. TypeOK'
  BY <1>1, <1>2 DEF TickAdopt, policy, work, TypeOK
<1>4. TickIsOfLast' /\ RunningIsTask'
  BY <1>2 DEF TickAdopt, work, TickIsOfLast, RunningIsTask
<1>5. SamplesAreOfLast'
  BY <1>1, <1>2, ConfsAssumption DEF TickAdopt, SamplesAreOfLast
<1>6. TaskIsCancellable'
  BY <1>2 DEF TickAdopt, work, TaskIsCancellable
<1> QED
  BY <1>3, <1>4, <1>5, <1>6

\* Cancelling the old task and dropping the old samples.
LEMMA TickResetStep == ASSUME IInv, TickCancel \/ TickReset PROVE IInv'
<1> USE DEF IInv
<1>1. CASE TickCancel
  <2>1. tick' = [at |-> "reset", p |-> tick.p] /\ tick.p \in Confs /\ tick.at = "cancel"
    BY <1>1, TickType DEF TickCancel, Step, Next1
  <2>2. TypeOK'
    BY <1>1, <2>1 DEF TickCancel, CancelTask, policy, TypeOK
  <2>3. TickIsOfLast' /\ SamplesAreOfLast' /\ RunningIsTask'
    BY <1>1, <2>1 DEF TickCancel, CancelTask, TickIsOfLast, SamplesAreOfLast, RunningIsTask
  <2>4. TaskIsCancellable'
    BY <1>1, <2>1 DEF TickCancel, CancelTask, TaskIsCancellable, TypeOK
  <2> QED
    BY <2>2, <2>3, <2>4
<1>2. CASE TickReset
  <2>1. tick' = [at |-> "check", p |-> tick.p] /\ tick.p \in Confs /\ tick.at = "reset"
    BY <1>2, TickType DEF TickReset, Step, Next1
  <2>2. TypeOK'
    BY <1>2, <2>1, BoundsAssumption DEF TickReset, policy, work, TypeOK
  <2>3. SamplesAreOfLast'
    BY <1>2 DEF TickReset, SamplesAreOfLast
  <2>4. TickIsOfLast' /\ RunningIsTask' /\ TaskIsCancellable'
    BY <1>2, <2>1 DEF TickReset, work, TickIsOfLast, RunningIsTask, TaskIsCancellable
  <2> QED
    BY <2>2, <2>3, <2>4
<1> QED
  BY <1>1, <1>2

\* A check begins only while no task runs.
LEMMA TickCheckStep == ASSUME IInv, TickCheck PROVE IInv'
<1> USE DEF IInv
<1>1. tick.p \in Confs /\ tick.at = "check"
  BY TickType DEF TickCheck, Step
<1>2. tick' = IF running \/ ~rested THEN [at |-> "idle"] ELSE [at |-> "sample", p |-> tick.p]
  BY <1>1, TickType DEF TickCheck, Step, Next1, Idle
<1>3. TypeOK'
  BY <1>1, <1>2 DEF TickCheck, policy, work, TypeOK
<1>4. TickIsOfLast' /\ SamplesAreOfLast' /\ RunningIsTask'
  BY <1>1, <1>2 DEF TickCheck, work, TickIsOfLast, SamplesAreOfLast, RunningIsTask
<1>5. TaskIsCancellable'
  BY <1>1, <1>2 DEF TickCheck, work, RunningIsTask, TaskIsCancellable
<1> QED
  BY <1>3, <1>4, <1>5

\* The sample that is taken is of the policy the tick acts on, as all others are.
LEMMA TickSampleStep == ASSUME IInv, TickUnreadable \/ TickSample PROVE IInv'
<1> USE DEF IInv
<1>1. tick.p \in Confs /\ tick.at = "sample"
  BY TickType DEF TickUnreadable, TickSample, Step
<1>2. tick' \in {[at |-> "idle"], [at |-> "compare", p |-> tick.p]}
  BY <1>1, TickType DEF TickUnreadable, TickSample, Step, Next1, Idle
<1>3. UNCHANGED <<policy, last, rested, work>>
  BY DEF TickUnreadable, TickSample
<1>4. /\ samples' \in Seq(Samples) /\ Len(samples') <= MaxSamples
      /\ \A i \in 1..Len(samples') : samples'[i].conf = last
  <2>1. last = tick.p /\ last # NoConf /\ \A i \in 1..Len(samples) : samples[i].conf = last
    BY <1>1, ConfsAssumption DEF TickIsOfLast, SamplesAreOfLast
  <2>2. CASE TickUnreadable
    BY <2>1, <2>2 DEF TickUnreadable, TypeOK
  <2>3. CASE TickSample
    <3> DEFINE e == [conf |-> tick.p, old |-> FALSE]
    <3>1. PICK n \in 0..Len(samples) :
            /\ Len(samples) - n < MaxSamples
            /\ samples' = Append(SubSeq(samples, n + 1, Len(samples)), e)
      BY <2>3 DEF TickSample
    <3>2. e \in Samples /\ e.conf = tick.p /\ samples \in Seq(Samples)
      BY <1>1 DEF Samples, TypeOK
    <3> HIDE DEF e
    <3>3. /\ samples' \in Seq(Samples) /\ Len(samples') = Len(samples) - n + 1
          /\ \A i \in 1..Len(samples') : samples'[i] = e \/ \E j \in 1..Len(samples) : samples'[i] = samples[j]
      BY <3>1, <3>2, Appended
    <3>4. Len(samples') <= MaxSamples
      BY <3>1, <3>2, <3>3, BoundsAssumption
    <3> QED
      BY <2>1, <3>2, <3>3, <3>4
  <2> QED
    BY <2>2, <2>3
<1>5. TypeOK'
  BY <1>1, <1>2, <1>3, <1>4 DEF policy, work, TypeOK
<1>6. TickIsOfLast' /\ SamplesAreOfLast' /\ RunningIsTask'
  BY <1>1, <1>2, <1>3, <1>4 DEF work, TickIsOfLast, SamplesAreOfLast, RunningIsTask
<1>7. TaskIsCancellable'
  BY <1>1, <1>2, <1>3 DEF work, TaskIsCancellable
<1> QED
  BY <1>5, <1>6, <1>7

\* The comparison leads to a launch or to the end of the tick.
LEMMA TickCompareStep == ASSUME IInv, TickCompare PROVE IInv'
<1> USE DEF IInv
<1>1. tick.p \in Confs /\ tick.at = "compare"
  BY TickType DEF TickCompare, Step
<1>2. tick' \in {[at |-> "idle"], [at |-> "launch", p |-> tick.p]}
  BY <1>1, TickType DEF TickCompare, Step, Next1, Idle
<1>3. TypeOK'
  BY <1>1, <1>2 DEF TickCompare, policy, work, TypeOK
<1>4. TickIsOfLast' /\ SamplesAreOfLast' /\ RunningIsTask'
  BY <1>1, <1>2 DEF TickCompare, work, TickIsOfLast, SamplesAreOfLast, RunningIsTask
<1>5. TaskIsCancellable'
  BY <1>1, <1>2 DEF TickCompare, work, TaskIsCancellable
<1> QED
  BY <1>3, <1>4, <1>5

\* The task is launched with its cancel function in place.
LEMMA TickLaunchStep == ASSUME IInv, TickLaunch PROVE IInv'
<1> USE DEF IInv
<1>1. TypeOK'
  BY DEF TickLaunch, Step, Idle, policy, TypeOK
<1>2. TickIsOfLast' /\ SamplesAreOfLast' /\ RunningIsTask' /\ TaskIsCancellable'
  BY DEF TickLaunch, Step, Idle, TickIsOfLast, SamplesAreOfLast, RunningIsTask, TaskIsCancellable
<1> QED
  BY <1>1, <1>2

-----------------------------------------------------------------------------
\* Every step keeps the invariant.
LEMMA NextIInv == IInv /\ [Next]_vars => IInv'
<1> SUFFICES ASSUME IInv, [Next]_vars PROVE IInv'
  OBVIOUS
<1>1. CASE UNCHANGED vars
  BY <1>1 DEF vars, policy, work, IInv, TypeOK, TickIsOfLast, SamplesAreOfLast, RunningIsTask, TaskIsCancellable
<1>2. CASE (\E k \in Pulls : PullCancels(k) \/ \E c \in Confs \cup {NoConf} : Pull(k, c)) \/ Reconcile
  BY <1>2, PolicyStep
<1>3. CASE TaskReturns \/ TaskCleans \/ Rest
  BY <1>3, TaskStep
<1>4. CASE Age
  BY <1>4, AgeStep
<1>5. CASE Restart
  BY <1>5, RestartStep
<1>6. CASE Tick
  BY <1>6, TickReadStep, TickAdoptStep, TickResetStep, TickCheckStep, TickSampleStep, TickCompareStep,
     TickLaunchStep DEF Tick
<1> QED
  BY <1>1, <1>2, <1>3, <1>4, <1>5, <1>6 DEF Next

\* Every reachable state satisfies the invariant.
THEOREM AutomationInvariant == Spec => []IInv
<1>1. Init => IInv
  BY InitIInv
<1>2. IInv /\ [Next]_vars => IInv'
  BY NextIInv
<1> QED
  BY <1>1, <1>2, PTL DEF Spec

\* Every reachable state of the automation is type correct (automation.go).
THEOREM AutomationTypes == Spec => []TypeOK
<1>1. IInv => TypeOK
  BY DEF IInv
<1> QED
  BY <1>1, AutomationInvariant, PTL

\* A check compares only samples of the policy it acts on (automationTick).
THEOREM AutomationBaseline == Spec => []BaselineIsOfPolicy
<1>1. IInv => BaselineIsOfPolicy
  <2> SUFFICES ASSUME IInv, tick.at \in {"compare", "launch"}
               PROVE  \A i \in 1..Len(samples) : samples[i].conf = tick.p
    BY DEF BaselineIsOfPolicy
  <2>1. last = tick.p /\ last # NoConf
    BY TickType, ConfsAssumption DEF IInv, TickIsOfLast
  <2> QED
    BY <2>1 DEF IInv, SamplesAreOfLast
<1> QED
  BY <1>1, AutomationInvariant, PTL

\* There is one task at a time, and it can be cancelled (automationRunning, automationCancel).
THEOREM AutomationTask == Spec => []TaskIsCancellable
<1>1. IInv => TaskIsCancellable
  BY DEF IInv
<1> QED
  BY <1>1, AutomationInvariant, PTL
=============================================================================
