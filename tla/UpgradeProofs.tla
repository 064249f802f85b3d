---------------------------- MODULE UpgradeProofs ----------------------------
(***************************************************************************)
(* Proofs about Upgrade, for every set of masters, releases and goroutines *)
(* and every bound.  The binary stays whole because upgrading lets one     *)
(* download run at a time, so that what is renamed is what that download   *)
(* has written to its end; a mark stands because every handler that could  *)
(* still touch it, of a call under way or of one given up, names another   *)
(* release and has read a mark that it sends instead of clearing.          *)
(***************************************************************************)
EXTENDS Upgrade, TLAPS

(* What only a restart can meet: the daemon runs something else, and no handler takes it back. *)
OwedUnmet == \A m \in Masters : owed[m] # None =>
  /\ version # owed[m] /\ pending[m] = owed[m]
  /\ ~Meets(call[m], owed[m]) /\ ~Meets(late[m], owed[m])

(* a.upgrading is set while there is a download, and there is one at a time. *)
OneJob ==
  /\ \A j \in Jobs : job[j] # NoJob => upgrading
  /\ \A j, k \in Jobs : job[j] # NoJob /\ job[k] # NoJob => j = k

(* Nobody but the download writes its temporary. *)
TmpIsDownload == \A j \in Jobs :
  /\ job[j].at = "check"  => tmp \in {job[j].to, Page}
  /\ job[j].at = "rename" => tmp = job[j].to

IInv == TypeOK /\ OwedUnmet /\ OneJob /\ TmpIsDownload /\ ExeIsWhole

-----------------------------------------------------------------------------
\* What a download carries: its target is a release.
LEMMA JobType ==
  ASSUME TypeOK, NEW j \in Jobs, job[j] # NoJob
  PROVE  /\ job[j] = [at |-> job[j].at, to |-> job[j].to] /\ job[j].to \in Versions
         /\ job[j].at \in {"fetch", "copy", "check", "rename", "restart"}
BY DEF TypeOK, NoJob

\* What a handler at work carries, be its call under way or given up.
LEMMA CallType ==
  ASSUME TypeOK, NEW m \in Masters, NEW h \in {call[m], late[m]}
  PROVE  /\ h \in Calls
         /\ h.at = "sent" => h.v \in Versions
         /\ h.at \in {"read", "touched"} => h.v \in Versions /\ h.p \in Versions \cup {None}
         /\ h.at = "answered" => h.to \in Versions \cup {None}
<1>1. h \in Calls
  BY DEF TypeOK
<1> QED
  BY <1>1 DEF Calls, NoCall

\* An answer, or no call at all, takes no mark back.
LEMMA NoneMeets == \A v, t : ~Meets(NoCall, v) /\ ~Meets([at |-> "answered", to |-> t], v)
BY DEF Meets, NoCall

\* Handlers that give way to others of their master, or to none, disturb no mark.
LEMMA HandlersStep ==
  ASSUME OwedUnmet, UNCHANGED <<owed, version>>,
         \A m \in Masters : owed[m] # None => pending'[m] = pending[m],
         \A m \in Masters : \A h \in {call'[m], late'[m]} :
           h \in {call[m], late[m], NoCall} \/ (owed[m] # None => ~Meets(h, owed[m]))
  PROVE  OwedUnmet'
<1> SUFFICES ASSUME NEW m \in Masters, owed[m] # None
             PROVE  /\ version # owed[m] /\ pending'[m] = owed[m]
                    /\ ~Meets(call'[m], owed[m]) /\ ~Meets(late'[m], owed[m])
  <2>1. \A m \in Masters : Meets(call[m], owed[m])' = Meets(call'[m], owed'[m])
    BY DEF Meets
  <2>2. \A m \in Masters : Meets(late[m], owed[m])' = Meets(late'[m], owed'[m])
    BY DEF Meets
  <2> QED
    BY <2>1, <2>2 DEF OwedUnmet
<1>1. \A h \in {call[m], late[m], NoCall} : ~Meets(h, owed[m])
  BY NoneMeets DEF OwedUnmet
<1> QED
  BY <1>1 DEF OwedUnmet

\* A handler goes on, and no other does.
LEMMA ServeFacts ==
  ASSUME TypeOK, NEW m \in Masters, NEW h \in {call[m], late[m]}, NEW g \in Calls, Serve(m, h, g)
  PROVE  /\ call' \in [Masters -> Calls] /\ late' \in [Masters -> {c \in Calls : c.at # "answered"}]
         /\ \A n \in Masters : \A c \in {call'[n], late'[n]} :
              c \in {call[n], late[n], NoCall} \/ (n = m /\ c = g)
<1>1. NoCall \in Calls /\ NoCall.at # "answered"
  BY DEF Calls, NoCall
<1>2. call \in [Masters -> Calls] /\ late \in [Masters -> {c \in Calls : c.at # "answered"}]
  BY DEF TypeOK
<1>3. CASE call' = [call EXCEPT ![m] = g] /\ UNCHANGED late
  BY <1>2, <1>3
<1>4. CASE UNCHANGED call /\ late' = [late EXCEPT ![m] = IF g.at = "answered" THEN NoCall ELSE g]
  BY <1>1, <1>2, <1>4
<1> QED
  BY <1>3, <1>4 DEF Serve

\* The initial state satisfies the invariant.
LEMMA InitIInv == Init => IInv
<1> SUFFICES ASSUME Init PROVE IInv
  OBVIOUS
<1>1. TypeOK
  <2>1. call \in [Masters -> Calls] /\ job \in [Jobs -> {NoJob}]
    BY DEF Init, Calls
  <2>4. late \in [Masters -> {h \in Calls : h.at # "answered"}]
    BY DEF Init, Calls, NoCall
  <2>2. /\ shown \in [Masters -> Versions \cup {None}] /\ pending \in [Masters -> Versions \cup {None}]
        /\ owed \in [Masters -> Versions \cup {None}]
        /\ exe \in Versions /\ tmp = None
    BY DEF Init
  <2>3. asks \in 0..MaxAsks /\ faults \in 0..MaxFaults
    BY BoundsAssumption DEF Init
  <2> QED
    BY <2>1, <2>2, <2>3, <2>4 DEF Init, TypeOK
<1>2. OwedUnmet
  BY DEF Init, OwedUnmet
<1>3. OneJob /\ TmpIsDownload
  BY DEF Init, OneJob, TmpIsDownload, NoJob
<1>4. ExeIsWhole
  BY DEF Init, ExeIsWhole
<1> QED
  BY <1>1, <1>2, <1>3, <1>4 DEF IInv

-----------------------------------------------------------------------------
(* The panel, the handlers and the calls: no download is touched. *)

\* Marks and releases: requests of the panel and updates of a master.
LEMMA PanelStep ==
  ASSUME IInv, NEW m \in Masters, Ask(m) \/ UpdateMaster(m)
  PROVE  IInv'
<1> USE DEF IInv
<1>1. /\ release' \in [Masters -> Versions] /\ asks' \in 0..MaxAsks
      /\ pending' \in [Masters -> Versions \cup {None}] /\ owed' \in [Masters -> Versions \cup {None}]
      /\ UNCHANGED <<shown, call, late, warm, version, upgrading, job, exe, tmp, restarting, faults>>
  BY BoundsAssumption DEF Ask, UpdateMaster, TypeOK, daemon, files, calls
<1>2. TypeOK'
  BY <1>1 DEF TypeOK
<1>3. OwedUnmet'
  <2>1. CASE UpdateMaster(m)
    BY <1>1, <2>1, HandlersStep DEF UpdateMaster
  <2>2. ASSUME Ask(m), NEW n \in Masters, owed'[n] # None
        PROVE  /\ version # owed'[n] /\ pending'[n] = owed'[n]
               /\ ~Meets(call[n], owed'[n]) /\ ~Meets(late[n], owed'[n])
    <3>1. CASE n = m
      BY <2>2, <3>1 DEF Ask, TypeOK
    <3>2. CASE n # m
      BY <2>2, <3>2 DEF Ask, TypeOK, OwedUnmet
    <3> QED
      BY <3>1, <3>2
  <2>3. CASE Ask(m)
    <3>1. \A n \in Masters : Meets(call[n], owed[n])' = Meets(call[n], owed'[n])
      BY <1>1 DEF Meets
    <3>2. \A n \in Masters : Meets(late[n], owed[n])' = Meets(late[n], owed'[n])
      BY <1>1 DEF Meets
    <3> QED
      BY <1>1, <2>2, <2>3, <3>1, <3>2 DEF OwedUnmet
  <2> QED
    BY <2>1, <2>3
<1>4. OneJob' /\ TmpIsDownload' /\ ExeIsWhole'
  BY <1>1 DEF OneJob, TmpIsDownload, ExeIsWhole
<1> QED
  BY <1>2, <1>3, <1>4

\* What the handlers and the calls leave alone.
LEMMA OtherStep ==
  ASSUME IInv, UNCHANGED <<release, owed, version, upgrading, job, files, restarting, asks>>,
         call' \in [Masters -> Calls], late' \in [Masters -> {c \in Calls : c.at # "answered"}],
         pending' \in [Masters -> Versions \cup {None}], shown' \in [Masters -> Versions \cup {None}],
         warm' \subseteq Masters, faults' \in 0..MaxFaults, OwedUnmet'
  PROVE  IInv'
<1>1. TypeOK'
  BY DEF IInv, TypeOK, files
<1>2. OneJob' /\ TmpIsDownload' /\ ExeIsWhole'
  BY DEF IInv, OneJob, TmpIsDownload, ExeIsWhole, files
<1> QED
  BY <1>1, <1>2 DEF IInv

\* A handler takes one step at the master; one that meets what is owed would have been seen before.
LEMMA HandlerStep ==
  ASSUME IInv, NEW m \in Masters, ReadRow(m) \/ Touch(m) \/ Direct(m)
  PROVE  IInv'
<1> USE DEF IInv
<1>1. /\ UNCHANGED <<release, owed, version, upgrading, job, files, restarting, asks>>
      /\ warm' \subseteq Masters /\ faults' \in 0..MaxFaults
  BY DEF ReadRow, Touch, Direct, master, daemon, bounds, TypeOK
<1>2. pending \in [Masters -> Versions \cup {None}] /\ shown \in [Masters -> Versions \cup {None}]
  BY DEF TypeOK
<1>3. ASSUME NEW h \in {call[m], late[m]}, NEW g \in Calls, Serve(m, h, g),
             owed[m] # None => ~Meets(g, owed[m]) /\ pending'[m] = pending[m],
             \A n \in Masters \ {m} : pending'[n] = pending[n]
      PROVE  OwedUnmet'
  <2>1. \A n \in Masters : \A c \in {call'[n], late'[n]} :
          c \in {call[n], late[n], NoCall} \/ (n = m /\ c = g)
    BY <1>3, ServeFacts
  <2> QED
    BY <1>1, <1>3, <2>1, HandlersStep
<1>4. ASSUME NEW h \in {call[m], late[m]} PROVE owed[m] # None => ~Meets(h, owed[m]) /\ pending[m] = owed[m]
  BY DEF OwedUnmet
<1>5. CASE ReadRow(m)
  <2>1. PICK h \in {call[m], late[m]} :
          h.at = "sent" /\ Serve(m, h, [at |-> "read", v |-> h.v, p |-> pending[m]])
    BY <1>5 DEF ReadRow
  <2> DEFINE g == [at |-> "read", v |-> h.v, p |-> pending[m]]
  <2>2. g \in Calls
    BY <1>2, <2>1, CallType DEF Calls
  <2>3. owed[m] # None => ~Meets(g, owed[m])
    BY <1>4, <2>1 DEF Meets
  <2>4. UNCHANGED <<pending, shown>>
    BY <1>5 DEF ReadRow, master
  <2>5. OwedUnmet'
    BY <1>3, <2>1, <2>2, <2>3, <2>4
  <2> QED
    BY <1>1, <1>2, <2>1, <2>2, <2>4, <2>5, ServeFacts, OtherStep
<1>6. CASE Touch(m)
  <2>1. PICK h \in {call[m], late[m]} :
          /\ h.at = "read" /\ Serve(m, h, [at |-> "touched", v |-> h.v, p |-> h.p])
          /\ shown' = [shown EXCEPT ![m] = h.v]
    BY <1>6 DEF Touch
  <2> DEFINE g == [at |-> "touched", v |-> h.v, p |-> h.p]
  <2>2. g \in Calls /\ h.v \in Versions
    BY <2>1, CallType DEF Calls
  <2>3. owed[m] # None => ~Meets(g, owed[m])
    BY <1>4, <2>1 DEF Meets
  <2>4. pending' = pending /\ shown' \in [Masters -> Versions \cup {None}]
    BY <1>2, <1>6, <2>1, <2>2 DEF Touch
  <2>5. OwedUnmet'
    BY <1>3, <2>1, <2>2, <2>3, <2>4
  <2> QED
    BY <1>1, <1>2, <2>1, <2>2, <2>4, <2>5, ServeFacts, OtherStep
<1>7. CASE Direct(m)
  <2>1. PICK h \in {call[m], late[m]} :
          /\ h.at = "touched"
          /\ Serve(m, h, [at |-> "answered", to |-> IF h.p = h.v THEN None ELSE h.p])
          /\ pending' = [pending EXCEPT ![m] = IF h.p = h.v THEN None ELSE @]
    BY <1>7 DEF Direct
  <2> DEFINE g == [at |-> "answered", to |-> IF h.p = h.v THEN None ELSE h.p]
  <2>2. g \in Calls
    BY <2>1, CallType DEF Calls
  <2>3. ~Meets(g, owed[m])
    BY NoneMeets
  <2>4. /\ owed[m] # None => pending'[m] = pending[m]
        /\ \A n \in Masters \ {m} : pending'[n] = pending[n]
    BY <1>2, <1>4, <2>1 DEF Meets
  <2>5. shown' = shown /\ pending' \in [Masters -> Versions \cup {None}]
    BY <1>2, <1>7, <2>1 DEF Direct
  <2>6. OwedUnmet'
    BY <1>3, <2>1, <2>2, <2>3, <2>4
  <2> QED
    BY <1>1, <1>2, <2>1, <2>2, <2>5, <2>6, ServeFacts, OtherStep
<1> QED
  BY <1>5, <1>6, <1>7

\* Calls that are given up leave at most their handlers behind.
LEMMA GivesUpFacts ==
  ASSUME TypeOK, NEW ms \in SUBSET Masters, GivesUp(ms)
  PROVE  /\ call' \in [Masters -> Calls] /\ late' \in [Masters -> {c \in Calls : c.at # "answered"}]
         /\ \A n \in Masters : call'[n] \in {call[n], NoCall} /\ late'[n] \in {call[n], late[n]}
<1>1. NoCall \in Calls
  BY DEF Calls
<1>2. call \in [Masters -> Calls] /\ late \in [Masters -> {c \in Calls : c.at # "answered"}]
  BY DEF TypeOK
<1>3. PICK on \in SUBSET {m \in ms \cap Slow : call[m].at \in AtMaster} :
        late' = [m \in Masters |-> IF m \in on THEN call[m] ELSE late[m]]
  BY DEF GivesUp
<1>4. \A m \in on : call[m].at # "answered"
  BY <1>3 DEF AtMaster
<1>5. late' \in [Masters -> {c \in Calls : c.at # "answered"}]
  BY <1>2, <1>3, <1>4
<1>6. call' \in [Masters -> Calls] /\ \A n \in Masters : call'[n] \in {call[n], NoCall}
  BY <1>1, <1>2 DEF GivesUp
<1> QED
  BY <1>3, <1>5, <1>6

\* A call is sent or given up, or a handler given up is cancelled.
LEMMA CallStep ==
  ASSUME IInv, NEW m \in Masters, Beat(m) \/ CallFails(m) \/ LateEnds(m)
  PROVE  IInv'
<1> USE DEF IInv
<1>1. /\ UNCHANGED <<release, pending, shown, owed, version, upgrading, job, files, restarting, asks>>
      /\ warm' \subseteq Masters /\ faults' \in 0..MaxFaults
  BY BoundsAssumption DEF Beat, CallFails, LateEnds, Fault, master, daemon, bounds, TypeOK
<1>2. /\ pending \in [Masters -> Versions \cup {None}] /\ shown \in [Masters -> Versions \cup {None}]
      /\ call \in [Masters -> Calls] /\ late \in [Masters -> {c \in Calls : c.at # "answered"}]
  BY DEF TypeOK
<1>3. CASE Beat(m)
  <2> DEFINE g == [at |-> "sent", v |-> version]
  <2>1. g \in Calls
    BY DEF Calls, TypeOK
  <2>2. call' = [call EXCEPT ![m] = g] /\ late' = late
    BY <1>3 DEF Beat
  <2>3. owed[m] # None => ~Meets(g, owed[m])
    BY DEF OwedUnmet, Meets
  <2>4. OwedUnmet'
    BY <1>1, <1>2, <2>2, <2>3, HandlersStep
  <2> QED
    BY <1>1, <1>2, <2>1, <2>2, <2>4, OtherStep
<1>4. CASE CallFails(m)
  <2>1. GivesUp({m})
    BY <1>4 DEF CallFails
  <2>2. OwedUnmet'
    BY <1>1, <2>1, GivesUpFacts, HandlersStep
  <2> QED
    BY <1>1, <1>2, <2>1, <2>2, GivesUpFacts, OtherStep
<1>5. CASE LateEnds(m)
  <2>1. call' = call /\ late' = [late EXCEPT ![m] = NoCall]
    BY <1>5 DEF LateEnds
  <2>2. late' \in [Masters -> {c \in Calls : c.at # "answered"}]
    BY <1>2, <2>1 DEF Calls, NoCall
  <2>3. OwedUnmet'
    BY <1>1, <1>2, <2>1, HandlersStep
  <2> QED
    BY <1>1, <1>2, <2>1, <2>2, <2>3, OtherStep
<1> QED
  BY <1>3, <1>4, <1>5

\* An answer may start a download, if there is none.
LEMMA AnsweredStep ==
  ASSUME IInv, NEW m \in Masters, Answered(m)
  PROVE  IInv'
<1> USE DEF IInv
<1>1. call' = [call EXCEPT ![m] = NoCall] /\ warm' = warm \ {m}
      /\ UNCHANGED <<master, late, version, files, restarting, bounds>>
  BY DEF Answered
<1>2. call' \in [Masters -> Calls]
  BY <1>1 DEF TypeOK, Calls
<1>3. OwedUnmet'
  BY <1>1, HandlersStep DEF TypeOK, master
<1>4. CASE UNCHANGED <<job, upgrading>>
  <2>1. TypeOK'
    BY <1>1, <1>2, <1>4 DEF TypeOK, master, files, bounds
  <2> QED
    BY <1>1, <1>3, <1>4, <2>1 DEF OneJob, TmpIsDownload, ExeIsWhole, files
<1>5. ASSUME NEW j \in Jobs, ~upgrading, upgrading', call[m].to \in Versions,
             job' = [job EXCEPT ![j] = [at |-> "fetch", to |-> call[m].to]]
      PROVE  IInv'
  <2>1. job' \in [Jobs -> {NoJob} \cup [at : {"fetch", "copy", "check", "rename", "restart"}, to : Versions]]
    BY <1>5 DEF TypeOK
  <2>2. upgrading' \in BOOLEAN
    BY DEF Answered, MaybeSelfUpgrade, TypeOK
  <2>3. TypeOK'
    BY <1>1, <1>2, <2>1, <2>2 DEF TypeOK, master, files, bounds
  <2>4. \A k \in Jobs : job[k] = NoJob
    BY <1>5 DEF OneJob
  <2>5. OneJob'
    BY <1>5, <2>4 DEF OneJob, TypeOK
  <2>6. TmpIsDownload'
    BY <1>5, <2>4 DEF TmpIsDownload, TypeOK, NoJob
  <2> QED
    BY <1>1, <1>3, <2>3, <2>5, <2>6 DEF ExeIsWhole, files
<1>6. UNCHANGED <<job, upgrading>> \/ (call[m].to \in Versions /\ MaybeSelfUpgrade(call[m].to))
  BY CallType DEF Answered
<1>7. ASSUME call[m].to \in Versions, MaybeSelfUpgrade(call[m].to) PROVE IInv'
  <2>1. CASE upgrading
    BY <1>4, <1>7, <2>1 DEF MaybeSelfUpgrade
  <2>2. CASE ~upgrading
    BY <1>5, <1>7, <2>2 DEF MaybeSelfUpgrade, Free
  <2> QED
    BY <2>1, <2>2
<1> QED
  BY <1>4, <1>6, <1>7

-----------------------------------------------------------------------------
(* The download. *)

\* While one download works, all others are idle.
LEMMA Alone ==
  ASSUME IInv, NEW j \in Jobs, job[j] # NoJob
  PROVE  upgrading /\ \A k \in Jobs \ {j} : job[k] = NoJob
BY DEF IInv, OneJob

\* A download that returns leaves no download, and the binary it found or has put in place.
LEMMA ReturnStep ==
  ASSUME IInv, NEW j \in Jobs, job[j] # NoJob, Returns(j), exe' = exe,
         tmp' \in {tmp, None}, UNCHANGED <<master, calls, warm, version, asks>>,
         restarting' \in BOOLEAN, faults' \in 0..MaxFaults
  PROVE  IInv'
<1> USE DEF IInv
<1>1. job' = [job EXCEPT ![j] = NoJob] /\ upgrading' = FALSE
  BY DEF Returns
<1>2. \A k \in Jobs : job'[k] = NoJob
  BY <1>1, Alone DEF TypeOK
<1>3. TypeOK'
  BY <1>1 DEF TypeOK, master, calls
<1>4. OwedUnmet' /\ ExeIsWhole'
  BY HandlersStep DEF ExeIsWhole, master, calls
<1>5. OneJob' /\ TmpIsDownload'
  BY <1>2 DEF OneJob, TmpIsDownload, NoJob
<1> QED
  BY <1>3, <1>4, <1>5

\* A download that goes on finds its temporary as the next stage needs it.
LEMMA GoStep ==
  ASSUME IInv, NEW j \in Jobs, job[j] # NoJob,
         NEW at \in {"copy", "check", "rename", "restart"}, Goes(j, at),
         UNCHANGED <<master, calls, warm, version, restarting, asks>>, faults' \in 0..MaxFaults,
         exe' \in Versions, tmp' \in Versions \cup {None, Part, Page},
         at = "check" => tmp' \in {job[j].to, Page}, at = "rename" => tmp' = job[j].to
  PROVE  IInv'
<1> USE DEF IInv
<1>1. job' = [job EXCEPT ![j] = [at |-> at, to |-> job[j].to]] /\ upgrading' = upgrading
  <2>1. \A a, t : [[at |-> a, to |-> t] EXCEPT !.at = at] = [at |-> at, to |-> t]
    OBVIOUS
  <2>2. job[j] = [at |-> job[j].at, to |-> job[j].to]
    BY JobType
  <2>3. [job[j] EXCEPT !.at = at] = [at |-> at, to |-> job[j].to]
    BY <2>1, <2>2, Zenon
  <2> QED
    BY <2>3 DEF Goes, TypeOK
<1>2. job' \in [Jobs -> {NoJob} \cup [at : {"fetch", "copy", "check", "rename", "restart"}, to : Versions]]
  BY <1>1, JobType DEF TypeOK
<1>3. TypeOK'
  BY <1>1, <1>2 DEF TypeOK, master, calls
<1>4. OwedUnmet' /\ ExeIsWhole'
  BY HandlersStep DEF ExeIsWhole, master, calls
<1>5. \A k \in Jobs \ {j} : job'[k] = NoJob
  BY <1>1, Alone DEF TypeOK
<1>6. OneJob'
  BY <1>1, <1>5, Alone DEF OneJob
<1>7. TmpIsDownload'
  BY <1>1, <1>5 DEF TmpIsDownload, NoJob, TypeOK
<1> QED
  BY <1>3, <1>4, <1>6, <1>7

\* Every step of a download is one of the two.
LEMMA JobStep == ASSUME IInv, NEW j \in Jobs, Job(j) PROVE IInv'
<1> USE DEF IInv
<1>1. job[j] # NoJob
  BY DEF Job, Open, FetchFails, Copy, CopyFails, CheckSize, Rename, RenameFails, RequestRestart, NoJob
<1>2. job[j].to \in Versions
  BY <1>1, JobType
<1>3. exe \in Versions /\ faults \in 0..MaxFaults /\ restarting \in BOOLEAN
      /\ tmp \in Versions \cup {None, Part, Page}
  BY DEF TypeOK, ExeIsWhole
<1>4. Fault => faults' \in 0..MaxFaults
  BY <1>3, BoundsAssumption DEF Fault
<1>5. CASE Open(j)
  BY <1>1, <1>3, <1>5, GoStep DEF Open, bounds
<1>6. CASE FetchFails(j)
  BY <1>1, <1>3, <1>4, <1>6, ReturnStep DEF FetchFails, files
<1>7. CASE Copy(j)
  BY <1>1, <1>2, <1>3, <1>4, <1>7, GoStep DEF Copy
<1>8. CASE CopyFails(j)
  BY <1>1, <1>3, <1>4, <1>8, ReturnStep DEF CopyFails
<1>9. CASE CheckSize(j)
  <2>1. CASE tmp \in {None, Page}
    BY <1>1, <1>3, <1>9, <2>1, ReturnStep DEF CheckSize, bounds
  <2>2. CASE tmp \notin {None, Page}
    <3>1. tmp = job[j].to
      BY <1>9, <2>2 DEF CheckSize, TmpIsDownload
    <3> QED
      BY <1>1, <1>3, <1>9, <2>2, <3>1, GoStep DEF CheckSize, bounds
  <2> QED
    BY <2>1, <2>2
<1>10. CASE Rename(j)
  <2>1. tmp = job[j].to
    BY <1>10 DEF Rename, TmpIsDownload
  <2> QED
    BY <1>1, <1>2, <1>3, <1>10, <2>1, GoStep DEF Rename, bounds
<1>11. CASE RenameFails(j)
  BY <1>1, <1>3, <1>4, <1>11, ReturnStep DEF RenameFails
<1>12. CASE RequestRestart(j)
  BY <1>1, <1>3, <1>12, ReturnStep DEF RequestRestart, files, bounds
<1> QED
  BY <1>5, <1>6, <1>7, <1>8, <1>9, <1>10, <1>11, <1>12 DEF Job

\* The next daemon runs what is installed, which no mark asks for any more, with no download.
LEMMA RebootStep == ASSUME IInv, Restart \/ Die PROVE IInv'
<1> USE DEF IInv
<1>1. Reboot /\ asks' = asks /\ faults' \in 0..MaxFaults
  BY BoundsAssumption DEF Restart, Die, Fault, bounds, TypeOK
<1>2. /\ call' \in [Masters -> Calls] /\ late' \in [Masters -> {c \in Calls : c.at # "answered"}]
      /\ \A n \in Masters : call'[n] \in {call[n], NoCall} /\ late'[n] \in {call[n], late[n]}
  BY <1>1, GivesUpFacts DEF Reboot
<1>3. owed' = [m \in Masters |-> IF owed[m] = exe THEN None ELSE owed[m]]
  BY <1>1 DEF Reboot
<1>4. TypeOK'
  <2>1. owed' \in [Masters -> Versions \cup {None}]
    BY <1>3 DEF TypeOK
  <2> QED
    BY <1>1, <1>2, <2>1 DEF Reboot, TypeOK, files
<1>5. OwedUnmet'
  <2>1. ASSUME NEW m \in Masters, owed'[m] # None
        PROVE  /\ version' # owed'[m] /\ pending'[m] = owed'[m]
               /\ ~Meets(call'[m], owed'[m]) /\ ~Meets(late'[m], owed'[m])
    <3>1. owed'[m] = owed[m] /\ owed[m] # exe /\ owed[m] # None
      BY <1>3, <2>1
    <3>2. \A h \in {call[m], late[m], NoCall} : ~Meets(h, owed[m])
      BY <3>1, NoneMeets DEF OwedUnmet
    <3> QED
      BY <1>1, <1>2, <3>1, <3>2 DEF Reboot, OwedUnmet
  <2>2. \A m \in Masters : /\ Meets(call[m], owed[m])' = Meets(call'[m], owed'[m])
                           /\ Meets(late[m], owed[m])' = Meets(late'[m], owed'[m])
    BY DEF Meets
  <2> QED
    BY <2>1, <2>2 DEF OwedUnmet
<1>6. OneJob' /\ TmpIsDownload'
  BY <1>1 DEF Reboot, OneJob, TmpIsDownload, NoJob
<1>7. ExeIsWhole'
  BY <1>1 DEF Reboot, ExeIsWhole, files
<1> QED
  BY <1>4, <1>5, <1>6, <1>7

-----------------------------------------------------------------------------
\* Every step keeps the invariant.
LEMMA NextIInv == IInv /\ [Next]_vars => IInv'
<1> SUFFICES ASSUME IInv, [Next]_vars PROVE IInv'
  OBVIOUS
<1>1. CASE UNCHANGED vars
  <2>1. OwedUnmet'
    BY <1>1, HandlersStep DEF vars, master, calls, daemon, IInv
  <2> QED
    BY <1>1, <2>1 DEF vars, master, calls, daemon, files, bounds, IInv, TypeOK, OneJob, TmpIsDownload, ExeIsWhole
<1>2. ASSUME NEW m \in Masters, Ask(m) \/ UpdateMaster(m) PROVE IInv'
  BY <1>2, PanelStep
<1>3. ASSUME NEW m \in Masters, ReadRow(m) \/ Touch(m) \/ Direct(m) PROVE IInv'
  BY <1>3, HandlerStep
<1>7. ASSUME NEW m \in Masters, Beat(m) \/ CallFails(m) \/ LateEnds(m) PROVE IInv'
  BY <1>7, CallStep
<1>4. ASSUME NEW m \in Masters, Answered(m) PROVE IInv'
  BY <1>4, AnsweredStep
<1>5. ASSUME NEW j \in Jobs, Job(j) PROVE IInv'
  BY <1>5, JobStep
<1>6. CASE Restart \/ Die
  BY <1>6, RebootStep
<1> QED
  BY <1>1, <1>2, <1>3, <1>4, <1>5, <1>6, <1>7 DEF Next

\* Every reachable state satisfies the invariant.
THEOREM UpgradeInvariant == Spec => []IInv
<1>1. Init => IInv
  BY InitIInv
<1>2. IInv /\ [Next]_vars => IInv'
  BY NextIInv
<1> QED
  BY <1>1, <1>2, PTL DEF Spec

\* Every reachable state of the self-upgrade is type correct.
THEOREM UpgradeTypes == Spec => []TypeOK
<1>1. IInv => TypeOK
  BY DEF IInv
<1> QED
  BY <1>1, UpgradeInvariant, PTL

\* What is installed is a whole binary in every reachable state (selfUpgrade).
THEOREM UpgradeExeIsWhole == Spec => []ExeIsWhole
<1>1. IInv => ExeIsWhole
  BY DEF IInv
<1> QED
  BY <1>1, UpgradeInvariant, PTL

\* A mark that no running daemon and no heartbeat under way meets stands until the agent is
\* restarted into its target or the panel asks anew, though calls, answers and daemons are lost
\* and handlers outlive them (handleAgentHeartbeat).
THEOREM UpgradeMarksStand == Spec => []MarksStand
<1>1. IInv => MarksStand
  BY DEF IInv, OwedUnmet, MarksStand
<1> QED
  BY <1>1, UpgradeInvariant, PTL

-----------------------------------------------------------------------------
(* The installed binary as a file that downloads replace: a job saves its target from the  *)
(* answer to its request until the rename.                                                 *)

Unsaved == {"fetch", "copy", "check", "rename"}
Saving  == [j \in Jobs |-> IF job[j].at \in Unsaved THEN job[j].to ELSE None]
Loads   == [r \in {} |-> None]

Binary == INSTANCE AtomicFile WITH
  Writers <- Jobs, Readers <- {}, Docs <- Versions, NoDoc <- None,
  value <- exe, saving <- Saving, loaded <- Loads

\* A job that ends, wherever it was, saves nothing any more; the others go on.
LEMMA AbortMaps ==
  ASSUME NEW js \in SUBSET Jobs, job' = [j \in Jobs |-> IF j \in js THEN NoJob ELSE job[j]],
         exe' = exe
  PROVE  Binary!Next
<1>1. Saving' = [j \in Jobs |-> IF j \in js THEN None ELSE Saving[j]]
  BY DEF Saving, Unsaved, NoJob
<1>2. Binary!Abort(js)
  BY <1>1 DEF Binary!Abort, Loads
<1> QED
  BY <1>2 DEF Binary!Next

\* A step of the jobs that changes neither what they save nor the binary is a stutter.
LEMMA KeepMaps ==
  ASSUME \A j \in Jobs : job'[j].at \in Unsaved <=> job[j].at \in Unsaved,
         \A j \in Jobs : job[j].at \in Unsaved => job'[j].to = job[j].to,
         exe' = exe
  PROVE  UNCHANGED Binary!vars
BY DEF Binary!vars, Saving, Loads

\* The steps of a download.
LEMMA JobMaps ==
  ASSUME IInv, NEW j \in Jobs, Job(j)
  PROVE  [Binary!Next]_(Binary!vars)
<1>1. /\ job \in [Jobs -> {NoJob} \cup [at : {"fetch", "copy", "check", "rename", "restart"}, to : Versions]]
      /\ None \notin Versions
  BY ContentsAssumption DEF IInv, TypeOK
<1>2. ASSUME Returns(j), exe' = exe PROVE Binary!Next
  <2>1. job' = [i \in Jobs |-> IF i \in {j} THEN NoJob ELSE job[i]]
    BY <1>1, <1>2 DEF Returns
  <2> QED
    BY <1>2, <2>1, AbortMaps
<1>3. ASSUME NEW at \in Unsaved, Goes(j, at), job[j].at \in Unsaved, exe' = exe
      PROVE  UNCHANGED Binary!vars
  <2>1. job[j] = [at |-> job[j].at, to |-> job[j].to]
    BY <1>3, JobType DEF Unsaved, NoJob, IInv
  <2>2. job'[j].at = at /\ job'[j].to = job[j].to
    BY <1>1, <1>3, <2>1 DEF Goes
  <2>3. \A i \in Jobs \ {j} : job'[i] = job[i]
    BY <1>1, <1>3 DEF Goes
  <2>4. \A i \in Jobs : /\ job'[i].at \in Unsaved <=> job[i].at \in Unsaved
                        /\ job'[i].to = job[i].to
    BY <1>3, <2>2, <2>3
  <2> QED
    BY <1>3, <2>4, KeepMaps
<1>4. ASSUME Rename(j) PROVE Binary!Next
  <2>1. job[j] = [at |-> "rename", to |-> job[j].to] /\ job[j].to \in Versions
    BY <1>4, JobType DEF Rename, NoJob, IInv
  <2>2. exe' = job[j].to
    BY <1>4 DEF Rename, IInv, TmpIsDownload
  <2>3. job'[j].at = "restart" /\ \A i \in Jobs \ {j} : job'[i] = job[i]
    BY <1>1, <1>4, <2>1 DEF Rename, Goes
  <2>4. Saving[j] = job[j].to
    BY <2>1 DEF Saving, Unsaved
  <2>5. Saving' = [Saving EXCEPT ![j] = None]
    <3>1. \A i \in Jobs : Saving'[i] = IF i = j THEN None ELSE Saving[i]
      BY <2>3 DEF Saving, Unsaved
    <3> QED
      BY <3>1 DEF Saving
  <2>6. Binary!Commit(j)
    BY <1>1, <2>1, <2>2, <2>4, <2>5 DEF Binary!Commit, Loads
  <2> QED
    BY <2>6 DEF Binary!Next
<1>5. CASE Open(j)
  BY <1>3, <1>5 DEF Open, Unsaved
<1>6. CASE Copy(j)
  BY <1>3, <1>6 DEF Copy, Unsaved
<1>7. CASE CheckSize(j)
  BY <1>2, <1>3, <1>7 DEF CheckSize, Unsaved
<1>8. CASE FetchFails(j) \/ CopyFails(j) \/ RenameFails(j) \/ RequestRestart(j)
  BY <1>2, <1>8 DEF FetchFails, CopyFails, RenameFails, RequestRestart, files
<1> QED
  BY <1>4, <1>5, <1>6, <1>7, <1>8 DEF Job

\* An answered heartbeat may start a download.
LEMMA AnsweredMaps ==
  ASSUME IInv, NEW m \in Masters, Answered(m)
  PROVE  [Binary!Next]_(Binary!vars)
<1>1. exe' = exe /\ None \notin Versions
  BY ContentsAssumption DEF Answered, files
<1>2. CASE job' = job
  BY <1>1, <1>2 DEF Binary!vars, Saving, Loads
<1>3. CASE job' # job
  <2>1. PICK j \in Jobs : job[j] = NoJob /\ job' = [job EXCEPT ![j] = [at |-> "fetch", to |-> call[m].to]]
    BY <1>3 DEF Answered, MaybeSelfUpgrade, Free
  <2>2. call[m].to \in Versions
    <3>1. call[m].to # None
      BY <1>3 DEF Answered
    <3> QED
      BY <3>1, CallType DEF Answered, IInv
  <2>3. Saving[j] = None
    BY <2>1 DEF Saving, Unsaved, NoJob
  <2>4. Saving' = [Saving EXCEPT ![j] = call[m].to]
    BY <2>1 DEF Saving, Unsaved, IInv, TypeOK
  <2>5. Binary!Begin(j)
    BY <1>1, <2>2, <2>3, <2>4 DEF Binary!Begin, Loads
  <2> QED
    BY <2>5 DEF Binary!Next
<1> QED
  BY <1>2, <1>3

\* selfUpgrade implements AtomicFile for the binary: a download replaces what is installed
\* by the release it was started for, at one instant, or, when a call fails or the daemon
\* dies, not at all.  Two of them would share the temporary: it is a.upgrading that keeps
\* the rename of one from installing what the other has written.
THEOREM UpgradeReplacesAtomically == Spec => Binary!Spec
<1>1. Init => Binary!Init
  <2> SUFFICES ASSUME Init PROVE Binary!Init
    OBVIOUS
  <2>1. Saving = [j \in Jobs |-> None]
    BY DEF Init, Saving, Unsaved, NoJob
  <2> QED
    BY <2>1 DEF Init, Binary!Init, Loads
<1>2. IInv /\ [Next]_vars => [Binary!Next]_(Binary!vars)
  <2> SUFFICES ASSUME IInv, [Next]_vars PROVE [Binary!Next]_(Binary!vars)
    OBVIOUS
  <2>1. ASSUME job' = job, exe' = exe PROVE UNCHANGED Binary!vars
    BY <2>1 DEF Binary!vars, Saving, Loads
  <2>2. ASSUME NEW m \in Masters, Ask(m) \/ UpdateMaster(m) \/ ReadRow(m) \/ Touch(m) \/ Direct(m) \/ LateEnds(m)
                                  \/ Beat(m) \/ CallFails(m)
        PROVE  job' = job /\ exe' = exe
    BY <2>2 DEF Ask, UpdateMaster, ReadRow, Touch, Direct, LateEnds, Beat, CallFails, files
  <2>3. ASSUME NEW m \in Masters, Answered(m) PROVE [Binary!Next]_(Binary!vars)
    BY <2>3, AnsweredMaps
  <2>4. ASSUME NEW j \in Jobs, Job(j) PROVE [Binary!Next]_(Binary!vars)
    BY <2>4, JobMaps
  <2>5. CASE Restart \/ Die
    <3>1. job' = [j \in Jobs |-> IF j \in Jobs THEN NoJob ELSE job[j]] /\ exe' = exe
      BY <2>5 DEF Restart, Die, Reboot, files
    <3> QED
      BY <3>1, AbortMaps
  <2>6. CASE UNCHANGED vars
    BY <2>1, <2>6 DEF vars, files
  <2> QED
    BY <2>1, <2>2, <2>3, <2>4, <2>5, <2>6 DEF Next
<1> QED
  BY <1>1, <1>2, UpgradeInvariant, PTL DEF Spec, Binary!Spec

-----------------------------------------------------------------------------
RestartIsDue ==
  exe # version => restarting \/ \E j \in Jobs : job[j].at = "restart"

\* An upgrade is never left lying about: whenever the daemon runs something other than what
\* is installed, its restart has been requested or is the next thing selfUpgrade does, even
\* if a further download has begun or failed in between.
THEOREM UpgradeRestartIsDue == Spec => []RestartIsDue
<1>1. Init => RestartIsDue
  BY DEF Init, RestartIsDue
<1>2. IInv /\ RestartIsDue /\ [Next]_vars => RestartIsDue'
  <2> SUFFICES ASSUME IInv, RestartIsDue, [Next]_vars PROVE RestartIsDue'
    OBVIOUS
  <2>1. job \in [Jobs -> {NoJob} \cup [at : {"fetch", "copy", "check", "rename", "restart"}, to : Versions]]
    BY DEF IInv, TypeOK
  <2>2. ASSUME UNCHANGED <<exe, version, restarting, job>> PROVE RestartIsDue'
    BY <2>2 DEF RestartIsDue
  <2>3. ASSUME NEW m \in Masters, Ask(m) \/ UpdateMaster(m) \/ ReadRow(m) \/ Touch(m) \/ Direct(m) \/ LateEnds(m)
                                  \/ Beat(m) \/ CallFails(m)
        PROVE  UNCHANGED <<exe, version, restarting, job>>
    BY <2>3 DEF Ask, UpdateMaster, ReadRow, Touch, Direct, LateEnds, Beat, CallFails, files, daemon
  <2>4. ASSUME NEW m \in Masters, Answered(m) PROVE RestartIsDue'
    <3>1. UNCHANGED <<exe, version, restarting>>
      BY <2>4 DEF Answered, files
    <3>2. \A j \in Jobs : job[j].at = "restart" => job'[j] = job[j]
      BY <2>1, <2>4 DEF Answered, MaybeSelfUpgrade, Free, NoJob
    <3> QED
      BY <3>1, <3>2 DEF RestartIsDue
  <2>5. ASSUME NEW j \in Jobs, Job(j), job[j].at \in {"fetch", "copy", "check"} PROVE RestartIsDue'
    <3>1. UNCHANGED <<exe, version, restarting>>
      BY <2>5 DEF Job, Open, FetchFails, Copy, CopyFails, CheckSize, Rename, RenameFails, RequestRestart, files
    <3>2. \A i \in Jobs \ {j} : job'[i] = job[i]
      BY <2>1, <2>5 DEF Job, Open, FetchFails, Copy, CopyFails, CheckSize, Rename, RenameFails, RequestRestart,
                       Goes, Returns
    <3> QED
      BY <2>5, <3>1, <3>2 DEF RestartIsDue
  <2>6. ASSUME NEW j \in Jobs, Rename(j) PROVE RestartIsDue'
    <3>1. job'[j].at = "restart"
      <4>1. job[j] = [at |-> "rename", to |-> job[j].to]
        BY <2>6, JobType DEF Rename, NoJob, IInv
      <4> QED
        BY <2>1, <2>6, <4>1 DEF Rename, Goes
    <3> QED
      BY <3>1 DEF RestartIsDue
  <2>7. ASSUME NEW j \in Jobs, RenameFails(j) PROVE RestartIsDue'
    <3>1. UNCHANGED <<exe, version, restarting>> /\ \A i \in Jobs \ {j} : job'[i] = job[i]
      BY <2>1, <2>7 DEF RenameFails, Returns
    <3> QED
      BY <2>7, <3>1 DEF RestartIsDue, RenameFails
  <2>8. ASSUME NEW j \in Jobs, RequestRestart(j) PROVE RestartIsDue'
    BY <2>8 DEF RequestRestart, RestartIsDue
  <2>9. ASSUME NEW j \in Jobs, Job(j) PROVE RestartIsDue'
    BY <2>5, <2>6, <2>7, <2>8, <2>9 DEF Job, Open, FetchFails, Copy, CopyFails, CheckSize
  <2>10. CASE Restart \/ Die
    BY <2>10 DEF Restart, Die, Reboot, files, RestartIsDue
  <2>11. CASE UNCHANGED vars
    BY <2>2, <2>11 DEF vars, files, daemon
  <2> QED
    BY <2>2, <2>3, <2>4, <2>9, <2>10, <2>11 DEF Next
<1> QED
  BY <1>1, <1>2, UpgradeInvariant, PTL DEF Spec
=============================================================================
