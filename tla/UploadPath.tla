----------------------------- MODULE UploadPath -----------------------------
(***************************************************************************)
(* One agent and its master, from the policy to the counted upload: the    *)
(* agent pulls a policy that names the tunnel's address, uploads to it,    *)
(* backs off and pulls again when that fails (masterConn in                *)
(* internal/agent/agent.go); the master answers with three reads that no   *)
(* lock holds together (handleAgentPolicy) and counts an upload before it  *)
(* answers it (handleUpload).  The tunnel is TunnelAddress, the abstract   *)
(* specification that Tunnel implements.                                   *)
(*                                                                         *)
(* Left out: sizes and the value of the interval, the automation part of   *)
(* the policy, event records, and stop and start of the connection.  One   *)
(* upload loop fails at most once per failBackoff, so that the throttle of *)
(* triggerPolicyRefresh never holds a pull back here.                      *)
(***************************************************************************)
EXTENDS Integers, FiniteSets

CONSTANTS
  Addresses, NoAddress,  \* of the tunnel
  Direct,                \* the master's own address
  Loop,                  \* the pulls of policyLoop, one after the other
  Retries,               \* bound: pulls of triggerPolicyRefresh that may be under way
  MaxFaults              \* bound: calls the network loses and crashes of the master

ASSUME TargetsAssumption == NoAddress \notin Addresses /\ Direct \notin Addresses \cup {NoAddress}
ASSUME PullsAssumption == Loop \notin Retries
ASSUME FaultsAssumption == MaxFaults \in Nat
(* One address per start of cloudflared, and finitely many starts. *)
ASSUME AddressesAssumption == IsFiniteSet(Addresses)

Pulls   == Retries \cup {Loop}
Targets == Addresses \cup {Direct}

VARIABLES
  up, addr, spent,  \* the tunnel
  row,      \* the node's stored policy: is uploading switched on
  policy,   \* c.policy of the agent's connection
  due,      \* the wait since lastUpload may be over
  backoff,  \* time.Now() is before failBackoffUntil
  pull,     \* per pull: how far the master has read its answer
  at,       \* where the upload loop is
  target,   \* of the upload in flight
  handler,  \* the master's handler of the upload in flight
  ahead,    \* uploads the master has counted minus uploads the agent takes as done
  faults    \* counter of the bound

tunnel  == <<up, addr, spent>>
conn    == <<policy, due, backoff>>
upload  == <<at, target, handler, ahead>>
vars    == <<tunnel, row, conn, pull, upload, faults>>

Tunnel == INSTANCE TunnelAddress

(* The parts of a policy answer the upload loop looks at. *)
Policy == [on : BOOLEAN, url : Addresses \cup {NoAddress}, tunnelOn : BOOLEAN]
ZeroPolicy == [on |-> FALSE, url |-> NoAddress, tunnelOn |-> FALSE]
Idle == [stage |-> "idle", answer |-> ZeroPolicy]

(* Where upload sends to under policy p: the tunnel, nowhere yet, or the master itself. *)
SendsTo(p) == CASE p.url # NoAddress -> p.url
                [] p.tunnelOn        -> NoAddress
                [] OTHER             -> Direct

TypeOK ==
  /\ up \in BOOLEAN /\ addr \in Addresses \cup {NoAddress} /\ spent \in SUBSET Addresses
  /\ row \in BOOLEAN /\ due \in BOOLEAN /\ backoff \in BOOLEAN
  /\ policy \in Policy
  /\ pull \in [Pulls -> [stage : {"idle", "asked", "row", "url", "full"}, answer : Policy]]
  /\ at \in {"wait", "send", "flight"}
  /\ target \in Targets \cup {NoAddress}
  /\ handler \in {"none", "reading", "counted", "broken"}
  /\ ahead \in Int /\ faults \in 0..MaxFaults

Init ==
  /\ Tunnel!Init
  /\ row \in BOOLEAN
  /\ policy = ZeroPolicy /\ due = TRUE /\ backoff = FALSE
  /\ pull = [q \in Pulls |-> Idle]
  /\ at = "wait" /\ target = NoAddress /\ handler = "none"
  /\ ahead = 0 /\ faults = 0

-----------------------------------------------------------------------------
(* The master's side: the tunnel moves, the panel edits the row. *)

TunnelMoves ==
  /\ Tunnel!Next
  /\ UNCHANGED <<row, conn, pull, upload, faults>>

EditRow ==
  /\ row' = ~row
  /\ UNCHANGED <<tunnel, conn, pull, upload, faults>>

-----------------------------------------------------------------------------
(* A policy pull: asked by the agent, read in three steps, applied by the agent. *)

Stage(q, from, to, answer) ==
  /\ pull[q].stage = from
  /\ pull' = [pull EXCEPT ![q] = [stage |-> to, answer |-> answer]]

(* policyLoop's request, up to the read of the row. *)
LoopAsks ==
  /\ Stage(Loop, "idle", "row", [ZeroPolicy EXCEPT !.on = row])
  /\ UNCHANGED <<tunnel, row, conn, upload, faults>>

ReadRow(q) ==
  /\ Stage(q, "asked", "row", [pull[q].answer EXCEPT !.on = row])
  /\ UNCHANGED <<tunnel, row, conn, upload, faults>>

(* Faulty variant: the master answers its own address while the tunnel has none. *)
ReadUrlOrOwn(q) ==
  /\ Stage(q, "row", "url",
           [pull[q].answer EXCEPT !.url = IF addr = NoAddress THEN Direct ELSE addr])
  /\ UNCHANGED <<tunnel, row, conn, upload, faults>>

ReadUrl(q) ==
  /\ Stage(q, "row", "url", [pull[q].answer EXCEPT !.url = addr])
  /\ UNCHANGED <<tunnel, row, conn, upload, faults>>

ReadEnabled(q) ==
  /\ Stage(q, "url", "full", [pull[q].answer EXCEPT !.tunnelOn = up])
  /\ UNCHANGED <<tunnel, row, conn, upload, faults>>

(* Faulty variant: an answer without an address leaves the old one in place. *)
ApplyKeepsUrl(q) ==
  /\ pull[q].stage = "full"
  /\ policy' = IF pull[q].answer.url # NoAddress THEN pull[q].answer
                ELSE [pull[q].answer EXCEPT !.url = policy.url]
  /\ pull' = [pull EXCEPT ![q] = Idle]
  /\ UNCHANGED <<tunnel, row, due, backoff, upload, faults>>

(* refreshPolicy puts the answer in place, whatever was applied in the meantime. *)
ApplyPolicy(q) ==
  /\ pull[q].stage = "full"
  /\ policy' = pull[q].answer
  /\ pull' = [pull EXCEPT ![q] = Idle]
  /\ UNCHANGED <<tunnel, row, due, backoff, upload, faults>>

PullFails(q) ==
  /\ pull[q].stage # "idle" /\ faults < MaxFaults
  /\ pull' = [pull EXCEPT ![q] = Idle]
  /\ faults' = faults + 1
  /\ UNCHANGED <<tunnel, row, conn, upload>>

-----------------------------------------------------------------------------
(* The upload loop: the tick's check, and upload, which reads the policy again. *)

(* Faulty variants: uploading cannot be switched off, or needs a tunnel. *)
CheckIgnoresSwitch ==
  /\ at = "wait" /\ (policy.on \/ policy.tunnelOn) /\ ~backoff /\ due
  /\ at' = "send"
  /\ UNCHANGED <<tunnel, row, conn, pull, target, handler, ahead, faults>>

CheckNeedsTunnel ==
  /\ at = "wait" /\ policy.on /\ policy.url # NoAddress /\ ~backoff /\ due
  /\ at' = "send"
  /\ UNCHANGED <<tunnel, row, conn, pull, target, handler, ahead, faults>>

Check ==
  /\ at = "wait" /\ policy.on /\ ~backoff /\ due
  /\ at' = "send"
  /\ UNCHANGED <<tunnel, row, conn, pull, target, handler, ahead, faults>>

Skip ==
  /\ at = "send" /\ SendsTo(policy) = NoAddress
  /\ at' = "wait"
  /\ UNCHANGED <<tunnel, row, conn, pull, target, handler, ahead, faults>>

Send ==
  /\ at = "send" /\ SendsTo(policy) # NoAddress
  /\ at' = "flight" /\ target' = SendsTo(policy)
  /\ UNCHANGED <<tunnel, row, conn, pull, handler, ahead, faults>>

Live == target \in {Direct, addr}

Arrive ==
  /\ at = "flight" /\ handler = "none" /\ Live
  /\ handler' = "reading"
  /\ UNCHANGED <<tunnel, row, conn, pull, at, target, ahead, faults>>

(* Faulty variant: the upload is counted where it is stored and where it is logged. *)
CountTwice ==
  /\ handler = "reading"
  /\ handler' = "counted" /\ ahead' = ahead + 2
  /\ UNCHANGED <<tunnel, row, conn, pull, at, target, faults>>

(* handleUpload: the body is read and IncrUpload has committed. *)
Count ==
  /\ handler = "reading"
  /\ handler' = "counted" /\ ahead' = ahead + 1
  /\ UNCHANGED <<tunnel, row, conn, pull, at, target, faults>>

(* The 200 reaches the agent. *)
Ack ==
  /\ at = "flight" /\ handler = "counted"
  /\ at' = "wait" /\ target' = NoAddress /\ handler' = "none"
  /\ due' = FALSE
  /\ ahead' = ahead - 1
  /\ UNCHANGED <<tunnel, row, policy, backoff, pull, faults>>

(* onUploadFailure: back off, and pull a fresh policy beside the loop.  A handler that has *)
(* the whole body counts the upload although the agent has given it up.                    *)
Fail ==
  /\ at = "flight"
  /\ at' = "wait" /\ target' = NoAddress /\ handler' = "none"
  /\ ahead' = ahead \/ (handler = "reading" /\ ahead' = ahead + 1)
  /\ backoff' = TRUE
  /\ \E q \in Retries : Stage(q, "idle", "asked", ZeroPolicy)
  /\ UNCHANGED <<tunnel, row, policy, due>>

(* A request to an address that is gone, or that a dead master was handling, ends this way. *)
MustFail == ~Live \/ handler = "broken"

UploadFails ==
  \/ Fail /\ MustFail /\ UNCHANGED faults
  \/ Fail /\ ~MustFail /\ faults < MaxFaults /\ faults' = faults + 1

DueElapses ==
  /\ ~due /\ due' = TRUE
  /\ UNCHANGED <<tunnel, row, policy, backoff, pull, upload, faults>>

BackoffElapses ==
  /\ backoff /\ backoff' = FALSE
  /\ UNCHANGED <<tunnel, row, policy, due, pull, upload, faults>>

(* The master dies: its tunnel, its handlers and the pulls it was answering go with it. *)
MasterDies ==
  /\ faults < MaxFaults /\ faults' = faults + 1
  /\ Tunnel!Withdraw
  /\ pull' = [q \in Pulls |-> IF pull[q].stage = "full" THEN pull[q] ELSE Idle]
  /\ handler' = IF handler = "none" THEN "none" ELSE "broken"
  /\ UNCHANGED <<row, conn, at, target, ahead>>

-----------------------------------------------------------------------------
PullSteps(q) == ReadRow(q) \/ ReadUrl(q) \/ ReadEnabled(q) \/ ApplyPolicy(q)
LoopSteps == Check \/ Skip \/ Send \/ Arrive \/ Count \/ Ack

Next ==
  \/ TunnelMoves \/ EditRow \/ MasterDies
  \/ LoopAsks \/ (\E q \in Pulls : PullSteps(q) \/ PullFails(q))
  \/ LoopSteps \/ UploadFails \/ DueElapses \/ BackoffElapses

Spec == Init /\ [][Next]_vars

Fairness ==
  /\ WF_vars(LoopAsks) /\ \A q \in Pulls : WF_vars(PullSteps(q))
  /\ WF_vars(LoopSteps) /\ WF_vars(UploadFails /\ MustFail)
  /\ WF_vars(DueElapses) /\ WF_vars(BackoffElapses)

FairSpec == Spec /\ Fairness

-----------------------------------------------------------------------------
\* The count of the master and what the agent believes differ by the upload that is being
\* answered and by the answers that were lost, and never the other way: an upload that the
\* agent takes as done was counted, across retries, crashes and addresses that die.
AccountsAgree ==
  0 <= ahead /\ ahead <= faults + Cardinality(spent \ {addr}) + (IF handler = "counted" THEN 1 ELSE 0)

\* Where an answer that is read in one piece would send the agent.
Named == SendsTo([on |-> TRUE, url |-> addr, tunnelOn |-> up])

\* A target the master names no more (a dead address, the direct one while a tunnel is up) is
\* given up by the agent for good, although answers are torn and overtake one another.
TargetsAreLeft == \A t \in Targets : (<>[](Named # t)) => <>[](target # t)

\* A node whose uploading was switched off for good stops uploading for good.
SwitchingOffTakesEffect == (<>[]~row) => <>[](at # "flight")

\* Once uploading stays on and the master names one target for good, uploads succeed again
\* and again.
UploadsResume == (\E t \in Targets : <>[](row /\ Named = t)) => []<><<Ack>>_vars
=============================================================================
