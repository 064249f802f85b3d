---------------------------- MODULE UploadHealth ----------------------------
(***************************************************************************)
(* The upload-health sentinel (internal/master/health.go) over a node and  *)
(* its policy, with the agent that uploads by it and the data link that    *)
(* fails.  Time passes in units of 5 minutes: a Tick waits for everything  *)
(* that is over sooner, which is requests of the panel, the agent's pull   *)
(* (30 s), its upload loop (10 s) and its backoff (30 s).  An upload may   *)
(* last into the next unit: the client gives it up after 5 minutes.        *)
(*                                                                         *)
(* An agent that is cut off from the control plane counts as down.  With   *)
(* interval_min 0 the roll may be 0, which pauses the upload loop until    *)
(* the next pull; one of the ten rolls of a unit is taken not to be 0.     *)
(***************************************************************************)
EXTENDS Policies

CONSTANTS
  Never,       \* last_upload_at = 0, lastUpload.IsZero()
  NoStats,     \* the node has no row in stats
  NoFlight,
  MaxAge,      \* bound: ages stop there
  MaxChanges   \* bound: changes of the link and of the agent

ASSUME HealthAssumption ==
  /\ MaxAge \in Nat /\ Never \notin 0..MaxAge
  /\ NoFlight \notin [left : 0..1, lost : BOOLEAN]

Floor  == 9    \* uploadStaleMinThreshold, 45 minutes
Slack  == 1    \* 300 s
Grace  == 2    \* units in which an upload under way ends and the next one is done

VARIABLES
  born,      \* age of the node, until it has uploaded: created_at
  counted,   \* age of the last upload the master has counted: last_upload_at
  up,        \* the agent runs and heartbeats
  known,     \* the policy the agent has pulled
  done,      \* age of the last upload the agent has seen acknowledged: lastUpload
  flight,    \* an upload: the units it may still last, and whether it is lost
  link,      \* the data plane carries uploads
  outage,    \* history: units of the life of the node since the link failed
  calm,      \* history: units without a failure, a restart or an edit
  changes

server  == <<born, counted>>
agent   == <<up, known, done, flight>>
network == <<link, outage, changes>>
vars    == <<nodeVars, server, agent, network, calm>>

Ages        == 0..MaxAge
Older(a)    == IF a = Never \/ a = MaxAge THEN a ELSE a + 1
Larger(a, b) == IF a > b THEN a ELSE b

TypeOK ==
  /\ node \in {"none", "there", "deleted"}
  /\ policy = NoPolicy \/ policy \in Policy
  /\ \A w \in Handlers : put[w] = Idle \/ (put[w].body \in Bodies /\ put[w].row \in Policy)
  /\ born \in Ages /\ counted \in Ages \cup {Never, NoStats}
  /\ up \in BOOLEAN /\ (known = NoPolicy \/ known \in Policy) /\ done \in Ages \cup {Never}
  /\ flight \in [left : 0..1, lost : BOOLEAN] \cup {NoFlight}
  /\ link \in BOOLEAN /\ outage \in Ages /\ calm \in 0..Grace + 1

Init ==
  /\ NodesInit
  /\ born = 0 /\ counted = NoStats
  /\ up = FALSE /\ known = NoPolicy /\ done = Never /\ flight = NoFlight
  /\ link = TRUE /\ outage = 0 /\ calm = 0 /\ changes = 0

-----------------------------------------------------------------------------
(* health.go *)

(* Faulty variant: the range is forgotten. *)
LongestFixed(p) == Larger(p.interval, 1)

Longest(p) == Larger(Larger(p.interval, p.interval_max), 1)

(* uploadStaleThreshold. *)
Threshold(p) == Larger(Floor, 3 * Longest(p) + Slack)

(* Faulty variant: a node that never uploaded is not measured. *)
SinceLastUpload == IF counted = Never THEN 0 ELSE counted

(* A node that never uploaded is measured from its creation. *)
Since == IF counted = Never THEN born ELSE counted

(* agentUploadStale; every node is enabled, and online while its agent is up. *)
Stale == node = "there" /\ policy.enabled /\ up /\ Since > Threshold(policy)

-----------------------------------------------------------------------------
(* The panel. *)

Create ==
  /\ CreateAgent
  /\ counted' = Never /\ born' = 0
  /\ UNCHANGED <<agent, network, calm>>

Edit(w) ==
  /\ PutWrite(w)
  /\ calm' = 0
  /\ UNCHANGED <<server, agent, network>>

(* The stats go with the node. *)
Delete ==
  /\ DeleteAgent
  /\ counted' = NoStats /\ born' = 0
  /\ UNCHANGED <<agent, network, calm>>

Panel ==
  \/ Create \/ Delete
  \/ \E w \in Handlers : Edit(w) \/ (PutRead(w) /\ UNCHANGED <<server, agent, network, calm>>)

-----------------------------------------------------------------------------
(* The agent. *)

Change == changes < MaxChanges /\ changes' = changes + 1 /\ calm' = 0

(* startMaster: the policy is pulled before the loops start. *)
AgentBoots ==
  /\ ~up /\ node = "there" /\ Change
  /\ up' = TRUE /\ known' = policy /\ done' = Never
  /\ UNCHANGED <<nodeVars, server, flight, link, outage>>

(* An upload of a daemon that dies is lost with it. *)
AgentDies ==
  /\ up /\ Change
  /\ up' = FALSE /\ known' = NoPolicy /\ done' = Never /\ flight' = NoFlight
  /\ UNCHANGED <<nodeVars, server, link, outage>>

(* refreshPolicy; a deleted node is answered 401 and keeps what it knows. *)
Pull ==
  /\ up /\ node = "there" /\ known # policy
  /\ known' = policy
  /\ UNCHANGED <<nodeVars, server, up, done, flight, network, calm>>

(* computeInterval: the values of a roll; a fresh one comes with every pull. *)
Rolls(p) ==
  IF p.interval_max > p.interval_min THEN p.interval_min..p.interval_max ELSE {p.interval}

Waits(p) == Rolls(p) \ {0}

IsOver(roll) == done # Never => done >= roll

MayUpload == up /\ known.enabled /\ known.upload_enabled /\ flight = NoFlight

(* uploadLoop and upload. *)
Begin ==
  /\ MayUpload
  /\ \E roll \in Waits(known) : IsOver(roll)
  /\ flight' = [left |-> 1, lost |-> ~link]
  /\ UNCHANGED <<nodeVars, server, up, known, done, network, calm>>

(* The upload loop does not let a unit pass once every roll is over. *)
Overdue == MayUpload /\ \A roll \in Waits(known) : IsOver(roll)

(* handleUpload: IncrUpload is refused by the foreign key once the node is gone. *)
Arrives ==
  /\ flight # NoFlight /\ ~flight.lost
  /\ counted' = IF node = "there" THEN 0 ELSE counted
  /\ born' = 0
  /\ flight' = NoFlight

(* The master's answer reaches the agent. *)
Acked ==
  /\ Arrives
  /\ done' = IF node = "there" THEN 0 ELSE done
  /\ UNCHANGED <<nodeVars, up, known, network, calm>>

(* It does not: the agent backs off and uploads again. *)
AckLost ==
  /\ Arrives /\ Change
  /\ UNCHANGED <<nodeVars, up, known, done, link, outage>>

(* onUploadFailure. *)
UploadFails ==
  /\ flight # NoFlight /\ flight.lost
  /\ flight' = NoFlight
  /\ UNCHANGED <<nodeVars, server, up, known, done, network, calm>>

Agent == AgentBoots \/ AgentDies \/ Pull \/ Begin \/ Acked \/ AckLost \/ UploadFails

-----------------------------------------------------------------------------
(* The link and the clock. *)

LinkFails ==
  /\ link /\ Change
  /\ link' = FALSE /\ outage' = 0
  /\ flight' = IF flight = NoFlight THEN NoFlight ELSE [flight EXCEPT !.lost = TRUE]
  /\ UNCHANGED <<nodeVars, server, up, known, done>>

LinkReturns ==
  /\ ~link /\ Change
  /\ link' = TRUE /\ outage' = 0
  /\ UNCHANGED <<nodeVars, server, agent>>

(* Only the time of a node that is there is counted. *)
Tick ==
  /\ node = "there"
  /\ \A w \in Handlers : put[w] = Idle
  /\ up => known = policy
  /\ ~Overdue
  /\ flight # NoFlight => flight.left = 1
  /\ flight' = IF flight = NoFlight THEN NoFlight ELSE [flight EXCEPT !.left = 0]
  /\ counted' = Older(counted)
  /\ born' = IF counted = Never THEN Older(born) ELSE 0
  /\ done' = Older(done)
  /\ outage' = IF link THEN 0 ELSE Older(outage)
  /\ calm' = IF ~link \/ ~up THEN 0 ELSE IF calm > Grace THEN calm ELSE calm + 1
  /\ UNCHANGED <<nodeVars, up, known, link, changes>>

Next == Panel \/ Agent \/ LinkFails \/ LinkReturns \/ Tick

Spec == Init /\ [][Next]_vars

-----------------------------------------------------------------------------
(* What belongs to a node goes with it: neither the save nor the upload that *)
(* was under way when it was deleted leaves a row behind.                    *)
NoOrphans == node # "there" => policy = NoPolicy /\ counted = NoStats

(* An alarm has a cause: a node that is to upload is reported only while its *)
(* link or its agent fails, is restarted or edited, or at most Grace units   *)
(* after that, however long it waits by its policy (uploadStaleThreshold).   *)
AlarmHasCause == Stale /\ policy.upload_enabled => calm <= Grace

(* An outage is seen: when no upload has got through for longer than the     *)
(* threshold of the policy, the node that heartbeats is reported, even one   *)
(* that never uploaded (the outage of three days in the comment of health.go). *)
OutageIsSeen ==
  node = "there" /\ up /\ policy.enabled /\ outage > Threshold(policy) => Stale
=============================================================================
