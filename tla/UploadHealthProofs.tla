------------------------- MODULE UploadHealthProofs -------------------------
(***************************************************************************)
(* Proofs about UploadHealth for any requests, bodies and bounds, and      *)
(* whatever the agent, the link and the clock do.  First the rows of a     *)
(* node: an edit spans two statements and writes back a row it has read,   *)
(* so the invariant has to say what a request that is under way holds.     *)
(* Then time: how the age the master sees of the last counted upload is    *)
(* tied to the outage, and to what the agent has seen acknowledged.        *)
(***************************************************************************)
EXTENDS UploadHealth, TLAPS

PutIsFunction == put = [w \in Handlers |-> put[w]]

(* Until it is created a node has nobody's request. *)
NoneIsAsked == node = "none" => promised = SeedPolicy /\ \A w \in Handlers : put[w] = Idle

(* The rows that pass: the stored one and those about to be stored. *)
RowsPass ==
  /\ node = "there" => RowPasses(policy)
  /\ \A w \in Handlers : put[w] # Idle => RowPasses(put[w].row)

(* Requests that never overlapped: there is one at most, and the row it holds *)
(* is the stored one with its body on top.                                    *)
OneAtATime ==
  ~crossed =>
    /\ \A v, w \in Handlers : put[v] # Idle /\ put[w] # Idle => v = w
    /\ node = "there" =>
         /\ policy = promised
         /\ \A w \in Handlers : put[w] # Idle => put[w].row = Merge(put[w].body, policy)

IInv == NoOrphans /\ PutIsFunction /\ NoneIsAsked /\ RowsPass /\ OneAtATime

-----------------------------------------------------------------------------
(* The row a node is created with passes the checks across fields. *)
LEMMA SeedPasses == RowPasses(SeedPolicy)
BY DEF RowPasses, SeedPolicy

(* Whatever is accepted is a row that passes the checks across fields. *)
LEMMA AcceptedPasses == \A b, p : Accepted(b, p) => RowPasses(Merge(b, p))
BY DEF Accepted

(* A body on top of the stored row is what it asks for, if that is what was promised. *)
LEMMA MergeIsAsked == \A b : Merge(b, promised) = Asked(b)
BY DEF Merge, Asked

(* Before the node is created nothing is stored and nothing is under way. *)
LEMMA InitIInv == Init => IInv
<1> SUFFICES ASSUME Init PROVE IInv
  OBVIOUS
<1> USE DEF Init, NodesInit
<1>1. NoOrphans
  BY DEF NoOrphans
<1>2. PutIsFunction
  BY DEF PutIsFunction
<1>3. NoneIsAsked
  BY DEF NoneIsAsked
<1>4. RowsPass
  BY DEF RowsPass
<1>5. OneAtATime
  BY DEF OneAtATime
<1> QED
  BY <1>1, <1>2, <1>3, <1>4, <1>5 DEF IInv

(* CreateAgent inserts the seed, which passes and is what has been promised. *)
LEMMA CreateIInv == IInv /\ Create => IInv'
<1> SUFFICES ASSUME IInv, Create PROVE IInv'
  OBVIOUS
<1>1. /\ node = "none" /\ node' = "there" /\ policy' = SeedPolicy
      /\ UNCHANGED <<put, crossed, promised>>
  BY DEF Create, CreateAgent
<1>2. promised = SeedPolicy /\ \A w \in Handlers : put[w] = Idle
  BY <1>1 DEF IInv, NoneIsAsked
<1>3. NoOrphans'
  BY <1>1 DEF NoOrphans
<1>4. PutIsFunction'
  BY <1>1 DEF IInv, PutIsFunction
<1>5. NoneIsAsked'
  BY <1>1 DEF NoneIsAsked
<1>6. RowsPass'
  BY <1>1, <1>2, SeedPasses DEF RowsPass, RowPasses
<1>7. OneAtATime'
  BY <1>1, <1>2 DEF OneAtATime
<1> QED
  BY <1>3, <1>4, <1>5, <1>6, <1>7 DEF IInv

(* The first statement of an edit: the request holds a row that was checked. *)
LEMMA PutReadIInv ==
  ASSUME IInv, NEW w \in Handlers, PutRead(w), UNCHANGED counted
  PROVE  IInv'
<1>1. PICK b \in Bodies : /\ Accepted(b, policy)
                          /\ put' = [put EXCEPT ![w] = [at |-> "write", body |-> b, row |-> Merge(b, policy)]]
  BY DEF PutRead
<1> DEFINE r == [at |-> "write", body |-> b, row |-> Merge(b, policy)]
<1>2. /\ policy # NoPolicy
      /\ crossed' = (crossed \/ \E v \in Handlers : put[v] # Idle)
      /\ UNCHANGED <<node, policy, promised>>
  BY DEF PutRead
<1>3. node = "there"
  BY <1>2 DEF IInv, NoOrphans
<1>4. put' = [v \in Handlers |-> IF v = w THEN r ELSE put[v]]
  BY <1>1 DEF IInv, PutIsFunction
<1>5. r.row = Merge(b, policy) /\ r.body = b
  OBVIOUS
<1> HIDE DEF r
<1>6. NoOrphans'
  BY <1>2 DEF IInv, NoOrphans
<1>7. PutIsFunction'
  BY <1>4 DEF PutIsFunction
<1>8. NoneIsAsked'
  BY <1>2, <1>3 DEF NoneIsAsked
<1>9. RowsPass'
  <2>1. (node = "there" => RowPasses(policy))'
    BY <1>2 DEF IInv, RowsPass, RowPasses
  <2>2. ASSUME NEW v \in Handlers, put'[v] # Idle PROVE RowPasses(put'[v].row)
    <3>1. CASE v = w
      BY <3>1, <1>1, <1>4, <1>5, AcceptedPasses
    <3>2. CASE v # w
      BY <3>2, <2>2, <1>4 DEF IInv, RowsPass
    <3> QED
      BY <3>1, <3>2
  <2> QED
    BY <2>1, <2>2 DEF RowsPass, RowPasses
<1>10. OneAtATime'
  <2> SUFFICES ASSUME ~crossed' PROVE
        /\ \A v, x \in Handlers : put'[v] # Idle /\ put'[x] # Idle => v = x
        /\ policy = promised
        /\ \A v \in Handlers : put'[v] # Idle => put'[v].row = Merge(put'[v].body, policy)
    BY <1>2 DEF OneAtATime, Merge
  <2>1. ~crossed /\ \A v \in Handlers : put[v] = Idle
    BY <1>2
  <2>2. policy = promised
    BY <2>1, <1>3 DEF IInv, OneAtATime
  <2>3. \A v \in Handlers : put'[v] # Idle => v = w
    BY <2>1, <1>4
  <2>4. put'[w] = r
    BY <1>4
  <2> QED
    BY <2>2, <2>3, <2>4, <1>5
<1> QED
  BY <1>6, <1>7, <1>8, <1>9, <1>10 DEF IInv

(* The second one: the row goes to a node that is there, and the request ends. *)
LEMMA PutWriteIInv ==
  ASSUME IInv, NEW w \in Handlers, PutWrite(w), UNCHANGED counted
  PROVE  IInv'
<1>1. /\ put[w] # Idle
      /\ put' = [put EXCEPT ![w] = Idle]
      /\ UNCHANGED <<node, crossed>>
  BY DEF PutWrite
<1>2. IF node = "there" THEN policy' = put[w].row /\ promised' = Asked(put[w].body)
                        ELSE UNCHANGED <<policy, promised>>
  BY DEF PutWrite
<1>3. put' = [v \in Handlers |-> IF v = w THEN Idle ELSE put[v]]
  BY <1>1 DEF IInv, PutIsFunction
<1>4. node # "none"
  BY <1>1 DEF IInv, NoneIsAsked
<1>5. NoOrphans'
  BY <1>1, <1>2 DEF IInv, NoOrphans
<1>6. PutIsFunction'
  BY <1>3 DEF PutIsFunction
<1>7. NoneIsAsked'
  BY <1>1, <1>4 DEF NoneIsAsked
<1>8. RowsPass'
  <2>1. (node = "there" => RowPasses(policy))'
    BY <1>1, <1>2 DEF IInv, RowsPass, RowPasses
  <2>2. \A v \in Handlers : put'[v] # Idle => RowPasses(put'[v].row)
    BY <1>3 DEF IInv, RowsPass
  <2> QED
    BY <2>1, <2>2 DEF RowsPass, RowPasses
<1>9. OneAtATime'
  <2> SUFFICES ASSUME ~crossed PROVE
        /\ \A v \in Handlers : put'[v] = Idle
        /\ node = "there" => policy' = promised'
    BY <1>1 DEF OneAtATime
  <2>1. \A v \in Handlers : put'[v] = Idle
    BY <1>1, <1>3 DEF IInv, OneAtATime
  <2>2. node = "there" => policy' = promised'
    <3> SUFFICES ASSUME node = "there" PROVE policy' = promised'
      OBVIOUS
    <3>1. policy = promised /\ put[w].row = Merge(put[w].body, policy)
      BY <1>1 DEF IInv, OneAtATime
    <3>2. policy' = Merge(put[w].body, promised)
      BY <3>1, <1>2
    <3> QED
      BY <3>2, <1>2, MergeIsAsked
  <2> QED
    BY <2>1, <2>2
<1> QED
  BY <1>5, <1>6, <1>7, <1>8, <1>9 DEF IInv

(* A deletion takes the policy and the stats with it. *)
LEMMA DeleteIInv == IInv /\ Delete => IInv'
<1> SUFFICES ASSUME IInv, Delete PROVE IInv'
  OBVIOUS
<1>1. /\ node' = "deleted" /\ policy' = NoPolicy /\ counted' = NoStats
      /\ UNCHANGED <<put, crossed, promised>>
  BY DEF Delete, DeleteAgent
<1>2. NoOrphans'
  BY <1>1 DEF NoOrphans
<1>3. PutIsFunction' /\ NoneIsAsked'
  BY <1>1 DEF IInv, PutIsFunction, NoneIsAsked
<1>4. RowsPass'
  BY <1>1 DEF IInv, RowsPass, RowPasses
<1>5. OneAtATime'
  BY <1>1 DEF IInv, OneAtATime
<1> QED
  BY <1>2, <1>3, <1>4, <1>5 DEF IInv

(* What leaves the rows of the node alone, but for the count of one that is there. *)
LEMMA OthersIInv ==
  ASSUME IInv, UNCHANGED nodeVars, node # "there" => UNCHANGED counted
  PROVE  IInv'
<1> USE DEF nodeVars
<1>1. NoOrphans'
  BY DEF IInv, NoOrphans
<1>2. PutIsFunction' /\ NoneIsAsked'
  BY DEF IInv, PutIsFunction, NoneIsAsked
<1>3. RowsPass'
  BY DEF IInv, RowsPass, RowPasses
<1>4. OneAtATime'
  BY DEF IInv, OneAtATime, Merge
<1> QED
  BY <1>1, <1>2, <1>3, <1>4 DEF IInv

(* Every step preserves the invariant. *)
LEMMA StepIInv == IInv /\ [Next]_vars => IInv'
<1> SUFFICES ASSUME IInv, [Next]_vars PROVE IInv'
  OBVIOUS
<1>1. CASE Panel
  <2>1. CASE Create
    BY <2>1, CreateIInv
  <2>2. CASE Delete
    BY <2>2, DeleteIInv
  <2>3. ASSUME NEW w \in Handlers, Edit(w) PROVE IInv'
    BY <2>3, PutWriteIInv DEF Edit, server
  <2>4. ASSUME NEW w \in Handlers, PutRead(w), UNCHANGED server PROVE IInv'
    BY <2>4, PutReadIInv DEF server
  <2> QED
    BY <1>1, <2>1, <2>2, <2>3, <2>4 DEF Panel
<1>2. CASE Agent
  <2>1. UNCHANGED nodeVars /\ (node # "there" => UNCHANGED counted)
    BY <1>2 DEF Agent, AgentBoots, AgentDies, Pull, Begin, Acked, AckLost, Arrives, UploadFails, server
  <2> QED
    BY <2>1, OthersIInv
<1>3. CASE LinkFails \/ LinkReturns \/ Tick
  <2>1. UNCHANGED nodeVars /\ (node # "there" => UNCHANGED counted)
    BY <1>3 DEF LinkFails, LinkReturns, Tick, server
  <2> QED
    BY <2>1, OthersIInv
<1>4. CASE UNCHANGED vars
  BY <1>4, OthersIInv DEF vars, server
<1> QED
  BY <1>1, <1>2, <1>3, <1>4 DEF Next

(* The inductive invariant holds in every reachable state. *)
THEOREM UploadHealthInvariant == Spec => []IInv
BY InitIInv, StepIInv, PTL DEF Spec

(* Neither a save nor an upload under way leaves a row of a deleted node behind. *)
THEOREM UploadHealthNoOrphans == Spec => []NoOrphans
<1>1. IInv => NoOrphans
  BY DEF IInv
<1> QED
  BY <1>1, UploadHealthInvariant, PTL

(* A stored policy passes the checks across its fields, whatever was edited in which order. *)
THEOREM UploadHealthStoredPasses == Spec => []StoredPasses
<1>1. IInv => StoredPasses
  BY DEF IInv, NoOrphans, RowsPass, StoredPasses
<1> QED
  BY <1>1, UploadHealthInvariant, PTL

(* Requests that do not overlap add up to the row they asked for. *)
THEOREM UploadHealthEditsAddUp == Spec => []EditsAddUp
<1>1. IInv => EditsAddUp
  BY DEF IInv, NoOrphans, OneAtATime, EditsAddUp
<1> QED
  BY <1>1, UploadHealthInvariant, PTL

-----------------------------------------------------------------------------
(***************************************************************************)
(* Types and time.  What the sentinel sees is the age of the last upload   *)
(* that was counted; that it neither lags behind an outage nor runs ahead  *)
(* of the policy's longest wait takes the agent's side: the age of the     *)
(* last acknowledgement, and what has become of the upload under way.      *)
(***************************************************************************)

Types ==
  /\ TypeOK
  /\ node = "there" => policy \in Policy /\ counted \in Ages \cup {Never}

(* Until the node is created it has no agent, no upload and no history. *)
NotYet == node = "none" => ~up /\ done = Never /\ flight = NoFlight /\ calm = 0 /\ outage = 0

(* While the link is down nothing is counted, so the outage is not older than the silence. *)
OutageIsSilence ==
  /\ link => outage = 0
  /\ ~link /\ flight # NoFlight => flight.lost
  /\ node = "there" => outage <= Since

(* What was acknowledged was counted, and not later. *)
AckedIsCounted == node = "there" /\ done # Never => counted # Never /\ counted <= done

(* In the second calm unit a failed upload is over and those that follow get through. *)
CalmIsSound ==
  /\ calm >= 1 => link /\ up
  /\ calm >= 1 /\ flight # NoFlight /\ (flight.left = 1 \/ calm >= 2) => ~flight.lost

(* An upload that has lasted into a second unit. *)
Late == flight # NoFlight /\ flight.left = 0

(* In the third one an upload has been counted within the longest wait, or is late. *)
CalmIsCounted ==
  node = "there" /\ policy.enabled /\ policy.upload_enabled =>
    /\ calm = 2 => Late \/ (counted # Never /\ counted <= Longest(policy))
    /\ calm >= 3 => counted # Never /\ counted <= Longest(policy) + (IF Late THEN 1 ELSE 0)

Timed == NotYet /\ OutageIsSilence /\ AckedIsCounted /\ CalmIsSound /\ CalmIsCounted

-----------------------------------------------------------------------------
(* Ages grow by one and never past the cap, which keeps their order. *)
LEMMA OlderAges ==
  /\ 0 \in Ages /\ Ages \subseteq Nat
  /\ \A a \in Ages : Older(a) \in Ages /\ a <= Older(a) /\ Older(a) <= a + 1
  /\ \A a, b \in Ages : a <= b => Older(a) <= Older(b)
  /\ Older(Never) = Never /\ Never \notin Ages
BY HealthAssumption DEF Ages, Older

(* A function on the fields whose values have the types of the columns is a policy. *)
LEMMA FieldsMakePolicy ==
  ASSUME NEW V, NEW m \in [Fields -> V],
         m.enabled \in BOOLEAN, m.upload_enabled \in BOOLEAN,
         m.interval \in Nat, m.interval_min \in Nat, m.interval_max \in Nat,
         m.size \in Nat, m.size_min \in Nat, m.size_max \in Nat
  PROVE  m \in Policy
<1>1. m = [enabled |-> m.enabled, upload_enabled |-> m.upload_enabled, interval |-> m.interval,
           interval_min |-> m.interval_min, interval_max |-> m.interval_max,
           size |-> m.size, size_min |-> m.size_min, size_max |-> m.size_max]
  BY DEF Fields, Switches, Numbers
<1> QED
  BY <1>1 DEF Policy

(* A body of single fields that pass, on top of a policy, is a policy. *)
LEMMA MergeIsPolicy ==
  ASSUME NEW b \in Bodies, NEW p \in Policy, FieldsPass(b)
  PROVE  Merge(b, p) \in Policy
<1> DEFINE m == Merge(b, p)
<1>1. ASSUME NEW f \in Switches PROVE m[f] \in BOOLEAN
  <2>1. f \in Fields /\ p[f] \in BOOLEAN
    BY DEF Policy, Fields, Switches
  <2>2. f \in DOMAIN b => b[f] \in BOOLEAN
    BY PoliciesAssumption
  <2> QED
    BY <2>1, <2>2 DEF Merge
<1>2. ASSUME NEW f \in Numbers PROVE m[f] \in Nat
  <2>1. f \in Fields /\ f \notin Switches /\ p[f] \in Nat
    BY DEF Policy, Fields, Numbers, Switches
  <2>2. ASSUME f \in DOMAIN b PROVE b[f] \in Nat
    <3>1. b[f] \in Int
      BY <2>1, <2>2, PoliciesAssumption
    <3>2. CASE f = "interval"
      BY <2>1, <2>2, <3>1, <3>2 DEF FieldsPass
    <3>3. CASE f = "size"
      BY <2>1, <2>2, <3>1, <3>3 DEF FieldsPass
    <3>4. CASE f # "interval" /\ f # "size"
      <4>1. b[f] >= 0
        BY <2>1, <2>2, <3>4 DEF FieldsPass
      <4> QED
        BY <3>1, <4>1
    <3> QED
      BY <3>2, <3>3, <3>4
  <2> QED
    BY <2>1, <2>2 DEF Merge
<1>3. m \in [Fields -> BOOLEAN \cup Nat]
  BY <1>1, <1>2 DEF Merge, Fields
<1> HIDE DEF m
<1>4. m.enabled \in BOOLEAN /\ m.upload_enabled \in BOOLEAN
  BY <1>1 DEF Switches
<1>5. /\ m.interval \in Nat /\ m.interval_min \in Nat /\ m.interval_max \in Nat
      /\ m.size \in Nat /\ m.size_min \in Nat /\ m.size_max \in Nat
  BY <1>2 DEF Numbers
<1>6. m \in Policy
  BY <1>3, <1>4, <1>5, FieldsMakePolicy
<1> QED
  BY <1>6 DEF m

LEMMA SeedIsPolicy == SeedPolicy \in Policy
BY PoliciesAssumption DEF SeedPolicy, Policy

(* The longest wait of a policy bounds its rolls, and the threshold is above it. *)
LEMMA WaitsAreBounded ==
  ASSUME NEW p \in Policy
  PROVE  /\ Longest(p) \in Nat /\ Threshold(p) \in Nat
         /\ \A roll \in Waits(p) : roll \in Nat /\ roll <= Longest(p)
         /\ Threshold(p) > Longest(p)
<1>1. p.interval \in Nat /\ p.interval_min \in Nat /\ p.interval_max \in Nat
  BY DEF Policy
<1>2. Longest(p) \in Nat /\ Longest(p) >= p.interval /\ Longest(p) >= p.interval_max
  BY <1>1 DEF Longest, Larger
<1>3. Threshold(p) \in Nat /\ Threshold(p) > Longest(p)
  <2>1. PICK n \in Nat : n = Longest(p)
    BY <1>2
  <2>2. 3 * n + 1 > n /\ 3 * n + 1 \in Nat
    BY <2>1
  <2> QED
    BY <2>1, <2>2 DEF Threshold, Larger, Floor, Slack
<1>4. ASSUME NEW roll \in Waits(p) PROVE roll \in Nat /\ roll <= Longest(p)
  BY <1>1, <1>2 DEF Waits, Rolls
<1> QED
  BY <1>2, <1>3, <1>4

-----------------------------------------------------------------------------
(* Types *)

LEMMA InitTypes == Init => Types
<1> SUFFICES ASSUME Init PROVE Types
  OBVIOUS
<1> USE DEF Init, NodesInit
<1>1. \A w \in Handlers : put[w] = Idle
  OBVIOUS
<1>2. 0 \in Ages
  BY OlderAges
<1>3. calm \in 0..Grace + 1
  BY DEF Grace
<1> QED
  BY <1>1, <1>2, <1>3 DEF Types, TypeOK

(* The rows of the node: what an edit holds and what it stores is a policy. *)
LEMMA RowTypes ==
  ASSUME IInv, Types, Next
  PROVE  /\ node' \in {"none", "there", "deleted"}
         /\ policy' = NoPolicy \/ policy' \in Policy
         /\ node' = "there" => policy' \in Policy
         /\ \A w \in Handlers : put'[w] = Idle \/ (put'[w].body \in Bodies /\ put'[w].row \in Policy)
<1> DEFINE Goal == /\ node' \in {"none", "there", "deleted"}
                   /\ policy' = NoPolicy \/ policy' \in Policy
                   /\ node' = "there" => policy' \in Policy
                   /\ \A w \in Handlers :
                        put'[w] = Idle \/ (put'[w].body \in Bodies /\ put'[w].row \in Policy)
<1>1. CASE Create
  BY <1>1, SeedIsPolicy DEF Create, CreateAgent, Types, TypeOK
<1>2. CASE Delete
  BY <1>2 DEF Delete, DeleteAgent, Types, TypeOK
<1>3. ASSUME NEW w \in Handlers, PutRead(w) PROVE Goal
  <2>1. policy \in Policy /\ UNCHANGED <<node, policy>>
    BY <1>3 DEF PutRead, Types, TypeOK
  <2>2. PICK b \in Bodies : /\ Accepted(b, policy)
                            /\ put' = [put EXCEPT ![w] = [at |-> "write", body |-> b, row |-> Merge(b, policy)]]
    BY <1>3 DEF PutRead
  <2>3. PICK row \in Policy : row = Merge(b, policy)
    BY <2>1, <2>2, MergeIsPolicy DEF Accepted
  <2>4. put' = [v \in Handlers |-> IF v = w THEN [at |-> "write", body |-> b, row |-> row] ELSE put[v]]
    BY <2>2, <2>3 DEF IInv, PutIsFunction
  <2> QED
    BY <2>1, <2>4 DEF Types, TypeOK
<1>4. ASSUME NEW w \in Handlers, PutWrite(w) PROVE Goal
  <2>1. put[w] # Idle /\ put' = [put EXCEPT ![w] = Idle] /\ UNCHANGED node
    BY <1>4 DEF PutWrite
  <2>2. put[w].row \in Policy
    BY <2>1 DEF Types, TypeOK
  <2>3. put' = [v \in Handlers |-> IF v = w THEN Idle ELSE put[v]]
    BY <2>1 DEF IInv, PutIsFunction
  <2>4. IF node = "there" THEN policy' = put[w].row ELSE UNCHANGED policy
    BY <1>4 DEF PutWrite
  <2> QED
    BY <2>1, <2>2, <2>3, <2>4 DEF Types, TypeOK
<1>5. CASE UNCHANGED nodeVars
  BY <1>5 DEF nodeVars, Types, TypeOK
<1>6. CASE Panel
  BY <1>1, <1>2, <1>3, <1>4, <1>6 DEF Panel, Edit
<1>7. CASE Agent
  BY <1>5, <1>7 DEF Agent, AgentBoots, AgentDies, Pull, Begin, Acked, AckLost, UploadFails
<1>8. CASE LinkFails \/ LinkReturns \/ Tick
  BY <1>5, <1>8 DEF LinkFails, LinkReturns, Tick
<1> QED
  BY <1>6, <1>7, <1>8 DEF Next

(* The ages the master and the sentinel see. *)
LEMMA ServerTypes ==
  ASSUME IInv, Types, Next
  PROVE  /\ born' \in Ages /\ counted' \in Ages \cup {Never, NoStats}
         /\ node' = "there" => counted' \in Ages \cup {Never}
<1>1. /\ born \in Ages /\ counted \in Ages \cup {Never, NoStats}
      /\ node = "there" => counted \in Ages \cup {Never}
  BY DEF Types, TypeOK
<1>2. CASE Create \/ Delete
  BY <1>2, OlderAges DEF Create, Delete, DeleteAgent
<1>3. CASE Arrives /\ UNCHANGED nodeVars
  BY <1>1, <1>3, OlderAges DEF Arrives, nodeVars
<1>4. CASE Tick
  <2>1. /\ node = "there" /\ UNCHANGED nodeVars
        /\ counted' = Older(counted) /\ born' = IF counted = Never THEN Older(born) ELSE 0
    BY <1>4 DEF Tick
  <2> QED
    BY <1>1, <2>1, OlderAges DEF nodeVars
<1>5. CASE UNCHANGED <<server, node>>
  BY <1>1, <1>5 DEF server
<1>6. CASE Panel
  BY <1>2, <1>5, <1>6 DEF Panel, Edit, PutWrite, PutRead
<1>7. CASE Agent
  BY <1>3, <1>5, <1>7 DEF Agent, AgentBoots, AgentDies, Pull, Begin, Acked, AckLost, UploadFails, nodeVars
<1>8. CASE LinkFails \/ LinkReturns
  BY <1>5, <1>8 DEF LinkFails, LinkReturns, nodeVars
<1> QED
  BY <1>4, <1>6, <1>7, <1>8 DEF Next

(* The agent, its uploads and the link. *)
LEMMA AgentTypes ==
  ASSUME IInv, Types, Next
  PROVE  /\ up' \in BOOLEAN /\ (known' = NoPolicy \/ known' \in Policy)
         /\ done' \in Ages \cup {Never}
         /\ flight' \in [left : 0..1, lost : BOOLEAN] \cup {NoFlight}
         /\ link' \in BOOLEAN /\ outage' \in Ages /\ calm' \in 0..Grace + 1
<1>1. /\ up \in BOOLEAN /\ (known = NoPolicy \/ known \in Policy)
      /\ done \in Ages \cup {Never}
      /\ flight \in [left : 0..1, lost : BOOLEAN] \cup {NoFlight}
      /\ link \in BOOLEAN /\ outage \in Ages /\ calm \in 0..3
      /\ policy = NoPolicy \/ policy \in Policy
  BY DEF Types, TypeOK, Grace
<1>2. Grace + 1 = 3 /\ 0 \in 0..3 /\ 0 \in Ages
  BY OlderAges DEF Grace
<1>3. CASE Panel
  <2>1. UNCHANGED <<up, known, done, flight, link, outage>> /\ calm' \in {0, calm}
    BY <1>3 DEF Panel, Create, Delete, Edit, agent, network
  <2> QED
    BY <1>1, <1>2, <2>1
<1>4. CASE AgentBoots \/ AgentDies \/ Pull
  <2>1. UNCHANGED <<link, outage>> /\ calm' \in {0, calm}
    BY <1>4 DEF AgentBoots, AgentDies, Pull, Change, network
  <2>2. up' \in BOOLEAN /\ (known' = NoPolicy \/ known' \in Policy)
    BY <1>1, <1>4 DEF AgentBoots, AgentDies, Pull
  <2>3. done' \in {done, Never} /\ flight' \in {flight, NoFlight}
    BY <1>4 DEF AgentBoots, AgentDies, Pull
  <2> QED
    BY <1>1, <1>2, <2>1, <2>2, <2>3
<1>5. CASE Begin
  <2>1. UNCHANGED <<up, known, done, link, outage, calm>> /\ flight' = [left |-> 1, lost |-> ~link]
    BY <1>5 DEF Begin, network
  <2>2. flight' \in [left : 0..1, lost : BOOLEAN]
    BY <2>1
  <2> QED
    BY <1>1, <1>2, <2>1, <2>2
<1>6. CASE Acked \/ AckLost \/ UploadFails
  <2>1. UNCHANGED <<up, known, link, outage>> /\ calm' \in {0, calm} /\ done' \in {0, done}
    BY <1>6 DEF Acked, AckLost, UploadFails, Change, network
  <2>2. flight' = NoFlight
    BY <1>6 DEF Acked, AckLost, UploadFails, Arrives
  <2> QED
    BY <1>1, <1>2, <2>1, <2>2
<1>7. CASE LinkFails \/ LinkReturns
  <2>1. UNCHANGED <<up, known, done>> /\ calm' = 0 /\ outage' = 0 /\ link' \in BOOLEAN
    BY <1>7 DEF LinkFails, LinkReturns, Change, agent
  <2>2. flight' \in [left : 0..1, lost : BOOLEAN] \cup {NoFlight}
    BY <1>1, <1>7 DEF LinkFails, LinkReturns, agent
  <2> QED
    BY <1>1, <1>2, <2>1, <2>2
<1>8. CASE Tick
  <2>1. UNCHANGED <<up, known, link>> /\ done' = Older(done)
    BY <1>8 DEF Tick
  <2>2. flight' \in [left : 0..1, lost : BOOLEAN] \cup {NoFlight}
    BY <1>1, <1>8 DEF Tick
  <2>3. outage' \in Ages /\ done' \in Ages \cup {Never}
    BY <1>1, <1>8, OlderAges DEF Tick
  <2>4. calm' \in 0..3
    BY <1>1, <1>8 DEF Tick, Grace
  <2> QED
    BY <1>1, <1>2, <2>1, <2>2, <2>3, <2>4
<1> QED
  BY <1>3, <1>4, <1>5, <1>6, <1>7, <1>8 DEF Next, Agent

LEMMA StepTypes == IInv /\ Types /\ [Next]_vars => Types'
<1> SUFFICES ASSUME IInv, Types, [Next]_vars PROVE Types'
  OBVIOUS
<1>1. CASE Next
  BY <1>1, RowTypes, ServerTypes, AgentTypes DEF Types, TypeOK
<1>2. CASE UNCHANGED vars
  BY <1>2 DEF vars, nodeVars, server, agent, network, Types, TypeOK
<1> QED
  BY <1>1, <1>2

-----------------------------------------------------------------------------
(* An outage and the age of the last counted upload *)

LEMMA InitTimed == Init => Timed
BY DEF Init, NodesInit, Timed, NotYet, OutageIsSilence, AckedIsCounted, CalmIsSound, CalmIsCounted

LEMMA StepNotYet == NotYet /\ [Next]_vars => NotYet'
<1> SUFFICES ASSUME NotYet, [Next]_vars, node' = "none"
             PROVE  ~up' /\ done' = Never /\ flight' = NoFlight /\ calm' = 0 /\ outage' = 0
  BY DEF NotYet
<1>1. CASE Panel
  BY <1>1 DEF Panel, Create, CreateAgent, Delete, DeleteAgent, Edit, PutWrite, PutRead, NotYet, agent, network
<1>2. CASE Agent
  BY <1>2 DEF Agent, AgentBoots, AgentDies, Pull, Begin, MayUpload, Acked, AckLost, Arrives, UploadFails,
              nodeVars, NotYet, network
<1>3. CASE LinkFails \/ LinkReturns \/ Tick
  BY <1>3 DEF LinkFails, LinkReturns, Change, Tick, nodeVars, NotYet, agent
<1>4. CASE UNCHANGED vars
  BY <1>4 DEF vars, nodeVars, agent, network, NotYet
<1> QED
  BY <1>1, <1>2, <1>3, <1>4 DEF Next

(* The silence of the sentinel's measure grows with the outage. *)
LEMMA SinceGrows ==
  ASSUME Types, Tick, outage <= Since
  PROVE  outage' <= Since'
<1>1. /\ born \in Ages /\ outage \in Ages /\ counted \in Ages \cup {Never}
      /\ counted' = Older(counted) /\ born' = IF counted = Never THEN Older(born) ELSE 0
      /\ outage' = IF link THEN 0 ELSE Older(outage)
  BY DEF Types, TypeOK, Tick
<1>2. Since \in Ages /\ Since' = Older(Since)
  BY <1>1, OlderAges DEF Since
<1>3. Older(outage) <= Older(Since) /\ Older(Since) \in Nat
  BY <1>1, <1>2, OlderAges
<1> QED
  BY <1>1, <1>2, <1>3

LEMMA StepOutage == Types /\ NotYet /\ OutageIsSilence /\ [Next]_vars => OutageIsSilence'
<1> SUFFICES ASSUME Types, NotYet, OutageIsSilence, [Next]_vars PROVE OutageIsSilence'
  OBVIOUS
<1>1. /\ born \in Ages /\ counted \in Ages \cup {Never, NoStats} /\ link \in BOOLEAN
      /\ node = "there" => counted \in Ages \cup {Never}
      /\ flight \in [left : 0..1, lost : BOOLEAN] \cup {NoFlight}
  BY DEF Types, TypeOK
<1>2. 0 \in Nat /\ Ages \subseteq Nat /\ Never \notin Ages /\ 0 \in Ages
  BY OlderAges
<1>3. CASE Create
  BY <1>2, <1>3 DEF Create, CreateAgent, NotYet, OutageIsSilence, Since, agent, network
<1>4. CASE Delete
  BY <1>4 DEF Delete, DeleteAgent, OutageIsSilence, agent, network
<1>5. ASSUME UNCHANGED <<node, server, flight, link, outage>> PROVE OutageIsSilence'
  BY <1>5 DEF OutageIsSilence, Since, server
<1>6. CASE Begin
  BY <1>1, <1>6 DEF Begin, OutageIsSilence, Since, server, network, nodeVars
<1>7. CASE AgentDies \/ UploadFails
  BY <1>7 DEF AgentDies, UploadFails, OutageIsSilence, Since, server, network, nodeVars
<1>8. CASE Acked \/ AckLost
  <2>1. Arrives /\ UNCHANGED <<link, outage, node>>
    BY <1>8 DEF Acked, AckLost, network, nodeVars
  <2>2. link /\ outage = 0
    BY <2>1 DEF Arrives, OutageIsSilence
  <2>3. node = "there" => Since' = 0
    BY <1>2, <2>1 DEF Arrives, Since
  <2> QED
    BY <2>1, <2>2, <2>3 DEF OutageIsSilence
<1>9. CASE LinkFails
  <2>1. /\ ~link' /\ outage' = 0 /\ UNCHANGED <<node, server>>
        /\ flight' = IF flight = NoFlight THEN NoFlight ELSE [flight EXCEPT !.lost = TRUE]
    BY <1>9 DEF LinkFails, nodeVars
  <2>2. flight' # NoFlight => flight'.lost
    BY <1>1, <2>1
  <2>3. node = "there" => Since' \in Nat
    BY <1>1, <1>2, <2>1 DEF Since, server
  <2> QED
    BY <2>1, <2>2, <2>3 DEF OutageIsSilence
<1>10. CASE LinkReturns
  <2>1. link' /\ outage' = 0 /\ UNCHANGED <<node, server>>
    BY <1>10 DEF LinkReturns, nodeVars
  <2>2. node = "there" => Since' \in Nat
    BY <1>1, <1>2, <2>1 DEF Since, server
  <2> QED
    BY <2>1, <2>2 DEF OutageIsSilence
<1>11. CASE Tick
  <2>1. /\ outage' = (IF link THEN 0 ELSE Older(outage)) /\ UNCHANGED <<node, link>> /\ node = "there"
        /\ flight' = IF flight = NoFlight THEN NoFlight ELSE [flight EXCEPT !.left = 0]
    BY <1>11 DEF Tick, nodeVars
  <2>2. ~link /\ flight' # NoFlight => flight'.lost
    BY <1>1, <2>1 DEF OutageIsSilence
  <2>3. outage' <= Since'
    BY <1>11, <2>1, SinceGrows DEF OutageIsSilence
  <2> QED
    BY <2>1, <2>2, <2>3 DEF OutageIsSilence
<1>12. CASE UNCHANGED vars
  BY <1>5, <1>12 DEF vars, nodeVars, agent, network
<1>13. CASE Panel
  BY <1>3, <1>4, <1>5, <1>13 DEF Panel, Edit, PutWrite, PutRead, agent, network
<1>14. CASE AgentBoots \/ Pull
  BY <1>5, <1>14 DEF AgentBoots, Pull, nodeVars, network
<1> QED
  BY <1>6, <1>7, <1>8, <1>9, <1>10, <1>11, <1>12, <1>13, <1>14 DEF Next, Agent

-----------------------------------------------------------------------------
(* Calm units and the age of the last counted upload *)

(* What the agent has seen acknowledged the master has counted. *)
LEMMA StepAcked == Types /\ NotYet /\ AckedIsCounted /\ [Next]_vars => AckedIsCounted'
<1> SUFFICES ASSUME Types, NotYet, AckedIsCounted, [Next]_vars PROVE AckedIsCounted'
  OBVIOUS
<1>1. /\ counted \in Ages \cup {Never, NoStats} /\ done \in Ages \cup {Never}
      /\ node = "there" => counted \in Ages \cup {Never}
  BY DEF Types, TypeOK
<1>2. 0 \in Nat /\ Ages \subseteq Nat /\ Never \notin Ages /\ 0 \in Ages
  BY OlderAges
<1>3. ASSUME UNCHANGED <<node, counted, done>> PROVE AckedIsCounted'
  BY <1>3 DEF AckedIsCounted
<1>4. CASE Create \/ Delete
  BY <1>4 DEF Create, CreateAgent, Delete, DeleteAgent, NotYet, AckedIsCounted, agent
<1>5. CASE AgentBoots \/ AgentDies
  BY <1>5 DEF AgentBoots, AgentDies, AckedIsCounted
<1>6. CASE Acked \/ AckLost
  <2>1. /\ UNCHANGED node /\ done' \in {done, IF node = "there" THEN 0 ELSE done}
        /\ node = "there" => counted' = 0
    BY <1>6 DEF Acked, AckLost, Arrives, nodeVars
  <2> QED
    BY <1>1, <1>2, <2>1 DEF AckedIsCounted
<1>7. CASE Tick
  <2>1. node = "there" /\ UNCHANGED node /\ counted' = Older(counted) /\ done' = Older(done)
    BY <1>7 DEF Tick, nodeVars
  <2>2. CASE done = Never
    BY <2>1, <2>2, OlderAges DEF AckedIsCounted
  <2>3. CASE done # Never
    <3>1. counted \in Ages /\ done \in Ages /\ counted <= done
      BY <1>1, <2>1, <2>3 DEF AckedIsCounted
    <3>2. Older(counted) \in Ages /\ Older(counted) <= Older(done)
      BY <3>1, OlderAges
    <3> QED
      BY <1>2, <2>1, <3>2 DEF AckedIsCounted
  <2> QED
    BY <2>2, <2>3
<1>8. CASE UNCHANGED vars
  BY <1>3, <1>8 DEF vars, nodeVars, server, agent
<1>9. CASE Panel
  BY <1>3, <1>4, <1>9 DEF Panel, Edit, PutWrite, PutRead, agent, server
<1>10. CASE Pull \/ Begin \/ UploadFails \/ LinkFails \/ LinkReturns
  BY <1>3, <1>10 DEF Pull, Begin, UploadFails, LinkFails, LinkReturns, nodeVars, server, agent
<1> QED
  BY <1>5, <1>6, <1>7, <1>8, <1>9, <1>10 DEF Next, Agent

(* A calm unit begins with the link and the agent up, and a second one with no lost upload. *)
LEMMA StepCalm == Types /\ CalmIsSound /\ [Next]_vars => CalmIsSound'
<1> SUFFICES ASSUME Types, CalmIsSound, [Next]_vars PROVE CalmIsSound'
  OBVIOUS
<1>1. /\ link \in BOOLEAN /\ up \in BOOLEAN /\ calm \in 0..3
      /\ flight \in [left : 0..1, lost : BOOLEAN] \cup {NoFlight}
  BY DEF Types, TypeOK, Grace
<1>2. ASSUME calm' = 0 PROVE CalmIsSound'
  BY <1>2 DEF CalmIsSound
<1>3. ASSUME UNCHANGED <<up, link, calm>>, flight' \in {NoFlight, flight} PROVE CalmIsSound'
  BY <1>3 DEF CalmIsSound
<1>4. CASE Begin
  BY <1>1, <1>4 DEF Begin, CalmIsSound, network
<1>5. CASE Tick
  <2>1. /\ UNCHANGED <<up, link>> /\ (flight # NoFlight => flight.left = 1)
        /\ flight' = (IF flight = NoFlight THEN NoFlight ELSE [flight EXCEPT !.left = 0])
        /\ calm' = IF ~link \/ ~up THEN 0 ELSE IF calm > 2 THEN calm ELSE calm + 1
    BY <1>5 DEF Tick, Grace
  <2>2. calm' >= 1 => link' /\ up'
    BY <1>1, <2>1
  <2>3. ASSUME flight' # NoFlight
        PROVE  flight # NoFlight /\ flight.left = 1 /\ flight'.left = 0 /\ flight'.lost = flight.lost
    BY <1>1, <2>1, <2>3
  <2>4. ASSUME calm' >= 2 PROVE calm >= 1
    BY <1>1, <2>1, <2>4
  <2> QED
    BY <2>2, <2>3, <2>4 DEF CalmIsSound
<1>6. CASE UNCHANGED vars
  BY <1>3, <1>6 DEF vars, agent, network
<1>7. CASE Panel
  BY <1>2, <1>3, <1>7 DEF Panel, Create, Delete, Edit, agent, network
<1>8. CASE AgentBoots \/ AgentDies \/ AckLost \/ LinkFails \/ LinkReturns
  BY <1>2, <1>8 DEF AgentBoots, AgentDies, AckLost, LinkFails, LinkReturns, Change
<1>9. CASE Pull \/ Acked \/ UploadFails
  BY <1>3, <1>9 DEF Pull, Acked, Arrives, UploadFails, network
<1> QED
  BY <1>4, <1>5, <1>6, <1>7, <1>8, <1>9 DEF Next, Agent

(* An agent with nothing under way lets a unit pass only within the wait of its roll. *)
LEMMA WaitIsShort ==
  ASSUME Types, AckedIsCounted, Tick, up, flight = NoFlight,
         policy.enabled, policy.upload_enabled
  PROVE  counted \in Ages /\ Older(counted) <= Longest(policy)
<1>1. node = "there" /\ policy \in Policy /\ known = policy /\ ~Overdue
  BY DEF Tick, Types
<1>2. PICK roll \in Waits(policy) : ~IsOver(roll)
  BY <1>1 DEF Overdue, MayUpload
<1>3. roll \in Nat /\ Longest(policy) \in Nat /\ roll <= Longest(policy)
  BY <1>1, WaitsAreBounded
<1>4. done \in Ages /\ ~(done >= roll)
  BY <1>2 DEF IsOver, Types, TypeOK
<1>5. counted \in Ages /\ counted <= done
  BY <1>1, <1>4, OlderAges DEF AckedIsCounted, Types
<1>6. Older(counted) <= counted + 1 /\ Older(counted) \in Nat /\ counted \in Nat /\ done \in Nat
  BY <1>4, <1>5, OlderAges
<1> QED
  BY <1>3, <1>4, <1>5, <1>6

(* Once two calm units are over, a tick finds an upload counted within the longest wait. *)
LEMMA TickIsCounted ==
  ASSUME Types, AckedIsCounted, CalmIsSound, CalmIsCounted, Tick
  PROVE  CalmIsCounted'
<1> DEFINE L == Longest(policy)
<1>1. /\ node = "there" /\ UNCHANGED <<node, policy, up, link>>
      /\ counted' = Older(counted)
      /\ (flight # NoFlight => flight.left = 1)
      /\ flight' = (IF flight = NoFlight THEN NoFlight ELSE [flight EXCEPT !.left = 0])
      /\ calm' = IF ~link \/ ~up THEN 0 ELSE IF calm > 2 THEN calm ELSE calm + 1
  BY DEF Tick, Grace, nodeVars
<1>2. /\ calm \in 0..3 /\ counted \in Ages \cup {Never} /\ policy \in Policy
      /\ flight \in [left : 0..1, lost : BOOLEAN] \cup {NoFlight}
  BY <1>1 DEF Types, TypeOK, Grace
<1>3. L \in Nat /\ L = Longest(policy')
  BY <1>1, <1>2, WaitsAreBounded
<1> HIDE DEF L
<1> SUFFICES ASSUME policy.enabled, policy.upload_enabled, calm' >= 2
             PROVE  /\ calm' = 2 => Late' \/ (counted' # Never /\ counted' <= L)
                    /\ calm' >= 3 => counted' # Never /\ counted' <= L + (IF Late' THEN 1 ELSE 0)
  BY <1>1, <1>2, <1>3 DEF CalmIsCounted
<1>4. up /\ calm >= 1 /\ (calm' = 3 => calm >= 2) /\ calm' \in {2, 3}
  BY <1>1, <1>2
<1>5. CASE flight = NoFlight
  <2>1. counted \in Ages /\ Older(counted) <= L
    BY <1>4, <1>5, WaitIsShort DEF L
  <2>2. counted' # Never /\ counted' <= L /\ counted' \in Nat
    BY <1>1, <2>1, OlderAges
  <2> QED
    BY <1>3, <2>2
<1>6. CASE flight # NoFlight
  <2>1. Late' /\ ~Late
    <3>1. flight' \in [left : 0..1, lost : BOOLEAN] /\ flight'.left = 0 /\ flight.left = 1
      BY <1>1, <1>2, <1>6
    <3>2. flight' # NoFlight
      BY <3>1, HealthAssumption
    <3> QED
      BY <3>1, <3>2 DEF Late
  <2>2. ASSUME calm' >= 3 PROVE counted' # Never /\ counted' <= L + 1
    <3>1. calm \in {2, 3}
      BY <1>2, <1>4, <2>2
    <3>2. counted # Never /\ counted <= L
      BY <1>1, <1>3, <2>1, <3>1 DEF CalmIsCounted, L
    <3>3. counted \in Ages
      BY <1>2, <3>2
    <3>4. Older(counted) \in Ages /\ Older(counted) <= counted + 1 /\ counted \in Nat /\ Older(counted) \in Nat
      BY <3>3, OlderAges
    <3> QED
      BY <1>1, <1>3, <3>2, <3>4, OlderAges
  <2> QED
    BY <2>1, <2>2
<1> QED
  BY <1>5, <1>6

LEMMA StepCounted ==
  Types /\ NotYet /\ AckedIsCounted /\ CalmIsSound /\ CalmIsCounted /\ [Next]_vars => CalmIsCounted'
<1> SUFFICES ASSUME Types, NotYet, AckedIsCounted, CalmIsSound, CalmIsCounted, [Next]_vars
             PROVE  CalmIsCounted'
  OBVIOUS
<1>1. calm \in 0..3 /\ flight \in [left : 0..1, lost : BOOLEAN] \cup {NoFlight}
  BY DEF Types, TypeOK, Grace
<1>2. ASSUME calm' = 0 PROVE CalmIsCounted'
  BY <1>2 DEF CalmIsCounted
<1>3. ASSUME UNCHANGED <<node, policy, counted, calm, flight>> PROVE CalmIsCounted'
  BY <1>3 DEF CalmIsCounted, Late
<1>4. CASE Create
  BY <1>2, <1>4 DEF Create, CreateAgent, NotYet
<1>5. CASE Delete
  BY <1>5 DEF Delete, DeleteAgent, CalmIsCounted
<1>6. CASE Begin
  <2>1. /\ UNCHANGED <<node, policy, counted, calm>> /\ ~Late
        /\ flight' = [left |-> 1, lost |-> ~link]
    BY <1>6 DEF Begin, MayUpload, Late, nodeVars, server
  <2>2. ~Late'
    BY <2>1 DEF Late
  <2> QED
    BY <2>1, <2>2 DEF CalmIsCounted
<1>7. CASE Acked
  <2>1. /\ UNCHANGED <<node, policy, calm>> /\ (node = "there" => counted' = 0)
    BY <1>7 DEF Acked, Arrives, nodeVars
  <2>2. ASSUME node = "there" PROVE counted' # Never /\ counted' = 0 /\ Longest(policy) \in Nat
    BY <2>1, <2>2, OlderAges, WaitsAreBounded DEF Types
  <2> QED
    BY <2>1, <2>2 DEF CalmIsCounted, Longest, Larger
<1>8. CASE UploadFails
  <2>1. UNCHANGED <<node, policy, calm, counted>> /\ flight # NoFlight /\ flight.lost /\ flight' = NoFlight
    BY <1>8 DEF UploadFails, nodeVars, server
  <2>2. ~(calm >= 2)
    BY <1>1, <2>1 DEF CalmIsSound
  <2> QED
    BY <1>1, <2>1, <2>2 DEF CalmIsCounted
<1>9. CASE Tick
  BY <1>9, TickIsCounted
<1>10. CASE UNCHANGED vars
  BY <1>3, <1>10 DEF vars, nodeVars, server, agent
<1>11. CASE Panel
  BY <1>2, <1>3, <1>4, <1>5, <1>11 DEF Panel, Edit, PutRead, server, agent
<1>12. CASE AgentBoots \/ AgentDies \/ AckLost \/ LinkFails \/ LinkReturns
  BY <1>2, <1>12 DEF AgentBoots, AgentDies, AckLost, LinkFails, LinkReturns, Change
<1>13. CASE Pull
  BY <1>3, <1>13 DEF Pull, nodeVars, server
<1> QED
  BY <1>6, <1>7, <1>8, <1>9, <1>10, <1>11, <1>12, <1>13 DEF Next, Agent

(* The invariant of types and time holds in every reachable state. *)
THEOREM UploadHealthTimed == Spec => [](Types /\ Timed)
<1>1. IInv /\ Types /\ Timed /\ [Next]_vars => Types' /\ Timed'
  BY StepTypes, StepNotYet, StepOutage, StepAcked, StepCalm, StepCounted DEF Timed
<1> QED
  BY <1>1, InitTypes, InitTimed, UploadHealthInvariant, PTL DEF Spec

(* Every variable has its type: stored and edited rows are policies, ages stay in bounds. *)
THEOREM UploadHealthTypes == Spec => []TypeOK
<1>1. Types => TypeOK
  BY DEF Types
<1> QED
  BY <1>1, UploadHealthTimed, PTL

(* However long a node waits by its policy, an alarm about one that is to upload has a failure, *)
(* a restart or an edit at most Grace units behind it.                                          *)
THEOREM UploadHealthAlarmHasCause == Spec => []AlarmHasCause
<1>1. Types /\ Timed => AlarmHasCause
  <2> SUFFICES ASSUME Types, Timed, Stale, policy.upload_enabled, ~(calm <= Grace) PROVE FALSE
    BY DEF AlarmHasCause
  <2>1. /\ node = "there" /\ policy.enabled /\ calm \in 0..3 /\ calm >= 3
        /\ policy \in Policy /\ counted \in Ages \cup {Never}
    BY DEF Stale, Types, TypeOK, Grace
  <2>2. counted # Never /\ counted <= Longest(policy) + (IF Late THEN 1 ELSE 0)
    BY <2>1 DEF Timed, CalmIsCounted
  <2>3. Longest(policy) \in Nat /\ Threshold(policy) \in Nat /\ Threshold(policy) > Longest(policy)
    BY <2>1, WaitsAreBounded
  <2>4. counted \in Nat /\ counted > Threshold(policy)
    BY <2>1, <2>2, OlderAges DEF Stale, Since
  <2> QED
    BY <2>2, <2>3, <2>4
<1> QED
  BY <1>1, UploadHealthTimed, PTL

(* An outage longer than the threshold of the policy is reported, even of a node that has *)
(* never uploaded.                                                                        *)
THEOREM UploadHealthOutageIsSeen == Spec => []OutageIsSeen
<1>1. Types /\ Timed => OutageIsSeen
  <2> SUFFICES ASSUME Types, Timed, node = "there", up, policy.enabled, outage > Threshold(policy)
               PROVE  Stale
    BY DEF OutageIsSeen
  <2>1. outage <= Since /\ outage \in Nat
    BY OlderAges DEF Timed, OutageIsSilence, Types, TypeOK
  <2>2. Since \in Nat
    BY OlderAges DEF Since, Types, TypeOK
  <2>3. Threshold(policy) \in Nat
    BY WaitsAreBounded DEF Types
  <2> QED
    BY <2>1, <2>2, <2>3 DEF Stale
<1> QED
  BY <1>1, UploadHealthTimed, PTL
=============================================================================
