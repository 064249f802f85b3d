-------------------------- MODULE UploadPathProofs --------------------------
(***************************************************************************)
(* Proofs about UploadPath, for any finite set of addresses, any refreshes *)
(* under way and any number of faults: what the master has counted and     *)
(* what the agent takes as done differ by answers that were lost.  A loss  *)
(* is paid for by a fault of the network or by the address that died under *)
(* the upload, so that the invariant has to say which upload in flight     *)
(* still has its loss before it.                                           *)
(***************************************************************************)
EXTENDS UploadPath, FiniteSetTheorems, TLAPS

(* The address of the tunnel has been spent, and a handler has an upload. *)
AddrIsSpent == addr # NoAddress => addr \in spent
HandlerHasUpload ==
  /\ handler # "none" => at = "flight"
  /\ at = "flight" => target \in Targets

(* What the master has counted and has not answered yet. *)
Unanswered == IF handler = "counted" THEN 1 ELSE 0

(* What it has counted or will, and cannot answer, for the address is dead. *)
Doomed == IF handler \in {"reading", "counted"} /\ ~Live THEN 1 ELSE 0

(* Addresses that may have died under an upload. *)
Dead == Cardinality(spent \ {addr})

(* What is lost or doomed, and what has paid for it. *)
Lost   == ahead - Unanswered + Doomed
Credit == faults + Dead

AccountsHold == Unanswered <= ahead /\ Lost <= Credit

IInv == TypeOK /\ AddrIsSpent /\ HandlerHasUpload /\ AccountsHold

-----------------------------------------------------------------------------
(* The numbers of the account are integers, and a part of a set of addresses is finite. *)
LEMMA AccountTypes ==
  ASSUME TypeOK
  PROVE  /\ IsFiniteSet(spent) /\ IsFiniteSet(spent \ {addr})
         /\ Dead \in Nat /\ Unanswered \in 0..1 /\ Doomed \in 0..1
         /\ ahead \in Int /\ faults \in Nat /\ Lost \in Int /\ Credit \in Int
<1>1. IsFiniteSet(spent) /\ IsFiniteSet(spent \ {addr})
  BY FS_Subset, AddressesAssumption DEF TypeOK
<1>2. Dead \in Nat
  BY <1>1, FS_CardinalityType DEF Dead
<1>3. Unanswered \in 0..1 /\ Doomed \in 0..1 /\ ahead \in Int /\ faults \in Nat
  BY FaultsAssumption DEF TypeOK, Unanswered, Doomed
<1>4. Lost \in Int /\ Credit \in Int
  BY <1>2, <1>3 DEF Lost, Credit
<1> QED
  BY <1>1, <1>2, <1>3, <1>4

(* The same of the next state. *)
LEMMA AccountTypesNext ==
  ASSUME TypeOK'
  PROVE  /\ Dead' \in Nat /\ Unanswered' \in 0..1 /\ Doomed' \in 0..1
         /\ ahead' \in Int /\ faults' \in Nat /\ Lost' \in Int /\ Credit' \in Int
<1>1. Dead' \in Nat
  <2>1. IsFiniteSet((spent \ {addr})')
    BY FS_Subset, AddressesAssumption DEF TypeOK
  <2> QED
    BY <2>1, FS_CardinalityType DEF Dead
<1>2. Unanswered' \in 0..1 /\ Doomed' \in 0..1 /\ ahead' \in Int /\ faults' \in Nat
  BY FaultsAssumption DEF TypeOK, Unanswered, Doomed
<1>3. Lost' \in Int /\ Credit' \in Int
  BY <1>1, <1>2 DEF Lost, Credit
<1> QED
  BY <1>1, <1>2, <1>3

(* A balance that rises by as much as the loss stays a balance. *)
LEMMA Balance ==
  ASSUME NEW l \in Int, NEW c \in Int, NEW l2 \in Int, NEW c2 \in Int, NEW d \in Int,
         l <= c, l2 <= l + d, c + d <= c2
  PROVE  l2 <= c2
OBVIOUS

(* An account that holds still holds when at most as much is lost as is paid for. *)
LEMMA AccountsStep ==
  ASSUME IInv, TypeOK', Unanswered' <= ahead', NEW d \in Int, Lost' <= Lost + d, Credit + d <= Credit'
  PROVE  AccountsHold'
<1>1. Lost \in Int /\ Credit \in Int /\ Lost' \in Int /\ Credit' \in Int
  BY AccountTypes, AccountTypesNext DEF IInv
<1>2. Lost <= Credit
  BY DEF IInv, AccountsHold
<1>3. Lost' <= Credit'
  BY <1>1, <1>2, Balance
<1> QED
  BY <1>3 DEF AccountsHold

(* A larger set of spent addresses has at least as many dead ones, and one more if the *)
(* address of the tunnel has died.                                                     *)
LEMMA DeadGrows ==
  ASSUME TypeOK, AddrIsSpent, Tunnel!MoreSpent
  PROVE  /\ IsFiniteSet(spent')
         /\ Dead <= Cardinality(spent' \ {addr})
         /\ Dead + (IF addr = NoAddress THEN 0 ELSE 1) <= Cardinality(spent' \ {NoAddress})
<1> USE DEF Tunnel!MoreSpent
<1>1. IsFiniteSet(spent') /\ IsFiniteSet(spent' \ {addr}) /\ IsFiniteSet(spent' \ {NoAddress})
  BY FS_Subset, AddressesAssumption
<1>2. Dead <= Cardinality(spent' \ {addr})
  <2>1. spent \ {addr} \subseteq spent' \ {addr}
    OBVIOUS
  <2> QED
    BY <2>1, <1>1, FS_Subset DEF Dead
<1>3. Dead + (IF addr = NoAddress THEN 0 ELSE 1) <= Cardinality(spent' \ {NoAddress})
  <2>1. CASE addr = NoAddress
    BY <2>1, <1>2, <1>1, AccountTypes, FS_CardinalityType
  <2>2. CASE addr # NoAddress
    <3> DEFINE S == (spent \ {addr}) \cup {addr}
    <3>1. Cardinality(S) = Dead + 1
      BY AccountTypes, FS_AddElement DEF Dead
    <3>2. NoAddress \notin spent'
      BY TargetsAssumption
    <3>3. S \subseteq spent' \ {NoAddress}
      BY <2>2, <3>2 DEF AddrIsSpent
    <3>4. Cardinality(S) <= Cardinality(spent' \ {NoAddress})
      BY <3>3, <1>1, FS_Subset
    <3> QED
      BY <2>2, <3>1, <3>4
  <2> QED
    BY <2>1, <2>2
<1> QED
  BY <1>1, <1>2, <1>3

-----------------------------------------------------------------------------
(* Types. *)

(* A pull whose stage and answer change stays a pull. *)
LEMMA StageType ==
  ASSUME TypeOK, NEW q \in Pulls, NEW from, NEW to \in {"asked", "row", "url", "full"},
         NEW answer \in Policy, Stage(q, from, to, answer)
  PROVE  pull' \in [Pulls -> [stage : {"idle", "asked", "row", "url", "full"}, answer : Policy]]
BY DEF TypeOK, Stage

(* The parts of an answer can be put in place one by one. *)
LEMMA AnswerType ==
  ASSUME TypeOK, NEW q \in Pulls
  PROVE  /\ ZeroPolicy \in Policy /\ [ZeroPolicy EXCEPT !.on = row] \in Policy
         /\ pull[q].answer \in Policy
         /\ [pull[q].answer EXCEPT !.on = row] \in Policy
         /\ [pull[q].answer EXCEPT !.url = addr] \in Policy
         /\ [pull[q].answer EXCEPT !.tunnelOn = up] \in Policy
<1>1. ZeroPolicy \in Policy
  BY DEF ZeroPolicy, Policy
<1>2. pull[q].answer \in Policy
  BY DEF TypeOK
<1>3. \A p \in Policy : /\ [p EXCEPT !.on = row] \in Policy
                        /\ [p EXCEPT !.url = addr] \in Policy
                        /\ [p EXCEPT !.tunnelOn = up] \in Policy
  BY DEF Policy, TypeOK
<1> QED
  BY <1>1, <1>2, <1>3

(* An upload is sent to a target. *)
LEMMA SendsToType == \A p \in Policy : SendsTo(p) \in Targets \cup {NoAddress}
BY DEF SendsTo, Policy, Targets

(* Initially there is nothing but the agent's and the master's defaults. *)
LEMMA InitIInv == Init => IInv
<1> SUFFICES ASSUME Init PROVE IInv
  OBVIOUS
<1> USE DEF Init, Tunnel!Init
<1>1. TypeOK
  <2>1. ZeroPolicy \in Policy
    BY DEF ZeroPolicy, Policy
  <2>2. pull \in [Pulls -> [stage : {"idle", "asked", "row", "url", "full"}, answer : Policy]]
    BY <2>1 DEF Idle
  <2>3. up \in BOOLEAN /\ row \in BOOLEAN /\ due \in BOOLEAN /\ backoff \in BOOLEAN
    OBVIOUS
  <2>4. faults \in 0..MaxFaults /\ ahead \in Int
    BY FaultsAssumption
  <2>5. addr \in Addresses \cup {NoAddress} /\ spent \in SUBSET Addresses
    OBVIOUS
  <2> QED
    BY <2>1, <2>2, <2>3, <2>4, <2>5 DEF TypeOK
<1>2. AddrIsSpent /\ HandlerHasUpload
  BY DEF AddrIsSpent, HandlerHasUpload
<1>3. AccountsHold
  <2>1. Unanswered = 0 /\ Doomed = 0
    BY DEF Unanswered, Doomed
  <2>2. Dead \in Nat
    BY <1>1, AccountTypes
  <2> QED
    BY <2>1, <2>2 DEF AccountsHold, Lost, Credit
<1> QED
  BY <1>1, <1>2, <1>3 DEF IInv

-----------------------------------------------------------------------------
(* Steps of the tunnel. *)

(* Only the death of an address can doom an upload, and it is one more dead address. *)
LEMMA MoveIInv ==
  ASSUME IInv, TypeOK', AddrIsSpent', UNCHANGED <<at, target, handler, ahead>>,
         NEW d \in 0..1, Doomed' <= Doomed + d, Credit + d <= Credit'
  PROVE  IInv'
<1>1. HandlerHasUpload'
  BY DEF IInv, HandlerHasUpload
<1>2. Unanswered' = Unanswered /\ ahead' = ahead
  BY DEF Unanswered
<1>3. AccountsHold'
  <2>1. Lost' <= Lost + d
    <3>1. Lost' = ahead - Unanswered + Doomed'
      BY <1>2 DEF Lost
    <3> QED
      BY <3>1, AccountTypes, AccountTypesNext DEF IInv, Lost
  <2>2. Unanswered' <= ahead'
    BY <1>2 DEF IInv, AccountsHold
  <2> QED
    BY <2>1, <2>2, AccountsStep
<1> QED
  BY <1>1, <1>3 DEF IInv

(* Deaths of addresses are credit, and so are faults. *)
LEMMA CreditGrows ==
  ASSUME IInv, TypeOK', NEW d \in 0..1, Dead + d <= Dead', faults <= faults'
  PROVE  Credit + d <= Credit'
<1>1. PICK x \in Int, y \in Int, f \in Int, g \in Int :
        x = Dead /\ y = Dead' /\ f = faults /\ g = faults'
  BY AccountTypes, AccountTypesNext DEF IInv
<1>2. x + d <= y /\ f <= g
  BY <1>1
<1>3. f + x + d <= g + y
  BY <1>2
<1> QED
  BY <1>1, <1>3 DEF Credit

(* The tunnel goes, with its address: whatever is sent there is doomed. *)
LEMMA WithdrawIInv ==
  ASSUME IInv, Tunnel!Withdraw, UNCHANGED <<at, target, handler, ahead, faults>>, TypeOK'
  PROVE  IInv'
<1> USE DEF Tunnel!Withdraw
<1>1. AddrIsSpent'
  BY DEF AddrIsSpent
<1>2. Dead + (IF addr = NoAddress THEN 0 ELSE 1) <= Dead'
  BY DeadGrows DEF IInv, Dead
<1>3. Doomed' <= Doomed + (IF addr = NoAddress THEN 0 ELSE 1)
  <2>1. CASE addr = NoAddress
    BY <2>1 DEF Doomed, Live
  <2>2. CASE addr # NoAddress
    BY <2>2 DEF Doomed
  <2> QED
    BY <2>1, <2>2
<1>4. PICK d \in 0..1 : d = IF addr = NoAddress THEN 0 ELSE 1
  OBVIOUS
<1>5. Dead + d <= Dead' /\ Doomed' <= Doomed + d /\ faults <= faults'
  BY <1>2, <1>3, <1>4, AccountTypes DEF IInv
<1> QED
  BY <1>1, <1>5, CreditGrows, MoveIInv

(* Launches and publications doom nothing, and what is lost only adds to the dead. *)
LEMMA TunnelMovesIInv == IInv /\ TunnelMoves => IInv'
<1> SUFFICES ASSUME IInv, TunnelMoves PROVE IInv'
  OBVIOUS
<1> USE DEF TunnelMoves, conn, upload
<1>0. Dead \in Nat /\ Doomed \in 0..1 /\ faults \in Nat /\ 0 \in 0..1
  BY AccountTypes DEF IInv
<1>a. ASSUME TypeOK', AddrIsSpent', Dead <= Dead', Doomed' <= Doomed PROVE IInv'
  <2>1. faults <= faults' /\ Dead + 0 <= Dead' /\ Doomed' <= Doomed + 0
    BY <1>0, <1>a
  <2>2. Credit + 0 <= Credit'
    BY <2>1, <1>0, <1>a, CreditGrows
  <2> QED
    BY <2>1, <2>2, <1>0, <1>a, MoveIInv
<1>1. CASE Tunnel!Launch
  <2> USE <1>1 DEF Tunnel!Launch
  <2>1. TypeOK' /\ AddrIsSpent'
    BY DEF IInv, TypeOK, AddrIsSpent
  <2>2. Dead' = Dead /\ Doomed' = Doomed
    BY DEF Dead, Doomed, Live
  <2> QED
    BY <2>1, <2>2, <1>0, <1>a
<1>2. ASSUME NEW p \in Addresses, Tunnel!Publish(p) PROVE IInv'
  <2> USE <1>2 DEF Tunnel!Publish
  <2>1. TypeOK' /\ AddrIsSpent'
    BY DEF IInv, TypeOK, AddrIsSpent
  <2>2. Dead' = Dead
    <3>1. addr = NoAddress /\ addr' = p /\ spent' = spent \cup {p} /\ p \notin spent
      OBVIOUS
    <3>2. NoAddress \notin spent
      BY TargetsAssumption DEF IInv, TypeOK
    <3>3. spent' \ {addr'} = spent \ {addr}
      BY <3>1, <3>2
    <3> QED
      BY <3>3 DEF Dead
  <2>3. Doomed' <= Doomed
    <3>1. handler # "none" /\ Live => Live'
      BY TargetsAssumption DEF Live, IInv, HandlerHasUpload, Targets
    <3> QED
      BY <3>1 DEF Doomed
  <2> QED
    BY <2>1, <2>2, <2>3, <1>0, <1>a
<1>3. CASE Tunnel!Withdraw
  <2>1. TypeOK'
    BY <1>3 DEF IInv, TypeOK, Tunnel!Withdraw, Tunnel!MoreSpent
  <2> QED
    BY <1>3, <2>1, WithdrawIInv
<1>4. CASE Tunnel!Lose
  <2> USE <1>4 DEF Tunnel!Lose
  <2>1. TypeOK' /\ AddrIsSpent'
    BY DEF IInv, TypeOK, AddrIsSpent, Tunnel!MoreSpent
  <2>2. Doomed' = Doomed
    BY DEF Doomed, Live
  <2>3. Dead <= Dead' /\ Dead' \in Nat
    BY DeadGrows, FS_RemoveElement, FS_CardinalityType DEF Dead, IInv
  <2> QED
    BY <2>1, <2>2, <2>3, <1>0, <1>a
<1> QED
  BY <1>1, <1>2, <1>3, <1>4 DEF Tunnel!Next

(* The master dies: a loss it causes is paid for by the fault. *)
LEMMA MasterDiesIInv == IInv /\ MasterDies => IInv'
<1> SUFFICES ASSUME IInv, MasterDies PROVE IInv'
  OBVIOUS
<1> USE DEF MasterDies, Tunnel!Withdraw
<1>1. TypeOK'
  <2>1. ZeroPolicy \in Policy
    BY DEF ZeroPolicy, Policy
  <2>2. pull' \in [Pulls -> [stage : {"idle", "asked", "row", "url", "full"}, answer : Policy]]
    BY <2>1 DEF IInv, TypeOK, Idle
  <2>3. faults' \in 0..MaxFaults
    BY FaultsAssumption DEF IInv, TypeOK
  <2>4. up' \in BOOLEAN /\ addr' \in Addresses \cup {NoAddress} /\ spent' \in SUBSET Addresses
    BY DEF Tunnel!MoreSpent
  <2>5. handler' \in {"none", "reading", "counted", "broken"}
    OBVIOUS
  <2> QED
    BY <2>2, <2>3, <2>4, <2>5 DEF IInv, TypeOK, conn
<1>2. AddrIsSpent' /\ HandlerHasUpload'
  BY DEF IInv, AddrIsSpent, HandlerHasUpload
<1>3. AccountsHold'
  <2>1. Unanswered' = 0 /\ Doomed' = 0 /\ ahead' = ahead
    BY DEF Unanswered, Doomed
  <2>2. Dead <= Dead'
    <3>1. Dead \in Nat /\ Cardinality(spent' \ {NoAddress}) \in Nat
      BY AccountTypes, DeadGrows, FS_RemoveElement, FS_CardinalityType DEF IInv
    <3>2. Dead + (IF addr = NoAddress THEN 0 ELSE 1) <= Cardinality(spent' \ {NoAddress})
      BY DeadGrows DEF IInv
    <3>3. Dead' = Cardinality(spent' \ {NoAddress})
      BY DEF Dead
    <3> QED
      BY <3>1, <3>2, <3>3
  <2>3. /\ Dead \in Nat /\ Unanswered \in 0..1 /\ Doomed \in 0..1
        /\ ahead \in Int /\ faults \in Nat /\ Dead' \in Nat
    BY <1>1, AccountTypes, AccountTypesNext DEF IInv
  <2>4. Lost' <= Lost + 1
    <3>1. Lost' = ahead
      BY <2>1, <2>3 DEF Lost
    <3> QED
      BY <3>1, <2>3 DEF Lost
  <2>5. Credit + 1 <= Credit'
    <3>1. Credit' = faults + 1 + Dead'
      BY DEF Credit
    <3>2. PICK x \in Int, y \in Int, f \in Int : x = Dead /\ y = Dead' /\ f = faults
      BY <2>3
    <3>3. x <= y
      BY <3>2, <2>2
    <3>4. (f + x) + 1 <= (f + 1) + y
      BY <3>3
    <3> QED
      BY <3>1, <3>2, <3>4 DEF Credit
  <2>6. Unanswered' <= ahead'
    BY <2>1, <2>3 DEF IInv, AccountsHold
  <2> QED
    BY <1>1, <2>4, <2>5, <2>6, AccountsStep
<1> QED
  BY <1>1, <1>2, <1>3 DEF IInv

-----------------------------------------------------------------------------
(* Steps of the agent and of the handlers. *)

(* What leaves the tunnel, the upload and its account alone. *)
LEMMA CalmIInv ==
  ASSUME IInv, TypeOK', UNCHANGED tunnel, UNCHANGED <<at, target, handler, ahead>>, faults <= faults'
  PROVE  IInv'
<1>1. AddrIsSpent'
  BY DEF IInv, AddrIsSpent, tunnel
<1>2. Dead' = Dead /\ Doomed' = Doomed
  BY DEF Dead, Doomed, Live, tunnel
<1>3. Dead + 0 <= Dead' /\ Doomed' <= Doomed + 0 /\ 0 \in 0..1
  BY <1>2, AccountTypes DEF IInv
<1>4. Credit + 0 <= Credit'
  BY <1>3, CreditGrows
<1> QED
  BY <1>1, <1>3, <1>4, MoveIInv

(* Pulls and the panel's switch. *)
LEMMA PullsIInv ==
  ASSUME IInv, EditRow \/ LoopAsks \/ \E q \in Pulls : PullSteps(q) \/ PullFails(q)
  PROVE  IInv'
<1> USE DEF tunnel, conn, upload
<1>1. CASE EditRow
  <2>1. TypeOK'
    BY <1>1 DEF EditRow, IInv, TypeOK
  <2> QED
    BY <1>1, <2>1, AccountTypes, CalmIInv DEF EditRow, IInv
<1>2. CASE LoopAsks
  <2> USE <1>2 DEF LoopAsks
  <2>1. Loop \in Pulls
    BY DEF Pulls
  <2>2. [ZeroPolicy EXCEPT !.on = row] \in Policy
    BY <2>1, AnswerType DEF IInv
  <2>3. pull' \in [Pulls -> [stage : {"idle", "asked", "row", "url", "full"}, answer : Policy]]
    BY <2>1, <2>2, StageType DEF IInv
  <2>4. TypeOK'
    BY <2>3 DEF IInv, TypeOK
  <2> QED
    BY <2>4, AccountTypes, CalmIInv DEF IInv
<1>3. ASSUME NEW q \in Pulls, ReadRow(q) \/ ReadUrl(q) \/ ReadEnabled(q) PROVE IInv'
  <2>1. pull' \in [Pulls -> [stage : {"idle", "asked", "row", "url", "full"}, answer : Policy]]
    BY <1>3, AnswerType, StageType DEF IInv, ReadRow, ReadUrl, ReadEnabled
  <2>2. UNCHANGED <<tunnel, row, conn, upload, faults>>
    BY <1>3 DEF ReadRow, ReadUrl, ReadEnabled
  <2>3. TypeOK'
    BY <2>1, <2>2 DEF IInv, TypeOK
  <2> QED
    BY <2>2, <2>3, AccountTypes, CalmIInv DEF IInv
<1>4. ASSUME NEW q \in Pulls, ApplyPolicy(q) \/ PullFails(q) PROVE IInv'
  <2>1. /\ pull' = [pull EXCEPT ![q] = Idle]
        /\ policy' \in {policy, pull[q].answer}
        /\ UNCHANGED <<tunnel, row, due, backoff, upload>>
        /\ faults' = faults \/ (faults < MaxFaults /\ faults' = faults + 1)
    BY <1>4 DEF ApplyPolicy, PullFails
  <2>2. Idle \in [stage : {"idle", "asked", "row", "url", "full"}, answer : Policy]
    BY AnswerType DEF Idle, IInv
  <2>3. pull' \in [Pulls -> [stage : {"idle", "asked", "row", "url", "full"}, answer : Policy]]
    BY <2>1, <2>2 DEF IInv, TypeOK
  <2>4. policy' \in Policy
    BY <2>1, AnswerType DEF IInv, TypeOK
  <2>5. TypeOK' /\ faults <= faults'
    BY <2>1, <2>3, <2>4, FaultsAssumption DEF IInv, TypeOK
  <2> QED
    BY <2>1, <2>5, CalmIInv
<1> QED
  BY <1>1, <1>2, <1>3, <1>4 DEF PullSteps

(* The waits of the upload loop, and its tick before anything is sent. *)
LEMMA WaitsIInv ==
  ASSUME IInv, Check \/ Skip \/ Send \/ DueElapses \/ BackoffElapses
  PROVE  IInv'
<1> USE DEF tunnel, conn, upload, Check, Skip, Send, DueElapses, BackoffElapses
<1>1. UNCHANGED <<tunnel, row, policy, pull, handler, ahead, faults>>
  OBVIOUS
<1>2. TypeOK'
  BY SendsToType, TargetsAssumption DEF IInv, TypeOK
<1>3. AddrIsSpent'
  BY DEF IInv, AddrIsSpent
<1>4. HandlerHasUpload'
  BY SendsToType DEF IInv, HandlerHasUpload, TypeOK
<1>5. Dead' = Dead /\ Unanswered' = Unanswered
  BY DEF Dead, Unanswered
<1>6. Doomed' = Doomed
  BY DEF Doomed, Live, IInv, HandlerHasUpload
<1> QED
  BY <1>1, <1>2, <1>3, <1>4, <1>5, <1>6 DEF IInv, AccountsHold, Lost, Credit

(* The handler takes an upload, counts it and answers it. *)
LEMMA HandlerIInv ==
  ASSUME IInv, Arrive \/ Count \/ Ack
  PROVE  IInv'
<1> USE DEF tunnel, conn
<1>1. UNCHANGED <<tunnel, row, policy, pull, faults>>
  BY DEF Arrive, Count, Ack
<1>2. TypeOK'
  <2>1. ahead' \in Int
    BY DEF Arrive, Count, Ack, IInv, TypeOK
  <2>2. /\ at' \in {"wait", "send", "flight"} /\ target' \in Targets \cup {NoAddress}
        /\ handler' \in {"none", "reading", "counted", "broken"}
        /\ due' \in BOOLEAN /\ backoff' = backoff
    BY DEF Arrive, Count, Ack, IInv, TypeOK
  <2> QED
    BY <1>1, <2>1, <2>2 DEF IInv, TypeOK
<1>3. AddrIsSpent' /\ HandlerHasUpload'
  BY <1>1 DEF Arrive, Count, Ack, IInv, AddrIsSpent, HandlerHasUpload
<1>4. Dead' = Dead
  BY <1>1 DEF Dead
<1>5. /\ Dead \in Nat /\ Unanswered \in 0..1 /\ Doomed \in 0..1
      /\ ahead \in Int /\ faults \in Nat
  BY AccountTypes DEF IInv
<1>6. Credit + 0 <= Credit'
  BY <1>1, <1>4, <1>5 DEF Credit
<1>7. Unanswered' <= ahead' /\ Lost' <= Lost + 0
  <2>1. CASE Arrive
    <3>1. Unanswered' = 0 /\ Unanswered = 0 /\ Doomed = 0 /\ Doomed' = 0 /\ ahead' = ahead
      BY <2>1, <1>1 DEF Arrive, Unanswered, Doomed, Live
    <3> QED
      BY <3>1, <1>5 DEF IInv, AccountsHold, Lost
  <2>2. CASE Count
    <3>1. Unanswered' = 1 /\ Unanswered = 0 /\ Doomed' = Doomed /\ ahead' = ahead + 1
      BY <2>2, <1>1 DEF Count, Unanswered, Doomed, Live
    <3>2. Lost' = (ahead + 1) - 1 + Doomed
      BY <3>1 DEF Lost
    <3>3. 0 <= ahead
      BY <3>1 DEF IInv, AccountsHold
    <3> QED
      BY <3>1, <3>2, <3>3, <1>5 DEF Lost
  <2>3. CASE Ack
    <3>1. Unanswered' = 0 /\ Unanswered = 1 /\ Doomed' = 0 /\ ahead' = ahead - 1
      BY <2>3, <1>1 DEF Ack, Unanswered, Doomed
    <3>2. Lost' = ahead - 1 - 0 + 0 /\ 1 <= ahead
      BY <3>1 DEF IInv, AccountsHold, Lost
    <3> QED
      BY <3>1, <3>2, <1>5 DEF Lost
  <2> QED
    BY <2>1, <2>2, <2>3
<1>8. AccountsHold'
  BY <1>2, <1>6, <1>7, AccountsStep
<1> QED
  BY <1>2, <1>3, <1>8 DEF IInv

(* The agent gives an upload up: what is lost was doomed or is the fault's. *)
LEMMA UploadFailsIInv == IInv /\ UploadFails => IInv'
<1> SUFFICES ASSUME IInv, UploadFails PROVE IInv'
  OBVIOUS
<1> USE DEF tunnel
<1>1. Fail
  BY DEF UploadFails
<1>2. /\ at = "flight" /\ at' = "wait" /\ target' = NoAddress /\ handler' = "none"
      /\ ahead' = ahead \/ (handler = "reading" /\ ahead' = ahead + 1)
      /\ backoff' = TRUE
      /\ UNCHANGED <<tunnel, row, policy, due>>
  BY <1>1 DEF Fail
<1>3. \/ MustFail /\ faults' = faults
      \/ faults < MaxFaults /\ faults' = faults + 1
  BY DEF UploadFails
<1>4. pull' \in [Pulls -> [stage : {"idle", "asked", "row", "url", "full"}, answer : Policy]]
  <2>1. PICK q \in Retries : Stage(q, "idle", "asked", ZeroPolicy)
    BY <1>1 DEF Fail
  <2>2. q \in Pulls
    BY DEF Pulls
  <2>3. ZeroPolicy \in Policy
    BY <2>2, AnswerType DEF IInv
  <2> QED
    BY <2>1, <2>2, <2>3, StageType DEF IInv
<1>5. TypeOK'
  BY <1>2, <1>3, <1>4, FaultsAssumption DEF IInv, TypeOK
<1>6. AddrIsSpent' /\ HandlerHasUpload'
  BY <1>2 DEF IInv, AddrIsSpent, HandlerHasUpload
<1>7. /\ Dead \in Nat /\ Unanswered \in 0..1 /\ Doomed \in 0..1
      /\ ahead \in Int /\ faults \in Nat /\ faults' \in Nat /\ Dead' = Dead
  BY <1>2, <1>5, AccountTypes, FaultsAssumption DEF IInv, Dead, TypeOK
<1>8. Unanswered' = 0 /\ Doomed' = 0
  BY <1>2 DEF Unanswered, Doomed
<1>9. PICK d \in 0..1 : faults' = faults + d /\ (d = 0 => MustFail)
  BY <1>3, <1>7
<1>10. Credit + d <= Credit'
  <2>1. PICK x \in Int, f \in Int : x = Dead /\ f = faults
    BY <1>7
  <2>2. Credit' = (f + d) + x
    BY <2>1, <1>7, <1>9 DEF Credit
  <2> QED
    BY <2>1, <2>2 DEF Credit
<1>11. Unanswered' <= ahead'
  BY <1>2, <1>7, <1>8 DEF IInv, AccountsHold
<1>12. Lost' <= Lost + d
  <2>1. Lost' = ahead'
    BY <1>8, <1>7, <1>2 DEF Lost
  <2>2. CASE handler = "reading" \/ handler = "counted"
    <3>1. Unanswered = (IF handler = "counted" THEN 1 ELSE 0) /\ (~Live => Doomed = 1)
      BY <2>2 DEF Unanswered, Doomed
    <3>2. d = 1 \/ Doomed = 1
      BY <2>2, <3>1, <1>9 DEF MustFail
    <3> QED
      BY <2>1, <2>2, <3>1, <3>2, <1>2, <1>7 DEF Lost
  <2>3. CASE handler # "reading" /\ handler # "counted"
    <3>1. Unanswered = 0 /\ ahead' = ahead
      BY <2>3, <1>2 DEF Unanswered
    <3> QED
      BY <2>1, <3>1, <1>7 DEF Lost
  <2> QED
    BY <2>2, <2>3
<1>13. AccountsHold'
  BY <1>5, <1>10, <1>11, <1>12, AccountsStep
<1> QED
  BY <1>5, <1>6, <1>13 DEF IInv

-----------------------------------------------------------------------------
(* Every step preserves the invariant. *)
LEMMA StepIInv == IInv /\ [Next]_vars => IInv'
<1> SUFFICES ASSUME IInv, [Next]_vars PROVE IInv'
  OBVIOUS
<1>1. CASE Next
  BY <1>1, TunnelMovesIInv, MasterDiesIInv, PullsIInv, WaitsIInv, HandlerIInv, UploadFailsIInv
     DEF Next, LoopSteps
<1>2. CASE UNCHANGED vars
  <2>1. TypeOK' /\ faults' = faults /\ UNCHANGED tunnel /\ UNCHANGED <<at, target, handler, ahead>>
    BY <1>2 DEF vars, tunnel, conn, upload, IInv, TypeOK
  <2> QED
    BY <2>1, AccountTypes, CalmIInv DEF IInv
<1> QED
  BY <1>1, <1>2

(* The inductive invariant holds in every reachable state. *)
THEOREM UploadPathInvariant == Spec => []IInv
BY InitIInv, StepIInv, PTL DEF Spec

(* Every variable keeps its type. *)
THEOREM UploadPathTypes == Spec => []TypeOK
<1>1. IInv => TypeOK
  BY DEF IInv
<1> QED
  BY <1>1, UploadPathInvariant, PTL

(* The counts of the master and of the agent differ by answers that were lost, and never the *)
(* other way.                                                                                 *)
THEOREM UploadPathAccounts == Spec => []AccountsAgree
<1>1. IInv => AccountsAgree
  <2> SUFFICES ASSUME IInv PROVE AccountsAgree
    OBVIOUS
  <2>1. /\ Dead \in Nat /\ Unanswered \in 0..1 /\ Doomed \in 0..1
        /\ ahead \in Int /\ faults \in Nat
    BY AccountTypes DEF IInv
  <2>2. Unanswered <= ahead /\ ahead - Unanswered + Doomed <= faults + Dead
    BY DEF IInv, AccountsHold, Lost, Credit
  <2>3. 0 <= ahead /\ ahead <= faults + Dead + Unanswered
    BY <2>1, <2>2
  <2> QED
    BY <2>3 DEF AccountsAgree, Dead, Unanswered
<1> QED
  BY <1>1, UploadPathInvariant, PTL
=============================================================================
