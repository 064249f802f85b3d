------------------------------ MODULE Policies ------------------------------
(***************************************************************************)
(* A node and its upload policy in the master's database: created with a   *)
(* default policy, edited by requests of the panel that read the row,      *)
(* merge what they change, check the result and write the whole row back,  *)
(* deleted at any time (internal/master/panel_api.go, store/agents.go,     *)
(* store/policies.go).                                                     *)
(*                                                                         *)
(* Intervals are counted in a unit of time, sizes in MiB.                  *)
(***************************************************************************)
EXTENDS Integers

CONSTANTS
  Handlers,    \* requests under way at a time
  Bodies,      \* the bodies requests may have: records of some Fields
  Seed,        \* the default interval, 1800 s, in units of time
  NoPolicy,
  MaxPuts      \* bound: requests that find a policy

Policy == [enabled : BOOLEAN, upload_enabled : BOOLEAN,
           interval : Nat, interval_min : Nat, interval_max : Nat,
           size : Nat, size_min : Nat, size_max : Nat]

Switches == {"enabled", "upload_enabled"}
Numbers  == {"interval", "interval_min", "interval_max", "size", "size_min", "size_max"}
Fields   == Switches \cup Numbers

ASSUME PoliciesAssumption ==
  /\ \A b \in Bodies : DOMAIN b \subseteq Fields
  /\ \A b \in Bodies : \A f \in DOMAIN b : IF f \in Switches THEN b[f] \in BOOLEAN ELSE b[f] \in Int
  /\ Seed \in Nat \ {0} /\ MaxPuts \in Nat

VARIABLES
  node,      \* "none", "there" or "deleted": its row in agents
  policy,    \* its row in policies
  put,       \* put[w]: a request between its two statements
  crossed,   \* history: two requests have overlapped
  promised,  \* history: the seed with all acknowledged bodies on top
  puts

nodeVars == <<node, policy, put, crossed, promised, puts>>

Idle == [at |-> "idle"]

(* The row CreateAgent inserts; its size is above what an edit may set. *)
SeedPolicy == [enabled |-> TRUE, upload_enabled |-> TRUE,
               interval |-> Seed, interval_min |-> 0, interval_max |-> 0,
               size |-> 50, size_min |-> 0, size_max |-> 0]

(* Faulty variant: what the body leaves out is set to its default. *)
MergeIntoSeed(b, p) == [f \in Fields |-> IF f \in DOMAIN b THEN b[f] ELSE SeedPolicy[f]]

(* Only the fields the body has are changed. *)
Merge(b, p) == [f \in Fields |-> IF f \in DOMAIN b THEN b[f] ELSE p[f]]

(* Faulty variant: nothing keeps a minimum or a maximum from being negative. *)
FieldsPassSigned(b) ==
  \A f \in DOMAIN b : (f = "interval" => b[f] >= 1) /\ (f = "size" => b[f] \in 1..5)

(* The checks of single fields, for those the body has. *)
FieldsPass(b) ==
  \A f \in DOMAIN b \ Switches :
    CASE f = "interval" -> b[f] >= 1
      [] f = "size"     -> b[f] \in 1..5
      [] OTHER          -> b[f] >= 0

(* The checks across fields. *)
RowPasses(p) ==
  /\ p.size_min <= 5 /\ p.size_max <= 5
  /\ p.size_max > 0 => p.size_max >= p.size_min
  /\ p.interval_max > 0 => p.interval_max >= p.interval_min

(* Faulty variant: the checks across fields see the body and not the row. *)
AcceptedAlone(b, p) == FieldsPass(b) /\ RowPasses([f \in Fields |-> IF f \in DOMAIN b THEN b[f] ELSE 0])

Accepted(b, p) == FieldsPass(b) /\ RowPasses(Merge(b, p))

NodesInit ==
  /\ node = "none" /\ policy = NoPolicy
  /\ put = [w \in Handlers |-> Idle]
  /\ crossed = FALSE /\ promised = SeedPolicy /\ puts = 0

(* CreateAgent: agent, policy and stats in one transaction. *)
CreateAgent ==
  /\ node = "none"
  /\ node' = "there" /\ policy' = SeedPolicy
  /\ UNCHANGED <<put, crossed, promised, puts>>

(* handleNodePolicy up to its last check; a refused request changes nothing. *)
PutRead(w) ==
  /\ put[w] = Idle /\ puts < MaxPuts
  /\ policy # NoPolicy
  /\ \E b \in Bodies :
       /\ Accepted(b, policy)
       /\ put' = [put EXCEPT ![w] = [at |-> "write", body |-> b, row |-> Merge(b, policy)]]
  /\ crossed' = (crossed \/ \E v \in Handlers : put[v] # Idle)
  /\ puts' = puts + 1
  /\ UNCHANGED <<node, policy, promised>>

(* The promise to a request: its fields, and nothing else, have its values. *)
Asked(b) == [f \in Fields |-> IF f \in DOMAIN b THEN b[f] ELSE promised[f]]

(* Faulty variant: without the foreign key the upsert inserts a row. *)
PutWriteUnkeyed(w) ==
  /\ put[w] # Idle
  /\ policy' = put[w].row /\ promised' = Asked(put[w].body)
  /\ put' = [put EXCEPT ![w] = Idle]
  /\ UNCHANGED <<node, crossed, puts>>

(* UpsertPolicy: the whole row.  The node may be gone; the foreign key refuses it then. *)
PutWrite(w) ==
  /\ put[w] # Idle
  /\ IF node = "there"
     THEN policy' = put[w].row /\ promised' = Asked(put[w].body)
     ELSE UNCHANGED <<policy, promised>>
  /\ put' = [put EXCEPT ![w] = Idle]
  /\ UNCHANGED <<node, crossed, puts>>

(* DeleteAgent: the foreign keys delete the policy and the stats with it. *)
DeleteAgent ==
  /\ node = "there"
  /\ node' = "deleted" /\ policy' = NoPolicy
  /\ UNCHANGED <<put, crossed, promised, puts>>

(* A stored policy passes the checks across its fields, whichever parts of it *)
(* were edited in which order: an agent never meets a range that is upside    *)
(* down (handleNodePolicy checks the merged row and writes all of it).        *)
StoredPasses == policy # NoPolicy => RowPasses(policy)

(* Edits add up: the row is what the acknowledged requests have asked for,    *)
(* field by field, unless two of them overlapped, when the later write puts   *)
(* back what it has read.                                                     *)
EditsAddUp == policy # NoPolicy /\ ~crossed => policy = promised
=============================================================================
