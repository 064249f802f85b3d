------------------------------- MODULE Sources -------------------------------
(***************************************************************************)
(* The download sources of the automation: the panel saves, tests, selects *)
(* and deletes them, a test that finds an APK marks the source verified,   *)
(* and the policy pulled by the agents carries those that are enabled,     *)
(* verified and selected (internal/master/automation_api.go, agent_api.go, *)
(* store/automation.go).                                                   *)
(*                                                                         *)
(* Every SQL statement is a step of its own: a handler reads the table,    *)
(* decides, and writes in another statement, and a test asks the network   *)
(* first.  Names, publishers and sizes are left out, and so are requests   *)
(* that are refused without a look at the table.                           *)
(***************************************************************************)
EXTENDS Naturals

CONSTANTS
  Ids, Urls,
  HostLists,    \* values of allowed_hosts
  Blank,        \* an allowed_hosts that was left empty
  HostOf,       \* HostOf[u]: the list that is the host of u alone
  Seed,         \* seedAppSources: a function from some ids to [url, hosts]
  NoRow,
  Handlers,     \* requests under way at a time
  MaxOps        \* bound: requests of the panel, failed reads and restarts

ASSUME SourcesAssumption ==
  /\ Blank \notin HostLists /\ HostOf \in [Urls -> HostLists]
  /\ DOMAIN Seed \subseteq Ids
  /\ \A i \in DOMAIN Seed : Seed[i] \in [url : Urls, hosts : HostLists]
  /\ NoRow \notin [url : Urls, hosts : HostLists, enabled : BOOLEAN, proven : BOOLEAN]
  /\ MaxOps \in Nat

VARIABLES
  rows,     \* app_sources; proven: verified_url holds the url (Verified)
  config,   \* automation_config
  req,      \* req[w]: a handler between two statements
  pull,     \* a policy request that has read the configuration
  told,     \* the automation policy the agents have last been given
  passed,   \* history: the tests <<url, hosts>> that have found an APK
  crossed,  \* history: <<id, url, hosts>> marked after their test's look at the table had seen other hosts
  ops

table   == <<rows, config>>
agents  == <<pull, told>>
history == <<passed, crossed>>
vars    == <<table, req, agents, history, ops>>

Row    == [url : Urls, hosts : HostLists, enabled : BOOLEAN, proven : BOOLEAN]
Config == [enabled : BOOLEAN, sources : SUBSET Ids]
Told   == [enabled : BOOLEAN, sources : SUBSET [id : Ids, url : Urls, hosts : HostLists]]
Idle   == [at |-> "idle"]

Requests == {Idle}
  \cup [at : {"save"}, id : Ids, url : Urls, hosts : HostLists, enabled : BOOLEAN]
  \cup [at : {"config"}, config : Config]
  \cup [at : {"probe", "look", "mark"}, id : Ids, url : Urls, hosts : HostLists \cup {Blank}]

Exists(i) == rows[i] # NoRow

TypeOK ==
  /\ rows \in [Ids -> Row \cup {NoRow}] /\ config \in Config
  /\ req \in [Handlers -> Requests]
  /\ pull \in {Idle} \cup [at : {"sources"}, config : Config] /\ told \in Told
  /\ passed \subseteq Urls \X (HostLists \cup {Blank}) /\ crossed \subseteq Ids \X Urls \X HostLists
  /\ ops \in 0..MaxOps

(* INSERT OR IGNORE: a source that is there is left as it is. *)
Seeded(t) == [i \in Ids |->
  IF i \in DOMAIN Seed /\ t[i] = NoRow
  THEN [url |-> Seed[i].url, hosts |-> Seed[i].hosts, enabled |-> FALSE, proven |-> FALSE]
  ELSE t[i]]

Init ==
  /\ rows = Seeded([i \in Ids |-> NoRow])
  /\ config = [enabled |-> FALSE, sources |-> {}]
  /\ req = [w \in Handlers |-> Idle]
  /\ pull = Idle /\ told = [enabled |-> FALSE, sources |-> {}]
  /\ passed = {} /\ crossed = {} /\ ops = 0

Begin(w, r) ==
  /\ req[w] = Idle /\ ops < MaxOps /\ ops' = ops + 1
  /\ req' = [req EXCEPT ![w] = r]

-----------------------------------------------------------------------------
(* handleAutomationSources: a source is saved. *)

(* Faulty variant: only the id of a verified source is compared. *)
MayEnableById(i, u, h) == Exists(i) /\ rows[i].proven

(* The look at the table that allows a request to enable a source. *)
MayEnable(i, u, h) == Exists(i) /\ rows[i].proven /\ rows[i].url = u /\ rows[i].hosts = h

(* Faulty variant: an empty list is stored. *)
HostsAsTyped(u, h) == h

(* An empty list of hosts stands for the host of the URL. *)
Hosts(u, h) == IF h = Blank THEN HostOf[u] ELSE h

SaveAsked(w) ==
  \E i \in Ids, u \in Urls, h \in HostLists \cup {Blank}, on \in BOOLEAN :
    /\ on => MayEnable(i, u, Hosts(u, h))
    /\ Begin(w, [at |-> "save", id |-> i, url |-> u, hosts |-> Hosts(u, h), enabled |-> on])
    /\ UNCHANGED <<table, agents, history>>

(* Faulty variant: other hosts leave the source verified. *)
KeepsProofOfUrl(i, u, h) == Exists(i) /\ rows[i].proven /\ rows[i].url = u

(* The CASE of the upsert: a mark survives if neither URL nor hosts change. *)
KeepsProof(i, u, h) == Exists(i) /\ rows[i].proven /\ rows[i].url = u /\ rows[i].hosts = h

(* SaveAppSource. *)
SaveAppSource(w) ==
  LET r == req[w] IN
    /\ r.at = "save"
    /\ rows' = [rows EXCEPT ![r.id] =
         [url |-> r.url, hosts |-> r.hosts, enabled |-> r.enabled, proven |-> KeepsProof(r.id, r.url, r.hosts)]]
    /\ req' = [req EXCEPT ![w] = Idle]
    /\ UNCHANGED <<config, agents, history, ops>>

-----------------------------------------------------------------------------
(* handleAutomationSourceTest: a source is tested as the panel's form has it. *)

TestAsked(w) ==
  /\ \E i \in Ids, u \in Urls, h \in HostLists \cup {Blank} :
       Begin(w, [at |-> "probe", id |-> i, url |-> u, hosts |-> h])
  /\ UNCHANGED <<table, agents, history>>

(* The request to the source follows redirects to the listed hosts only. *)
ProbeFindsApk(w) ==
  /\ req[w].at = "probe"
  /\ passed' = passed \cup {<<req[w].url, req[w].hosts>>}
  /\ req' = [req EXCEPT ![w].at = "look"]
  /\ UNCHANGED <<table, agents, crossed, ops>>

ProbeFails(w) ==
  /\ req[w].at = "probe"
  /\ req' = [req EXCEPT ![w] = Idle]
  /\ UNCHANGED <<table, agents, history, ops>>

IsTested(r) == Exists(r.id) /\ rows[r.id].url = r.url /\ rows[r.id].hosts = r.hosts

(* ListAppSources and the comparison with what was tested. *)
Look(w) ==
  /\ req[w].at = "look"
  /\ req' = [req EXCEPT ![w] = IF IsTested(req[w]) THEN [req[w] EXCEPT !.at = "mark"] ELSE Idle]
  /\ UNCHANGED <<table, agents, history, ops>>

(* MarkSourceVerified: UPDATE ... WHERE id and url. *)
Mark(w) ==
  LET r == req[w]
      hit == Exists(r.id) /\ rows[r.id].url = r.url
  IN  /\ r.at = "mark"
      /\ rows' = [rows EXCEPT ![r.id] = IF hit THEN [@ EXCEPT !.proven = TRUE] ELSE @]
      /\ crossed' = IF hit /\ rows[r.id].hosts # r.hosts
                    THEN crossed \cup {<<r.id, r.url, rows[r.id].hosts>>} ELSE crossed
      /\ req' = [req EXCEPT ![w] = Idle]
      /\ UNCHANGED <<config, agents, passed, ops>>

-----------------------------------------------------------------------------
(* Deletion, configuration, restart. *)

(* handleAutomationSource: one statement. *)
DeleteAppSource ==
  /\ ops < MaxOps /\ ops' = ops + 1
  /\ \E i \in Ids : Exists(i) /\ rows' = [rows EXCEPT ![i] = NoRow]
  /\ UNCHANGED <<config, req, agents, history>>

(* handleAutomation: every selected source is enabled when it looks, and there is one. *)
ConfigAsked(w) ==
  \E c \in Config :
    /\ \A i \in c.sources : Exists(i) /\ rows[i].enabled
    /\ c.enabled => c.sources # {}
    /\ Begin(w, [at |-> "config", config |-> c])
    /\ UNCHANGED <<table, agents, history>>

SetAutomationConfig(w) ==
  /\ req[w].at = "config"
  /\ config' = req[w].config
  /\ req' = [req EXCEPT ![w] = Idle]
  /\ UNCHANGED <<rows, agents, history, ops>>

(* The master is restarted: handlers end where they are, NewServer seeds the table. *)
Restart ==
  /\ ops < MaxOps /\ ops' = ops + 1
  /\ req' = [w \in Handlers |-> Idle] /\ pull' = Idle
  /\ rows' = Seeded(rows)
  /\ UNCHANGED <<config, told, history>>

-----------------------------------------------------------------------------
(* agentAutomationPolicy, and the agent that takes the answer. *)

PullConfig ==
  /\ pull = Idle
  /\ pull' = [at |-> "sources", config |-> config]
  /\ UNCHANGED <<table, req, told, history, ops>>

(* The errors of both reads are dropped: a configuration that cannot be read is off, *)
(* a table that cannot be read is empty.                                             *)
PullConfigFails ==
  /\ pull = Idle /\ ops < MaxOps /\ ops' = ops + 1
  /\ pull' = [at |-> "sources", config |-> [enabled |-> FALSE, sources |-> {}]]
  /\ UNCHANGED <<table, req, told, history>>

Sendable(c, i) == Exists(i) /\ rows[i].enabled /\ rows[i].proven /\ i \in c.sources

Answer(c) == [enabled |-> c.enabled,
              sources |-> {[id |-> i, url |-> rows[i].url, hosts |-> rows[i].hosts] :
                             i \in {j \in Ids : Sendable(c, j)}}]

(* Faulty variant: an answer without a source is not worth sending. *)
PullSourcesIfAny ==
  /\ pull # Idle
  /\ told' = IF Answer(pull.config).sources = {} THEN told ELSE Answer(pull.config)
  /\ pull' = Idle
  /\ UNCHANGED <<table, req, history, ops>>

PullSources ==
  /\ pull # Idle
  /\ told' = Answer(pull.config)
  /\ pull' = Idle
  /\ UNCHANGED <<table, req, history, ops>>

PullSourcesFails ==
  /\ pull # Idle /\ ops < MaxOps /\ ops' = ops + 1
  /\ told' = [enabled |-> pull.config.enabled, sources |-> {}]
  /\ pull' = Idle
  /\ UNCHANGED <<table, req, history>>

-----------------------------------------------------------------------------
Handle(w) ==
  \/ SaveAppSource(w) \/ ProbeFindsApk(w) \/ ProbeFails(w) \/ Look(w) \/ Mark(w)
  \/ SetAutomationConfig(w)

Panel == DeleteAppSource \/ \E w \in Handlers : SaveAsked(w) \/ TestAsked(w) \/ ConfigAsked(w)

Pull == PullConfig \/ PullConfigFails \/ PullSources \/ PullSourcesFails

Next == Panel \/ Restart \/ Pull \/ \E w \in Handlers : Handle(w)

Spec == Init /\ [][Next]_vars

(* The Go scheduler runs every handler on, a test has a timeout of 15 s, and   *)
(* the agents pull every 30 s.                                                 *)
FairSpec ==
  /\ Spec
  /\ \A w \in Handlers : WF_vars(Handle(w))
  /\ WF_vars(PullConfig) /\ WF_vars(PullSources)

(* A source is enabled only if a test has found an APK behind its URL, although  *)
(* the row may be rewritten between the look that allows it and the save that    *)
(* does it ("test and verify the link of the APK first", handleAutomationSources). *)
EnabledWasTested ==
  \A i \in Ids : Exists(i) /\ rows[i].enabled => \E h \in HostLists : <<rows[i].url, h>> \in passed

(* What agents download was tested with the list of hosts they are given, which  *)
(* bounds the redirects they follow, unless the hosts were edited between a      *)
(* test's look at the table and its mark, which only asks for id and URL.        *)
ToldWasTested ==
  \A s \in told.sources : <<s.url, s.hosts>> \in passed \/ <<s.id, s.url, s.hosts>> \in crossed

(* Once the panel leaves the sources alone and reads no longer fail, agents have *)
(* the switch and exactly the enabled, verified and selected sources: what was   *)
(* withdrawn does not linger, what a failed read has turned off comes back.      *)
AgentsLearn == <>[](told = Answer(config))
=============================================================================
