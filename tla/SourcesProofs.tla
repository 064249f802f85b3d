---------------------------- MODULE SourcesProofs ----------------------------
(***************************************************************************)
(* Proofs about Sources, for any number of sources, lists of hosts and     *)
(* requests.  A mark and a decision to enable rest on what a handler has   *)
(* seen earlier; the invariant says what of it still holds when the        *)
(* handler acts, whatever has been saved, deleted or seeded meanwhile.     *)
(***************************************************************************)
EXTENDS Sources, TLAPS

Tested(u) == \E h \in HostLists : <<u, h>> \in passed

(* What a row says about its URL: somebody has tested it, with some list of hosts. *)
RowsWereTested == \A i \in Ids : Exists(i) /\ (rows[i].enabled \/ rows[i].proven) => Tested(rows[i].url)

(* What its mark says about its hosts. *)
ProvenWasTested == \A i \in Ids : Exists(i) /\ rows[i].proven =>
  <<rows[i].url, rows[i].hosts>> \in passed \/ <<i, rows[i].url, rows[i].hosts>> \in crossed

(* What a handler takes from one statement to the next. *)
HandlersKnow == \A w \in Handlers :
  /\ req[w].at = "save" /\ req[w].enabled => Tested(req[w].url)
  /\ req[w].at \in {"look", "mark"} => <<req[w].url, req[w].hosts>> \in passed
  /\ req[w].at = "mark" => req[w].hosts \in HostLists

TestInv == RowsWereTested /\ ProvenWasTested /\ HandlersKnow /\ ToldWasTested
IInv    == TypeOK /\ TestInv

-----------------------------------------------------------------------------
(* Facts about rows and requests. *)

\* A row has the fields of Row, and is not mistaken for its absence.
LEMMA RowType ==
  ASSUME TypeOK, NEW i \in Ids, Exists(i)
  PROVE  rows[i] \in Row
BY DEF TypeOK, Exists

\* A record with the fields of a row is a row.
LEMMA RowIsThere == \A r \in Row : r # NoRow
BY SourcesAssumption DEF Row

\* The fields of a request by its stage.
LEMMA RequestType ==
  ASSUME TypeOK, NEW w \in Handlers
  PROVE  /\ req[w].at = "save" => req[w].id \in Ids /\ req[w].url \in Urls /\ req[w].hosts \in HostLists
                                  /\ req[w].enabled \in BOOLEAN
         /\ req[w].at = "config" => req[w].config \in Config
         /\ req[w].at \in {"probe", "look", "mark"} =>
              /\ req[w] = [at |-> req[w].at, id |-> req[w].id, url |-> req[w].url, hosts |-> req[w].hosts]
              /\ req[w].id \in Ids /\ req[w].url \in Urls /\ req[w].hosts \in HostLists \cup {Blank}
<1>1. req[w] \in Requests
  BY DEF TypeOK
<1> QED
  BY <1>1 DEF Requests, Idle

\* Seeding adds rows that are off and unmarked and leaves all others alone.
LEMMA SeededRows ==
  ASSUME NEW t \in [Ids -> Row \cup {NoRow}]
  PROVE  /\ Seeded(t) \in [Ids -> Row \cup {NoRow}]
         /\ \A i \in Ids : Seeded(t)[i] = t[i] \/ (Seeded(t)[i] \in Row /\ ~Seeded(t)[i].enabled /\ ~Seeded(t)[i].proven)
<1>1. ASSUME NEW i \in Ids
      PROVE  Seeded(t)[i] = t[i] \/ (Seeded(t)[i] \in Row /\ ~Seeded(t)[i].enabled /\ ~Seeded(t)[i].proven)
  <2>1. CASE i \in DOMAIN Seed /\ t[i] = NoRow
    <3>1. Seed[i].url \in Urls /\ Seed[i].hosts \in HostLists
      BY <2>1, SourcesAssumption
    <3> QED
      BY <2>1, <3>1 DEF Seeded, Row
  <2>2. CASE ~(i \in DOMAIN Seed /\ t[i] = NoRow)
    BY <2>2 DEF Seeded
  <2> QED
    BY <2>1, <2>2
<1>2. Seeded(t) = [i \in Ids |-> Seeded(t)[i]]
  BY DEF Seeded
<1> QED
  BY <1>1, <1>2

\* The initial state satisfies the invariant: nothing is enabled, marked or handed out.
LEMMA InitIInv == Init => IInv
<1> SUFFICES ASSUME Init PROVE IInv
  OBVIOUS
<1> DEFINE empty == [i \in Ids |-> NoRow]
<1>1. empty \in [Ids -> Row \cup {NoRow}] /\ \A i \in Ids : empty[i] = NoRow
  OBVIOUS
<1>2. rows = Seeded(empty)
  BY DEF Init
<1> HIDE DEF empty
<1>3. /\ rows \in [Ids -> Row \cup {NoRow}]
      /\ \A i \in Ids : rows[i] # NoRow => ~rows[i].enabled /\ ~rows[i].proven
  BY <1>1, <1>2, SeededRows
<1>4. TypeOK
  BY <1>3, SourcesAssumption DEF Init, TypeOK, Config, Requests, Idle, Told
<1>5. RowsWereTested /\ ProvenWasTested
  BY <1>3 DEF RowsWereTested, ProvenWasTested, Exists
<1>6. HandlersKnow /\ ToldWasTested
  BY DEF Init, HandlersKnow, Idle, ToldWasTested
<1> QED
  BY <1>4, <1>5, <1>6 DEF IInv, TestInv

-----------------------------------------------------------------------------
(* Steps that write neither rows nor what agents were told. *)

\* A request begins with what it has just seen in the table.
LEMMA BeginStep ==
  ASSUME IInv, NEW w \in Handlers, SaveAsked(w) \/ TestAsked(w) \/ ConfigAsked(w)
  PROVE  IInv'
<1> USE DEF IInv, TestInv
<1>1. UNCHANGED <<table, agents, history>> /\ ops' \in 0..MaxOps
  BY SourcesAssumption DEF SaveAsked, TestAsked, ConfigAsked, Begin, TypeOK
<1>2. \E r \in Requests : /\ req' = [req EXCEPT ![w] = r]
                          /\ r.at \in {"save", "probe", "config"}
                          /\ r.at = "save" /\ r.enabled => Tested(r.url)
  <2>1. CASE SaveAsked(w)
    <3>1. PICK i \in Ids, u \in Urls, h \in HostLists \cup {Blank}, on \in BOOLEAN :
            /\ on => MayEnable(i, u, Hosts(u, h))
            /\ req' = [req EXCEPT ![w] = [at |-> "save", id |-> i, url |-> u, hosts |-> Hosts(u, h), enabled |-> on]]
      BY <2>1 DEF SaveAsked, Begin
    <3>2. Hosts(u, h) \in HostLists
      BY SourcesAssumption DEF Hosts
    <3>3. on => Tested(u)
      BY <3>1 DEF MayEnable, RowsWereTested
    <3>4. [at |-> "save", id |-> i, url |-> u, hosts |-> Hosts(u, h), enabled |-> on] \in Requests
      BY <3>2 DEF Requests
    <3> QED
      BY <3>1, <3>3, <3>4
  <2>2. CASE TestAsked(w)
    <3>1. PICK i \in Ids, u \in Urls, h \in HostLists \cup {Blank} :
            req' = [req EXCEPT ![w] = [at |-> "probe", id |-> i, url |-> u, hosts |-> h]]
      BY <2>2 DEF TestAsked, Begin
    <3>2. [at |-> "probe", id |-> i, url |-> u, hosts |-> h] \in Requests
      BY DEF Requests
    <3> QED
      BY <3>1, <3>2
  <2>3. CASE ConfigAsked(w)
    <3>1. PICK c \in Config : req' = [req EXCEPT ![w] = [at |-> "config", config |-> c]]
      BY <2>3 DEF ConfigAsked, Begin
    <3>2. [at |-> "config", config |-> c] \in Requests
      BY DEF Requests
    <3> QED
      BY <3>1, <3>2
  <2> QED
    BY <2>1, <2>2, <2>3
<1>3. TypeOK'
  BY <1>1, <1>2 DEF TypeOK, table, agents, history
<1>4. HandlersKnow'
  BY <1>1, <1>2 DEF HandlersKnow, Tested, TypeOK, history
<1>5. RowsWereTested' /\ ProvenWasTested' /\ ToldWasTested'
  BY <1>1 DEF RowsWereTested, ProvenWasTested, ToldWasTested, Exists, Tested, table, agents, history
<1> QED
  BY <1>3, <1>4, <1>5

\* A test asks the network and looks at the table; what it has found stays found.
LEMMA TestStep ==
  ASSUME IInv, NEW w \in Handlers, ProbeFindsApk(w) \/ ProbeFails(w) \/ Look(w)
  PROVE  IInv'
<1> USE DEF IInv, TestInv
<1>1. UNCHANGED <<table, agents, crossed, ops>>
  BY DEF ProbeFindsApk, ProbeFails, Look, history
<1>2. passed \subseteq passed' /\ passed' \subseteq Urls \X (HostLists \cup {Blank})
  BY RequestType DEF ProbeFindsApk, ProbeFails, Look, TypeOK, history
<1>3. \E r \in Requests : /\ req' = [req EXCEPT ![w] = r]
                          /\ r.at # "save"
                          /\ r.at \in {"look", "mark"} => <<r.url, r.hosts>> \in passed'
                          /\ r.at = "mark" => r.hosts \in HostLists
  <2>1. CASE ProbeFindsApk(w)
    <3>1. PICK i \in Ids, u \in Urls, h \in HostLists \cup {Blank} :
            req[w] = [at |-> "probe", id |-> i, url |-> u, hosts |-> h]
      BY <2>1, RequestType DEF ProbeFindsApk
    <3>2. [req[w] EXCEPT !.at = "look"] = [at |-> "look", id |-> i, url |-> u, hosts |-> h]
      BY <3>1
    <3>3. [at |-> "look", id |-> i, url |-> u, hosts |-> h] \in Requests
      BY DEF Requests
    <3>4. req' = [req EXCEPT ![w] = [req[w] EXCEPT !.at = "look"]] /\ <<u, h>> \in passed'
      BY <2>1, <3>1 DEF ProbeFindsApk
    <3> QED
      BY <3>2, <3>3, <3>4
  <2>2. CASE ProbeFails(w)
    <3>1. Idle \in Requests
      BY DEF Requests
    <3> QED
      BY <2>2, <3>1 DEF ProbeFails, Idle
  <2>3. CASE Look(w) /\ ~IsTested(req[w])
    <3>1. Idle \in Requests
      BY DEF Requests
    <3> QED
      BY <2>3, <3>1 DEF Look, Idle
  <2>4. CASE Look(w) /\ IsTested(req[w])
    <3>1. PICK i \in Ids, u \in Urls, h \in HostLists \cup {Blank} :
            req[w] = [at |-> "look", id |-> i, url |-> u, hosts |-> h]
      <4>1. req[w].at = "look"
        BY <2>4 DEF Look
      <4> QED
        BY <4>1, RequestType
    <3>2. [req[w] EXCEPT !.at = "mark"] = [at |-> "mark", id |-> i, url |-> u, hosts |-> h]
      BY <3>1
    <3>3. h \in HostLists
      BY <2>4, <3>1, RowType DEF IsTested, Row
    <3>4. [at |-> "mark", id |-> i, url |-> u, hosts |-> h] \in Requests
      BY DEF Requests
    <3>5. req' = [req EXCEPT ![w] = [req[w] EXCEPT !.at = "mark"]] /\ <<u, h>> \in passed'
      BY <2>4, <3>1, <1>2 DEF Look, HandlersKnow
    <3> QED
      BY <3>2, <3>3, <3>4, <3>5
  <2> QED
    BY <2>1, <2>2, <2>3, <2>4
<1>4. TypeOK'
  BY <1>1, <1>2, <1>3 DEF TypeOK, table, agents
<1>5. HandlersKnow'
  BY <1>2, <1>3 DEF HandlersKnow, Tested, TypeOK
<1>6. RowsWereTested' /\ ProvenWasTested' /\ ToldWasTested'
  BY <1>1, <1>2 DEF RowsWereTested, ProvenWasTested, ToldWasTested, Exists, Tested, table, agents
<1> QED
  BY <1>4, <1>5, <1>6

-----------------------------------------------------------------------------
(* Steps that write rows. *)

\* A save changes one row; its mark survives only with its URL and hosts.
LEMMA SaveStep ==
  ASSUME IInv, NEW w \in Handlers, SaveAppSource(w)
  PROVE  IInv'
<1> USE DEF IInv, TestInv
<1> DEFINE i == req[w].id
           u == req[w].url
           h == req[w].hosts
           r == [url |-> u, hosts |-> h, enabled |-> req[w].enabled, proven |-> KeepsProof(i, u, h)]
<1>1. i \in Ids /\ u \in Urls /\ h \in HostLists /\ req[w].enabled \in BOOLEAN /\ req[w].at = "save"
  BY RequestType DEF SaveAppSource
<1>2. KeepsProof(i, u, h) \in BOOLEAN
  BY DEF KeepsProof
<1>3. r \in Row
  BY <1>1, <1>2 DEF Row
<1>4. rows' = [rows EXCEPT ![i] = r] /\ req' = [req EXCEPT ![w] = Idle]
      /\ UNCHANGED <<config, agents, history, ops>>
  BY DEF SaveAppSource
<1>5. (r.enabled \/ r.proven) => Tested(u)
  <2>1. CASE r.enabled
    BY <1>1, <2>1 DEF HandlersKnow
  <2>2. CASE r.proven
    BY <1>1, <2>2 DEF KeepsProof, RowsWereTested
  <2> QED
    BY <2>1, <2>2
<1>6. r.proven => <<u, h>> \in passed \/ <<i, u, h>> \in crossed
  BY <1>1 DEF KeepsProof, ProvenWasTested
<1>7. r.url = u /\ r.hosts = h
  OBVIOUS
<1> HIDE DEF r, i, u, h
<1>8. TypeOK'
  BY <1>1, <1>3, <1>4 DEF TypeOK, agents, history, Requests, Idle
<1>9. HandlersKnow'
  BY <1>4 DEF HandlersKnow, Tested, TypeOK, Idle, history
<1>10. RowsWereTested'
  BY <1>1, <1>4, <1>5, <1>7 DEF RowsWereTested, Exists, Tested, TypeOK, history
<1>11. ProvenWasTested'
  BY <1>1, <1>4, <1>6, <1>7 DEF ProvenWasTested, Exists, TypeOK, history
<1>12. ToldWasTested'
  BY <1>4 DEF ToldWasTested, agents, history
<1> QED
  BY <1>8, <1>9, <1>10, <1>11, <1>12

\* A mark falls on a row with the URL that was tested.  If the row has other hosts by now,
\* it is one of those recorded in crossed.
LEMMA MarkStep ==
  ASSUME IInv, NEW w \in Handlers, Mark(w)
  PROVE  IInv'
<1> USE DEF IInv, TestInv
<1> DEFINE i == req[w].id
           u == req[w].url
           hit == Exists(i) /\ rows[i].url = u
<1>1. /\ i \in Ids /\ u \in Urls /\ req[w].hosts \in HostLists
      /\ <<u, req[w].hosts>> \in passed /\ Tested(u)
  BY RequestType DEF Mark, HandlersKnow, Tested
<1>2. req' = [req EXCEPT ![w] = Idle] /\ UNCHANGED <<config, agents, passed, ops>>
  BY DEF Mark
<1>3. CASE ~hit
  <2>1. rows' = rows /\ crossed' = crossed
    BY <1>3 DEF Mark, TypeOK
  <2>2. TypeOK'
    BY <1>2, <2>1 DEF TypeOK, agents, Requests, Idle
  <2>3. HandlersKnow'
    BY <1>2 DEF HandlersKnow, Tested, TypeOK, Idle
  <2> QED
    BY <1>2, <2>1, <2>2, <2>3 DEF RowsWereTested, ProvenWasTested, ToldWasTested, Exists, Tested, agents
<1>4. CASE hit
  <2> DEFINE g == rows[i].hosts
             r == [rows[i] EXCEPT !.proven = TRUE]
  <2>1. rows[i] \in Row
    BY <1>1, <1>4, RowType
  <2>2. g \in HostLists
    BY <2>1 DEF Row
  <2>3. r \in Row
    BY <2>1 DEF Row
  <2>4. r.url = u /\ r.hosts = g
    BY <1>4, <2>1 DEF Row
  <2>5. rows' = [rows EXCEPT ![i] = r]
    BY <1>4 DEF Mark
  <2>6. crossed' = IF g # req[w].hosts THEN crossed \cup {<<i, u, g>>} ELSE crossed
    BY <1>4 DEF Mark
  <2>7. crossed \subseteq crossed' /\ (<<u, g>> \in passed \/ <<i, u, g>> \in crossed')
        /\ crossed' \subseteq Ids \X Urls \X HostLists
    BY <1>1, <2>2, <2>6 DEF TypeOK
  <2> HIDE DEF r, i, u, g
  <2>8. TypeOK'
    BY <1>1, <1>2, <2>3, <2>5, <2>7 DEF TypeOK, agents, Requests, Idle
  <2>9. HandlersKnow'
    BY <1>2 DEF HandlersKnow, Tested, TypeOK, Idle
  <2>10. RowsWereTested'
    BY <1>1, <1>2, <2>4, <2>5 DEF RowsWereTested, Exists, Tested, TypeOK
  <2>11. ProvenWasTested'
    BY <1>1, <1>2, <2>4, <2>5, <2>7 DEF ProvenWasTested, Exists, TypeOK
  <2>12. ToldWasTested'
    BY <1>2, <2>7 DEF ToldWasTested, agents
  <2> QED
    BY <2>8, <2>9, <2>10, <2>11, <2>12
<1> QED
  BY <1>3, <1>4

\* A deletion takes a row with all it says; a restart ends handlers and pulls and adds rows
\* that say nothing.
LEMMA TableStep == ASSUME IInv, DeleteAppSource \/ Restart PROVE IInv'
<1> USE DEF IInv, TestInv
<1>1. /\ rows' \in [Ids -> Row \cup {NoRow}]
      /\ \A i \in Ids : rows'[i] = rows[i] \/ rows'[i] = NoRow \/ (~rows'[i].enabled /\ ~rows'[i].proven)
  <2>1. CASE DeleteAppSource
    BY <2>1 DEF DeleteAppSource, TypeOK
  <2>2. CASE Restart
    BY <2>2, SeededRows DEF Restart, TypeOK
  <2> QED
    BY <2>1, <2>2
<1>2. \A w \in Handlers : req'[w] = req[w] \/ req'[w] = Idle
  BY DEF DeleteAppSource, Restart
<1>3. req' \in [Handlers -> Requests]
  BY DEF DeleteAppSource, Restart, TypeOK, Requests
<1>4. UNCHANGED <<config, told, history>> /\ pull' \in {pull, Idle} /\ ops' \in 0..MaxOps
  BY SourcesAssumption DEF DeleteAppSource, Restart, agents, TypeOK
<1>5. TypeOK'
  BY <1>1, <1>3, <1>4 DEF TypeOK, history
<1>6. ASSUME NEW i \in Ids, Exists(i)', rows'[i].enabled \/ rows'[i].proven
      PROVE  Exists(i) /\ rows'[i] = rows[i]
  BY <1>1, <1>6 DEF Exists
<1>7. RowsWereTested'
  BY <1>4, <1>6 DEF RowsWereTested, Tested, history
<1>8. ProvenWasTested'
  BY <1>4, <1>6 DEF ProvenWasTested, history
<1>9. HandlersKnow'
  BY <1>2, <1>4 DEF HandlersKnow, Tested, Idle, history
<1>10. ToldWasTested'
  BY <1>4 DEF ToldWasTested, history
<1> QED
  BY <1>5, <1>7, <1>8, <1>9, <1>10

-----------------------------------------------------------------------------
(* Configuration and pulls. *)

\* The configuration is saved, whatever has become of the sources it selects.
LEMMA ConfigStep ==
  ASSUME IInv, NEW w \in Handlers, SetAutomationConfig(w)
  PROVE  IInv'
<1> USE DEF IInv, TestInv
<1>1. config' \in Config /\ req' = [req EXCEPT ![w] = Idle] /\ UNCHANGED <<rows, agents, history, ops>>
  BY RequestType DEF SetAutomationConfig
<1>2. TypeOK'
  BY <1>1 DEF TypeOK, agents, history, Requests, Idle
<1>3. HandlersKnow'
  BY <1>1 DEF HandlersKnow, Tested, TypeOK, Idle, history
<1> QED
  BY <1>1, <1>2, <1>3 DEF RowsWereTested, ProvenWasTested, ToldWasTested, Exists, Tested, agents, history

\* An answer carries the marked rows of its second read, with their hosts.
LEMMA PullStep == ASSUME IInv, Pull PROVE IInv'
<1> USE DEF IInv, TestInv
<1>1. UNCHANGED <<table, req, history>> /\ ops' \in 0..MaxOps
  BY SourcesAssumption DEF Pull, PullConfig, PullConfigFails, PullSources, PullSourcesFails, TypeOK
<1>2. pull' \in {Idle} \cup [at : {"sources"}, config : Config]
  <2>1. config \in Config /\ [enabled |-> FALSE, sources |-> {}] \in Config
    BY DEF TypeOK, Config
  <2>2. \A c \in Config : [at |-> "sources", config |-> c] \in [at : {"sources"}, config : Config]
    OBVIOUS
  <2> QED
    BY <2>1, <2>2 DEF Pull, PullConfig, PullConfigFails, PullSources, PullSourcesFails
<1>3. told' \in Told /\ ToldWasTested'
  <2>1. CASE PullConfig \/ PullConfigFails
    BY <1>1, <2>1 DEF PullConfig, PullConfigFails, ToldWasTested, TypeOK, history
  <2>2. CASE PullSources
    <3>1. pull.config \in Config /\ told' = Answer(pull.config)
      BY <2>2 DEF PullSources, TypeOK, Idle
    <3>2. \A s \in Answer(pull.config).sources : \E i \in Ids :
            /\ Exists(i) /\ rows[i].proven
            /\ s = [id |-> i, url |-> rows[i].url, hosts |-> rows[i].hosts]
      BY DEF Answer, Sendable
    <3>3. \A s \in told'.sources : s \in [id : Ids, url : Urls, hosts : HostLists]
      BY <3>1, <3>2, RowType DEF Row
    <3>4. told'.enabled \in BOOLEAN /\ told' = [enabled |-> told'.enabled, sources |-> told'.sources]
      BY <3>1 DEF Answer, Config
    <3>5. told' \in Told
      BY <3>3, <3>4 DEF Told
    <3>6. ASSUME NEW s \in told'.sources
          PROVE  <<s.url, s.hosts>> \in passed \/ <<s.id, s.url, s.hosts>> \in crossed
      <4>1. PICK i \in Ids : /\ Exists(i) /\ rows[i].proven
                             /\ s = [id |-> i, url |-> rows[i].url, hosts |-> rows[i].hosts]
        BY <3>1, <3>2
      <4>2. s.id = i /\ s.url = rows[i].url /\ s.hosts = rows[i].hosts
        BY <4>1
      <4> QED
        BY <4>1, <4>2 DEF ProvenWasTested
    <3>7. ToldWasTested'
      BY <1>1, <3>6 DEF ToldWasTested, history
    <3> QED
      BY <3>5, <3>7
  <2>3. CASE PullSourcesFails
    BY <2>3 DEF PullSourcesFails, TypeOK, Idle, Config, Told, ToldWasTested
  <2> QED
    BY <2>1, <2>2, <2>3 DEF Pull
<1>4. TypeOK'
  BY <1>1, <1>2, <1>3 DEF TypeOK, table, history
<1> QED
  BY <1>1, <1>3, <1>4 DEF RowsWereTested, ProvenWasTested, HandlersKnow, Exists, Tested, table, history

-----------------------------------------------------------------------------
\* Every step keeps the invariant.
LEMMA NextIInv == IInv /\ [Next]_vars => IInv'
<1> SUFFICES ASSUME IInv, [Next]_vars PROVE IInv'
  OBVIOUS
<1>1. CASE UNCHANGED vars
  BY <1>1 DEF vars, table, agents, history, IInv, TestInv, TypeOK, RowsWereTested, ProvenWasTested,
     HandlersKnow, ToldWasTested, Exists, Tested
<1>2. ASSUME NEW w \in Handlers, SaveAsked(w) \/ TestAsked(w) \/ ConfigAsked(w) PROVE IInv'
  BY <1>2, BeginStep
<1>3. ASSUME NEW w \in Handlers, Handle(w) PROVE IInv'
  BY <1>3, SaveStep, TestStep, MarkStep, ConfigStep DEF Handle
<1>4. CASE DeleteAppSource \/ Restart
  BY <1>4, TableStep
<1>5. CASE Pull
  BY <1>5, PullStep
<1> QED
  BY <1>1, <1>2, <1>3, <1>4, <1>5 DEF Next, Panel

\* Every reachable state satisfies the invariant.
THEOREM SourcesInvariant == Spec => []IInv
<1>1. Init => IInv
  BY InitIInv
<1>2. IInv /\ [Next]_vars => IInv'
  BY NextIInv
<1> QED
  BY <1>1, <1>2, PTL DEF Spec

\* Every reachable state of the sources is type correct (app_sources, automation_config).
THEOREM SourcesTypes == Spec => []TypeOK
<1>1. IInv => TypeOK
  BY DEF IInv
<1> QED
  BY <1>1, SourcesInvariant, PTL

\* A source is enabled only if a test has found an APK behind its URL
\* (handleAutomationSources).
THEOREM SourcesEnabledWasTested == Spec => []EnabledWasTested
<1>1. IInv => EnabledWasTested
  BY DEF IInv, TestInv, RowsWereTested, Tested, EnabledWasTested
<1> QED
  BY <1>1, SourcesInvariant, PTL

\* Agents are given what was tested as it is, or what was rewritten between a test's look and
\* its mark (agentAutomationPolicy).
THEOREM SourcesToldWasTested == Spec => []ToldWasTested
<1>1. IInv => ToldWasTested
  BY DEF IInv, TestInv
<1> QED
  BY <1>1, SourcesInvariant, PTL
=============================================================================
