----------------------- MODULE AgentSupervisorProofs -----------------------
(***************************************************************************)
(* Proofs about AgentSupervisor for any servers, commands and bounds.      *)
(* LoopsFollowFile speaks of a moment when nothing is under way; to get    *)
(* there step by step the invariant says, for every stage of the daemon,   *)
(* who will still bring the loops in line with a file that has changed.    *)
(***************************************************************************)
EXTENDS AgentSupervisor, SequenceTheorems, WellFoundedInduction, TLAPS

(* The lists of masters: none has a server twice. *)
EachOnce(ms) == \A i, j \in 1..Len(ms) : ms[i].server = ms[j].server => i = j
Lists == {ms \in Seq(Entry) : EachOnce(ms)}

Saving == [at: {"save"}, kind: Kinds, server: Servers, new: Lists]

Types ==
  /\ disk \in Lists /\ file \in Lists /\ hupRead \in Lists /\ bootRead \in Lists
  /\ cmds \in [Commands -> {Idle, Reloading} \cup Saving]
  /\ issued \in Nat /\ starts \in Nat
  /\ phase \in Phases
  /\ conns \in [Servers -> Conn]
  /\ running \in SUBSET Servers
  /\ owner \in Servers \cup {NoServer}
  /\ hup \in BOOLEAN /\ overtaken \in BOOLEAN /\ hupAt \in {"wait", "read", "apply"}
  /\ asked \in [Servers -> Status]
  /\ written \in BOOLEAN /\ unread \in {"no", "told", "untold"}

(* The list a command is about to save says of its server what was asked. *)
SavesWhatIsAsked ==
  \A c \in Commands : cmds[c] \in Saving =>
    StatusIn(cmds[c].new, cmds[c].server) = Outcome(cmds[c].kind)

(* A signal is on its way to a reconcile that has yet to read the file. *)
Told == hup \/ hupAt = "read" \/ \E c \in Commands : cmds[c] = Reloading

(* Before the first reconcile has read the file it makes up for a signal that was lost. *)
ToldArrives ==
  unread = "told" => Told \/ (phase \in {"down", "loaded", "starting", "notified"} /\ hupAt = "wait")

(* The reconcile of a signal holds the file, unless that has changed since. *)
HupIsFresh == hupAt = "apply" /\ unread = "no" => hupRead = disk

(* So does the first one, unless a reload comes, or has come, in between. *)
BootIsFresh ==
  phase = "booting" /\ unread = "no" => bootRead = disk \/ hupAt = "apply" \/ overtaken

LoopsAreFresh ==
  phase = "running" /\ unread = "no" => Follows(disk) \/ hupAt = "apply" \/ overtaken

(* Before signal.Notify nobody listens for the signal. *)
Deaf == ~Listening => hupAt = "wait" /\ ~hup

Fresh == ToldArrives /\ HupIsFresh /\ BootIsFresh /\ LoopsAreFresh /\ Deaf

IInv == Types /\ SavesWhatIsAsked /\ Fresh

-----------------------------------------------------------------------------
(* What an edit does to a list *)

(* The place of a server that is in a list, and its entry. *)
LEMMA PlaceOf ==
  ASSUME NEW ms \in Seq(Entry), NEW s, Has(ms, s)
  PROVE  /\ Place(ms, s) \in 1..Len(ms) /\ ms[Place(ms, s)].server = s
         /\ At(ms, s) \in Entry /\ At(ms, s).server = s
<1>1. \E i \in 1..Len(ms) : ms[i].server = s
  BY DEF Has
<1>2. Place(ms, s) \in 1..Len(ms) /\ ms[Place(ms, s)].server = s
  BY <1>1 DEF Place
<1> QED
  BY <1>2 DEF At

(* In a list without repetitions the place of an entry is its own. *)
LEMMA EntryAt ==
  ASSUME NEW ms \in Lists, NEW i \in 1..Len(ms)
  PROVE  Has(ms, ms[i].server) /\ Place(ms, ms[i].server) = i /\ At(ms, ms[i].server) = ms[i]
<1>1. ms \in Seq(Entry) /\ EachOnce(ms)
  BY DEF Lists
<1>2. Has(ms, ms[i].server)
  BY DEF Has
<1>3. Place(ms, ms[i].server) = i
  BY <1>1, <1>2, PlaceOf DEF EachOnce
<1> QED
  BY <1>2, <1>3 DEF At

(* The status of the servers of a list, by its entries. *)
LEMMA StatusOfEntry ==
  ASSUME NEW ms \in Lists, NEW i \in 1..Len(ms)
  PROVE  StatusIn(ms, ms[i].server) = IF ms[i].stopped THEN "stopped" ELSE "active"
BY EntryAt DEF StatusIn

(* Update keeps every place; the entry of the server is the new one. *)
LEMMA UpdateIsList ==
  ASSUME NEW ms \in Lists, NEW e \in Entry, Has(ms, e.server)
  PROVE  /\ Update(ms, e) \in Lists
         /\ StatusIn(Update(ms, e), e.server) = IF e.stopped THEN "stopped" ELSE "active"
         /\ \A t : t # e.server => StatusIn(Update(ms, e), t) = StatusIn(ms, t)
<1> DEFINE new == Update(ms, e)
<1>1. ms \in Seq(Entry) /\ EachOnce(ms)
  BY DEF Lists
<1>2. /\ Len(ms) \in Nat
      /\ new = [i \in 1..Len(ms) |-> IF ms[i].server = e.server THEN e ELSE ms[i]]
  BY <1>1 DEF Update
<1>3. \A i \in 1..Len(ms) : new[i] \in Entry /\ new[i].server = ms[i].server
  BY <1>1, <1>2
<1>4. new \in [1..Len(ms) -> Entry]
  BY <1>2, <1>3
<1>5. new \in Seq(Entry) /\ Len(new) = Len(ms)
  BY <1>2, <1>4, SeqDef
<1> HIDE DEF new
<1>6. EachOnce(new)
  BY <1>1, <1>3, <1>5 DEF EachOnce
<1>7. new \in Lists
  BY <1>5, <1>6 DEF Lists
<1>8. PICK p \in 1..Len(ms) : ms[p].server = e.server
  BY DEF Has
<1>9. new[p] = e
  BY <1>2, <1>8
<1>10. StatusIn(new, e.server) = IF e.stopped THEN "stopped" ELSE "active"
  BY <1>5, <1>7, <1>9, StatusOfEntry
<1>11. ASSUME NEW t, t # e.server PROVE StatusIn(new, t) = StatusIn(ms, t)
  <2>1. Has(new, t) <=> Has(ms, t)
    BY <1>3, <1>5 DEF Has
  <2>2. CASE ~Has(ms, t)
    BY <2>1, <2>2 DEF StatusIn
  <2>3. CASE Has(ms, t)
    <3>1. PICK i \in 1..Len(ms) : ms[i].server = t
      BY <2>3 DEF Has
    <3>2. new[i] = ms[i]
      BY <1>2, <1>11, <3>1
    <3> QED
      BY <1>5, <1>7, <3>1, <3>2, StatusOfEntry
  <2> QED
    BY <2>2, <2>3
<1> QED
  BY <1>7, <1>10, <1>11 DEF new

(* Append adds a server that is not there. *)
LEMMA AppendIsList ==
  ASSUME NEW ms \in Lists, NEW e \in Entry, ~Has(ms, e.server)
  PROVE  /\ Append(ms, e) \in Lists
         /\ StatusIn(Append(ms, e), e.server) = IF e.stopped THEN "stopped" ELSE "active"
         /\ \A t : t # e.server => StatusIn(Append(ms, e), t) = StatusIn(ms, t)
<1> DEFINE new == Append(ms, e)
<1>1. ms \in Seq(Entry) /\ EachOnce(ms) /\ Len(ms) \in Nat
  BY DEF Lists
<1>2. /\ new \in Seq(Entry) /\ Len(new) = Len(ms) + 1 /\ new[Len(ms) + 1] = e
      /\ \A i \in 1..Len(ms) : new[i] = ms[i]
  BY <1>1
<1> HIDE DEF new
<1>3. \A i \in 1..Len(new) : i \in 1..Len(ms) \/ i = Len(ms) + 1
  BY <1>1, <1>2
<1>4. \A i \in 1..Len(ms) : ms[i].server # e.server
  BY DEF Has
<1>5. EachOnce(new)
  BY <1>1, <1>2, <1>3, <1>4 DEF EachOnce
<1>6. new \in Lists
  BY <1>2, <1>5 DEF Lists
<1>7. Len(ms) + 1 \in 1..Len(new)
  BY <1>1, <1>2
<1>8. StatusIn(new, e.server) = IF e.stopped THEN "stopped" ELSE "active"
  BY <1>2, <1>6, <1>7, StatusOfEntry
<1>9. ASSUME NEW t, t # e.server PROVE StatusIn(new, t) = StatusIn(ms, t)
  <2>1. \A i \in 1..Len(ms) : i \in 1..Len(new)
    BY <1>1, <1>2
  <2>2. Has(new, t) <=> Has(ms, t)
    BY <1>2, <1>3, <1>9, <2>1 DEF Has
  <2>3. CASE ~Has(ms, t)
    BY <2>2, <2>3 DEF StatusIn
  <2>4. CASE Has(ms, t)
    <3>1. PICK i \in 1..Len(ms) : ms[i].server = t
      BY <2>4 DEF Has
    <3> QED
      BY <1>2, <1>6, <2>1, <3>1, StatusOfEntry
  <2> QED
    BY <2>3, <2>4
<1> QED
  BY <1>6, <1>8, <1>9 DEF new

(* Without takes the server out and keeps the order of the others. *)
LEMMA WithoutIsList ==
  ASSUME NEW ms \in Lists, NEW s, Has(ms, s)
  PROVE  /\ Without(ms, s) \in Lists
         /\ StatusIn(Without(ms, s), s) = "absent"
         /\ \A t : t # s => StatusIn(Without(ms, s), t) = StatusIn(ms, t)
<1> DEFINE new == Without(ms, s)
           p == Place(ms, s)
           n == Len(ms)
<1>1. ms \in Seq(Entry) /\ EachOnce(ms) /\ n \in Nat
  BY DEF Lists
<1>2. p \in 1..n /\ ms[p].server = s
  BY <1>1, PlaceOf
<1>3. new = SubSeq(ms, 1, p - 1) \o SubSeq(ms, p + 1, n)
  BY DEF Without
<1> HIDE DEF new, p, n
<1>4. /\ SubSeq(ms, 1, p - 1) \in Seq(Entry) /\ Len(SubSeq(ms, 1, p - 1)) = p - 1
      /\ \A i \in 1..(p - 1) : SubSeq(ms, 1, p - 1)[i] = ms[i]
  BY <1>1, <1>2, SubSeqProperties DEF n
<1>5. /\ SubSeq(ms, p + 1, n) \in Seq(Entry) /\ Len(SubSeq(ms, p + 1, n)) = n - p
      /\ \A i \in 1..(n - p) : SubSeq(ms, p + 1, n)[i] = ms[p + i]
  BY <1>1, <1>2, SubSeqProperties DEF n
<1>6. /\ new \in Seq(Entry) /\ Len(new) = n - 1
      /\ \A i \in 1..(n - 1) : new[i] = IF i < p THEN ms[i] ELSE ms[i + 1]
  <2> DEFINE front == SubSeq(ms, 1, p - 1)
             back  == SubSeq(ms, p + 1, n)
  <2>1. /\ front \in Seq(Entry) /\ Len(front) = p - 1
        /\ \A i \in 1..(p - 1) : front[i] = ms[i]
    BY <1>4
  <2>2. /\ back \in Seq(Entry) /\ Len(back) = n - p
        /\ \A i \in 1..(n - p) : back[i] = ms[p + i]
    BY <1>5
  <2>3. new = front \o back
    BY <1>3
  <2> HIDE DEF front, back
  <2>4. /\ new \in Seq(Entry) /\ Len(new) = Len(front) + Len(back)
        /\ \A i \in 1..(Len(front) + Len(back)) :
             new[i] = IF i <= Len(front) THEN front[i] ELSE back[i - Len(front)]
    BY <2>1, <2>2, <2>3, ConcatProperties
  <2>5. Len(front) + Len(back) = n - 1
    BY <1>1, <1>2, <2>1, <2>2
  <2>6. ASSUME NEW i \in 1..(n - 1) PROVE new[i] = IF i < p THEN ms[i] ELSE ms[i + 1]
    <3>1. new[i] = IF i <= p - 1 THEN front[i] ELSE back[i - (p - 1)]
      BY <2>1, <2>4, <2>5
    <3>2. CASE i < p
      BY <1>1, <1>2, <2>1, <3>1, <3>2
    <3>3. CASE ~(i < p)
      <4>1. i - (p - 1) \in 1..(n - p) /\ p + (i - (p - 1)) = i + 1
        BY <1>1, <1>2, <3>3
      <4> QED
        BY <1>1, <1>2, <2>2, <3>1, <3>3, <4>1
    <3> QED
      BY <3>2, <3>3
  <2> QED
    BY <2>4, <2>5, <2>6
<1>7. \A i \in 1..n : ms[i].server = s => i = p
  BY <1>1, <1>2 DEF EachOnce, n
<1>8. EachOnce(new)
  <2> SUFFICES ASSUME NEW i \in 1..(n - 1), NEW j \in 1..(n - 1), new[i].server = new[j].server
               PROVE  i = j
    BY <1>6 DEF EachOnce
  <2> DEFINE a == IF i < p THEN i ELSE i + 1
             b == IF j < p THEN j ELSE j + 1
  <2>1. a \in 1..n /\ b \in 1..n
    BY <1>1, <1>2
  <2>2. new[i] = ms[a] /\ new[j] = ms[b]
    BY <1>6
  <2>3. a = b
    BY <1>1, <2>1, <2>2 DEF EachOnce, n
  <2> QED
    BY <1>2, <1>1, <2>3
<1>9. new \in Lists
  BY <1>6, <1>8 DEF Lists
<1>10. \A i \in 1..(n - 1) : new[i].server # s
  BY <1>1, <1>2, <1>6, <1>7
<1>11. StatusIn(new, s) = "absent"
  BY <1>6, <1>10 DEF StatusIn, Has
<1>12. ASSUME NEW t, t # s PROVE StatusIn(new, t) = StatusIn(ms, t)
  <2>1. ASSUME Has(ms, t) PROVE StatusIn(new, t) = StatusIn(ms, t)
    <3>1. PICK i \in 1..n : ms[i].server = t
      BY <2>1 DEF Has, n
    <3> DEFINE k == IF i < p THEN i ELSE i - 1
    <3>2. k \in 1..(n - 1) /\ new[k] = ms[i]
      BY <1>1, <1>2, <1>6, <1>12, <3>1
    <3> QED
      BY <1>6, <1>9, <3>1, <3>2, StatusOfEntry DEF n
  <2>2. ASSUME Has(new, t) PROVE Has(ms, t)
    <3>1. PICK i \in 1..(n - 1) : new[i].server = t
      BY <1>6, <2>2 DEF Has
    <3>2. i \in 1..n /\ i + 1 \in 1..n
      BY <1>1
    <3> QED
      BY <1>6, <3>1, <3>2 DEF Has, n
  <2> QED
    BY <2>1, <2>2 DEF StatusIn
<1> QED
  BY <1>9, <1>11, <1>12 DEF new

(* An edit does what it asks for its server and touches no other. *)
LEMMA EditedDoesWhatIsAsked ==
  ASSUME NEW ms \in Lists, NEW kind \in Kinds, NEW s \in Servers, NEW cred \in Nat,
         kind = "add" \/ Has(ms, s)
  PROVE  /\ Edited(ms, kind, s, cred) \in Lists
         /\ StatusIn(Edited(ms, kind, s, cred), s) = Outcome(kind)
         /\ \A t : t # s => StatusIn(Edited(ms, kind, s, cred), t) = StatusIn(ms, t)
<1>1. CASE kind = "add"
  <2> DEFINE e == [server |-> s, cred |-> cred, stopped |-> FALSE]
  <2>1. e \in Entry /\ e.server = s /\ ~e.stopped
    BY DEF Entry
  <2>2. Edited(ms, kind, s, cred) = IF Has(ms, s) THEN Update(ms, e) ELSE Append(ms, e)
    BY <1>1 DEF Edited, Added
  <2>3. Outcome(kind) = "active"
    BY <1>1 DEF Outcome
  <2> HIDE DEF e
  <2>4. CASE Has(ms, s)
    BY <2>1, <2>2, <2>3, <2>4, UpdateIsList
  <2>5. CASE ~Has(ms, s)
    BY <2>1, <2>2, <2>3, <2>5, AppendIsList
  <2> QED
    BY <2>4, <2>5
<1>2. CASE kind = "remove"
  BY <1>2, WithoutIsList DEF Edited, Outcome
<1>3. ASSUME NEW b \in BOOLEAN, Has(ms, s)
      PROVE  LET e == [At(ms, s) EXCEPT !.stopped = b]
             IN  e \in Entry /\ e.server = s /\ e.stopped = b
  <2>1. At(ms, s) \in Entry /\ At(ms, s).server = s
    BY <1>3, PlaceOf DEF Lists
  <2> QED
    BY <2>1 DEF Entry
<1>4. CASE kind = "stop"
  <2> DEFINE e == [At(ms, s) EXCEPT !.stopped = TRUE]
  <2>1. e \in Entry /\ e.server = s /\ e.stopped = TRUE
    BY <1>3, <1>4
  <2>2. Edited(ms, kind, s, cred) = Update(ms, e) /\ Outcome(kind) = "stopped"
    BY <1>4 DEF Edited, Outcome
  <2> HIDE DEF e
  <2> QED
    BY <1>4, <2>1, <2>2, UpdateIsList
<1>5. CASE kind = "start"
  <2> DEFINE e == [At(ms, s) EXCEPT !.stopped = FALSE]
  <2>1. e \in Entry /\ e.server = s /\ e.stopped = FALSE
    BY <1>3, <1>5
  <2>2. Edited(ms, kind, s, cred) = Update(ms, e) /\ Outcome(kind) = "active"
    BY <1>5 DEF Edited, Outcome
  <2> HIDE DEF e
  <2> QED
    BY <1>5, <2>1, <2>2, UpdateIsList
<1> QED
  BY <1>1, <1>2, <1>4, <1>5 DEF Kinds

-----------------------------------------------------------------------------
(* The lists of the program *)

LEMMA EmptyIsList == <<>> \in Lists
BY DEF Lists, EachOnce

LEMMA StatusType == \A ms, s : StatusIn(ms, s) \in Status
BY DEF StatusIn, Status

LEMMA OutcomeType == \A kind : Outcome(kind) \in Status
BY DEF Outcome, Status

(* The file as earlier commands left it. *)
LEMMA EarlierFileIsList == EarlierFile \subseteq Lists
<1> SUFFICES ASSUME NEW ms \in EarlierFile PROVE ms \in Lists
  OBVIOUS
<1>1. PICK n \in 0..Preset : ms \in [1..n -> [server: Servers, cred: {1}, stopped: BOOLEAN]]
  BY DEF EarlierFile
<1>2. n \in Nat /\ ms \in [1..n -> Entry]
  <2>1. [server: Servers, cred: {1}, stopped: BOOLEAN] \subseteq Entry
    BY DEF Entry
  <2> QED
    BY <1>1, <2>1, SupervisorAssumption
<1>3. ms \in Seq(Entry)
  BY <1>2, SeqDef
<1>4. DOMAIN ms = 1..Len(ms)
  BY <1>3
<1>5. \A i, j \in DOMAIN ms : i # j => ms[i].server # ms[j].server
  BY DEF EarlierFile
<1>6. EachOnce(ms)
  BY <1>4, <1>5 DEF EachOnce
<1> QED
  BY <1>3, <1>6 DEF Lists

(* A set of places has a first one. *)
LEMMA FirstPlace ==
  ASSUME NEW T \in SUBSET Nat, T # {}
  PROVE  \E i \in T : \A j \in T : ~(j < i)
<1>1. PICK i \in T : \A j \in T : <<j, i>> \notin OpToRel(<, Nat)
  BY WFMin, NatLessThanWellFounded
<1>2. \A j \in T : <<j, i>> \in Nat \X Nat
  OBVIOUS
<1> QED
  BY <1>1, <1>2 DEF OpToRel

(* The owner of the automation is an active server of the list, if there is one. *)
LEMMA FirstActiveIsActive ==
  ASSUME NEW ms \in Lists
  PROVE  FirstActive(ms) \in IF Wanted(ms) = {} THEN {NoServer} ELSE Wanted(ms)
<1>1. CASE Wanted(ms) = {}
  BY <1>1 DEF FirstActive
<1>2. CASE Wanted(ms) # {}
  <2> DEFINE T == {i \in 1..Len(ms) : ~ms[i].stopped}
             first(i) == ~ms[i].stopped /\ \A j \in 1..(i - 1) : ms[j].stopped
  <2>1. ms \in Seq(Entry) /\ Len(ms) \in Nat
    BY DEF Lists
  <2>2. PICK s \in Servers : StatusIn(ms, s) = "active"
    BY <1>2 DEF Wanted
  <2>3. Has(ms, s) /\ ~At(ms, s).stopped
    BY <2>2 DEF StatusIn
  <2>4. Place(ms, s) \in T
    BY <2>1, <2>3, PlaceOf DEF At
  <2>5. T \in SUBSET Nat
    BY <2>1
  <2>6. PICK i \in T : \A j \in T : ~(j < i)
    BY <2>4, <2>5, FirstPlace
  <2>7. i \in 1..Len(ms) /\ first(i)
    <3>1. i \in 1..Len(ms) /\ ~ms[i].stopped
      OBVIOUS
    <3>2. ASSUME NEW j \in 1..(i - 1) PROVE ms[j].stopped
      <4>1. j \in 1..Len(ms) /\ j < i
        BY <2>1, <3>1
      <4> QED
        BY <2>6, <4>1
    <3> QED
      BY <3>1, <3>2
  <2> HIDE DEF first, T
  <2>8. PICK k : k = (CHOOSE i0 \in 1..Len(ms) : first(i0))
    OBVIOUS
  <2>9. k \in 1..Len(ms) /\ first(k)
    BY <2>7, <2>8
  <2>10. FirstActive(ms) = ms[k].server
    <3>1. FirstActive(ms) = ms[CHOOSE i0 \in 1..Len(ms) : first(i0)].server
      BY <1>2 DEF FirstActive, first
    <3> QED
      BY <2>8, <3>1
  <2>11. ~ms[k].stopped
    BY <2>9 DEF first
  <2>12. StatusIn(ms, ms[k].server) = "active"
    BY <2>9, <2>11, StatusOfEntry
  <2>13. ms[k].server \in Servers
    <3>1. ms[k] \in Entry
      BY <2>1, <2>9
    <3> QED
      BY <3>1 DEF Entry
  <2>14. ms[k].server \in Wanted(ms)
    BY <2>12, <2>13 DEF Wanted
  <2> QED
    BY <1>2, <2>10, <2>14
<1> QED
  BY <1>1, <1>2

LEMMA FirstActiveType == \A ms \in Lists : FirstActive(ms) \in Servers \cup {NoServer}
BY FirstActiveIsActive DEF Wanted

(* The entry of a server in a list, as a connection. *)
LEMMA ConnType ==
  ASSUME NEW ms \in Lists, NEW s, Has(ms, s), NEW b \in BOOLEAN
  PROVE  [cred |-> At(ms, s).cred, stopped |-> At(ms, s).stopped, pulled |-> b] \in Conn
<1>1. At(ms, s) \in Entry
  BY PlaceOf DEF Lists
<1> QED
  BY <1>1 DEF Entry, Conn

LEMMA NoConnType == NoConn \in Conn
BY DEF NoConn, Conn

(* A reconcile leaves the loops as the list it applies says, *)
LEMMA ApplyFollows ==
  ASSUME NEW ms \in Lists, Apply(ms)
  PROVE  running' = Wanted(ms) /\ \A s \in Wanted(ms) : conns'[s].cred = At(ms, s).cred
<1> SUFFICES ASSUME NEW s \in Wanted(ms) PROVE conns'[s].cred = At(ms, s).cred
  BY DEF Apply
<1>1. s \in Servers /\ Has(ms, s)
  BY DEF Wanted, StatusIn
<1> QED
  BY <1>1 DEF Apply

(* and everything it writes has its type. *)
LEMMA ApplyTypes ==
  ASSUME NEW ms \in Lists, file \in Lists, conns \in [Servers -> Conn], Apply(ms)
  PROVE  /\ conns' \in [Servers -> Conn]
         /\ running' \in SUBSET Servers
         /\ owner' \in Servers \cup {NoServer}
<1>1. conns' \in [Servers -> Conn]
  <2>1. ASSUME NEW s \in Servers
        PROVE  (IF Has(ms, s)
                 THEN [cred |-> At(ms, s).cred, stopped |-> At(ms, s).stopped,
                       pulled |-> conns[s].pulled \/ ~At(ms, s).stopped]
                 ELSE NoConn) \in Conn
    <3>1. CASE Has(ms, s)
      BY <3>1, ConnType
    <3>2. CASE ~Has(ms, s)
      BY <3>2, NoConnType
    <3> QED
      BY <3>1, <3>2
  <2> QED
    BY <2>1 DEF Apply
<1>2. running' \in SUBSET Servers
  BY DEF Apply, Wanted
<1>3. owner' \in Servers \cup {NoServer}
  BY FirstActiveType DEF Apply
<1> QED
  BY <1>1, <1>2, <1>3

-----------------------------------------------------------------------------
(* The invariant *)

LEMMA InitIInv == Init => IInv
<1> SUFFICES ASSUME Init PROVE IInv
  OBVIOUS
<1>1. Types
  <2>1. disk \in Lists /\ file \in Lists /\ hupRead \in Lists /\ bootRead \in Lists
    BY EarlierFileIsList, EmptyIsList DEF Init
  <2>2. conns \in [Servers -> Conn]
    BY NoConnType DEF Init
  <2>3. asked \in [Servers -> Status]
    BY StatusType DEF Init
  <2> QED
    BY <2>1, <2>2, <2>3 DEF Init, Types, Phases
<1>2. \A c \in Commands : cmds[c] = Idle
  BY DEF Init
<1>3. SavesWhatIsAsked
  BY <1>2 DEF SavesWhatIsAsked, Saving, Idle
<1>4. Fresh
  BY DEF Init, Fresh, ToldArrives, HupIsFresh, BootIsFresh, LoopsAreFresh, Deaf
<1> QED
  BY <1>1, <1>3, <1>4 DEF IInv

(* A command that has read the file holds its edit of a list of masters. *)
LEMMA CmdReadIInv ==
  ASSUME IInv, NEW c \in Commands, NEW kind \in Kinds, NEW s \in Servers, CmdRead(c, kind, s)
  PROVE  IInv'
<1> DEFINE new == Edited(disk, kind, s, issued + 1)
           r == [at |-> "save", kind |-> kind, server |-> s, new |-> new]
<1>1. /\ cmds[c] = Idle /\ issued' = issued + 1
      /\ cmds' = [cmds EXCEPT ![c] = r]
      /\ UNCHANGED <<stored, daemon, starts, asked>>
  BY DEF CmdRead
<1>2. disk \in Lists /\ issued + 1 \in Nat /\ (kind = "add" \/ Has(disk, s))
  BY DEF IInv, Types, CmdRead
<1>3. new \in Lists /\ StatusIn(new, s) = Outcome(kind)
  BY <1>2, EditedDoesWhatIsAsked
<1> HIDE DEF new
<1>4. r \in Saving /\ r.new = new /\ r.server = s /\ r.kind = kind
  BY <1>3 DEF Saving
<1>5. r # Reloading
  BY DEF Reloading
<1> HIDE DEF r
<1>6. Types'
  BY <1>1, <1>2, <1>4 DEF IInv, Types, daemon, stored
<1>7. cmds' = [x \in Commands |-> IF x = c THEN r ELSE cmds[x]]
  BY <1>1 DEF IInv, Types
<1>8. SavesWhatIsAsked'
  <2> SUFFICES ASSUME NEW x \in Commands, cmds'[x] \in Saving
               PROVE  StatusIn(cmds'[x].new, cmds'[x].server) = Outcome(cmds'[x].kind)
    BY DEF SavesWhatIsAsked, StatusIn, Has, At, Place, Outcome, Saving, Entry
  <2>1. CASE x = c
    BY <1>3, <1>4, <1>7, <2>1
  <2>2. CASE x # c
    <3>1. cmds'[x] = cmds[x]
      BY <1>7, <2>2
    <3> QED
      BY <3>1 DEF IInv, SavesWhatIsAsked
  <2> QED
    BY <2>1, <2>2
<1>9. Told => Told'
  <2>1. \A x \in Commands : cmds[x] = Reloading => cmds'[x] = Reloading
    BY <1>1, <1>7 DEF Idle, Reloading
  <2> QED
    BY <1>1, <2>1 DEF Told, daemon
<1>10. Fresh'
  BY <1>1, <1>9 DEF IInv, Fresh, ToldArrives, HupIsFresh, BootIsFresh, LoopsAreFresh, Deaf, Follows, Listening, daemon, stored
<1> QED
  BY <1>6, <1>8, <1>10 DEF IInv

(* What a write leaves: if the file has changed that is unread, as the writer says. *)
LEMMA WriteFacts ==
  ASSUME Types, NEW ms \in Lists, NEW how \in {"told", "untold"}, Write(ms, how)
  PROVE  /\ disk' \in Lists /\ written' \in BOOLEAN /\ unread' \in {"no", "told", "untold"}
         /\ unread' = "no" => disk' = disk /\ unread = "no"
         /\ unread' = "told" => how = "told" \/ unread = "told"
BY DEF Write, Types

(* The file changes: every command that saves has still to signal the daemon. *)
LEMMA CmdSaveIInv == ASSUME IInv, NEW c \in Commands, CmdSave(c) PROVE IInv'
<1>1. /\ Write(cmds[c].new, "told")
      /\ asked' = [asked EXCEPT ![cmds[c].server] = Outcome(cmds[c].kind)]
      /\ cmds' = [cmds EXCEPT ![c] = Reloading]
      /\ UNCHANGED <<issued, daemon, starts>>
  BY DEF CmdSave
<1>2. cmds[c] \in Saving
  BY DEF CmdSave, IInv, Types, Idle, Reloading
<1>3. cmds[c].new \in Lists
  BY <1>2 DEF Saving
<1>4. /\ disk' \in Lists /\ written' \in BOOLEAN /\ unread' \in {"no", "told", "untold"}
      /\ unread' = "no" => disk' = disk /\ unread = "no"
  BY <1>1, <1>3, WriteFacts DEF IInv
<1>5. asked' \in [Servers -> Status]
  BY <1>1, <1>2, OutcomeType DEF IInv, Types, Saving
<1>6. Types'
  BY <1>1, <1>4, <1>5 DEF IInv, Types, daemon
<1>7. cmds' = [x \in Commands |-> IF x = c THEN Reloading ELSE cmds[x]]
  BY <1>1 DEF IInv, Types
<1>8. SavesWhatIsAsked'
  BY <1>7 DEF IInv, SavesWhatIsAsked, Saving, Reloading, StatusIn, Has, At, Place, Outcome
<1>9. Told'
  BY <1>7 DEF Told
<1>10. Fresh'
  BY <1>1, <1>4, <1>9 DEF IInv, Fresh, ToldArrives, HupIsFresh, BootIsFresh, LoopsAreFresh, Deaf, Follows, Listening, daemon
<1> QED
  BY <1>6, <1>8, <1>10 DEF IInv

(* What a command asks and holds stays as it is when no command moves. *)
LEMMA CommandsStay == SavesWhatIsAsked /\ UNCHANGED cmds => SavesWhatIsAsked'
BY DEF SavesWhatIsAsked

(* Without a daemon nothing is left to be brought in line. *)
LEMMA GoneIInv ==
  ASSUME Types, Gone, SavesWhatIsAsked',
         cmds' \in [Commands -> {Idle, Reloading} \cup Saving],
         UNCHANGED <<stored, issued, starts, asked>>
  PROVE  IInv'
<1>1. conns' \in [Servers -> Conn]
  BY NoConnType DEF Gone
<1>2. Types'
  BY <1>1, EmptyIsList DEF Types, Gone, Phases, stored
<1>3. Fresh'
  BY DEF Gone, Fresh, ToldArrives, HupIsFresh, BootIsFresh, LoopsAreFresh, Deaf
<1> QED
  BY <1>2, <1>3 DEF IInv

(* A command that is over holds nothing any more. *)
LEMMA IdleFacts ==
  ASSUME Types, SavesWhatIsAsked, NEW c \in Commands, cmds' = [cmds EXCEPT ![c] = Idle]
  PROVE  /\ cmds' \in [Commands -> {Idle, Reloading} \cup Saving]
         /\ SavesWhatIsAsked'
         /\ \A x \in Commands \ {c} : cmds'[x] = cmds[x]
<1>1. cmds' = [x \in Commands |-> IF x = c THEN Idle ELSE cmds[x]]
  BY DEF Types
<1>2. cmds' \in [Commands -> {Idle, Reloading} \cup Saving]
  BY DEF Types
<1>3. SavesWhatIsAsked'
  <2> SUFFICES ASSUME NEW x \in Commands, cmds'[x] \in Saving
               PROVE  StatusIn(cmds'[x].new, cmds'[x].server) = Outcome(cmds'[x].kind)
    BY DEF SavesWhatIsAsked, StatusIn, Has, At, Place, Outcome, Saving, Entry
  <2>1. Idle \notin Saving
    BY DEF Idle, Saving
  <2>2. x # c /\ cmds'[x] = cmds[x]
    BY <1>1, <2>1
  <2> QED
    BY <2>2 DEF SavesWhatIsAsked
<1> QED
  BY <1>1, <1>2, <1>3

(* A save that fails has changed nothing, and no signal was on its way. *)
LEMMA CmdSaveFailsIInv == ASSUME IInv, NEW c \in Commands, CmdSaveFails(c) PROVE IInv'
<1>1. /\ cmds[c].at = "save" /\ cmds' = [cmds EXCEPT ![c] = Idle]
      /\ UNCHANGED <<stored, issued, daemon, starts, asked>>
  BY DEF CmdSaveFails
<1>2. /\ cmds' \in [Commands -> {Idle, Reloading} \cup Saving]
      /\ SavesWhatIsAsked' /\ \A x \in Commands \ {c} : cmds'[x] = cmds[x]
  BY <1>1, IdleFacts DEF IInv
<1>3. Types'
  BY <1>1, <1>2 DEF IInv, Types, daemon, stored
<1>4. cmds[c] # Reloading
  BY <1>1 DEF Reloading
<1>5. Told => Told'
  BY <1>1, <1>2, <1>4 DEF Told, daemon
<1>6. Fresh'
  BY <1>1, <1>5 DEF IInv, Fresh, ToldArrives, HupIsFresh, BootIsFresh, LoopsAreFresh, Deaf, Follows, Listening, daemon, stored
<1> QED
  BY <1>2, <1>3, <1>6 DEF IInv

(* Without its signal, what the command has changed is untold until a reconcile reads it. *)
LEMMA CmdUntoldIInv == ASSUME IInv, NEW c \in Commands, CmdUntold(c) PROVE IInv'
<1>1. /\ cmds' = [cmds EXCEPT ![c] = Idle]
      /\ unread' = IF unread = "no" THEN "no" ELSE "untold"
      /\ UNCHANGED <<disk, written, issued, daemon, starts, asked>>
  BY DEF CmdUntold
<1>2. /\ cmds' \in [Commands -> {Idle, Reloading} \cup Saving]
      /\ SavesWhatIsAsked'
  BY <1>1, IdleFacts DEF IInv
<1>3. Types'
  BY <1>1, <1>2 DEF IInv, Types, daemon
<1>4. Fresh'
  BY <1>1 DEF IInv, Fresh, ToldArrives, HupIsFresh, BootIsFresh, LoopsAreFresh, Deaf, Follows, Listening, daemon
<1> QED
  BY <1>2, <1>3, <1>4 DEF IInv

(* The signal of a command waits in hupCh, kills a daemon that starts or has nobody to reach. *)
LEMMA CmdReloadIInv == ASSUME IInv, NEW c \in Commands, CmdReload(c) PROVE IInv'
<1>1. cmds' = [cmds EXCEPT ![c] = Idle] /\ UNCHANGED <<stored, issued, starts, asked>>
  BY DEF CmdReload
<1>2. /\ cmds' \in [Commands -> {Idle, Reloading} \cup Saving]
      /\ SavesWhatIsAsked'
  BY <1>1, IdleFacts DEF IInv
<1>3. CASE phase = "down"
  <2>1. UNCHANGED daemon
    BY <1>3 DEF CmdReload
  <2>2. Types'
    BY <1>1, <1>2, <2>1 DEF IInv, Types, daemon, stored
  <2>3. Fresh'
    BY <1>1, <1>3, <2>1 DEF IInv, Fresh, ToldArrives, HupIsFresh, BootIsFresh, LoopsAreFresh, Deaf, Listening, daemon, stored
  <2> QED
    BY <1>2, <2>2, <2>3 DEF IInv
<1>4. CASE phase \in {"loaded", "starting"}
  <2>1. Gone
    BY <1>4 DEF CmdReload
  <2> QED
    BY <1>1, <1>2, <2>1, GoneIInv DEF IInv
<1>5. CASE phase \notin {"down", "loaded", "starting"}
  <2>1. /\ hup' = TRUE
        /\ UNCHANGED <<phase, file, conns, running, owner, hupAt, hupRead, bootRead, overtaken>>
    BY <1>5 DEF CmdReload
  <2>2. Types'
    BY <1>1, <1>2, <2>1 DEF IInv, Types, stored
  <2>3. Told' /\ Listening'
    BY <1>5, <2>1 DEF Told, Listening, IInv, Types, Phases
  <2>4. Fresh'
    BY <1>1, <2>1, <2>3 DEF IInv, Fresh, ToldArrives, HupIsFresh, BootIsFresh, LoopsAreFresh, Deaf, Follows, Listening, stored
  <2> QED
    BY <1>2, <2>2, <2>4 DEF IInv
<1> QED
  BY <1>3, <1>4, <1>5

(* The daemon up to signal.Notify: nothing runs, and nobody listens. *)
LEMMA StartIInv == IInv /\ (LoadState \/ LoadPersist \/ Notify) => IInv'
<1> SUFFICES ASSUME IInv, LoadState \/ LoadPersist \/ Notify PROVE IInv'
  OBVIOUS
<1>1. SavesWhatIsAsked'
  BY CommandsStay DEF IInv, LoadState, LoadPersist, Notify
<1>2. /\ phase \in {"down", "loaded", "starting"} /\ phase' \in {"loaded", "starting", "notified"}
      /\ UNCHANGED <<hup, hupAt>> /\ ~Listening
  BY DEF LoadState, LoadPersist, Notify, Listening
<1>3. Fresh'
  BY <1>2 DEF IInv, Fresh, ToldArrives, HupIsFresh, BootIsFresh, LoopsAreFresh, Deaf, Listening
<1>4. Types'
  <2>1. CASE LoadState
    <3>1. ASSUME NEW s \in Servers
          PROVE  (IF Has(disk, s)
                   THEN [cred |-> At(disk, s).cred, stopped |-> At(disk, s).stopped,
                         pulled |-> FALSE]
                   ELSE NoConn) \in Conn
      BY ConnType, NoConnType DEF IInv, Types
    <3>2. conns' \in [Servers -> Conn]
      BY <2>1, <3>1 DEF LoadState
    <3> QED
      BY <2>1, <3>2 DEF IInv, Types, LoadState, Phases, stored
  <2>2. CASE LoadPersist
    <3>1. file \in Lists /\ Types
      BY DEF IInv, Types
    <3>2. disk' \in Lists /\ written' \in BOOLEAN /\ unread' \in {"no", "told", "untold"}
      <4>1. CASE Write(file, "told")
        BY <3>1, <4>1, WriteFacts
      <4>2. CASE UNCHANGED stored
        BY <3>1, <4>2 DEF Types, stored
      <4> QED
        BY <2>2, <4>1, <4>2 DEF LoadPersist
    <3> QED
      BY <2>2, <3>1, <3>2 DEF Types, LoadPersist, Phases
  <2>3. CASE Notify
    BY <2>3 DEF IInv, Types, Notify, Phases, stored
  <2> QED
    BY <2>1, <2>2, <2>3
<1> QED
  BY <1>1, <1>3, <1>4 DEF IInv

(* The first reconcile reads the file, *)
LEMMA BootReadIInv == IInv /\ BootRead => IInv'
<1> SUFFICES ASSUME IInv, BootRead PROVE IInv'
  OBVIOUS
<1> USE DEF BootRead
<1>1. SavesWhatIsAsked'
  BY CommandsStay DEF IInv
<1>2. Types'
  BY DEF IInv, Types, Phases
<1>3. Told <=> Told'
  BY DEF Told
<1>4. Fresh'
  BY <1>3 DEF IInv, Fresh, ToldArrives, HupIsFresh, BootIsFresh, LoopsAreFresh, Deaf, Types, Listening
<1> QED
  BY <1>1, <1>2, <1>4 DEF IInv

(* and applies what it has read. *)
LEMMA BootApplyIInv == IInv /\ BootApply => IInv'
<1> SUFFICES ASSUME IInv, BootApply PROVE IInv'
  OBVIOUS
<1>1. /\ phase = "booting" /\ phase' = "running" /\ Apply(bootRead) /\ bootRead' = <<>>
      /\ UNCHANGED <<stored, cmds, issued, file, hup, hupAt, hupRead, overtaken, starts, asked>>
  BY DEF BootApply
<1>2. SavesWhatIsAsked'
  BY <1>1, CommandsStay DEF IInv
<1>3. bootRead \in Lists /\ file \in Lists /\ conns \in [Servers -> Conn]
  BY DEF IInv, Types
<1>4. Types'
  BY <1>1, <1>3, ApplyTypes, EmptyIsList DEF IInv, Types, Phases, stored
<1>5. Told <=> Told'
  BY <1>1 DEF Told
<1>6. bootRead = disk => Follows(disk)'
  BY <1>1, <1>3, ApplyFollows DEF Follows, stored
<1>7. Fresh'
  BY <1>1, <1>5, <1>6 DEF IInv, Fresh, ToldArrives, HupIsFresh, BootIsFresh, LoopsAreFresh, Deaf, Listening, stored
<1> QED
  BY <1>2, <1>4, <1>7 DEF IInv

(* The goroutine of SIGHUP takes the signal and reads the file, *)
LEMMA HupReadIInv == IInv /\ (HupTake \/ HupRead) => IInv'
<1> SUFFICES ASSUME IInv, HupTake \/ HupRead PROVE IInv'
  OBVIOUS
<1>1. SavesWhatIsAsked'
  BY CommandsStay DEF IInv, HupTake, HupRead
<1>2. Types'
  BY DEF IInv, Types, HupTake, HupRead, stored
<1>3. CASE HupTake
  <2>1. Told' /\ Listening' /\ hupAt # "apply"
    BY <1>3 DEF HupTake, Told, Listening
  <2>2. Fresh'
    BY <1>3, <2>1 DEF IInv, Fresh, ToldArrives, HupIsFresh, BootIsFresh, LoopsAreFresh, Deaf, Follows, HupTake, stored
  <2> QED
    BY <1>1, <1>2, <2>2 DEF IInv
<1>4. CASE HupRead
  <2>1. hupAt' = "apply" /\ hupRead' = disk' /\ unread' = "no" /\ Listening'
    BY <1>4 DEF HupRead, IInv, Fresh, Deaf, Listening
  <2>2. Fresh'
    BY <2>1 DEF Fresh, ToldArrives, HupIsFresh, BootIsFresh, LoopsAreFresh, Deaf
  <2> QED
    BY <1>1, <1>2, <2>2 DEF IInv
<1> QED
  BY <1>3, <1>4

(* and applies what it has read; inside the first reconcile that is noted. *)
LEMMA HupApplyIInv == IInv /\ HupApply => IInv'
<1> SUFFICES ASSUME IInv, HupApply PROVE IInv'
  OBVIOUS
<1>1. /\ hupAt = "apply" /\ hupAt' = "wait"
      /\ overtaken' = (phase = "booting" /\ hupRead = disk /\ bootRead # hupRead)
      /\ Apply(hupRead) /\ hupRead' = <<>>
      /\ UNCHANGED <<stored, cmds, issued, phase, file, hup, bootRead, starts, asked>>
  BY DEF HupApply
<1>2. SavesWhatIsAsked'
  BY <1>1, CommandsStay DEF IInv
<1>3. hupRead \in Lists /\ file \in Lists /\ conns \in [Servers -> Conn]
  BY DEF IInv, Types
<1>4. Types'
  <2>1. overtaken' \in BOOLEAN
    BY <1>1
  <2> QED
    BY <1>1, <1>3, <2>1, ApplyTypes, EmptyIsList DEF IInv, Types, stored
<1>5. Told <=> Told'
  BY <1>1 DEF Told
<1>6. hupRead = disk => Follows(disk)'
  BY <1>1, <1>3, ApplyFollows DEF Follows, stored
<1>7. Fresh'
  <2>1. unread' = "told" => Told'
    BY <1>1, <1>5 DEF IInv, Fresh, ToldArrives, stored
  <2>2. phase' = "booting" /\ unread' = "no" => bootRead' = disk' \/ overtaken'
    BY <1>1 DEF IInv, Fresh, HupIsFresh, stored
  <2>3. phase' = "running" /\ unread' = "no" => Follows(disk)'
    BY <1>1, <1>6 DEF IInv, Fresh, HupIsFresh, stored
  <2>4. Deaf'
    BY <1>1 DEF IInv, Fresh, Deaf, Listening
  <2> QED
    BY <1>1, <2>1, <2>2, <2>3, <2>4
       DEF Fresh, ToldArrives, HupIsFresh, BootIsFresh, LoopsAreFresh
<1> QED
  BY <1>2, <1>4, <1>7 DEF IInv

(* A save of samples puts the list of the start of the daemon into the file. *)
LEMMA SaveSamplesIInv == IInv /\ SaveSamples => IInv'
<1> SUFFICES ASSUME IInv, SaveSamples PROVE IInv'
  OBVIOUS
<1>1. Write(file, "untold") /\ UNCHANGED <<cmds, issued, daemon, starts, asked>>
  BY DEF SaveSamples
<1>2. SavesWhatIsAsked'
  BY <1>1, CommandsStay DEF IInv
<1>3. file \in Lists
  BY DEF IInv, Types
<1>4. /\ disk' \in Lists /\ written' \in BOOLEAN /\ unread' \in {"no", "told", "untold"}
      /\ unread' = "no" => disk' = disk /\ unread = "no"
      /\ unread' = "told" => unread = "told"
  BY <1>1, <1>3, WriteFacts DEF IInv
<1>5. Types'
  BY <1>1, <1>4 DEF IInv, Types, daemon
<1>6. Told <=> Told'
  BY <1>1 DEF Told, daemon
<1>7. Fresh'
  BY <1>1, <1>4, <1>6 DEF IInv, Fresh, ToldArrives, HupIsFresh, BootIsFresh, LoopsAreFresh, Deaf, Follows, Listening, daemon
<1> QED
  BY <1>2, <1>5, <1>7 DEF IInv

LEMMA DieIInv == IInv /\ Die => IInv'
<1> SUFFICES ASSUME IInv, Die PROVE IInv'
  OBVIOUS
<1>1. Gone /\ UNCHANGED <<stored, cmds, issued, starts, asked>>
  BY DEF Die
<1>2. SavesWhatIsAsked'
  BY <1>1, CommandsStay DEF IInv
<1> QED
  BY <1>1, <1>2, GoneIInv DEF IInv, Types

LEMMA StutterIInv == IInv /\ UNCHANGED vars => IInv'
<1> SUFFICES ASSUME IInv, UNCHANGED vars PROVE IInv'
  OBVIOUS
<1> USE DEF vars, daemon, stored
<1>1. SavesWhatIsAsked'
  BY CommandsStay DEF IInv
<1>2. Types'
  BY DEF IInv, Types
<1>3. Told <=> Told'
  BY DEF Told
<1>4. Fresh'
  BY <1>3 DEF IInv, Fresh, ToldArrives, HupIsFresh, BootIsFresh, LoopsAreFresh, Deaf, Listening, Follows
<1> QED
  BY <1>1, <1>2, <1>4 DEF IInv

(* Every step preserves the invariant. *)
LEMMA StepIInv == IInv /\ [Next]_vars => IInv'
<1> SUFFICES ASSUME IInv, [Next]_vars PROVE IInv'
  OBVIOUS
<1>1. ASSUME NEW c \in Commands, NEW kind \in Kinds, NEW s \in Servers, CmdRead(c, kind, s)
      PROVE  IInv'
  BY <1>1, CmdReadIInv
<1>2. ASSUME NEW c \in Commands, Command(c) PROVE IInv'
  BY <1>2, CmdSaveIInv, CmdSaveFailsIInv, CmdReloadIInv, CmdUntoldIInv DEF Command
<1>3. CASE Boot
  BY <1>3, StartIInv, BootReadIInv, BootApplyIInv DEF Boot
<1>4. CASE Hup
  BY <1>4, HupReadIInv, HupApplyIInv DEF Hup
<1>5. CASE SaveSamples
  BY <1>5, SaveSamplesIInv
<1>6. CASE Die
  BY <1>6, DieIInv
<1>7. CASE UNCHANGED vars
  BY <1>7, StutterIInv
<1> QED
  BY <1>1, <1>2, <1>3, <1>4, <1>5, <1>6, <1>7 DEF Next

(* The inductive invariant holds in every reachable state. *)
THEOREM SupervisorInvariant == Spec => []IInv
BY InitIInv, StepIInv, PTL DEF Spec

(* Every variable has its type, whatever commands, signals and reconciles do: the lists of *)
(* masters of stateMaster entries with credentials, the connections, the loops, the owner. *)
THEOREM SupervisorTypes == Spec => []TypeOK
<1>1. Lists \subseteq Seq(Entry)
  BY DEF Lists
<1>2. Saving \subseteq [at: {"save"}, kind: Kinds, server: Servers, new: Seq(Entry)]
  BY <1>1 DEF Saving
<1>3. IInv => TypeOK
  BY <1>1, <1>2 DEF IInv, Types, TypeOK
<1> QED
  BY <1>3, SupervisorInvariant, PTL

(* With nothing under way the loops and their credentials are those of the file, but for a *)
(* change that nobody told the daemon of and that no reconcile has read since, and for a   *)
(* reload inside the first reconcile.                                                       *)
THEOREM SupervisorLoopsFollowFile == Spec => []LoopsFollowFile
<1>1. ASSUME IInv, Settled PROVE Follows(disk) \/ unread = "untold" \/ overtaken
  <2>1. phase = "running" /\ ~Told /\ hupAt = "wait"
    BY <1>1 DEF Settled, Told
  <2>2. unread # "told"
    BY <1>1, <2>1 DEF IInv, Fresh, ToldArrives
  <2>3. unread \in {"no", "told", "untold"}
    BY <1>1 DEF IInv, Types
  <2> QED
    BY <1>1, <2>1, <2>2, <2>3 DEF IInv, Fresh, LoopsAreFresh
<1>2. IInv => LoopsFollowFile
  BY <1>1 DEF LoopsFollowFile
<1> QED
  BY <1>2, SupervisorInvariant, PTL

-----------------------------------------------------------------------------
(* What the invariant says beyond the properties of the runs *)

ListsOnce ==
  /\ EachOnce(disk) /\ EachOnce(file) /\ EachOnce(hupRead) /\ EachOnce(bootRead)
  /\ \A c \in Commands : cmds[c].at = "save" => EachOnce(cmds[c].new)

SaveDoesWhatIsAsked ==
  \A c \in Commands : CmdSave(c) => StatusIn(disk', cmds[c].server) = asked'[cmds[c].server]

(* No list of masters ever has a server twice, on disk, in a.file or in the hands of a     *)
(* command or a reconcile: what lets AddMaster and the others stop at the first match.     *)
THEOREM SupervisorEachOnce == Spec => []ListsOnce
<1>1. ASSUME IInv, NEW c \in Commands, cmds[c].at = "save" PROVE EachOnce(cmds[c].new)
  <2>1. cmds[c] \in Saving
    BY <1>1 DEF IInv, Types, Idle, Reloading
  <2> QED
    BY <2>1 DEF Saving, Lists
<1>2. IInv => ListsOnce
  BY <1>1 DEF IInv, Types, Lists, ListsOnce
<1> QED
  BY <1>2, SupervisorInvariant, PTL

(* What a command has asked of its server is in the file when its save is done, however    *)
(* long ago it read the file: what CommandsStick misses is lost to a later save.           *)
THEOREM SupervisorSavesWhatIsAsked == Spec => [][SaveDoesWhatIsAsked]_vars
<1>1. IInv /\ [Next]_vars => [SaveDoesWhatIsAsked]_vars
  <2> SUFFICES ASSUME IInv, NEW c \in Commands, CmdSave(c)
               PROVE  StatusIn(disk', cmds[c].server) = asked'[cmds[c].server]
    BY DEF SaveDoesWhatIsAsked
  <2>1. cmds[c] \in Saving /\ disk' = cmds[c].new
        /\ asked' = [asked EXCEPT ![cmds[c].server] = Outcome(cmds[c].kind)]
    BY DEF CmdSave, Write, IInv, Types, Idle, Reloading
  <2>2. cmds[c].server \in Servers
    BY <2>1 DEF Saving
  <2>3. asked'[cmds[c].server] = Outcome(cmds[c].kind)
    BY <2>1, <2>2 DEF IInv, Types
  <2> QED
    BY <2>1, <2>3 DEF IInv, SavesWhatIsAsked
<1> QED
  BY <1>1, SupervisorInvariant, PTL DEF Spec

(* A save of what was read from the file as it still is, by whatever credentials. *)
IsFresh(c) ==
  LET k == cmds[c]
  IN  /\ k.kind = "add" \/ Has(disk, k.server)
      /\ \E cred \in Nat : k.new = Edited(disk, k.kind, k.server, cred)

LossIsStale ==
  CommandsStick /\ ~CommandsStick' =>
    \/ disk' = file /\ disk # file
    \/ \E c \in Commands : CmdSave(c) /\ ~IsFresh(c)

(* What a command has asked is only ever lost to a list that was no longer the file: a     *)
(* save of a command that had read the file before, or a save of the daemon's own list.    *)
(* A command whose edit is of the file as it is takes nothing from another server.         *)
THEOREM SupervisorLossIsStale == Spec => [][LossIsStale]_vars
<1>1. ASSUME IInv, Next, CommandsStick, ~CommandsStick', UNCHANGED <<disk, asked>>
      PROVE  FALSE
  BY <1>1 DEF CommandsStick
<1>2. ASSUME IInv, CommandsStick, ~CommandsStick', NEW c \in Commands, CmdSave(c), IsFresh(c)
      PROVE  FALSE
  <2> DEFINE k == cmds[c]
  <2>1. k \in Saving /\ disk' = k.new
        /\ asked' = [asked EXCEPT ![k.server] = Outcome(k.kind)]
    BY <1>2 DEF CmdSave, Write, IInv, Types, Idle, Reloading
  <2>2. k.server \in Servers /\ k.kind \in Kinds
    BY <2>1 DEF Saving
  <2>3. disk \in Lists /\ asked \in [Servers -> Status]
    BY <1>2 DEF IInv, Types
  <2>4. PICK cred \in Nat : k.new = Edited(disk, k.kind, k.server, cred)
    BY <1>2 DEF IsFresh
  <2>5. k.kind = "add" \/ Has(disk, k.server)
    BY <1>2 DEF IsFresh
  <2> HIDE DEF k
  <2>6. /\ StatusIn(disk', k.server) = Outcome(k.kind)
        /\ \A t : t # k.server => StatusIn(disk', t) = StatusIn(disk, t)
    BY <2>1, <2>2, <2>3, <2>4, <2>5, EditedDoesWhatIsAsked
  <2>7. ASSUME NEW s \in Servers PROVE StatusIn(disk', s) = asked'[s]
    <3>1. CASE s = k.server
      BY <2>1, <2>3, <2>6, <3>1
    <3>2. CASE s # k.server
      BY <1>2, <2>1, <2>3, <2>6, <3>2 DEF CommandsStick
    <3> QED
      BY <3>1, <3>2
  <2> QED
    BY <1>2, <2>7 DEF CommandsStick
<1>3. ASSUME IInv, Next, CommandsStick, ~CommandsStick' PROVE LossIsStale
  <2>1. ASSUME NEW c \in Commands, CmdSave(c) PROVE LossIsStale
    BY <1>2, <1>3, <2>1 DEF LossIsStale
  <2>2. CASE disk' = file /\ asked' = asked
    BY <1>1, <1>3, <2>2 DEF LossIsStale
  <2>3. CASE UNCHANGED <<disk, asked>>
    BY <1>1, <1>3, <2>3
  <2>4. ASSUME NEW c \in Commands, NEW kind \in Kinds, NEW s \in Servers, CmdRead(c, kind, s)
        PROVE  UNCHANGED <<disk, asked>>
    BY <2>4 DEF CmdRead, stored
  <2>5. ASSUME NEW c \in Commands, CmdSaveFails(c) \/ CmdReload(c) \/ CmdUntold(c)
        PROVE  UNCHANGED <<disk, asked>>
    BY <2>5 DEF CmdSaveFails, CmdReload, CmdUntold, stored
  <2>6. CASE Boot
    BY <2>2, <2>3, <2>6 DEF Boot, LoadState, LoadPersist, Write, Notify, BootRead, BootApply, stored
  <2>7. CASE Hup
    BY <2>3, <2>7 DEF Hup, HupTake, HupRead, HupApply, stored
  <2>8. CASE SaveSamples
    BY <2>2, <2>8 DEF SaveSamples, Write
  <2>9. CASE Die
    BY <2>3, <2>9 DEF Die, stored
  <2> QED
    BY <1>3, <2>1, <2>3, <2>4, <2>5, <2>6, <2>7, <2>8, <2>9 DEF Next, Command
<1>4. IInv /\ [Next]_vars => [LossIsStale]_vars
  BY <1>3 DEF LossIsStale
<1> QED
  BY <1>4, SupervisorInvariant, PTL DEF Spec
=============================================================================
