----------------------------- MODULE AtomicFile -----------------------------
(***************************************************************************)
(* What SaveStateFile and LoadStateFile promise their callers              *)
(* (internal/agent/agent.go): a save replaces the whole document at one    *)
(* instant or, when it fails or its process dies, not at all; a load       *)
(* returns the document of one instant.                                    *)
(***************************************************************************)
CONSTANTS Writers, Readers, Docs, NoDoc

VARIABLES
  value,   \* the document in the file, NoDoc while there is no file
  saving,  \* per writer: the document it is saving, or NoDoc
  loaded   \* per reader: the document its last load returned

vars == <<value, saving, loaded>>

Init ==
  /\ value \in Docs \cup {NoDoc}
  /\ saving = [w \in Writers |-> NoDoc]
  /\ loaded = [r \in Readers |-> NoDoc]

Begin(w) ==
  /\ saving[w] = NoDoc
  /\ \E d \in Docs : saving' = [saving EXCEPT ![w] = d]
  /\ UNCHANGED <<value, loaded>>

Commit(w) ==
  /\ saving[w] # NoDoc
  /\ value' = saving[w]
  /\ saving' = [saving EXCEPT ![w] = NoDoc]
  /\ UNCHANGED loaded

(* Failed saves, and the saves of a process that dies. *)
Abort(ws) ==
  /\ saving' = [w \in Writers |-> IF w \in ws THEN NoDoc ELSE saving[w]]
  /\ UNCHANGED <<value, loaded>>

Load(r) ==
  /\ loaded' = [loaded EXCEPT ![r] = value]
  /\ UNCHANGED <<value, saving>>

Next ==
  \/ \E w \in Writers : Begin(w) \/ Commit(w)
  \/ \E ws \in SUBSET Writers : Abort(ws)
  \/ \E r \in Readers : Load(r)

Spec == Init /\ [][Next]_vars
=============================================================================
