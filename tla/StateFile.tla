------------------------------ MODULE StateFile ------------------------------
(***************************************************************************)
(* writeFile and LoadStateFile (internal/agent/agent.go) at the level of   *)
(* the file system: every save of the state file goes through the same     *)
(* temporary name, path + ".tmp", which os.WriteFile truncates and writes  *)
(* and os.Rename moves over the state file.                                *)
(*                                                                         *)
(* The goroutines of the daemon (loadState, appendSample,                  *)
(* resetSamplingBaseline) hold stateMu while they save; the processes of   *)
(* the CLI (add, remove, stop, start) hold nothing, so their saves may run *)
(* into one another and into the daemon's.  A process may die between any  *)
(* two system calls.                                                       *)
(*                                                                         *)
(* An inode holds a sequence of blocks, each the name of the document it   *)
(* was written from; a document of size n is written by one system call    *)
(* over the first n blocks.  Lost power (pages not yet on disk) is left    *)
(* out.                                                                    *)
(***************************************************************************)
EXTENDS Naturals, Sequences

CONSTANTS
  Writers, Readers, Docs, Inodes,
  Locked,     \* the writers that hold stateMu around their saves
  Processes,  \* the writers of each process: they die together
  Size,       \* the number of blocks of a document
  NoDoc, NoInode, NoWriter

ASSUME WritersAssumption == Locked \subseteq Writers /\ Processes \subseteq SUBSET Writers
ASSUME SizeAssumption == Size \in [Docs -> Nat \ {0}]
ASSUME NoneAssumption == NoDoc \notin Docs /\ NoInode \notin Inodes /\ NoWriter \notin Writers

VARIABLES
  path, tmp,  \* directory entries: the state file and its temporary
  data,       \* per inode: its blocks
  mu,         \* the holder of stateMu
  pc, saving, fd,  \* per writer: next system call, document, open file
  rfd,        \* per reader: the file it has opened and not yet read
  got,        \* per reader: the blocks its last load returned, <<>> without a file
  mixed       \* history: the files that saves have had open while a command's save
              \* and another one overlapped

vars == <<path, tmp, data, mu, pc, saving, fd, rfd, got, mixed>>

Image(d) == [i \in 1..Size[d] |-> d]

(* One write at offset 0: the tail of longer old contents stays. *)
Overlay(old, d) ==
  [i \in 1..(IF Len(old) > Size[d] THEN Len(old) ELSE Size[d]) |->
     IF i <= Size[d] THEN d ELSE old[i]]

TypeOK ==
  /\ path \in Inodes \cup {NoInode} /\ tmp \in Inodes \cup {NoInode}
  /\ data \in [Inodes -> Seq(Docs)]
  /\ mu \in Writers \cup {NoWriter}
  /\ pc \in [Writers -> {"idle", "open", "write", "rename"}]
  /\ saving \in [Writers -> Docs \cup {NoDoc}]
  /\ fd \in [Writers -> Inodes \cup {NoInode}]
  /\ rfd \in [Readers -> Inodes \cup {NoInode}]
  /\ got \in [Readers -> Seq(Docs)]
  /\ mixed \in SUBSET Inodes

Init ==
  /\ path \in Inodes \cup {NoInode} /\ tmp = NoInode
  /\ \E d \in Docs : data = [i \in Inodes |-> IF i = path THEN Image(d) ELSE <<>>]
  /\ mu = NoWriter
  /\ pc = [w \in Writers |-> "idle"]
  /\ saving = [w \in Writers |-> NoDoc]
  /\ fd = [w \in Writers |-> NoInode]
  /\ rfd = [r \in Readers |-> NoInode]
  /\ got = [r \in Readers |-> <<>>]
  /\ mixed = {}

Free(i) ==
  /\ i # path /\ i # tmp
  /\ \A w \in Writers : fd[w] # i
  /\ \A r \in Readers : rfd[r] # i

(* Faulty variant: a goroutine of the daemon saves without stateMu. *)
BeginUnlocked(w) ==
  /\ pc[w] = "idle"
  /\ pc' = [pc EXCEPT ![w] = "open"]
  /\ \E d \in Docs : saving' = [saving EXCEPT ![w] = d]
  /\ UNCHANGED <<path, tmp, data, mu, fd, rfd, got, mixed>>

(* A caller of writeFile with a document, after stateMu.Lock() if it takes it. *)
Begin(w) ==
  /\ pc[w] = "idle"
  /\ w \in Locked => mu = NoWriter
  /\ mu' = IF w \in Locked THEN w ELSE mu
  /\ pc' = [pc EXCEPT ![w] = "open"]
  /\ \E d \in Docs : saving' = [saving EXCEPT ![w] = d]
  /\ UNCHANGED <<path, tmp, data, fd, rfd, got, mixed>>

(* writeFile returns; stateMu is released. *)
Return(ws) ==
  /\ mu' = IF mu \in ws THEN NoWriter ELSE mu
  /\ pc' = [w \in Writers |-> IF w \in ws THEN "idle" ELSE pc[w]]
  /\ saving' = [w \in Writers |-> IF w \in ws THEN NoDoc ELSE saving[w]]
  /\ fd' = [w \in Writers |-> IF w \in ws THEN NoInode ELSE fd[w]]

(* The saves under way that stateMu does not keep apart from one of w. *)
Rivals(w) ==
  {v \in Writers \ {w} : pc[v] \in {"write", "rename"} /\ ~(v \in Locked /\ w \in Locked)}

Mixes(w, i) ==
  mixed' = IF Rivals(w) = {} THEN mixed \ {i} ELSE mixed \cup {i} \cup {fd[v] : v \in Rivals(w)}

(* os.WriteFile opens the temporary with O_CREATE and O_TRUNC ... *)
OpenTmp(w, i) ==
  /\ pc[w] = "open"
  /\ IF tmp = NoInode THEN Free(i) ELSE i = tmp
  /\ tmp' = i
  /\ data' = [data EXCEPT ![i] = <<>>]
  /\ fd' = [fd EXCEPT ![w] = i]
  /\ pc' = [pc EXCEPT ![w] = "write"]
  /\ Mixes(w, i)
  /\ UNCHANGED <<path, mu, saving, rfd, got>>

(* Faulty variant: the whole buffer is written, of which the document is a prefix. *)
WriteTmpWholeBuffer(w) ==
  /\ pc[w] = "write"
  /\ data' = [data EXCEPT ![fd[w]] = Append(Overlay(@, saving[w]), NoDoc)]
  /\ pc' = [pc EXCEPT ![w] = "rename"]
  /\ UNCHANGED <<path, tmp, mu, saving, fd, rfd, got, mixed>>

(* ... and writes through the file it has opened, whatever name that file has by now. *)
WriteTmp(w) ==
  /\ pc[w] = "write"
  /\ data' = [data EXCEPT ![fd[w]] = Overlay(@, saving[w])]
  /\ pc' = [pc EXCEPT ![w] = "rename"]
  /\ UNCHANGED <<path, tmp, mu, saving, fd, rfd, got, mixed>>

(* os.WriteFile fails: its error is returned and the temporary stays where it is. *)
WriteFails(w) ==
  /\ pc[w] \in {"open", "write"}
  /\ Return({w})
  /\ UNCHANGED <<path, tmp, data, rfd, got, mixed>>

(* Faulty variant: the state file is removed before the temporary is moved. *)
RenameAfterRemove(w) ==
  /\ pc[w] = "rename" /\ tmp # NoInode
  /\ path' = IF path = NoInode THEN tmp ELSE NoInode
  /\ IF path = NoInode THEN tmp' = NoInode /\ Return({w})
                       ELSE UNCHANGED <<tmp, mu, pc, saving, fd, mixed>>
  /\ UNCHANGED <<data, rfd, got, mixed>>

(* os.Rename: the temporary replaces the state file, or is gone and the save fails. *)
Rename(w) ==
  /\ pc[w] = "rename"
  /\ path' = IF tmp = NoInode THEN path ELSE tmp
  /\ tmp' = NoInode
  /\ Return({w})
  /\ UNCHANGED <<data, rfd, got, mixed>>

Die(ws) ==
  /\ \E w \in ws : pc[w] # "idle"
  /\ Return(ws)
  /\ UNCHANGED <<path, tmp, data, rfd, got, mixed>>

(* LoadStateFile: os.ReadFile opens the file and reads what the file holds by then. *)
LoadOpen(r) ==
  /\ rfd[r] = NoInode
  /\ rfd' = [rfd EXCEPT ![r] = path]
  /\ got' = [got EXCEPT ![r] = <<>>]
  /\ UNCHANGED <<path, tmp, data, mu, pc, saving, fd, mixed>>

LoadRead(r) ==
  /\ rfd[r] # NoInode
  /\ got' = [got EXCEPT ![r] = data[rfd[r]]]
  /\ rfd' = [rfd EXCEPT ![r] = NoInode]
  /\ UNCHANGED <<path, tmp, data, mu, pc, saving, fd, mixed>>

Next ==
  \/ \E w \in Writers : Begin(w) \/ WriteTmp(w) \/ WriteFails(w) \/ Rename(w)
  \/ \E w \in Writers, i \in Inodes : OpenTmp(w, i)
  \/ \E ws \in Processes : Die(ws)
  \/ \E r \in Readers : LoadOpen(r) \/ LoadRead(r)

Spec == Init /\ [][Next]_vars

-----------------------------------------------------------------------------
(* The abstract file: blocks that are the image of a document stand for it; blocks   *)
(* that are the image of none stand for themselves, which no abstract step produces. *)
Meaning(blocks) ==
  CASE blocks = <<>>                        -> NoDoc
    [] \E d \in Docs : blocks = Image(d)    -> blocks[1]
    [] OTHER                                -> blocks

Abstract == INSTANCE AtomicFile WITH
  value  <- IF path = NoInode THEN NoDoc ELSE Meaning(data[path]),
  loaded <- [r \in Readers |->
               Meaning(IF rfd[r] = NoInode THEN got[r] ELSE data[rfd[r]])]

(* A step of a save that ran into another one. *)
RanIntoAnother == \E w \in Writers : fd[w] \in mixed /\ pc'[w] # pc[w]

\* A save takes effect at one instant and installs the saver's own document, a load
\* returns the document of one instant, and a save that fails or whose process dies
\* between two system calls changes nothing.  Commands save without a lock (agent.go:800,
\* 825, 838), so SaveStateFile is not atomic as its comment has it: the steps of a save that
\* ran into another one are excepted, and nothing else.
ImplementsAtomicFile ==
  Abstract!Init /\ [][Abstract!Next \/ RanIntoAnother]_(Abstract!vars)

\* A load never sees an empty, a torn or a mixed file: what was opened, and what is
\* reached through the name, is one whole document, unless it is a file that the overlapping
\* saves of a command and of somebody else had open.  Goroutines of the daemon never tear it
\* among themselves, and the next save that overlaps with none makes it whole again.
FileIsWhole ==
  /\ path \in Inodes \ mixed => \E d \in Docs : data[path] = Image(d)
  /\ \A r \in Readers : rfd[r] \in Inodes \ mixed => \E d \in Docs : data[rfd[r]] = Image(d)
=============================================================================
