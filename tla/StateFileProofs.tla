--------------------------- MODULE StateFileProofs ---------------------------
(***************************************************************************)
(* The file-system steps of writeFile and LoadStateFile implement          *)
(* AtomicFile, but for the saves that ran into one another, for every      *)
(* number of goroutines and commands, readers, documents and inodes and    *)
(* whoever takes stateMu; if everybody takes it, without exception.        *)
(***************************************************************************)
EXTENDS StateFile, TLAPS

(* The blocks of a whole document. *)
IsImage(blocks) == \E d \in Docs : blocks = Image(d)

(* A save that has the temporary open. *)
Writing(w) == pc[w] \in {"write", "rename"}

(* stateMu is held during the saves that take it, so there is one of them at a time. *)
Mutex == \A w \in Locked : pc[w] # "idle" => mu = w

(* What a writer holds at each of its system calls; the file is its own while it is not mixed. *)
Progress == \A w \in Writers :
  /\ pc[w] = "idle" <=> saving[w] = NoDoc
  /\ pc[w] \in {"idle", "open"} => fd[w] = NoInode
  /\ Writing(w) => fd[w] \in Inodes

Alone == \A w \in Writers : Writing(w) /\ fd[w] \notin mixed =>
  /\ fd[w] = tmp
  /\ pc[w] = "write" => data[fd[w]] = <<>>
  /\ pc[w] = "rename" => data[fd[w]] = Image(saving[w])

(* Two saves under way at once have run into one another, and what one of them moves over *)
(* the state file is known to be mixed.                                                   *)
Overlaps ==
  /\ \A v, w \in Writers : v # w /\ Writing(v) /\ Writing(w) => fd[v] \in mixed
  /\ \A w \in Writers : Writing(w) /\ fd[w] \in mixed => tmp \in mixed \cup {NoInode}

(* No load has the temporary open. *)
TmpIsPrivate == tmp # NoInode => tmp # path /\ \A r \in Readers : rfd[r] # tmp

IInv == TypeOK /\ Mutex /\ Progress /\ Alone /\ Overlaps /\ TmpIsPrivate /\ FileIsWhole

-----------------------------------------------------------------------------
\* The image of a document is a non-empty sequence that determines the document.
LEMMA ImageFacts ==
  \A d \in Docs : /\ Image(d) \in Seq(Docs)
                  /\ Image(d) # <<>>
                  /\ Image(d)[1] = d
<1> SUFFICES ASSUME NEW d \in Docs
             PROVE  Image(d) \in Seq(Docs) /\ Image(d) # <<>> /\ Image(d)[1] = d
  OBVIOUS
<1>1. Size[d] \in Nat /\ Size[d] >= 1
  BY SizeAssumption
<1>2. Image(d) \in Seq(Docs) /\ Len(Image(d)) = Size[d]
  BY <1>1 DEF Image
<1>3. Image(d)[1] = d
  BY <1>1 DEF Image
<1> QED
  BY <1>1, <1>2, <1>3

\* A document written over an empty file leaves the image of the document.
LEMMA OverlayOnEmpty == \A d \in Docs : Overlay(<<>>, d) = Image(d)
<1> SUFFICES ASSUME NEW d \in Docs PROVE Overlay(<<>>, d) = Image(d)
  OBVIOUS
<1>1. Size[d] \in Nat /\ Size[d] >= 1
  BY SizeAssumption
<1>2. (IF Len(<<>>) > Size[d] THEN Len(<<>>) ELSE Size[d]) = Size[d]
  BY <1>1
<1> QED
  BY <1>1, <1>2 DEF Overlay, Image

\* What is written over whatever a file holds is blocks of documents again.
LEMMA OverlayType == \A old \in Seq(Docs), d \in Docs : Overlay(old, d) \in Seq(Docs)
<1> SUFFICES ASSUME NEW old \in Seq(Docs), NEW d \in Docs PROVE Overlay(old, d) \in Seq(Docs)
  OBVIOUS
<1> DEFINE n == IF Len(old) > Size[d] THEN Len(old) ELSE Size[d]
<1>1. Size[d] \in Nat /\ Len(old) \in Nat
  BY SizeAssumption
<1>2. n \in Nat /\ \A i \in 1..n : i > Size[d] => i \in 1..Len(old)
  BY <1>1
<1>3. \A i \in 1..n : (IF i <= Size[d] THEN d ELSE old[i]) \in Docs
  BY <1>1, <1>2
<1> QED
  BY <1>2, <1>3 DEF Overlay

\* The refinement mapping reads an image as its document and an absent file as none.
LEMMA MeaningFacts ==
  /\ Meaning(<<>>) = NoDoc
  /\ \A d \in Docs : Meaning(Image(d)) = d
BY ImageFacts DEF Meaning
-----------------------------------------------------------------------------
(* The invariant is inductive, one lemma per action; a save that ends (with an  *)
(* error, or with its process) is Return with the files left alone.                  *)

\* The initial state: no save in progress, and a whole file or none.
LEMMA InitIInv == Init => IInv
<1> SUFFICES ASSUME Init PROVE IInv
  OBVIOUS
<1>1. PICK d \in Docs : data = [i \in Inodes |-> IF i = path THEN Image(d) ELSE <<>>]
  BY DEF Init
<1>2. Image(d) \in Seq(Docs)
  BY ImageFacts
<1>3. TypeOK
  BY <1>1, <1>2 DEF Init, TypeOK
<1>4. Mutex /\ Progress /\ Alone /\ Overlaps /\ TmpIsPrivate
  BY NoneAssumption, WritersAssumption
     DEF Init, Mutex, Progress, Alone, Overlaps, Writing, TmpIsPrivate
<1>5. FileIsWhole
  BY <1>1, NoneAssumption DEF Init, FileIsWhole
<1> QED
  BY <1>3, <1>4, <1>5 DEF IInv

\* A save begins; if it takes stateMu, no other that takes it is in progress.
LEMMA BeginStep ==
  ASSUME IInv, NEW w \in Writers, Begin(w)
  PROVE  IInv'
<1> USE DEF IInv
<1>1. TypeOK'
  BY NoneAssumption DEF Begin, TypeOK, Progress
<1>2. Mutex'
  BY NoneAssumption, WritersAssumption DEF Begin, TypeOK, Mutex
<1>3. \A v \in Writers : Writing(v)' = Writing(v)
  BY DEF Begin, TypeOK, Writing
<1>4. Progress'
  BY <1>3, NoneAssumption DEF Begin, TypeOK, Progress, Writing
<1>5. Alone' /\ Overlaps'
  BY <1>3 DEF Begin, TypeOK, Alone, Overlaps, Writing
<1>6. TmpIsPrivate' /\ FileIsWhole'
  BY DEF Begin, TmpIsPrivate, FileIsWhole
<1> QED
  BY <1>1, <1>2, <1>4, <1>5, <1>6

\* The temporary is a fresh or an abandoned file, which no load has open; if another save has
\* a temporary open, both files are mixed from here on.
LEMMA OpenTmpStep ==
  ASSUME IInv, NEW w \in Writers, NEW i \in Inodes, OpenTmp(w, i)
  PROVE  IInv'
<1> USE DEF IInv
<1>1. ~Writing(w) /\ i # path /\ \A r \in Readers : rfd[r] # i
  BY NoneAssumption DEF OpenTmp, Free, Writing, TmpIsPrivate
<1>2. Rivals(w) = {v \in Writers \ {w} : Writing(v)}
  BY WritersAssumption DEF OpenTmp, Rivals, Writing, Mutex
<1>3. mixed' \in SUBSET Inodes /\ mixed \subseteq mixed' \cup {i}
  BY <1>2 DEF OpenTmp, Mixes, TypeOK, Progress
<1>4. TypeOK'
  BY <1>3 DEF OpenTmp, TypeOK
<1>5. Mutex'
  BY WritersAssumption DEF OpenTmp, TypeOK, Mutex
<1>6. /\ \A v \in Writers \ {w} : pc'[v] = pc[v] /\ fd'[v] = fd[v] /\ Writing(v)' = Writing(v)
      /\ pc'[w] = "write" /\ fd'[w] = i /\ tmp' = i /\ Writing(w)'
  BY DEF OpenTmp, TypeOK, Writing
<1>7. Progress'
  BY <1>6 DEF OpenTmp, Progress, Writing
<1>8. \A v \in Writers \ {w} : Writing(v) => fd[v] \in mixed' /\ i \in mixed'
  BY <1>2 DEF OpenTmp, Mixes
<1>9. Alone'
  BY <1>6, <1>8 DEF OpenTmp, TypeOK, Alone, Writing
<1>10. Overlaps'
  <2>1. \A u, v \in Writers : u # v /\ Writing(u)' /\ Writing(v)' => fd'[u] \in mixed'
    BY <1>6, <1>8
  <2>2. \A v \in Writers : Writing(v)' /\ fd'[v] \in mixed' => i \in mixed'
    BY <1>6, <1>8
  <2> QED
    BY <1>6, <2>1, <2>2 DEF Overlaps
<1>11. TmpIsPrivate' /\ FileIsWhole'
  BY <1>1, <1>3, <1>6 DEF OpenTmp, TypeOK, TmpIsPrivate, FileIsWhole
<1> QED
  BY <1>4, <1>5, <1>7, <1>9, <1>10, <1>11

\* A save that ran into none makes the empty temporary the image of its document; one that
\* did writes to a mixed file.
LEMMA WriteTmpStep ==
  ASSUME IInv, NEW w \in Writers, WriteTmp(w)
  PROVE  IInv'
<1> USE DEF IInv
<1>1. Writing(w) /\ fd[w] \in Inodes /\ saving[w] \in Docs
  BY DEF WriteTmp, TypeOK, Progress, Writing
<1>2. data' = [data EXCEPT ![fd[w]] = Overlay(@, saving[w])]
  BY DEF WriteTmp
<1>3. TypeOK'
  BY <1>1, <1>2, OverlayType DEF WriteTmp, TypeOK
<1>4. Mutex'
  BY WritersAssumption DEF WriteTmp, TypeOK, Mutex
<1>5. /\ \A v \in Writers \ {w} : pc'[v] = pc[v]
      /\ pc'[w] = "rename" /\ \A v \in Writers : Writing(v)' = Writing(v)
  BY DEF WriteTmp, TypeOK, Writing
<1>6. Progress' /\ Overlaps' /\ TmpIsPrivate'
  BY <1>5 DEF WriteTmp, Progress, Overlaps, TmpIsPrivate, Writing
<1>7. Alone'
  <2>1. SUFFICES ASSUME NEW v \in Writers, Writing(v), fd[v] \notin mixed
                 PROVE  /\ fd[v] = tmp
                        /\ pc'[v] = "write" => data'[fd[v]] = <<>>
                        /\ pc'[v] = "rename" => data'[fd[v]] = Image(saving[v])
    BY <1>5 DEF WriteTmp, Alone
  <2>2. CASE v = w
    <3>1. fd[w] = tmp /\ data[fd[w]] = <<>>
      BY <2>1, <2>2 DEF WriteTmp, Alone
    <3>2. data'[fd[w]] = Image(saving[w])
      BY <1>1, <1>2, <3>1, OverlayOnEmpty DEF TypeOK
    <3> QED
      BY <1>5, <2>2, <3>1, <3>2
  <2>3. v = w
    BY <1>1, <2>1 DEF Overlaps
  <2> QED
    BY <2>2, <2>3
<1>8. FileIsWhole'
  <2>1. fd[w] \in mixed \/ (fd[w] # path /\ \A r \in Readers : rfd[r] # fd[w])
    BY <1>1, NoneAssumption DEF Alone, TmpIsPrivate
  <2> QED
    BY <1>1, <1>2, <2>1 DEF WriteTmp, TypeOK, FileIsWhole
<1> QED
  BY <1>3, <1>4, <1>6, <1>7, <1>8

\* A save that has returned is out of the way of the others.
LEMMA ReturnFacts ==
  ASSUME TypeOK, Progress, NEW ws \in SUBSET Writers, Return(ws)
  PROVE  /\ \A v \in Writers \ ws : /\ pc'[v] = pc[v] /\ fd'[v] = fd[v] /\ saving'[v] = saving[v]
                                     /\ Writing(v)' = Writing(v)
         /\ \A v \in ws : pc'[v] = "idle" /\ fd'[v] = NoInode /\ saving'[v] = NoDoc /\ ~Writing(v)'
         /\ mu' \in Writers \cup {NoWriter}
         /\ pc' \in [Writers -> {"idle", "open", "write", "rename"}]
         /\ saving' \in [Writers -> Docs \cup {NoDoc}]
         /\ fd' \in [Writers -> Inodes \cup {NoInode}]
         /\ Progress'
         /\ Mutex => Mutex'
<1>1. /\ \A v \in Writers \ ws : /\ pc'[v] = pc[v] /\ fd'[v] = fd[v] /\ saving'[v] = saving[v]
                                  /\ Writing(v)' = Writing(v)
      /\ \A v \in ws : pc'[v] = "idle" /\ fd'[v] = NoInode /\ saving'[v] = NoDoc /\ ~Writing(v)'
  BY DEF Return, Writing
<1>2. /\ mu' \in Writers \cup {NoWriter}
      /\ pc' \in [Writers -> {"idle", "open", "write", "rename"}]
      /\ saving' \in [Writers -> Docs \cup {NoDoc}]
      /\ fd' \in [Writers -> Inodes \cup {NoInode}]
  BY DEF Return, TypeOK
<1>3. Progress'
  BY <1>1 DEF Progress
<1>4. Mutex => Mutex'
  BY <1>1, WritersAssumption DEF Mutex, Return
<1> QED
  BY <1>1, <1>2, <1>3, <1>4

\* The rename publishes the image, or a file that is known to be mixed, and takes it away
\* from later writers.
LEMMA RenameStep ==
  ASSUME IInv, NEW w \in Writers, Rename(w)
  PROVE  IInv'
<1> USE DEF IInv
<1>1. Return({w})
  BY DEF Rename
<1>2. /\ \A v \in Writers \ {w} : /\ pc'[v] = pc[v] /\ fd'[v] = fd[v] /\ saving'[v] = saving[v]
                                   /\ Writing(v)' = Writing(v)
      /\ ~Writing(w)'
      /\ Progress' /\ Mutex'
  BY <1>1, ReturnFacts
<1>3. TypeOK'
  BY <1>1, ReturnFacts DEF Rename, TypeOK
<1>4. Writing(w)
  BY DEF Rename, Writing
<1>5. Alone' /\ Overlaps'
  BY <1>2, <1>4 DEF Rename, Alone, Overlaps
<1>6. TmpIsPrivate'
  BY DEF Rename, TmpIsPrivate
<1>7. FileIsWhole'
  <2>1. tmp \in Inodes \ mixed => \E d \in Docs : data[tmp] = Image(d)
    BY <1>4, NoneAssumption DEF Rename, TypeOK, Progress, Alone, Overlaps
  <2>2. path' \in {path, tmp} /\ UNCHANGED <<data, rfd, mixed>>
    BY DEF Rename
  <2> QED
    BY <2>1, <2>2 DEF FileIsWhole
<1> QED
  BY <1>2, <1>3, <1>5, <1>6, <1>7

\* A save that ends without a rename changes no file that can be loaded.
LEMMA ReturnStep ==
  ASSUME IInv, NEW ws \in SUBSET Writers, Return(ws), UNCHANGED <<path, tmp, data, rfd, got, mixed>>
  PROVE  IInv'
<1> USE DEF IInv
<1>1. /\ \A v \in Writers \ ws : /\ pc'[v] = pc[v] /\ fd'[v] = fd[v] /\ saving'[v] = saving[v]
                                  /\ Writing(v)' = Writing(v)
      /\ \A v \in ws : ~Writing(v)'
      /\ Progress' /\ Mutex'
  BY ReturnFacts
<1>2. TypeOK'
  BY ReturnFacts DEF TypeOK
<1>3. Alone' /\ Overlaps'
  BY <1>1 DEF Alone, Overlaps
<1>4. TmpIsPrivate' /\ FileIsWhole'
  BY DEF TmpIsPrivate, FileIsWhole
<1> QED
  BY <1>1, <1>2, <1>3, <1>4

\* A load opens the published file.
LEMMA LoadOpenStep ==
  ASSUME IInv, NEW r \in Readers, LoadOpen(r)
  PROVE  IInv'
<1> USE DEF IInv
<1>1. TypeOK'
  BY DEF LoadOpen, TypeOK
<1>2. Mutex' /\ Progress' /\ Alone' /\ Overlaps'
  BY DEF LoadOpen, Mutex, Progress, Alone, Overlaps, Writing
<1>3. TmpIsPrivate' /\ FileIsWhole'
  BY DEF LoadOpen, TypeOK, TmpIsPrivate, FileIsWhole
<1> QED
  BY <1>1, <1>2, <1>3

\* A load reads what it has opened.
LEMMA LoadReadStep ==
  ASSUME IInv, NEW r \in Readers, LoadRead(r)
  PROVE  IInv'
<1> USE DEF IInv
<1>1. TypeOK'
  BY NoneAssumption DEF LoadRead, TypeOK
<1>2. Mutex' /\ Progress' /\ Alone' /\ Overlaps'
  BY DEF LoadRead, Mutex, Progress, Alone, Overlaps, Writing
<1>3. TmpIsPrivate' /\ FileIsWhole'
  BY NoneAssumption DEF LoadRead, TypeOK, TmpIsPrivate, FileIsWhole
<1> QED
  BY <1>1, <1>2, <1>3

\* A step of something else.
LEMMA StutterStep ==
  ASSUME IInv, UNCHANGED vars
  PROVE  IInv'
BY DEF IInv, vars, TypeOK, Mutex, Progress, Alone, Overlaps, Writing, TmpIsPrivate, FileIsWhole

\* The invariant is inductive.
LEMMA NextIInv == ASSUME IInv, [Next]_vars PROVE IInv'
<1>1. ASSUME NEW w \in Writers, WriteFails(w) PROVE IInv'
  BY <1>1, ReturnStep DEF WriteFails
<1>2. ASSUME NEW ws \in Processes, Die(ws) PROVE IInv'
  BY <1>2, ReturnStep, WritersAssumption DEF Die
<1> QED
  BY <1>1, <1>2, BeginStep, OpenTmpStep, WriteTmpStep, RenameStep, LoadOpenStep, LoadReadStep,
     StutterStep DEF Next

-----------------------------------------------------------------------------
\* In every reachable state the file, and what a load has opened, is a whole document or a file
\* that the overlapping saves of a command and of somebody else had open.
THEOREM StateFileWhole == Spec => []FileIsWhole
<1>1. Init => IInv
  BY InitIInv
<1>2. IInv /\ [Next]_vars => IInv'
  BY NextIInv
<1>3. IInv => FileIsWhole
  BY DEF IInv
<1> QED
  BY <1>1, <1>2, <1>3, PTL DEF Spec

\* Every variable keeps its type.
THEOREM StateFileTypes == Spec => []TypeOK
<1>1. Init => IInv
  BY InitIInv
<1>2. IInv /\ [Next]_vars => IInv'
  BY NextIInv
<1>3. IInv => TypeOK
  BY DEF IInv
<1> QED
  BY <1>1, <1>2, <1>3, PTL DEF Spec

\* Savers that all hold stateMu never run into one another: FileIsWhole and
\* ImplementsAtomicFile have no exceptions among the goroutines of the daemon.
THEOREM StateFileLockSuffices == ASSUME Locked = Writers PROVE Spec => [](mixed = {})
<1>1. Init => IInv /\ mixed = {}
  BY InitIInv DEF Init
<1>2. ASSUME IInv, mixed = {}, [Next]_vars PROVE mixed' = {}
  <2>1. ASSUME NEW w \in Writers, NEW i \in Inodes, OpenTmp(w, i) PROVE mixed' = {}
    <3>1. Rivals(w) = {}
      BY DEF Rivals
    <3> QED
      BY <1>2, <2>1, <3>1 DEF OpenTmp, Mixes
  <2> QED
    BY <1>2, <2>1 DEF Next, vars, Begin, WriteTmp, WriteFails, Rename, Die, LoadOpen, LoadRead
<1>3. IInv /\ mixed = {} /\ [Next]_vars => (IInv /\ mixed = {})'
  BY <1>2, NextIInv
<1> QED
  BY <1>1, <1>3, PTL DEF Spec

-----------------------------------------------------------------------------
(* The refinement: Rename is Commit, LoadOpen is Load, and the rest is Begin, Abort or *)
(* a stutter.                                                                          *)

Value  == IF path = NoInode THEN NoDoc ELSE Meaning(data[path])
Loaded == [r \in Readers |-> Meaning(IF rfd[r] = NoInode THEN got[r] ELSE data[rfd[r]])]

\* Opening and writing the temporary changes nothing that the abstract file shows.
LEMMA TmpIsInvisible ==
  ASSUME IInv, NEW w \in Writers, NEW i \in Inodes, NEW blocks,
         i # path, \A r \in Readers : rfd[r] # i,
         data' = [data EXCEPT ![i] = blocks], UNCHANGED <<path, saving, rfd, got>>
  PROVE  UNCHANGED Abstract!vars
<1>1. UNCHANGED Value
  BY DEF Value, IInv, TypeOK
<1>2. UNCHANGED Loaded
  BY DEF Loaded, IInv, TypeOK
<1> QED
  BY <1>1, <1>2 DEF Value, Loaded, Abstract!vars

\* Initial states map to initial states.
LEMMA InitRefines == Init => Abstract!Init
<1> SUFFICES ASSUME Init PROVE Abstract!Init
  OBVIOUS
<1>1. PICK d \in Docs : data = [i \in Inodes |-> IF i = path THEN Image(d) ELSE <<>>]
  BY DEF Init
<1>2. Value \in Docs \cup {NoDoc}
  BY <1>1, MeaningFacts DEF Init, Value
<1>3. Loaded = [r \in Readers |-> NoDoc]
  BY MeaningFacts DEF Init, Loaded
<1> QED
  BY <1>2, <1>3 DEF Init, Abstract!Init, Value, Loaded

\* Every step maps to a step of the abstract file or to a stutter, or is one of a save that
\* ran into another.
LEMMA StepRefines ==
  ASSUME IInv, [Next]_vars
  PROVE  [Abstract!Next \/ RanIntoAnother]_(Abstract!vars)
<1> USE DEF IInv
<1>1. ASSUME NEW w \in Writers, Begin(w) PROVE Abstract!Begin(w)
  BY <1>1 DEF Begin, Abstract!Begin, Progress
<1>2. ASSUME NEW w \in Writers, NEW i \in Inodes, OpenTmp(w, i) PROVE UNCHANGED Abstract!vars
  <2>1. i # path /\ \A r \in Readers : rfd[r] # i
    BY <1>2 DEF OpenTmp, Free, TmpIsPrivate
  <2> QED
    BY <1>2, <2>1, TmpIsInvisible DEF OpenTmp
<1>3. ASSUME NEW w \in Writers, fd[w] \in mixed, pc'[w] # pc[w] PROVE RanIntoAnother
  BY <1>3 DEF RanIntoAnother
<1>4. ASSUME NEW w \in Writers, WriteTmp(w) PROVE RanIntoAnother \/ UNCHANGED Abstract!vars
  <2>1. CASE fd[w] \in mixed
    <3>1. pc'[w] # pc[w]
      BY <1>4 DEF WriteTmp, TypeOK
    <3> QED
      BY <1>3, <2>1, <3>1
  <2>2. CASE fd[w] \notin mixed
    <3>1. fd[w] \in Inodes /\ fd[w] # path /\ \A r \in Readers : rfd[r] # fd[w]
      BY <1>4, <2>2, NoneAssumption DEF WriteTmp, Writing, Progress, Alone, TmpIsPrivate
    <3> QED
      BY <1>4, <3>1, TmpIsInvisible DEF WriteTmp
  <2> QED
    BY <2>1, <2>2
<1>5. ASSUME NEW ws \in SUBSET Writers, Return(ws), UNCHANGED <<path, tmp, data, rfd, got>>
      PROVE  Abstract!Abort(ws)
  BY <1>5 DEF Return, Abstract!Abort
<1>6. ASSUME NEW w \in Writers, Rename(w) PROVE RanIntoAnother \/ Abstract!Commit(w)
  <2>1. CASE fd[w] \in mixed
    <3>1. pc'[w] # pc[w]
      BY <1>6 DEF Rename, Return, TypeOK
    <3> QED
      BY <1>3, <2>1, <3>1
  <2>2. CASE fd[w] \notin mixed
    <3>1. tmp \in Inodes /\ saving[w] \in Docs /\ data[tmp] = Image(saving[w])
      BY <1>6, <2>2 DEF Rename, TypeOK, Writing, Progress, Alone
    <3>2. path' = tmp /\ UNCHANGED <<data, rfd, got>>
      BY <1>6, <3>1, NoneAssumption DEF Rename
    <3>3. saving' = [saving EXCEPT ![w] = NoDoc]
      BY <1>6 DEF Rename, Return, TypeOK
    <3>4. Value' = saving[w]
      BY <3>1, <3>2, NoneAssumption, MeaningFacts DEF Value
    <3>5. UNCHANGED Loaded
      BY <3>2 DEF Loaded
    <3>6. saving[w] # NoDoc
      BY <3>1, NoneAssumption
    <3> QED
      BY <3>3, <3>4, <3>5, <3>6 DEF Abstract!Commit, Value, Loaded
  <2> QED
    BY <2>1, <2>2
<1>7. ASSUME NEW r \in Readers, LoadOpen(r) PROVE Abstract!Load(r)
  <2>1. Loaded' = [Loaded EXCEPT ![r] = Value]
    BY <1>7, MeaningFacts DEF LoadOpen, Loaded, Value, TypeOK
  <2> QED
    BY <1>7, <2>1 DEF LoadOpen, Abstract!Load, Value, Loaded
<1>8. ASSUME NEW r \in Readers, LoadRead(r) PROVE UNCHANGED Abstract!vars
  <2>1. UNCHANGED Loaded
    BY <1>8, NoneAssumption DEF LoadRead, Loaded, TypeOK
  <2>2. UNCHANGED Value
    BY <1>8 DEF LoadRead, Value
  <2> QED
    BY <1>8, <2>1, <2>2 DEF LoadRead, Abstract!vars, Value, Loaded
<1>9. ASSUME NEW w \in Writers, WriteFails(w) PROVE Abstract!Abort({w})
  BY <1>9, <1>5 DEF WriteFails
<1>10. ASSUME NEW ws \in Processes, Die(ws) PROVE Abstract!Abort(ws)
  BY <1>10, <1>5, WritersAssumption DEF Die
<1>11. CASE UNCHANGED vars
  BY <1>11 DEF vars, Abstract!vars
<1>12. \A w \in Writers : {w} \in SUBSET Writers
  OBVIOUS
<1> QED
  BY <1>1, <1>2, <1>4, <1>6, <1>7, <1>8, <1>9, <1>10, <1>11, <1>12, WritersAssumption
     DEF Next, Abstract!Next

\* Saves are atomic, whatever fails and whichever process dies between two system calls: the
\* file-system steps implement the abstract file, but for the steps of a save that ran into
\* another one, which takes a command of the CLI.
THEOREM StateFileRefines == Spec => ImplementsAtomicFile
<1>1. Init => IInv
  BY InitIInv
<1>2. IInv /\ [Next]_vars => IInv'
  BY NextIInv
<1>3. Init => Abstract!Init
  BY InitRefines
<1>4. IInv /\ [Next]_vars => [Abstract!Next \/ RanIntoAnother]_(Abstract!vars)
  BY StepRefines
<1> QED
  BY <1>1, <1>2, <1>3, <1>4, PTL DEF Spec, ImplementsAtomicFile
=============================================================================
