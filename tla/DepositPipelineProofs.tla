----------------------- MODULE DepositPipelineProofs -----------------------
(***************************************************************************)
(* What holds of DepositPipeline for any number of deposits, files, nodes  *)
(* and chunks, and any number of crashes, failures and deletions.          *)
(***************************************************************************)
EXTENDS DepositPipeline, TLAPS

Finished == {"HASHED", "REPLICATED", "COMPLETE_WITH_ERRORS"}

(* The files a daemon has listed, and the one it works on, are in the state *)
(* it selected them for: nobody else takes a file out of that state.        *)
CdOnUploaded ==
    /\ \A f \in cd.todo : file[f].state = "UPLOADED"
    /\ cd.step \in {"merge", "move", "tree", "replace", "hashed", "error"} =>
          file[cd.file].state = "UPLOADED" /\ cd.file \notin cd.todo
    /\ cd.step \in {"finalize", "deposit", "email"} =>
          file[cd.file].state \in {"HASHED", "REPLICATED", "ERROR"}

HdOnHashed ==
    /\ \A f \in hd.todo : file[f].state = "HASHED"
    /\ hd.step \in {"look", "upload", "node", "mark"} =>
          file[hd.file].state = "HASHED" /\ hd.file \notin hd.todo
    /\ hd.step \in {"count", "deposit"} => file[hd.file].state = "REPLICATED"

(* A file row has a deposit row (the foreign key).                          *)
RowsRegistered ==
    \A f \in Files :
        file[f].state # "absent" => deposit[DepositOf[f]].state # "absent"

OnRightFiles == CdOnUploaded /\ HdOnHashed /\ RowsRegistered

(* What process_chunked_files has done to the disk and the tree for the     *)
(* file at hand.                                                            *)
CdStores ==
    /\ cd.step = "move" => merged[cd.file] # <<>>
    /\ cd.step \in {"tree", "replace", "hashed"} =>
          cd.sum = ContentOf[cd.file] /\ shafs[cd.sum] # <<>>
    /\ cd.step = "replace" => cd.node.status = "live"
    /\ cd.step \in {"replace", "hashed"} => node[CdNode].status # "absent"

(* The copy of the node process_hashed_files holds is of an existing row.   *)
HdStores ==
    hd.step \in {"upload", "node", "mark"} => hd.node.status # "absent"

Stored == CdStores /\ HdStores /\ StoredUnderItsSum

(* Who was told has a finished deposit, and a daemon about to finish one    *)
(* has seen that its files are settled and that it was not finished before. *)
MailedIsFinished ==
    \A d \in Deposits : emails[d] > 0 => deposit[d].state \in Finished

CdFinishes ==
    /\ cd.step \notin {"sleep", "pick"} /\ emails[CdDeposit] > 0 =>
          cd.deposit.state \in Finished
    /\ cd.step \in {"deposit", "email"} =>
          Settled(CdDeposit) /\ emails[CdDeposit] = 0
    /\ cd.step = "email" => deposit[CdDeposit].state \in Finished

HdFinishes ==
    hd.step = "deposit" =>
        FilesIn(HdDeposit, {"REGISTERED", "UPLOADED", "HASHED"}) = {}

Finishes == /\ MailedIsFinished /\ CdFinishes /\ HdFinishes
            /\ FinishedIsSettled /\ OneEmail /\ ReplicatedIsDone

IInv == TypeOK /\ OnRightFiles /\ Stored /\ Finishes

-----------------------------------------------------------------------------

(* The rows and the memory of the daemons at the start are well typed.      *)
LEMMA InitialRecords ==
    /\ AnyFile \in Files
    /\ NoDeposit \in DepositRow /\ NoNode \in NodeRow /\ NoPboxFile \in PboxFile
    /\ CdIdle \in Cd /\ HdIdle \in Hd
  <1>1. AnyFile \in Files
    BY FilesAssumption DEF AnyFile
  <1>2. NoDeposit \in DepositRow /\ NoNode \in NodeRow
    BY DEF NoDeposit, DepositRow, DepositState, NoNode, NodeRow
  <1>3. NoPboxFile \in PboxFile
    <2>1. <<>> \in Seq(Chunk)
      OBVIOUS
    <2>2. QED BY <2>1 DEF NoPboxFile, PboxFile
  <1>4. 1 \in Chunk
    BY NAssumption DEF Chunk
  <1>5. CdIdle \in Cd
    BY <1>1, <1>2, <1>4 DEF CdIdle, Cd, CdStep
  <1>6. HdIdle \in Hd
    BY <1>1, <1>2 DEF HdIdle, Hd, HdStep
  <1>7. QED BY <1>1, <1>2, <1>3, <1>5, <1>6

LEMMA IdleSteps == CdIdle.step = "sleep" /\ HdIdle.step = "sleep"
  BY DEF CdIdle, HdIdle

LEMMA InitTypes == Init => TypeOK
  <1> SUFFICES ASSUME Init PROVE TypeOK
    OBVIOUS
  <1>1. <<>> \in Seq(Chunk)
    OBVIOUS
  <1>2. [state |-> "absent", sum |-> None, node |-> FALSE] \in FileRow
    BY DEF FileRow, FileState
  <1>3. 0 \in Nat /\ 0 \in 0..MaxCrashes /\ 0 \in 0..MaxFailures
                  /\ 0 \in 0..MaxDeletes
    BY BoundsAssumption
  <1>4. QED BY <1>1, <1>2, <1>3, InitialRecords DEF Init, TypeOK

(* What a step of process_chunked_files reads is well typed.                *)
LEMMA CdReads ==
    ASSUME TypeOK
    PROVE  /\ CdFile \in Files /\ CdNode \in Nodes /\ CdDeposit \in Deposits
           /\ ContentOf[CdFile] \in Contents
           /\ cd.step \in CdStep /\ cd.todo \subseteq Files /\ cd.next \in Chunk
           /\ cd.sum \in Contents \cup {None}
           /\ cd.deposit \in DepositRow /\ cd.node \in NodeRow
  BY ColumnsAssumption DEF TypeOK, Cd, CdFile, CdNode, CdDeposit

LEMMA HdReads ==
    ASSUME TypeOK
    PROVE  /\ HdFile \in Files /\ HdNode \in Nodes /\ HdDeposit \in Deposits
           /\ hd.step \in HdStep /\ hd.todo \subseteq Files
           /\ hd.deposit \in DepositRow /\ hd.node \in NodeRow
  BY ColumnsAssumption DEF TypeOK, Hd, HdFile, HdNode, HdDeposit

(* Going on to another step keeps the memory of a daemon well typed.        *)
LEMMA CdGotoType ==
    ASSUME TypeOK, NEW s \in CdStep, CdGoto(s)
    PROVE  cd' \in Cd
  <1>1. [cd EXCEPT !.step = s] \in Cd
    BY DEF TypeOK, Cd
  <1>2. QED BY <1>1 DEF CdGoto

LEMMA HdGotoType ==
    ASSUME TypeOK, NEW s \in HdStep, HdGoto(s)
    PROVE  hd' \in Hd
  <1>1. [hd EXCEPT !.step = s] \in Hd
    BY DEF TypeOK, Hd
  <1>2. QED BY <1>1 DEF HdGoto

LEMMA UserTypes == TypeOK /\ UserNext => TypeOK'
<1> SUFFICES ASSUME TypeOK, UserNext PROVE TypeOK'
  OBVIOUS
<1> USE DEF disk, faults, rows
<1>1. ASSUME NEW d \in Deposits, Register(d) PROVE TypeOK'
  <2>1. deposit' \in [Deposits -> DepositRow]
    BY <1>1 DEF Register, TypeOK, DepositRow, DepositState
  <2>2. file' \in [Files -> FileRow]
    BY <1>1 DEF Register, NewRows, TypeOK, FileRow, FileState
  <2>3. QED BY <1>1, <2>1, <2>2 DEF Register, TypeOK
<1>2. ASSUME NEW d \in Deposits, RegisterInvalid(d) PROVE TypeOK'
  <2>1. deposit' \in [Deposits -> DepositRow]
    BY <1>2 DEF RegisterInvalid, TypeOK, DepositRow, DepositState
  <2>2. QED BY <1>2, <2>1 DEF RegisterInvalid, TypeOK
<1>3. ASSUME NEW d \in Deposits, DepositCompat(d) PROVE TypeOK'
  <2>1. deposit' \in [Deposits -> DepositRow]
    BY <1>3 DEF DepositCompat, TypeOK, DepositRow, DepositState
  <2>2. file' \in [Files -> FileRow]
    BY <1>3 DEF DepositCompat, NewRows, TypeOK, FileRow, FileState
  <2>3. chunks' \in [Files -> {"none", "right", "wrong"}]
    BY <1>3 DEF DepositCompat, TypeOK
  <2>4. QED BY <1>3, <2>1, <2>2, <2>3 DEF DepositCompat, TypeOK
<1>4. ASSUME NEW f \in Files, Upload(f) PROVE TypeOK'
  <2>1. file' \in [Files -> FileRow]
    <3>1. file' = [file EXCEPT ![f].state = "UPLOADED"]
      BY <1>4 DEF Upload
    <3>2. QED BY <3>1 DEF TypeOK, FileRow, FileState
  <2>2. chunks' \in [Files -> {"none", "right", "wrong"}]
    BY <1>4 DEF Upload, TypeOK
  <2>3. QED BY <1>4, <2>1, <2>2 DEF Upload, TypeOK
<1>5. ASSUME NEW n \in Nodes, DeleteNode(n) PROVE TypeOK'
  <2>1. node' \in [Nodes -> NodeRow]
    BY <1>5 DEF DeleteNode, TypeOK, NodeRow
  <2>2. deletes' \in 0..MaxDeletes
    BY <1>5, BoundsAssumption DEF DeleteNode, TypeOK
  <2>3. QED BY <1>5, <2>1, <2>2 DEF DeleteNode, TypeOK
<1>6. QED BY <1>1, <1>2, <1>3, <1>4, <1>5 DEF UserNext

LEMMA CdTypes == TypeOK /\ CdNext => TypeOK'
<1> SUFFICES ASSUME TypeOK, CdNext PROVE TypeOK'
  OBVIOUS
<1> USE DEF disk, rows, CdKeeps
<1>1. CASE CdSweep
  <2> DEFINE todo == {f \in Files : file[f].state = "UPLOADED"}
  <2>1. [cd EXCEPT !.step = "pick", !.todo = todo] \in Cd
    BY DEF TypeOK, Cd, CdStep
  <2>2. QED BY <1>1, <2>1 DEF CdSweep, TypeOK
<1>2. CASE CdSweepEnd
  BY <1>2, InitialRecords DEF CdSweepEnd, TypeOK
<1>3. ASSUME NEW f \in Files, CdPick(f) PROVE TypeOK'
  <2>1. AfterSizes[chunks[f]] \in CdStep
    BY DEF TypeOK, AfterSizes, CdStep
  <2>2. 1 \in Chunk /\ deposit[DepositOf[f]] \in DepositRow
    BY NAssumption, ColumnsAssumption DEF TypeOK, Chunk
  <2>3. cd \in Cd /\ cd.todo \ {f} \in SUBSET Files
    BY DEF TypeOK, Cd
  <2>4. cd' \in Cd
    BY <1>3, <2>1, <2>2, <2>3 DEF CdPick, Cd
  <2>5. QED BY <1>3, <2>4 DEF CdPick, TypeOK
<1>4. CASE CdMerge
  <2>1. merged' \in [Files -> Seq(Chunk)]
    <3>1. Append(merged[CdFile], cd.next) \in Seq(Chunk)
      BY CdReads DEF TypeOK
    <3>2. QED BY <1>4, <3>1 DEF CdMerge, TypeOK
  <2>2. cd' \in Cd
    <3>1. CASE cd.next = N
      BY <1>4, <3>1 DEF CdMerge, TypeOK, Cd, CdStep
    <3>2. CASE cd.next # N
      <4>1. cd.next + 1 \in Chunk
        BY <3>2, CdReads, NAssumption DEF Chunk
      <4>2. QED BY <1>4, <3>2, <4>1 DEF CdMerge, TypeOK, Cd
    <3>3. QED BY <3>1, <3>2
  <2>3. QED BY <1>4, <2>1, <2>2 DEF CdMerge, TypeOK
<1>5. CASE CdMove
  <2>1. shafs' \in [Contents -> Seq(Chunk)]
    BY <1>5, CdReads DEF CdMove, TypeOK
  <2>2. merged' \in [Files -> Seq(Chunk)]
    <3>1. <<>> \in Seq(Chunk)
      OBVIOUS
    <3>2. QED BY <1>5, <3>1 DEF CdMove, TypeOK
  <2>3. cd' \in Cd
    BY <1>5, CdReads DEF CdMove, TypeOK, Cd, CdStep
  <2>4. QED BY <1>5, <2>1, <2>2, <2>3 DEF CdMove, TypeOK
<1>6. CASE CdTree
  <2>1. CASE node[CdNode].status = "absent" /\ CdGoto("hashed") /\
             node' = [node EXCEPT ![CdNode] =
                         [status |-> "live", sum |-> cd.sum, pbox |-> None]]
    <3>1. [status |-> "live", sum |-> cd.sum, pbox |-> None] \in NodeRow
      BY CdReads DEF NodeRow
    <3>2. node' \in [Nodes -> NodeRow]
      BY <2>1, <3>1 DEF TypeOK
    <3>3. cd' \in Cd
      BY <2>1, CdGotoType DEF CdStep
    <3>4. QED BY <1>6, <3>2, <3>3 DEF CdTree, TypeOK
  <2>2. CASE cd' = [cd EXCEPT !.step = "replace", !.node = node[CdNode]]
             /\ UNCHANGED node
    <3>1. cd' \in Cd
      BY <2>2, CdReads DEF TypeOK, Cd, CdStep
    <3>2. QED BY <1>6, <2>2, <3>1 DEF CdTree, TypeOK
  <2>3. CASE cd' = CdIdle /\ UNCHANGED node
    BY <1>6, <2>3, InitialRecords DEF CdTree, TypeOK
  <2>4. QED BY <1>6, <2>1, <2>2, <2>3 DEF CdTree
<1>7. CASE CdReplace
  <2>1. [cd.node EXCEPT !.sum = cd.sum] \in NodeRow
    BY CdReads DEF NodeRow
  <2>2. node' \in [Nodes -> NodeRow]
    BY <1>7, <2>1 DEF CdReplace, TypeOK
  <2>3. cd' \in Cd
    BY <1>7, CdGotoType DEF CdReplace, CdStep
  <2>4. QED BY <1>7, <2>2, <2>3 DEF CdReplace, TypeOK
<1>8. CASE CdSaveFile
  <2>1. /\ [state |-> "HASHED", sum |-> cd.sum, node |-> TRUE] \in FileRow
        /\ [state |-> "ERROR", sum |-> cd.sum, node |-> FALSE] \in FileRow
    BY CdReads DEF FileRow, FileState
  <2>2. file' \in [Files -> FileRow]
    BY <1>8, <2>1 DEF CdSaveFile, TypeOK
  <2>3. cd' \in Cd
    BY <1>8, CdGotoType DEF CdSaveFile, CdStep
  <2>4. QED BY <1>8, <2>2, <2>3 DEF CdSaveFile, TypeOK
<1>9. CASE CdFinalize
  <2>1. cd' \in Cd
    BY <1>9, CdGotoType DEF CdFinalize, CdStep
  <2>2. QED BY <1>9, <2>1 DEF CdFinalize, TypeOK
<1>10. CASE CdSaveDeposit
  <2>1. deposit' \in [Deposits -> DepositRow]
    BY <1>10 DEF CdSaveDeposit, TypeOK, DepositRow, DepositState
  <2>2. cd' \in Cd
    BY <1>10, CdGotoType DEF CdSaveDeposit, CdStep
  <2>3. QED BY <1>10, <2>1, <2>2 DEF CdSaveDeposit, TypeOK
<1>11. CASE CdEmail
  <2>1. emails' \in [Deposits -> Nat]
    <3>1. emails[CdDeposit] + 1 \in Nat
      BY CdReads DEF TypeOK
    <3>2. QED BY <1>11, <3>1 DEF CdEmail, TypeOK
  <2>2. cd' \in Cd
    BY <1>11, CdGotoType DEF CdEmail, CdStep
  <2>3. QED BY <1>11, <2>1, <2>2 DEF CdEmail, TypeOK
<1>12. QED BY <1>1, <1>2, <1>3, <1>4, <1>5, <1>6, <1>7, <1>8, <1>9, <1>10,
              <1>11 DEF CdNext

LEMMA HdTypes == TypeOK /\ HdOnHashed /\ Stored /\ HdNext => TypeOK'
<1> SUFFICES ASSUME TypeOK, HdOnHashed, Stored, HdNext PROVE TypeOK'
  OBVIOUS
<1> USE DEF disk, rows, HdKeeps
<1>1. CASE HdSweep
  <2> DEFINE todo == {f \in Files : file[f].state = "HASHED"}
  <2>1. [hd EXCEPT !.step = "pick", !.todo = todo] \in Hd
    BY DEF TypeOK, Hd, HdStep
  <2>2. QED BY <1>1, <2>1 DEF HdSweep, TypeOK
<1>2. CASE HdSweepEnd
  BY <1>2, InitialRecords DEF HdSweepEnd, TypeOK
<1>3. ASSUME NEW f \in Files, HdPick(f) PROVE TypeOK'
  <2>1. deposit[DepositOf[f]] \in DepositRow
    BY ColumnsAssumption DEF TypeOK
  <2>2. hd \in Hd /\ hd.todo \ {f} \in SUBSET Files
    BY DEF TypeOK, Hd
  <2>3. hd' \in Hd
    BY <1>3, <2>1, <2>2 DEF HdPick, Hd, HdStep
  <2>4. QED BY <1>3, <2>3 DEF HdPick, TypeOK
<1>4. CASE HdLook
  <2>1. hd' \in Hd
    BY <1>4, HdReads DEF HdLook, TypeOK, Hd, HdStep
  <2>2. QED BY <1>4, <2>1 DEF HdLook, TypeOK
<1>5. CASE HdUpload
  <2>1. file[HdFile].sum \in Contents
    BY <1>5, HdReads, ColumnsAssumption
    DEF HdOnHashed, HdUpload, Stored, StoredUnderItsSum, HdFile
  <2>2. [sum |-> file[HdFile].sum, chunks |-> shafs[file[HdFile].sum]]
            \in PboxFile
    BY <2>1 DEF TypeOK, PboxFile
  <2>3. pbox' \in [Files -> PboxFile]
    BY <1>5, <2>2 DEF HdUpload, TypeOK
  <2>4. hd' \in Hd
    BY <1>5, HdGotoType DEF HdUpload, HdStep
  <2>5. QED BY <1>5, <2>3, <2>4 DEF HdUpload, TypeOK
<1>6. CASE HdUploadFails
  <2>1. hd' \in Hd
    BY <1>6, HdGotoType DEF HdUploadFails, HdStep
  <2>2. QED BY <1>6, <2>1 DEF HdUploadFails, TypeOK
<1>7. CASE HdSaveNode
  <2>1. [hd.node EXCEPT !.pbox = HdFile] \in NodeRow
    BY HdReads DEF NodeRow
  <2>2. node' \in [Nodes -> NodeRow]
    BY <1>7, <2>1 DEF HdSaveNode, TypeOK
  <2>3. hd' \in Hd
    BY <1>7, <2>1, InitialRecords DEF HdSaveNode, TypeOK, Hd, HdStep
  <2>4. QED BY <1>7, <2>2, <2>3 DEF HdSaveNode, TypeOK
<1>8. CASE HdMark
  <2>1. file' \in [Files -> FileRow]
    BY <1>8 DEF HdMark, TypeOK, FileRow, FileState
  <2>2. hd' \in Hd
    BY <1>8, HdGotoType DEF HdMark, HdStep
  <2>3. QED BY <1>8, <2>1, <2>2 DEF HdMark, TypeOK
<1>9. CASE HdCount
  <2>1. hd' \in Hd
    BY <1>9, HdGotoType DEF HdCount, HdStep
  <2>2. QED BY <1>9, <2>1 DEF HdCount, TypeOK
<1>10. CASE HdSaveDeposit
  <2>1. [hd.deposit EXCEPT !.state = "REPLICATED"] \in DepositRow
    BY HdReads DEF DepositRow, DepositState
  <2>2. deposit' \in [Deposits -> DepositRow]
    BY <1>10, <2>1 DEF HdSaveDeposit, TypeOK
  <2>3. hd' \in Hd
    BY <1>10, HdGotoType DEF HdSaveDeposit, HdStep
  <2>4. QED BY <1>10, <2>2, <2>3 DEF HdSaveDeposit, TypeOK
<1>11. QED BY <1>1, <1>2, <1>3, <1>4, <1>5, <1>6, <1>7, <1>8, <1>9, <1>10
           DEF HdNext

LEMMA FaultTypes == TypeOK /\ Fault => TypeOK'
<1> SUFFICES ASSUME TypeOK, Fault PROVE TypeOK'
  OBVIOUS
<1> USE DEF disk, rows, CdKeeps, HdKeeps
<1>1. CASE CdReadError
  <2>1. cd' \in Cd
    BY <1>1, CdGotoType DEF CdReadError, CdStep
  <2>2. failures' \in 0..MaxFailures
    BY <1>1, BoundsAssumption DEF CdReadError, TypeOK
  <2>3. QED BY <1>1, <2>1, <2>2 DEF CdReadError, TypeOK
<1>2. CASE CdMoveError
  <2>1. cd' \in Cd
    BY <1>2, CdReads DEF CdMoveError, TypeOK, Cd, CdStep
  <2>2. failures' \in 0..MaxFailures
    BY <1>2, BoundsAssumption DEF CdMoveError, TypeOK
  <2>3. QED BY <1>2, <2>1, <2>2 DEF CdMoveError, TypeOK
<1>3. CASE CdCrash
  <2>1. crashes' \in 0..MaxCrashes
    BY <1>3, BoundsAssumption DEF CdCrash, TypeOK
  <2>2. QED BY <1>3, <2>1, InitialRecords DEF CdCrash, TypeOK
<1>4. CASE HdCrash
  <2>1. crashes' \in 0..MaxCrashes
    BY <1>4, BoundsAssumption DEF HdCrash, TypeOK
  <2>2. QED BY <1>4, <2>1, InitialRecords DEF HdCrash, TypeOK
<1>5. QED BY <1>1, <1>2, <1>3, <1>4 DEF Fault

(* Every step keeps the types.                                              *)
LEMMA TypeStep == IInv /\ [Next]_vars => TypeOK'
  <1> SUFFICES ASSUME IInv, [Next]_vars PROVE TypeOK'
    OBVIOUS
  <1>1. CASE UNCHANGED vars
    BY <1>1 DEF IInv, TypeOK, vars
  <1>2. QED BY <1>1, UserTypes, CdTypes, HdTypes, FaultTypes
            DEF IInv, OnRightFiles, Next

-----------------------------------------------------------------------------
(* What each step does to the states of files, by whom.                     *)

Registers(f) == /\ file[f].state = "absent"
                /\ deposit[DepositOf[f]].state = "absent"
                /\ deposit'[DepositOf[f]].state # "absent"
                /\ file'[f].state \in {"REGISTERED", "UPLOADED"}
Uploads(f) == file[f].state = "REGISTERED" /\ file'[f].state = "UPLOADED"
Hashes(f) == /\ f = cd.file /\ cd.step \in {"hashed", "error"}
             /\ cd'.step = "finalize"
             /\ file[f].state = "UPLOADED" /\ file'[f].state \in {"HASHED", "ERROR"}
Replicates(f) == /\ f = hd.file /\ hd.step = "mark" /\ hd'.step = "count"
                 /\ file[f].state = "HASHED" /\ file'[f].state = "REPLICATED"

FileStep(f) == \/ file'[f].state = file[f].state
               \/ Registers(f) \/ Uploads(f) \/ Hashes(f) \/ Replicates(f)

LEMMA FileSteps ==
    ASSUME IInv, [Next]_vars, NEW f \in Files
    PROVE  FileStep(f)
<1> USE DEF FileStep, rows
<1>1. CASE UserNext
  <2>1. ASSUME NEW d \in Deposits, Register(d) PROVE FileStep(f)
    BY <2>1 DEF IInv, OnRightFiles, RowsRegistered, Register, NewRows, FilesOf,
                TypeOK, Registers
  <2>2. ASSUME NEW d \in Deposits, RegisterInvalid(d) PROVE FileStep(f)
    BY <2>2 DEF RegisterInvalid
  <2>3. ASSUME NEW d \in Deposits, DepositCompat(d) PROVE FileStep(f)
    BY <2>3 DEF IInv, OnRightFiles, RowsRegistered, DepositCompat, NewRows,
                FilesOf, TypeOK, Registers
  <2>4. ASSUME NEW g \in Files, Upload(g) PROVE FileStep(f)
    <3>1. file' = [file EXCEPT ![g].state = "UPLOADED"]
          /\ file[g].state = "REGISTERED"
      BY <2>4 DEF Upload
    <3>2. QED BY <3>1 DEF IInv, TypeOK, Uploads, FileRow
  <2>5. ASSUME NEW n \in Nodes, DeleteNode(n) PROVE FileStep(f)
    BY <2>5 DEF DeleteNode
  <2>6. QED BY <1>1, <2>1, <2>2, <2>3, <2>4, <2>5 DEF UserNext
<1>2. CASE CdSaveFile
  BY <1>2 DEF IInv, OnRightFiles, CdOnUploaded, CdSaveFile, CdFile, CdGoto,
              TypeOK, Cd, Hashes
<1>3. CASE CdNext /\ ~CdSaveFile
  BY <1>3 DEF CdNext, CdSweep, CdSweepEnd, CdPick, CdMerge, CdMove, CdTree,
              CdReplace, CdFinalize, CdSaveDeposit, CdEmail
<1>4. CASE HdMark
  BY <1>4 DEF IInv, OnRightFiles, HdOnHashed, HdMark, HdFile, HdGoto, TypeOK,
              FileRow, Hd, Replicates
<1>5. CASE HdNext /\ ~HdMark
  BY <1>5 DEF HdNext, HdSweep, HdSweepEnd, HdPick, HdLook, HdUpload,
              HdUploadFails, HdSaveNode, HdCount, HdSaveDeposit
<1>6. CASE Fault
  BY <1>6 DEF Fault, CdReadError, CdMoveError, CdCrash, HdCrash
<1>7. CASE UNCHANGED vars
  BY <1>7 DEF vars
<1>8. QED BY <1>1, <1>2, <1>3, <1>4, <1>5, <1>6, <1>7 DEF Next

(* What each step does to a deposit row.                                    *)
DepositStep(d) ==
    \/ deposit'[d] = deposit[d]
    \/ /\ deposit[d].state = "absent"
       /\ deposit'[d].state \in {"REGISTERED", "UPLOADED"}
    \/ /\ cd.step = "deposit" /\ d = CdDeposit
       /\ deposit'[d].state \in {"HASHED", "COMPLETE_WITH_ERRORS"}
    \/ /\ hd.step = "deposit" /\ d = HdDeposit
       /\ deposit'[d].state = "REPLICATED"

LEMMA DepositSteps ==
    ASSUME IInv, [Next]_vars, NEW d \in Deposits
    PROVE  DepositStep(d)
<1> USE DEF rows, IInv, TypeOK, DepositStep
<1>1. CASE UserNext
  BY <1>1 DEF UserNext, Register, RegisterInvalid, DepositCompat, Upload,
              DeleteNode, DepositRow
<1>2. CASE CdSaveDeposit
  BY <1>2 DEF CdSaveDeposit
<1>3. CASE CdNext /\ ~CdSaveDeposit
  BY <1>3 DEF CdNext, CdSweep, CdSweepEnd, CdPick, CdMerge, CdMove, CdTree,
              CdReplace, CdFinalize, CdSaveFile, CdEmail
<1>4. CASE HdSaveDeposit
  <2>1. [hd.deposit EXCEPT !.state = "REPLICATED"].state = "REPLICATED"
    BY HdReads DEF DepositRow
  <2>2. QED BY <1>4, <2>1 DEF HdSaveDeposit
<1>5. CASE HdNext /\ ~HdSaveDeposit
  BY <1>5 DEF HdNext, HdSweep, HdSweepEnd, HdPick, HdLook, HdUpload,
              HdUploadFails, HdSaveNode, HdCount, HdMark
<1>6. CASE Fault
  BY <1>6 DEF Fault, CdReadError, CdMoveError, CdCrash, HdCrash
<1>7. CASE UNCHANGED vars
  BY <1>7 DEF vars
<1>8. QED BY <1>1, <1>2, <1>3, <1>4, <1>5, <1>6, <1>7 DEF Next

(* A deposit row never disappears, a finished one remains finished.         *)
LEMMA DepositsStay ==
    ASSUME IInv, [Next]_vars, NEW d \in Deposits
    PROVE  /\ deposit[d].state # "absent" => deposit'[d].state # "absent"
           /\ deposit[d].state \in Finished => deposit'[d].state \in Finished
  BY DepositSteps DEF DepositStep, Finished

(* How the memory of process_chunked_files changes.                         *)
LEMMA CdMemory ==
    ASSUME IInv, [Next]_vars
    PROVE  \/ cd' = cd
           \/ cd' = CdIdle
           \/ /\ cd.step = "sleep" /\ cd'.step = "pick" /\ UNCHANGED file
              /\ cd'.todo = {f \in Files : file[f].state = "UPLOADED"}
           \/ /\ cd.step = "pick" /\ cd'.file \in cd.todo /\ UNCHANGED file
              /\ cd'.todo = cd.todo \ {cd'.file}
              /\ cd'.step \in {"pick", "merge", "error"}
           \/ /\ cd'.todo = cd.todo /\ cd'.file = cd.file
              /\ \/ /\ cd.step \in {"merge", "move", "tree", "replace"}
                    /\ cd'.step \in {"merge", "move", "tree", "replace",
                                     "hashed", "error", "pick"}
                    /\ UNCHANGED file
                 \/ /\ cd.step \in {"hashed", "error"} /\ cd'.step = "finalize"
                    /\ file'[cd.file].state \in {"HASHED", "ERROR"}
                 \/ /\ cd.step \in {"finalize", "deposit", "email"}
                    /\ cd'.step \in {"deposit", "email", "pick"}
                    /\ UNCHANGED file
<1> USE DEF rows, IInv, TypeOK, Cd
<1>1. CASE UserNext \/ HdNext \/ HdCrash \/ UNCHANGED vars
  BY <1>1 DEF UserNext, Register, RegisterInvalid, DepositCompat, Upload,
              DeleteNode, HdNext, HdSweep, HdSweepEnd, HdPick, HdLook, HdUpload,
              HdUploadFails, HdSaveNode, HdMark, HdCount, HdSaveDeposit, HdCrash,
              HdKeeps, vars
<1>2. CASE CdSweep \/ CdSweepEnd \/ CdCrash
  BY <1>2 DEF CdSweep, CdSweepEnd, CdCrash
<1>3. ASSUME NEW f \in Files, CdPick(f)
      PROVE  /\ cd.step = "pick" /\ cd'.file \in cd.todo /\ UNCHANGED file
             /\ cd'.todo = cd.todo \ {cd'.file}
             /\ cd'.step \in {"pick", "merge", "error"}
  <2>1. AfterSizes[chunks[f]] \in {"pick", "merge", "error"}
    BY DEF AfterSizes
  <2>2. QED BY <1>3, <2>1 DEF CdPick
<1>4. CASE CdMerge \/ CdMove \/ CdTree \/ CdReplace \/ CdReadError \/ CdMoveError
  BY <1>4 DEF CdMerge, CdMove, CdTree, CdReplace, CdReadError, CdMoveError,
              CdGoto, CdStep
<1>5. CASE CdSaveFile
  BY <1>5, CdReads DEF CdSaveFile, CdGoto, CdFile
<1>6. CASE CdFinalize \/ CdSaveDeposit \/ CdEmail
  BY <1>6 DEF CdFinalize, CdSaveDeposit, CdEmail, CdGoto
<1>7. QED BY <1>1, <1>2, <1>3, <1>4, <1>5, <1>6 DEF Next, CdNext, Fault

LEMMA HdMemory ==
    ASSUME IInv, [Next]_vars
    PROVE  \/ hd' = hd
           \/ hd' = HdIdle
           \/ /\ hd.step = "sleep" /\ hd'.step = "pick" /\ UNCHANGED file
              /\ hd'.todo = {f \in Files : file[f].state = "HASHED"}
           \/ /\ hd.step = "pick" /\ hd'.file \in hd.todo /\ UNCHANGED file
              /\ hd'.todo = hd.todo \ {hd'.file}
              /\ hd'.step \in {"pick", "look"}
           \/ /\ hd'.todo = hd.todo /\ hd'.file = hd.file
              /\ \/ /\ hd.step \in {"look", "upload", "node"}
                    /\ hd'.step \in {"upload", "node", "mark", "pick"}
                    /\ UNCHANGED file
                 \/ /\ hd.step = "mark" /\ hd'.step = "count"
                    /\ file'[hd.file].state = "REPLICATED"
                 \/ /\ hd.step \in {"count", "deposit"}
                    /\ hd'.step \in {"deposit", "pick"}
                    /\ UNCHANGED file
<1> USE DEF rows, IInv, TypeOK, Hd
<1>1. CASE UserNext \/ CdNext \/ CdReadError \/ CdMoveError \/ CdCrash
           \/ UNCHANGED vars
  BY <1>1 DEF UserNext, Register, RegisterInvalid, DepositCompat, Upload,
              DeleteNode, CdNext, CdSweep, CdSweepEnd, CdPick, CdMerge, CdMove,
              CdTree, CdReplace, CdSaveFile, CdFinalize, CdSaveDeposit, CdEmail,
              CdReadError, CdMoveError, CdCrash, CdKeeps, vars
<1>2. CASE HdSweep \/ HdSweepEnd \/ HdCrash
  BY <1>2 DEF HdSweep, HdSweepEnd, HdCrash
<1>3. ASSUME NEW f \in Files, HdPick(f)
      PROVE  /\ hd.step = "pick" /\ hd'.file \in hd.todo /\ UNCHANGED file
             /\ hd'.todo = hd.todo \ {hd'.file}
             /\ hd'.step \in {"pick", "look"}
  BY <1>3 DEF HdPick
<1>4. CASE HdLook \/ HdUpload \/ HdUploadFails
  <2>1. CASE HdLook
    <3>1. /\ hd'.step \in {"upload", "mark"} /\ hd'.todo = hd.todo
          /\ hd'.file = hd.file
      BY <2>1 DEF HdLook
    <3>2. QED BY <2>1, <3>1 DEF HdLook
  <2>2. CASE HdUpload
    BY <2>2 DEF HdUpload, HdGoto
  <2>3. CASE HdUploadFails
    BY <2>3 DEF HdUploadFails, HdGoto
  <2>4. QED BY <1>4, <2>1, <2>2, <2>3
<1>5. CASE HdSaveNode
  <2>1. CASE hd' = HdIdle
    BY <2>1
  <2>2. CASE hd' = [hd EXCEPT !.step = "mark", !.node.pbox = HdFile]
    <3>1. /\ hd'.step = "mark" /\ hd'.todo = hd.todo /\ hd'.file = hd.file
      BY <2>2
    <3>2. QED BY <1>5, <3>1 DEF HdSaveNode
  <2>3. QED BY <1>5, <2>1, <2>2 DEF HdSaveNode
<1>6. CASE HdMark
  BY <1>6, HdReads DEF HdMark, HdGoto, HdFile, FileRow
<1>7. CASE HdCount \/ HdSaveDeposit
  BY <1>7 DEF HdCount, HdSaveDeposit, HdGoto
<1>8. QED BY <1>1, <1>2, <1>3, <1>4, <1>5, <1>6, <1>7 DEF Next, HdNext, Fault

(* The daemons stay on files in the state they look for.                    *)
LEMMA OnRightFilesStep == IInv /\ [Next]_vars => OnRightFiles'
<1> SUFFICES ASSUME IInv, [Next]_vars PROVE OnRightFiles'
  OBVIOUS
<1>1. CdOnUploaded'
  <2>1. cd.todo \subseteq Files /\ cd.file \in Files /\ CdOnUploaded
    BY DEF IInv, TypeOK, Cd, OnRightFiles
  <2>2. CASE cd' = cd
    BY <2>1, <2>2, FileSteps DEF CdOnUploaded, FileStep, Registers, Uploads,
       Hashes, Replicates
  <2>3. CASE cd' = CdIdle
    BY <2>3 DEF CdOnUploaded, CdIdle
  <2>4. CASE UNCHANGED file
    BY <2>1, <2>4, CdMemory DEF CdOnUploaded, CdIdle
  <2>5. CASE /\ cd'.todo = cd.todo /\ cd'.file = cd.file
             /\ cd.step \in {"hashed", "error"} /\ cd'.step = "finalize"
             /\ file'[cd.file].state \in {"HASHED", "ERROR"}
    BY <2>1, <2>5, FileSteps DEF CdOnUploaded, FileStep, Registers, Uploads,
       Hashes, Replicates
  <2>6. QED BY <2>2, <2>3, <2>4, <2>5, CdMemory
<1>2. HdOnHashed'
  <2>1. hd.todo \subseteq Files /\ hd.file \in Files /\ HdOnHashed
    BY DEF IInv, TypeOK, Hd, OnRightFiles
  <2>2. CASE hd' = hd
    BY <2>1, <2>2, FileSteps DEF HdOnHashed, FileStep, Registers, Uploads,
       Hashes, Replicates
  <2>3. CASE hd' = HdIdle
    BY <2>3 DEF HdOnHashed, HdIdle
  <2>4. CASE UNCHANGED file
    BY <2>1, <2>4, HdMemory DEF HdOnHashed, HdIdle
  <2>5. CASE /\ hd'.todo = hd.todo /\ hd'.file = hd.file
             /\ hd.step = "mark" /\ hd'.step = "count"
             /\ file'[hd.file].state = "REPLICATED"
    BY <2>1, <2>5, FileSteps DEF HdOnHashed, FileStep, Registers, Uploads,
       Hashes, Replicates
  <2>6. QED BY <2>2, <2>3, <2>4, <2>5, HdMemory
<1>3. RowsRegistered'
  <2> SUFFICES ASSUME NEW f \in Files, file'[f].state # "absent"
               PROVE  deposit'[DepositOf[f]].state # "absent"
    BY DEF RowsRegistered
  <2>1. DepositOf[f] \in Deposits
    BY ColumnsAssumption
  <2>2. CASE file[f].state # "absent"
    BY <2>1, <2>2, DepositsStay DEF IInv, OnRightFiles, RowsRegistered
  <2>3. CASE file[f].state = "absent"
    BY <2>3, FileSteps DEF FileStep, Registers, Uploads, Hashes, Replicates
  <2>4. QED BY <2>2, <2>3
<1>4. QED BY <1>1, <1>2, <1>3 DEF OnRightFiles

-----------------------------------------------------------------------------
(* Content and tree.                                                        *)

(* Nothing is ever taken out of shafs, and no row of the tree disappears.   *)
LEMMA StoresStay ==
    ASSUME IInv, [Next]_vars
    PROVE  /\ \A c \in Contents : shafs[c] # <<>> => shafs'[c] # <<>>
           /\ \A n \in Nodes : node[n].status # "absent" =>
                               node'[n].status # "absent"
<1> USE DEF rows, disk
<1>1. \A c \in Contents : shafs[c] # <<>> => shafs'[c] # <<>>
  <2>1. CASE CdMove
    <3>1. merged[CdFile] # <<>>
      BY <2>1 DEF IInv, Stored, CdStores, CdMove, CdFile
    <3>2. QED BY <2>1, <3>1 DEF IInv, TypeOK, CdMove
  <2>2. CASE ~CdMove
    BY <2>2 DEF Next, UserNext, Register, RegisterInvalid, DepositCompat, Upload,
              DeleteNode, CdNext, CdSweep, CdSweepEnd, CdPick, CdMerge,
              CdTree, CdReplace, CdSaveFile, CdFinalize, CdSaveDeposit, CdEmail,
              Fault, CdReadError, CdMoveError, CdCrash, HdNext, HdSweep,
              HdSweepEnd, HdPick, HdLook, HdUpload, HdUploadFails, HdSaveNode,
              HdMark, HdCount, HdSaveDeposit, HdCrash, HdKeeps, vars
  <2>3. QED BY <2>1, <2>2
<1>2. \A n \in Nodes : node[n].status # "absent" => node'[n].status # "absent"
  <2>1. CASE CdTree
    BY <2>1 DEF IInv, TypeOK, CdTree
  <2>2. CASE CdReplace
    <3>1. [cd.node EXCEPT !.sum = cd.sum].status = "live"
      BY <2>2, CdReads DEF IInv, Stored, CdStores, CdReplace, NodeRow
    <3>2. QED BY <2>2, <3>1 DEF IInv, TypeOK, CdReplace
  <2>3. CASE HdSaveNode
    <3>1. [hd.node EXCEPT !.pbox = HdFile].status # "absent"
      BY <2>3, HdReads DEF IInv, Stored, HdStores, HdSaveNode, NodeRow
    <3>2. QED BY <2>3, <3>1 DEF IInv, TypeOK, HdSaveNode
  <2>4. ASSUME NEW m \in Nodes, DeleteNode(m)
        PROVE  \A n \in Nodes : node[n].status # "absent" =>
                                node'[n].status # "absent"
    BY <2>4 DEF IInv, TypeOK, DeleteNode, NodeRow
  <2>5. CASE UNCHANGED node
    BY <2>5
  <2>6. QED
    BY <2>1, <2>2, <2>3, <2>4, <2>5
    DEF Next, UserNext, Register, RegisterInvalid, DepositCompat, Upload,
              CdNext, CdSweep, CdSweepEnd, CdPick, CdMerge, CdMove,
              CdSaveFile, CdFinalize, CdSaveDeposit, CdEmail,
              Fault, CdReadError, CdMoveError, CdCrash, HdNext, HdSweep,
              HdSweepEnd, HdPick, HdLook, HdUpload, HdUploadFails,
              HdMark, HdCount, HdSaveDeposit, HdCrash, vars
<1>3. QED BY <1>1, <1>2

LEMMA CdStoresStep == IInv /\ [Next]_vars => CdStores'
<1> SUFFICES ASSUME IInv, [Next]_vars PROVE CdStores'
  OBVIOUS
<1> USE DEF rows, disk
<1>1. TypeOK /\ CdStores /\ CdFile \in Files /\ CdNode \in Nodes
      /\ ContentOf[CdFile] \in Contents
  BY CdReads DEF IInv, Stored
<1>2. CASE cd' = cd
  <2>1. UNCHANGED merged \/ cd.step # "move"
    BY <1>1, <1>2 DEF TypeOK, Cd, Next, UserNext, Register, RegisterInvalid, DepositCompat, Upload,
              DeleteNode, CdNext, CdSweep, CdSweepEnd, CdPick, CdMerge, CdMove,
              CdTree, CdReplace, CdSaveFile, CdFinalize, CdSaveDeposit, CdEmail,
              Fault, CdReadError, CdMoveError, CdCrash, HdNext, HdSweep,
              HdSweepEnd, HdPick, HdLook, HdUpload, HdUploadFails, HdSaveNode,
              HdMark, HdCount, HdSaveDeposit, HdCrash, HdKeeps, vars
  <2>2. QED BY <1>1, <1>2, <2>1, StoresStay DEF CdStores, CdNode, CdFile
<1>3. CASE CdMerge
  <2>1. Append(merged[CdFile], cd.next) # <<>>
    <3>1. merged[CdFile] \in Seq(Chunk) /\ cd.next \in Chunk
      BY <1>1, CdReads DEF TypeOK
    <3>2. Len(Append(merged[CdFile], cd.next)) = Len(merged[CdFile]) + 1
          /\ Len(merged[CdFile]) \in Nat
      BY <3>1
    <3>3. QED BY <3>2
  <2>2. merged'[CdFile] # <<>>
    BY <1>1, <1>3, <2>1 DEF CdMerge, TypeOK
  <2>3. cd'.file = cd.file /\ cd'.step \in {"merge", "move"}
    BY <1>1, <1>3 DEF CdMerge, TypeOK, Cd
  <2>4. QED BY <2>2, <2>3 DEF CdStores, CdFile
<1>4. CASE CdMove
  <2>1. merged[CdFile] # <<>>
    BY <1>1, <1>4 DEF CdStores, CdMove, CdFile
  <2>2. shafs'[ContentOf[CdFile]] # <<>>
    BY <1>1, <1>4, <2>1 DEF CdMove, TypeOK
  <2>3. /\ cd'.file = cd.file /\ cd'.step = "tree"
        /\ cd'.sum = ContentOf[CdFile]
    BY <1>1, <1>4 DEF CdMove, TypeOK, Cd
  <2>4. QED BY <2>2, <2>3 DEF CdStores, CdFile
<1>5. CASE CdTree
  <2>1. UNCHANGED <<merged, shafs>>
    BY <1>5 DEF CdTree
  <2>2. CASE node[CdNode].status = "absent"
    <3>1. cd'.step = "hashed" /\ cd'.file = cd.file /\ cd'.sum = cd.sum
          /\ node'[CdNode].status = "live"
      BY <1>1, <1>5, <2>2 DEF CdTree, CdGoto, TypeOK, Cd
    <3>2. QED BY <1>1, <1>5, <2>1, <3>1 DEF CdStores, CdNode, CdTree
  <2>3. CASE node[CdNode].status = "live"
    <3>1. cd'.step = "replace" /\ cd'.file = cd.file /\ cd'.sum = cd.sum
          /\ cd'.node = node[CdNode] /\ UNCHANGED node
      BY <1>1, <1>5, <2>3 DEF CdTree, TypeOK, Cd
    <3>2. QED BY <1>1, <1>5, <2>1, <2>3, <3>1 DEF CdStores, CdNode, CdTree
  <2>4. CASE cd' = CdIdle
    BY <2>4 DEF CdStores, CdIdle
  <2>5. QED BY <1>5, <2>2, <2>3, <2>4 DEF CdTree
<1>6. CASE CdReplace
  <2>1. cd.step = "replace" /\ cd'.step = "hashed" /\ cd'.file = cd.file
        /\ cd'.sum = cd.sum /\ UNCHANGED shafs
    BY <1>1, <1>6 DEF CdReplace, CdGoto, TypeOK, Cd
  <2>2. QED BY <1>1, <2>1, StoresStay DEF CdStores, CdNode
<1>7. CASE cd'.step \notin {"move", "tree", "replace", "hashed"}
  BY <1>7 DEF CdStores
<1>8. QED
  <2>1. ASSUME NEW f \in Files, CdPick(f)
        PROVE  cd'.step \notin {"move", "tree", "replace", "hashed"}
    BY <2>1, CdReads, <1>1 DEF CdPick, AfterSizes, TypeOK
  <2>2. CASE CdSweep \/ CdSweepEnd \/ CdSaveFile \/ CdFinalize \/ CdSaveDeposit
             \/ CdEmail \/ CdReadError \/ CdMoveError \/ CdCrash
    <3>1. cd'.step \notin {"move", "tree", "replace", "hashed"}
      <4>1. CASE CdSweep \/ CdSweepEnd \/ CdCrash
        <5>1. CASE CdSweep
          BY <1>1, <5>1 DEF CdSweep, TypeOK, Cd
        <5>2. CASE CdSweepEnd \/ CdCrash
          BY <5>2, IdleSteps DEF CdSweepEnd, CdCrash
        <5>3. QED BY <4>1, <5>1, <5>2
      <4>2. CASE CdReadError \/ CdMoveError
        BY <1>1, <4>2 DEF CdReadError, CdMoveError, CdGoto, TypeOK, Cd
      <4>3. CASE CdSaveFile
        BY <1>1, <4>3 DEF CdSaveFile, CdGoto, TypeOK, Cd
      <4>4. CASE CdFinalize \/ CdSaveDeposit \/ CdEmail
        BY <1>1, <4>4 DEF CdFinalize, CdSaveDeposit, CdEmail, CdGoto, TypeOK, Cd
      <4>5. QED BY <2>2, <4>1, <4>2, <4>3, <4>4
    <3>2. QED BY <1>7, <3>1
  <2>3. CASE UserNext \/ HdNext \/ HdCrash \/ UNCHANGED vars
    BY <1>2, <2>3
    DEF UserNext, Register, RegisterInvalid, DepositCompat, Upload, DeleteNode,
        HdNext, HdSweep, HdSweepEnd, HdPick, HdLook, HdUpload, HdUploadFails,
        HdSaveNode, HdMark, HdCount, HdSaveDeposit, HdCrash, HdKeeps, vars
  <2>4. QED BY <1>3, <1>4, <1>5, <1>6, <1>7, <2>1, <2>2, <2>3
            DEF Next, CdNext, Fault

LEMMA HdStoresStep == IInv /\ [Next]_vars => HdStores'
<1> SUFFICES ASSUME IInv, [Next]_vars PROVE HdStores'
  OBVIOUS
<1>1. TypeOK /\ HdStores /\ HdOnHashed /\ StoredUnderItsSum /\ HdFile \in Files
  BY HdReads DEF IInv, Stored, OnRightFiles
<1>2. CASE hd' = hd
  BY <1>1, <1>2 DEF HdStores
<1>3. CASE hd' = HdIdle
  BY <1>3 DEF HdStores, HdIdle
<1>4. CASE HdLook
  <2>1. node[HdNode].status # "absent"
    BY <1>1, <1>4 DEF HdLook, HdOnHashed, StoredUnderItsSum, HdNode, HdFile
  <2>2. hd'.node = node[HdNode]
    BY <1>1, <1>4 DEF HdLook, TypeOK, Hd
  <2>3. QED BY <2>1, <2>2 DEF HdStores
<1>5. CASE HdUpload
  BY <1>1, <1>5 DEF HdUpload, HdGoto, HdStores, TypeOK, Hd
<1>6. CASE hd' = [hd EXCEPT !.step = "mark", !.node.pbox = HdFile] /\ HdSaveNode
  <2>1. hd.node.status # "absent"
    BY <1>1, <1>6 DEF HdStores, HdSaveNode
  <2>2. hd'.node.status = hd.node.status
    BY <1>1, <1>6 DEF TypeOK, Hd, NodeRow
  <2>3. QED BY <2>1, <2>2 DEF HdStores
<1>7. CASE hd'.step \notin {"upload", "node", "mark"}
  BY <1>7 DEF HdStores
<1>8. QED
  <2>1. ASSUME NEW f \in Files, HdPick(f)
        PROVE  hd'.step \notin {"upload", "node", "mark"}
    BY <2>1, <1>1 DEF HdPick, TypeOK, Hd
  <2>2. CASE HdSweep \/ HdUploadFails \/ HdMark \/ HdCount \/ HdSaveDeposit
    BY <1>1, <1>7, <2>2 DEF HdSweep, HdUploadFails, HdMark, HdCount,
       HdSaveDeposit, HdGoto, TypeOK, Hd
  <2>3. CASE UserNext \/ CdNext \/ CdReadError \/ CdMoveError \/ CdCrash
             \/ UNCHANGED vars
    BY <1>2, <2>3
    DEF UserNext, Register, RegisterInvalid, DepositCompat, Upload, DeleteNode,
        CdNext, CdSweep, CdSweepEnd, CdPick, CdMerge, CdMove, CdTree, CdReplace,
        CdSaveFile, CdFinalize, CdSaveDeposit, CdEmail, CdReadError,
        CdMoveError, CdCrash, CdKeeps, vars
  <2>4. QED BY <1>3, <1>4, <1>5, <1>6, <1>7, <2>1, <2>2, <2>3
            DEF Next, HdNext, Fault, HdSweepEnd, HdSaveNode, HdCrash

(* Which rows a step can make HASHED or REPLICATED, or change while they    *)
(* are.                                                                     *)
LEMMA StoredRows ==
    ASSUME IInv, [Next]_vars, NEW f \in Files,
           file'[f].state \in {"HASHED", "REPLICATED"}
    PROVE  \/ /\ file[f].state \in {"HASHED", "REPLICATED"}
              /\ file'[f].sum = file[f].sum /\ file'[f].node = file[f].node
           \/ /\ cd.step = "hashed" /\ f = cd.file
              /\ file'[f].sum = cd.sum /\ file'[f].node = TRUE
<1> USE DEF rows, IInv, TypeOK
<1>1. CASE UserNext
  <2>1. ASSUME NEW g \in Files, Upload(g) PROVE file' = [file EXCEPT ![g].state = "UPLOADED"]
    BY <2>1 DEF Upload
  <2>2. QED BY <1>1, <2>1 DEF UserNext, Register, RegisterInvalid, DepositCompat,
                   NewRows, DeleteNode, FileRow
<1>2. CASE CdSaveFile
  BY <1>2 DEF CdSaveFile, CdFile
<1>3. CASE HdMark
  BY <1>3 DEF HdMark, HdFile, FileRow, OnRightFiles, HdOnHashed
<1>4. CASE UNCHANGED file
  BY <1>4
<1>5. QED
  BY <1>1, <1>2, <1>3, <1>4
  DEF Next, CdNext, CdSweep, CdSweepEnd, CdPick, CdMerge, CdMove, CdTree,
      CdReplace, CdFinalize, CdSaveDeposit, CdEmail, Fault, CdReadError,
      CdMoveError, CdCrash, HdNext, HdSweep, HdSweepEnd, HdPick, HdLook,
      HdUpload, HdUploadFails, HdSaveNode, HdCount, HdSaveDeposit, HdCrash, vars

LEMMA StoredStep == IInv /\ [Next]_vars => Stored'
<1> SUFFICES ASSUME IInv, [Next]_vars PROVE Stored'
  OBVIOUS
<1>1. StoredUnderItsSum'
  <2> SUFFICES ASSUME NEW f \in Files,
                      file'[f].state \in {"HASHED", "REPLICATED"}
               PROVE  /\ file'[f].sum = ContentOf[f]
                      /\ shafs'[file'[f].sum] # <<>>
                      /\ file'[f].node /\ node'[NodeOf[f]].status # "absent"
    BY DEF StoredUnderItsSum
  <2>1. ContentOf[f] \in Contents /\ NodeOf[f] \in Nodes
    BY ColumnsAssumption
  <2>2. CASE /\ file[f].state \in {"HASHED", "REPLICATED"}
             /\ file'[f].sum = file[f].sum /\ file'[f].node = file[f].node
    BY <2>1, <2>2, StoresStay DEF IInv, Stored, StoredUnderItsSum
  <2>3. CASE /\ cd.step = "hashed" /\ f = cd.file
             /\ file'[f].sum = cd.sum /\ file'[f].node = TRUE
    BY <2>1, <2>3, StoresStay DEF IInv, Stored, CdStores, CdNode
  <2>4. QED BY <2>2, <2>3, StoredRows
<1>2. QED BY <1>1, CdStoresStep, HdStoresStep DEF Stored

-----------------------------------------------------------------------------
(* Finishing deposits.                                                      *)

(* Files that are settled, or done, remain so once their deposit exists.    *)
LEMMA SettledStays ==
    ASSUME IInv, [Next]_vars, NEW d \in Deposits, deposit[d].state # "absent"
    PROVE  /\ Settled(d) => Settled(d)'
           /\ FilesIn(d, {"REGISTERED", "UPLOADED", "HASHED"}) = {} =>
              FilesIn(d, {"REGISTERED", "UPLOADED", "HASHED"})' = {}
  BY FileSteps DEF Settled, FilesIn, FilesOf, FileStep, Registers, Uploads,
     Hashes, Replicates

(* The deposits the daemons are about to finish exist.                      *)
LEMMA DepositsAtHand ==
    ASSUME IInv
    PROVE  /\ CdDeposit \in Deposits /\ HdDeposit \in Deposits
           /\ cd.step \in {"finalize", "deposit", "email"} =>
                 deposit[CdDeposit].state # "absent"
           /\ hd.step \in {"count", "deposit"} =>
                 deposit[HdDeposit].state # "absent"
  BY CdReads, HdReads
  DEF IInv, OnRightFiles, CdOnUploaded, HdOnHashed, RowsRegistered, CdFile,
      HdFile, CdDeposit, HdDeposit

LEMMA EmailSteps ==
    ASSUME IInv, [Next]_vars
    PROVE  \/ emails' = emails
           \/ /\ cd.step = "email" /\ cd'.step = "pick"
              /\ emails' = [emails EXCEPT ![CdDeposit] = emails[CdDeposit] + 1]
              /\ UNCHANGED <<deposit, file>>
<1>1. CASE CdEmail
  BY <1>1 DEF IInv, TypeOK, Cd, CdEmail, CdGoto, rows
<1>2. CASE ~CdEmail
  BY <1>2
  DEF Next, UserNext, Register, RegisterInvalid, DepositCompat, Upload,
      DeleteNode, CdNext, CdSweep, CdSweepEnd, CdPick, CdMerge, CdMove, CdTree,
      CdReplace, CdSaveFile, CdFinalize, CdSaveDeposit, Fault, CdReadError,
      CdMoveError, CdCrash, HdNext, HdSweep, HdSweepEnd, HdPick, HdLook,
      HdUpload, HdUploadFails, HdSaveNode, HdMark, HdCount, HdSaveDeposit,
      HdCrash, HdKeeps, vars
<1>3. QED BY <1>1, <1>2

(* Where the deposit process_chunked_files holds comes from.                *)
LEMMA CdCopies ==
    ASSUME IInv, [Next]_vars
    PROVE  \/ cd'.step \in {"sleep", "pick"}
           \/ cd'.deposit = deposit[DepositOf[cd'.file]]
           \/ /\ cd.step \notin {"sleep", "pick"}
              /\ cd'.file = cd.file /\ cd'.deposit = cd.deposit
<1> USE DEF IInv, TypeOK, Cd
<1>1. CASE UserNext \/ HdNext \/ HdCrash \/ UNCHANGED vars
  <2>1. cd' = cd
    BY <1>1 DEF UserNext, Register, RegisterInvalid, DepositCompat, Upload,
       DeleteNode, HdNext, HdSweep, HdSweepEnd, HdPick, HdLook, HdUpload,
       HdUploadFails, HdSaveNode, HdMark, HdCount, HdSaveDeposit, HdCrash,
       HdKeeps, vars
  <2>2. QED BY <2>1
<1>2. CASE CdSweep \/ CdSweepEnd \/ CdCrash
  <2>1. CASE CdSweep
    BY <2>1 DEF CdSweep
  <2>2. CASE CdSweepEnd \/ CdCrash
    BY <2>2, IdleSteps DEF CdSweepEnd, CdCrash
  <2>3. QED BY <1>2, <2>1, <2>2
<1>3. ASSUME NEW f \in Files, CdPick(f)
      PROVE  cd'.deposit = deposit[DepositOf[cd'.file]]
  BY <1>3 DEF CdPick
<1>4. CASE CdMerge \/ CdMove \/ CdMoveError \/ CdTree
  <2>1. CASE CdMerge \/ CdMove \/ CdMoveError
    BY <2>1 DEF CdMerge, CdMove, CdMoveError
  <2>2. CASE CdTree
    BY <2>2, IdleSteps DEF CdTree, CdGoto
  <2>3. QED BY <1>4, <2>1, <2>2
<1>5. CASE CdReadError \/ CdReplace \/ CdSaveFile \/ CdFinalize
           \/ CdSaveDeposit \/ CdEmail
  BY <1>5 DEF CdReadError, CdReplace, CdSaveFile, CdFinalize, CdSaveDeposit,
              CdEmail, CdGoto
<1>6. QED BY <1>1, <1>2, <1>3, <1>4, <1>5 DEF Next, CdNext, Fault

(* How process_chunked_files gets to finish a deposit.                      *)
LEMMA CdToDeposit ==
    ASSUME IInv, [Next]_vars, cd'.step \in {"deposit", "email"}
    PROVE  /\ cd'.file = cd.file
           /\ \/ cd' = cd
              \/ /\ cd.step = "finalize" /\ cd'.step = "deposit"
                 /\ cd.deposit.state \in {"REGISTERED", "UPLOADED"}
                 /\ Settled(CdDeposit)
              \/ /\ cd.step = "deposit" /\ cd'.step = "email"
                 /\ deposit'[CdDeposit].state \in Finished
<1> USE DEF IInv, TypeOK, Cd
<1>1. CASE UserNext \/ HdNext \/ HdCrash \/ UNCHANGED vars
  BY <1>1 DEF UserNext, Register, RegisterInvalid, DepositCompat, Upload,
     DeleteNode, HdNext, HdSweep, HdSweepEnd, HdPick, HdLook, HdUpload,
     HdUploadFails, HdSaveNode, HdMark, HdCount, HdSaveDeposit, HdCrash,
     HdKeeps, vars
<1>2. CASE CdFinalize
  BY <1>2 DEF CdFinalize, CdGoto, Settled
<1>3. CASE CdSaveDeposit
  BY <1>3, CdReads DEF CdSaveDeposit, CdGoto, Finished
<1>4. ASSUME NEW f \in Files, CdPick(f) PROVE FALSE
  <2>1. AfterSizes[chunks[f]] \in {"pick", "merge", "error"}
    BY DEF AfterSizes
  <2>2. QED BY <1>4, <2>1 DEF CdPick
<1>5. CASE CdSweep \/ CdSweepEnd \/ CdMerge \/ CdMove \/ CdTree \/ CdReplace
  <2>1. CASE CdSweep
    BY <2>1 DEF CdSweep
  <2>2. CASE CdMerge \/ CdMove
    BY <2>2 DEF CdMerge, CdMove
  <2>3. CASE CdSweepEnd \/ CdTree \/ CdReplace
    BY <2>3, IdleSteps DEF CdSweepEnd, CdTree, CdReplace, CdGoto
  <2>4. QED BY <1>5, <2>1, <2>2, <2>3
<1>6. CASE CdSaveFile \/ CdEmail \/ CdReadError \/ CdMoveError \/ CdCrash
  <2>1. CASE CdSaveFile \/ CdEmail \/ CdReadError
    BY <2>1 DEF CdSaveFile, CdEmail, CdReadError, CdGoto
  <2>2. CASE CdMoveError
    BY <2>2 DEF CdMoveError
  <2>3. CASE CdCrash
    BY <2>3, IdleSteps DEF CdCrash
  <2>4. QED BY <1>6, <2>1, <2>2, <2>3
<1>7. QED BY <1>1, <1>2, <1>3, <1>4, <1>5, <1>6 DEF Next, CdNext, Fault

LEMMA HdToDeposit ==
    ASSUME IInv, [Next]_vars, hd'.step = "deposit"
    PROVE  \/ hd' = hd
           \/ /\ hd.step = "count" /\ hd'.file = hd.file /\ UNCHANGED file
              /\ FilesIn(HdDeposit, {"REGISTERED", "UPLOADED", "HASHED"}) = {}
<1> USE DEF IInv, TypeOK, Hd, rows
<1>1. CASE UserNext \/ CdNext \/ CdReadError \/ CdMoveError \/ CdCrash
           \/ UNCHANGED vars
  BY <1>1 DEF UserNext, Register, RegisterInvalid, DepositCompat, Upload,
              DeleteNode, CdNext, CdSweep, CdSweepEnd, CdPick, CdMerge, CdMove,
              CdTree, CdReplace, CdSaveFile, CdFinalize, CdSaveDeposit, CdEmail,
              CdReadError, CdMoveError, CdCrash, CdKeeps, vars
<1>2. CASE HdCount
  BY <1>2 DEF HdCount, HdGoto
<1>3. CASE HdSweep \/ HdSweepEnd \/ HdLook \/ HdCrash
  <2>1. CASE HdSweep
    BY <2>1 DEF HdSweep
  <2>2. CASE HdLook
    BY <2>2 DEF HdLook
  <2>3. CASE HdSweepEnd \/ HdCrash
    BY <2>3, IdleSteps DEF HdSweepEnd, HdCrash
  <2>4. QED BY <1>3, <2>1, <2>2, <2>3
<1>4. CASE HdUpload \/ HdUploadFails \/ HdMark \/ HdSaveDeposit
  BY <1>4 DEF HdUpload, HdUploadFails, HdMark, HdSaveDeposit, HdGoto
<1>5. ASSUME NEW f \in Files, HdPick(f) PROVE FALSE
  BY <1>5 DEF HdPick
<1>6. CASE HdSaveNode
  <2>1. hd'.step \in {"mark", "sleep"}
    <3>1. CASE hd' = [hd EXCEPT !.step = "mark", !.node.pbox = HdFile]
      BY <3>1
    <3>2. CASE hd' = HdIdle
      BY <3>2, IdleSteps
    <3>3. QED BY <1>6, <3>1, <3>2 DEF HdSaveNode
  <2>2. QED BY <2>1
<1>7. QED BY <1>1, <1>2, <1>3, <1>4, <1>5, <1>6 DEF Next, HdNext, Fault

LEMMA FinishesStep == IInv /\ [Next]_vars => Finishes'
<1> SUFFICES ASSUME IInv, [Next]_vars PROVE Finishes'
  OBVIOUS
<1>1. /\ TypeOK /\ MailedIsFinished /\ CdFinishes /\ HdFinishes
      /\ FinishedIsSettled /\ OneEmail /\ ReplicatedIsDone
  BY DEF IInv, Finishes
<1>2. /\ CdDeposit \in Deposits /\ emails \in [Deposits -> Nat]
      /\ cd.file \in Files
  BY CdReads, <1>1 DEF TypeOK, CdFile
<1>3. MailedIsFinished'
  <2> SUFFICES ASSUME NEW d \in Deposits, emails'[d] > 0
               PROVE  deposit'[d].state \in Finished
    BY DEF MailedIsFinished
  <2>1. CASE emails' = emails
    BY <1>1, <2>1, DepositsStay DEF MailedIsFinished
  <2>2. CASE cd.step = "email" /\ UNCHANGED deposit
             /\ emails' = [emails EXCEPT ![CdDeposit] = emails[CdDeposit] + 1]
    BY <1>1, <1>2, <2>2 DEF MailedIsFinished, CdFinishes
  <2>3. QED BY <2>1, <2>2, EmailSteps
<1>4. CdFinishes'
  <2>1. ASSUME cd'.step \notin {"sleep", "pick"}, emails'[CdDeposit'] > 0
        PROVE  cd'.deposit.state \in Finished
    <3>1. emails' = emails
      BY <2>1, EmailSteps
    <3>2. CASE cd'.deposit = deposit[DepositOf[cd'.file]]
      <4>1. CdDeposit' \in Deposits /\ CdDeposit' = DepositOf[cd'.file]
        BY TypeStep, ColumnsAssumption DEF TypeOK, Cd, CdDeposit
      <4>2. QED BY <1>1, <2>1, <3>1, <3>2, <4>1 DEF MailedIsFinished
    <3>3. CASE /\ cd.step \notin {"sleep", "pick"}
               /\ cd'.file = cd.file /\ cd'.deposit = cd.deposit
      BY <1>1, <2>1, <3>1, <3>3 DEF CdFinishes, CdDeposit
    <3>4. QED BY <2>1, <3>2, <3>3, CdCopies
  <2>2. ASSUME cd'.step \in {"deposit", "email"}
        PROVE  Settled(CdDeposit)' /\ emails'[CdDeposit'] = 0
    <3>1. cd'.file = cd.file /\ CdDeposit' = CdDeposit
      BY <2>2, CdToDeposit DEF CdDeposit
    <3>2. cd.step \in {"finalize", "deposit", "email"} /\ Settled(CdDeposit)
          /\ emails[CdDeposit] = 0
      <4>1. CASE cd.step = "finalize"
                 /\ cd.deposit.state \in {"REGISTERED", "UPLOADED"}
                 /\ Settled(CdDeposit)
        BY <1>1, <1>2, <4>1 DEF CdFinishes, Finished
      <4>2. CASE cd.step \in {"deposit", "email"}
        BY <1>1, <4>2 DEF CdFinishes
      <4>3. QED BY <2>2, <4>1, <4>2, CdToDeposit
    <3>3. emails' = emails
      BY <2>2, EmailSteps
    <3>4. Settled(CdDeposit)'
      BY <3>1, <3>2, DepositsAtHand, SettledStays DEF Settled, FilesIn, FilesOf
    <3>5. QED BY <3>1, <3>2, <3>3, <3>4
  <2>3. ASSUME cd'.step = "email"
        PROVE  deposit'[CdDeposit'].state \in Finished
    <3>1. CdDeposit' = CdDeposit
      BY <2>3, CdToDeposit DEF CdDeposit
    <3>2. QED BY <1>1, <1>2, <2>3, <3>1, CdToDeposit, DepositsStay
              DEF CdFinishes
  <2>4. QED BY <2>1, <2>2, <2>3 DEF CdFinishes
<1>5. HdFinishes'
  <2> SUFFICES ASSUME hd'.step = "deposit"
               PROVE FilesIn(HdDeposit, {"REGISTERED", "UPLOADED", "HASHED"})' = {}
    BY DEF HdFinishes
  <2>1. CASE hd' = hd
    BY <1>1, <2>1, DepositsAtHand, SettledStays
    DEF HdFinishes, HdDeposit, FilesIn, FilesOf
  <2>2. CASE /\ hd'.file = hd.file /\ UNCHANGED file
             /\ FilesIn(HdDeposit, {"REGISTERED", "UPLOADED", "HASHED"}) = {}
    BY <2>2 DEF HdDeposit, FilesIn, FilesOf
  <2>3. QED BY <2>1, <2>2, HdToDeposit
<1>6. FinishedIsSettled'
  <2> SUFFICES ASSUME NEW d \in Deposits
               PROVE  /\ deposit'[d].state \in Finished => Settled(d)'
                      /\ emails'[d] > 0 => Settled(d)'
    BY DEF FinishedIsSettled, Finished
  <2>1. deposit'[d].state \in Finished => Settled(d)'
    <3>1. CASE deposit[d].state \in Finished
      BY <1>1, <3>1, SettledStays DEF FinishedIsSettled, Finished
    <3>2. CASE cd.step = "deposit" /\ d = CdDeposit
      BY <1>1, <3>2, DepositsAtHand, SettledStays DEF CdFinishes
    <3>3. CASE hd.step = "deposit" /\ d = HdDeposit
      <4>1. Settled(d)
        BY <1>1, <3>3 DEF HdFinishes, Settled, FilesIn
      <4>2. QED BY <3>3, <4>1, DepositsAtHand, SettledStays
    <3>4. QED BY <3>1, <3>2, <3>3, DepositSteps DEF DepositStep, Finished
  <2>2. QED BY <2>1, <1>3 DEF MailedIsFinished
<1>7. OneEmail'
  <2> SUFFICES ASSUME NEW d \in Deposits PROVE emails'[d] <= 1
    BY DEF OneEmail
  <2>1. CASE cd.step = "email"
             /\ emails' = [emails EXCEPT ![CdDeposit] = emails[CdDeposit] + 1]
    BY <1>1, <1>2, <2>1 DEF OneEmail, CdFinishes
  <2>2. QED BY <1>1, <2>1, EmailSteps DEF OneEmail
<1>8. ReplicatedIsDone'
  <2> SUFFICES ASSUME NEW d \in Deposits, deposit'[d].state = "REPLICATED"
      PROVE FilesIn(d, {"REGISTERED", "UPLOADED", "HASHED"})' = {}
    BY DEF ReplicatedIsDone
  <2>1. CASE deposit[d].state = "REPLICATED"
    BY <1>1, <2>1, SettledStays DEF ReplicatedIsDone
  <2>2. CASE hd.step = "deposit" /\ d = HdDeposit
    BY <1>1, <2>2, DepositsAtHand, SettledStays DEF HdFinishes
  <2>3. QED BY <2>1, <2>2, DepositSteps DEF DepositStep
<1>9. QED BY <1>3, <1>4, <1>5, <1>6, <1>7, <1>8 DEF Finishes

-----------------------------------------------------------------------------

LEMMA InitInv == Init => IInv
<1> SUFFICES ASSUME Init PROVE IInv
  OBVIOUS
<1>1. cd.step = "sleep" /\ cd.todo = {} /\ hd.step = "sleep" /\ hd.todo = {}
  BY DEF Init, CdIdle, HdIdle
<1>2. \A f \in Files : file[f].state = "absent"
  BY DEF Init
<1>3. \A d \in Deposits : emails[d] = 0 /\ deposit[d].state = "absent"
  BY DEF Init, NoDeposit
<1>4. OnRightFiles
  BY <1>1, <1>2 DEF OnRightFiles, CdOnUploaded, HdOnHashed, RowsRegistered
<1>5. Stored
  BY <1>1, <1>2 DEF Stored, CdStores, HdStores, StoredUnderItsSum
<1>6. Finishes
  <2>1. CdFinishes /\ HdFinishes
    BY <1>1 DEF CdFinishes, HdFinishes
  <2>2. MailedIsFinished /\ FinishedIsSettled /\ OneEmail /\ ReplicatedIsDone
    BY <1>3 DEF MailedIsFinished, FinishedIsSettled, OneEmail, ReplicatedIsDone
  <2>3. QED BY <2>1, <2>2 DEF Finishes
<1>7. QED BY <1>4, <1>5, <1>6, InitTypes DEF IInv

(* IInv is inductive.                                                       *)
LEMMA Invariant == Spec => []IInv
<1>1. IInv /\ [Next]_vars => IInv'
  BY TypeStep, OnRightFilesStep, StoredStep, FinishesStep DEF IInv
<1>2. QED BY InitInv, <1>1, PTL DEF Spec

(* The rows, the disk and the daemons' memory are always well typed.        *)
THEOREM TypeCorrect == Spec => []TypeOK
<1>1. IInv => TypeOK
  BY DEF IInv
<1>2. QED BY Invariant, <1>1, PTL

(* Whatever the daemons' stale copies and crashes, a deposit is finished,   *)
(* and its depositor told, only when no file waits to be uploaded or        *)
(* hashed.                                                                  *)
THEOREM NoEarlyFinish == Spec => []FinishedIsSettled
<1>1. IInv => FinishedIsSettled
  BY DEF IInv, Finishes
<1>2. QED BY Invariant, <1>1, PTL

(* Nobody gets the mail "Deposit Complete" twice for a deposit.             *)
THEOREM MailedOnce == Spec => []OneEmail
<1>1. IInv => OneEmail
  BY DEF IInv, Finishes
<1>2. QED BY Invariant, <1>1, PTL

(* A REPLICATED deposit has nothing left to replicate.                      *)
THEOREM ReplicatedLast == Spec => []ReplicatedIsDone
<1>1. IInv => ReplicatedIsDone
  BY DEF IInv, Finishes
<1>2. QED BY Invariant, <1>1, PTL

(* A HASHED or REPLICATED file has its sum, a file in shafs and a node.     *)
THEOREM HashedIsStored == Spec => []StoredUnderItsSum
<1>1. IInv => StoredUnderItsSum
  BY DEF IInv, Stored
<1>2. QED BY Invariant, <1>1, PTL

(* No save of a whole row ever takes the state of a file back.              *)
THEOREM StatesForward == Spec => FilesGoForward
<1> DEFINE Forward == \A f \in Files :
        file'[f].state = file[f].state
        \/ Rank[file'[f].state] > Rank[file[f].state]
<1>1. IInv /\ [Next]_vars => [Forward]_vars
  <2> SUFFICES ASSUME IInv, [Next]_vars, NEW f \in Files
               PROVE  file'[f].state = file[f].state
                      \/ Rank[file'[f].state] > Rank[file[f].state]
    OBVIOUS
  <2>1. QED BY FileSteps DEF FileStep, Registers, Uploads, Hashes, Replicates,
               Rank
<1>2. QED BY Invariant, <1>1, PTL DEF Spec, FilesGoForward

-----------------------------------------------------------------------------
(* What was merged, and what Petabox was given.                             *)

(* While no merge is interrupted, the merged file of f holds the chunks     *)
(* appended in this run of the loop, and nothing else.                      *)
AppendedSoFar(f) ==
    IF f = cd.file /\ cd.step = "merge" THEN [i \in 1..(cd.next - 1) |-> i]
    ELSE IF f = cd.file /\ cd.step = "move" THEN Whole ELSE <<>>

MergedSoFar == Undisturbed => \A f \in Files : merged[f] = AppendedSoFar(f)

(* Crashes and failures are only ever added.                                *)
LEMMA FaultsStay ==
    ASSUME TypeOK, [Next]_vars, Undisturbed'
    PROVE  Undisturbed /\ ~Fault
<1>1. crashes \in Nat /\ failures \in Nat
  BY BoundsAssumption DEF TypeOK
<1>2. ~Fault
  BY <1>1 DEF Fault, CdReadError, CdMoveError, CdCrash, HdCrash, Undisturbed
<1>3. UNCHANGED <<crashes, failures>>
  BY <1>2 DEF Next, UserNext, Register, RegisterInvalid, DepositCompat, Upload,
     DeleteNode, CdNext, CdSweep, CdSweepEnd, CdPick, CdMerge, CdMove, CdTree,
     CdReplace, CdSaveFile, CdFinalize, CdSaveDeposit, CdEmail, CdKeeps,
     HdNext, HdSweep, HdSweepEnd, HdPick, HdLook, HdUpload, HdUploadFails,
     HdSaveNode, HdMark, HdCount, HdSaveDeposit, HdKeeps, faults, vars
<1>4. QED BY <1>2, <1>3 DEF Undisturbed

(* A step of the merge loop puts the next chunk behind the last one.        *)
LEMMA AppendNext ==
    ASSUME NEW k \in Nat \ {0}
    PROVE  Append([i \in 1..(k - 1) |-> i], k) = [i \in 1..k |-> i]
<1> DEFINE s == [i \in 1..(k - 1) |-> i]
           t == [i \in 1..k |-> i]
<1>1. s \in Seq(Nat) /\ Len(s) = k - 1 /\ t \in Seq(Nat) /\ Len(t) = k
  OBVIOUS
<1>2. Append(s, k) \in Seq(Nat) /\ Len(Append(s, k)) = k
  BY <1>1
<1>3. \A i \in 1..k : Append(s, k)[i] = t[i]
  BY <1>1
<1> HIDE DEF s, t
<1>4. Append(s, k) = t
  BY <1>1, <1>2, <1>3
<1>5. QED BY <1>4 DEF s, t

LEMMA MergeStep ==
    ASSUME IInv, MergedSoFar, ShafsIntactUndisturbed, [Next]_vars
    PROVE  MergedSoFar' /\ ShafsIntactUndisturbed'
<1> SUFFICES ASSUME Undisturbed'
             PROVE  /\ \A f \in Files : merged'[f] = AppendedSoFar(f)'
                    /\ ShafsIntact'
  BY DEF MergedSoFar, ShafsIntactUndisturbed
<1> USE DEF disk
<1>1. /\ TypeOK /\ ~Fault /\ cd \in Cd /\ ShafsIntact
      /\ cd.file \in Files /\ cd.next \in Chunk /\ ContentOf[cd.file] \in Contents
      /\ \A f \in Files : merged[f] = AppendedSoFar(f)
  BY FaultsStay, CdReads
     DEF IInv, MergedSoFar, ShafsIntactUndisturbed, TypeOK, CdFile
<1>2. ASSUME UNCHANGED <<merged, shafs>>, cd.step \notin {"merge", "move"},
             cd'.step \notin {"merge", "move"}
      PROVE  /\ \A f \in Files : merged'[f] = AppendedSoFar(f)'
             /\ ShafsIntact'
  BY <1>1, <1>2 DEF AppendedSoFar, ShafsIntact
<1>3. ASSUME UNCHANGED <<merged, shafs, cd>>
      PROVE  /\ \A f \in Files : merged'[f] = AppendedSoFar(f)'
             /\ ShafsIntact'
  BY <1>1, <1>3 DEF AppendedSoFar, ShafsIntact
<1>4. CASE UserNext \/ HdNext \/ UNCHANGED vars
  BY <1>3, <1>4
  DEF UserNext, Register, RegisterInvalid, DepositCompat, Upload, DeleteNode,
      HdNext, HdSweep, HdSweepEnd, HdPick, HdLook, HdUpload, HdUploadFails,
      HdSaveNode, HdMark, HdCount, HdSaveDeposit, HdKeeps, vars
<1>5. CASE CdSweep \/ CdSweepEnd \/ CdTree \/ CdReplace \/ CdSaveFile
           \/ CdFinalize \/ CdSaveDeposit \/ CdEmail
  <2>1. UNCHANGED <<merged, shafs>> /\ cd.step \notin {"merge", "move"}
    BY <1>5 DEF CdSweep, CdSweepEnd, CdTree, CdReplace, CdSaveFile,
                CdFinalize, CdSaveDeposit, CdEmail
  <2>2. cd'.step \notin {"merge", "move"}
    BY <1>1, <1>5, IdleSteps
    DEF CdSweep, CdSweepEnd, CdTree, CdReplace, CdSaveFile, CdFinalize,
        CdSaveDeposit, CdEmail, CdGoto, Cd
  <2>3. QED BY <2>1, <2>2, <1>2
<1>6. ASSUME NEW g \in Files, CdPick(g)
      PROVE  /\ \A f \in Files : merged'[f] = AppendedSoFar(f)'
             /\ ShafsIntact'
  <2>1. /\ UNCHANGED <<merged, shafs>> /\ cd.step = "pick"
        /\ cd'.step \in {"pick", "merge", "error"} /\ cd'.next = 1
    <3>1. AfterSizes[chunks[g]] \in {"pick", "merge", "error"}
      BY <1>1 DEF AfterSizes, TypeOK
    <3>2. QED BY <1>1, <1>6, <3>1 DEF CdPick, Cd
  <2>2. \A f \in Files : merged'[f] = <<>>
    BY <1>1, <2>1 DEF AppendedSoFar
  <2>3. [i \in 1..(1 - 1) |-> i] = <<>>
    OBVIOUS
  <2>4. QED BY <1>1, <2>1, <2>2, <2>3 DEF AppendedSoFar, ShafsIntact
<1>7. CASE CdMerge
  <2> DEFINE f == cd.file
  <2>1. merged' = [merged EXCEPT ![f] = [i \in 1..cd.next |-> i]]
    <3>1. merged[f] = [i \in 1..(cd.next - 1) |-> i] /\ cd.next \in Nat \ {0}
      BY <1>1, <1>7 DEF CdMerge, AppendedSoFar, Chunk
    <3>2. Append(merged[f], cd.next) = [i \in 1..cd.next |-> i]
      BY <3>1, AppendNext
    <3>3. QED BY <1>7, <3>2 DEF CdMerge, CdFile
  <2>2. /\ cd'.file = cd.file
        /\ \/ cd.next = N /\ cd'.step = "move"
           \/ cd'.step = "merge" /\ cd'.next = cd.next + 1
    BY <1>1, <1>7 DEF CdMerge, Cd
  <2>3. [i \in 1..cd.next |-> i] = AppendedSoFar(f)'
    <3>1. CASE cd.next = N /\ cd'.step = "move"
      BY <2>2, <3>1 DEF AppendedSoFar, Whole, Chunk
    <3>2. CASE cd'.step = "merge" /\ cd'.next = cd.next + 1
      <4>1. (cd.next + 1) - 1 = cd.next
        BY <1>1 DEF Chunk
      <4>2. QED BY <2>2, <3>2, <4>1 DEF AppendedSoFar
    <3>3. QED BY <2>2, <3>1, <3>2
  <2>4. \A g \in Files \ {f} : merged'[g] = AppendedSoFar(g)'
    BY <1>1, <2>1, <2>2 DEF AppendedSoFar, TypeOK
  <2>5. merged'[f] = [i \in 1..cd.next |-> i]
    BY <1>1, <2>1 DEF TypeOK
  <2>6. shafs' = shafs
    BY <1>7 DEF CdMerge
  <2>7. \A g \in Files : merged'[g] = AppendedSoFar(g)'
    BY <2>2, <2>3, <2>4, <2>5 DEF AppendedSoFar
  <2>8. ShafsIntact'
    BY <1>1, <2>6 DEF ShafsIntact
  <2>9. QED BY <2>7, <2>8
<1>8. CASE CdMove
  <2>1. /\ merged[cd.file] = Whole
        /\ shafs' = [shafs EXCEPT ![ContentOf[cd.file]] = merged[cd.file]]
        /\ merged' = [merged EXCEPT ![cd.file] = <<>>]
        /\ cd'.step = "tree" /\ cd'.file = cd.file
    BY <1>1, <1>8 DEF CdMove, CdFile, AppendedSoFar, Cd
  <2>2. ShafsIntact'
    BY <1>1, <2>1 DEF ShafsIntact, TypeOK
  <2>3. \A f \in Files : merged'[f] = <<>>
    BY <1>1, <1>8, <2>1 DEF AppendedSoFar, TypeOK, CdMove
  <2>4. QED BY <2>1, <2>2, <2>3 DEF AppendedSoFar
<1>9. QED BY <1>1, <1>4, <1>5, <1>6, <1>7, <1>8 DEF Next, CdNext

(* For any number of files, chunks and deposits: a file of shafs that was   *)
(* never appended to by an interrupted merge holds its chunks in order,     *)
(* once each.                                                               *)
THEOREM UndisturbedIsIntact == Spec => []ShafsIntactUndisturbed
<1>1. Init => MergedSoFar /\ ShafsIntactUndisturbed
  BY DEF Init, MergedSoFar, AppendedSoFar, CdIdle, ShafsIntactUndisturbed,
         ShafsIntact
<1>2. /\ IInv /\ MergedSoFar /\ ShafsIntactUndisturbed /\ [Next]_vars
      => (MergedSoFar /\ ShafsIntactUndisturbed)'
  BY MergeStep
<1>3. QED BY <1>1, <1>2, Invariant, PTL DEF Spec

-----------------------------------------------------------------------------

(* No two files go to the same place in the tree.                           *)
OwnNodes == \A f, g \in Files : NodeOf[f] = NodeOf[g] => f = g

(* Petabox has the content of f, whole if its merge was not interrupted.    *)
Given(f) == /\ pbox[f].sum = ContentOf[f]
            /\ Undisturbed => pbox[f].chunks = Whole

(* A node that names an upload names that of its own file, and Petabox has  *)
(* it.                                                                      *)
NodesNameUploads ==
    /\ \A f \in Files : node[NodeOf[f]].pbox # None =>
          node[NodeOf[f]].pbox = f /\ Given(f)
    /\ \A f \in Files : file[f].state = "REPLICATED" =>
          node[NodeOf[f]].pbox # None

(* So will the node after the save of a copy a daemon holds.                *)
CopiesNameUploads ==
    /\ cd.step = "replace" /\ cd.node.pbox # None =>
          cd.node.pbox = cd.file /\ Given(cd.file)
    /\ hd.step = "node" => Given(hd.file)
    /\ hd.step = "mark" => node[HdNode].pbox # None

(* Who changes what a node names.                                           *)
LEMMA NodeSteps ==
    ASSUME IInv, [Next]_vars, NEW n \in Nodes
    PROVE  \/ node'[n].pbox = node[n].pbox
           \/ n = CdNode /\ cd.step = "tree" /\ node'[n].pbox = None
           \/ n = CdNode /\ cd.step = "replace" /\ node'[n].pbox = cd.node.pbox
           \/ n = HdNode /\ hd.step = "node" /\ node'[n].pbox = hd.file
<1> USE DEF rows
<1>1. /\ node \in [Nodes -> NodeRow] /\ CdNode \in Nodes /\ HdNode \in Nodes
      /\ cd.node \in NodeRow /\ hd.node \in NodeRow
  BY CdReads, HdReads DEF IInv, TypeOK
<1>2. CASE CdTree
  <2>1. CASE UNCHANGED node
    BY <2>1
  <2>2. CASE node' = [node EXCEPT ![CdNode] =
                         [status |-> "live", sum |-> cd.sum, pbox |-> None]]
    BY <1>1, <1>2, <2>2 DEF CdTree
  <2>3. QED BY <1>2, <2>1, <2>2 DEF CdTree
<1>3. CASE CdReplace
  <2>1. [cd.node EXCEPT !.sum = cd.sum].pbox = cd.node.pbox
    BY <1>1 DEF NodeRow
  <2>2. QED BY <1>1, <1>3, <2>1 DEF CdReplace
<1>4. CASE HdSaveNode
  <2>1. [hd.node EXCEPT !.pbox = HdFile].pbox = hd.file
    BY <1>1 DEF NodeRow, HdFile
  <2>2. QED BY <1>1, <1>4, <2>1 DEF HdSaveNode
<1>5. ASSUME NEW m \in Nodes, DeleteNode(m)
      PROVE  node'[n].pbox = node[n].pbox
  <2>1. node' = [node EXCEPT ![m] = [node[m] EXCEPT !.status = "deleted"]]
    BY <1>5 DEF DeleteNode
  <2>2. [node[m] EXCEPT !.status = "deleted"].pbox = node[m].pbox
    BY <1>1 DEF NodeRow
  <2>3. QED BY <1>1, <2>1, <2>2
<1>6. CASE UNCHANGED node
  BY <1>6
<1>7. QED
  BY <1>2, <1>3, <1>4, <1>5, <1>6
  DEF Next, UserNext, Register, RegisterInvalid, DepositCompat, Upload,
      CdNext, CdSweep, CdSweepEnd, CdPick, CdMerge, CdMove, CdSaveFile,
      CdFinalize, CdSaveDeposit, CdEmail, Fault, CdReadError, CdMoveError,
      CdCrash, HdNext, HdSweep, HdSweepEnd, HdPick, HdLook, HdUpload,
      HdUploadFails, HdMark, HdCount, HdSaveDeposit, HdCrash, vars

(* What Petabox was given stays; another upload of the file gives the same. *)
LEMMA GivenStep ==
    ASSUME IInv, ShafsIntactUndisturbed, [Next]_vars, NEW f \in Files
    PROVE  /\ Given(f) => Given(f)'
           /\ HdUpload /\ f = hd.file => Given(f)'
<1>1. Undisturbed' => Undisturbed
  BY FaultsStay DEF IInv
<1>2. CASE UNCHANGED pbox
  <2>1. ~HdUpload \/ f # hd.file \/ Given(f)
    <3> SUFFICES ASSUME HdUpload, f = hd.file PROVE Given(f)
      OBVIOUS
    <3>1. file[f].sum = ContentOf[f] /\ shafs[ContentOf[f]] # <<>>
      BY DEF HdUpload, IInv, Stored, StoredUnderItsSum, OnRightFiles, HdOnHashed
    <3>2. pbox'[f] = [sum |-> ContentOf[f], chunks |-> shafs[ContentOf[f]]]
      BY <3>1 DEF HdUpload, HdFile, IInv, TypeOK
    <3>3. Undisturbed => shafs[ContentOf[f]] = Whole
      BY <3>1, ColumnsAssumption DEF ShafsIntactUndisturbed, ShafsIntact
    <3>4. QED BY <1>2, <3>2, <3>3 DEF Given
  <2>2. QED BY <1>1, <1>2, <2>1 DEF Given
<1>3. CASE HdUpload
  <2>1. CASE f = hd.file
    <3>1. file[f].sum = ContentOf[f] /\ shafs[ContentOf[f]] # <<>>
      BY <1>3, <2>1
         DEF HdUpload, IInv, Stored, StoredUnderItsSum, OnRightFiles, HdOnHashed
    <3>2. pbox'[f] = [sum |-> ContentOf[f], chunks |-> shafs[ContentOf[f]]]
      BY <1>3, <2>1, <3>1 DEF HdUpload, HdFile, IInv, TypeOK
    <3>3. Undisturbed => shafs[ContentOf[f]] = Whole
      BY <3>1, ColumnsAssumption DEF ShafsIntactUndisturbed, ShafsIntact
    <3>4. QED BY <1>1, <3>2, <3>3 DEF Given
  <2>2. CASE f # hd.file
    BY <1>1, <1>3, <2>2 DEF HdUpload, HdFile, IInv, TypeOK, Given
  <2>3. QED BY <2>1, <2>2
<1>4. QED
  BY <1>2, <1>3
  DEF Next, UserNext, Register, RegisterInvalid, DepositCompat, Upload,
      DeleteNode, CdNext, CdSweep, CdSweepEnd, CdPick, CdMerge, CdMove, CdTree,
      CdReplace, CdSaveFile, CdFinalize, CdSaveDeposit, CdEmail, CdKeeps,
      Fault, CdReadError, CdMoveError, CdCrash, HdNext, HdSweep, HdSweepEnd,
      HdPick, HdLook, HdUploadFails, HdSaveNode, HdMark, HdCount,
      HdSaveDeposit, HdCrash, vars

(* How the daemons come to hold a copy they will save.                      *)
LEMMA CopySteps ==
    ASSUME IInv, [Next]_vars
    PROVE  /\ cd'.step = "replace" =>
                \/ cd' = cd
                \/ cd'.node = node[NodeOf[cd'.file]] /\ cd'.file \in Files
           /\ hd'.step = "node" => hd' = hd \/ (HdUpload /\ hd'.file = hd.file)
           /\ hd'.step = "mark" =>
                \/ hd' = hd
                \/ /\ hd.step = "look" /\ hd'.file = hd.file
                   /\ node[HdNode].pbox # None /\ UNCHANGED node
                \/ /\ hd.step = "node" /\ hd'.file = hd.file
                   /\ node'[HdNode].pbox = hd.file
<1>1. TypeOK /\ cd \in Cd /\ hd \in Hd /\ cd.file \in Files
  BY CdReads DEF IInv, TypeOK, CdFile
<1>2. ASSUME cd'.step = "replace", cd' # cd
      PROVE  cd'.node = node[NodeOf[cd'.file]] /\ cd'.file \in Files
  <2>1. CASE CdTree
    <3>1. cd' # CdIdle /\ ~CdGoto("hashed")
      BY <1>1, <1>2, IdleSteps DEF CdGoto, Cd
    <3>2. cd' = [cd EXCEPT !.step = "replace", !.node = node[CdNode]]
      BY <2>1, <3>1 DEF CdTree
    <3>3. QED BY <1>1, <3>2 DEF Cd, CdNode
  <2>2. CASE UserNext \/ HdNext \/ HdCrash \/ UNCHANGED vars
    BY <1>2, <2>2
    DEF UserNext, Register, RegisterInvalid, DepositCompat, Upload, DeleteNode,
        HdNext, HdSweep, HdSweepEnd, HdPick, HdLook, HdUpload, HdUploadFails,
        HdSaveNode, HdMark, HdCount, HdSaveDeposit, HdCrash, HdKeeps, vars
  <2>3. ASSUME NEW f \in Files, CdPick(f) PROVE FALSE
    <3>1. AfterSizes[chunks[f]] \in {"pick", "merge", "error"}
      BY <1>1 DEF AfterSizes, TypeOK
    <3>2. QED BY <1>1, <1>2, <2>3, <3>1 DEF CdPick, Cd
  <2>4. CASE CdSweep \/ CdSweepEnd \/ CdMerge \/ CdMove \/ CdMoveError \/ CdCrash
    BY <1>1, <1>2, <2>4, IdleSteps
    DEF CdSweep, CdSweepEnd, CdMerge, CdMove, CdMoveError, CdCrash, Cd
  <2>5. CASE CdReplace \/ CdReadError \/ CdSaveFile \/ CdFinalize
             \/ CdSaveDeposit \/ CdEmail
    BY <1>1, <1>2, <2>5
    DEF CdReplace, CdReadError, CdSaveFile, CdFinalize, CdSaveDeposit, CdEmail,
        CdGoto, Cd
  <2>6. QED BY <2>1, <2>2, <2>3, <2>4, <2>5 DEF Next, CdNext, Fault
<1>3. ASSUME hd'.step \in {"node", "mark"}, hd' # hd
      PROVE  \/ hd'.step = "node" /\ HdUpload /\ hd'.file = hd.file
             \/ /\ hd'.step = "mark" /\ hd.step = "look" /\ hd'.file = hd.file
                /\ node[HdNode].pbox # None /\ UNCHANGED node
             \/ /\ hd'.step = "mark" /\ hd.step = "node" /\ hd'.file = hd.file
                /\ node'[HdNode].pbox = hd.file
  <2>1. CASE HdLook
    BY <1>1, <1>3, <2>1 DEF HdLook, Hd, rows
  <2>2. CASE HdUpload
    BY <1>1, <2>2 DEF HdUpload, HdGoto, Hd
  <2>3. CASE HdSaveNode
    <3>1. /\ node' = [node EXCEPT ![HdNode] = [hd.node EXCEPT !.pbox = HdFile]]
          /\ hd' = [hd EXCEPT !.step = "mark", !.node.pbox = HdFile]
          /\ hd.step = "node"
      BY <1>3, <2>3, IdleSteps DEF HdSaveNode
    <3>2. hd'.step = "mark" /\ hd'.file = hd.file
      BY <1>1, <3>1 DEF Hd
    <3>3. node'[HdNode].pbox = hd.file
      BY <1>1, <3>1, HdReads DEF TypeOK, NodeRow, HdFile
    <3>4. QED BY <3>1, <3>2, <3>3
  <2>4. CASE UserNext \/ CdNext \/ CdReadError \/ CdMoveError \/ CdCrash
             \/ UNCHANGED vars
    BY <1>3, <2>4
    DEF UserNext, Register, RegisterInvalid, DepositCompat, Upload, DeleteNode,
        CdNext, CdSweep, CdSweepEnd, CdPick, CdMerge, CdMove, CdTree, CdReplace,
        CdSaveFile, CdFinalize, CdSaveDeposit, CdEmail, CdReadError,
        CdMoveError, CdCrash, CdKeeps, vars
  <2>5. CASE HdSweep \/ HdSweepEnd \/ HdCrash
    BY <1>1, <1>3, <2>5, IdleSteps DEF HdSweep, HdSweepEnd, HdCrash, Hd
  <2>6. CASE HdUploadFails \/ HdMark \/ HdCount \/ HdSaveDeposit
    BY <1>1, <1>3, <2>6
    DEF HdUploadFails, HdMark, HdCount, HdSaveDeposit, HdGoto, Hd
  <2>7. ASSUME NEW f \in Files, HdPick(f) PROVE FALSE
    BY <1>1, <1>3, <2>7 DEF HdPick, Hd
  <2>8. QED BY <2>1, <2>2, <2>3, <2>4, <2>5, <2>6, <2>7 DEF Next, HdNext, Fault
<1>4. QED BY <1>2, <1>3

LEMMA NamesStep ==
    ASSUME OwnNodes, IInv, ShafsIntactUndisturbed, NodesNameUploads,
           CopiesNameUploads, [Next]_vars
    PROVE  NodesNameUploads' /\ CopiesNameUploads'
<1>1. /\ cd.file \in Files /\ hd.file \in Files /\ hd.file # None
      /\ CdNode = NodeOf[cd.file] /\ HdNode = NodeOf[hd.file]
      /\ \A f \in Files : NodeOf[f] \in Nodes
  BY CdReads, HdReads, ColumnsAssumption, NoneAssumption
     DEF IInv, CdFile, HdFile, CdNode, HdNode
<1>2. \A f \in Files : Given(f) => Given(f)'
  BY GivenStep
<1>3. ASSUME NEW f \in Files, node'[NodeOf[f]].pbox # None
      PROVE  node'[NodeOf[f]].pbox = f /\ Given(f)
  <2>1. CASE node'[NodeOf[f]].pbox = node[NodeOf[f]].pbox
    BY <1>3, <2>1 DEF NodesNameUploads
  <2>2. CASE /\ NodeOf[f] = CdNode /\ cd.step = "replace"
             /\ node'[NodeOf[f]].pbox = cd.node.pbox
    BY <1>1, <1>3, <2>2 DEF OwnNodes, CopiesNameUploads
  <2>3. CASE /\ NodeOf[f] = HdNode /\ hd.step = "node"
             /\ node'[NodeOf[f]].pbox = hd.file
    BY <1>1, <2>3 DEF OwnNodes, CopiesNameUploads
  <2>4. QED BY <1>1, <1>3, <2>1, <2>2, <2>3, NodeSteps
(* A file that is past UPLOADED is not at hand in process_chunked_files.    *)
<1>4. ASSUME NEW f \in Files, file[f].state \in {"HASHED", "REPLICATED"},
             node[NodeOf[f]].pbox # None
      PROVE  node'[NodeOf[f]].pbox # None
  <2>1. NodeOf[f] = CdNode => cd.step \notin {"tree", "replace"}
    BY <1>1, <1>4 DEF OwnNodes, IInv, OnRightFiles, CdOnUploaded
  <2>2. QED BY <1>1, <1>4, <2>1, NodeSteps
<1>5. ASSUME NEW f \in Files, file'[f].state = "REPLICATED"
      PROVE  node'[NodeOf[f]].pbox # None
  <2>1. CASE file[f].state = "REPLICATED"
    BY <1>4, <2>1 DEF NodesNameUploads
  <2>2. CASE Replicates(f)
    BY <1>1, <1>4, <2>2 DEF Replicates, CopiesNameUploads
  <2>3. QED BY <1>5, <2>1, <2>2, FileSteps
            DEF FileStep, Registers, Uploads, Hashes
<1>6. NodesNameUploads'
  BY <1>2, <1>3, <1>5 DEF NodesNameUploads
<1>7. ASSUME cd'.step = "replace", cd'.node.pbox # None
      PROVE  cd'.node.pbox = cd'.file /\ Given(cd.file)'
  <2>1. CASE cd' = cd
    BY <1>1, <1>2, <1>7, <2>1 DEF CopiesNameUploads, Given
  <2>2. CASE cd'.node = node[NodeOf[cd'.file]] /\ cd'.file \in Files
    BY <1>2, <1>7, <2>2 DEF NodesNameUploads, Given
  <2>3. QED BY <1>7, <2>1, <2>2, CopySteps
<1>8. ASSUME hd'.step = "node" PROVE Given(hd.file)'
  <2>1. CASE hd' = hd
    BY <1>1, <1>2, <1>8, <2>1 DEF CopiesNameUploads, Given
  <2>2. CASE HdUpload /\ hd'.file = hd.file
    BY <1>1, <2>2, GivenStep DEF Given
  <2>3. QED BY <1>8, <2>1, <2>2, CopySteps
<1>9. ASSUME hd'.step = "mark" PROVE node'[HdNode'].pbox # None
  <2>1. CASE hd' = hd
    <3>1. file[hd.file].state = "HASHED" /\ node[HdNode].pbox # None
      BY <1>9, <2>1 DEF IInv, OnRightFiles, HdOnHashed, CopiesNameUploads
    <3>2. QED BY <1>1, <1>4, <2>1, <3>1 DEF HdNode
  <2>2. CASE hd'.file = hd.file /\ node'[HdNode].pbox # None
    BY <1>1, <2>2 DEF HdNode
  <2>3. QED BY <1>1, <1>9, <2>1, <2>2, CopySteps
<1>10. CopiesNameUploads'
  BY <1>7, <1>8, <1>9 DEF CopiesNameUploads
<1>11. QED BY <1>6, <1>10

(* The uploads nodes name, together with the invariants above.              *)
LEMMA NamesInvariant ==
    ASSUME OwnNodes
    PROVE  Spec => [](NodesNameUploads /\ CopiesNameUploads)
<1>1. Init => NodesNameUploads /\ CopiesNameUploads
  BY ColumnsAssumption
     DEF Init, NodesNameUploads, CopiesNameUploads, CdIdle, HdIdle, NoNode
<1>2. /\ IInv /\ ShafsIntactUndisturbed /\ NodesNameUploads
      /\ CopiesNameUploads /\ [Next]_vars
      => (NodesNameUploads /\ CopiesNameUploads)'
  BY NamesStep
<1>3. QED BY <1>1, <1>2, Invariant, UndisturbedIsIntact, PTL DEF Spec

(* When no two files go to the same node, the node of a REPLICATED file     *)
(* names what Petabox holds of that very file, for any number of files,     *)
(* chunks and deleted nodes, as long as no merge was interrupted.           *)
THEOREM PetaboxHasContent ==
    ASSUME OwnNodes
    PROVE  Spec => []ReplicatedContentUndisturbed
<1>1. TypeOK /\ NodesNameUploads => ReplicatedContentUndisturbed
  <2> SUFFICES ASSUME TypeOK, NodesNameUploads, Undisturbed,
                      NEW f \in Files, file[f].state = "REPLICATED"
               PROVE  LET up == node[NodeOf[f]].pbox
                      IN  up # None /\ pbox[up] =
                            [sum |-> ContentOf[f], chunks |-> Whole]
    BY DEF ReplicatedContentUndisturbed, ReplicatedContent
  <2>1. node[NodeOf[f]].pbox # None /\ node[NodeOf[f]].pbox = f /\ Given(f)
    BY DEF NodesNameUploads
  <2>2. pbox[f] = [sum |-> ContentOf[f], chunks |-> Whole]
    BY <2>1 DEF Given, TypeOK, PboxFile
  <2>3. QED BY <2>1, <2>2
<1>2. QED BY <1>1, TypeCorrect, NamesInvariant, PTL

(* ... and after crashes and failures it still names an upload of that file *)
(* under the right sum, though not necessarily of whole content.            *)
THEOREM PetaboxHasSum ==
    ASSUME OwnNodes
    PROVE  Spec => [](\A f \in Files : file[f].state = "REPLICATED" =>
                        /\ node[NodeOf[f]].pbox = f
                        /\ pbox[f].sum = ContentOf[f])
<1>1. NodesNameUploads => \A f \in Files : file[f].state = "REPLICATED" =>
                             /\ node[NodeOf[f]].pbox = f
                             /\ pbox[f].sum = ContentOf[f]
  BY DEF NodesNameUploads, Given
<1>2. QED BY <1>1, NamesInvariant, PTL

-----------------------------------------------------------------------------
(* The pipeline implements DepositLifecycle.                                *)

(* What the lifecycle sees of the pipeline: status, kept and stage there.   *)
Status == [f \in Files |-> file[f].state]
Kept == {c \in Contents : shafs[c] # <<>>}
Stage == [d \in Deposits |-> StageOf(deposit[d].state)]

Steps == [Lifecycle!Next]_(Lifecycle!vars)

(* A step that touches neither rows of deposits and files nor the contents  *)
(* of shafs nor mails stutters.                                             *)
LEMMA Hidden ==
    ASSUME UNCHANGED <<deposit, file, shafs, emails>>
    PROVE  Steps
  BY DEF Steps, Lifecycle!vars, StageOf

LEMMA Stages ==
    /\ \A s \in DepositState : StageOf(s) \in {"none", "open", "done", "copied"}
    /\ \A s \in DepositState : StageOf(s) = "none" <=> s = "absent"
    /\ \A s \in Finished : StageOf(s) \in {"done", "copied"}
    /\ StageOf("REGISTERED") = "open" /\ StageOf("UPLOADED") = "open"
    /\ StageOf("HASHED") = "done" /\ StageOf("COMPLETE_WITH_ERRORS") = "done"
    /\ StageOf("REPLICATED") = "copied"
  BY DEF StageOf, DepositState, Finished

(* Writing one row of deposits changes one stage.                           *)
LEMMA OneStage ==
    ASSUME TypeOK, NEW d \in Deposits, NEW row \in DepositRow, NEW s,
           StageOf(row.state) = s, deposit' = [deposit EXCEPT ![d] = row]
    PROVE  Stage' = [Stage EXCEPT ![d] = s]
  BY DEF TypeOK, Stage

LEMMA OneStatus ==
    ASSUME TypeOK, NEW f \in Files, NEW row \in FileRow,
           file' = [file EXCEPT ![f] = row]
    PROVE  Status' = [Status EXCEPT ![f] = row.state]
  BY DEF TypeOK, Status

LEMMA SameStatus == ASSUME UNCHANGED file PROVE Status' = Status
  BY DEF Status
LEMMA SameKept == ASSUME UNCHANGED shafs PROVE Kept' = Kept
  BY DEF Kept
LEMMA SameStage == ASSUME UNCHANGED deposit PROVE Stage' = Stage
  BY DEF Stage, StageOf

(* The files of a deposit that FilesIn finds are those NoneIn misses.       *)
LEMMA NoFileIn ==
    ASSUME NEW d, NEW states, FilesIn(d, states) = {}
    PROVE  Lifecycle!NoneIn(d, states)
  BY DEF FilesIn, FilesOf, Lifecycle!NoneIn

(* The steps of the lifecycle that a daemon takes for the file at hand.     *)
LEMMA OfFile ==
    ASSUME NEW f \in Files,
           \/ Lifecycle!Keep(f) \/ Lifecycle!Store(f)
           \/ Lifecycle!GiveUp(f) \/ Lifecycle!Replicate(f)
    PROVE  Steps
  BY DEF Steps, Lifecycle!Next

-----------------------------------------------------------------------------

LEMMA UserRefines == IInv /\ UserNext => Steps
<1> SUFFICES ASSUME IInv, UserNext PROVE Steps
  OBVIOUS
<1>0. TypeOK
  BY DEF IInv
<1> USE DEF disk, faults
<1>1. ASSUME NEW d \in Deposits, Register(d) PROVE Steps
  <2>1. Status' = [f \in Files |-> IF DepositOf[f] = d THEN "REGISTERED" ELSE Status[f]]
    BY <1>0, <1>1 DEF Register, NewRows, FilesOf, Status, TypeOK, FileRow
  <2>2. Stage[d] = "none"
    BY <1>1, Stages DEF Register, Stage, StageOf
  <2>3. [deposit[d] EXCEPT !.state = "REGISTERED"] \in DepositRow
    BY <1>0 DEF TypeOK, DepositRow, DepositState
  <2>4. Stage' = [Stage EXCEPT ![d] = "open"]
    <3> DEFINE row == [deposit[d] EXCEPT !.state = "REGISTERED"]
    <3>1. row \in DepositRow /\ StageOf(row.state) = "open"
      BY <1>0, <2>3, Stages DEF TypeOK, DepositRow
    <3>2. deposit' = [deposit EXCEPT ![d] = row]
      BY <1>1 DEF Register
    <3> HIDE DEF row
    <3>3. QED BY <1>0, <3>1, <3>2, OneStage
  <2>5. Kept' = Kept /\ emails' = emails
    BY <1>1, SameKept DEF Register
  <2>6. Lifecycle!Register(d)
    BY <2>1, <2>2, <2>4, <2>5 DEF Lifecycle!Register, Status, Stage, Kept
  <2>7. QED BY <2>6 DEF Steps, Lifecycle!Next
<1>2. ASSUME NEW d \in Deposits, RegisterInvalid(d) PROVE Steps
  <2>1. PICK s \in {"REGISTERED", "UPLOADED"} :
            deposit' = [deposit EXCEPT ![d].state = s]
    BY <1>2 DEF RegisterInvalid
  <2>2. Stage[d] = "none"
    BY <1>2, Stages DEF RegisterInvalid, Stage, StageOf
  <2>3. [deposit[d] EXCEPT !.state = s] \in DepositRow
    BY <1>0 DEF TypeOK, DepositRow, DepositState
  <2>4. Stage' = [Stage EXCEPT ![d] = "open"]
    <3> DEFINE row == [deposit[d] EXCEPT !.state = s]
    <3>1. row \in DepositRow /\ StageOf(row.state) = "open"
      BY <1>0, <2>3, Stages DEF TypeOK, DepositRow
    <3>2. deposit' = [deposit EXCEPT ![d] = row]
      BY <2>1
    <3> HIDE DEF row
    <3>3. QED BY <1>0, <3>1, <3>2, OneStage
  <2>5. Kept' = Kept /\ emails' = emails /\ Status' = Status
    BY <1>2, SameKept, SameStatus DEF RegisterInvalid
  <2>6. Lifecycle!Register(d)
    BY <2>2, <2>4, <2>5 DEF Lifecycle!Register, Status, Stage, Kept
  <2>7. QED BY <2>6 DEF Steps, Lifecycle!Next
<1>3. ASSUME NEW d \in Deposits, DepositCompat(d) PROVE Steps
  <2>1. Status' = [f \in Files |-> IF DepositOf[f] = d THEN "UPLOADED" ELSE Status[f]]
    BY <1>0, <1>3 DEF DepositCompat, NewRows, FilesOf, Status, TypeOK, FileRow
  <2>2. Stage[d] = "none"
    BY <1>3, Stages DEF DepositCompat, Stage, StageOf
  <2>3. [deposit[d] EXCEPT !.state = "UPLOADED"] \in DepositRow
    BY <1>0 DEF TypeOK, DepositRow, DepositState
  <2>4. Stage' = [Stage EXCEPT ![d] = "open"]
    <3> DEFINE row == [deposit[d] EXCEPT !.state = "UPLOADED"]
    <3>1. row \in DepositRow /\ StageOf(row.state) = "open"
      BY <1>0, <2>3, Stages DEF TypeOK, DepositRow
    <3>2. deposit' = [deposit EXCEPT ![d] = row]
      BY <1>3 DEF DepositCompat
    <3> HIDE DEF row
    <3>3. QED BY <1>0, <3>1, <3>2, OneStage
  <2>5. Kept' = Kept /\ emails' = emails
    BY <1>3, SameKept DEF DepositCompat
  <2>6. Lifecycle!Register(d)
    BY <2>1, <2>2, <2>4, <2>5 DEF Lifecycle!Register, Status, Stage, Kept
  <2>7. QED BY <2>6 DEF Steps, Lifecycle!Next
<1>4. ASSUME NEW f \in Files, Upload(f) PROVE Steps
  <2>1. [file[f] EXCEPT !.state = "UPLOADED"] \in FileRow
    BY <1>0 DEF TypeOK, FileRow, FileState
  <2>2. Status' = [Status EXCEPT ![f] = "UPLOADED"]
    BY <1>0, <1>4, <2>1, OneStatus DEF Upload, TypeOK, FileRow
  <2>3. Status[f] = "REGISTERED"
    BY <1>4 DEF Upload, Status
  <2>4. Kept' = Kept /\ emails' = emails /\ Stage' = Stage
    BY <1>4, SameKept, SameStage DEF Upload
  <2>5. Lifecycle!Upload(f)
    BY <2>2, <2>3, <2>4
    DEF Lifecycle!Upload, Lifecycle!Advance, Status, Stage, Kept
  <2>6. QED BY <2>5 DEF Steps, Lifecycle!Next
<1>5. ASSUME NEW n \in Nodes, DeleteNode(n) PROVE Steps
  BY <1>5, Hidden DEF DeleteNode
<1>6. QED BY <1>1, <1>2, <1>3, <1>4, <1>5 DEF UserNext

LEMMA CdRefines == IInv /\ CdNext => Steps
<1> SUFFICES ASSUME IInv, CdNext PROVE Steps
  OBVIOUS
<1>0. TypeOK /\ CdStores /\ CdOnUploaded /\ CdFinishes
  BY DEF IInv, Stored, OnRightFiles, Finishes
<1>1. /\ CdFile \in Files /\ CdDeposit \in Deposits /\ cd.sum \in Contents \cup {None}
      /\ ContentOf[CdFile] \in Contents
  BY <1>0, CdReads
<1>f. PICK f \in Files : f = CdFile
  BY <1>1
<1> USE DEF disk, rows, CdKeeps
<1>2. CASE CdMove
  <2>1. Status[CdFile] = "UPLOADED"
    BY <1>0, <1>1, <1>2 DEF CdMove, CdOnUploaded, Status, CdFile
  <2>2. merged[CdFile] # <<>>
    BY <1>0, <1>2 DEF CdMove, CdStores, CdFile
  <2>3. Kept' = Kept \cup {ContentOf[CdFile]}
    BY <1>0, <1>1, <1>2, <2>2 DEF CdMove, Kept, TypeOK
  <2>4. Status' = Status /\ Stage' = Stage /\ emails' = emails
    BY <1>2, SameStatus, SameStage DEF CdMove
  <2>5. Lifecycle!Keep(f)
    BY <1>f, <2>1, <2>3, <2>4 DEF Lifecycle!Keep, Status, Stage, Kept
  <2>6. QED BY <2>5, OfFile
<1>3. CASE CdSaveFile
  <2>1. Status[CdFile] = "UPLOADED"
    BY <1>0, <1>1, <1>3 DEF CdSaveFile, CdOnUploaded, Status, CdFile
  <2>2. Kept' = Kept /\ Stage' = Stage /\ emails' = emails
    BY <1>3, SameKept, SameStage DEF CdSaveFile
  <2>3. CASE cd.step = "hashed" /\ file' = [file EXCEPT ![CdFile] =
                        [state |-> "HASHED", sum |-> cd.sum, node |-> TRUE]]
    <3>1. [state |-> "HASHED", sum |-> cd.sum, node |-> TRUE] \in FileRow
      BY <1>1 DEF FileRow, FileState
    <3>2. Status' = [Status EXCEPT ![CdFile] = "HASHED"]
      BY <1>0, <1>1, <2>3, <3>1, OneStatus
    <3>3. ContentOf[CdFile] \in Kept
      BY <1>0, <1>1, <2>3 DEF CdStores, Kept, CdFile
    <3>4. Lifecycle!Store(f)
      BY <1>f, <2>1, <2>2, <3>2, <3>3
      DEF Lifecycle!Store, Lifecycle!Advance, Status, Stage, Kept
    <3>5. QED BY <3>4, OfFile
  <2>4. CASE file' = [file EXCEPT ![CdFile] =
                        [state |-> "ERROR", sum |-> cd.sum, node |-> FALSE]]
    <3>1. [state |-> "ERROR", sum |-> cd.sum, node |-> FALSE] \in FileRow
      BY <1>1 DEF FileRow, FileState
    <3>2. Status' = [Status EXCEPT ![CdFile] = "ERROR"]
      BY <1>0, <1>1, <2>4, <3>1, OneStatus
    <3>3. Lifecycle!GiveUp(f)
      BY <1>f, <2>1, <2>2, <3>2
      DEF Lifecycle!GiveUp, Lifecycle!Advance, Status, Stage, Kept
    <3>4. QED BY <3>3, OfFile
  <2>5. QED BY <1>3, <2>3, <2>4 DEF CdSaveFile
<1>4. CASE CdSaveDeposit
  <2>1. PICK row \in DepositRow :
            /\ row.state \in {"HASHED", "COMPLETE_WITH_ERRORS"}
            /\ deposit' = [deposit EXCEPT ![CdDeposit] = row]
    <3> DEFINE new == [state |-> IF file[CdFile].state = "ERROR"
                                   THEN "COMPLETE_WITH_ERRORS" ELSE "HASHED",
                       hashed |-> TRUE]
    <3>1. new \in DepositRow /\ new.state \in {"HASHED", "COMPLETE_WITH_ERRORS"}
      BY DEF DepositRow, DepositState
    <3>2. deposit' = [deposit EXCEPT ![CdDeposit] = new]
      BY <1>4 DEF CdSaveDeposit
    <3> HIDE DEF new
    <3>3. QED BY <3>1, <3>2
  <2>2. Stage' = [Stage EXCEPT ![CdDeposit] = "done"]
    <3>1. StageOf(row.state) = "done"
      BY <2>1, Stages
    <3>2. QED BY <1>0, <1>1, <2>1, <3>1, OneStage
  <2>3. Stage[CdDeposit] # "none"
    BY <1>0, <1>1, <1>4, DepositsAtHand, Stages
    DEF CdSaveDeposit, Stage, TypeOK, DepositRow
  <2>4. Lifecycle!NoneIn(CdDeposit, {"REGISTERED", "UPLOADED"})
    BY <1>0, <1>4, NoFileIn DEF CdSaveDeposit, CdFinishes, Settled
  <2>5. Status' = Status /\ Kept' = Kept /\ emails' = emails
    BY <1>4, SameStatus, SameKept DEF CdSaveDeposit
  <2>6. Lifecycle!Finish(CdDeposit)
    BY <2>2, <2>3, <2>4, <2>5 DEF Lifecycle!Finish, Status, Stage, Kept
  <2>7. QED BY <1>1, <2>6 DEF Steps, Lifecycle!Next
<1>5. CASE CdEmail
  <2>1. deposit[CdDeposit].state \in Finished /\ emails[CdDeposit] = 0
    BY <1>0, <1>5 DEF CdEmail, CdFinishes
  <2>2. Stage[CdDeposit] \in {"done", "copied"}
    BY <1>1, <2>1, Stages DEF Stage
  <2>3. emails' = [emails EXCEPT ![CdDeposit] = 1]
    BY <1>0, <1>1, <1>5, <2>1 DEF CdEmail, TypeOK
  <2>4. Status' = Status /\ Kept' = Kept /\ Stage' = Stage
    BY <1>5, SameStatus, SameKept, SameStage DEF CdEmail
  <2>5. Lifecycle!Tell(CdDeposit)
    BY <2>1, <2>2, <2>3, <2>4 DEF Lifecycle!Tell, Status, Stage, Kept
  <2>6. QED BY <1>1, <2>5 DEF Steps, Lifecycle!Next
<1>6. CASE \/ CdSweep \/ CdSweepEnd \/ CdMerge \/ CdTree \/ CdReplace
           \/ CdFinalize \/ \E g \in Files : CdPick(g)
  BY <1>6, Hidden DEF CdSweep, CdSweepEnd, CdMerge, CdTree, CdReplace,
                      CdFinalize, CdPick
<1>7. QED BY <1>2, <1>3, <1>4, <1>5, <1>6 DEF CdNext

LEMMA HdRefines == IInv /\ HdNext => Steps
<1> SUFFICES ASSUME IInv, HdNext PROVE Steps
  OBVIOUS
<1>0. TypeOK /\ HdOnHashed /\ HdFinishes
  BY DEF IInv, OnRightFiles, Finishes
<1>1. HdFile \in Files /\ HdDeposit \in Deposits /\ hd.deposit \in DepositRow
  BY <1>0, HdReads
<1>f. PICK f \in Files : f = HdFile
  BY <1>1
<1> USE DEF disk, rows, HdKeeps
<1>2. CASE HdMark
  <2>1. Status[HdFile] = "HASHED"
    BY <1>0, <1>1, <1>2 DEF HdMark, HdOnHashed, Status, HdFile
  <2>2. [file[HdFile] EXCEPT !.state = "REPLICATED"] \in FileRow
    BY <1>0, <1>1 DEF TypeOK, FileRow, FileState
  <2>3. Status' = [Status EXCEPT ![HdFile] = "REPLICATED"]
    BY <1>0, <1>1, <1>2, <2>2, OneStatus DEF HdMark, TypeOK, FileRow
  <2>4. Kept' = Kept /\ Stage' = Stage /\ emails' = emails
    BY <1>2, SameKept, SameStage DEF HdMark
  <2>5. Lifecycle!Replicate(f)
    BY <1>f, <2>1, <2>3, <2>4
    DEF Lifecycle!Replicate, Lifecycle!Advance, Status, Stage, Kept
  <2>6. QED BY <2>5, OfFile
<1>3. CASE HdSaveDeposit
  <2>1. [hd.deposit EXCEPT !.state = "REPLICATED"] \in DepositRow
    BY <1>1 DEF DepositRow, DepositState
  <2>2. Stage' = [Stage EXCEPT ![HdDeposit] = "copied"]
    <3> DEFINE row == [hd.deposit EXCEPT !.state = "REPLICATED"]
    <3>1. row \in DepositRow /\ StageOf(row.state) = "copied"
      BY <1>1, <2>1, Stages DEF DepositRow
    <3>2. deposit' = [deposit EXCEPT ![HdDeposit] = row]
      BY <1>3 DEF HdSaveDeposit
    <3> HIDE DEF row
    <3>3. QED BY <1>0, <1>1, <3>1, <3>2, OneStage
  <2>3. Stage[HdDeposit] # "none"
    BY <1>0, <1>1, <1>3, DepositsAtHand, Stages
    DEF HdSaveDeposit, Stage, TypeOK, DepositRow
  <2>4. Lifecycle!NoneIn(HdDeposit, {"REGISTERED", "UPLOADED", "HASHED"})
    BY <1>0, <1>3, NoFileIn DEF HdSaveDeposit, HdFinishes
  <2>5. Status' = Status /\ Kept' = Kept /\ emails' = emails
    BY <1>3, SameStatus, SameKept DEF HdSaveDeposit
  <2>6. Lifecycle!Copied(HdDeposit)
    BY <2>2, <2>3, <2>4, <2>5 DEF Lifecycle!Copied, Status, Stage, Kept
  <2>7. QED BY <1>1, <2>6 DEF Steps, Lifecycle!Next
<1>4. CASE \/ HdSweep \/ HdSweepEnd \/ HdLook \/ HdUpload \/ HdUploadFails
           \/ HdSaveNode \/ HdCount \/ \E g \in Files : HdPick(g)
  BY <1>4, Hidden DEF HdSweep, HdSweepEnd, HdLook, HdUpload, HdUploadFails,
                      HdSaveNode, HdCount, HdPick
<1>5. QED BY <1>2, <1>3, <1>4 DEF HdNext

LEMMA FaultRefines == Fault => Steps
  BY Hidden DEF Fault, CdReadError, CdMoveError, CdCrash, HdCrash, disk, rows,
                CdKeeps, HdKeeps

LEMMA InitRefines == Init => Lifecycle!Init
<1> SUFFICES ASSUME Init PROVE Lifecycle!Init
  OBVIOUS
<1>1. Status = [f \in Files |-> "absent"]
  BY DEF Init, Status
<1>2. Kept = {}
  BY DEF Init, Kept
<1>3. Stage = [d \in Deposits |-> "none"]
  BY DEF Init, Stage, StageOf, NoDeposit
<1>4. emails = [d \in Deposits |-> 0]
  BY DEF Init
<1>5. QED BY <1>1, <1>2, <1>3, <1>4 DEF Lifecycle!Init, Status, Kept, Stage

(* What the two daemons do to rows, directories and mail is the lifecycle   *)
(* of DepositLifecycle, whoever crashes and whatever fails: a file is never *)
(* stored before its content is kept, a deposit never finished before its   *)
(* files are settled, and its depositor told at most once.                  *)
THEOREM Refinement == Spec => Implements
<1>1. IInv /\ [Next]_vars => Steps
  <2>1. ASSUME IInv, UNCHANGED vars PROVE Steps
    BY <2>1, Hidden DEF vars
  <2>2. QED BY <2>1, UserRefines, CdRefines, HdRefines, FaultRefines DEF Next
<1>2. QED BY Invariant, InitRefines, <1>1, PTL DEF Spec, Implements, Steps, Lifecycle!Spec

=============================================================================
