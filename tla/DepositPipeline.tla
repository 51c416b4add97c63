--------------------------- MODULE DepositPipeline ---------------------------
(***************************************************************************)
(* From an uploaded DepositFile to a replicated one: the two daemons       *)
(* process_chunked_files and process_hashed_files of vault/utilities, the  *)
(* rows they share (Deposit, DepositFile, TreeNode), the directories they  *)
(* share (chunks/ and shafs of one organization) and Petabox.              *)
(*                                                                         *)
(* PostgreSQL commits every statement by itself (there is no transaction   *)
(* around a loop body), and Django's save() writes all columns of the      *)
(* instance, as they were when it was read.  A step of a daemon is one     *)
(* statement or one file operation; what it holds in memory between two of *)
(* them is in cd and hd.  One daemon of each kind runs, and all chunks are *)
(* on its machine.                                                         *)
(*                                                                         *)
(* The upload of a file is one step here: ChunkUpload has its details.     *)
(***************************************************************************)
EXTENDS Naturals, Sequences, FiniteSets

CONSTANTS
    Files,       \* ids of DepositFile rows
    Deposits,    \* ids of Deposit rows
    DepositOf,   \* the deposit column, a function of Files
    Nodes,       \* (parent, name) of FILE nodes
    NodeOf,      \* where each file goes in the tree, a function of Files
    Contents,    \* possible contents, hence SHA-256 sums
    ContentOf,   \* the bytes uploaded for each file
    N,           \* number of chunks of every file
    None,        \* the null value
    MaxCrashes,  \* bound: daemons killed
    MaxFailures, \* bound: chunk files that cannot be read, failed moves
    MaxDeletes   \* bound: deletions of nodes by users

ASSUME FilesAssumption == Files \subseteq Nat /\ Files # {}
ASSUME ColumnsAssumption == /\ DepositOf \in [Files -> Deposits]
                            /\ NodeOf \in [Files -> Nodes]
                            /\ ContentOf \in [Files -> Contents]
ASSUME NAssumption == N \in Nat \ {0}
ASSUME NoneAssumption == None \notin Files /\ None \notin Contents
ASSUME BoundsAssumption ==
    MaxCrashes \in Nat /\ MaxFailures \in Nat /\ MaxDeletes \in Nat

Chunk == 1..N
Whole == [i \in Chunk |-> i]     \* the chunks in order, once each
FilesOf(d) == {f \in Files : DepositOf[f] = d}

VARIABLES
    deposit,   \* Deposit rows: state, and whether hashed_at is set
    file,      \* DepositFile rows: state, sha256_sum, whether tree_node is set
    node,      \* TreeNode rows: status, sha256_sum, the upload pbox_path names
    chunks,    \* .tmp files of each file: none, of the right or a wrong size
    merged,    \* chunks appended to each <flow_identifier>.merged.tmp
    shafs,     \* for each sum, what the file of that name holds; <<>>: no file
    pbox,      \* what Petabox was given for each file: its sum, its chunks
    emails,    \* completion mails sent for each deposit
    cd,        \* memory of process_chunked_files
    hd,        \* memory of process_hashed_files
    crashes, failures, deletes   \* faults and deletions so far

rows == <<deposit, file, node>>
disk == <<chunks, merged, shafs>>
faults == <<crashes, failures, deletes>>
vars == <<deposit, file, node, chunks, merged, shafs, pbox, emails, cd, hd,
          crashes, failures, deletes>>

-----------------------------------------------------------------------------

DepositState == {"absent", "REGISTERED", "UPLOADED", "HASHED", "REPLICATED",
                 "COMPLETE_WITH_ERRORS"}
FileState == {"absent", "REGISTERED", "UPLOADED", "HASHED", "REPLICATED",
              "ERROR"}
DepositRow == [state : DepositState, hashed : BOOLEAN]
FileRow == [state : FileState, sum : Contents \cup {None}, node : BOOLEAN]
NodeRow == [status : {"absent", "live", "deleted"},
            sum : Contents \cup {None}, pbox : Files \cup {None}]
PboxFile == [sum : Contents \cup {None}, chunks : Seq(Chunk)]

(* A daemon: the step it is at, the rest of the query result it loops over, *)
(* and of the file at hand: the Deposit and TreeNode instances it has read. *)
CdStep == {"sleep", "pick", "merge", "move", "tree", "replace", "hashed",
           "error", "finalize", "deposit", "email"}
HdStep == {"sleep", "pick", "look", "upload", "node", "mark", "count",
           "deposit"}
Cd == [step : CdStep, todo : SUBSET Files, file : Files, next : Chunk,
       sum : Contents \cup {None}, deposit : DepositRow, node : NodeRow]
Hd == [step : HdStep, todo : SUBSET Files, file : Files,
       deposit : DepositRow, node : NodeRow]

NoDeposit == [state |-> "absent", hashed |-> FALSE]
NoNode == [status |-> "absent", sum |-> None, pbox |-> None]
NoPboxFile == [sum |-> None, chunks |-> <<>>]
AnyFile == CHOOSE f \in Files : TRUE
CdIdle == [step |-> "sleep", todo |-> {}, file |-> AnyFile, next |-> 1,
           sum |-> None, deposit |-> NoDeposit, node |-> NoNode]
HdIdle == [step |-> "sleep", todo |-> {}, file |-> AnyFile,
           deposit |-> NoDeposit, node |-> NoNode]

(* Every variable has its type.                                             *)
TypeOK ==
    /\ deposit \in [Deposits -> DepositRow]
    /\ file \in [Files -> FileRow]
    /\ node \in [Nodes -> NodeRow]
    /\ chunks \in [Files -> {"none", "right", "wrong"}]
    /\ merged \in [Files -> Seq(Chunk)]
    /\ shafs \in [Contents -> Seq(Chunk)]
    /\ pbox \in [Files -> PboxFile]
    /\ emails \in [Deposits -> Nat]
    /\ cd \in Cd
    /\ hd \in Hd
    /\ crashes \in 0..MaxCrashes
    /\ failures \in 0..MaxFailures
    /\ deletes \in 0..MaxDeletes

Init ==
    /\ deposit = [d \in Deposits |-> NoDeposit]
    /\ file = [f \in Files |-> [state |-> "absent", sum |-> None,
                                node |-> FALSE]]
    /\ node = [n \in Nodes |-> NoNode]
    /\ chunks = [f \in Files |-> "none"]
    /\ merged = [f \in Files |-> <<>>]
    /\ shafs = [c \in Contents |-> <<>>]
    /\ pbox = [f \in Files |-> NoPboxFile]
    /\ emails = [d \in Deposits |-> 0]
    /\ cd = CdIdle
    /\ hd = HdIdle
    /\ crashes = 0 /\ failures = 0 /\ deletes = 0

(* The files of deposit d that are in one of the given states.              *)
FilesIn(d, states) == {f \in FilesOf(d) : file[f].state \in states}

-----------------------------------------------------------------------------
(* What users cause.                                                        *)

NewRows(d, s) ==
    [f \in Files |-> IF f \in FilesOf(d) THEN [file[f] EXCEPT !.state = s]
                                         ELSE file[f]]

(* register_deposit: the Deposit, then all of its files.                    *)
Register(d) ==
    /\ deposit[d].state = "absent"
    /\ deposit' = [deposit EXCEPT ![d].state = "REGISTERED"]
    /\ file' = NewRows(d, "REGISTERED")
    /\ UNCHANGED <<node, disk, pbox, emails, cd, hd, faults>>

(* A file entry that does not validate answers 400 once the Deposit is      *)
(* there, in register_deposit and in deposit_compat: it keeps no files.     *)
RegisterInvalid(d) ==
    /\ deposit[d].state = "absent"
    /\ \E s \in {"REGISTERED", "UPLOADED"} :
          deposit' = [deposit EXCEPT ![d].state = s]
    /\ UNCHANGED <<file, node, disk, pbox, emails, cd, hd, faults>>

(* deposit_compat: one file, sent whole and registered as uploaded.         *)
DepositCompat(d) ==
    /\ deposit[d].state = "absent"
    /\ Cardinality(FilesOf(d)) = 1
    /\ deposit' = [deposit EXCEPT ![d].state = "UPLOADED"]
    /\ file' = NewRows(d, "UPLOADED")
    /\ chunks' = [f \in Files |-> IF f \in FilesOf(d) THEN "right"
                                                      ELSE chunks[f]]
    /\ UNCHANGED <<node, merged, shafs, pbox, emails, cd, hd, faults>>

(* flow_chunk saw all chunks of f; a chunk may have been written twice by   *)
(* then, or be later.                                                       *)
Upload(f) ==
    /\ file[f].state = "REGISTERED"
    /\ file' = [file EXCEPT ![f].state = "UPLOADED"]
    /\ \E size \in {"right", "wrong"} : chunks' = [chunks EXCEPT ![f] = size]
    /\ UNCHANGED <<deposit, node, merged, shafs, pbox, emails, cd, hd, faults>>

(* TreeNode.delete: the row stays, hidden.                                  *)
DeleteNode(n) ==
    /\ node[n].status = "live"
    /\ deletes < MaxDeletes
    /\ deletes' = deletes + 1
    /\ node' = [node EXCEPT ![n].status = "deleted"]
    /\ UNCHANGED <<deposit, file, disk, pbox, emails, cd, hd, crashes,
                   failures>>

-----------------------------------------------------------------------------
(* process_chunked_files: the loop over UPLOADED files.                     *)

CdFile == cd.file
CdNode == NodeOf[cd.file]
CdDeposit == DepositOf[cd.file]
CdGoto(s) == cd' = [cd EXCEPT !.step = s]
CdKeeps == UNCHANGED <<pbox, hd, crashes, deletes>>

CdSweep ==
    /\ cd.step = "sleep"
    /\ \E f \in Files : file[f].state = "UPLOADED"
    /\ cd' = [cd EXCEPT !.step = "pick",
                 !.todo = {f \in Files : file[f].state = "UPLOADED"}]
    /\ UNCHANGED <<rows, disk, emails, failures>> /\ CdKeeps

CdSweepEnd ==
    /\ cd.step = "pick"
    /\ cd.todo = {}
    /\ cd' = CdIdle
    /\ UNCHANGED <<rows, disk, emails, failures>> /\ CdKeeps

(* Take a file of the query (which has no order), read its deposit and add  *)
(* up the sizes of its chunks.                                              *)
AfterSizes == [none |-> "pick", right |-> "merge", wrong |-> "error"]

\* Mutant: the file is not taken off the list.
CdPickAgain(f) ==
    /\ cd.step = "pick"
    /\ f \in cd.todo
    /\ cd' = [cd EXCEPT !.step = AfterSizes[chunks[f]],
                        !.file = f, !.next = 1, !.sum = None,
                        !.deposit = deposit[DepositOf[f]]]
    /\ UNCHANGED <<rows, disk, emails, failures>> /\ CdKeeps

CdPick(f) ==
    /\ cd.step = "pick"
    /\ f \in cd.todo
    /\ cd' = [cd EXCEPT !.step = AfterSizes[chunks[f]],
                        !.todo = @ \ {f}, !.file = f, !.next = 1, !.sum = None,
                        !.deposit = deposit[DepositOf[f]]]
    /\ UNCHANGED <<rows, disk, emails, failures>> /\ CdKeeps

\* Mutants: the loop ends one chunk too early / too late.
CdMergeUpTo(last) ==
    /\ cd.step = "merge"
    /\ merged' = [merged EXCEPT ![CdFile] = Append(@, cd.next)]
    /\ cd' = IF cd.next >= last THEN [cd EXCEPT !.step = "move"]
                                ELSE [cd EXCEPT !.next = cd.next + 1]
    /\ UNCHANGED <<rows, chunks, shafs, emails, failures>> /\ CdKeeps

CdMergeTooFew == CdMergeUpTo(N - 1)

(* Append one chunk to the merged file, whatever that holds already.        *)
CdMerge ==
    /\ cd.step = "merge"
    /\ merged' = [merged EXCEPT ![CdFile] = Append(@, cd.next)]
    /\ cd' = IF cd.next = N THEN [cd EXCEPT !.step = "move"]
                            ELSE [cd EXCEPT !.next = cd.next + 1]
    /\ UNCHANGED <<rows, chunks, shafs, emails, failures>> /\ CdKeeps

(* A chunk cannot be read: the file stays UPLOADED for the next sweep.      *)
CdReadError ==
    /\ cd.step = "merge"
    /\ failures < MaxFailures
    /\ failures' = failures + 1
    /\ CdGoto("pick")
    /\ UNCHANGED <<rows, disk, emails>> /\ CdKeeps

(* move_into_shafs under the sum of the bytes that were read.               *)
CdMove ==
    /\ cd.step = "move"
    /\ shafs' = [shafs EXCEPT ![ContentOf[CdFile]] = merged[CdFile]]
    /\ merged' = [merged EXCEPT ![CdFile] = <<>>]
    /\ cd' = [cd EXCEPT !.step = "tree", !.sum = ContentOf[CdFile]]
    /\ UNCHANGED <<rows, chunks, emails, failures>> /\ CdKeeps

\* Mutant: the error is logged and the loop goes on.
CdMoveErrorIgnored ==
    /\ cd.step = "move"
    /\ failures < MaxFailures
    /\ failures' = failures + 1
    /\ cd' = [cd EXCEPT !.step = "tree", !.sum = ContentOf[CdFile]]
    /\ UNCHANGED <<rows, disk, emails>> /\ CdKeeps

CdMoveError ==
    /\ cd.step = "move"
    /\ failures < MaxFailures
    /\ failures' = failures + 1
    /\ cd' = [cd EXCEPT !.step = "error", !.sum = ContentOf[CdFile]]
    /\ UNCHANGED <<rows, disk, emails>> /\ CdKeeps

(* make_or_find_file_node: get_or_create does not see a deleted row but     *)
(* collides with it, and nothing catches the IntegrityError: the daemon     *)
(* exits and its supervisor starts it anew.                                 *)
CdTree ==
    /\ cd.step = "tree"
    /\ \/ /\ node[CdNode].status = "absent"
          /\ node' = [node EXCEPT ![CdNode] =
                         [status |-> "live", sum |-> cd.sum, pbox |-> None]]
          /\ CdGoto("hashed")
       \/ /\ node[CdNode].status = "live"
          /\ cd' = [cd EXCEPT !.step = "replace", !.node = node[CdNode]]
          /\ UNCHANGED node
       \/ /\ node[CdNode].status = "deleted"
          /\ cd' = CdIdle
          /\ UNCHANGED node
    /\ UNCHANGED <<deposit, file, disk, emails, failures>> /\ CdKeeps

(* "We just replaced the old file": save the instance read before with the  *)
(* new sums.  If the row was deleted meanwhile, the save would also bring   *)
(* it back, which the trigger refuses when the size changes as well (other  *)
(* contents may or may not have another size); the exception is logged.     *)
CdReplace ==
    /\ cd.step = "replace"
    /\ \/ node' = [node EXCEPT ![CdNode] = [cd.node EXCEPT !.sum = cd.sum]]
       \/ /\ node[CdNode].status = "deleted"
          /\ node[CdNode].sum # cd.sum
          /\ UNCHANGED node
    /\ CdGoto("hashed")
    /\ UNCHANGED <<deposit, file, disk, emails, failures>> /\ CdKeeps

\* Mutant: an error does not finish the deposit.
CdSaveFileOnly ==
    /\ \/ /\ cd.step = "hashed"
          /\ file' = [file EXCEPT ![CdFile] =
                        [state |-> "HASHED", sum |-> cd.sum, node |-> TRUE]]
          /\ CdGoto("finalize")
       \/ /\ cd.step = "error"
          /\ file' = [file EXCEPT ![CdFile] =
                        [state |-> "ERROR", sum |-> cd.sum, node |-> FALSE]]
          /\ CdGoto("pick")
    /\ UNCHANGED <<deposit, node, disk, emails, failures>> /\ CdKeeps

CdSaveFile ==
    /\ \/ /\ cd.step = "hashed"
          /\ file' = [file EXCEPT ![CdFile] =
                        [state |-> "HASHED", sum |-> cd.sum, node |-> TRUE]]
       \/ /\ cd.step = "error"
          /\ file' = [file EXCEPT ![CdFile] =
                        [state |-> "ERROR", sum |-> cd.sum, node |-> FALSE]]
    /\ CdGoto("finalize")
    /\ UNCHANGED <<deposit, node, disk, emails, failures>> /\ CdKeeps

\* Mutants: files still to be uploaded do not count / no file counts.
CdFinalizeEarly ==
    /\ cd.step = "finalize"
    /\ IF /\ cd.deposit.state \in {"REGISTERED", "UPLOADED"}
          /\ FilesIn(CdDeposit, {"UPLOADED"}) = {}
         THEN CdGoto("deposit") ELSE CdGoto("pick")
    /\ UNCHANGED <<rows, disk, emails, failures>> /\ CdKeeps

CdFinalizeEach ==
    /\ cd.step = "finalize"
    /\ CdGoto("deposit")
    /\ UNCHANGED <<rows, disk, emails, failures>> /\ CdKeeps

(* finalize_deposit: is_deposit_uploaded looks at the deposit as read by    *)
(* CdPick and at the files as they are now.                                 *)
CdFinalize ==
    /\ cd.step = "finalize"
    /\ IF /\ cd.deposit.state \in {"REGISTERED", "UPLOADED"}
          /\ FilesIn(CdDeposit, {"REGISTERED", "UPLOADED"}) = {}
         THEN CdGoto("deposit") ELSE CdGoto("pick")
    /\ UNCHANGED <<rows, disk, emails, failures>> /\ CdKeeps

(* The state follows the one file that was handled last.                    *)
CdSaveDeposit ==
    /\ cd.step = "deposit"
    /\ deposit' = [deposit EXCEPT ![CdDeposit] =
          [state |-> IF file[CdFile].state = "ERROR"
                       THEN "COMPLETE_WITH_ERRORS" ELSE "HASHED",
           hashed |-> TRUE]]
    /\ CdGoto("email")
    /\ UNCHANGED <<file, node, disk, emails, failures>> /\ CdKeeps

CdEmail ==
    /\ cd.step = "email"
    /\ emails' = [emails EXCEPT ![CdDeposit] = @ + 1]
    /\ CdGoto("pick")
    /\ UNCHANGED <<rows, disk, failures>> /\ CdKeeps

(* The daemon is killed, or send_mail raises, anywhere in a sweep.          *)
CdCrash ==
    /\ cd.step # "sleep"
    /\ crashes < MaxCrashes
    /\ crashes' = crashes + 1
    /\ cd' = CdIdle
    /\ UNCHANGED <<rows, disk, pbox, emails, hd, failures, deletes>>

CdNext ==
    \/ CdSweep \/ CdSweepEnd \/ CdMerge \/ CdMove \/ CdTree \/ CdReplace
    \/ CdSaveFile \/ CdFinalize \/ CdSaveDeposit \/ CdEmail
    \/ \E f \in Files : CdPick(f)

-----------------------------------------------------------------------------
(* process_hashed_files: the loop over HASHED files, in the order of ids.   *)

HdFile == hd.file
HdNode == NodeOf[hd.file]
HdDeposit == DepositOf[hd.file]
HdGoto(s) == hd' = [hd EXCEPT !.step = s]
HdKeeps == UNCHANGED <<disk, emails, cd, failures, deletes>>

HdSweep ==
    /\ hd.step = "sleep"
    /\ \E f \in Files : file[f].state = "HASHED"
    /\ hd' = [hd EXCEPT !.step = "pick",
                 !.todo = {f \in Files : file[f].state = "HASHED"}]
    /\ UNCHANGED <<rows, pbox, crashes>> /\ HdKeeps

HdSweepEnd ==
    /\ hd.step = "pick"
    /\ hd.todo = {}
    /\ hd' = HdIdle
    /\ UNCHANGED <<rows, pbox, crashes>> /\ HdKeeps

(* Take the next file, read its deposit; pass over it if its content is not *)
(* here.                                                                    *)
HdPick(f) ==
    /\ hd.step = "pick"
    /\ f \in hd.todo /\ \A g \in hd.todo : f <= g
    /\ hd' = [hd EXCEPT
                 !.step = IF shafs[file[f].sum] = <<>> THEN "pick" ELSE "look",
                 !.todo = @ \ {f}, !.file = f, !.deposit = deposit[DepositOf[f]]]
    /\ UNCHANGED <<rows, pbox, crashes>> /\ HdKeeps

\* Mutant: a file whose node has a path already is left alone.
HdLookOnce ==
    /\ hd.step = "look"
    /\ hd' = [hd EXCEPT
                 !.step = IF node[HdNode].pbox = None THEN "upload" ELSE "pick",
                 !.node = node[HdNode]]
    /\ UNCHANGED <<rows, pbox, crashes>> /\ HdKeeps

(* Read its node, deleted or not: was it uploaded before?                   *)
HdLook ==
    /\ hd.step = "look"
    /\ hd' = [hd EXCEPT
                 !.step = IF node[HdNode].pbox = None THEN "upload" ELSE "mark",
                 !.node = node[HdNode]]
    /\ UNCHANGED <<rows, pbox, crashes>> /\ HdKeeps

(* Petabox takes the file (status 200) ...                                  *)
HdUpload ==
    /\ hd.step = "upload"
    /\ pbox' = [pbox EXCEPT ![HdFile] =
                   [sum |-> file[HdFile].sum,
                    chunks |-> shafs[file[HdFile].sum]]]
    /\ HdGoto("node")
    /\ UNCHANGED <<rows, crashes>> /\ HdKeeps

\* Mutant: the status code is not looked at.
HdUploadFailsUnseen ==
    /\ hd.step = "upload"
    /\ HdGoto("node")
    /\ UNCHANGED <<rows, pbox, crashes>> /\ HdKeeps

(* ... or does not (503, or any other failure): on to the next file.        *)
HdUploadFails ==
    /\ hd.step = "upload"
    /\ HdGoto("pick")
    /\ UNCHANGED <<rows, pbox, crashes>> /\ HdKeeps

(* tree_node.save() writes the row as it was before the upload.  When the   *)
(* row was both deleted and given another size in the meantime the trigger  *)
(* raises, and the daemon exits.                                            *)
HdSaveNode ==
    /\ hd.step = "node"
    /\ \/ /\ node' = [node EXCEPT ![HdNode] = [hd.node EXCEPT !.pbox = HdFile]]
          /\ hd' = [hd EXCEPT !.step = "mark", !.node.pbox = HdFile]
       \/ /\ node[HdNode].status # hd.node.status
          /\ node[HdNode].sum # hd.node.sum
          /\ hd' = HdIdle
          /\ UNCHANGED node
    /\ UNCHANGED <<deposit, file, pbox, crashes>> /\ HdKeeps

HdMark ==
    /\ hd.step = "mark"
    /\ file' = [file EXCEPT ![HdFile].state = "REPLICATED"]
    /\ HdGoto("count")
    /\ UNCHANGED <<deposit, node, pbox, crashes>> /\ HdKeeps

\* Mutant: HASHED files do not count.
HdCountUploads ==
    /\ hd.step = "count"
    /\ IF FilesIn(HdDeposit, {"REGISTERED", "UPLOADED"}) = {}
         THEN HdGoto("deposit") ELSE HdGoto("pick")
    /\ UNCHANGED <<rows, pbox, crashes>> /\ HdKeeps

HdCount ==
    /\ hd.step = "count"
    /\ IF FilesIn(HdDeposit, {"REGISTERED", "UPLOADED", "HASHED"}) = {}
         THEN HdGoto("deposit") ELSE HdGoto("pick")
    /\ UNCHANGED <<rows, pbox, crashes>> /\ HdKeeps

(* deposit.save() writes the row as HdPick read it, but for the state.      *)
HdSaveDeposit ==
    /\ hd.step = "deposit"
    /\ deposit' = [deposit EXCEPT ![HdDeposit] =
                      [hd.deposit EXCEPT !.state = "REPLICATED"]]
    /\ HdGoto("pick")
    /\ UNCHANGED <<file, node, pbox, crashes>> /\ HdKeeps

HdCrash ==
    /\ hd.step # "sleep"
    /\ crashes < MaxCrashes
    /\ crashes' = crashes + 1
    /\ hd' = HdIdle
    /\ UNCHANGED <<rows, pbox>> /\ HdKeeps

HdNext ==
    \/ HdSweep \/ HdSweepEnd \/ HdLook \/ HdUpload \/ HdUploadFails
    \/ HdSaveNode \/ HdMark \/ HdCount \/ HdSaveDeposit
    \/ \E f \in Files : HdPick(f)

-----------------------------------------------------------------------------

UserNext ==
    \/ \E d \in Deposits : Register(d) \/ RegisterInvalid(d) \/ DepositCompat(d)
    \/ \E f \in Files : Upload(f)
    \/ \E n \in Nodes : DeleteNode(n)

Fault == CdReadError \/ CdMoveError \/ CdCrash \/ HdCrash

Next == UserNext \/ CdNext \/ HdNext \/ Fault

Spec == Init /\ [][Next]_vars

(* Supervisors keep the daemons running, every turn of their loops ends,    *)
(* and a file that is offered to Petabox again and again is taken at last.  *)
FairSpec ==
    /\ Spec
    /\ WF_vars(CdNext)
    /\ WF_vars(HdNext)
    /\ \A f \in Files : SF_vars(HdFile = f /\ HdUpload)

-----------------------------------------------------------------------------
(* Properties.                                                              *)

Settled(d) == FilesIn(d, {"REGISTERED", "UPLOADED"}) = {}

(* A deposit that is finished, in the database or by the mail its depositor *)
(* got ("Your deposit ... is now complete", models.py:283), has no file     *)
(* that still has to be uploaded or hashed, and the mail was sent once:     *)
(* two daemons write the row from copies they read earlier, and only        *)
(* is_deposit_uploaded (process_chunked_files.py:275) keeps a second file,  *)
(* or a sweep after a crash, from finishing the deposit early or again.     *)
FinishedIsSettled ==
    \A d \in Deposits :
        /\ deposit[d].state \in {"HASHED", "REPLICATED",
                                 "COMPLETE_WITH_ERRORS"} => Settled(d)
        /\ emails[d] > 0 => Settled(d)

OneEmail == \A d \in Deposits : emails[d] <= 1

(* A HASHED or REPLICATED file can be found: its sum is that of what was    *)
(* uploaded, a file of that name is in shafs, and its tree node exists.     *)
(* The three are written by three steps of which any may be the last one    *)
(* before a crash, and hidden by none of them.                              *)
StoredUnderItsSum ==
    \A f \in Files : file[f].state \in {"HASHED", "REPLICATED"} =>
        /\ file[f].sum = ContentOf[f]
        /\ shafs[file[f].sum] # <<>>
        /\ file[f].node /\ node[NodeOf[f]].status # "absent"

(* What lies in shafs under a sum has that sum.                             *)
ShafsIntact == \A c \in Contents : shafs[c] \in {<<>>, Whole}

(* ... if no merge was interrupted: what one leaves behind is appended to   *)
(* by the next (process_chunked_files.py:127).                              *)
Undisturbed == crashes = 0 /\ failures = 0
ShafsIntactUndisturbed == Undisturbed => ShafsIntact

(* A REPLICATED deposit has no file left to replicate, whoever changed its  *)
(* files after process_hashed_files counted them (process_hashed_files:81). *)
ReplicatedIsDone ==
    \A d \in Deposits : deposit[d].state = "REPLICATED" =>
        FilesIn(d, {"REGISTERED", "UPLOADED", "HASHED"}) = {}

(* The node of a REPLICATED file names what Petabox holds: this content.    *)
ReplicatedContent ==
    \A f \in Files : file[f].state = "REPLICATED" =>
        LET up == node[NodeOf[f]].pbox
        IN  up # None /\ pbox[up] = [sum |-> ContentOf[f], chunks |-> Whole]

(* ... if what was merged is whole (it fails, too, where a file replaces    *)
(* another one that was replicated, process_chunked_files.py:223).          *)
ReplicatedContentUndisturbed == Undisturbed => ReplicatedContent

(* The state of a file only moves forward, though both daemons save whole   *)
(* rows they read at the start of a sweep.                                  *)
Rank == [absent |-> 0, REGISTERED |-> 1, UPLOADED |-> 2, HASHED |-> 3,
         ERROR |-> 4, REPLICATED |-> 4]

FilesGoForward ==
    [][\A f \in Files : file'[f].state = file[f].state
                       \/ Rank[file'[f].state] > Rank[file[f].state]]_vars

(* The pipeline implements DepositLifecycle: every step of a user, of a     *)
(* daemon or of a fault is one of its steps, or none.                       *)
StageOf(state) ==
    CASE state = "absent" -> "none"
      [] state \in {"REGISTERED", "UPLOADED"} -> "open"
      [] state \in {"HASHED", "COMPLETE_WITH_ERRORS"} -> "done"
      [] state = "REPLICATED" -> "copied"

Lifecycle == INSTANCE DepositLifecycle WITH
    status <- [f \in Files |-> file[f].state],
    kept <- {c \in Contents : shafs[c] # <<>>},
    stage <- [d \in Deposits |-> StageOf(deposit[d].state)],
    mails <- emails

Implements == Lifecycle!Spec

(* An uploaded file is replicated or given up at last, whatever crashes and *)
(* failures come in between.                                                *)
EveryFileEnds ==
    \A f \in Files : file[f].state = "UPLOADED" ~>
                      file[f].state \in {"REPLICATED", "ERROR"}

(* "Mark Deposit done if all deposit files are done"                        *)
(* (process_chunked_files.py:39): a deposit whose files are all settled is  *)
(* finished, and its depositor told, unless a daemon was killed (between    *)
(* the save of the last file and finalize_deposit nobody remembers that     *)
(* there is a deposit to finish).                                           *)
HasFiles(d) == \E f \in FilesOf(d) : file[f].state # "absent"

SettledIsFinished ==
    \A d \in Deposits : HasFiles(d) /\ Settled(d) ~>
        \/ /\ deposit[d].state \in {"HASHED", "REPLICATED",
                                    "COMPLETE_WITH_ERRORS"}
           /\ emails[d] = 1
        \/ crashes > 0

(* "if all deposit_files in this deposit are REPLICATED, then set           *)
(* Deposit.state=REPLICATED" (process_hashed_files.py:79): sooner or later  *)
(* it is, and remains so.                                                   *)
AllReplicatedThenDeposit ==
    \A d \in Deposits :
        HasFiles(d) /\ (\A f \in FilesOf(d) : file[f].state = "REPLICATED")
            ~> [](deposit[d].state = "REPLICATED")

(* A deposit with a file in error shows as complete with errors once it is  *)
(* finished (the label of the state, models.py:230).                        *)
ErrorsAreShown ==
    \A d \in Deposits : deposit[d].state \in {"HASHED", "REPLICATED"} =>
        FilesIn(d, {"ERROR"}) = {}

(* A deposit that was finished keeps its timestamp (a command of the site   *)
(* repairs rows that lack it, fix_deposit_timestamps_for_org.py:8).         *)
TimestampKept == \A d \in Deposits : emails[d] > 0 => deposit[d].hashed

(* A deleted node stays deleted: no code of the site undeletes.             *)
DeletedStays ==
    [][\A n \in Nodes : node[n].status = "deleted" =>
                          node'[n].status = "deleted"]_vars

=============================================================================
