---------------------------- MODULE DepositPage ----------------------------
(***************************************************************************)
(* The deposit page, static/js/pages/deposit-flow.js: files are added, one *)
(* click asks the server which of them exist already, the user chooses to  *)
(* skip or replace each of those, the rest is registered and uploaded.     *)
(*                                                                         *)
(* The page keeps the files in four places that different handlers change: *)
(* the array of the current batch, a dictionary of all that were added,    *)
(* the queue of flow.js and the list of paths to skip.  Each file is       *)
(* uploaded in one step here (ChunkUpload has the chunks), and the server  *)
(* (DepositPipeline) stores it some time later.                            *)
(***************************************************************************)
EXTENDS WarningDeposit

CONSTANTS
    Existing,     \* files the collection has when the page is opened
    MaxAdds,      \* bound: files added
    MaxDeposits,  \* bound: uses of the Upload button
    MaxDismissals,\* bound: clicks beside the warning
    MaxErrors     \* bound: answers with an error

ASSUME ExistingAssumption == Existing \subseteq Paths
ASSUME BoundsAssumption ==
    /\ MaxAdds \in Nat /\ MaxDeposits \in Nat
    /\ MaxDismissals \in Nat /\ MaxErrors \in Nat

VARIABLES
    files,       \* the batch
    filesDict,   \* every file that was added and not skipped since
    queue,       \* what flow.js has not sent yet
    button,      \* the Upload button is enabled
    modal,       \* the warning: shown, its rows and what is marked on them
    skipPathArray,
    skipReplaceIdDict,   \* by the index of a row
    registering, \* the request to register files is not answered
    payload,     \* the files in it
    uploading,   \* from flow.upload() to "complete"
    guard,       \* leaving the page is warned of
    polls,       \* deposit_status() that go on
    currentDepositId,    \* 0: undefined
    registered,  \* server: the files of each deposit
    arrived,     \* server: <<deposit, path>> that are uploaded
    stored,      \* server: those that are processed
    adds, clicks, dismissals, errors,   \* bounded counters
    late,        \* ghost: a file was added between the click and "complete"
    found,       \* ghost: which files were in the tree when the server was asked
    oneTop,      \* ghost: and whether at most one of the folders at the top did
    shown        \* ghost: what was marked for each path when it was confirmed

batch == <<files, filesDict, queue>>
choices == <<skipPathArray, skipReplaceIdDict>>
server == <<registered, arrived, stored, tree>>
counters == <<adds, clicks, dismissals, errors>>
vars == <<files, filesDict, queue, button, asking, modal, skipPathArray,
          skipReplaceIdDict, registering, payload, uploading, guard, polls,
          currentDepositId, registered, arrived, stored, tree, adds, clicks,
          dismissals, errors, late, found, oneTop, shown>>

Mark == {"none", "skip", "replace"}
Unmarked == [p \in Paths |-> "none"]
NoModal == [open |-> FALSE, dead |-> FALSE, rows |-> <<>>, marks |-> Unmarked]

(* Every variable has its type.                                             *)
TypeOK ==
    /\ files \subseteq Paths /\ filesDict \subseteq Paths /\ queue \subseteq Paths
    /\ button \in BOOLEAN
    /\ asking \subseteq Paths
    /\ modal \in [open : BOOLEAN, dead : BOOLEAN, rows : Seq(Paths),
                  marks : [Paths -> Mark]]
    /\ skipPathArray \in Seq(Paths)
    /\ DOMAIN skipReplaceIdDict \subseteq Nat
    /\ \A i \in DOMAIN skipReplaceIdDict : skipReplaceIdDict[i] \in Mark
    /\ registering \in BOOLEAN /\ payload \subseteq Paths
    /\ uploading \in BOOLEAN /\ guard \in BOOLEAN
    /\ polls \in Nat
    /\ currentDepositId \in Nat /\ currentDepositId <= Len(registered)
    /\ registered \in Seq(SUBSET Paths)
    /\ arrived \subseteq Nat \X Paths /\ stored \subseteq arrived
    /\ tree \subseteq Seq(Int)
    /\ adds \in 0..MaxAdds /\ clicks \in 0..MaxDeposits
    /\ dismissals \in 0..MaxDismissals /\ errors \in 0..MaxErrors
    /\ late \in BOOLEAN /\ found \subseteq Paths /\ oneTop \in BOOLEAN
    /\ shown \in [Paths -> Mark]

(* The nodes from below the collection down to the file p.                  *)
Way(p) == {SubSeq(NodeOf(p), 1, i) : i \in 1..Len(NodeOf(p))}

Init ==
    /\ files = {} /\ filesDict = {} /\ queue = {}
    /\ button = TRUE
    /\ asking = {}
    /\ modal = NoModal
    /\ skipPathArray = <<>> /\ skipReplaceIdDict = <<>>
    /\ registering = FALSE /\ payload = {}
    /\ uploading = FALSE
    /\ guard = FALSE
    /\ polls = 0
    /\ currentDepositId = 0
    /\ registered = <<>> /\ arrived = {} /\ stored = {}
    /\ tree = UNION {Way(p) : p \in Existing}
    /\ adds = 0 /\ clicks = 0 /\ dismissals = 0 /\ errors = 0
    /\ late = FALSE /\ found = {} /\ oneTop = TRUE
    /\ shown = Unmarked

-----------------------------------------------------------------------------
(* Files and the Upload button.                                             *)

(* fileAdded.  The warning covers the page.  Bound: no second file of a     *)
(* path while the first one waits.                                          *)
AddFile(p) ==
    /\ ~modal.open
    /\ adds < MaxAdds /\ adds' = adds + 1
    /\ p \notin queue
    /\ files' = files \cup {p}
    /\ filesDict' = filesDict \cup {p}
    /\ queue' = queue \cup {p}
    /\ late' = (late \/ asking # {} \/ registering \/ uploading)
    /\ UNCHANGED <<button, asking, modal, choices, registering, payload, uploading,
                   guard, polls, currentDepositId, server, clicks, dismissals,
                   errors, found, oneTop, shown>>

\* Mutant: the button stays enabled.
StartTwice ==
    /\ button /\ files # {}
    /\ clicks < MaxDeposits /\ clicks' = clicks + 1
    /\ asking' = files
    /\ UNCHANGED <<batch, button, modal, choices, registering, payload, uploading,
                   guard, polls, currentDepositId, server, adds, dismissals, errors,
                   late, found, oneTop, shown>>

(* start_deposit: asks for a warning.                                       *)
StartDeposit ==
    /\ button /\ files # {}
    /\ clicks < MaxDeposits /\ clicks' = clicks + 1
    /\ button' = FALSE
    /\ asking' = files
    /\ UNCHANGED <<batch, modal, choices, registering, payload, uploading, guard,
                   polls, currentDepositId, server, adds, dismissals, errors, late,
                   found, oneTop, shown>>

(* registerDeposit: posts the files as they are now.                        *)
RegisterDeposit(fs) ==
    /\ registering' = TRUE
    /\ payload' = fs

(* Rows for the paths of ps, in their order.                                *)
RowsOf(ps) ==
    {s \in [1..Cardinality(ps) -> ps] : \A i, j \in DOMAIN s : i < j => s[i] < s[j]}

(* Of the files in the answer only those without a folder are listed, if    *)
(* there are any.                                                           *)
AsksFor(ps) == IF ps \cap TopPaths # {} THEN ps \cap TopPaths ELSE ps

(* The answer to the request for a warning: no file, and the array, by now  *)
(* perhaps with more of them, is registered; or the rows, nothing marked.   *)
AnswerWarning ==
    /\ asking # {}
    /\ asking' = {}
    /\ found' = InTree(asking, tree)
    /\ oneTop' = OneTopFolder(asking, tree)
    /\ \E warned \in {Warned(asking, tree)} :
          \/ /\ warned = {}
             /\ guard' = TRUE
             /\ RegisterDeposit(files)
             /\ shown' = Unmarked
             /\ UNCHANGED modal
          \/ /\ warned # {}
             /\ guard' = FALSE
             /\ \E rows \in RowsOf(AsksFor(warned)) :
                   modal' = [open |-> TRUE, dead |-> FALSE, rows |-> rows,
                             marks |-> Unmarked]
             /\ UNCHANGED <<registering, payload, shown>>
    /\ UNCHANGED <<batch, button, choices, uploading, polls, currentDepositId,
                   server, counters, late>>

(* Any status but 200 is not looked at: the button stays disabled.          *)
WarningFails ==
    /\ asking # {}
    /\ errors < MaxErrors /\ errors' = errors + 1
    /\ asking' = {}
    /\ UNCHANGED <<batch, button, modal, choices, registering, payload, uploading,
                   guard, polls, currentDepositId, server, adds, clicks, dismissals,
                   late, found, oneTop, shown>>

-----------------------------------------------------------------------------
(* The warning.                                                             *)

MarkOf(i) == modal.marks[modal.rows[i]]
NotSelected == {i \in DOMAIN modal.rows : MarkOf(i) = "none"}
Works == modal.open /\ ~modal.dead

Choosing ==
    UNCHANGED <<batch, button, asking, registering, payload, uploading, guard, polls,
                currentDepositId, server, counters, late, found, oneTop, shown>>

Remember(i, mark) ==
    skipReplaceIdDict' = [k \in DOMAIN skipReplaceIdDict \cup {i} |->
                            IF k = i THEN mark ELSE skipReplaceIdDict[k]]

Skip(i) ==
    /\ Works /\ MarkOf(i) # "skip"
    /\ modal' = [modal EXCEPT !.marks[modal.rows[i]] = "skip"]
    /\ Remember(i, "skip")
    /\ skipPathArray' = Append(skipPathArray, modal.rows[i])
    /\ Choosing

(* splice(indexOf(p), 1): the last one goes if p is not there.              *)
Splice(s, p) ==
    LET at == {k \in DOMAIN s : s[k] = p}
        k  == IF at = {} THEN Len(s) ELSE CHOOSE i \in at : \A j \in at : i <= j
    IN  IF s = <<>> THEN s ELSE SubSeq(s, 1, k - 1) \o SubSeq(s, k + 1, Len(s))

\* Mutant: the path stays in the array.
ReplaceOnly(i) ==
    /\ Works /\ MarkOf(i) # "replace"
    /\ modal' = [modal EXCEPT !.marks[modal.rows[i]] = "replace"]
    /\ Remember(i, "replace")
    /\ UNCHANGED skipPathArray
    /\ Choosing

Replace(i) ==
    /\ Works /\ MarkOf(i) # "replace"
    /\ modal' = [modal EXCEPT !.marks[modal.rows[i]] = "replace"]
    /\ Remember(i, "replace")
    /\ skipPathArray' = IF MarkOf(i) = "skip" THEN Splice(skipPathArray, modal.rows[i])
                        ELSE skipPathArray
    /\ Choosing

MarkRest(mark) ==
    modal' = [modal EXCEPT !.marks =
                [p \in Paths |-> IF \E i \in NotSelected : modal.rows[i] = p
                                 THEN mark ELSE @[p]]]

(* Skip All and Replace All: all rows without a mark; the dictionary is not *)
(* written.                                                                 *)
SkipRemaining ==
    /\ Works
    /\ MarkRest("skip")
    /\ \E rest \in RowsOf({modal.rows[i] : i \in NotSelected}) :
          skipPathArray' = skipPathArray \o rest
    /\ UNCHANGED skipReplaceIdDict
    /\ Choosing

ReplaceRemaining ==
    /\ Works
    /\ MarkRest("replace")
    /\ UNCHANGED choices
    /\ Choosing

(* Confirm while a row has no mark: the warning is drawn anew from the      *)
(* dictionary.  An index in it that is no row is an exception before any    *)
(* button works.                                                            *)
ConfirmTooEarly ==
    /\ Works /\ NotSelected # {}
    /\ LET given == DOMAIN skipReplaceIdDict
           rows == modal.rows
       IN  modal' = [modal EXCEPT
              !.dead = ~(given \subseteq DOMAIN rows),
              !.marks = [p \in Paths |->
                  IF \E i \in given \cap DOMAIN rows : rows[i] = p
                  THEN skipReplaceIdDict[CHOOSE i \in given \cap DOMAIN rows :
                                            rows[i] = p]
                  ELSE "none"]]
    /\ UNCHANGED choices
    /\ Choosing

\* Mutant: the skipped files stay in the queue.
ConfirmKeepingQueue ==
    /\ Works /\ NotSelected = {}
    /\ modal' = NoModal
    /\ filesDict' = filesDict \ Range(skipPathArray)
    /\ RegisterDeposit(filesDict')
    /\ shown' = modal.marks
    /\ UNCHANGED <<files, queue, button, asking, choices, uploading, guard, polls,
                   currentDepositId, server, counters, late, found, oneTop>>

(* Confirm: the paths to skip leave the queue and the dictionary, and all   *)
(* that the dictionary has then is registered.                              *)
Confirm ==
    /\ Works /\ NotSelected = {}
    /\ modal' = NoModal
    /\ queue' = queue \ Range(skipPathArray)
    /\ filesDict' = filesDict \ Range(skipPathArray)
    /\ RegisterDeposit(filesDict')
    /\ shown' = modal.marks
    /\ UNCHANGED <<files, button, asking, choices, uploading, guard, polls,
                   currentDepositId, server, counters, late, found, oneTop>>

(* A click beside the warning closes it.                                    *)
Dismiss ==
    /\ modal.open
    /\ dismissals < MaxDismissals /\ dismissals' = dismissals + 1
    /\ modal' = NoModal
    /\ button' = TRUE
    /\ skipPathArray' = <<>>
    /\ UNCHANGED <<batch, asking, skipReplaceIdDict, registering, payload, uploading,
                   guard, polls, currentDepositId, server, adds, clicks, errors,
                   late, found, oneTop, shown>>

-----------------------------------------------------------------------------
(* The upload.                                                              *)

(* start() of a deposit that was registered.                                *)
AnswerRegister ==
    /\ registering
    /\ registering' = FALSE
    /\ registered' = Append(registered, payload)
    /\ currentDepositId' = Len(registered')
    /\ uploading' = TRUE
    /\ UNCHANGED <<batch, button, asking, modal, choices, payload, guard, polls,
                   arrived, stored, tree, counters, late, found, oneTop, shown>>

(* An error: start() takes the id from whatever JSON it got and starts      *)
(* uploading, or it cannot parse it.                                        *)
RegisterFails ==
    /\ registering
    /\ errors < MaxErrors /\ errors' = errors + 1
    /\ registering' = FALSE
    /\ \/ currentDepositId' = 0 /\ uploading' = TRUE
       \/ UNCHANGED <<currentDepositId, uploading>>
    /\ UNCHANGED <<batch, button, asking, modal, choices, payload, guard, polls,
                   server, adds, clicks, dismissals, late, found, oneTop, shown>>

(* flow.js gets a file across, if it is one of the deposit's; others are    *)
(* repeated for ever.  Those come last, as they were added last.            *)
Upload(p) ==
    /\ uploading /\ p \in queue
    /\ currentDepositId # 0 /\ p \in registered[currentDepositId]
    /\ queue' = queue \ {p}
    /\ arrived' = arrived \cup {<<currentDepositId, p>>}
    /\ UNCHANGED <<files, filesDict, button, asking, modal, choices, registering,
                   payload, uploading, guard, polls, currentDepositId, registered,
                   stored, tree, counters, late, found, oneTop, shown>>

\* Mutant: the batch is not emptied.
CompleteKeepingFiles ==
    /\ uploading /\ queue = {}
    /\ uploading' = FALSE
    /\ guard' = FALSE
    /\ button' = TRUE
    /\ polls' = polls + 1
    /\ UNCHANGED <<batch, asking, modal, choices, registering, payload,
                   currentDepositId, server, counters, late, found, oneTop, shown>>

\* Mutant: "complete" comes when the deposit's files are across but for one.
CompleteEarly ==
    /\ uploading /\ Cardinality(queue) <= 1
    /\ uploading' = FALSE
    /\ guard' = FALSE
    /\ button' = TRUE
    /\ files' = {}
    /\ polls' = polls + 1
    /\ UNCHANGED <<filesDict, queue, asking, modal, choices, registering, payload,
                   currentDepositId, server, counters, late, found, oneTop, shown>>

(* "complete": nothing is left to be sent.                                  *)
Complete ==
    /\ uploading /\ queue = {}
    /\ uploading' = FALSE
    /\ guard' = FALSE
    /\ button' = TRUE
    /\ files' = {}
    /\ polls' = polls + 1
    /\ UNCHANGED <<filesDict, queue, asking, modal, choices, registering, payload,
                   currentDepositId, server, counters, late, found, oneTop, shown>>

(* The daemons store a file.                                                *)
Store(s) ==
    /\ s \in arrived \ stored
    /\ stored' = stored \cup {s}
    /\ tree' = tree \cup Way(s[2])
    /\ UNCHANGED <<batch, button, asking, modal, choices, registering, payload,
                   uploading, guard, polls, currentDepositId, registered, arrived,
                   counters, late, found, oneTop, shown>>

(* deposit_status: the last answer, when all files of the deposit that is   *)
(* current by then are processed, or there is no deposit.                   *)
DepositStatus ==
    /\ polls > 0
    /\ \/ currentDepositId = 0
       \/ /\ currentDepositId # 0
          /\ \A p \in registered[currentDepositId] : <<currentDepositId, p>> \in stored
    /\ polls' = polls - 1
    /\ UNCHANGED <<batch, button, asking, modal, choices, registering, payload,
                   uploading, guard, currentDepositId, server, counters, late,
                   found, oneTop, shown>>

-----------------------------------------------------------------------------

Choice ==
    \/ \E i \in DOMAIN modal.rows : Skip(i) \/ Replace(i)
    \/ SkipRemaining \/ ReplaceRemaining \/ ConfirmTooEarly \/ Confirm \/ Dismiss

Next ==
    \/ \E p \in Paths : AddFile(p) \/ Upload(p)
    \/ StartDeposit \/ AnswerWarning \/ WarningFails
    \/ Choice
    \/ AnswerRegister \/ RegisterFails \/ Complete
    \/ \E s \in arrived : Store(s)
    \/ DepositStatus

Spec == Init /\ [][Next]_vars

(* Requests are answered, flow.js goes on, and so do the daemons.  The user *)
(* need not.                                                                *)
Fairness ==
    /\ WF_vars(AnswerWarning) /\ WF_vars(AnswerRegister)
    /\ WF_vars(\E p \in Paths : Upload(p)) /\ WF_vars(Complete)
    /\ WF_vars(\E s \in arrived : Store(s)) /\ WF_vars(DepositStatus)

FairSpec == Spec /\ Fairness

-----------------------------------------------------------------------------
(* Properties.                                                              *)

(* The button is enabled only when no deposit is on its way: not between    *)
(* the click and the answer, not behind the warning, not during an upload.  *)
OneDepositAtATime ==
    button => asking = {} /\ ~modal.open /\ ~registering /\ ~uploading

(* No file is overwritten that the user did not mark "Replace": what was    *)
(* found is registered only then.                                           *)
OverwritesAreChosen ==
    registering => \A p \in payload \cap found : shown[p] = "replace"

(* A file that was marked "Skip" when the warning was confirmed is not      *)
(* registered.                                                              *)
SkippedAreLeftOut ==
    registering => \A p \in payload : shown[p] # "skip"

(* The array and the dictionary of choices outlive the warning, so all this *)
(* is kept only for the first click, if no warning was closed; and only if  *)
(* the warning lists what exists: files in folders are in it if no other    *)
(* file is (deposit-flow.js:288), and for one folder at the top only        *)
(* (api.py:509).  Then what is confirmed happens: nothing is overwritten    *)
(* unasked, no skipped file is registered, no other is lost.                *)
FirstChoice == dismissals = 0 /\ clicks = 1

ListsAll == oneTop /\ (found \subseteq TopPaths \/ found \cap TopPaths = {})

ChoiceHonoured ==
    registering /\ FirstChoice =>
        /\ SkippedAreLeftOut
        /\ ListsAll => OverwritesAreChosen
        /\ \A p \in files : shown[p] # "skip" => p \in payload \/ late

(* Whatever flow.js still has to send belongs to the deposit, or it would   *)
(* be refused and repeated for ever.                                        *)
QueuedAreRegistered ==
    uploading /\ currentDepositId # 0 /\ ~late =>
        queue \subseteq registered[currentDepositId]

(* The files of a deposit were uploaded or will be: a file that is          *)
(* registered and never sent keeps the deposit from being finished.  A      *)
(* confirmed warning registers the files of earlier deposits again.         *)
RegisteredAreQueued ==
    uploading /\ currentDepositId # 0 /\ (currentDepositId = 1 \/ shown = Unmarked) =>
        \A p \in registered[currentDepositId] :
            p \in queue \/ <<currentDepositId, p>> \in arrived

(* An upload ends with "complete", unless there is no deposit, and the page *)
(* stops asking for the status, unless a confirmed warning has registered   *)
(* the files of earlier deposits again; both unless a file came late.       *)
DepositEnds ==
    /\ uploading /\ ~late ~> ~uploading \/ late \/ currentDepositId = 0
    /\ polls > 0 ~> polls = 0 \/ late \/ (Len(registered) > 1 /\ shown # Unmarked)

=============================================================================
