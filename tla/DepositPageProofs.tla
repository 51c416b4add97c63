-------------------------- MODULE DepositPageProofs --------------------------
(***************************************************************************)
(* What holds of DepositPage for any files, any number of deposits, closed *)
(* warnings and errors.                                                    *)
(***************************************************************************)
EXTENDS DepositPage, WarningDepositProofs

(* A deposit is at one of four stages, or the button waits for the next.    *)
OneStage ==
    /\ OneDepositAtATime
    /\ asking # {} => ~modal.open /\ ~registering /\ ~uploading
    /\ modal.open => ~registering /\ ~uploading
    /\ registering => ~uploading

(* What flow.js has is in both collections of the page, and in the request  *)
(* to register.                                                             *)
QueueKnown ==
    /\ queue \subseteq files /\ queue \subseteq filesDict
    /\ registering /\ ~late => queue \subseteq payload

(* Until files are registered and sent, flow.js has them all.               *)
NothingSent ==
    /\ button \/ asking # {} \/ modal.open => files \subseteq queue
    /\ registered = <<>> => filesDict = queue
    /\ registering /\ (registered = <<>> \/ shown = Unmarked) =>
          payload \subseteq queue

(* A warning has rows, so a confirmed one has marks.                        *)
WarningHasRows == modal.open => modal.rows # <<>>

IInv == /\ TypeOK /\ OneStage /\ QueueKnown /\ NothingSent /\ WarningHasRows
        /\ QueuedAreRegistered /\ RegisteredAreQueued

-----------------------------------------------------------------------------
(* Lemmas about the operators of the page.                                  *)

LEMMA RowsAreSequences ==
    ASSUME NEW ps \in SUBSET Paths, NEW s \in RowsOf(ps)
    PROVE  /\ s \in Seq(Paths)
           /\ ps # {} => s # <<>>
<1>1. IsFiniteSet(ps)
  BY PathsAssumption, FS_Subset
<1>2. Cardinality(ps) \in Nat /\ (Cardinality(ps) = 0 <=> ps = {})
  BY <1>1, FS_CardinalityType, FS_EmptySet
<1>3. s \in [1..Cardinality(ps) -> ps]
  BY DEF RowsOf
<1>4. s \in Seq(Paths) /\ Len(s) = Cardinality(ps)
  BY <1>2, <1>3
<1>5. QED BY <1>2, <1>4

LEMMA SpliceType ==
    ASSUME NEW s \in Seq(Paths), NEW p
    PROVE  Splice(s, p) \in Seq(Paths)
<1> DEFINE at == {k \in DOMAIN s : s[k] = p}
           k == IF at = {} THEN Len(s)
                ELSE CHOOSE i \in at : \A j \in at : i <= j
<1>1. CASE s = <<>>
  BY <1>1 DEF Splice
<1>2. CASE s # <<>>
  <2>1. k \in 1..Len(s)
    <3>1. CASE at = {}
      BY <1>2, <3>1
    <3>2. CASE at # {}
      <4>1. at \subseteq 1..Len(s)
        OBVIOUS
      <4>2. \E i \in at : \A j \in at : i <= j
        <5> HIDE DEF at
        <5>1. at \in SUBSET Nat
          BY <4>1
        <5>2. QED BY <3>2, <5>1, Least
      <4>3. k \in at
        BY <3>2, <4>2
      <4>4. QED BY <4>1, <4>3
    <3>3. QED BY <3>1, <3>2
  <2>2. Splice(s, p) = SubSeq(s, 1, k - 1) \o SubSeq(s, k + 1, Len(s))
    BY <1>2 DEF Splice
  <2> HIDE DEF k
  <2>3. SubSeq(s, 1, k - 1) \in Seq(Paths) /\ SubSeq(s, k + 1, Len(s)) \in Seq(Paths)
    BY <2>1
  <2>4. QED BY <2>2, <2>3
<1>3. QED BY <1>1, <1>2

LEMMA UnmarkedType == Unmarked \in [Paths -> Mark]
  BY DEF Unmarked, Mark

Modal == [open : BOOLEAN, dead : BOOLEAN, rows : Seq(Paths), marks : [Paths -> Mark]]

LEMMA NoModalType == NoModal \in Modal /\ ~NoModal.open
  BY UnmarkedType DEF NoModal, Modal

(* The way to a file is a part of a tree.                                   *)
LEMMA WayType == ASSUME NEW p \in Paths PROVE Way(p) \subseteq Seq(Int \ {0})
<1>1. NodeOf(p) \in Seq(Int \ {0})
  BY NamesAssumption DEF NodeOf
<1>2. PICK n \in Seq(Int \ {0}) : n = NodeOf(p)
  BY <1>1
<1>3. \A i \in 1..Len(n) : SubSeq(n, 1, i) \in Seq(Int \ {0})
  OBVIOUS
<1>4. QED BY <1>2, <1>3 DEF Way

LEMMA Nonzero == Seq(Int \ {0}) \subseteq Seq(Int)
  OBVIOUS

(* The answer names files that were asked for.                              *)
LEMMA WarnedType ==
    ASSUME NEW ps \in SUBSET Paths, NEW nodes PROVE Warned(ps, nodes) \in SUBSET Paths
  BY DEF Warned

LEMMA AsksForType ==
    ASSUME NEW ps \in SUBSET Paths
    PROVE  /\ AsksFor(ps) \in SUBSET Paths
           /\ ps # {} => AsksFor(ps) # {}
  BY DEF AsksFor

-----------------------------------------------------------------------------
(* Types.                                                                   *)

LEMMA InitTypes == Init => TypeOK
<1> SUFFICES ASSUME Init PROVE TypeOK
  OBVIOUS
<1>1. modal \in Modal
  BY NoModalType DEF Init
<1>2. skipPathArray \in Seq(Paths) /\ registered \in Seq(SUBSET Paths)
      /\ DOMAIN skipReplaceIdDict = {} /\ Len(registered) = 0
  BY DEF Init
<1>3. /\ 0 \in 0..MaxAdds /\ 0 \in 0..MaxDeposits
      /\ 0 \in 0..MaxDismissals /\ 0 \in 0..MaxErrors
  BY BoundsAssumption
<1>4. /\ currentDepositId \in Nat /\ currentDepositId <= Len(registered)
      /\ polls \in Nat
  BY <1>2 DEF Init
<1>4a. tree \subseteq Seq(Int)
  <2>1. \A p \in Existing : Way(p) \subseteq Seq(Int)
    BY ExistingAssumption, WayType, Nonzero
  <2>2. QED BY <2>1 DEF Init
<1>5. QED BY <1>1, <1>2, <1>3, <1>4, <1>4a, UnmarkedType DEF Init, TypeOK, Modal

(* What the handlers of the warning write.                                  *)
LEMMA ChoiceTypes == TypeOK /\ Choice => TypeOK'
<1> SUFFICES ASSUME TypeOK, Choice PROVE TypeOK'
  OBVIOUS
<1> USE DEF batch, choices, server, counters
<1>0. modal \in Modal /\ DOMAIN modal.rows \subseteq Nat
      /\ \A i \in DOMAIN modal.rows : modal.rows[i] \in Paths
  BY DEF TypeOK, Modal
<1>1. ASSUME modal' \in Modal, skipPathArray' \in Seq(Paths),
             UNCHANGED skipReplaceIdDict, Choosing
      PROVE  TypeOK'
  BY <1>1 DEF TypeOK, Modal, Choosing
<1>2. ASSUME NEW i \in DOMAIN modal.rows, NEW mark \in Mark, Remember(i, mark),
             modal' = [modal EXCEPT !.marks[modal.rows[i]] = mark],
             skipPathArray' \in Seq(Paths), Choosing
      PROVE  TypeOK'
  <2>1. modal' \in Modal
    BY <1>0, <1>2 DEF Modal
  <2>2. /\ DOMAIN skipReplaceIdDict' \subseteq Nat
        /\ \A k \in DOMAIN skipReplaceIdDict' : skipReplaceIdDict'[k] \in Mark
    BY <1>0, <1>2 DEF Remember, TypeOK
  <2>3. QED BY <1>2, <2>1, <2>2 DEF TypeOK, Modal, Choosing
<1>3. ASSUME NEW i \in DOMAIN modal.rows, Skip(i) PROVE TypeOK'
  <2>1. skipPathArray' \in Seq(Paths)
    BY <1>0, <1>3 DEF Skip, TypeOK
  <2>2. QED BY <1>2, <1>3, <2>1 DEF Skip, Mark
<1>4. ASSUME NEW i \in DOMAIN modal.rows, Replace(i) PROVE TypeOK'
  <2>1. skipPathArray' \in Seq(Paths)
    BY <1>4, SpliceType DEF Replace, TypeOK
  <2>2. QED BY <1>2, <1>4, <2>1 DEF Replace, Mark
<1>5. ASSUME NEW mark \in Mark, MarkRest(mark) PROVE modal' \in Modal
  BY <1>0, <1>5 DEF MarkRest, Modal
<1>6. CASE SkipRemaining
  <2>1. modal' \in Modal
    BY <1>5, <1>6 DEF SkipRemaining, Mark
  <2>2. {modal.rows[i] : i \in NotSelected} \in SUBSET Paths
    BY <1>0 DEF NotSelected
  <2>3. skipPathArray' \in Seq(Paths)
    <3>1. PICK rest \in RowsOf({modal.rows[i] : i \in NotSelected}) :
              skipPathArray' = skipPathArray \o rest
      BY <1>6 DEF SkipRemaining
    <3>2. rest \in Seq(Paths)
      BY <2>2, RowsAreSequences
    <3>3. QED BY <3>1, <3>2 DEF TypeOK
  <2>4. QED BY <1>1, <1>6, <2>1, <2>3 DEF SkipRemaining
<1>7. CASE ReplaceRemaining
  <2>1. modal' \in Modal
    BY <1>5, <1>7 DEF ReplaceRemaining, Mark
  <2>2. QED BY <1>1, <1>7, <2>1 DEF ReplaceRemaining, TypeOK
<1>8. CASE ConfirmTooEarly
  <2>1. modal' \in Modal
    <3> DEFINE given == DOMAIN skipReplaceIdDict
               rows == modal.rows
               marks == [p \in Paths |->
                  IF \E i \in given \cap DOMAIN rows : rows[i] = p
                  THEN skipReplaceIdDict[CHOOSE i \in given \cap DOMAIN rows :
                                            rows[i] = p]
                  ELSE "none"]
    <3>1. marks \in [Paths -> Mark]
      BY DEF TypeOK, Mark
    <3>2. modal' = [modal EXCEPT !.dead = ~(given \subseteq DOMAIN rows),
                                 !.marks = marks]
      BY <1>8 DEF ConfirmTooEarly
    <3> HIDE DEF marks
    <3>3. QED BY <1>0, <3>1, <3>2 DEF Modal
  <2>2. QED BY <1>1, <1>8, <2>1 DEF ConfirmTooEarly, TypeOK
<1>9. CASE Confirm
  <2>1. modal' \in Modal
    BY <1>9, NoModalType DEF Confirm
  <2>2. shown' \in [Paths -> Mark]
    BY <1>0, <1>9 DEF Confirm, Modal
  <2>3. /\ filesDict' \subseteq Paths /\ queue' \subseteq Paths
        /\ payload' \subseteq Paths /\ registering' \in BOOLEAN
    BY <1>9 DEF Confirm, RegisterDeposit, TypeOK
  <2>4. QED BY <1>9, <2>1, <2>2, <2>3 DEF Confirm, TypeOK, Modal
<1>10. CASE Dismiss
  <2>1. modal' \in Modal
    BY <1>10, NoModalType DEF Dismiss
  <2>2. skipPathArray' \in Seq(Paths) /\ dismissals' \in 0..MaxDismissals
    BY <1>10, BoundsAssumption DEF Dismiss, TypeOK
  <2>3. QED BY <1>10, <2>1, <2>2 DEF Dismiss, TypeOK, Modal
<1>11. QED BY <1>3, <1>4, <1>6, <1>7, <1>8, <1>9, <1>10 DEF Choice

LEMMA TypeStep == TypeOK /\ [Next]_vars => TypeOK'
<1> SUFFICES ASSUME TypeOK, [Next]_vars PROVE TypeOK'
  OBVIOUS
<1> USE DEF batch, choices, server, counters
<1>1. ASSUME NEW p \in Paths, AddFile(p) PROVE TypeOK'
  <2>1. adds' \in 0..MaxAdds /\ late' \in BOOLEAN
    BY <1>1, BoundsAssumption DEF AddFile, TypeOK
  <2>2. QED BY <1>1, <2>1 DEF AddFile, TypeOK
<1>2. CASE StartDeposit
  <2>1. clicks' \in 0..MaxDeposits /\ asking' \subseteq Paths
    BY <1>2, BoundsAssumption DEF StartDeposit, TypeOK
  <2>2. QED BY <1>2, <2>1 DEF StartDeposit, TypeOK
<1>3. CASE AnswerWarning
  <2>1. found' \subseteq Paths /\ oneTop' \in BOOLEAN
    BY <1>3 DEF AnswerWarning, OneTopFolder, InTree, TypeOK
  <2>2. Warned(asking, tree) \in SUBSET Paths
    BY WarnedType DEF TypeOK
  <2>3. modal' \in Modal
    <3>1. ASSUME NEW rows \in RowsOf(AsksFor(Warned(asking, tree))),
                 modal' = [open |-> TRUE, dead |-> FALSE, rows |-> rows,
                           marks |-> Unmarked]
          PROVE  modal' \in Modal
      BY <2>2, <3>1, AsksForType, RowsAreSequences, UnmarkedType DEF Modal
    <3>2. CASE UNCHANGED modal
      BY <3>2 DEF TypeOK, Modal
    <3>3. QED BY <1>3, <3>1, <3>2 DEF AnswerWarning
  <2>4. /\ payload' \subseteq Paths /\ registering' \in BOOLEAN
        /\ shown' \in [Paths -> Mark] /\ guard' \in BOOLEAN
    BY <1>3, UnmarkedType DEF AnswerWarning, RegisterDeposit, TypeOK
  <2>5. QED BY <1>3, <2>1, <2>3, <2>4 DEF AnswerWarning, TypeOK, Modal
<1>4. CASE WarningFails
  BY <1>4, BoundsAssumption DEF WarningFails, TypeOK
<1>5. CASE Choice
  BY <1>5, ChoiceTypes
<1>6. CASE AnswerRegister
  <2>1. /\ registered' \in Seq(SUBSET Paths) /\ Len(registered') \in Nat
        /\ currentDepositId' = Len(registered')
    BY <1>6 DEF AnswerRegister, TypeOK
  <2>2. currentDepositId' \in Nat /\ currentDepositId' <= Len(registered')
    BY <2>1
  <2>3. /\ stored' \subseteq arrived' /\ arrived' \subseteq Nat \X Paths
        /\ DOMAIN skipReplaceIdDict' \subseteq Nat
        /\ \A i \in DOMAIN skipReplaceIdDict' : skipReplaceIdDict'[i] \in Mark
    BY <1>6 DEF AnswerRegister, TypeOK
  <2>4. /\ registering' \in BOOLEAN /\ uploading' \in BOOLEAN
        /\ UNCHANGED <<batch, button, asking, modal, skipPathArray, payload, guard, tree,
                       polls, counters, late, found, oneTop, shown>>
    BY <1>6 DEF AnswerRegister
  <2>5. QED BY <2>1, <2>2, <2>3, <2>4 DEF TypeOK
<1>7. CASE RegisterFails
  <2>1. /\ currentDepositId' \in Nat /\ currentDepositId' <= Len(registered)
        /\ uploading' \in BOOLEAN
    <3>1. Len(registered) \in Nat
      BY DEF TypeOK
    <3>2. CASE currentDepositId' = 0 /\ uploading' = TRUE
      BY <3>1, <3>2
    <3>3. CASE UNCHANGED <<currentDepositId, uploading>>
      BY <3>3 DEF TypeOK
    <3>4. QED BY <1>7, <3>2, <3>3 DEF RegisterFails
  <2>2. errors' \in 0..MaxErrors
    BY <1>7, BoundsAssumption DEF RegisterFails, TypeOK
  <2>3. QED BY <1>7, <2>1, <2>2 DEF RegisterFails, TypeOK
<1>8. ASSUME NEW p \in Paths, Upload(p) PROVE TypeOK'
  BY <1>8 DEF Upload, TypeOK
<1>9. CASE Complete
  <2>1. polls' \in Nat /\ files' \subseteq Paths
    BY <1>9 DEF Complete, TypeOK
  <2>2. QED BY <1>9, <2>1 DEF Complete, TypeOK
<1>10. ASSUME NEW s \in arrived, Store(s) PROVE TypeOK'
  <2>1. s[2] \in Paths
    BY DEF TypeOK
  <2>2. tree' \subseteq Seq(Int)
    BY <1>10, <2>1, WayType, Nonzero DEF Store, TypeOK
  <2>3. QED BY <1>10, <2>2 DEF Store, TypeOK
<1>11. CASE DepositStatus
  <2>1. polls' \in Nat
    BY <1>11 DEF DepositStatus, TypeOK
  <2>2. QED BY <1>11, <2>1 DEF DepositStatus, TypeOK
<1>12. CASE UNCHANGED vars
  BY <1>12 DEF vars, TypeOK
<1>13. QED BY <1>1, <1>2, <1>3, <1>4, <1>5, <1>6, <1>7, <1>8, <1>9, <1>10, <1>11,
              <1>12 DEF Next

-----------------------------------------------------------------------------
(* The invariant.                                                           *)

(* Marking rows leaves the stage and the batch alone.                       *)
Marking == \/ \E i \in DOMAIN modal.rows : Skip(i) \/ Replace(i)
           \/ SkipRemaining \/ ReplaceRemaining \/ ConfirmTooEarly

LEMMA MarkingSteps ==
    ASSUME TypeOK, Marking
    PROVE  Choosing /\ modal'.open = modal.open /\ modal'.rows = modal.rows
<1>1. modal \in Modal
  BY DEF TypeOK, Modal
<1>2. ASSUME NEW i \in DOMAIN modal.rows, Skip(i) \/ Replace(i)
      PROVE  Choosing /\ modal'.open = modal.open /\ modal'.rows = modal.rows
  BY <1>1, <1>2 DEF Skip, Replace, Modal
<1>3. CASE SkipRemaining \/ ReplaceRemaining
  BY <1>1, <1>3 DEF SkipRemaining, ReplaceRemaining, MarkRest, Modal
<1>4. CASE ConfirmTooEarly
  BY <1>1, <1>4 DEF ConfirmTooEarly, Modal
<1>5. QED BY <1>2, <1>3, <1>4 DEF Marking

(* A step is one of these.                                                  *)
LEMMA Kinds ==
    ASSUME Next
    PROVE  \/ \E p \in Paths : AddFile(p) \/ Upload(p)
           \/ StartDeposit \/ AnswerWarning \/ WarningFails
           \/ Marking \/ Confirm \/ Dismiss
           \/ AnswerRegister \/ RegisterFails \/ Complete
           \/ \E s \in arrived : Store(s)
           \/ DepositStatus
  BY DEF Next, Choice, Marking

LEMMA OneStageStep == IInv /\ [Next]_vars => OneStage' /\ WarningHasRows'
<1> SUFFICES ASSUME IInv, [Next]_vars PROVE OneStage' /\ WarningHasRows'
  OBVIOUS
<1>0. TypeOK /\ OneStage /\ WarningHasRows
  BY DEF IInv
<1> USE DEF batch, choices, server, counters, OneStage, OneDepositAtATime, WarningHasRows
<1>1. ASSUME NEW p \in Paths, AddFile(p) \/ Upload(p)
      PROVE  OneStage' /\ WarningHasRows'
  BY <1>0, <1>1 DEF AddFile, Upload
<1>2. CASE StartDeposit \/ WarningFails
  BY <1>0, <1>2 DEF StartDeposit, WarningFails
<1>3. CASE AnswerWarning
  <2>1. CASE RegisterDeposit(files) /\ UNCHANGED modal
    BY <1>0, <1>3, <2>1 DEF AnswerWarning, RegisterDeposit
  <2>2. ASSUME Warned(asking, tree) # {},
               NEW rows \in RowsOf(AsksFor(Warned(asking, tree))),
               modal' = [open |-> TRUE, dead |-> FALSE, rows |-> rows,
                         marks |-> Unmarked],
               UNCHANGED <<registering, payload, shown>>
        PROVE  OneStage' /\ WarningHasRows'
    <3>1. /\ AsksFor(Warned(asking, tree)) \in SUBSET Paths
          /\ AsksFor(Warned(asking, tree)) # {}
      BY <1>0, <2>2, WarnedType, AsksForType DEF TypeOK
    <3>2. rows # <<>>
      BY <2>2, <3>1, RowsAreSequences
    <3>3. QED BY <1>0, <1>3, <2>2, <3>2 DEF AnswerWarning
  <2>3. QED BY <1>3, <2>1, <2>2 DEF AnswerWarning
<1>4. CASE Marking
  BY <1>0, <1>4, MarkingSteps DEF Choosing
<1>5. CASE Confirm \/ Dismiss
  <2>1. CASE Confirm
    BY <1>0, <2>1, NoModalType DEF Confirm, Works, RegisterDeposit
  <2>2. CASE Dismiss
    BY <1>0, <2>2, NoModalType DEF Dismiss
  <2>3. QED BY <1>5, <2>1, <2>2
<1>6. CASE AnswerRegister \/ RegisterFails
  <2>1. UNCHANGED <<button, asking, modal>> /\ registering /\ ~registering'
    BY <1>6 DEF AnswerRegister, RegisterFails
  <2>2. QED BY <1>0, <2>1
<1>7. CASE Complete \/ DepositStatus
  BY <1>0, <1>7 DEF Complete, DepositStatus
<1>8. ASSUME NEW s \in arrived, Store(s) PROVE OneStage' /\ WarningHasRows'
  BY <1>0, <1>8 DEF Store
<1>9. CASE UNCHANGED vars
  BY <1>0, <1>9 DEF vars
<1>10. QED BY Kinds, <1>1, <1>2, <1>3, <1>4, <1>5, <1>6, <1>7, <1>8, <1>9

LEMMA QueueStep == IInv /\ [Next]_vars => QueueKnown' /\ QueuedAreRegistered'
<1> SUFFICES ASSUME IInv, [Next]_vars PROVE QueueKnown' /\ QueuedAreRegistered'
  OBVIOUS
<1>0. TypeOK /\ OneStage /\ QueueKnown /\ QueuedAreRegistered
  BY DEF IInv
<1> USE DEF batch, choices, server, counters, OneStage, OneDepositAtATime,
            QueueKnown, QueuedAreRegistered
<1>1. ASSUME NEW p \in Paths, AddFile(p) PROVE QueueKnown' /\ QueuedAreRegistered'
  BY <1>0, <1>1 DEF AddFile
<1>2. ASSUME NEW p \in Paths, Upload(p) PROVE QueueKnown' /\ QueuedAreRegistered'
  BY <1>0, <1>2 DEF Upload
<1>3. CASE StartDeposit \/ WarningFails
  BY <1>0, <1>3 DEF StartDeposit, WarningFails
<1>4. CASE AnswerWarning
  BY <1>0, <1>4 DEF AnswerWarning, RegisterDeposit
<1>5. CASE Marking
  BY <1>0, <1>5, MarkingSteps DEF Choosing
<1>6. CASE Confirm
  BY <1>0, <1>6 DEF Confirm, RegisterDeposit
<1>7. CASE Dismiss
  BY <1>0, <1>7 DEF Dismiss
<1>8. CASE AnswerRegister
  <2>1. registered'[currentDepositId'] = payload
    BY <1>0, <1>8 DEF AnswerRegister, TypeOK
  <2>2. QED BY <1>0, <1>8, <2>1 DEF AnswerRegister
<1>9. CASE RegisterFails
  <2>1. \/ currentDepositId' = 0
        \/ UNCHANGED <<currentDepositId, uploading>>
    BY <1>9 DEF RegisterFails
  <2>2. ~registering' /\ UNCHANGED <<files, filesDict, queue, late, registered>>
    BY <1>9 DEF RegisterFails
  <2>3. QED BY <1>0, <2>1, <2>2
<1>10. CASE Complete \/ DepositStatus
  BY <1>0, <1>10 DEF Complete, DepositStatus
<1>11. ASSUME NEW s \in arrived, Store(s) PROVE QueueKnown' /\ QueuedAreRegistered'
  BY <1>0, <1>11 DEF Store
<1>12. CASE UNCHANGED vars
  BY <1>0, <1>12 DEF vars
<1>13. QED BY Kinds, <1>1, <1>2, <1>3, <1>4, <1>5, <1>6, <1>7, <1>8, <1>9, <1>10,
              <1>11, <1>12

LEMMA SentStep == IInv /\ [Next]_vars => NothingSent' /\ RegisteredAreQueued'
<1> SUFFICES ASSUME IInv, [Next]_vars PROVE NothingSent' /\ RegisteredAreQueued'
  OBVIOUS
<1>0. TypeOK /\ OneStage /\ NothingSent /\ RegisteredAreQueued /\ WarningHasRows
  BY DEF IInv
<1> USE DEF batch, choices, server, counters, OneStage, OneDepositAtATime,
            NothingSent, RegisteredAreQueued
<1>1. ASSUME NEW p \in Paths, AddFile(p) PROVE NothingSent' /\ RegisteredAreQueued'
  BY <1>0, <1>1 DEF AddFile
<1>2. ASSUME NEW p \in Paths, Upload(p) PROVE NothingSent' /\ RegisteredAreQueued'
  <2>1. registered # <<>>
    BY <1>0, <1>2 DEF Upload, TypeOK
  <2>2. QED BY <1>0, <1>2, <2>1 DEF Upload
<1>3. CASE StartDeposit \/ WarningFails
  BY <1>0, <1>3 DEF StartDeposit, WarningFails
<1>4. CASE AnswerWarning
  <2>1. NothingSent'
    BY <1>0, <1>4 DEF AnswerWarning, RegisterDeposit
  <2>2. RegisteredAreQueued'
    BY <1>0, <1>4 DEF AnswerWarning
  <2>3. QED BY <2>1, <2>2
<1>5. CASE Marking
  BY <1>0, <1>5, MarkingSteps DEF Choosing
<1>6. CASE Confirm
  <2>1. shown' # Unmarked
    <3>1. 1 \in DOMAIN modal.rows /\ modal.rows[1] \in Paths
      BY <1>0, <1>6 DEF Confirm, Works, WarningHasRows, TypeOK
    <3>2. modal.marks[modal.rows[1]] # "none"
      BY <1>6, <3>1 DEF Confirm, NotSelected, MarkOf
    <3>3. QED BY <1>6, <3>1, <3>2 DEF Confirm, Unmarked
  <2>2. QED BY <1>0, <1>6, <2>1, NoModalType DEF Confirm, RegisterDeposit, Works
<1>7. CASE Dismiss
  BY <1>0, <1>7, NoModalType DEF Dismiss
<1>8. CASE AnswerRegister
  <2>1. /\ registered'[currentDepositId'] = payload
        /\ registered' # <<>>
        /\ currentDepositId' = 1 => registered = <<>>
    <3>1. registered \in Seq(SUBSET Paths) /\ payload \in SUBSET Paths
      BY <1>0 DEF TypeOK
    <3>2. registered' = Append(registered, payload)
          /\ currentDepositId' = Len(registered')
      BY <1>8 DEF AnswerRegister
    <3>3. Len(registered') = Len(registered) + 1 /\ Len(registered) \in Nat
          /\ registered'[Len(registered) + 1] = payload
      BY <3>1, <3>2
    <3>4. Len(registered) = 0 => registered = <<>>
      BY <3>1
    <3>5. Len(registered') # 0 => registered' # <<>>
      OBVIOUS
    <3>6. QED BY <3>2, <3>3, <3>4, <3>5
  <2>2. QED BY <1>0, <1>8, <2>1 DEF AnswerRegister
<1>9. CASE RegisterFails
  <2>1. \/ currentDepositId' = 0
        \/ UNCHANGED <<currentDepositId, uploading>>
    BY <1>9 DEF RegisterFails
  <2>2. ~registering' /\ UNCHANGED <<files, filesDict, queue, registered, button,
                                     asking, modal, shown, arrived>>
    BY <1>9 DEF RegisterFails
  <2>3. QED BY <1>0, <2>1, <2>2
<1>10. CASE Complete \/ DepositStatus
  BY <1>0, <1>10 DEF Complete, DepositStatus
<1>11. ASSUME NEW s \in arrived, Store(s) PROVE NothingSent' /\ RegisteredAreQueued'
  BY <1>0, <1>11 DEF Store
<1>12. CASE UNCHANGED vars
  BY <1>0, <1>12 DEF vars
<1>13. QED BY Kinds, <1>1, <1>2, <1>3, <1>4, <1>5, <1>6, <1>7, <1>8, <1>9, <1>10,
              <1>11, <1>12

LEMMA InitInv == Init => IInv
<1> SUFFICES ASSUME Init PROVE IInv
  OBVIOUS
<1>1. ~modal.open
  BY NoModalType DEF Init
<1>2. QED BY <1>1, InitTypes
          DEF Init, IInv, OneStage, OneDepositAtATime, QueueKnown, NothingSent,
              WarningHasRows, QueuedAreRegistered, RegisteredAreQueued

(* IInv is inductive.                                                       *)
LEMMA Invariant == Spec => []IInv
<1>1. IInv /\ [Next]_vars => IInv'
  <2>1. IInv => TypeOK
    BY DEF IInv
  <2>2. QED BY <2>1, TypeStep, OneStageStep, QueueStep, SentStep DEF IInv
<1>2. QED BY InitInv, <1>1, PTL DEF Spec

(* What the page and the server keep is always well typed: an id the page   *)
(* takes for the current deposit is that of a deposit or undefined.         *)
THEOREM TypeCorrect == Spec => []TypeOK
<1>1. IInv => TypeOK
  BY DEF IInv
<1>2. QED BY Invariant, <1>1, PTL

(* The Upload button starts no second deposit while one is under way.       *)
THEOREM OneAtATime == Spec => []OneDepositAtATime
<1>1. IInv => OneDepositAtATime
  BY DEF IInv, OneStage
<1>2. QED BY Invariant, <1>1, PTL

(* Unless a file came late, flow.js sends only files of the deposit.        *)
THEOREM OnlyRegisteredAreSent == Spec => []QueuedAreRegistered
<1>1. IInv => QueuedAreRegistered
  BY DEF IInv
<1>2. QED BY Invariant, <1>1, PTL

(* Every file of the first deposit, and of any that was not confirmed       *)
(* against a warning, is sent or will be.                                   *)
THEOREM NoneIsForgotten == Spec => []RegisteredAreQueued
<1>1. IInv => RegisteredAreQueued
  BY DEF IInv
<1>2. QED BY Invariant, <1>1, PTL

-----------------------------------------------------------------------------
(* The sequences of the warning.                                            *)

(* The rows are the paths, each once.                                       *)
LEMMA RowsAre ==
    ASSUME NEW ps \in SUBSET Paths, NEW s \in RowsOf(ps)
    PROVE  s \in Seq(Paths) /\ IsInjective(s) /\ Range(s) = ps
<1>1. IsFiniteSet(ps) /\ ps \in SUBSET Nat
  BY PathsAssumption, FS_Subset
<1>2. PICK n \in Nat : n = Cardinality(ps)
  BY <1>1, FS_CardinalityType
<1>3. s \in [1..n -> ps] /\ \A i, j \in 1..n : i < j => s[i] < s[j]
  BY <1>2 DEF RowsOf
<1>4. \A i, j \in 1..n : s[i] = s[j] => i = j
  <2>1. TAKE i, j \in 1..n
  <2>2. HAVE s[i] = s[j]
  <2>3. s[i] \in Nat /\ s[j] \in Nat
    BY <1>1, <1>3
  <2>4. ~(s[i] < s[j]) /\ ~(s[j] < s[i])
    BY <2>2, <2>3
  <2>5. ~(i < j) /\ ~(j < i)
    BY <1>3, <2>4
  <2>6. QED BY <2>5
<1>5. s \in Injection(1..n, ps)
  BY <1>3, <1>4 DEF Injection, IsInjective
<1>6. Cardinality(1..n) = n
  BY FS_Interval, <1>2
<1>7. s \in Surjection(1..n, ps)
  BY <1>1, <1>2, <1>5, <1>6, FS_Injection
<1>8. Range(s) = ps
  BY <1>3, <1>7 DEF Surjection, Range
<1>9. s \in Seq(Paths)
  BY <1>3
<1>10. IsInjective(s)
  BY <1>3, <1>4 DEF IsInjective
<1>11. QED BY <1>8, <1>9, <1>10

LEMMA AppendIs ==
    ASSUME NEW s \in Seq(Paths), IsInjective(s), NEW p \in Paths, p \notin Range(s)
    PROVE  /\ IsInjective(Append(s, p))
           /\ Range(Append(s, p)) = Range(s) \cup {p}
<1>1. PICK n \in Nat : n = Len(s)
  OBVIOUS
<1>2. s \in [1..n -> Paths] /\ \A i, j \in 1..n : s[i] = s[j] => i = j
  BY <1>1 DEF IsInjective
<1>3. PICK t \in Seq(Paths) : t = Append(s, p)
  <2>1. Append(s, p) \in Seq(Paths)
    OBVIOUS
  <2>2. QED BY <2>1
<1>4. /\ DOMAIN t = 1..(n + 1) /\ t[n + 1] = p
      /\ \A i \in 1..n : t[i] = s[i]
  BY <1>1, <1>3
<1>5. \A i \in 1..n : s[i] # p
  BY <1>2 DEF Range
<1>6. \A i \in 1..(n + 1) : i \in 1..n \/ i = n + 1
  OBVIOUS
<1>7. IsInjective(t)
  BY <1>2, <1>4, <1>5, <1>6 DEF IsInjective
<1>8. \A q : q \in Range(t) <=> q \in Range(s) \/ q = p
  <2>1. \A q : q \in Range(t) <=> \E i \in 1..(n + 1) : t[i] = q
    BY <1>4 DEF Range
  <2>2. \A q : q \in Range(s) <=> \E i \in 1..n : s[i] = q
    BY <1>2 DEF Range
  <2>3. \A i \in 1..n : i \in 1..(n + 1)
    OBVIOUS
  <2>4. n + 1 \in 1..(n + 1)
    OBVIOUS
  <2>5. QED BY <1>4, <1>6, <2>1, <2>2, <2>3, <2>4
<1>9. QED BY <1>3, <1>7, <1>8

LEMMA ConcatenationIs ==
    ASSUME NEW s \in Seq(Paths), NEW t \in Seq(Paths), IsInjective(s), IsInjective(t),
           Range(s) \cap Range(t) = {}
    PROVE  /\ IsInjective(s \o t)
           /\ Range(s \o t) = Range(s) \cup Range(t)
<1>1. PICK n \in Nat, m \in Nat : n = Len(s) /\ m = Len(t)
  OBVIOUS
<1>2. /\ DOMAIN s = 1..n /\ \A i, j \in 1..n : s[i] = s[j] => i = j
      /\ DOMAIN t = 1..m /\ \A i, j \in 1..m : t[i] = t[j] => i = j
  BY <1>1 DEF IsInjective
<1>3. PICK u \in Seq(Paths) : u = s \o t
  <2>1. s \o t \in Seq(Paths)
    OBVIOUS
  <2>2. QED BY <2>1
<1>4. /\ DOMAIN u = 1..(n + m)
      /\ \A i \in 1..n : u[i] = s[i]
      /\ \A i \in 1..m : u[n + i] = t[i]
  BY <1>1, <1>3
<1>5. \A i \in 1..(n + m) : i \in 1..n \/ (i - n \in 1..m /\ u[i] = t[i - n])
  <2>1. TAKE i \in 1..(n + m)
  <2>2. CASE i > n
    <3>1. i - n \in 1..m /\ n + (i - n) = i
      BY <2>2
    <3>2. QED BY <1>4, <3>1
  <2>3. QED BY <2>2
<1>6. \A i \in 1..n, j \in 1..m : s[i] # t[j]
  <2>1. SUFFICES ASSUME NEW i \in 1..n, NEW j \in 1..m, s[i] = t[j] PROVE FALSE
    OBVIOUS
  <2>2. s[i] \in Range(s) /\ t[j] \in Range(t)
    BY <1>2 DEF Range
  <2>3. QED BY <2>1, <2>2
<1>7. IsInjective(u)
  <2>1. SUFFICES ASSUME NEW i \in 1..(n + m), NEW j \in 1..(n + m), u[i] = u[j]
                 PROVE  i = j
    BY <1>4 DEF IsInjective
  <2>2. CASE i \in 1..n /\ j \in 1..n
    BY <1>2, <1>4, <2>1, <2>2
  <2>3. CASE i \in 1..n /\ j - n \in 1..m /\ u[j] = t[j - n]
    BY <1>4, <1>6, <2>1, <2>3
  <2>4. CASE j \in 1..n /\ i - n \in 1..m /\ u[i] = t[i - n]
    BY <1>4, <1>6, <2>1, <2>4
  <2>5. CASE i - n \in 1..m /\ u[i] = t[i - n] /\ j - n \in 1..m /\ u[j] = t[j - n]
    <3>1. i - n = j - n
      BY <1>2, <2>1, <2>5
    <3>2. QED BY <3>1
  <2>6. QED BY <1>5, <2>2, <2>3, <2>4, <2>5
<1>8. \A q : q \in Range(u) <=> q \in Range(s) \/ q \in Range(t)
  <2>1. \A q : q \in Range(u) <=> \E i \in 1..(n + m) : u[i] = q
    BY <1>4 DEF Range
  <2>2. /\ \A q : q \in Range(s) <=> \E i \in 1..n : s[i] = q
        /\ \A q : q \in Range(t) <=> \E i \in 1..m : t[i] = q
    BY <1>2 DEF Range
  <2>3. \A i \in 1..n : i \in 1..(n + m)
    OBVIOUS
  <2>4. \A i \in 1..m : n + i \in 1..(n + m)
    OBVIOUS
  <2>5. ASSUME NEW i \in 1..(n + m) PROVE u[i] \in Range(s) \/ u[i] \in Range(t)
    BY <1>4, <1>5, <2>2
  <2>6. ASSUME NEW i \in 1..n PROVE s[i] \in Range(u)
    BY <1>4, <2>1, <2>3
  <2>7. ASSUME NEW i \in 1..m PROVE t[i] \in Range(u)
    BY <1>4, <2>1, <2>4
  <2>8. QED BY <2>1, <2>2, <2>5, <2>6, <2>7
<1>9. QED BY <1>3, <1>7, <1>8

LEMMA SpliceIs ==
    ASSUME NEW s \in Seq(Paths), IsInjective(s), NEW p \in Paths, p \in Range(s)
    PROVE  /\ IsInjective(Splice(s, p))
           /\ Range(Splice(s, p)) = Range(s) \ {p}
<1> DEFINE at == {k \in DOMAIN s : s[k] = p}
           first == CHOOSE i \in at : \A j \in at : i <= j
<1>1. PICK n \in Nat : n = Len(s)
  OBVIOUS
<1>2. DOMAIN s = 1..n /\ \A i, j \in 1..n : s[i] = s[j] => i = j
  BY <1>1 DEF IsInjective
<1>3. PICK k \in 1..n : s[k] = p
  BY <1>2 DEF Range
<1>4. at = {k}
  BY <1>2, <1>3
<1>5. first = k
  BY <1>4
<1>6. s # <<>>
  BY <1>1, <1>3
<1>7. Splice(s, p) = SubSeq(s, 1, k - 1) \o SubSeq(s, k + 1, Len(s))
  <2>1. at # {}
    BY <1>4
  <2>2. Splice(s, p) = SubSeq(s, 1, first - 1) \o SubSeq(s, first + 1, Len(s))
    BY <1>6, <2>1 DEF Splice
  <2> HIDE DEF first
  <2>3. QED BY <1>5, <2>2
<1>8. PICK a \in Seq(Paths), b \in Seq(Paths) :
          /\ a = SubSeq(s, 1, k - 1) /\ b = SubSeq(s, k + 1, n)
  <2>1. SubSeq(s, 1, k - 1) \in Seq(Paths) /\ SubSeq(s, k + 1, n) \in Seq(Paths)
    BY <1>1
  <2>2. QED BY <2>1
<1>9. /\ DOMAIN a = 1..(k - 1) /\ \A i \in 1..(k - 1) : a[i] = s[i]
      /\ DOMAIN b = 1..(n - k) /\ \A i \in 1..(n - k) : b[i] = s[i + k]
  BY <1>1, <1>8
<1>10. /\ \A i \in 1..(k - 1) : i \in 1..n /\ i # k
       /\ \A i \in 1..(n - k) : i + k \in 1..n /\ i + k # k
       /\ \A i \in 1..n : i = k \/ i \in 1..(k - 1) \/ i - k \in 1..(n - k)
  OBVIOUS
<1>11. IsInjective(a)
  BY <1>2, <1>9, <1>10 DEF IsInjective
<1>12. IsInjective(b)
  <2>1. SUFFICES ASSUME NEW i \in 1..(n - k), NEW j \in 1..(n - k), b[i] = b[j]
                 PROVE  i = j
    BY <1>9 DEF IsInjective
  <2>2. i + k = j + k
    BY <1>2, <1>9, <1>10, <2>1
  <2>3. QED BY <2>2
<1>13. Range(a) \cap Range(b) = {}
  <2>1. SUFFICES ASSUME NEW i \in 1..(k - 1), NEW j \in 1..(n - k), a[i] = b[j]
                 PROVE  FALSE
    BY <1>9 DEF Range
  <2>2. i = j + k
    BY <1>2, <1>9, <1>10, <2>1
  <2>3. QED BY <2>2
<1>14. \A q : q \in Range(a) \/ q \in Range(b) <=> q \in Range(s) /\ q # p
  <2>1. ASSUME NEW q, q \in Range(a) PROVE q \in Range(s) /\ q # p
    <3>1. PICK i \in 1..(k - 1) : s[i] = q
      BY <1>9, <2>1 DEF Range
    <3>2. QED BY <1>2, <1>3, <1>10, <3>1 DEF Range
  <2>2. ASSUME NEW q, q \in Range(b) PROVE q \in Range(s) /\ q # p
    <3>1. PICK i \in 1..(n - k) : s[i + k] = q
      BY <1>9, <2>2 DEF Range
    <3>2. QED BY <1>2, <1>3, <1>10, <3>1 DEF Range
  <2>3. ASSUME NEW q, q \in Range(s), q # p PROVE q \in Range(a) \/ q \in Range(b)
    <3>1. PICK i \in 1..n : s[i] = q
      BY <1>2, <2>3 DEF Range
    <3>2. CASE i \in 1..(k - 1)
      BY <1>9, <3>1, <3>2 DEF Range
    <3>3. CASE i - k \in 1..(n - k)
      <4>1. b[i - k] = s[(i - k) + k] /\ (i - k) + k = i
        BY <1>9, <3>3
      <4>2. QED BY <1>9, <3>1, <3>3, <4>1 DEF Range
    <3>4. QED BY <1>3, <1>10, <2>3, <3>1, <3>2, <3>3
  <2>4. QED BY <2>1, <2>2, <2>3
<1>15. IsInjective(a \o b) /\ Range(a \o b) = Range(a) \cup Range(b)
  BY <1>11, <1>12, <1>13, ConcatenationIs
<1>16. Splice(s, p) = a \o b
  BY <1>1, <1>7, <1>8
<1>17. QED BY <1>14, <1>15, <1>16

-----------------------------------------------------------------------------
(* The marks of the warning, the array and the dictionary.                  *)

(* The array has the paths marked "Skip", each once.                        *)
SkipsAre(marks, s) ==
    /\ IsInjective(s)
    /\ \A p \in Paths : marks[p] = "skip" <=> p \in Range(s)

(* Only rows are marked, and while one is not, the dictionary has the marks *)
(* of the others, at the indices of their rows.                             *)
MarksAre(marks, rows, dict) ==
    /\ IsInjective(rows)
    /\ \A p \in Paths : marks[p] # "none" => p \in Range(rows)
    /\ (\E p \in Range(rows) : marks[p] = "none") =>
          /\ DOMAIN dict \subseteq DOMAIN rows
          /\ \A i \in DOMAIN rows :
                marks[rows[i]] = IF i \in DOMAIN dict THEN dict[i] ELSE "none"

ChoicesMade ==
    /\ SkipsAre(modal.marks, skipPathArray)
    /\ MarksAre(modal.marks, modal.rows, skipReplaceIdDict)

(* g is f, but for v at x.                                                  *)
Writes(f, g, x, v) ==
    /\ DOMAIN g = DOMAIN f \cup {x}
    /\ g[x] = v
    /\ \A y \in DOMAIN f : y # x => g[y] = f[y]

(* A mark on one row.                                                       *)
LEMMA MarkOne ==
    ASSUME NEW marks \in [Paths -> Mark], NEW rows \in Seq(Paths), NEW dict,
           MarksAre(marks, rows, dict), NEW i \in DOMAIN rows, NEW mark,
           mark # "none", NEW marks2, Writes(marks, marks2, rows[i], mark),
           NEW dict2, Writes(dict, dict2, i, mark)
    PROVE  MarksAre(marks2, rows, dict2)
<1>1. rows[i] \in Paths
  OBVIOUS
<1>2. /\ marks2[rows[i]] = mark
      /\ \A p \in Paths : p # rows[i] => marks2[p] = marks[p]
  BY <1>1 DEF Writes
<1>3. Range(rows) \subseteq Paths
  BY DEF Range
<1>4. IsInjective(rows) /\ \A k \in DOMAIN rows : rows[k] \in Range(rows)
  BY DEF MarksAre, Range
<1>5. \A p \in Paths : marks2[p] # "none" => p \in Range(rows)
  BY <1>2, <1>4 DEF MarksAre
<1>6. ASSUME NEW p \in Range(rows), marks2[p] = "none"
      PROVE  /\ DOMAIN dict2 \subseteq DOMAIN rows
             /\ \A k \in DOMAIN rows :
                   marks2[rows[k]] = IF k \in DOMAIN dict2 THEN dict2[k] ELSE "none"
  <2>1. marks[p] = "none"
    BY <1>2, <1>3, <1>6
  <2>2. /\ DOMAIN dict \subseteq DOMAIN rows
        /\ \A k \in DOMAIN rows :
              marks[rows[k]] = IF k \in DOMAIN dict THEN dict[k] ELSE "none"
    BY <2>1 DEF MarksAre
  <2>3. /\ DOMAIN dict2 = DOMAIN dict \cup {i} /\ dict2[i] = mark
        /\ \A k \in DOMAIN dict : k # i => dict2[k] = dict[k]
    BY DEF Writes
  <2>4. ASSUME NEW k \in DOMAIN rows
        PROVE  marks2[rows[k]] = IF k \in DOMAIN dict2 THEN dict2[k] ELSE "none"
    <3>1. CASE k = i
      BY <1>2, <2>3, <3>1
    <3>2. CASE k # i
      <4>1. rows[k] # rows[i] /\ rows[k] \in Paths
        BY <1>4, <3>2 DEF IsInjective
      <4>2. marks2[rows[k]] = marks[rows[k]]
        BY <1>2, <4>1
      <4>3. k \in DOMAIN dict2 <=> k \in DOMAIN dict
        BY <2>3, <3>2
      <4>4. k \in DOMAIN dict => dict2[k] = dict[k]
        BY <2>3, <3>2
      <4>5. QED BY <2>2, <4>2, <4>3, <4>4
    <3>3. QED BY <3>1, <3>2
  <2>5. QED BY <2>2, <2>3, <2>4
<1>7. QED BY <1>4, <1>5, <1>6 DEF MarksAre

(* A mark on all rows that have none.                                       *)
LEMMA MarkOthers ==
    ASSUME NEW marks \in [Paths -> Mark], NEW rows \in Seq(Paths), NEW dict,
           MarksAre(marks, rows, dict), NEW mark, mark # "none", NEW marks2,
           \A p \in Paths : marks2[p] = IF p \in Range(rows) /\ marks[p] = "none"
                                        THEN mark ELSE marks[p]
    PROVE  MarksAre(marks2, rows, dict)
<1>1. Range(rows) \subseteq Paths
  BY DEF Range
<1>2. \A p \in Range(rows) : marks2[p] # "none"
  BY <1>1
<1>3. \A p \in Paths : marks2[p] # "none" => p \in Range(rows)
  BY DEF MarksAre
<1>4. QED BY <1>2, <1>3 DEF MarksAre

(* Which rows have no mark, and what marking them does.                     *)
LEMMA Rest ==
    ASSUME TypeOK, NEW mark, MarkRest(mark)
    PROVE  /\ {modal.rows[i] : i \in NotSelected}
                = {p \in Range(modal.rows) : modal.marks[p] = "none"}
           /\ modal'.rows = modal.rows
           /\ \A p \in Paths : modal'.marks[p] =
                 IF p \in Range(modal.rows) /\ modal.marks[p] = "none"
                 THEN mark ELSE modal.marks[p]
<1>1. modal \in Modal
  BY DEF TypeOK, Modal
<1>2. {modal.rows[i] : i \in NotSelected}
          = {p \in Range(modal.rows) : modal.marks[p] = "none"}
  BY DEF NotSelected, MarkOf, Range
<1>3. \A p : (\E i \in NotSelected : modal.rows[i] = p)
             <=> p \in Range(modal.rows) /\ modal.marks[p] = "none"
  BY DEF NotSelected, MarkOf, Range
<1>4. modal' = [modal EXCEPT !.marks =
                  [p \in Paths |-> IF \E i \in NotSelected : modal.rows[i] = p
                                   THEN mark ELSE modal.marks[p]]]
  BY DEF MarkRest
<1>5. modal'.rows = modal.rows /\ modal'.marks =
          [p \in Paths |-> IF \E i \in NotSelected : modal.rows[i] = p
                           THEN mark ELSE modal.marks[p]]
  BY <1>1, <1>4 DEF Modal
<1>6. QED BY <1>2, <1>3, <1>5

LEMMA MarkingKeeps ==
    ASSUME TypeOK, ChoicesMade, Marking
    PROVE  ChoicesMade'
<1>1. modal \in Modal
  BY DEF TypeOK, Modal
<1>2. PICK marks \in [Paths -> Mark], rows \in Seq(Paths) :
          marks = modal.marks /\ rows = modal.rows
  BY <1>1 DEF Modal
<1>3. PICK s \in Seq(Paths) : s = skipPathArray
  BY DEF TypeOK
<1>4. /\ SkipsAre(marks, s) /\ MarksAre(marks, rows, skipReplaceIdDict)
      /\ IsInjective(s) /\ IsInjective(rows)
      /\ Range(s) \subseteq Paths /\ Range(rows) \subseteq Paths
  <2>1. SkipsAre(marks, s) /\ MarksAre(marks, rows, skipReplaceIdDict)
    BY <1>2, <1>3 DEF ChoicesMade
  <2>2. QED BY <2>1 DEF SkipsAre, MarksAre, Range
<1>5. ASSUME NEW i \in DOMAIN rows, NEW mark, mark # "none", Remember(i, mark),
             modal' = [modal EXCEPT !.marks[modal.rows[i]] = mark]
      PROVE  /\ MarksAre(modal'.marks, modal'.rows, skipReplaceIdDict')
             /\ modal'.marks[rows[i]] = mark
             /\ \A p \in Paths : p # rows[i] => modal'.marks[p] = marks[p]
             /\ rows[i] \in Paths
  <2>1. rows[i] \in Paths
    OBVIOUS
  <2>2. modal'.rows = rows /\ modal'.marks = [marks EXCEPT ![rows[i]] = mark]
    BY <1>1, <1>2, <1>5 DEF Modal
  <2>3. Writes(skipReplaceIdDict, skipReplaceIdDict', i, mark)
    BY <1>5 DEF Remember, Writes
  <2>4. Writes(marks, modal'.marks, rows[i], mark)
    BY <2>1, <2>2 DEF Writes
  <2>5. MarksAre(marks, rows, skipReplaceIdDict) /\ mark # "none"
    BY <1>4, <1>5
  <2>6. MarksAre(modal'.marks, rows, skipReplaceIdDict')
    BY <2>3, <2>4, <2>5, MarkOne, Zenon
  <2>7. QED BY <2>1, <2>2, <2>6
<1>6. ASSUME NEW i \in DOMAIN rows, Skip(i) PROVE ChoicesMade'
  <2>1. /\ Remember(i, "skip") /\ marks[rows[i]] # "skip"
        /\ modal' = [modal EXCEPT !.marks[modal.rows[i]] = "skip"]
        /\ skipPathArray' = Append(s, rows[i])
    BY <1>2, <1>3, <1>6 DEF Skip, MarkOf
  <2>2. /\ MarksAre(modal'.marks, modal'.rows, skipReplaceIdDict')
        /\ modal'.marks[rows[i]] = "skip"
        /\ \A p \in Paths : p # rows[i] => modal'.marks[p] = marks[p]
        /\ rows[i] \in Paths
    BY <1>5, <2>1
  <2>3. rows[i] \notin Range(s)
    BY <1>4, <2>1, <2>2 DEF SkipsAre
  <2>4. /\ IsInjective(skipPathArray')
        /\ Range(skipPathArray') = Range(s) \cup {rows[i]}
    BY <1>4, <2>1, <2>2, <2>3, AppendIs
  <2>5. SkipsAre(modal'.marks, skipPathArray')
    BY <1>4, <2>2, <2>4 DEF SkipsAre
  <2>6. QED BY <2>2, <2>5 DEF ChoicesMade
<1>7. ASSUME NEW i \in DOMAIN rows, Replace(i) PROVE ChoicesMade'
  <2>1. /\ Remember(i, "replace")
        /\ modal' = [modal EXCEPT !.marks[modal.rows[i]] = "replace"]
        /\ skipPathArray' = IF marks[rows[i]] = "skip" THEN Splice(s, rows[i])
                            ELSE s
    BY <1>2, <1>3, <1>7 DEF Replace, MarkOf
  <2>2. /\ MarksAre(modal'.marks, modal'.rows, skipReplaceIdDict')
        /\ modal'.marks[rows[i]] = "replace"
        /\ \A p \in Paths : p # rows[i] => modal'.marks[p] = marks[p]
        /\ rows[i] \in Paths
    BY <1>5, <2>1
  <2>3. marks[rows[i]] = "skip" <=> rows[i] \in Range(s)
    BY <1>4, <2>2 DEF SkipsAre
  <2>4. /\ IsInjective(skipPathArray')
        /\ Range(skipPathArray') = Range(s) \ {rows[i]}
    <3>1. CASE rows[i] \in Range(s)
      <4>1. skipPathArray' = Splice(s, rows[i])
        BY <2>1, <2>3, <3>1
      <4>2. QED BY <1>4, <2>2, <3>1, <4>1, SpliceIs
    <3>2. CASE rows[i] \notin Range(s)
      BY <1>4, <2>1, <2>3, <3>2
    <3>3. QED BY <3>1, <3>2
  <2>5. SkipsAre(modal'.marks, skipPathArray')
    BY <1>4, <2>2, <2>4 DEF SkipsAre
  <2>6. QED BY <2>2, <2>5 DEF ChoicesMade
<1>8. CASE SkipRemaining
  <2>1. /\ MarkRest("skip") /\ UNCHANGED skipReplaceIdDict
        /\ \E rest \in RowsOf({modal.rows[i] : i \in NotSelected}) :
              skipPathArray' = s \o rest
    BY <1>3, <1>8 DEF SkipRemaining
  <2>2. /\ {modal.rows[i] : i \in NotSelected}
              = {p \in Range(rows) : marks[p] = "none"}
        /\ modal'.rows = rows
        /\ \A p \in Paths : modal'.marks[p] =
              IF p \in Range(rows) /\ marks[p] = "none" THEN "skip" ELSE marks[p]
    BY <1>2, <2>1, Rest
  <2>2a. "skip" # "none"
    OBVIOUS
  <2>3. PICK free \in SUBSET Paths : free = {p \in Range(rows) : marks[p] = "none"}
    BY <1>4
  <2>4. PICK rest \in RowsOf(free) : skipPathArray' = s \o rest
    BY <2>1, <2>2, <2>3
  <2>5. rest \in Seq(Paths) /\ IsInjective(rest) /\ Range(rest) = free
    BY RowsAre
  <2>6. Range(s) \cap Range(rest) = {}
    BY <1>4, <2>3, <2>5 DEF SkipsAre
  <2>7. /\ IsInjective(skipPathArray')
        /\ Range(skipPathArray') = Range(s) \cup free
    BY <1>4, <2>4, <2>5, <2>6, ConcatenationIs
  <2>8. SkipsAre(modal'.marks, skipPathArray')
    BY <1>4, <2>2, <2>3, <2>7 DEF SkipsAre
  <2>9. MarksAre(modal'.marks, modal'.rows, skipReplaceIdDict')
    <3>1. MarksAre(modal'.marks, rows, skipReplaceIdDict)
      BY <1>4, <2>2, <2>2a, MarkOthers, Zenon
    <3>2. QED BY <2>1, <2>2, <3>1
  <2>10. QED BY <2>8, <2>9 DEF ChoicesMade
<1>9. CASE ReplaceRemaining
  <2>1. MarkRest("replace") /\ UNCHANGED <<skipPathArray, skipReplaceIdDict>>
    BY <1>9 DEF ReplaceRemaining, choices
  <2>2. /\ modal'.rows = rows
        /\ \A p \in Paths : modal'.marks[p] =
              IF p \in Range(rows) /\ marks[p] = "none" THEN "replace" ELSE marks[p]
    BY <1>2, <2>1, Rest
  <2>2a. "replace" # "none"
    OBVIOUS
  <2>3. SkipsAre(modal'.marks, skipPathArray')
    BY <1>3, <1>4, <2>1, <2>2 DEF SkipsAre
  <2>4. MarksAre(modal'.marks, modal'.rows, skipReplaceIdDict')
    <3>1. MarksAre(modal'.marks, rows, skipReplaceIdDict)
      BY <1>4, <2>2, <2>2a, MarkOthers, Zenon
    <3>2. QED BY <2>1, <2>2, <3>1
  <2>5. QED BY <2>3, <2>4 DEF ChoicesMade
<1>10. CASE ConfirmTooEarly
  <2> DEFINE given == DOMAIN skipReplaceIdDict
             marks2 == [p \in Paths |->
                  IF \E i \in given \cap DOMAIN modal.rows : modal.rows[i] = p
                  THEN skipReplaceIdDict[CHOOSE i \in given \cap DOMAIN modal.rows :
                                            modal.rows[i] = p]
                  ELSE "none"]
  <2>1. /\ modal'.rows = rows /\ modal'.marks = marks2
        /\ UNCHANGED <<skipPathArray, skipReplaceIdDict>>
    <3>1. modal' = [modal EXCEPT !.dead = ~(given \subseteq DOMAIN modal.rows),
                                 !.marks = marks2]
      BY <1>10 DEF ConfirmTooEarly
    <3> HIDE DEF marks2
    <3>2. QED BY <1>1, <1>2, <1>10, <3>1 DEF ConfirmTooEarly, choices, Modal
  <2>2. \E p \in Range(rows) : marks[p] = "none"
    BY <1>2, <1>10 DEF ConfirmTooEarly, NotSelected, MarkOf, Range
  <2>3. /\ given \subseteq DOMAIN rows
        /\ \A i \in DOMAIN rows :
              marks[rows[i]] = IF i \in given THEN skipReplaceIdDict[i] ELSE "none"
    BY <1>4, <2>2 DEF MarksAre
  <2>4. ASSUME NEW p \in Paths PROVE marks2[p] = marks[p]
    <3>1. CASE \E i \in given : rows[i] = p
      <4>1. PICK i \in given : rows[i] = p
        BY <3>1
      <4>2. \A k \in given \cap DOMAIN modal.rows : modal.rows[k] = p <=> k = i
        BY <1>2, <1>4, <2>3, <4>1 DEF IsInjective
      <4>3. (CHOOSE k \in given \cap DOMAIN modal.rows : modal.rows[k] = p) = i
        BY <1>2, <2>3, <4>1, <4>2
      <4>4. marks2[p] = skipReplaceIdDict[i]
        BY <1>2, <2>3, <4>1, <4>3
      <4>5. QED BY <2>3, <4>1, <4>4
    <3>2. CASE ~ \E i \in given : rows[i] = p
      <4>1. marks2[p] = "none"
        BY <1>2, <3>2
      <4>2. p \in Range(rows) => marks[p] = "none"
        BY <2>3, <3>2 DEF Range
      <4>3. QED BY <1>4, <4>1, <4>2 DEF MarksAre
    <3>3. QED BY <3>1, <3>2
  <2>5. marks2 = marks
    BY <2>4
  <2> HIDE DEF marks2
  <2>6. QED BY <1>2, <2>1, <2>5 DEF ChoicesMade
<1>11. QED BY <1>2, <1>6, <1>7, <1>8, <1>9, <1>10 DEF Marking

-----------------------------------------------------------------------------
(* The first click.                                                         *)

(* The first click, without a warning closed.                               *)
AtFirst == dismissals = 0 /\ clicks <= 1

(* Until the first answer nothing is chosen, and until the first warning is *)
(* confirmed the two collections of the page agree.                         *)
BeforeTheFirst ==
    /\ clicks = 0 => asking = {} /\ ~modal.open /\ ~registering /\ ~uploading
    /\ AtFirst /\ (clicks = 0 \/ asking # {}) =>
          skipPathArray = <<>> /\ DOMAIN skipReplaceIdDict = {}
    /\ AtFirst /\ (clicks = 0 \/ asking # {} \/ modal.open) => filesDict = files

(* The first warning: marks, array and dictionary agree, and it lists what  *)
(* was found.                                                               *)
ChoicesAgree ==
    AtFirst /\ modal.open =>
        /\ ChoicesMade
        /\ ListsAll => found \subseteq Range(modal.rows)

FirstInv ==
    /\ IsTree(tree) /\ BeforeTheFirst /\ ChoicesAgree /\ ChoiceHonoured

LEMMA WayIsTree == ASSUME NEW p \in Paths PROVE IsTree(Way(p))
<1>1. NodeOf(p) \in Seq(Int \ {0})
  BY NamesAssumption DEF NodeOf
<1>2. PICK n \in Seq(Int \ {0}) : n = NodeOf(p)
  BY <1>1
<1>3. ASSUME NEW i \in 1..Len(n) PROVE SubSeq(n, 1, i) \in Seq(Int \ {0}) \ {<<>>}
  <2>1. SubSeq(n, 1, i) \in Seq(Int \ {0}) /\ Len(SubSeq(n, 1, i)) = i
    OBVIOUS
  <2>2. QED BY <2>1
<1>4. ASSUME NEW i \in 1..Len(n), NEW k \in 0..Len(SubSeq(n, 1, i)),
             SubSeq(SubSeq(n, 1, i), 1, k) # <<>>
      PROVE  k \in 1..Len(n) /\ SubSeq(SubSeq(n, 1, i), 1, k) = SubSeq(n, 1, k)
  <2>1. PICK m \in Seq(Int) : m = n
    <3>1. n \in Seq(Int)
      BY Nonzero
    <3>2. QED BY <3>1
  <2>2. PICK l \in Nat : l = Len(m)
    OBVIOUS
  <2>3. i \in 1..l /\ k \in 0..i
    BY <2>1, <2>2
  <2>4. PICK t \in Seq(Int) : t = SubSeq(m, 1, i)
    <3>1. SubSeq(m, 1, i) \in Seq(Int)
      BY <2>2, <2>3
    <3>2. QED BY <3>1
  <2>5. Len(t) = i /\ \A j \in 1..i : t[j] = m[j]
    BY <2>2, <2>3, <2>4
  <2>6. k # 0
    BY <1>4, <2>1, <2>4
  <2>7. k \in 1..l
    BY <2>3, <2>6
  <2>8. /\ SubSeq(t, 1, k) \in Seq(Int) /\ SubSeq(m, 1, k) \in Seq(Int)
        /\ Len(SubSeq(t, 1, k)) = k /\ Len(SubSeq(m, 1, k)) = k
        /\ \A j \in 1..k : SubSeq(t, 1, k)[j] = t[j] /\ SubSeq(m, 1, k)[j] = m[j]
    BY <2>2, <2>3, <2>5, <2>7
  <2>9. \A j \in 1..k : SubSeq(t, 1, k)[j] = SubSeq(m, 1, k)[j]
    <3>1. \A j \in 1..k : j \in 1..i
      BY <2>3
    <3>2. QED BY <2>5, <2>8, <3>1
  <2>10. SubSeq(t, 1, k) = SubSeq(m, 1, k)
    BY <2>8, <2>9, SameSequence
  <2>11. QED BY <2>1, <2>2, <2>4, <2>7, <2>10
<1>5. Way(p) = {SubSeq(n, 1, i) : i \in 1..Len(n)}
  BY <1>2 DEF Way
<1>6. \A m \in Way(p) : m \in Seq(Int \ {0}) \ {<<>>}
  BY <1>3, <1>5
<1>7. ASSUME NEW m \in Way(p), NEW f \in Prefixes(m), f # <<>> PROVE f \in Way(p)
  <2>1. PICK i \in 1..Len(n) : m = SubSeq(n, 1, i)
    BY <1>5
  <2>2. PICK k \in 0..Len(m) : f = SubSeq(m, 1, k)
    BY DEF Prefixes
  <2>3. k \in 1..Len(n) /\ f = SubSeq(n, 1, k)
    BY <1>4, <1>7, <2>1, <2>2
  <2>4. QED BY <1>5, <2>3
<1>8. QED BY <1>6, <1>7 DEF IsTree

(* A warning opens: its rows are what the view named, and if that lists all *)
(* it is all that was found.                                                *)
LEMMA RowsListAll ==
    ASSUME NEW ps \in SUBSET Paths, NEW nodes, IsTree(nodes),
           OneTopFolder(ps, nodes),
           \/ InTree(ps, nodes) \subseteq TopPaths
           \/ InTree(ps, nodes) \cap TopPaths = {}
    PROVE  InTree(ps, nodes) \subseteq AsksFor(Warned(ps, nodes))
<1>1. InTree(ps, nodes) \subseteq Warned(ps, nodes)
  BY AllNamed
<1>2. Warned(ps, nodes) \cap TopPaths \subseteq InTree(ps, nodes)
  BY TopNamed
<1>3. CASE Warned(ps, nodes) \cap TopPaths = {}
  BY <1>1, <1>3 DEF AsksFor
<1>4. CASE Warned(ps, nodes) \cap TopPaths # {}
  <2>1. InTree(ps, nodes) \subseteq TopPaths
    BY <1>2, <1>4
  <2>2. QED BY <1>1, <1>4, <2>1 DEF AsksFor
<1>5. QED BY <1>3, <1>4

LEMMA NothingMarked ==
    ASSUME NEW rows \in Seq(Paths), IsInjective(rows), NEW dict, DOMAIN dict = {}
    PROVE  SkipsAre(Unmarked, <<>>) /\ MarksAre(Unmarked, rows, dict)
<1>1. \A p \in Paths : Unmarked[p] = "none"
  BY DEF Unmarked
<1>2. SkipsAre(Unmarked, <<>>)
  BY <1>1 DEF SkipsAre, IsInjective, Range
<1>3. MarksAre(Unmarked, rows, dict)
  BY <1>1 DEF MarksAre, Range
<1>4. QED BY <1>2, <1>3

LEMMA TreeStep == TypeOK /\ IsTree(tree) /\ [Next]_vars => IsTree(tree')
<1> SUFFICES ASSUME TypeOK, IsTree(tree), [Next]_vars PROVE IsTree(tree')
  OBVIOUS
<1>1. CASE UNCHANGED tree
  BY <1>1
<1>2. ASSUME NEW s \in arrived, Store(s) PROVE IsTree(tree')
  <2>1. s[2] \in Paths
    BY DEF TypeOK
  <2>2. IsTree(Way(s[2]))
    BY <2>1, WayIsTree
  <2>3. tree' = tree \cup Way(s[2])
    BY <1>2 DEF Store
  <2>4. QED BY <2>2, <2>3 DEF IsTree
<1>3. Next => UNCHANGED tree \/ \E s \in arrived : Store(s)
  BY MarkingSteps, Kinds
     DEF AddFile, Upload, StartDeposit, AnswerWarning, WarningFails, Choosing,
         Confirm, Dismiss, AnswerRegister, RegisterFails, Complete, DepositStatus,
         server
<1>4. CASE UNCHANGED vars
  BY <1>1, <1>4 DEF vars
<1>5. QED BY <1>1, <1>2, <1>3, <1>4

LEMMA BeforeStep == IInv /\ FirstInv /\ [Next]_vars => BeforeTheFirst'
<1> SUFFICES ASSUME IInv, FirstInv, [Next]_vars PROVE BeforeTheFirst'
  OBVIOUS
<1>0. /\ OneStage /\ BeforeTheFirst
      /\ dismissals \in Nat /\ clicks \in Nat
  BY BoundsAssumption DEF IInv, FirstInv, TypeOK
<1> USE DEF batch, choices, server, counters, OneStage, OneDepositAtATime,
            BeforeTheFirst, AtFirst
<1>1. ASSUME NEW p \in Paths, AddFile(p) \/ Upload(p) PROVE BeforeTheFirst'
  <2>1. /\ UNCHANGED <<asking, modal, registering, uploading, clicks, dismissals,
                       skipPathArray, skipReplaceIdDict>>
        /\ filesDict = files => filesDict' = files'
    BY <1>1 DEF AddFile, Upload
  <2>2. QED BY <1>0, <2>1
<1>2. CASE StartDeposit
  <2>1. clicks' = clicks + 1 /\ clicks' # 0
    BY <1>0, <1>2 DEF StartDeposit
  <2>2. clicks' <= 1 => clicks = 0
    BY <1>0, <2>1
  <2>3. UNCHANGED <<files, filesDict, skipPathArray, skipReplaceIdDict, modal,
                    dismissals>>
    BY <1>2 DEF StartDeposit
  <2>4. ~modal.open
    BY <1>0, <1>2 DEF StartDeposit
  <2>5. QED BY <1>0, <2>1, <2>2, <2>3, <2>4
<1>3. CASE AnswerWarning \/ WarningFails
  <2>1. /\ asking # {} /\ asking' = {} /\ clicks # 0
        /\ UNCHANGED <<files, filesDict, clicks, dismissals>>
    BY <1>0, <1>3 DEF AnswerWarning, WarningFails
  <2>2. QED BY <1>0, <2>1
<1>4. CASE Marking
  <2>1. Choosing /\ modal'.open = modal.open /\ modal.open
    BY <1>4, MarkingSteps
       DEF Marking, Skip, Replace, SkipRemaining, ReplaceRemaining,
           ConfirmTooEarly, Works, IInv
  <2>2. clicks # 0 /\ asking = {}
    BY <1>0, <2>1
  <2>3. QED BY <1>0, <2>1, <2>2 DEF Choosing
<1>5. CASE Confirm
  <2>1. /\ modal.open /\ ~modal'.open
        /\ UNCHANGED <<asking, clicks, dismissals, uploading>>
    BY <1>5, NoModalType DEF Confirm, Works
  <2>2. clicks # 0 /\ asking = {}
    BY <1>0, <2>1
  <2>3. QED BY <1>0, <2>1, <2>2
<1>6. CASE Dismiss
  <2>1. dismissals' # 0
    BY <1>0, <1>6 DEF Dismiss
  <2>2. clicks # 0 /\ clicks' = clicks
    BY <1>0, <1>6 DEF Dismiss
  <2>3. QED BY <2>1, <2>2
<1>7. CASE AnswerRegister \/ RegisterFails
  <2>1. /\ registering /\ ~registering'
        /\ UNCHANGED <<files, filesDict, asking, modal, clicks, dismissals>>
    BY <1>7 DEF AnswerRegister, RegisterFails
  <2>2. clicks # 0 /\ asking = {} /\ ~modal.open
    BY <1>0, <2>1
  <2>3. QED BY <1>0, <2>1, <2>2
<1>8. CASE Complete
  <2>1. uploading /\ UNCHANGED <<asking, modal, clicks, dismissals>>
    BY <1>8 DEF Complete
  <2>2. clicks # 0 /\ asking = {} /\ ~modal.open
    BY <1>0, <2>1
  <2>3. QED BY <1>0, <2>1, <2>2
<1>9. ASSUME NEW s \in arrived, Store(s) PROVE BeforeTheFirst'
  BY <1>0, <1>9 DEF Store
<1>10. CASE DepositStatus \/ UNCHANGED vars
  BY <1>0, <1>10 DEF DepositStatus, vars
<1>11. QED BY Kinds, <1>1, <1>2, <1>3, <1>4, <1>5, <1>6, <1>7, <1>8, <1>9, <1>10

LEMMA AgreeStep == IInv /\ FirstInv /\ [Next]_vars => ChoicesAgree'
<1> SUFFICES ASSUME IInv, FirstInv, [Next]_vars PROVE ChoicesAgree'
  OBVIOUS
<1>0. TypeOK /\ OneStage /\ BeforeTheFirst /\ ChoicesAgree /\ IsTree(tree)
  BY DEF IInv, FirstInv
<1>00. dismissals \in Nat /\ clicks \in Nat
  BY <1>0, BoundsAssumption DEF TypeOK
<1>1. ASSUME UNCHANGED <<modal, skipPathArray, skipReplaceIdDict, clicks, dismissals,
                         found, oneTop>>
      PROVE  ChoicesAgree'
  BY <1>0, <1>1 DEF ChoicesAgree, AtFirst, ChoicesMade, ListsAll
<1>2. ASSUME ~modal'.open PROVE ChoicesAgree'
  BY <1>2 DEF ChoicesAgree
<1>3. CASE AnswerWarning
  <2>1. /\ asking # {} /\ found' = InTree(asking, tree)
        /\ oneTop' = OneTopFolder(asking, tree)
        /\ UNCHANGED <<skipPathArray, skipReplaceIdDict, clicks, dismissals>>
    BY <1>3 DEF AnswerWarning, choices, counters
  <2>2. ~modal.open
    BY <1>0, <2>1 DEF OneStage
  <2>3. ASSUME NEW rows \in RowsOf(AsksFor(Warned(asking, tree))),
               modal' = [open |-> TRUE, dead |-> FALSE, rows |-> rows,
                         marks |-> Unmarked]
        PROVE  ChoicesAgree'
    <3>1. asking \in SUBSET Paths
      BY <1>0 DEF TypeOK
    <3>2. AsksFor(Warned(asking, tree)) \in SUBSET Paths
      BY <3>1, WarnedType, AsksForType
    <3>3. /\ rows \in Seq(Paths) /\ IsInjective(rows)
          /\ Range(rows) = AsksFor(Warned(asking, tree))
      BY <3>2, RowsAre
    <3>4. modal'.rows = rows /\ modal'.marks = Unmarked
      BY <2>3
    <3>5. AtFirst' => ChoicesMade'
      <4>1. AtFirst' => skipPathArray' = <<>> /\ DOMAIN skipReplaceIdDict' = {}
        BY <1>0, <2>1 DEF AtFirst, BeforeTheFirst
      <4>2. DOMAIN skipReplaceIdDict' = {} =>
              SkipsAre(Unmarked, <<>>) /\ MarksAre(Unmarked, rows, skipReplaceIdDict')
        BY <3>3, NothingMarked
      <4>3. QED BY <3>4, <4>1, <4>2 DEF ChoicesMade
    <3>6. ListsAll' => found' \subseteq Range(modal'.rows)
      <4>1. ListsAll' => found' \subseteq AsksFor(Warned(asking, tree))
        BY <1>0, <2>1, <3>1, RowsListAll DEF ListsAll
      <4>2. QED BY <3>3, <3>4, <4>1
    <3>7. QED BY <3>5, <3>6 DEF ChoicesAgree
  <2>4. QED BY <1>2, <1>3, <2>2, <2>3 DEF AnswerWarning
<1>4. CASE Marking
  <2>1. Choosing /\ modal'.open = modal.open /\ modal'.rows = modal.rows
    BY <1>0, <1>4, MarkingSteps
  <2>2. AtFirst' /\ modal'.open => ChoicesMade'
    BY <1>0, <1>4, <2>1, MarkingKeeps
       DEF ChoicesAgree, AtFirst, Choosing, counters
  <2>3. AtFirst' /\ modal'.open /\ ListsAll' => found' \subseteq Range(modal'.rows)
    BY <1>0, <2>1 DEF ChoicesAgree, AtFirst, ListsAll, Choosing, counters
  <2>4. QED BY <2>2, <2>3 DEF ChoicesAgree
<1>5. CASE Confirm \/ Dismiss
  BY <1>2, <1>5, NoModalType DEF Confirm, Dismiss
<1>6. CASE StartDeposit
  BY <1>0, <1>2, <1>6 DEF StartDeposit, OneStage, OneDepositAtATime
<1>7. ASSUME NEW p \in Paths, AddFile(p) \/ Upload(p) PROVE ChoicesAgree'
  BY <1>1, <1>7 DEF AddFile, Upload, choices, counters
<1>8. CASE WarningFails \/ AnswerRegister \/ RegisterFails \/ Complete \/ DepositStatus
  BY <1>1, <1>8 DEF WarningFails, AnswerRegister, RegisterFails, Complete,
                    DepositStatus, choices, counters
<1>9. ASSUME NEW s \in arrived, Store(s) PROVE ChoicesAgree'
  BY <1>1, <1>9 DEF Store, choices, counters
<1>10. CASE UNCHANGED vars
  BY <1>1, <1>10 DEF vars
<1>11. QED BY Kinds, <1>3, <1>4, <1>5, <1>6, <1>7, <1>8, <1>9, <1>10

LEMMA HonouredStep == IInv /\ FirstInv /\ [Next]_vars => ChoiceHonoured'
<1> SUFFICES ASSUME IInv, FirstInv, [Next]_vars PROVE ChoiceHonoured'
  OBVIOUS
<1>0. /\ TypeOK /\ OneStage /\ BeforeTheFirst /\ ChoicesAgree /\ IsTree(tree)
      /\ ChoiceHonoured
  BY DEF IInv, FirstInv
<1>1. ASSUME ~registering' PROVE ChoiceHonoured'
  BY <1>1 DEF ChoiceHonoured
<1>2. ASSUME UNCHANGED <<registering, payload, clicks, dismissals, found, oneTop, shown>>,
             files' \subseteq files \/ (late' /\ registering),
             late => late'
      PROVE  ChoiceHonoured'
  BY <1>0, <1>2 DEF ChoiceHonoured, FirstChoice, SkippedAreLeftOut, ListsAll,
                    OverwritesAreChosen
<1>3. CASE AnswerWarning
  <2>1. /\ asking # {} /\ found' = InTree(asking, tree)
        /\ oneTop' = OneTopFolder(asking, tree)
        /\ UNCHANGED files
    BY <1>3 DEF AnswerWarning, batch
  <2>2. ~registering
    BY <1>0, <2>1 DEF OneStage
  <2>3. ASSUME Warned(asking, tree) = {}, RegisterDeposit(files), shown' = Unmarked
        PROVE  ChoiceHonoured'
    <3>1. payload' = files /\ files \subseteq Paths /\ asking \in SUBSET Paths
      BY <1>0, <2>3 DEF RegisterDeposit, TypeOK
    <3>2. \A p \in Paths : shown'[p] = "none"
      BY <2>3 DEF Unmarked
    <3>3. ListsAll' => found' = {}
      <4>1. ListsAll' => InTree(asking, tree) \subseteq Warned(asking, tree)
        BY <1>0, <2>1, <3>1, AllNamed DEF ListsAll
      <4>2. QED BY <2>1, <2>3, <4>1
    <3>4. SkippedAreLeftOut'
      BY <3>1, <3>2 DEF SkippedAreLeftOut
    <3>5. ListsAll' => OverwritesAreChosen'
      BY <3>3 DEF OverwritesAreChosen
    <3>6. \A p \in files' : p \in payload'
      BY <2>1, <3>1
    <3>7. QED BY <3>4, <3>5, <3>6 DEF ChoiceHonoured
  <2>4. QED BY <1>1, <1>3, <2>2, <2>3 DEF AnswerWarning
<1>4. CASE Confirm
  <2>1. /\ modal.open /\ NotSelected = {}
        /\ payload' = filesDict \ Range(skipPathArray) /\ shown' = modal.marks
        /\ UNCHANGED <<files, clicks, dismissals, found, oneTop>>
    BY <1>4 DEF Confirm, Works, RegisterDeposit, counters
  <2>2. SUFFICES ASSUME FirstChoice PROVE ChoiceHonoured'
    BY <2>1 DEF ChoiceHonoured, FirstChoice
  <2>3. AtFirst
    BY <2>2 DEF AtFirst, FirstChoice
  <2>4. /\ ChoicesMade /\ filesDict = files /\ files \subseteq Paths
        /\ ListsAll => found \subseteq Range(modal.rows)
    BY <1>0, <2>1, <2>3 DEF ChoicesAgree, BeforeTheFirst, TypeOK
  <2>5. \A p \in Paths : modal.marks[p] = "skip" <=> p \in Range(skipPathArray)
    BY <2>4 DEF ChoicesMade, SkipsAre
  <2>6. SkippedAreLeftOut'
    BY <2>1, <2>4, <2>5 DEF SkippedAreLeftOut
  <2>7. ListsAll' => OverwritesAreChosen'
    <3>1. \A p \in Range(modal.rows) : modal.marks[p] # "none"
      BY <2>1 DEF NotSelected, MarkOf, Range
    <3>2. \A p \in Paths : modal.marks[p] \in {"none", "skip", "replace"}
      BY <1>0 DEF TypeOK, Mark
    <3>3. ListsAll' => found' \subseteq Range(modal.rows)
      BY <2>1, <2>4 DEF ListsAll
    <3>4. \A p \in payload' : p \in Paths /\ modal.marks[p] # "skip"
      BY <2>1, <2>4, <2>5
    <3>5. QED BY <2>1, <3>1, <3>2, <3>3, <3>4 DEF OverwritesAreChosen
  <2>8. \A p \in files' : shown'[p] # "skip" => p \in payload'
    BY <2>1, <2>4, <2>5
  <2>9. QED BY <2>6, <2>7, <2>8 DEF ChoiceHonoured
<1>5. CASE Marking
  <2>1. Choosing /\ modal.open
    BY <1>0, <1>5, MarkingSteps
       DEF Marking, Skip, Replace, SkipRemaining, ReplaceRemaining,
           ConfirmTooEarly, Works
  <2>2. ~registering'
    BY <1>0, <2>1 DEF OneStage, Choosing
  <2>3. QED BY <1>1, <2>2
<1>6. CASE Dismiss \/ StartDeposit \/ WarningFails
  <2>1. ~registering'
    BY <1>0, <1>6 DEF Dismiss, StartDeposit, WarningFails, OneStage, OneDepositAtATime
  <2>2. QED BY <1>1, <2>1
<1>7. ASSUME NEW p \in Paths, AddFile(p) PROVE ChoiceHonoured'
  <2>1. CASE registering
    BY <1>2, <1>7, <2>1 DEF AddFile, counters
  <2>2. CASE ~registering
    BY <1>1, <1>7, <2>2 DEF AddFile
  <2>3. QED BY <2>1, <2>2
<1>8. CASE AnswerRegister \/ RegisterFails
  BY <1>1, <1>8 DEF AnswerRegister, RegisterFails
<1>9. CASE Complete
  <2>1. ~registering'
    BY <1>0, <1>9 DEF Complete, OneStage
  <2>2. QED BY <1>1, <2>1
<1>10. ASSUME NEW p \in Paths, Upload(p) PROVE ChoiceHonoured'
  BY <1>2, <1>10 DEF Upload, counters
<1>11. ASSUME NEW s \in arrived, Store(s) PROVE ChoiceHonoured'
  BY <1>2, <1>11 DEF Store, counters, batch
<1>12. CASE DepositStatus \/ UNCHANGED vars
  BY <1>2, <1>12 DEF DepositStatus, counters, batch, vars
<1>13. QED BY Kinds, <1>3, <1>4, <1>5, <1>6, <1>7, <1>8, <1>9, <1>10, <1>11, <1>12

LEMMA InitFirst == Init => FirstInv
<1> SUFFICES ASSUME Init PROVE FirstInv
  OBVIOUS
<1>1. ~modal.open
  BY NoModalType DEF Init
<1>2. IsTree(tree)
  <2>1. \A p \in Existing : IsTree(Way(p))
    BY ExistingAssumption, WayIsTree
  <2>2. tree = UNION {Way(p) : p \in Existing}
    BY DEF Init
  <2>3. QED BY <2>1, <2>2 DEF IsTree
<1>3. QED BY <1>1, <1>2 DEF Init, FirstInv, BeforeTheFirst, ChoicesAgree,
                            ChoiceHonoured

(* What the page keeps until the first answer is part of the invariant.     *)
LEMMA FirstInvariant == Spec => [](IInv /\ FirstInv)
<1>1. IInv /\ FirstInv /\ [Next]_vars => FirstInv'
  <2>1. IInv /\ FirstInv => TypeOK /\ IsTree(tree)
    BY DEF IInv, FirstInv
  <2>2. QED BY <2>1, TreeStep, BeforeStep, AgreeStep, HonouredStep DEF FirstInv
<1>2. QED BY Invariant, InitFirst, <1>1, PTL DEF Spec

(* What is confirmed against the first warning happens, whatever rows were  *)
(* marked, in what order, and how often one was changed or Confirm pressed  *)
(* too early: no file is overwritten unasked that the warning lists, none   *)
(* that was skipped is registered, and no other is left out.                *)
THEOREM ChoiceIsHonoured == Spec => []ChoiceHonoured
<1>1. FirstInv => ChoiceHonoured
  BY DEF FirstInv
<1>2. QED BY FirstInvariant, <1>1, PTL

(* The view is always asked about a tree, so what holds of its answer holds *)
(* whenever the page asks.                                                  *)
THEOREM EveryAnswerIsRight == Spec => [](AllAreNamed /\ OnlyThoseAreNamed)
<1>1. IInv /\ FirstInv => Request
  BY DEF IInv, FirstInv, TypeOK, Request
<1>2. Request => AllAreNamed /\ OnlyThoseAreNamed
  BY NoneIsMissed, NoneIsInvented
<1>3. QED BY FirstInvariant, <1>1, <1>2, PTL

=============================================================================
