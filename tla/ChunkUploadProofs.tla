------------------------- MODULE ChunkUploadProofs --------------------------
(***************************************************************************)
(* What holds of ChunkUpload for any number of files, chunks and requests, *)
(* and any number of lost replies and killed workers.                      *)
(***************************************************************************)
EXTENDS ChunkUpload, NaturalFacts, TLAPS

(* An open inode is where its holder's record says: appending to it is      *)
(* appending to a file that exists.                                         *)
HandleLinked ==
    \A r \in Requests : At(r, "write") =>
        /\ req[r].fd = "out" => out[PosOf(r)] # Absent
        /\ req[r].fd = "tmp" => tmp[PosOf(r)] # Absent

(* The chunks all_chunks_uploaded has gone through are there, and stay.     *)
CheckedOnDisk ==
    \A r \in Requests : \A i \in Chunk :
        \/ At(r, "check") /\ i > req[r].next
        \/ req[r].step \in {"fetch", "save"}
        => tmp[<<FlowId[req[r].file], i>>] # Absent

IInv == TypeOK /\ HandleLinked /\ CheckedOnDisk /\ UploadedIsOnDisk

-----------------------------------------------------------------------------

(* The record of a free slot is a request.                                  *)
LEMMA IdleIsRequest == Idle \in Request
  BY FilesAssumption, NAssumption DEF Idle, Request, Step, Chunk

(* What a request is about is a position on disk and a chunk to send.       *)
LEMMA Positions ==
    ASSUME TypeOK, NEW r \in Requests
    PROVE  /\ PosOf(r) \in Pos /\ SentOf(r) \in Sent
           /\ req[r].file \in Files /\ FlowId[req[r].file] \in FlowIds
           /\ \A i \in Chunk : <<FlowId[req[r].file], i>> \in Pos
  BY FlowIdAssumption DEF TypeOK, Request, PosOf, SentOf, Pos, Sent

(* A reply frees the slot and leaves the client's variables well typed.     *)
LEMMA ReplyTypes ==
    ASSUME TypeOK, NEW r \in Requests, NEW answer \in {"tested", "done"},
           Reply(r, answer)
    PROVE  /\ req' = [req EXCEPT ![r] = Idle]
           /\ req' \in [Requests -> Request]
           /\ ack' \in [Sent -> {"new", "tested", "done"}]
           /\ waiting' \in [Sent -> Requests \cup {NoRequest}]
  BY IdleIsRequest, Positions DEF Reply, TypeOK, client

(* So does a step that only moves the request on.                           *)
LEMMA GotoTypes ==
    ASSUME TypeOK, NEW r \in Requests, NEW s \in Step, Goto(r, s)
    PROVE  req' \in [Requests -> Request]
  <1>1. [req[r] EXCEPT !.step = s] \in Request
    BY DEF TypeOK, Request
  <1>2. QED BY <1>1 DEF Goto, TypeOK

(* ... and one that enters all_chunks_uploaded.                             *)
LEMMA CheckTypes ==
    ASSUME TypeOK, NEW r \in Requests, Check(r)
    PROVE  req' \in [Requests -> Request]
  <1>1. [req[r] EXCEPT !.step = "check", !.next = N, !.total = 0] \in Request
    <2>1. req[r] \in Request /\ N \in Chunk /\ 0 \in Nat
      BY NAssumption DEF TypeOK, Chunk
    <2>2. QED BY <2>1 DEF Request, Step
  <1>2. QED BY <1>1 DEF Check, TypeOK

(* Every step keeps the types; HandleLinked tells that an append finds its  *)
(* file.                                                                    *)
LEMMA TypeStep == TypeOK /\ HandleLinked /\ [Next]_vars => TypeOK'
<1> SUFFICES ASSUME TypeOK, HandleLinked, [Next]_vars PROVE TypeOK'
  OBVIOUS
<1> USE DEF disk, client, faults
<1>1. ASSUME NEW f \in Files, NEW i \in Chunk, SendAny(f, i) PROVE TypeOK'
  <2>1. PICK r \in Requests, s \in {"get_tmp", "post_tmp"} : Send(r, f, i, s)
    BY <1>1 DEF SendAny, SendTest, SendChunk
  <2>2. [Idle EXCEPT !.step = s, !.file = f, !.chunk = i] \in Request
    BY IdleIsRequest DEF Request, Step
  <2>3. QED BY <2>1, <2>2 DEF Send, TypeOK, Sent
<1>2. ASSUME NEW f \in Files, NEW i \in Chunk, LoseReply(f, i) PROVE TypeOK'
  BY <1>2, BoundsAssumption DEF LoseReply, TypeOK, Sent
<1>3. ASSUME NEW r \in Requests, ServeGet(r) PROVE TypeOK'
  <2>1. CASE GetTmp(r)
    <3>1. req' \in [Requests -> Request]
      BY <2>1, GotoTypes, CheckTypes DEF GetTmp, Step
    <3>2. QED BY <2>1, <3>1 DEF GetTmp, TypeOK
  <2>2. CASE GetOut(r)
    <3>1. CASE Reply(r, "tested")
      BY <2>2, <3>1, ReplyTypes DEF GetOut, TypeOK
    <3>2. CASE Check(r) /\ UNCHANGED client
      <4>1. req' \in [Requests -> Request]
        BY <3>2, CheckTypes
      <4>2. QED BY <2>2, <3>2, <4>1 DEF GetOut, TypeOK
    <3>3. QED BY <2>2, <3>1, <3>2 DEF GetOut
  <2>3. QED BY <1>3, <2>1, <2>2 DEF ServeGet
<1>4. ASSUME NEW r \in Requests, ServePost(r) PROVE TypeOK'
  <2>1. CASE PostTmp(r)
    <3>1. CASE Reply(r, "done")
      BY <2>1, <3>1, ReplyTypes DEF PostTmp, TypeOK
    <3>2. CASE Goto(r, "post_out") /\ UNCHANGED client
      <4>1. req' \in [Requests -> Request]
        BY <3>2, GotoTypes DEF Step
      <4>2. QED BY <2>1, <3>2, <4>1 DEF PostTmp, TypeOK
    <3>3. QED BY <2>1, <3>1, <3>2 DEF PostTmp
  <2>2. CASE PostOut(r)
    <3>1. CASE Reply(r, "done")
      BY <2>2, <3>1, ReplyTypes DEF PostOut, TypeOK
    <3>2. CASE Goto(r, "open") /\ UNCHANGED client
      <4>1. req' \in [Requests -> Request]
        BY <3>2, GotoTypes DEF Step
      <4>2. QED BY <2>2, <3>2, <4>1 DEF PostOut, TypeOK
    <3>3. QED BY <2>2, <3>1, <3>2 DEF PostOut
  <2>3. CASE Open(r)
    <3>1. <<>> \in Seq(Files)
      OBVIOUS
    <3>2. out' \in [Pos -> Seq(Files) \cup {Absent}]
      BY <2>3, <3>1 DEF Open, TypeOK
    <3>3. req' \in [Requests -> Request]
      <4>1. [req[r] EXCEPT !.step = "write", !.fd = "out"] \in Request
        BY DEF TypeOK, Request, Step
      <4>2. QED BY <2>3, <4>1 DEF Open, TypeOK
    <3>4. QED BY <2>3, <3>2, <3>3 DEF Open, TypeOK
  <2>4. CASE Write(r)
    <3>1. req[r].file \in Files /\ PosOf(r) \in Pos
      BY Positions
    <3>2. out' \in [Pos -> Seq(Files) \cup {Absent}]
      <4>1. CASE req[r].fd = "out"
        <5>1. out[PosOf(r)] \in Seq(Files)
          BY <2>4, <4>1, <3>1 DEF HandleLinked, Write, TypeOK
        <5>2. Append(out[PosOf(r)], req[r].file) \in Seq(Files)
          BY <5>1, <3>1
        <5>3. QED BY <2>4, <4>1, <5>2 DEF Write, TypeOK
      <4>2. QED BY <2>4, <4>1 DEF Write, TypeOK
    <3>3. tmp' \in [Pos -> Seq(Files) \cup {Absent}]
      <4>1. CASE req[r].fd = "tmp"
        <5>1. tmp[PosOf(r)] \in Seq(Files)
          BY <2>4, <4>1, <3>1 DEF HandleLinked, Write, TypeOK
        <5>2. Append(tmp[PosOf(r)], req[r].file) \in Seq(Files)
          BY <5>1, <3>1
        <5>3. QED BY <2>4, <4>1, <5>2 DEF Write, TypeOK
      <4>2. QED BY <2>4, <4>1 DEF Write, TypeOK
    <3>4. req' \in [Requests -> Request]
      BY <2>4, GotoTypes DEF Write, Step
    <3>5. QED BY <2>4, <3>2, <3>3, <3>4 DEF Write, TypeOK
  <2>5. CASE Move(r)
    <3>1. CASE out[PosOf(r)] # Absent
      <4>1. PosOf(r) \in Pos /\ out[PosOf(r)] \in Seq(Files)
        BY <3>1, Positions DEF TypeOK
      <4>2. \A q \in Requests : Renamed(q, PosOf(r)) \in {"out", "tmp", "gone"}
        BY DEF Renamed, TypeOK, Request
      <4>3. req' \in [Requests -> Request]
        <5>1. [req[r] EXCEPT !.step = "check", !.next = N,
                             !.total = 0, !.fd = "gone"] \in Request
          <6>1. req[r] \in Request /\ N \in Chunk /\ 0 \in Nat
            BY NAssumption DEF TypeOK, Chunk
          <6>2. QED BY <6>1 DEF Request, Step
        <5>2. \A q \in Requests :
                  [req[q] EXCEPT !.fd = Renamed(q, PosOf(r))] \in Request
          BY <4>2 DEF TypeOK, Request
        <5>3. QED BY <2>5, <3>1, <5>1, <5>2 DEF Move, Reply, disk
      <4>4. QED BY <2>5, <3>1, <4>1, <4>3 DEF Move, TypeOK
    <3>2. CASE out[PosOf(r)] = Absent
      BY <2>5, <3>2, ReplyTypes DEF Move, TypeOK
    <3>3. QED BY <3>1, <3>2
  <2>6. QED BY <1>4, <2>1, <2>2, <2>3, <2>4, <2>5 DEF ServePost
<1>5. ASSUME NEW r \in Requests, ServeRow(r) PROVE TypeOK'
  <2>1. CASE CheckChunk(r)
    <3> DEFINE p == <<FlowId[req[r].file], req[r].next>>
    <3>1. p \in Pos /\ (tmp[p] # Absent => Len(tmp[p]) \in Nat)
      BY Positions DEF TypeOK, Request
    <3>2. CASE Reply(r, "done") \/ Reply(r, "tested")
      BY <2>1, <3>2, ReplyTypes DEF CheckChunk, TypeOK
    <3>3. CASE /\ tmp[p] # Absent /\ req[r].next > 1
               /\ req' = [req EXCEPT ![r] =
                    [@ EXCEPT !.next = req[r].next - 1,
                              !.total = req[r].total + Len(tmp[p])]]
               /\ UNCHANGED client
      <4>1. req[r].next - 1 \in Chunk /\ req[r].total + Len(tmp[p]) \in Nat
        BY <3>1, <3>3, NAssumption DEF TypeOK, Request, Chunk
      <4>2. [req[r] EXCEPT !.next = req[r].next - 1,
                           !.total = req[r].total + Len(tmp[p])] \in Request
        BY <4>1 DEF TypeOK, Request
      <4>3. req' \in [Requests -> Request]
        BY <3>3, <4>2 DEF TypeOK
      <4>4. QED BY <2>1, <3>3, <4>3 DEF CheckChunk, TypeOK
    <3>4. CASE Goto(r, "fetch") /\ UNCHANGED client
      <4>1. req' \in [Requests -> Request]
        BY <3>4, GotoTypes DEF Step
      <4>2. QED BY <2>1, <3>4, <4>1 DEF CheckChunk, TypeOK
    <3>5. QED BY <2>1, <3>2, <3>3, <3>4 DEF CheckChunk
  <2>2. CASE Fetch(r)
    <3>1. CASE Reply(r, "done")
      BY <2>2, <3>1, ReplyTypes DEF Fetch, TypeOK
    <3>2. CASE Goto(r, "save") /\ UNCHANGED client
      <4>1. req' \in [Requests -> Request]
        BY <3>2, GotoTypes DEF Step
      <4>2. QED BY <2>2, <3>2, <4>1 DEF Fetch, TypeOK
    <3>3. QED BY <2>2, <3>1, <3>2 DEF Fetch
  <2>3. CASE Save(r)
    BY <2>3, ReplyTypes DEF Save, TypeOK, FileState
  <2>4. QED BY <1>5, <2>1, <2>2, <2>3 DEF ServeRow
<1>6. ASSUME NEW r \in Requests, CrashWorker(r) PROVE TypeOK'
  BY <1>6, ReplyTypes, BoundsAssumption DEF CrashWorker, TypeOK
<1>7. ASSUME NEW f \in Files, ProcessFile(f) PROVE TypeOK'
  BY <1>7 DEF ProcessFile, TypeOK, FileState
<1>8. CASE UNCHANGED vars
  BY <1>8 DEF vars, TypeOK
<1>9. QED
  BY <1>1, <1>2, <1>3, <1>4, <1>5, <1>6, <1>7, <1>8 DEF Next, Serve

-----------------------------------------------------------------------------

(* A .tmp file never goes away: the code appends to it or renames over it.  *)
LEMMA TmpStays ==
    TypeOK /\ HandleLinked /\ [Next]_vars
      => \A p \in Pos : tmp[p] # Absent => tmp'[p] # Absent
<1> SUFFICES ASSUME TypeOK, HandleLinked, [Next]_vars,
                    NEW p \in Pos, tmp[p] # Absent
             PROVE  tmp'[p] # Absent
  OBVIOUS
<1>1. CASE UNCHANGED tmp
  BY <1>1
<1>2. ASSUME NEW r \in Requests, Write(r) PROVE tmp'[p] # Absent
  <2>1. CASE req[r].fd = "tmp" /\ p = PosOf(r)
    <3>1. tmp[p] \in Seq(Files) /\ req[r].file \in Files
      BY Positions DEF TypeOK
    <3>2. tmp'[p] = Append(tmp[p], req[r].file)
      BY <1>2, <2>1 DEF Write, TypeOK
    <3>3. tmp'[p] \in Seq(Files)
      BY <3>1, <3>2
    <3>4. QED BY <3>3, AbsentAssumption
  <2>2. CASE req[r].fd = "tmp" /\ p # PosOf(r)
    BY <1>2, <2>2 DEF Write, TypeOK
  <2>3. CASE req[r].fd # "tmp"
    BY <1>2, <2>3 DEF Write
  <2>4. QED BY <2>1, <2>2, <2>3
<1>3. ASSUME NEW r \in Requests, Move(r) PROVE tmp'[p] # Absent
  BY <1>3 DEF Move, TypeOK, disk
<1>4. QED
  BY <1>1, <1>2, <1>3
     DEF Next, vars, disk, SendAny, SendTest, SendChunk, Send, LoseReply,
         Serve, ServeGet, ServePost, ServeRow, GetTmp, GetOut, PostTmp,
         PostOut, Open, CheckChunk, Fetch, Save, CrashWorker, ProcessFile

(* Handles stay linked when no file changes and no request opens one.       *)
LEMMA HandleFrame ==
    ASSUME HandleLinked, UNCHANGED disk,
           \A q \in Requests : req'[q] = req[q] \/ req'[q].step # "write"
    PROVE  HandleLinked'
  BY DEF HandleLinked, At, PosOf, disk

(* Opening makes the .out file exist, and a rename takes the handles with   *)
(* it: an open handle never dangles.                                        *)
LEMMA HandleStep == TypeOK /\ HandleLinked /\ [Next]_vars => HandleLinked'
<1> SUFFICES ASSUME TypeOK, HandleLinked, [Next]_vars PROVE HandleLinked'
  OBVIOUS
<1> USE DEF TypeOK
<1>1. CASE UNCHANGED <<disk, req>>
  BY <1>1, HandleFrame
<1>2. ASSUME NEW f \in Files, NEW i \in Chunk, SendAny(f, i)
      PROVE  HandleLinked'
  <2>1. PICK r \in Requests, s \in {"get_tmp", "post_tmp"} : Send(r, f, i, s)
    BY <1>2 DEF SendAny, SendTest, SendChunk
  <2>2. Idle \in Request
    BY IdleIsRequest
  <2>3. \A q \in Requests : req'[q] = req[q] \/ req'[q].step # "write"
    BY <2>1, <2>2 DEF Send, Request
  <2>4. QED BY <2>1, <2>3, HandleFrame DEF Send
<1>3. ASSUME NEW r \in Requests, ServeGet(r) PROVE HandleLinked'
  <2>1. UNCHANGED disk
    BY <1>3 DEF ServeGet, GetTmp, GetOut
  <2>2. \/ Goto(r, "get_out") \/ Check(r) \/ Reply(r, "tested")
    BY <1>3 DEF ServeGet, GetTmp, GetOut
  <2>3. \A q \in Requests : req'[q] = req[q] \/ req'[q].step # "write"
    <3>1. CASE Goto(r, "get_out")
      BY <3>1 DEF Goto, Request
    <3>2. CASE Check(r)
      BY <3>2 DEF Check, Request
    <3>3. CASE Reply(r, "tested")
      BY <3>3 DEF Reply, Idle
    <3>4. QED BY <2>2, <3>1, <3>2, <3>3
  <2>4. QED BY <2>1, <2>3, HandleFrame
<1>4. ASSUME NEW r \in Requests, ServeRow(r) PROVE HandleLinked'
  <2>1. UNCHANGED disk
    BY <1>4 DEF ServeRow, CheckChunk, Fetch, Save, disk
  <2>2. \A q \in Requests : req'[q] = req[q] \/ req'[q].step # "write"
    <3>1. CASE CheckChunk(r)
      <4>1. CASE Reply(r, "done") \/ Reply(r, "tested") \/ Goto(r, "fetch")
        BY <4>1 DEF Goto, Reply, Idle, Request
      <4>2. CASE \E n, t : req' = [req EXCEPT ![r] =
                                    [@ EXCEPT !.next = n, !.total = t]]
        BY <3>1, <4>2 DEF CheckChunk, At, Request
      <4>3. QED BY <3>1, <4>1, <4>2 DEF CheckChunk
    <3>2. CASE Fetch(r) \/ Save(r)
      BY <3>2 DEF Fetch, Save, Goto, Reply, Idle, Request
    <3>3. QED BY <1>4, <3>1, <3>2 DEF ServeRow
  <2>3. QED BY <2>1, <2>2, HandleFrame
<1>5. ASSUME NEW r \in Requests, ServePost(r) PROVE HandleLinked'
  <2>1. CASE PostTmp(r) \/ PostOut(r)
    BY <2>1, HandleFrame DEF PostTmp, PostOut, Goto, Reply, Idle, Request
  <2>2. CASE Open(r)
    <3>1. \A p \in Pos : out[p] # Absent => out'[p] # Absent
      BY <2>2 DEF Open
    <3>2. out'[PosOf(r)] # Absent
      <4>1. <<>> \in Seq(Files)
        OBVIOUS
      <4>2. QED BY <2>2, <4>1, Positions, AbsentAssumption DEF Open
    <3>3. req'[r].fd = "out" /\ PosOf(r)' = PosOf(r)
      BY <2>2 DEF Open, PosOf, Request
    <3>4. \A q \in Requests \ {r} : req'[q] = req[q]
      BY <2>2 DEF Open
    <3>5. QED
      BY <2>2, <3>1, <3>2, <3>3, <3>4, Positions
         DEF HandleLinked, At, PosOf, Open
  <2>3. CASE Write(r)
    <3>1. \A p \in Pos : out[p] # Absent => out'[p] # Absent
      <4> SUFFICES ASSUME NEW p \in Pos, out[p] # Absent
                   PROVE  out'[p] # Absent
        OBVIOUS
      <4>1. CASE req[r].fd = "out" /\ p = PosOf(r)
        <5>1. out[p] \in Seq(Files) /\ req[r].file \in Files
          BY Positions
        <5>2. out'[p] = Append(out[p], req[r].file)
          BY <2>3, <4>1 DEF Write
        <5>3. out'[p] \in Seq(Files)
          BY <5>1, <5>2
        <5>4. QED BY <5>3, AbsentAssumption
      <4>2. QED BY <2>3, <4>1 DEF Write
    <3>2. \A p \in Pos : tmp[p] # Absent => tmp'[p] # Absent
      BY TmpStays
    <3>3. req'[r].step # "write" /\ \A q \in Requests \ {r} : req'[q] = req[q]
      BY <2>3 DEF Write, Goto, Request
    <3>4. QED BY <3>1, <3>2, <3>3, Positions DEF HandleLinked, At, PosOf
  <2>4. CASE Move(r)
    <3>1. CASE out[PosOf(r)] = Absent
      BY <2>4, <3>1, HandleFrame DEF Move, Reply, Idle
    <3>2. CASE out[PosOf(r)] # Absent
      <4> DEFINE p == PosOf(r)
      <4>1. /\ out' = [out EXCEPT ![p] = Absent]
            /\ tmp' = [tmp EXCEPT ![p] = out[p]]
        BY <2>4, <3>2 DEF Move, disk
      <4>2. req'[r].step # "write"
        BY <2>4, <3>2 DEF Move, disk, Request
      <4>3. \A q \in Requests \ {r} :
                /\ req'[q].step = req[q].step /\ PosOf(q)' = PosOf(q)
                /\ req'[q].fd = Renamed(q, p)
        <5> SUFFICES ASSUME NEW q \in Requests \ {r}
                     PROVE  /\ req'[q].step = req[q].step
                            /\ req'[q].file = req[q].file
                            /\ req'[q].chunk = req[q].chunk
                            /\ req'[q].fd = Renamed(q, p)
          BY DEF PosOf
        <5>1. req'[q] = [req[q] EXCEPT !.fd = Renamed(q, p)]
          BY <2>4, <3>2 DEF Move
        <5>2. req[q] \in Request
          OBVIOUS
        <5>3. QED BY <5>1, <5>2 DEF Request
      <4>4. ASSUME NEW q \in Requests \ {r}, At(q, "write"), PosOf(q) # p
            PROVE  /\ req'[q].fd = "out" => out'[PosOf(q)] # Absent
                   /\ req'[q].fd = "tmp" => tmp'[PosOf(q)] # Absent
        <5>1. req'[q].fd = req[q].fd
          BY <4>3, <4>4 DEF Renamed, PosOf
        <5>2. PosOf(q) \in Pos
          BY Positions
        <5>3. QED BY <4>1, <4>4, <5>1, <5>2 DEF HandleLinked
      <4>5. ASSUME NEW q \in Requests \ {r}, At(q, "write"), PosOf(q) = p
            PROVE  /\ req'[q].fd # "out"
                   /\ req'[q].fd = "tmp" => tmp'[PosOf(q)] # Absent
        <5>1. Renamed(q, p) \in {"tmp", "gone"}
          BY <4>5 DEF Renamed, PosOf
        <5>2. PosOf(q) \in Pos
          BY Positions
        <5>3. QED BY <3>2, <4>1, <4>3, <4>5, <5>1, <5>2
      <4>6. QED
        BY <4>2, <4>3, <4>4, <4>5 DEF HandleLinked, At
    <3>3. QED BY <3>1, <3>2
  <2>5. QED BY <1>5, <2>1, <2>2, <2>3, <2>4 DEF ServePost
<1>6. ASSUME NEW r \in Requests, CrashWorker(r) PROVE HandleLinked'
  BY <1>6, HandleFrame DEF CrashWorker, Reply, Idle
<1>7. QED
  BY <1>1, <1>2, <1>3, <1>4, <1>5, <1>6
     DEF Next, Serve, LoseReply, ProcessFile, vars, disk

-----------------------------------------------------------------------------

(* CheckedOnDisk survives a step under which every request either looks at  *)
(* the same file with no more chunks gone through, or at none.              *)
LEMMA CheckedFrame ==
    ASSUME TypeOK, HandleLinked, CheckedOnDisk, [Next]_vars,
           \A q \in Requests :
              \/ /\ req'[q].step = req[q].step
                 /\ req'[q].file = req[q].file
                 /\ req'[q].next = req[q].next
              \/ req'[q].step \notin {"check", "fetch", "save"}
              \/ req'[q].step = "check" /\ req'[q].next = N
    PROVE  CheckedOnDisk'
<1> SUFFICES ASSUME NEW q \in Requests, NEW i \in Chunk,
                    \/ req'[q].step = "check" /\ i > req'[q].next
                    \/ req'[q].step \in {"fetch", "save"}
             PROVE  tmp'[<<FlowId[req'[q].file], i>>] # Absent
  BY DEF CheckedOnDisk, At
<1>1. /\ req'[q].step = req[q].step
      /\ req'[q].file = req[q].file
      /\ req'[q].next = req[q].next
  BY NAssumption DEF Chunk
<1>2. tmp[<<FlowId[req[q].file], i>>] # Absent
  BY <1>1 DEF CheckedOnDisk, At
<1>3. QED BY <1>1, <1>2, TmpStays, Positions

(* ... and under the turns of the loop itself, which only ends well when    *)
(* the chunk it looked at was there.                                        *)
LEMMA CheckedStep ==
    TypeOK /\ HandleLinked /\ CheckedOnDisk /\ [Next]_vars => CheckedOnDisk'
<1> SUFFICES ASSUME TypeOK, HandleLinked, CheckedOnDisk, [Next]_vars
             PROVE  CheckedOnDisk'
  OBVIOUS
<1> DEFINE Kept(q) == /\ req'[q].step = req[q].step
                      /\ req'[q].file = req[q].file
                      /\ req'[q].next = req[q].next
           Outside(q) == req'[q].step \notin {"check", "fetch", "save"}
           Enters(q) == req'[q].step = "check" /\ req'[q].next = N
<1>1. CASE UNCHANGED req
  BY <1>1, CheckedFrame
<1>2. ASSUME NEW r \in Requests, NEW s \in Step,
             s \notin {"check", "fetch", "save"}, Goto(r, s)
      PROVE  CheckedOnDisk'
  <2>1. \A q \in Requests : Kept(q) \/ Outside(q)
    BY <1>2 DEF Goto, TypeOK, Request
  <2>2. QED BY <2>1, CheckedFrame
<1>3. ASSUME NEW r \in Requests, NEW a \in {"tested", "done"}, Reply(r, a)
      PROVE  CheckedOnDisk'
  <2>1. \A q \in Requests : Kept(q) \/ Outside(q)
    BY <1>3 DEF Reply, Idle, TypeOK
  <2>2. QED BY <2>1, CheckedFrame
<1>4. ASSUME NEW r \in Requests, Check(r) PROVE CheckedOnDisk'
  <2>1. \A q \in Requests : Kept(q) \/ Enters(q)
    BY <1>4 DEF Check, TypeOK, Request
  <2>2. QED BY <2>1, CheckedFrame
<1>5. ASSUME NEW f \in Files, NEW i \in Chunk, SendAny(f, i)
      PROVE  CheckedOnDisk'
  <2>1. PICK r \in Requests, s \in {"get_tmp", "post_tmp"} : Send(r, f, i, s)
    BY <1>5 DEF SendAny, SendTest, SendChunk
  <2>2. Idle \in Request
    BY IdleIsRequest
  <2>3. \A q \in Requests : Kept(q) \/ Outside(q)
    BY <2>1, <2>2 DEF Send, TypeOK, Request
  <2>4. QED BY <2>3, CheckedFrame
<1>6. ASSUME NEW r \in Requests, Open(r) PROVE CheckedOnDisk'
  <2>1. \A q \in Requests : Kept(q) \/ Outside(q)
    BY <1>6 DEF Open, TypeOK, Request
  <2>2. QED BY <2>1, CheckedFrame
<1>7. ASSUME NEW r \in Requests, Move(r) PROVE CheckedOnDisk'
  <2>1. CASE Reply(r, "tested")
    BY <2>1, <1>3
  <2>2. CASE req' = [q \in Requests |->
                       IF q = r
                       THEN [req[r] EXCEPT !.step = "check", !.next = N,
                                           !.total = 0, !.fd = "gone"]
                       ELSE [req[q] EXCEPT !.fd = Renamed(q, PosOf(r))]]
    <3>1. \A q \in Requests \ {r} : Kept(q)
      BY <2>2 DEF TypeOK, Request
    <3>2. Enters(r)
      BY <2>2 DEF TypeOK, Request
    <3>3. QED BY <3>1, <3>2, CheckedFrame
  <2>3. QED BY <1>7, <2>1, <2>2 DEF Move
<1>8. ASSUME NEW r \in Requests, CheckChunk(r) PROVE CheckedOnDisk'
  <2> DEFINE p == <<FlowId[req[r].file], req[r].next>>
  <2>1. CASE Reply(r, "done") \/ Reply(r, "tested")
    BY <2>1, <1>3
  <2>2. CASE /\ tmp[p] # Absent /\ req[r].next > 1
             /\ req' = [req EXCEPT ![r] =
                    [@ EXCEPT !.next = req[r].next - 1,
                              !.total = req[r].total + Len(tmp[p])]]
    <3>1. /\ req'[r].step = "check" /\ req'[r].file = req[r].file
          /\ req'[r].next = req[r].next - 1
      BY <1>8, <2>2 DEF CheckChunk, At, TypeOK, Request
    <3>2. ASSUME NEW i \in Chunk, i > req'[r].next
          PROVE  tmp[<<FlowId[req[r].file], i>>] # Absent
      <4>1. i = req[r].next \/ i > req[r].next
        BY <3>1, <3>2, NAssumption DEF Chunk, TypeOK, Request
      <4>2. QED BY <1>8, <2>2, <4>1 DEF CheckedOnDisk, CheckChunk
    <3>3. UNCHANGED tmp
      BY <1>8 DEF CheckChunk, disk
    <3>4. \A q \in Requests \ {r} : req'[q] = req[q]
      BY <2>2 DEF TypeOK
    <3>5. QED BY <3>1, <3>2, <3>3, <3>4 DEF CheckedOnDisk, At
  <2>3. CASE tmp[p] # Absent /\ req[r].next = 1 /\ Goto(r, "fetch")
    <3>1. \A i \in Chunk : tmp[<<FlowId[req[r].file], i>>] # Absent
      <4> SUFFICES ASSUME NEW i \in Chunk
                   PROVE  tmp[<<FlowId[req[r].file], i>>] # Absent
        OBVIOUS
      <4>1. i = 1 \/ i > req[r].next
        BY <2>3, NAssumption DEF Chunk
      <4>2. QED BY <1>8, <2>3, <4>1 DEF CheckedOnDisk, CheckChunk
    <3>2. req'[r].file = req[r].file
      BY <2>3 DEF Goto, TypeOK, Request
    <3>3. UNCHANGED tmp
      BY <1>8 DEF CheckChunk, disk
    <3>4. \A q \in Requests \ {r} : req'[q] = req[q]
      BY <2>3 DEF Goto, TypeOK
    <3>5. QED BY <3>1, <3>2, <3>3, <3>4 DEF CheckedOnDisk, At
  <2>4. QED BY <1>8, <2>1, <2>2, <2>3 DEF CheckChunk
<1>9. ASSUME NEW r \in Requests, Fetch(r) PROVE CheckedOnDisk'
  <2>1. CASE Reply(r, "done")
    BY <2>1, <1>3
  <2>2. CASE Goto(r, "save")
    <3>1. \A i \in Chunk : tmp[<<FlowId[req[r].file], i>>] # Absent
      BY <1>9 DEF Fetch, CheckedOnDisk, At
    <3>2. req'[r].file = req[r].file
      BY <2>2 DEF Goto, TypeOK, Request
    <3>3. UNCHANGED tmp
      BY <1>9 DEF Fetch, disk
    <3>4. \A q \in Requests \ {r} : req'[q] = req[q]
      BY <2>2 DEF Goto, TypeOK
    <3>5. QED BY <3>1, <3>2, <3>3, <3>4 DEF CheckedOnDisk, At
  <2>3. QED BY <1>9, <2>1, <2>2 DEF Fetch
<1>10. ASSUME NEW r \in Requests, ServeGet(r) PROVE CheckedOnDisk'
  <2>1. \/ Goto(r, "get_out") \/ Check(r) \/ Reply(r, "tested")
    BY <1>10 DEF ServeGet, GetTmp, GetOut
  <2>2. QED BY <2>1, <1>2, <1>3, <1>4 DEF Step
<1>11. ASSUME NEW r \in Requests, ServePost(r) PROVE CheckedOnDisk'
  <2>1. CASE PostTmp(r) \/ PostOut(r) \/ Write(r)
    <3>1. \/ Reply(r, "done") \/ Goto(r, "post_out")
          \/ Goto(r, "open") \/ Goto(r, "move")
      BY <2>1 DEF PostTmp, PostOut, Write
    <3>2. QED BY <3>1, <1>2, <1>3 DEF Step
  <2>2. QED BY <1>11, <2>1, <1>6, <1>7 DEF ServePost
<1>12. QED
  BY <1>1, <1>3, <1>5, <1>8, <1>9, <1>10, <1>11
     DEF Next, Serve, ServeRow, Save, CrashWorker, LoseReply, ProcessFile,
         vars

(* Only a request that went through all chunks takes a row past REGISTERED. *)
LEMMA UploadedStep == IInv /\ [Next]_vars => UploadedIsOnDisk'
<1> SUFFICES ASSUME IInv, [Next]_vars,
                    NEW f \in Files, state'[f] # "REGISTERED", NEW i \in Chunk
             PROVE  tmp'[<<FlowId[f], i>>] # Absent
  BY DEF UploadedIsOnDisk
<1>1. <<FlowId[f], i>> \in Pos
  BY FlowIdAssumption DEF Pos
<1>2. CASE state[f] # "REGISTERED"
  BY <1>1, <1>2, TmpStays DEF IInv, UploadedIsOnDisk
<1>3. CASE state[f] = "REGISTERED"
  <2>1. PICK r \in Requests : Save(r)
    BY <1>3 DEF IInv, TypeOK, Next, vars, SendAny, SendTest, SendChunk, Send,
                LoseReply, Serve, ServeGet, ServePost, ServeRow, GetTmp,
                GetOut, PostTmp, PostOut, Open, Write, Move, CheckChunk,
                Fetch, CrashWorker, ProcessFile
  <2>2. req[r].file = f
    BY <1>3, <2>1 DEF Save, IInv, TypeOK
  <2>3. QED BY <2>1, <2>2, <1>1, TmpStays DEF IInv, CheckedOnDisk, Save, At
<1>4. QED BY <1>2, <1>3

-----------------------------------------------------------------------------

(* At the start nothing is on disk and nothing is served.                   *)
LEMMA InitIInv == Init => IInv
<1> SUFFICES ASSUME Init PROVE IInv
  OBVIOUS
<1>1. /\ out \in [Pos -> Seq(Files) \cup {Absent}]
      /\ tmp \in [Pos -> Seq(Files) \cup {Absent}]
      /\ state \in [Files -> FileState]
  BY DEF Init, FileState
<1>2. req \in [Requests -> Request]
  BY IdleIsRequest DEF Init
<1>3. /\ ack \in [Sent -> {"new", "tested", "done"}]
      /\ waiting \in [Sent -> Requests \cup {NoRequest}]
  BY DEF Init
<1>4. lost \in 0..MaxLost /\ crashes \in 0..MaxCrashes
  BY BoundsAssumption DEF Init
<1>5. \A r \in Requests : req[r].step = "idle"
  BY DEF Init, Idle
<1>6. HandleLinked /\ CheckedOnDisk
  BY <1>5 DEF HandleLinked, CheckedOnDisk, At
<1>7. UploadedIsOnDisk
  BY DEF Init, UploadedIsOnDisk
<1>8. QED BY <1>1, <1>2, <1>3, <1>4, <1>6, <1>7 DEF IInv, TypeOK

(* Whatever requests overlap, are given up or die, the variables keep their *)
(* types and the faults their bounds.                                       *)
THEOREM TypeCorrect == Spec => []TypeOK
<1>1. Init => TypeOK /\ HandleLinked
  BY InitIInv DEF IInv
<1>2. TypeOK /\ HandleLinked /\ [Next]_vars => (TypeOK /\ HandleLinked)'
  BY TypeStep, HandleStep
<1>3. QED BY <1>1, <1>2, PTL DEF Spec

(* A DepositFile past REGISTERED has all of its chunks on disk under their  *)
(* final names, for every number of concurrent requests.                    *)
THEOREM AllChunksOnDisk == Spec => []UploadedIsOnDisk
<1>1. Init => IInv
  BY InitIInv
<1>2. IInv /\ [Next]_vars => IInv'
  BY TypeStep, HandleStep, CheckedStep, UploadedStep DEF IInv
<1>3. IInv => UploadedIsOnDisk
  BY DEF IInv
<1>4. QED BY <1>1, <1>2, <1>3, PTL DEF Spec

-----------------------------------------------------------------------------
(* While every reply arrives.                                               *)

(* What a step of the server does to the requests: the others keep what     *)
(* they are about and where they are; r goes on about the same chunk, or    *)
(* its slot is free and the client, if it waited for r, has an answer.      *)
Keeps(q) == /\ req'[q].step = req[q].step /\ req'[q].file = req[q].file
            /\ req'[q].chunk = req[q].chunk /\ req'[q].next = req[q].next
            /\ req'[q].total = req[q].total

GoesOn(r) == /\ req'[r].step # "idle" /\ req'[r].file = req[r].file
             /\ req'[r].chunk = req[r].chunk
             /\ UNCHANGED client

Ends(r) == \E answer \in {"tested", "done"} : Reply(r, answer)

(* A step that only moves r on leaves the rest of its record alone.         *)
LEMMA GotoOn ==
    ASSUME TypeOK, NEW r \in Requests, NEW s \in Step
    PROVE  /\ Goto(r, s) =>
                /\ req'[r] = [req[r] EXCEPT !.step = s]
                /\ req'[r].step = s /\ req'[r].file = req[r].file
                /\ req'[r].chunk = req[r].chunk /\ req'[r].fd = req[r].fd
                /\ \A q \in Requests \ {r} : req'[q] = req[q]
           /\ Check(r) =>
                /\ req'[r].step = "check" /\ req'[r].file = req[r].file
                /\ req'[r].chunk = req[r].chunk /\ req'[r].next = N
                /\ req'[r].total = 0
                /\ \A q \in Requests \ {r} : req'[q] = req[q]
<1> req[r] \in Request /\ req \in [Requests -> Request]
  BY DEF TypeOK
<1>1. ASSUME Goto(r, s)
      PROVE  /\ req'[r] = [req[r] EXCEPT !.step = s]
             /\ \A q \in Requests \ {r} : req'[q] = req[q]
  BY <1>1 DEF Goto
<1>2. ASSUME Goto(r, s)
      PROVE  /\ req'[r].step = s /\ req'[r].file = req[r].file
             /\ req'[r].chunk = req[r].chunk /\ req'[r].fd = req[r].fd
  BY <1>1, <1>2 DEF Request
<1>3. ASSUME Check(r)
      PROVE  /\ req'[r] = [req[r] EXCEPT !.step = "check", !.next = N,
                                        !.total = 0]
             /\ \A q \in Requests \ {r} : req'[q] = req[q]
  BY <1>3 DEF Check
<1>4. ASSUME Check(r)
      PROVE  /\ req'[r].step = "check" /\ req'[r].file = req[r].file
             /\ req'[r].chunk = req[r].chunk /\ req'[r].next = N
             /\ req'[r].total = 0
  BY <1>3, <1>4 DEF Request
<1>5. QED BY <1>1, <1>2, <1>3, <1>4

(* A reply frees the slot of r, and the client stops waiting for r at most. *)
LEMMA ReplyOn ==
    ASSUME TypeOK, NEW r \in Requests, Ends(r)
    PROVE  /\ req'[r].step = "idle"
           /\ \A q \in Requests \ {r} : req'[q] = req[q]
           /\ \A c \in Sent : \/ waiting'[c] = waiting[c]
                              \/ waiting[c] = r /\ waiting'[c] = NoRequest
<1>1. PICK answer \in {"tested", "done"} : Reply(r, answer)
  BY DEF Ends
<1>2. req'[r].step = "idle" /\ \A q \in Requests \ {r} : req'[q] = req[q]
  BY <1>1 DEF Reply, Idle, TypeOK
<1>3. CASE waiting[SentOf(r)] = r
  <2> waiting \in [Sent -> Requests \cup {NoRequest}]
    BY DEF TypeOK
  <2>1. waiting' = [waiting EXCEPT ![SentOf(r)] = NoRequest]
    BY <1>1, <1>3 DEF Reply
  <2>2. ASSUME NEW c \in Sent
        PROVE  \/ waiting'[c] = waiting[c]
               \/ waiting[c] = r /\ waiting'[c] = NoRequest
    <3>1. CASE c = SentOf(r)
      BY <1>3, <2>1, <3>1
    <3>2. CASE c # SentOf(r)
      BY <2>1, <3>2
    <3>3. QED BY <3>1, <3>2
  <2>3. QED BY <1>2, <2>2
<1>4. CASE waiting[SentOf(r)] # r
  <2>1. waiting' = waiting
    BY <1>1, <1>4 DEF Reply, client
  <2>2. QED BY <1>2, <2>1
<1>5. QED BY <1>3, <1>4

(* Those are all the effects a served or killed request has.                *)
LEMMA ServeKinds ==
    ASSUME TypeOK, NEW r \in Requests, Serve(r) \/ CrashWorker(r)
    PROVE  /\ \A q \in Requests \ {r} : Keeps(q)
           /\ Ends(r) \/ GoesOn(r)
           /\ ~At(r, "idle")
<1> USE DEF Keeps
<1>1. CASE Ends(r) 
  <2>1. \A q \in Requests \ {r} : Keeps(q)
    BY <1>1, ReplyOn
  <2>2. ~At(r, "idle")
    BY DEF Serve, ServeGet, ServePost, ServeRow, GetTmp, GetOut, PostTmp,
         PostOut, Open, Write, Move, CheckChunk, Fetch, Save, CrashWorker, At
  <2>3. QED BY <1>1, <2>1, <2>2
<1>2. CASE ~Ends(r)
  <2>1. CASE GetTmp(r)
    BY <2>1, <1>2, GotoOn DEF GetTmp, At, GoesOn, Step
  <2>2. CASE GetOut(r)
    BY <2>2, <1>2, GotoOn DEF GetOut, At, GoesOn, Step, Ends
  <2>3. CASE PostTmp(r)
    BY <2>3, <1>2, GotoOn DEF PostTmp, At, GoesOn, Step, Ends
  <2>4. CASE PostOut(r)
    BY <2>4, <1>2, GotoOn DEF PostOut, At, GoesOn, Step, Ends
  <2>5. CASE Open(r)
    BY <2>5 DEF Open, At, GoesOn, TypeOK, Request
  <2>6. CASE Write(r)
    BY <2>6, GotoOn DEF Write, At, GoesOn, Step
  <2>7. CASE Move(r)
    <3>1. /\ UNCHANGED client /\ At(r, "move")
          /\ req' = [q \in Requests |->
                IF q = r
                THEN [req[r] EXCEPT !.step = "check", !.next = N,
                                    !.total = 0, !.fd = "gone"]
                ELSE [req[q] EXCEPT !.fd = Renamed(q, PosOf(r))]]
      BY <2>7, <1>2 DEF Move, Ends
    <3>2. \A q \in Requests \ {r} : Keeps(q)
      BY <3>1 DEF TypeOK, Request
    <3>3. /\ req'[r].step = "check" /\ req'[r].file = req[r].file
          /\ req'[r].chunk = req[r].chunk
      BY <3>1 DEF TypeOK, Request
    <3>4. QED BY <3>1, <3>2, <3>3 DEF GoesOn, At
  <2>8. CASE CheckChunk(r)
    <3>1. CASE Goto(r, "fetch") /\ UNCHANGED client
      BY <2>8, <3>1, GotoOn DEF CheckChunk, At, GoesOn, Step
    <3>2. CASE /\ req' = [req EXCEPT ![r] = [@ EXCEPT !.next = req[r].next - 1,
                            !.total = req[r].total
                              + Len(tmp[<<FlowId[req[r].file], req[r].next>>])]]
               /\ UNCHANGED client
      BY <2>8, <3>2 DEF CheckChunk, At, GoesOn, TypeOK, Request
    <3>3. QED BY <2>8, <3>1, <3>2, <1>2 DEF CheckChunk, Ends
  <2>9. CASE Fetch(r)
    BY <2>9, <1>2, GotoOn DEF Fetch, At, GoesOn, Step, Ends
  <2>10. CASE Save(r) \/ CrashWorker(r)
    BY <2>10, <1>2 DEF Save, CrashWorker, Ends
  <2>11. QED BY <2>1, <2>2, <2>3, <2>4, <2>5, <2>6, <2>7, <2>8, <2>9, <2>10
            DEF Serve, ServeGet, ServePost, ServeRow
<1>3. QED BY <1>1, <1>2

-----------------------------------------------------------------------------

(* As long as no reply is lost, the client waits for every request that is  *)
(* being served.                                                            *)
AwaitedUnlessLost ==
    lost = 0 => \A r \in Requests : ~At(r, "idle") => waiting[SentOf(r)] = r

(* No two DepositFiles share an identifier.                                 *)
OwnIds == \A f, g \in Files : FlowId[f] = FlowId[g] => f = g

(* Faults are only ever added, one at a time.                               *)
LEMMA LostGrows ==
    ASSUME TypeOK, [Next]_vars
    PROVE  lost \in Nat /\ (lost' = lost \/ lost' = lost + 1)
<1>1. lost \in Nat
  BY BoundsAssumption DEF TypeOK
<1>2. lost' = lost \/ lost' = lost + 1
  BY DEF Next, vars, faults, SendAny, SendTest, SendChunk, Send, LoseReply,
         Serve, ServeGet, ServePost, ServeRow, GetTmp, GetOut, PostTmp,
         PostOut, Open, Write, Move, CheckChunk, Fetch, Save, CrashWorker,
         ProcessFile
<1>3. QED BY <1>1, <1>2

LEMMA FaultsStay ==
    ASSUME TypeOK, [Next]_vars
    PROVE  /\ lost' = 0 => lost = 0
           /\ crashes' = 0 => crashes = 0
<1>1. crashes \in Nat
  BY BoundsAssumption DEF TypeOK
<1>2. crashes' = crashes \/ crashes' = crashes + 1
  BY DEF Next, vars, faults, SendAny, SendTest, SendChunk, Send, LoseReply,
         Serve, ServeGet, ServePost, ServeRow, GetTmp, GetOut, PostTmp,
         PostOut, Open, Write, Move, CheckChunk, Fetch, Save, CrashWorker,
         ProcessFile
<1>3. QED BY <1>1, <1>2, LostGrows

(* The client sends the next request for a chunk once it has the answer to  *)
(* the last one.                                                            *)
LEMMA AwaitedStep ==
    ASSUME TypeOK, AwaitedUnlessLost, [Next]_vars
    PROVE  AwaitedUnlessLost'
<1> SUFFICES ASSUME lost' = 0, NEW q \in Requests, req'[q].step # "idle"
             PROVE  waiting'[<<req'[q].file, req'[q].chunk>>] = q
  BY DEF AwaitedUnlessLost, At, SentOf
<1>1. lost = 0
  BY FaultsStay
<1>2. /\ SentOf(q) \in Sent
      /\ req[q].step # "idle" => waiting[SentOf(q)] = q
  BY <1>1, Positions DEF AwaitedUnlessLost, At
<1>3. ASSUME NEW f \in Files, NEW i \in Chunk, SendAny(f, i)
      PROVE  waiting'[<<req'[q].file, req'[q].chunk>>] = q
  <2>1. PICK r \in Requests, s \in {"get_tmp", "post_tmp"} : Send(r, f, i, s)
    BY <1>3 DEF SendAny, SendTest, SendChunk
  <2>2. <<f, i>> \in Sent /\ waiting \in [Sent -> Requests \cup {NoRequest}]
    BY DEF Sent, TypeOK
  <2>3. CASE q = r
    <3>1. req'[q].file = f /\ req'[q].chunk = i
      BY <2>1, <2>3, IdleIsRequest DEF Send, TypeOK, Request
    <3>2. QED BY <2>1, <2>2, <2>3, <3>1 DEF Send
  <2>4. CASE q # r
    <3>1. req'[q] = req[q]
      BY <2>1, <2>4 DEF Send, TypeOK
    <3>2. SentOf(q) # <<f, i>>
      BY <2>1, <1>2, <3>1, NoRequestAssumption DEF Send
    <3>3. QED BY <2>1, <2>2, <3>1, <3>2, <1>2 DEF Send, SentOf
  <2>5. QED BY <2>3, <2>4
<1>4. ASSUME NEW f \in Files, NEW i \in Chunk, LoseReply(f, i) PROVE FALSE
  BY <1>4, <1>1 DEF LoseReply
<1>5. ASSUME NEW r \in Requests, Serve(r) \/ CrashWorker(r)
      PROVE  waiting'[<<req'[q].file, req'[q].chunk>>] = q
  <2>1. CASE q = r
    BY <1>2, <1>5, <2>1, ServeKinds, ReplyOn DEF GoesOn, client, SentOf, At
  <2>2. CASE q # r
    <3>1. Keeps(q) /\ (Ends(r) \/ GoesOn(r))
      BY <1>5, <2>2, ServeKinds
    <3>2. waiting[SentOf(q)] = q
      BY <3>1, <1>2 DEF Keeps
    <3>3. waiting'[SentOf(q)] = q
      BY <3>1, <3>2, <2>2, <1>2, ReplyOn DEF GoesOn, client
    <3>4. QED BY <3>1, <3>3 DEF Keeps, SentOf
  <2>3. QED BY <2>1, <2>2
<1>6. ASSUME UNCHANGED <<req, waiting>>
      PROVE  waiting'[<<req'[q].file, req'[q].chunk>>] = q
  BY <1>6, <1>2 DEF SentOf
<1>7. QED
  BY <1>3, <1>4, <1>5, <1>6 DEF Next, vars, ProcessFile, client

(* So no two requests are about one chunk.                                  *)
LEMMA Alone ==
    ASSUME TypeOK, OwnIds, AwaitedUnlessLost, lost = 0,
           NEW r \in Requests, NEW q \in Requests,
           ~At(r, "idle"), ~At(q, "idle"), PosOf(q) = PosOf(r)
    PROVE  q = r
<1>1. SentOf(q) = SentOf(r)
  BY Positions DEF OwnIds, PosOf, SentOf
<1>2. QED BY <1>1 DEF AwaitedUnlessLost

(* Then a chunk file holds the body its own client sent, once, or its       *)
(* writer has not come so far yet.                                          *)
OneBody ==
    lost = 0 => \A f \in Files : \A i \in Chunk :
        /\ out[<<FlowId[f], i>>] \in {Absent, <<>>, <<f>>}
        /\ tmp[<<FlowId[f], i>>] \in {Absent, <<f>>}

(* ... and a request that writes finds what it left there.                  *)
AloneInFile ==
    lost = 0 => \A r \in Requests :
        /\ At(r, "open") => out[PosOf(r)] = Absent
        /\ At(r, "write") => req[r].fd = "out" /\ out[PosOf(r)] = <<>>
        /\ At(r, "move") => req[r].fd = "out" /\ out[PosOf(r)] = <<req[r].file>>

(* Steps that touch no file, and open one only where there is none.         *)
LEMMA BodyFrame ==
    ASSUME TypeOK, OneBody, AloneInFile, lost' = 0 => lost = 0, UNCHANGED disk,
           \A q \in Requests :
              \/ req'[q] = req[q]
              \/ req'[q].step \notin {"open", "write", "move"}
              \/ /\ req'[q].step = "open" /\ out[PosOf(q)] = Absent
                 /\ req'[q].file = req[q].file /\ req'[q].chunk = req[q].chunk
    PROVE  OneBody' /\ AloneInFile'
  BY DEF OneBody, AloneInFile, At, PosOf, disk

(* No step puts a second body into a chunk file, as no two requests are     *)
(* about one chunk.                                                         *)
LEMMA BodyStep ==
    ASSUME TypeOK, OwnIds, AwaitedUnlessLost, OneBody, AloneInFile,
           [Next]_vars
    PROVE  OneBody' /\ AloneInFile'
<1> USE FaultsStay
<1> DEFINE Quiet(q) == \/ req'[q] = req[q]
                       \/ req'[q].step \notin {"open", "write", "move"}
<1>1. ASSUME NEW f \in Files, NEW i \in Chunk, SendAny(f, i)
      PROVE  OneBody' /\ AloneInFile'
  <2>1. PICK r \in Requests, s \in {"get_tmp", "post_tmp"} : Send(r, f, i, s)
    BY <1>1 DEF SendAny, SendTest, SendChunk
  <2>2. \A q \in Requests : Quiet(q)
    BY <2>1, IdleIsRequest DEF Send, TypeOK, Request
  <2>3. QED BY <2>1, <2>2, BodyFrame DEF Send
<1>2. ASSUME UNCHANGED <<disk, req>> PROVE OneBody' /\ AloneInFile'
  BY <1>2, BodyFrame
<1>3. ASSUME NEW r \in Requests, Ends(r), UNCHANGED disk
      PROVE  OneBody' /\ AloneInFile'
  <2>1. \A q \in Requests : Quiet(q)
    BY <1>3, ReplyOn
  <2>2. QED BY <1>3, <2>1, BodyFrame
<1>4. ASSUME NEW r \in Requests, NEW s \in Step, UNCHANGED disk,
             Goto(r, s) \/ Check(r),
             \/ s \notin {"open", "write", "move"}
             \/ s = "open" /\ out[PosOf(r)] = Absent
      PROVE  OneBody' /\ AloneInFile'
  <2>1. \A q \in Requests \ {r} : req'[q] = req[q]
    BY <1>4, GotoOn
  <2>2. \/ req'[r].step \notin {"open", "write", "move"}
        \/ /\ req'[r].step = "open" /\ out[PosOf(r)] = Absent
           /\ req'[r].file = req[r].file /\ req'[r].chunk = req[r].chunk
    BY <1>4, GotoOn
  <2>3. QED BY <1>4, <2>1, <2>2, BodyFrame
<1>5. ASSUME NEW r \in Requests, ServeGet(r) PROVE OneBody' /\ AloneInFile'
  <2>1. UNCHANGED disk /\ (Ends(r) \/ Goto(r, "get_out") \/ Check(r))
    BY <1>5 DEF ServeGet, GetTmp, GetOut, Ends
  <2>2. "get_out" \in Step /\ "check" \in Step
    BY DEF Step
  <2>3. CASE Check(r)
    BY <2>1, <2>2, <2>3, <1>4
  <2>4. CASE Goto(r, "get_out")
    BY <2>1, <2>2, <2>4, <1>4
  <2>5. QED BY <2>1, <2>3, <2>4, <1>3
<1>6. ASSUME NEW r \in Requests, PostTmp(r) \/ PostOut(r)
      PROVE  OneBody' /\ AloneInFile'
  <2>1. /\ UNCHANGED disk
        /\ \/ Ends(r)
           \/ Goto(r, "post_out")
           \/ Goto(r, "open") /\ out[PosOf(r)] = Absent
    BY <1>6 DEF PostTmp, PostOut, Ends
  <2>2. "post_out" \in Step /\ "open" \in Step
    BY DEF Step
  <2>3. CASE Goto(r, "post_out")
    BY <2>1, <2>2, <2>3, <1>4
  <2>4. CASE Goto(r, "open") /\ out[PosOf(r)] = Absent
    BY <2>1, <2>2, <2>4, <1>4
  <2>5. QED BY <2>1, <2>3, <2>4, <1>3
<1>7. ASSUME NEW r \in Requests, ServeRow(r) \/ CrashWorker(r)
      PROVE  OneBody' /\ AloneInFile'
  <2>1. UNCHANGED disk
    BY <1>7 DEF ServeRow, CheckChunk, Fetch, Save, CrashWorker
  <2>2. CASE Ends(r)
    BY <2>1, <2>2, <1>3
  <2>3. CASE Goto(r, "fetch") \/ Goto(r, "save")
    <3>1. "fetch" \in Step /\ "save" \in Step
      BY DEF Step
    <3>2. CASE Goto(r, "fetch")
      BY <2>1, <3>1, <3>2, <1>4
    <3>3. CASE Goto(r, "save")
      BY <2>1, <3>1, <3>3, <1>4
    <3>4. QED BY <2>3, <3>2, <3>3
  <2>4. CASE \E n, t : At(r, "check") /\ req' = [req EXCEPT ![r] =
                                    [@ EXCEPT !.next = n, !.total = t]]
    <3>1. \A q \in Requests : Quiet(q)
      BY <2>4 DEF At, TypeOK, Request
    <3>2. QED BY <2>1, <3>1, BodyFrame
  <2>5. QED BY <1>7, <2>2, <2>3, <2>4
              DEF ServeRow, CheckChunk, Fetch, Save, CrashWorker, Ends
<1>8. ASSUME NEW r \in Requests, ServePost(r), ~(PostTmp(r) \/ PostOut(r)),
             lost' = 0
      PROVE  OneBody' /\ AloneInFile'
  <2> DEFINE p == PosOf(r)
             f == req[r].file
             i == req[r].chunk
  <2>1. /\ lost = 0 /\ p \in Pos /\ f \in Files /\ i \in Chunk
        /\ p = <<FlowId[f], i>> /\ ~At(r, "idle")
        /\ out \in [Pos -> Seq(Files) \cup {Absent}]
        /\ tmp \in [Pos -> Seq(Files) \cup {Absent}]
    BY <1>8, ServeKinds, Positions DEF Serve, PosOf, TypeOK, Request
  <2>2. ASSUME NEW q \in Requests, q # r, ~At(q, "idle") PROVE PosOf(q) # p
    BY <2>1, <2>2, Alone
  <2>3. ASSUME NEW g \in Files, NEW j \in Chunk, <<FlowId[g], j>> = p
        PROVE  g = f /\ j = i
    BY <2>1, <2>3 DEF OwnIds
  <2>4. /\ \A g \in Files : <<g>> # Absent /\ <<g>> \in Seq(Files)
        /\ <<>> # Absent /\ <<>> \in Seq(Files)
        /\ Append(<<>>, f) = <<f>>
    <3>1. \A g \in Files : <<g>> \in Seq(Files)
      OBVIOUS
    <3>2. <<>> \in Seq(Files)
      OBVIOUS
    <3>3. Append(<<>>, f) = <<f>>
      BY <2>1
    <3>4. QED BY <3>1, <3>2, <3>3, AbsentAssumption
  <2>5. \A g \in Files, j \in Chunk : <<FlowId[g], j>> \in Pos
    BY FlowIdAssumption DEF Pos
  <2>6. \A q \in Requests \ {r} : Keeps(q)
    BY <1>8, ServeKinds DEF Serve
  <2>7. \A q \in Requests : PosOf(q) \in Pos
    BY Positions
  <2> HIDE DEF p, f, i
  <2>8. CASE Open(r)
    <3>1. /\ out' = [out EXCEPT ![p] = <<>>] /\ tmp' = tmp
      BY <2>8, <2>1 DEF Open, AloneInFile, p
    <3>2. /\ req'[r].step = "write" /\ req'[r].fd = "out"
          /\ PosOf(r)' = p
          /\ \A q \in Requests \ {r} : req'[q] = req[q]
      BY <2>8 DEF Open, PosOf, TypeOK, Request, p
    <3>3. OneBody'
      BY <3>1, <2>1, <2>5 DEF OneBody
    <3>4. AloneInFile'
      <4>1. ASSUME NEW q \in Requests, q # r, req[q].step # "idle"
            PROVE  PosOf(q)' = PosOf(q) /\ out'[PosOf(q)] = out[PosOf(q)]
        BY <3>1, <3>2, <4>1, <2>2, <2>7 DEF PosOf, At
      <4>2. out'[p] = <<>>
        BY <3>1, <2>1
      <4>3. QED BY <4>1, <4>2, <3>2, <2>1 DEF AloneInFile, At
    <3>5. QED BY <3>3, <3>4
  <2>9. CASE Write(r)
    <3>1. /\ out' = [out EXCEPT ![p] = <<f>>] /\ tmp' = tmp
      BY <2>9, <2>1, <2>4 DEF Write, AloneInFile, p, f
    <3>2. /\ req'[r].step = "move" /\ req'[r].fd = "out" /\ req'[r].file = f
          /\ PosOf(r)' = p
          /\ \A q \in Requests \ {r} : req'[q] = req[q]
      BY <2>9, <2>1, GotoOn DEF Write, AloneInFile, PosOf, p, f, Step
    <3>3. OneBody'
      BY <3>1, <2>1, <2>3, <2>5 DEF OneBody
    <3>4. AloneInFile'
      <4>1. ASSUME NEW q \in Requests, q # r, req[q].step # "idle"
            PROVE  PosOf(q)' = PosOf(q) /\ out'[PosOf(q)] = out[PosOf(q)]
        BY <3>1, <3>2, <4>1, <2>2, <2>7 DEF PosOf, At
      <4>2. out'[p] = <<f>>
        BY <3>1, <2>1
      <4>3. QED BY <4>1, <4>2, <3>2, <2>1 DEF AloneInFile, At
    <3>5. QED BY <3>3, <3>4
  <2>10. CASE Move(r)
    <3>1. /\ tmp' = [tmp EXCEPT ![p] = <<f>>]
          /\ out' = [out EXCEPT ![p] = Absent]
          /\ req' = [q \in Requests |->
                IF q = r
                THEN [req[r] EXCEPT !.step = "check", !.next = N,
                                    !.total = 0, !.fd = "gone"]
                ELSE [req[q] EXCEPT !.fd = Renamed(q, PosOf(r))]]
      BY <2>10, <2>1, <2>4 DEF Move, AloneInFile, p, f
    <3>2. req'[r].step = "check"
      BY <3>1 DEF TypeOK, Request
    <3>3. OneBody'
      BY <3>1, <2>1, <2>3, <2>5 DEF OneBody
    <3>4. AloneInFile'
      <4>1. ASSUME NEW q \in Requests, q # r, req[q].step # "idle"
            PROVE  /\ PosOf(q)' = PosOf(q) /\ out'[PosOf(q)] = out[PosOf(q)]
                   /\ req'[q].fd = req[q].fd
        <5>1. PosOf(q) # p
          BY <4>1, <2>2 DEF At
        <5>2. Renamed(q, PosOf(r)) = req[q].fd
          BY <5>1 DEF Renamed, PosOf, p
        <5>3. req'[q].fd = req[q].fd
          BY <3>1, <4>1, <5>2 DEF TypeOK, Request
        <5>4. PosOf(q)' = PosOf(q)
          BY <2>6, <4>1 DEF Keeps, PosOf
        <5>5. QED BY <3>1, <5>1, <5>3, <5>4, <2>7
      <4>2. QED BY <4>1, <3>2, <2>1, <2>6 DEF AloneInFile, At, Keeps
    <3>5. QED BY <3>3, <3>4
  <2>11. QED BY <1>8, <2>8, <2>9, <2>10 DEF ServePost
<1>9. CASE lost' # 0
  BY <1>9 DEF OneBody, AloneInFile
<1>10. QED
  BY <1>1, <1>2, <1>5, <1>6, <1>7, <1>8, <1>9
     DEF Next, Serve, LoseReply, ProcessFile, vars, disk

(* Hence the combined size is right when the daemon comes.                  *)
Unrefused == lost = 0 => \A f \in Files : state[f] # "ERROR"

(* The sizes of N chunks of the right size add up to the size of the file.  *)
LEMMA CombinedSizeIsN ==
    ASSUME NEW k, \A i \in Chunk : Len(tmp[<<k, i>>]) = 1
    PROVE  CombinedSize(k) = N
<1> DEFINE g == [i \in Chunk |-> Len(tmp[<<k, i>>])]
<1>1. IsFiniteSet(Chunk) /\ Cardinality(Chunk) = N
  BY FS_Interval, NAssumption DEF Chunk
<1>2. \A i \in Chunk : g[i] = 1
  OBVIOUS
<1> HIDE DEF g
<1>3. FoldFunctionOnSet(+, 0, g, Chunk) = N
  BY <1>1, <1>2, FoldOfOnes
<1>4. QED BY <1>3 DEF CombinedSize, g

(* Only process_chunked_files sets ERROR, and it comes when every chunk is  *)
(* on disk.                                                                 *)
LEMMA UnrefusedStep ==
    ASSUME IInv, OneBody, Unrefused, [Next]_vars
    PROVE  Unrefused'
<1> SUFFICES ASSUME lost' = 0, NEW f \in Files, state'[f] = "ERROR"
             PROVE  FALSE
  BY DEF Unrefused
<1>1. TypeOK /\ lost = 0 /\ state[f] # "ERROR"
  BY FaultsStay DEF IInv, Unrefused
<1>2. ProcessFile(f)
  BY <1>1 DEF TypeOK, Next, vars, SendAny, SendTest, SendChunk, Send,
              LoseReply, Serve, ServeGet, ServePost, ServeRow, GetTmp,
              GetOut, PostTmp, PostOut, Open, Write, Move, CheckChunk,
              Fetch, Save, CrashWorker, ProcessFile
<1>3. \A i \in Chunk : tmp[<<FlowId[f], i>>] = <<f>>
  BY <1>1, <1>2 DEF ProcessFile, IInv, UploadedIsOnDisk, OneBody
<1>4. \A i \in Chunk : Len(tmp[<<FlowId[f], i>>]) = 1
  BY <1>3
<1>5. CombinedSize(FlowId[f]) = N
  BY <1>4, CombinedSizeIsN
<1>6. QED BY <1>1, <1>2, <1>5 DEF ProcessFile, TypeOK

(* What holds while every reply has arrived.                                *)
NothingLost == AwaitedUnlessLost /\ OneBody /\ AloneInFile /\ Unrefused

(* With identifiers of their own, this is an invariant of the uploads.      *)
LEMMA NothingLostInvariant ==
    ASSUME OwnIds
    PROVE  Spec => [](IInv /\ NothingLost)
<1>1. Init => NothingLost
  <2> SUFFICES ASSUME Init PROVE NothingLost
    OBVIOUS
  <2>1. \A r \in Requests : req[r].step = "idle"
    BY DEF Init, Idle
  <2>2. \A f \in Files, i \in Chunk : <<FlowId[f], i>> \in Pos
    BY FlowIdAssumption DEF Pos
  <2>3. QED
    BY <2>1, <2>2 DEF Init, NothingLost, AwaitedUnlessLost, OneBody,
                      AloneInFile, Unrefused, At
<1>2. IInv /\ NothingLost /\ [Next]_vars => (IInv /\ NothingLost)'
  <2> SUFFICES ASSUME IInv, NothingLost, [Next]_vars
               PROVE  IInv' /\ NothingLost'
    OBVIOUS
  <2>1. IInv'
    BY TypeStep, HandleStep, CheckedStep, UploadedStep DEF IInv
  <2>2. QED
    BY <2>1, AwaitedStep, BodyStep, UnrefusedStep DEF IInv, NothingLost
<1>3. QED BY <1>1, <1>2, InitIInv, PTL DEF Spec

(* For any number of files, chunks and requests: when each DepositFile has  *)
(* its own identifier, an upload whose replies all arrive is never refused  *)
(* for its size, whichever workers are killed in between.                   *)
THEOREM NoneRefused == ASSUME OwnIds PROVE Spec => []NoSizeError
<1>1. IInv /\ NothingLost => NoSizeError
  <2> SUFFICES ASSUME IInv, NothingLost, lost = 0, NEW f \in Files
               PROVE  ~Oversize(f) /\ state[f] # "ERROR"
    BY DEF NoSizeError
  <2>1. ASSUME NEW i \in Chunk, tmp[<<FlowId[f], i>>] # Absent
        PROVE  Len(tmp[<<FlowId[f], i>>]) = 1
    <3>1. tmp[<<FlowId[f], i>>] = <<f>>
      BY <2>1 DEF NothingLost, OneBody
    <3>2. QED BY <3>1
  <2>2. ~Oversize(f)
    <3>1. \A i \in Chunk : tmp[<<FlowId[f], i>>] # Absent
                              => ~(Len(tmp[<<FlowId[f], i>>]) > 1)
      BY <2>1
    <3>2. QED BY <3>1 DEF Oversize
  <2>3. QED BY <2>2 DEF NothingLost, Unrefused
<1>2. QED BY <1>1, NothingLostInvariant, PTL

(* ... and what is stored for a file is then exactly what its own client    *)
(* sent, every chunk once and whole.                                        *)
THEOREM OwnContent ==
    ASSUME OwnIds
    PROVE  Spec => [](lost = 0 => OwnBytes /\ FullyWritten)
<1>1. IInv /\ NothingLost => (lost = 0 => OwnBytes /\ FullyWritten)
  <2> SUFFICES ASSUME IInv, NothingLost, lost = 0, NEW f \in Files,
                      state[f] # "REGISTERED", NEW i \in Chunk
               PROVE  /\ tmp[<<FlowId[f], i>>] = <<f>>
                      /\ tmp[<<FlowId[f], i>>] # <<>>
    BY DEF OwnBytes, FullyWritten
  <2>1. tmp[<<FlowId[f], i>>] = <<f>>
    BY DEF IInv, UploadedIsOnDisk, NothingLost, OneBody
  <2>2. QED BY <2>1
<1>2. QED BY <1>1, NothingLostInvariant, PTL

-----------------------------------------------------------------------------

(* Neither a reply was lost nor a worker killed so far.                     *)
NoLoss == lost = 0 /\ crashes = 0

(* A chunk that is being written has a request writing it, so nobody is     *)
(* turned away from an abandoned .out file.                                 *)
OutIsHeld ==
    NoLoss => \A f \in Files : \A i \in Chunk :
        out[<<FlowId[f], i>>] # Absent =>
            \E r \in Requests : /\ PosOf(r) = <<FlowId[f], i>>
                                /\ req[r].step \in {"write", "move"}

(* Whoever looks for all chunks knows that of its own to be there ...       *)
SeenIsOnDisk ==
    NoLoss => \A r \in Requests :
        req[r].step \in {"check", "fetch", "save"} => tmp[PosOf(r)] # Absent

(* ... as does the client of every chunk it was told is settled.            *)
DoneIsOnDisk ==
    NoLoss => \A f \in Files : \A i \in Chunk :
        ack[<<f, i>>] = "done" => tmp[<<FlowId[f], i>>] # Absent

(* The size added up so far is that of the chunks gone through.             *)
TotalSoFar ==
    NoLoss => \A r \in Requests :
        At(r, "check") => req[r].total + req[r].next = N

(* Once the last chunk of a file has arrived, a request is on its way to    *)
(* save the row.                                                            *)
SomeoneFinishes ==
    NoLoss => \A f \in Files :
        /\ state[f] = "REGISTERED"
        /\ \A i \in Chunk : tmp[<<FlowId[f], i>>] # Absent
        => \E r \in Requests : /\ req[r].file = f
                               /\ req[r].step \in {"check", "fetch", "save"}

(* What holds while nothing went wrong.                                     *)
Unhindered == /\ OutIsHeld /\ SeenIsOnDisk /\ DoneIsOnDisk
              /\ TotalSoFar /\ SomeoneFinishes

(* A request that does not write finds no .out file then.                   *)
LEMMA NoStranger ==
    ASSUME IInv, OwnIds, NothingLost, OutIsHeld, NoLoss,
           NEW r \in Requests, ~At(r, "idle"),
           req[r].step \notin {"write", "move"}
    PROVE  out[PosOf(r)] = Absent
<1> SUFFICES ASSUME out[PosOf(r)] # Absent PROVE FALSE
  OBVIOUS
<1>1. PosOf(r) = <<FlowId[req[r].file], req[r].chunk>>
  BY DEF PosOf
<1>2. req[r].file \in Files /\ req[r].chunk \in Chunk
  BY DEF IInv, TypeOK, Request
<1>3. PICK q \in Requests : /\ PosOf(q) = PosOf(r)
                            /\ req[q].step \in {"write", "move"}
  BY <1>1, <1>2 DEF OutIsHeld
<1>4. q = r
  BY <1>3, Alone DEF IInv, NothingLost, NoLoss, At
<1>5. QED BY <1>3, <1>4

(* Every chunk on disk has the right size.                                  *)
LEMMA BodyLength ==
    ASSUME IInv, NothingLost, lost = 0, NEW f \in Files, NEW i \in Chunk,
           tmp[<<FlowId[f], i>>] # Absent
    PROVE  Len(tmp[<<FlowId[f], i>>]) = 1
<1>1. tmp[<<FlowId[f], i>>] = <<f>>
  BY DEF NothingLost, OneBody
<1>2. QED BY <1>1

(* The turns of the loop of all_chunks_uploaded then.                       *)
LEMMA LoopTurn ==
    ASSUME IInv, NothingLost, TotalSoFar, NoLoss,
           NEW r \in Requests, CheckChunk(r)
    PROVE  LET p == <<FlowId[req[r].file], req[r].next>>
           IN  \/ tmp[p] = Absent /\ Reply(r, "done")
               \/ /\ tmp[p] # Absent /\ UNCHANGED client
                  /\ req'[r].step = "check" /\ req'[r].file = req[r].file
                  /\ req'[r].chunk = req[r].chunk
                  /\ req'[r].total + req'[r].next = N
               \/ tmp[p] # Absent /\ Goto(r, "fetch") /\ UNCHANGED client
<1> DEFINE p == <<FlowId[req[r].file], req[r].next>>
<1>1. /\ req[r].file \in Files /\ req[r].next \in Nat /\ req[r].next \in Chunk
      /\ req[r].total \in Nat /\ req[r].total + req[r].next = N /\ N \in Nat
  BY NAssumption DEF IInv, TypeOK, Request, Chunk, CheckChunk, TotalSoFar
<1>2. tmp[p] # Absent => Len(tmp[p]) = 1
  BY <1>1, BodyLength DEF NoLoss
<1>3. CASE /\ tmp[p] # Absent
           /\ req' = [req EXCEPT ![r] = [@ EXCEPT !.next = req[r].next - 1,
                                   !.total = req[r].total + Len(tmp[p])]]
           /\ UNCHANGED client
  <2>1. /\ req'[r].step = "check" /\ req'[r].file = req[r].file
        /\ req'[r].chunk = req[r].chunk
        /\ req'[r].next = req[r].next - 1
        /\ req'[r].total = req[r].total + Len(tmp[p])
    BY <1>3 DEF CheckChunk, At, IInv, TypeOK, Request
  <2>2. req'[r].total + req'[r].next = N
    <3>1. \A t, n \in Nat : t + n = N => (t + 1) + (n - 1) = N
      BY NAssumption
    <3>2. req'[r].total = req[r].total + 1
      BY <1>2, <1>3, <2>1
    <3>3. (req[r].total + 1) + (req[r].next - 1) = N
      BY <1>1, <3>1
    <3>4. QED BY <2>1, <3>2, <3>3
  <2>3. QED BY <1>3, <2>1, <2>2
<1>4. CASE tmp[p] # Absent /\ req[r].next = 1 /\ req[r].total + Len(tmp[p]) # N
  BY <1>1, <1>2, <1>4
<1>5. QED BY <1>3, <1>4 DEF CheckChunk

(* Nothing the server does hides a file that is being written ...           *)
LEMMA HeldStep ==
    ASSUME IInv, OwnIds, NothingLost, OutIsHeld, [Next]_vars
    PROVE  OutIsHeld'
<1> SUFFICES ASSUME NoLoss', NEW f \in Files, NEW i \in Chunk,
                    out'[<<FlowId[f], i>>] # Absent
             PROVE  \E q \in Requests :
                       /\ <<FlowId[req'[q].file], req'[q].chunk>>
                            = <<FlowId[f], i>>
                       /\ req'[q].step \in {"write", "move"}
  BY DEF OutIsHeld, PosOf
<1> DEFINE p == <<FlowId[f], i>>
<1>1. TypeOK /\ NoLoss /\ p \in Pos
  BY FaultsStay, FlowIdAssumption DEF IInv, NoLoss, Pos
<1>2. ASSUME NEW q \in Requests, PosOf(q) = p, Keeps(q) \/ req'[q] = req[q],
             req[q].step \in {"write", "move"}
      PROVE  /\ <<FlowId[req'[q].file], req'[q].chunk>> = p
             /\ req'[q].step \in {"write", "move"}
  BY <1>2 DEF PosOf, Keeps
<1>3. ASSUME out' = out,
             \A q \in Requests : req[q].step \in {"write", "move"}
                                   => Keeps(q) \/ req'[q] = req[q]
      PROVE  \E q \in Requests : /\ <<FlowId[req'[q].file], req'[q].chunk>> = p
                                 /\ req'[q].step \in {"write", "move"}
  <2>1. PICK q \in Requests : PosOf(q) = p /\ req[q].step \in {"write", "move"}
    BY <1>1, <1>3 DEF OutIsHeld
  <2>2. QED BY <2>1, <1>2, <1>3
<1> HIDE DEF p
<1>4. ASSUME NEW g \in Files, NEW j \in Chunk, SendAny(g, j)
      PROVE  \E q \in Requests : /\ <<FlowId[req'[q].file], req'[q].chunk>> = p
                                 /\ req'[q].step \in {"write", "move"}
  BY <1>4, <1>3, <1>1
     DEF SendAny, SendTest, SendChunk, Send, At, disk, TypeOK
<1>5. ASSUME NEW r \in Requests, Serve(r), ~(Open(r) \/ Write(r) \/ Move(r))
      PROVE  \E q \in Requests : /\ <<FlowId[req'[q].file], req'[q].chunk>> = p
                                 /\ req'[q].step \in {"write", "move"}
  <2>1. out' = out /\ req[r].step \notin {"write", "move"}
    BY <1>5 DEF Serve, ServeGet, ServePost, ServeRow, GetTmp, GetOut, PostTmp,
               PostOut, CheckChunk, Fetch, Save, disk, At
  <2>2. \A q \in Requests \ {r} : Keeps(q)
    BY <1>1, <1>5, ServeKinds
  <2>3. QED BY <2>1, <2>2, <1>3
<1>6. ASSUME NEW r \in Requests, Open(r) \/ Write(r) \/ Move(r)
      PROVE  \E q \in Requests : /\ <<FlowId[req'[q].file], req'[q].chunk>> = p
                                 /\ req'[q].step \in {"write", "move"}
  <2>1. /\ \A q \in Requests \ {r} : Keeps(q)
        /\ req'[r].step # "idle" =>
              <<FlowId[req'[r].file], req'[r].chunk>> = PosOf(r)
    <3>1. /\ \A q \in Requests \ {r} : Keeps(q)
          /\ Ends(r) \/ GoesOn(r)
      BY <1>1, <1>6, ServeKinds DEF Serve, ServePost
    <3>2. QED BY <1>1, <3>1, ReplyOn DEF GoesOn, PosOf
  <2>2. CASE Open(r) \/ Write(r)
    <3>1. req'[r].step \in {"write", "move"}
      <4>1. CASE Open(r)
        BY <1>1, <4>1 DEF Open, TypeOK, Request
      <4>2. CASE Write(r)
        BY <1>1, <4>2, GotoOn DEF Write, Step
      <4>3. QED BY <2>2, <4>1, <4>2
    <3>2. CASE p = PosOf(r)
      BY <2>1, <3>1, <3>2
    <3>3. CASE p # PosOf(r)
      <4>1. out'[p] = out[p]
        BY <1>1, <2>2, <3>3 DEF Open, Write, TypeOK
      <4>2. PICK q \in Requests : /\ PosOf(q) = p
                                  /\ req[q].step \in {"write", "move"}
        BY <1>1, <4>1 DEF OutIsHeld, p
      <4>3. QED BY <4>2, <3>3, <2>1, <1>2 DEF p
    <3>4. QED BY <3>2, <3>3
  <2>3. CASE Move(r)
    <3>1. \/ out' = [out EXCEPT ![PosOf(r)] = Absent]
          \/ out' = out /\ out[PosOf(r)] = Absent
      BY <2>3 DEF Move, disk
    <3>2. p # PosOf(r) /\ out'[p] = out[p]
      BY <1>1, <3>1 DEF TypeOK, p
    <3>3. PICK q \in Requests : /\ PosOf(q) = p
                                /\ req[q].step \in {"write", "move"}
      BY <1>1, <3>2 DEF OutIsHeld, p
    <3>4. QED BY <3>2, <3>3, <2>1, <1>2 DEF p
  <2>4. QED BY <1>6, <2>2, <2>3
<1>7. ASSUME NEW g \in Files, NEW j \in Chunk, LoseReply(g, j) PROVE FALSE
  BY <1>1, <1>7 DEF LoseReply, NoLoss, TypeOK
<1>8. ASSUME NEW r \in Requests, CrashWorker(r) PROVE FALSE
  BY <1>1, <1>8 DEF CrashWorker, NoLoss, TypeOK
<1>9. CASE UNCHANGED <<out, req>>
  <2>1. out' = out /\ \A q \in Requests : req'[q] = req[q]
    BY <1>9
  <2>2. QED BY <2>1, <1>3 DEF p
<1>10. QED
  BY <1>4, <1>5, <1>6, <1>7, <1>8, <1>9
     DEF Next, vars, ProcessFile, disk, p

(* The steps of all_chunks_uploaded and the update of the row.              *)
Looking == {"check", "fetch", "save"}

(* It tells the client to send the chunk ...                                *)
Refuses(r) == Reply(r, "tested") /\ At(r, "get_out")

(* ... or that the chunk is settled, and has it on disk; a request that     *)
(* looked for all chunks missed one or has seen the row through ...         *)
Settles(r) ==
    /\ Reply(r, "done") /\ tmp[PosOf(r)] # Absent
    /\ req[r].step \in Looking =>
          \/ state'[req[r].file] # "REGISTERED"
          \/ /\ \E i \in Chunk : tmp[<<FlowId[req[r].file], i>>] = Absent
             /\ tmp' = tmp

(* ... or goes on, and does not stop looking once it looks.                 *)
Advances(r) ==
    /\ GoesOn(r)
    /\ req[r].step \in Looking => req'[r].step \in Looking
    /\ req'[r].step \in Looking => tmp'[PosOf(r)] # Absent
    /\ req'[r].step = "check" => req'[r].total + req'[r].next = N

(* A request about to rename its file finds it.                             *)
LEMMA MovesOn ==
    ASSUME TypeOK, NothingLost, lost = 0, NEW r \in Requests, Move(r)
    PROVE  /\ UNCHANGED client
           /\ \A p \in Pos \ {PosOf(r)} : tmp'[p] = tmp[p]
           /\ tmp'[PosOf(r)] # Absent
           /\ req'[r].step = "check" /\ req'[r].file = req[r].file
           /\ req'[r].chunk = req[r].chunk /\ req'[r].next = N
           /\ req'[r].total = 0
<1>1. PosOf(r) \in Pos /\ req[r].file \in Files
  BY Positions
<1>2. out[PosOf(r)] = <<req[r].file>> /\ <<req[r].file>> # Absent
  <2>1. <<req[r].file>> \in Seq(Files)
    BY <1>1
  <2>2. QED BY <2>1, AbsentAssumption DEF NothingLost, AloneInFile, Move
<1>3. /\ UNCHANGED client /\ tmp' = [tmp EXCEPT ![PosOf(r)] = out[PosOf(r)]]
      /\ req' = [q \in Requests |->
            IF q = r
            THEN [req[r] EXCEPT !.step = "check", !.next = N,
                                !.total = 0, !.fd = "gone"]
            ELSE [req[q] EXCEPT !.fd = Renamed(q, PosOf(r))]]
  BY <1>2 DEF Move
<1>4. /\ req'[r].step = "check" /\ req'[r].file = req[r].file
      /\ req'[r].chunk = req[r].chunk /\ req'[r].next = N
      /\ req'[r].total = 0
  BY <1>3 DEF TypeOK, Request
<1>5. QED BY <1>1, <1>2, <1>3, <1>4 DEF TypeOK

(* These are all the steps the server takes for a request then.             *)
LEMMA Turn ==
    ASSUME IInv, OwnIds, NothingLost, OutIsHeld, SeenIsOnDisk, TotalSoFar,
           NoLoss, NEW r \in Requests, Serve(r)
    PROVE  Refuses(r) \/ Settles(r) \/ Advances(r)
<1>1. /\ TypeOK /\ ~At(r, "idle") /\ PosOf(r) \in Pos
      /\ N + 0 = N /\ 0 + N = N /\ req[r].file \in Files
  BY ServeKinds, Positions, NAssumption DEF IInv
<1>2. req[r].step \notin {"write", "move"} => out[PosOf(r)] = Absent
  BY <1>1, NoStranger
<1>3. req[r].step \in Looking => tmp[PosOf(r)] # Absent
  BY DEF Looking, SeenIsOnDisk
<1>4. ASSUME NEW s \in Step, s # "idle", Goto(r, s), UNCHANGED client,
             s \notin Looking, req[r].step \notin Looking
      PROVE  Advances(r)
  BY <1>1, <1>4, GotoOn DEF Advances, GoesOn, Looking
<1>5. ASSUME Check(r), UNCHANGED client, tmp' = tmp, tmp[PosOf(r)] # Absent
      PROVE  Advances(r)
  BY <1>1, <1>5, GotoOn DEF Advances, GoesOn, Looking, Step
<1>6. CASE GetTmp(r)
  <2>1. /\ "get_out" \in Step /\ "get_out" \notin Looking
        /\ req[r].step \notin Looking
    BY <1>6 DEF Step, Looking, GetTmp, At
  <2>2. CASE tmp[PosOf(r)] = Absent
    BY <1>6, <2>1, <2>2, <1>4 DEF GetTmp
  <2>3. CASE tmp[PosOf(r)] # Absent
    BY <1>6, <2>3, <1>5 DEF GetTmp, disk
  <2>4. QED BY <2>2, <2>3
<1>7. CASE GetOut(r)
  <2>1. out[PosOf(r)] = Absent
    BY <1>7, <1>2 DEF GetOut, At
  <2>2. QED BY <1>7, <2>1 DEF GetOut, Refuses
<1>8. CASE PostTmp(r)
  <2>1. /\ "post_out" \in Step /\ "post_out" \notin Looking
        /\ req[r].step \notin Looking
    BY <1>8 DEF Step, Looking, PostTmp, At
  <2>2. QED BY <1>8, <2>1, <1>4 DEF PostTmp, Settles
<1>9. CASE PostOut(r)
  <2>1. "open" \in Step /\ "open" \notin Looking /\ req[r].step \notin Looking
    BY <1>9 DEF Step, Looking, PostOut, At
  <2>2. out[PosOf(r)] = Absent
    BY <1>9, <1>2 DEF PostOut, At
  <2>3. QED BY <1>9, <2>1, <2>2, <1>4 DEF PostOut
<1>10. CASE Open(r)
  <2>1. req'[r].step = "write" /\ req[r].step = "open"
    BY <1>10, <1>1 DEF Open, TypeOK, Request, At
  <2>2. GoesOn(r)
    BY <1>10, <1>1 DEF Open, TypeOK, Request, GoesOn
  <2>3. QED BY <2>1, <2>2 DEF Advances, Looking
<1>11. CASE Write(r)
  <2>1. "move" \in Step /\ "move" \notin Looking /\ req[r].step \notin Looking
    BY <1>11 DEF Step, Looking, Write, At
  <2>2. QED BY <1>11, <2>1, <1>4 DEF Write
<1>12. CASE Move(r)
  BY <1>1, <1>12, MovesOn DEF Advances, GoesOn, Looking, NoLoss
<1>13. CASE CheckChunk(r)
  <2> DEFINE p == <<FlowId[req[r].file], req[r].next>>
  <2>1. tmp' = tmp /\ req[r].next \in Chunk /\ req[r].step \in Looking
    BY <1>13, <1>1 DEF CheckChunk, disk, TypeOK, Request, Looking, At
  <2>2. CASE tmp[p] = Absent /\ Reply(r, "done")
    BY <1>3, <2>1, <2>2 DEF Settles
  <2>3. CASE /\ tmp[p] # Absent /\ UNCHANGED client
             /\ req'[r].step = "check" /\ req'[r].file = req[r].file
             /\ req'[r].chunk = req[r].chunk
             /\ req'[r].total + req'[r].next = N
    BY <1>3, <2>1, <2>3 DEF Advances, GoesOn, Looking
  <2>4. CASE tmp[p] # Absent /\ Goto(r, "fetch") /\ UNCHANGED client
    BY <1>1, <1>3, <2>1, <2>4, GotoOn DEF Advances, GoesOn, Looking, Step
  <2>5. QED BY <1>13, <2>2, <2>3, <2>4, LoopTurn
<1>14. CASE Fetch(r)
  <2>1. tmp' = tmp /\ state' = state /\ req[r].step \in Looking
    BY <1>14 DEF Fetch, disk, Looking, At
  <2>2. CASE Reply(r, "done") /\ state[req[r].file] # "REGISTERED"
    BY <1>3, <2>1, <2>2 DEF Settles
  <2>3. CASE Goto(r, "save") /\ UNCHANGED client
    BY <1>1, <1>3, <2>1, <2>3, GotoOn DEF Advances, GoesOn, Looking, Step
  <2>4. QED BY <1>14, <2>2, <2>3 DEF Fetch
<1>15. CASE Save(r)
  <2>1. req[r].step \in Looking /\ state'[req[r].file] # "REGISTERED"
    BY <1>1, <1>15 DEF Save, Looking, At, TypeOK
  <2>2. QED BY <1>3, <1>15, <2>1 DEF Save, Settles
<1>16. QED
  BY <1>6, <1>7, <1>8, <1>9, <1>10, <1>11, <1>12, <1>13, <1>14, <1>15
     DEF Serve, ServeGet, ServePost, ServeRow

(* A reply is about the chunk of its request.                               *)
LEMMA ReplyAcks ==
    ASSUME TypeOK, NEW r \in Requests, NEW answer \in {"tested", "done"},
           Reply(r, answer), NEW c \in Sent
    PROVE  ack'[c] = ack[c] \/ (ack'[c] = answer /\ c = SentOf(r))
<1>1. CASE waiting[SentOf(r)] = r
  <2>1. ack' = [ack EXCEPT ![SentOf(r)] = answer]
    BY <1>1 DEF Reply
  <2>2. QED BY <2>1 DEF TypeOK
<1>2. CASE waiting[SentOf(r)] # r
  BY <1>2 DEF Reply, client
<1>3. QED BY <1>1, <1>2

(* Nor does it take a chunk away that was found or acknowledged.            *)
LEMMA SeenStep ==
    ASSUME IInv, OwnIds, NothingLost, OutIsHeld, SeenIsOnDisk, DoneIsOnDisk,
           TotalSoFar, [Next]_vars
    PROVE  SeenIsOnDisk' /\ DoneIsOnDisk' /\ TotalSoFar'
<1> SUFFICES ASSUME NoLoss'
             PROVE  /\ \A q \in Requests :
                          req'[q].step \in {"check", "fetch", "save"} =>
                             tmp'[<<FlowId[req'[q].file], req'[q].chunk>>]
                               # Absent
                    /\ \A f \in Files : \A i \in Chunk :
                          ack'[<<f, i>>] = "done" =>
                             tmp'[<<FlowId[f], i>>] # Absent
                    /\ \A q \in Requests : req'[q].step = "check" =>
                          req'[q].total + req'[q].next = N
  BY DEF SeenIsOnDisk, DoneIsOnDisk, TotalSoFar, PosOf, At
<1> DEFINE Seen(q) == req'[q].step \in {"check", "fetch", "save"} =>
                         tmp'[<<FlowId[req'[q].file], req'[q].chunk>>] # Absent
           Total(q) == req'[q].step = "check" =>
                          req'[q].total + req'[q].next = N
           Acked(f, i) == ack'[<<f, i>>] = "done" =>
                             tmp'[<<FlowId[f], i>>] # Absent
<1>1. TypeOK /\ NoLoss
  BY FaultsStay DEF IInv, NoLoss
<1>2. \A p \in Pos : tmp[p] # Absent => tmp'[p] # Absent
  BY TmpStays DEF IInv
<1>3. /\ \A q \in Requests : PosOf(q) \in Pos /\ SentOf(q) \in Sent
      /\ \A f \in Files, i \in Chunk : <<FlowId[f], i>> \in Pos
      /\ \A f \in Files, i \in Chunk : <<f, i>> \in Sent
  BY <1>1, Positions, FlowIdAssumption DEF Pos, Sent
<1>4. ASSUME NEW q \in Requests, Keeps(q) \/ req'[q] = req[q]
      PROVE  Seen(q) /\ Total(q)
  <2>1. <<FlowId[req'[q].file], req'[q].chunk>> = PosOf(q)
    BY <1>4 DEF Keeps, PosOf
  <2>2. /\ req'[q].step = req[q].step /\ req'[q].total = req[q].total
        /\ req'[q].next = req[q].next
    BY <1>4 DEF Keeps
  <2>3. Seen(q)
    BY <2>1, <2>2, <1>1, <1>2, <1>3 DEF SeenIsOnDisk
  <2>4. Total(q)
    BY <2>2, <1>1 DEF TotalSoFar, At
  <2>5. QED BY <2>3, <2>4
<1>5. ASSUME NEW f \in Files, NEW i \in Chunk,
             ack'[<<f, i>>] = ack[<<f, i>>] \/ ack'[<<f, i>>] # "done"
      PROVE  Acked(f, i)
  BY <1>5, <1>1, <1>2, <1>3 DEF DoneIsOnDisk
<1>6. ASSUME NEW r \in Requests, NEW f \in Files, NEW i \in Chunk,
             Reply(r, "tested") \/ (Reply(r, "done") /\ tmp[PosOf(r)] # Absent)
      PROVE  Acked(f, i)
  <2>1. CASE <<f, i>> = SentOf(r)
    <3>1. PosOf(r) = <<FlowId[f], i>>
      BY <2>1 DEF SentOf, PosOf
    <3>2. QED BY <1>1, <1>2, <1>3, <1>5, <1>6, <3>1, ReplyAcks
  <2>2. CASE <<f, i>> # SentOf(r)
    BY <1>1, <1>3, <1>5, <1>6, <2>2, ReplyAcks
  <2>3. QED BY <2>1, <2>2
<1>7. ASSUME NEW r \in Requests, Serve(r)
      PROVE  /\ \A q \in Requests : Seen(q) /\ Total(q)
             /\ \A f \in Files, i \in Chunk : Acked(f, i)
  <2>1. \A q \in Requests \ {r} : Seen(q) /\ Total(q)
    BY <1>1, <1>4, <1>7, ServeKinds
  <2>2. CASE Refuses(r) \/ Settles(r)
    <3>1. req'[r].step = "idle"
      BY <1>1, <2>2, ReplyOn DEF Refuses, Settles, Ends
    <3>2. Seen(r) /\ Total(r)
      BY <3>1
    <3>3. \A f \in Files, i \in Chunk : Acked(f, i)
      BY <2>2, <1>6 DEF Refuses, Settles
    <3>4. QED BY <2>1, <3>2, <3>3
  <2>3. CASE Advances(r)
    <3>1. <<FlowId[req'[r].file], req'[r].chunk>> = PosOf(r)
      BY <2>3 DEF Advances, GoesOn, PosOf
    <3>2. Seen(r) /\ Total(r)
      BY <2>3, <3>1 DEF Advances, Looking
    <3>3. \A f \in Files, i \in Chunk : Acked(f, i)
      BY <2>3, <1>5 DEF Advances, GoesOn, client
    <3>4. QED BY <2>1, <3>2, <3>3
  <2>4. QED BY <1>1, <1>7, <2>2, <2>3, Turn
<1>8. ASSUME NEW f \in Files, NEW i \in Chunk, SendAny(f, i)
      PROVE  /\ \A q \in Requests : Seen(q) /\ Total(q)
             /\ \A g \in Files, j \in Chunk : Acked(g, j)
  <2>1. PICK r \in Requests, s \in {"get_tmp", "post_tmp"} : Send(r, f, i, s)
    BY <1>8 DEF SendAny, SendTest, SendChunk
  <2>2. ack' = ack
    BY <2>1 DEF Send
  <2>3. req'[r].step = s /\ \A q \in Requests \ {r} : req'[q] = req[q]
    BY <1>1, <2>1, IdleIsRequest DEF Send, TypeOK, Request
  <2>4. Seen(r) /\ Total(r)
    BY <2>3
  <2>5. QED BY <2>2, <2>3, <2>4, <1>4, <1>5
<1>9. CASE UNCHANGED <<req, ack>>
  <2>1. ack' = ack /\ \A q \in Requests : req'[q] = req[q]
    BY <1>9
  <2>2. QED BY <2>1, <1>4, <1>5
<1>10. ASSUME NEW g \in Files, NEW j \in Chunk, LoseReply(g, j) PROVE FALSE
  BY <1>1, <1>10 DEF LoseReply, NoLoss, TypeOK
<1>11. ASSUME NEW r \in Requests, CrashWorker(r) PROVE FALSE
  BY <1>1, <1>11 DEF CrashWorker, NoLoss, TypeOK
<1>12. QED
  BY <1>7, <1>8, <1>9, <1>10, <1>11 DEF Next, vars, ProcessFile, client

(* The last chunk of a file to arrive is followed by somebody who looks at  *)
(* all of them, and sees the row through.                                   *)
LEMMA FinisherStep ==
    ASSUME IInv, OwnIds, NothingLost, Unhindered, [Next]_vars
    PROVE  SomeoneFinishes'
<1> USE DEF Unhindered
<1> SUFFICES ASSUME NoLoss', NEW f \in Files, state'[f] = "REGISTERED",
                    \A i \in Chunk : tmp'[<<FlowId[f], i>>] # Absent
             PROVE  \E q \in Requests :
                       req'[q].file = f /\ req'[q].step \in Looking
  BY DEF SomeoneFinishes, Looking
<1> DEFINE Goal == \E q \in Requests :
                       req'[q].file = f /\ req'[q].step \in Looking
<1>1. TypeOK /\ NoLoss
  BY FaultsStay DEF IInv, NoLoss
<1>2. state[f] = "REGISTERED"
  BY <1>1 DEF TypeOK, Next, vars, SendAny, SendTest, SendChunk, Send,
              LoseReply, Serve, ServeGet, ServePost, ServeRow, GetTmp,
              GetOut, PostTmp, PostOut, Open, Write, Move, CheckChunk,
              Fetch, Save, CrashWorker, ProcessFile
<1>3. ASSUME tmp' = tmp
      PROVE  \E q \in Requests : req[q].file = f /\ req[q].step \in Looking
  BY <1>1, <1>2, <1>3 DEF SomeoneFinishes, Looking
<1>4. ASSUME NEW r \in Requests, Serve(r), ~Move(r) PROVE Goal
  <2>1. \/ tmp' = tmp
        \/ Write(r) /\ req[r].fd = "tmp"
    BY <1>4 DEF Serve, ServeGet, ServePost, ServeRow, GetTmp, GetOut, PostTmp,
               PostOut, Open, Write, CheckChunk, Fetch, Save, disk
  <2>2. ~(Write(r) /\ req[r].fd = "tmp")
    BY <1>1 DEF Write, NothingLost, AloneInFile, NoLoss
  <2>3. PICK q \in Requests : req[q].file = f /\ req[q].step \in Looking
    BY <2>1, <2>2, <1>3
  <2>4. CASE q # r
    <3>1. Keeps(q)
      BY <1>1, <1>4, <2>4, ServeKinds
    <3>2. QED BY <2>3, <3>1 DEF Keeps
  <2>5. CASE q = r
    <3>1. Refuses(r) \/ Settles(r) \/ Advances(r)
      BY <1>1, <1>4, Turn
    <3>2. ~Refuses(r)
      BY <2>3, <2>5 DEF Refuses, At, Looking
    <3>3. ~Settles(r)
      BY <2>1, <2>2, <2>3, <2>5 DEF Settles
    <3>4. QED BY <2>3, <2>5, <3>1, <3>2, <3>3 DEF Advances, GoesOn
  <2>6. QED BY <2>4, <2>5
<1>5. ASSUME NEW r \in Requests, Move(r) PROVE Goal
  <2>1. CASE req[r].file = f
    BY <1>1, <1>5, <2>1, MovesOn DEF NoLoss, Looking
  <2>2. CASE req[r].file # f
    <3>1. \A i \in Chunk : <<FlowId[f], i>> \in Pos \ {PosOf(r)}
      BY <1>1, <2>2, Positions, FlowIdAssumption DEF OwnIds, Pos, PosOf
    <3>2. \A i \in Chunk : tmp[<<FlowId[f], i>>] # Absent
      BY <1>1, <1>5, <3>1, MovesOn DEF NoLoss
    <3>3. PICK q \in Requests : req[q].file = f /\ req[q].step \in Looking
      BY <1>1, <1>2, <3>2 DEF SomeoneFinishes, Looking
    <3>4. Keeps(q)
      BY <1>1, <1>5, <2>2, <3>3, ServeKinds DEF Serve, ServePost
    <3>5. QED BY <3>3, <3>4 DEF Keeps
  <2>3. QED BY <2>1, <2>2
<1>6. ASSUME NEW g \in Files, NEW i \in Chunk, SendAny(g, i) PROVE Goal
  <2>1. PICK r \in Requests, s \in {"get_tmp", "post_tmp"} : Send(r, g, i, s)
    BY <1>6 DEF SendAny, SendTest, SendChunk
  <2>2. PICK q \in Requests : req[q].file = f /\ req[q].step \in Looking
    BY <1>3, <2>1 DEF Send, disk
  <2>3. req'[q] = req[q]
    BY <1>1, <2>1, <2>2 DEF Send, At, TypeOK, Looking
  <2>4. QED BY <2>2, <2>3
<1>7. CASE UNCHANGED <<tmp, req>>
  BY <1>3, <1>7
<1>8. ASSUME NEW g \in Files, NEW j \in Chunk, LoseReply(g, j) PROVE FALSE
  BY <1>1, <1>8 DEF LoseReply, NoLoss, TypeOK
<1>9. ASSUME NEW r \in Requests, CrashWorker(r) PROVE FALSE
  BY <1>1, <1>9 DEF CrashWorker, NoLoss, TypeOK
<1>10. QED
  BY <1>4, <1>5, <1>6, <1>7, <1>8, <1>9
     DEF Next, vars, ProcessFile, disk

(* For any number of files, chunks and requests: as long as neither a reply *)
(* is lost nor a worker killed, a file with its own identifier whose client *)
(* holds every chunk for settled, and about which nothing is being served,  *)
(* is past REGISTERED.                                                      *)
THEOREM DoneFilesAreUploaded ==
    ASSUME OwnIds
    PROVE  Spec => [](NoLoss => DoneMeansUploaded)
<1>1. Init => Unhindered
  <2> SUFFICES ASSUME Init PROVE Unhindered
    OBVIOUS
  <2>1. /\ \A r \in Requests : req[r].step = "idle"
        /\ \A f \in Files, i \in Chunk :
              /\ <<FlowId[f], i>> \in Pos /\ <<f, i>> \in Sent
              /\ out[<<FlowId[f], i>>] = Absent
              /\ tmp[<<FlowId[f], i>>] = Absent
              /\ ack[<<f, i>>] = "new"
    BY FlowIdAssumption DEF Init, Idle, Pos, Sent
  <2>2. 1 \in Chunk
    BY NAssumption DEF Chunk
  <2>3. QED
    BY <2>1, <2>2 DEF Unhindered, OutIsHeld, SeenIsOnDisk, DoneIsOnDisk,
                     TotalSoFar, SomeoneFinishes, At
<1>2. IInv /\ NothingLost /\ Unhindered /\ [Next]_vars => Unhindered'
  BY HeldStep, SeenStep, FinisherStep DEF Unhindered
<1>3. IInv /\ Unhindered => (NoLoss => DoneMeansUploaded)
  <2> SUFFICES ASSUME IInv, Unhindered, NoLoss, NEW f \in Files,
                      \A i \in Chunk : ack[<<f, i>>] = "done",
                      \A r \in Requests :
                         At(r, "idle") \/ PosOf(r)[1] # FlowId[f],
                      state[f] = "REGISTERED"
               PROVE  FALSE
    BY DEF DoneMeansUploaded
  <2>1. \A i \in Chunk : tmp[<<FlowId[f], i>>] # Absent
    BY DEF Unhindered, DoneIsOnDisk
  <2>2. PICK r \in Requests : req[r].file = f /\ req[r].step \in Looking
    BY <2>1 DEF Unhindered, SomeoneFinishes, Looking
  <2>3. PosOf(r)[1] = FlowId[f] /\ ~At(r, "idle")
    BY <2>2 DEF PosOf, At, Looking
  <2>4. QED BY <2>3
<1>4. QED BY <1>1, <1>2, <1>3, NothingLostInvariant, PTL DEF Spec

-----------------------------------------------------------------------------
(* Replies are lost, identifiers shared and workers killed, but no three    *)
(* requests are past the first test for one chunk.                          *)

Writing(r) == req[r].step \in {"post_out", "open", "write", "move"}

(* No three requests are about to write one chunk.                          *)
TwoPerChunk ==
    \A q, r, s \in Requests :
        /\ Writing(q) /\ Writing(r) /\ Writing(s)
        /\ PosOf(q) = PosOf(r) /\ PosOf(r) = PosOf(s)
        => q = r \/ r = s \/ s = q

(* A request that is about to rename an .out file has written to it.        *)
HeldFiles ==
    \A r \in Requests :
        /\ req[r].step \in {"write", "move"} /\ req[r].fd = "out"
              => out[PosOf(r)] # Absent
        /\ At(r, "move") /\ req[r].fd = "out" => out[PosOf(r)] # <<>>

(* One whose file was renamed by the other is the last to write, and has    *)
(* nothing left to rename.                                                  *)
LastWriter ==
    \A r \in Requests :
        req[r].step \in {"write", "move"} /\ req[r].fd # "out" =>
            /\ out[PosOf(r)] = Absent /\ tmp[PosOf(r)] # Absent
            /\ \A q \in Requests \ {r} : PosOf(q) = PosOf(r) =>
                  req[q].step \notin {"post_out", "open", "write", "move"}

(* No chunk has its final name before its writer has finished.              *)
NeverEmpty == \A p \in Pos : tmp[p] # <<>>

(* What is left of the order of two requests about one chunk.               *)
Overlap == HeldFiles /\ LastWriter /\ NeverEmpty

(* Steps that touch no file and open none.                                  *)
LEMMA OverlapFrame ==
    ASSUME TypeOK, Overlap, UNCHANGED disk,
           \A q \in Requests :
              \/ req'[q] = req[q]
              \/ req'[q].step \notin {"post_out", "open", "write", "move"}
              \/ /\ req'[q].step \in {"post_out", "open"}
                 /\ PosOf(q)' = PosOf(q)
                 /\ \/ tmp[PosOf(q)] = Absent
                    \/ req[q].step \in {"post_out", "open"}
    PROVE  Overlap'
<1>1. HeldFiles'
  BY DEF Overlap, HeldFiles, disk, PosOf, At
<1>2. LastWriter'
  <2> SUFFICES ASSUME NEW r \in Requests,
                      req'[r].step \in {"write", "move"}, req'[r].fd # "out"
               PROVE  /\ out[PosOf(r)'] = Absent /\ tmp[PosOf(r)'] # Absent
                      /\ \A q \in Requests \ {r} : PosOf(q)' = PosOf(r)' =>
                           req'[q].step
                             \notin {"post_out", "open", "write", "move"}
    BY DEF LastWriter, disk
  <2>1. req'[r] = req[r] /\ PosOf(r)' = PosOf(r)
    BY DEF PosOf
  <2>2. /\ out[PosOf(r)] = Absent /\ tmp[PosOf(r)] # Absent
        /\ \A q \in Requests \ {r} : PosOf(q) = PosOf(r) =>
               req[q].step \notin {"post_out", "open", "write", "move"}
    BY <2>1 DEF Overlap, LastWriter
  <2>3. ASSUME NEW q \in Requests, q # r, PosOf(q)' = PosOf(r)'
        PROVE  req'[q].step \notin {"post_out", "open", "write", "move"}
    <3>1. CASE req'[q] = req[q]
      BY <2>1, <2>2, <2>3, <3>1 DEF PosOf
    <3>2. CASE req'[q] # req[q]
      BY <2>1, <2>2, <2>3, <3>2
    <3>3. QED BY <3>1, <3>2
  <2>4. QED BY <2>1, <2>2, <2>3
<1>3. NeverEmpty'
  BY DEF Overlap, NeverEmpty, disk
<1>4. QED BY <1>1, <1>2, <1>3 DEF Overlap

(* A file is renamed by the request that has written to it, or by the one   *)
(* that overtook it; the third that could rename it too early is missing.   *)
LEMMA OverlapStep ==
    ASSUME TypeOK, TwoPerChunk, Overlap, [Next]_vars
    PROVE  Overlap'
<1> DEFINE Away(q) == req'[q].step \notin {"post_out", "open", "write", "move"}
           Writes(q) == req[q].step \in {"write", "move"}
<1>1. /\ \A q \in Requests : PosOf(q) \in Pos /\ req[q].file \in Files
      /\ out \in [Pos -> Seq(Files) \cup {Absent}]
      /\ tmp \in [Pos -> Seq(Files) \cup {Absent}]
  BY Positions DEF TypeOK
<1>2. ASSUME NEW r \in Requests, UNCHANGED disk, Away(r),
             \A q \in Requests \ {r} : req'[q] = req[q]
      PROVE  Overlap'
  BY <1>2, OverlapFrame
<1>3. ASSUME UNCHANGED <<disk, req>> PROVE Overlap'
  BY <1>3, OverlapFrame
<1>4. ASSUME NEW r \in Requests, Ends(r), UNCHANGED disk PROVE Overlap'
  BY <1>4, <1>2, ReplyOn
<1>5. ASSUME NEW r \in Requests, UNCHANGED disk,
             \/ Goto(r, "get_out") \/ Goto(r, "fetch") \/ Goto(r, "save")
             \/ Check(r)
      PROVE  Overlap'
  <2>1. Away(r) /\ \A q \in Requests \ {r} : req'[q] = req[q]
    BY <1>5, GotoOn DEF Step
  <2>2. QED BY <1>5, <2>1, <1>2
<1>6. ASSUME NEW r \in Requests, ServeGet(r) PROVE Overlap'
  <2>1. UNCHANGED disk /\ (Ends(r) \/ Goto(r, "get_out") \/ Check(r))
    BY <1>6 DEF ServeGet, GetTmp, GetOut, Ends
  <2>2. QED BY <2>1, <1>4, <1>5
<1>7. ASSUME NEW r \in Requests, ServeRow(r) \/ CrashWorker(r) PROVE Overlap'
  <2>1. UNCHANGED disk
    BY <1>7 DEF ServeRow, CheckChunk, Fetch, Save, CrashWorker
  <2>2. CASE \E n, t : At(r, "check") /\ req' = [req EXCEPT ![r] =
                                    [@ EXCEPT !.next = n, !.total = t]]
    <3>1. Away(r) /\ \A q \in Requests \ {r} : req'[q] = req[q]
      BY <2>2 DEF At, TypeOK, Request
    <3>2. QED BY <2>1, <3>1, <1>2
  <2>3. Ends(r) \/ Goto(r, "fetch") \/ Goto(r, "save") \/
           \E n, t : At(r, "check") /\ req' = [req EXCEPT ![r] =
                                    [@ EXCEPT !.next = n, !.total = t]]
    BY <1>7 DEF ServeRow, CheckChunk, Fetch, Save, CrashWorker, Ends
  <2>4. QED BY <2>1, <2>2, <2>3, <1>4, <1>5
<1>8. ASSUME NEW r \in Requests, PostTmp(r) \/ PostOut(r) PROVE Overlap'
  <2>1. UNCHANGED disk
    BY <1>8 DEF PostTmp, PostOut
  <2>2. CASE \/ Goto(r, "post_out") /\ tmp[PosOf(r)] = Absent
             \/ Goto(r, "open") /\ At(r, "post_out")
    <3>1. /\ req'[r].step \in {"post_out", "open"} /\ PosOf(r)' = PosOf(r)
          /\ \A q \in Requests \ {r} : req'[q] = req[q]
      BY <2>2, GotoOn DEF Step, PosOf
    <3>2. tmp[PosOf(r)] = Absent \/ req[r].step \in {"post_out", "open"}
      BY <2>2 DEF At
    <3>3. QED BY <2>1, <3>1, <3>2, OverlapFrame
  <2>3. QED BY <1>8, <2>1, <2>2, <1>4 DEF PostTmp, PostOut, Ends
<1>9. ASSUME NEW r \in Requests, Open(r) PROVE Overlap'
  <2> DEFINE p == PosOf(r)
  <2>1. /\ req'[r].step = "write" /\ req'[r].fd = "out" /\ PosOf(r)' = p
        /\ \A q \in Requests \ {r} : req'[q] = req[q] /\ PosOf(q)' = PosOf(q)
        /\ At(r, "open") /\ tmp' = tmp
    BY <1>9 DEF Open, PosOf, TypeOK, Request
  <2>2. /\ out'[p] # Absent
        /\ \A x \in Pos : x # p \/ out[x] # Absent => out'[x] = out[x]
    <3>1. <<>> \in Seq(Files)
      OBVIOUS
    <3>2. QED BY <1>1, <1>9, <3>1, AbsentAssumption DEF Open
  <2>3. \A q \in Requests \ {r} : Writes(q) /\ req[q].fd # "out" => PosOf(q) # p
    BY <2>1 DEF Overlap, LastWriter, At
  <2> HIDE DEF p
  <2>4. HeldFiles'
    BY <1>1, <2>1, <2>2 DEF Overlap, HeldFiles, At
  <2>5. LastWriter'
    BY <1>1, <2>1, <2>2, <2>3 DEF Overlap, LastWriter
  <2>6. NeverEmpty'
    BY <2>1 DEF Overlap, NeverEmpty
  <2>7. QED BY <2>4, <2>5, <2>6 DEF Overlap
<1>10. ASSUME NEW r \in Requests, Write(r) PROVE Overlap'
  <2> DEFINE p == PosOf(r)
  <2>1. /\ req'[r].step = "move" /\ req'[r].fd = req[r].fd /\ PosOf(r)' = p
        /\ \A q \in Requests \ {r} : req'[q] = req[q] /\ PosOf(q)' = PosOf(q)
        /\ req[r].step = "write"
    BY <1>10, GotoOn DEF Write, PosOf, Step, At
  <2>2. \A q \in Requests \ {r} : Writes(q) /\ req[q].fd # "out" => PosOf(q) # p
    BY <2>1 DEF Overlap, LastWriter
  <2>3. \A c \in Seq(Files) : /\ Append(c, req[r].file) # <<>>
                              /\ Append(c, req[r].file) # Absent
    <3> SUFFICES ASSUME NEW c \in Seq(Files)
                 PROVE  /\ Append(c, req[r].file) # <<>>
                        /\ Append(c, req[r].file) # Absent
      OBVIOUS
    <3>1. Append(c, req[r].file) \in Seq(Files)
      BY <1>1
    <3>2. Len(Append(c, req[r].file)) = Len(c) + 1 /\ Len(c) \in Nat
      BY <1>1
    <3>3. Append(c, req[r].file) # <<>>
      BY <3>2
    <3>4. QED BY <3>1, <3>3, AbsentAssumption
  <2>4. /\ req[r].fd = "out" => out[p] \in Seq(Files)
        /\ req[r].fd = "tmp" => tmp[p] \in Seq(Files)
    BY <1>1, <2>1 DEF Overlap, HeldFiles, LastWriter
  <2>5. /\ \A x \in Pos : (x # p \/ req[r].fd # "out") => out'[x] = out[x]
        /\ \A x \in Pos : (x # p \/ req[r].fd # "tmp") => tmp'[x] = tmp[x]
        /\ req[r].fd = "out" => out'[p] # Absent /\ out'[p] # <<>>
        /\ req[r].fd = "tmp" => tmp'[p] # Absent /\ tmp'[p] # <<>>
    <3>1. CASE req[r].fd = "out"
      BY <1>1, <1>10, <2>3, <2>4, <3>1 DEF Write
    <3>2. CASE req[r].fd = "tmp"
      BY <1>1, <1>10, <2>3, <2>4, <3>2 DEF Write
    <3>3. CASE req[r].fd \notin {"out", "tmp"}
      BY <1>10, <3>3 DEF Write
    <3>4. QED BY <3>1, <3>2, <3>3
  <2> HIDE DEF p
  <2>6. HeldFiles'
    BY <1>1, <2>1, <2>5 DEF Overlap, HeldFiles, At
  <2>7. LastWriter'
    BY <1>1, <2>1, <2>2, <2>5 DEF Overlap, LastWriter, p
  <2>8. NeverEmpty'
    BY <2>5 DEF Overlap, NeverEmpty
  <2>9. QED BY <2>6, <2>7, <2>8 DEF Overlap
<1>11. ASSUME NEW r \in Requests, Move(r), out[PosOf(r)] # Absent PROVE Overlap'
  <2> DEFINE p == PosOf(r)
  <2>1. /\ req[r].step = "move" /\ req[r].fd = "out"
        /\ out[p] # <<>> /\ out[p] # Absent
    BY <1>11 DEF Move, At, Overlap, LastWriter, HeldFiles
  <2>2. /\ \A x \in Pos \ {p} : out'[x] = out[x] /\ tmp'[x] = tmp[x]
        /\ tmp'[p] = out[p] /\ out'[p] = Absent
    BY <1>1, <1>11 DEF Move
  <2>3. req' = [q \in Requests |->
            IF q = r
            THEN [req[r] EXCEPT !.step = "check", !.next = N,
                                !.total = 0, !.fd = "gone"]
            ELSE [req[q] EXCEPT !.fd = Renamed(q, PosOf(r))]]
    BY <1>11 DEF Move
  <2>4. req'[r].step = "check" /\ PosOf(r)' = p
    BY <2>3 DEF TypeOK, Request, PosOf
  <2>5. ASSUME NEW q \in Requests, q # r
        PROVE  /\ req'[q].step = req[q].step /\ PosOf(q)' = PosOf(q)
               /\ PosOf(q) # p => req'[q].fd = req[q].fd
               /\ PosOf(q) = p => req'[q].fd # "out"
    <3>1. /\ req'[q].step = req[q].step /\ PosOf(q)' = PosOf(q)
          /\ req'[q].fd = Renamed(q, p)
      BY <2>3, <2>5 DEF TypeOK, Request, PosOf
    <3>2. QED BY <3>1 DEF Renamed, PosOf
  <2>6. ASSUME NEW q \in Requests, q # r, Writes(q), PosOf(q) = p
        PROVE  /\ out'[p] = Absent /\ tmp'[p] # Absent
               /\ \A s \in Requests \ {q} : PosOf(s)' = p => Away(s)
    <3>1. out'[p] = Absent /\ tmp'[p] # Absent
      BY <2>1, <2>2
    <3>2. Writing(r) /\ Writing(q) /\ PosOf(r) = p
      BY <2>1, <2>6 DEF Writing
    <3>3. ASSUME NEW s \in Requests \ {q}, PosOf(s)' = p PROVE Away(s)
      <4>1. CASE s = r
        BY <2>4, <4>1
      <4>2. CASE s # r
        <5>1. req'[s].step = req[s].step /\ PosOf(s) = p
          BY <2>5, <3>3, <4>2
        <5>2. ~Writing(s)
          BY <2>6, <3>2, <3>3, <4>2, <5>1 DEF TwoPerChunk
        <5>3. QED BY <5>1, <5>2 DEF Writing
      <4>3. QED BY <4>1, <4>2
    <3>4. QED BY <3>1, <3>3
  <2> HIDE DEF p
  <2>7. HeldFiles'
    BY <1>1, <2>2, <2>4, <2>5 DEF Overlap, HeldFiles, At
  <2>8. LastWriter'
    <3> SUFFICES ASSUME NEW q \in Requests, req'[q].step \in {"write", "move"},
                        req'[q].fd # "out"
                 PROVE  /\ out'[PosOf(q)'] = Absent /\ tmp'[PosOf(q)'] # Absent
                        /\ \A s \in Requests \ {q} :
                              PosOf(s)' = PosOf(q)' => Away(s)
      BY DEF LastWriter
    <3>1. q # r /\ Writes(q) /\ PosOf(q)' = PosOf(q)
      BY <2>4, <2>5
    <3>2. CASE PosOf(q) = p
      BY <2>6, <3>1, <3>2
    <3>3. CASE PosOf(q) # p
      <4>1. /\ out[PosOf(q)] = Absent /\ tmp[PosOf(q)] # Absent
            /\ \A s \in Requests \ {q} : PosOf(s) = PosOf(q) =>
                 req[s].step \notin {"post_out", "open", "write", "move"}
        BY <2>5, <3>1, <3>3 DEF Overlap, LastWriter
      <4>2. out'[PosOf(q)] = out[PosOf(q)] /\ tmp'[PosOf(q)] = tmp[PosOf(q)]
        BY <1>1, <2>2, <3>3
      <4>3. \A s \in Requests \ {q} : PosOf(s)' = PosOf(q) => Away(s)
        BY <2>4, <2>5, <3>3, <4>1
      <4>4. QED BY <3>1, <4>1, <4>2, <4>3
    <3>4. QED BY <3>2, <3>3
  <2>9. NeverEmpty'
    BY <1>1, <2>1, <2>2 DEF Overlap, NeverEmpty
  <2>10. QED BY <2>7, <2>8, <2>9 DEF Overlap
<1>12. ASSUME NEW r \in Requests, Move(r), out[PosOf(r)] = Absent PROVE Overlap'
  BY <1>12, <1>4 DEF Move, Ends
<1>13. ASSUME NEW f \in Files, NEW i \in Chunk, SendAny(f, i) PROVE Overlap'
  <2>1. PICK r \in Requests, s \in {"get_tmp", "post_tmp"} : Send(r, f, i, s)
    BY <1>13 DEF SendAny, SendTest, SendChunk
  <2>2. req'[r].step = s /\ \A q \in Requests \ {r} : req'[q] = req[q]
    BY <2>1, IdleIsRequest DEF Send, TypeOK, Request
  <2>3. QED BY <2>1, <2>2, <1>2 DEF Send
<1>14. ASSUME NEW r \in Requests, Serve(r) PROVE Overlap'
  BY <1>14, <1>6, <1>7, <1>8, <1>9, <1>10, <1>11, <1>12
     DEF Serve, ServePost
<1>15. QED
  BY <1>3, <1>7, <1>13, <1>14 DEF Next, vars, disk, LoseReply, ProcessFile

LEMMA OverlapInit == Init => Overlap
<1> SUFFICES ASSUME Init PROVE Overlap
  OBVIOUS
<1>1. /\ \A r \in Requests : req[r].step = "idle"
      /\ \A p \in Pos : tmp[p] = Absent
  BY DEF Init, Idle
<1>2. <<>> # Absent
  <2>1. <<>> \in Seq(Files)
    OBVIOUS
  <2>2. QED BY <2>1, AbsentAssumption
<1>3. QED
  BY <1>1, <1>2 DEF Overlap, HeldFiles, LastWriter, NeverEmpty, At

LEMMA OverlapIsWritten == Overlap => FullyWritten
<1> SUFFICES ASSUME Overlap, NEW f \in Files, NEW i \in Chunk
             PROVE  tmp[<<FlowId[f], i>>] # <<>>
  BY DEF FullyWritten
<1>1. <<FlowId[f], i>> \in Pos
  BY FlowIdAssumption DEF Pos
<1>2. QED BY <1>1 DEF Overlap, NeverEmpty

(* While no three requests are about to write one chunk, every chunk of a   *)
(* file past REGISTERED is fully written, whatever they share, and          *)
(* whichever replies are lost and workers killed; a third can rename an     *)
(* .out file that another has just created.                                 *)
THEOREM FullyWrittenByTwo == Spec /\ []TwoPerChunk => []FullyWritten
<1>1. TypeOK /\ TwoPerChunk /\ Overlap /\ [Next]_vars => Overlap'
  BY OverlapStep
<1>2. QED BY <1>1, TypeCorrect, OverlapInit, OverlapIsWritten, PTL DEF Spec

(* The requests the page has given up while they are served, each with a    *)
(* reply that was lost.                                                     *)
GivenUp(r) == ~At(r, "idle") /\ waiting[SentOf(r)] # r
GivenUpWereLost ==
    /\ lost = 0 => \A r \in Requests : ~GivenUp(r)
    /\ lost = 1 => \A q, r \in Requests : GivenUp(q) /\ GivenUp(r) => q = r

(* A request is given up by losing its reply, and by nothing else.          *)
LEMMA OnlyLossGivesUp ==
    ASSUME TypeOK, [Next]_vars, NEW q \in Requests, ~GivenUp(q), GivenUp(q)'
    PROVE  lost' = lost + 1 /\ waiting[SentOf(q)] = q /\ req' = req
           /\ \A c \in Sent : waiting[c] # q => waiting'[c] = waiting[c]
<1>1. /\ SentOf(q) \in Sent /\ waiting \in [Sent -> Requests \cup {NoRequest}]
      /\ req[q].step # "idle" => waiting[SentOf(q)] = q
      /\ req'[q].step # "idle" /\ waiting'[<<req'[q].file, req'[q].chunk>>] # q
  BY Positions DEF GivenUp, At, SentOf, TypeOK
<1>2. ASSUME NEW f \in Files, NEW i \in Chunk, SendAny(f, i) PROVE FALSE
  <2>1. PICK r \in Requests, s \in {"get_tmp", "post_tmp"} : Send(r, f, i, s)
    BY <1>2 DEF SendAny, SendTest, SendChunk
  <2>2. <<f, i>> \in Sent
    BY DEF Sent
  <2>3. CASE q = r
    <3>1. req'[q].file = f /\ req'[q].chunk = i
      BY <2>1, <2>3, IdleIsRequest DEF Send, TypeOK, Request
    <3>2. QED BY <1>1, <2>1, <2>2, <2>3, <3>1 DEF Send
  <2>4. CASE q # r
    <3>1. req'[q] = req[q]
      BY <2>1, <2>4 DEF Send, TypeOK
    <3>2. SentOf(q) # <<f, i>>
      BY <2>1, <1>1, <3>1, NoRequestAssumption DEF Send
    <3>3. QED BY <2>1, <2>2, <3>1, <3>2, <1>1 DEF Send, SentOf
  <2>5. QED BY <2>3, <2>4
<1>3. ASSUME NEW f \in Files, NEW i \in Chunk, LoseReply(f, i)
      PROVE  lost' = lost + 1 /\ waiting[SentOf(q)] = q /\ req' = req
             /\ \A c \in Sent : waiting[c] # q => waiting'[c] = waiting[c]
  <2>1. /\ lost' = lost + 1 /\ req' = req
        /\ waiting' = [waiting EXCEPT ![<<f, i>>] = NoRequest]
    BY <1>3 DEF LoseReply
  <2>2. waiting[SentOf(q)] = q /\ SentOf(q) = <<f, i>>
    BY <1>1, <2>1 DEF SentOf
  <2>3. QED BY <1>1, <2>1, <2>2
<1>4. ASSUME NEW r \in Requests, Serve(r) \/ CrashWorker(r) PROVE FALSE
  <2>1. CASE q = r
    BY <1>1, <1>4, <2>1, ServeKinds, ReplyOn DEF GoesOn, client, SentOf, At
  <2>2. CASE q # r
    <3>1. Keeps(q) /\ (Ends(r) \/ GoesOn(r))
      BY <1>4, <2>2, ServeKinds
    <3>2. waiting[SentOf(q)] = q
      BY <3>1, <1>1 DEF Keeps
    <3>3. waiting'[SentOf(q)] = q
      BY <3>1, <3>2, <2>2, <1>1, ReplyOn DEF GoesOn, client
    <3>4. QED BY <1>1, <3>1, <3>3 DEF Keeps, SentOf
  <2>3. QED BY <2>1, <2>2
<1>5. ASSUME UNCHANGED <<req, waiting>> PROVE FALSE
  BY <1>5, <1>1 DEF SentOf
<1>6. QED
  BY <1>2, <1>3, <1>4, <1>5 DEF Next, vars, ProcessFile, client

LEMMA GivenUpStep ==
    ASSUME TypeOK, GivenUpWereLost, [Next]_vars
    PROVE  GivenUpWereLost'
<1>1. lost \in Nat /\ (lost' = lost \/ lost' = lost + 1)
  BY LostGrows
<1>2. ASSUME NEW q \in Requests, ~GivenUp(q), GivenUp(q)'
      PROVE  lost' = lost + 1 /\ waiting[SentOf(q)] = q /\ req' = req
             /\ \A c \in Sent : waiting[c] # q => waiting'[c] = waiting[c]
  BY <1>2, OnlyLossGivesUp
<1>3. lost' = 0 => \A r \in Requests : ~GivenUp(r)'
  BY <1>1, <1>2 DEF GivenUpWereLost
<1>4. ASSUME lost' = 1, NEW q \in Requests, NEW r \in Requests,
             GivenUp(q)', GivenUp(r)', q # r
      PROVE  FALSE
  <2>1. CASE lost = 1
    BY <1>1, <1>2, <1>4, <2>1 DEF GivenUpWereLost
  <2>2. CASE lost = 0
    <3>1. ~GivenUp(q) /\ ~GivenUp(r)
      BY <2>2 DEF GivenUpWereLost
    <3>2. /\ waiting[SentOf(q)] = q /\ waiting[SentOf(r)] = r /\ req' = req
          /\ \A c \in Sent : waiting[c] # q => waiting'[c] = waiting[c]
      BY <3>1, <1>2, <1>4
    <3>3. SentOf(r) \in Sent
      BY Positions
    <3>4. waiting'[SentOf(r)] = r /\ SentOf(r)' = SentOf(r)
      BY <3>2, <3>3, <1>4 DEF SentOf
    <3>5. QED BY <3>4, <1>4 DEF GivenUp
  <2>3. QED BY <1>1, <1>4, <2>1, <2>2
<1>5. QED BY <1>3, <1>4 DEF GivenUpWereLost

(* One lost reply gives a chunk a second request, never a third.            *)
LEMMA OneLossTwoWriters ==
    ASSUME TypeOK, OwnIds, GivenUpWereLost, lost \in {0, 1}
    PROVE  TwoPerChunk
<1> SUFFICES ASSUME NEW q \in Requests, NEW r \in Requests, NEW s \in Requests,
                    Writing(q), Writing(r), Writing(s),
                    PosOf(q) = PosOf(r), PosOf(r) = PosOf(s),
                    q # r, r # s, s # q
             PROVE  FALSE
  BY DEF TwoPerChunk
<1>1. SentOf(q) = SentOf(r) /\ SentOf(r) = SentOf(s)
  BY Positions DEF OwnIds, PosOf, SentOf
<1>2. ~At(q, "idle") /\ ~At(r, "idle") /\ ~At(s, "idle")
  BY DEF Writing, At
<1>3. GivenUp(q) \/ GivenUp(r)
  BY <1>1, <1>2 DEF GivenUp
<1>4. GivenUp(r) \/ GivenUp(s)
  BY <1>1, <1>2 DEF GivenUp
<1>5. GivenUp(s) \/ GivenUp(q)
  BY <1>1, <1>2 DEF GivenUp
<1>6. QED BY <1>3, <1>4, <1>5 DEF GivenUpWereLost

(* With any number of requests at once, any number of killed workers and    *)
(* one broken connection, every chunk of a file past REGISTERED is fully    *)
(* written, if no two transfers have the same identifier.                   *)
THEOREM FullyWrittenAfterALoss ==
    ASSUME OwnIds
    PROVE  Spec => [](lost <= 1 => FullyWritten)
<1> DEFINE J == lost <= 1 => Overlap
<1>1. Init => GivenUpWereLost /\ J
  <2> SUFFICES ASSUME Init PROVE GivenUpWereLost /\ J
    OBVIOUS
  <2>1. lost = 0 /\ \A r \in Requests : req[r].step = "idle"
    BY DEF Init, Idle
  <2>2. QED BY <2>1, OverlapInit DEF GivenUpWereLost, GivenUp, At
<1>2. TypeOK /\ GivenUpWereLost /\ J /\ [Next]_vars => J'
  <2> SUFFICES ASSUME TypeOK, GivenUpWereLost, J, [Next]_vars, lost' <= 1
               PROVE  Overlap'
    OBVIOUS
  <2>1. lost \in Nat /\ (lost' = lost \/ lost' = lost + 1)
    BY LostGrows
  <2>2. lost \in {0, 1} /\ Overlap
    BY <2>1
  <2>3. TwoPerChunk
    BY <2>2, OneLossTwoWriters
  <2>4. QED BY <2>2, <2>3, OverlapStep
<1>3. J => (lost <= 1 => FullyWritten)
  BY OverlapIsWritten
<1>4. TypeOK /\ GivenUpWereLost /\ [Next]_vars => GivenUpWereLost'
  BY GivenUpStep
<1>5. QED BY <1>1, <1>2, <1>3, <1>4, TypeCorrect, PTL DEF Spec

=============================================================================
