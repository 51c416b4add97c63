----------------------------- MODULE ChunkUpload -----------------------------
(***************************************************************************)
(* The resumable upload of deposited files: the flow.js client of the      *)
(* deposit page, the flow_chunk view of vault/api.py with the files it     *)
(* keeps in FILE_UPLOAD_TEMP_DIR, and the state column of the DepositFile  *)
(* rows.  It begins when the files have been registered.                   *)
(*                                                                         *)
(* A chunk i of flow identifier k lives in up to two files: k-i.out while  *)
(* a request writes it, k-i.tmp once it was renamed.  The content of a     *)
(* file is the sequence of whole chunk bodies appended to it, each named   *)
(* by the DepositFile whose upload sent it, so <<>> is a file nobody has   *)
(* finished writing, and a chunk of the right size holds one body.         *)
(*                                                                         *)
(* Several DepositFiles share a flow identifier when they agree on size    *)
(* and relative path (the identifier is md5 of the two): the same file     *)
(* deposited twice by an organization.                                     *)
(***************************************************************************)
EXTENDS Naturals, Sequences, FiniteSets, Functions

CONSTANTS
    Files,       \* DepositFile rows
    FlowIds,     \* flow identifiers of one organization
    FlowId,      \* the flow_identifier column, a function of Files
    N,           \* flowTotalChunks: the number of chunks of every file
    Requests,    \* slots for requests to flow_chunk being served
    Absent,      \* "no such file" on disk
    NoRequest,   \* the client awaits no reply
    MaxLost,     \* bound: replies the network loses
    MaxCrashes   \* bound: server workers killed in the middle of a request

ASSUME FilesAssumption == Files # {}
ASSUME FlowIdAssumption == FlowId \in [Files -> FlowIds]
ASSUME NAssumption == N \in Nat \ {0}
ASSUME AbsentAssumption == Absent \notin Seq(Files)
ASSUME NoRequestAssumption == NoRequest \notin Requests
ASSUME BoundsAssumption == MaxLost \in Nat /\ MaxCrashes \in Nat

Chunk == 1..N
Pos == FlowIds \X Chunk      \* what a chunk file on disk is named after
Sent == Files \X Chunk       \* what the client has to get across

VARIABLES
    out,      \* content of the .out file of each position, or Absent
    tmp,      \* content of the .tmp file of each position, or Absent
    state,    \* DepositFile.state
    req,      \* the requests being served
    ack,      \* client: what it knows of each chunk
    waiting,  \* client: the request whose reply it awaits for each chunk
    lost,     \* replies lost so far
    crashes   \* workers killed so far

disk == <<out, tmp>>
client == <<ack, waiting>>
faults == <<lost, crashes>>
vars == <<out, tmp, state, req, ack, waiting, lost, crashes>>

-----------------------------------------------------------------------------

FileState == {"REGISTERED", "UPLOADED", "HASHED", "ERROR"}
Step == {"idle", "get_tmp", "get_out", "post_tmp", "post_out", "open",
         "write", "move", "check", "fetch", "save"}

(* A request: its step, the file and chunk it is about, the next chunk      *)
(* all_chunks_uploaded looks at and the size it has added up, and where the *)
(* inode it opened is linked now ("gone": renamed over by another rename).  *)
Request == [step : Step, file : Files, chunk : Chunk, next : Chunk,
            total : Nat, fd : {"out", "tmp", "gone"}]

Idle == [step |-> "idle", file |-> CHOOSE f \in Files : TRUE, chunk |-> 1,
         next |-> 1, total |-> 0, fd |-> "gone"]

(* Every variable has its type; the faults stay within their bounds.        *)
TypeOK ==
    /\ out \in [Pos -> Seq(Files) \cup {Absent}]
    /\ tmp \in [Pos -> Seq(Files) \cup {Absent}]
    /\ state \in [Files -> FileState]
    /\ req \in [Requests -> Request]
    /\ ack \in [Sent -> {"new", "tested", "done"}]
    /\ waiting \in [Sent -> Requests \cup {NoRequest}]
    /\ lost \in 0..MaxLost
    /\ crashes \in 0..MaxCrashes

PosOf(r) == <<FlowId[req[r].file], req[r].chunk>>
SentOf(r) == <<req[r].file, req[r].chunk>>
At(r, s) == req[r].step = s
Goto(r, s) == req' = [req EXCEPT ![r] = [@ EXCEPT !.step = s]]

Init ==
    /\ out = [p \in Pos |-> Absent]
    /\ tmp = [p \in Pos |-> Absent]
    /\ state = [f \in Files |-> "REGISTERED"]
    /\ req = [r \in Requests |-> Idle]
    /\ ack = [c \in Sent |-> "new"]
    /\ waiting = [c \in Sent |-> NoRequest]
    /\ lost = 0
    /\ crashes = 0

-----------------------------------------------------------------------------
(* The client.  flow.js asks with a GET whether a chunk is needed; a reply  *)
(* 200 settles the chunk, anything else makes it POST the chunk, and a      *)
(* failed POST is repeated (maxChunkRetries is undefined) without asking    *)
(* again.                                                                   *)

\* Mutant: a second request for a chunk whose reply is still out.
SendAgain(r, f, i, s) ==
    /\ At(r, "idle")
    /\ req' = [req EXCEPT ![r] = [Idle EXCEPT !.step = s, !.file = f,
                                              !.chunk = i]]
    /\ waiting' = [waiting EXCEPT ![<<f, i>>] = r]
    /\ UNCHANGED <<disk, state, ack, faults>>

Send(r, f, i, s) ==
    /\ At(r, "idle")
    /\ waiting[<<f, i>>] = NoRequest
    /\ req' = [req EXCEPT ![r] = [Idle EXCEPT !.step = s, !.file = f,
                                              !.chunk = i]]
    /\ waiting' = [waiting EXCEPT ![<<f, i>>] = r]
    /\ UNCHANGED <<disk, state, ack, faults>>

SendTest(r, f, i) == ack[<<f, i>>] = "new" /\ Send(r, f, i, "get_tmp")

SendChunk(r, f, i) == ack[<<f, i>>] = "tested" /\ Send(r, f, i, "post_tmp")

\* Mutant: the client takes a broken connection for an answer.
LoseReplyGivesUp(f, i) ==
    /\ waiting[<<f, i>>] # NoRequest
    /\ lost < MaxLost
    /\ lost' = lost + 1
    /\ ack' = [ack EXCEPT ![<<f, i>>] = "done"]
    /\ waiting' = [waiting EXCEPT ![<<f, i>>] = NoRequest]
    /\ UNCHANGED <<disk, state, req, crashes>>

(* The connection breaks: the request is still served, the client gives it  *)
(* up and goes on as after any answer that is not a success.                *)
LoseReply(f, i) ==
    /\ waiting[<<f, i>>] # NoRequest
    /\ lost < MaxLost
    /\ lost' = lost + 1
    /\ ack' = [ack EXCEPT ![<<f, i>>] = "tested"]
    /\ waiting' = [waiting EXCEPT ![<<f, i>>] = NoRequest]
    /\ UNCHANGED <<disk, state, req, crashes>>

(* The server is done with r: the client, if it still listens, learns that  *)
(* the chunk is settled ("done") or has to be sent ("tested").              *)
Reply(r, answer) ==
    /\ req' = [req EXCEPT ![r] = Idle]
    /\ IF waiting[SentOf(r)] = r
         THEN /\ ack' = [ack EXCEPT ![SentOf(r)] = answer]
              /\ waiting' = [waiting EXCEPT ![SentOf(r)] = NoRequest]
         ELSE UNCHANGED client

-----------------------------------------------------------------------------
(* flow_chunk, GET: "do we need this chunk?"                                *)

\* Mutant: only the first chunk is looked for.
CheckFirstOnly(r) == req' = [req EXCEPT ![r] =
                      [@ EXCEPT !.step = "check", !.next = 1, !.total = N - 1]]

Check(r) == req' = [req EXCEPT ![r] =
                      [@ EXCEPT !.step = "check", !.next = N, !.total = 0]]

GetTmp(r) ==
    /\ At(r, "get_tmp")
    /\ IF tmp[PosOf(r)] = Absent THEN Goto(r, "get_out") ELSE Check(r)
    /\ UNCHANGED <<disk, state, client, faults>>

GetOut(r) ==
    /\ At(r, "get_out")
    /\ \/ out[PosOf(r)] = Absent /\ Reply(r, "tested")
       \/ out[PosOf(r)] # Absent /\ Check(r) /\ UNCHANGED client
    /\ UNCHANGED <<disk, state, faults>>

-----------------------------------------------------------------------------
(* flow_chunk, POST: skip a chunk that is there or being written, else      *)
(* append it to its .out file and rename that.                              *)

PostTmp(r) ==
    /\ At(r, "post_tmp")
    /\ \/ tmp[PosOf(r)] # Absent /\ Reply(r, "done")
       \/ tmp[PosOf(r)] = Absent /\ Goto(r, "post_out") /\ UNCHANGED client
    /\ UNCHANGED <<disk, state, faults>>

PostOut(r) ==
    /\ At(r, "post_out")
    /\ \/ out[PosOf(r)] # Absent /\ Reply(r, "done")
       \/ out[PosOf(r)] = Absent /\ Goto(r, "open") /\ UNCHANGED client
    /\ UNCHANGED <<disk, state, faults>>

\* Mutant: the chunk is written under its final name.
OpenInPlace(r) ==
    /\ At(r, "open")
    /\ tmp' = [tmp EXCEPT ![PosOf(r)] = IF @ = Absent THEN <<>> ELSE @]
    /\ req' = [req EXCEPT ![r] = [@ EXCEPT !.step = "write", !.fd = "tmp"]]
    /\ UNCHANGED <<out, state, client, faults>>

(* openbin(..., "a") creates the file or opens the one another request made *)
Open(r) ==
    /\ At(r, "open")
    /\ out' = [out EXCEPT ![PosOf(r)] = IF @ = Absent THEN <<>> ELSE @]
    /\ req' = [req EXCEPT ![r] = [@ EXCEPT !.step = "write", !.fd = "out"]]
    /\ UNCHANGED <<tmp, state, client, faults>>

(* The bytes reach the inode that was opened, wherever it is linked now.    *)
Write(r) ==
    /\ At(r, "write")
    /\ out' = IF req[r].fd = "out"
                THEN [out EXCEPT ![PosOf(r)] = Append(@, req[r].file)] ELSE out
    /\ tmp' = IF req[r].fd = "tmp"
                THEN [tmp EXCEPT ![PosOf(r)] = Append(@, req[r].file)] ELSE tmp
    /\ Goto(r, "move")
    /\ UNCHANGED <<state, client, faults>>

(* Where the inode a request holds is linked once position p was renamed.   *)
Renamed(q, p) ==
    IF <<FlowId[req[q].file], req[q].chunk>> = p
      THEN CASE req[q].fd = "out" -> "tmp" [] OTHER -> "gone"
      ELSE req[q].fd

(* move(.out, .tmp, overwrite=True); a missing .out is an exception, hence  *)
(* a reply 500.                                                             *)
Move(r) ==
    /\ At(r, "move")
    /\ \/ /\ out[PosOf(r)] # Absent
          /\ tmp' = [tmp EXCEPT ![PosOf(r)] = out[PosOf(r)]]
          /\ out' = [out EXCEPT ![PosOf(r)] = Absent]
          /\ req' = [q \in Requests |->
                        IF q = r
                        THEN [req[r] EXCEPT !.step = "check", !.next = N,
                                            !.total = 0, !.fd = "gone"]
                        ELSE [req[q] EXCEPT !.fd = Renamed(q, PosOf(r))]]
          /\ UNCHANGED client
       \/ /\ out[PosOf(r)] = Absent
          /\ Reply(r, "tested")
          /\ UNCHANGED disk
    /\ UNCHANGED <<state, faults>>

-----------------------------------------------------------------------------
(* all_chunks_uploaded and the update of the row.                           *)

(* One turn of the loop over the chunks, from the last to the first.  A     *)
(* missing chunk ends the request with 200; all chunks with a wrong total   *)
(* size raise DepositException, hence 500.                                  *)
CheckChunk(r) ==
    LET p == <<FlowId[req[r].file], req[r].next>>
        total == req[r].total + Len(tmp[p])
    IN  /\ At(r, "check")
        /\ \/ tmp[p] = Absent /\ Reply(r, "done")
           \/ /\ tmp[p] # Absent /\ req[r].next > 1
              /\ req' = [req EXCEPT ![r] = [@ EXCEPT !.next = req[r].next - 1,
                                                      !.total = total]]
              /\ UNCHANGED client
           \/ /\ tmp[p] # Absent /\ req[r].next = 1 /\ total = N
              /\ Goto(r, "fetch")
              /\ UNCHANGED client
           \/ /\ tmp[p] # Absent /\ req[r].next = 1 /\ total # N
              /\ Reply(r, "tested")
        /\ UNCHANGED <<disk, state, faults>>

\* Mutant: the test of the state is the wrong way round.
FetchInverted(r) ==
    /\ At(r, "fetch")
    /\ \/ state[req[r].file] = "REGISTERED" /\ Reply(r, "done")
       \/ state[req[r].file] # "REGISTERED" /\ Goto(r, "save")
          /\ UNCHANGED client
    /\ UNCHANGED <<disk, state, faults>>

(* get_object_or_404 reads the row; "this DepositFile is already uploaded"  *)
Fetch(r) ==
    /\ At(r, "fetch")
    /\ \/ state[req[r].file] # "REGISTERED" /\ Reply(r, "done")
       \/ state[req[r].file] = "REGISTERED" /\ Goto(r, "save")
          /\ UNCHANGED client
    /\ UNCHANGED <<disk, state, faults>>

(* save() writes the row as it was read, with the new state.                *)
Save(r) ==
    /\ At(r, "save")
    /\ state' = [state EXCEPT ![req[r].file] = "UPLOADED"]
    /\ Reply(r, "done")
    /\ UNCHANGED <<disk, faults>>

(* A worker dies: what it did to the disk stays, the client sees an error.  *)
CrashWorker(r) ==
    /\ ~At(r, "idle")
    /\ crashes < MaxCrashes
    /\ crashes' = crashes + 1
    /\ Reply(r, "tested")
    /\ UNCHANGED <<disk, state, lost>>

-----------------------------------------------------------------------------
(* What process_chunked_files makes of an UPLOADED row, in one step.        *)

CombinedSize(k) ==
    FoldFunctionOnSet(+, 0, [i \in Chunk |-> Len(tmp[<<k, i>>])], Chunk)

ProcessFile(f) ==
    /\ state[f] = "UPLOADED"
    /\ state' = [state EXCEPT ![f] =
                    IF CombinedSize(FlowId[f]) = N THEN "HASHED" ELSE "ERROR"]
    /\ UNCHANGED <<disk, req, client, faults>>

-----------------------------------------------------------------------------

ServeGet(r) == GetTmp(r) \/ GetOut(r)
ServePost(r) == PostTmp(r) \/ PostOut(r) \/ Open(r) \/ Write(r) \/ Move(r)
ServeRow(r) == CheckChunk(r) \/ Fetch(r) \/ Save(r)
Serve(r) == ServeGet(r) \/ ServePost(r) \/ ServeRow(r)

SendAny(f, i) == \E r \in Requests : SendTest(r, f, i) \/ SendChunk(r, f, i)

Next ==
    \/ \E f \in Files, i \in Chunk : SendAny(f, i) \/ LoseReply(f, i)
    \/ \E r \in Requests : Serve(r) \/ CrashWorker(r)
    \/ \E f \in Files : ProcessFile(f)

Spec == Init /\ [][Next]_vars

(* gunicorn runs every request it accepted, the browser keeps sending, the  *)
(* supervised daemon keeps sweeping.                                        *)
FairSpec ==
    /\ Spec
    /\ \A r \in Requests : WF_vars(Serve(r))
    /\ \A f \in Files, i \in Chunk : WF_vars(SendAny(f, i))
    /\ \A f \in Files : WF_vars(ProcessFile(f))

-----------------------------------------------------------------------------
(* Properties.                                                              *)

(* A file that left REGISTERED has every one of its chunks on disk under    *)
(* its final name, whoever renamed them and whatever was interrupted on the *)
(* way: what all_chunks_uploaded (api.py:595) is for, and what the merge    *)
(* loop of process_chunked_files relies on when it opens chunk after chunk. *)
UploadedIsOnDisk ==
    \A f \in Files : state[f] # "REGISTERED" =>
        \A i \in Chunk : tmp[<<FlowId[f], i>>] # Absent

(* ... and none of them was put there before its writer had finished: the   *)
(* purpose of the .out name (docstring of _chunk_out_filename, api.py:269). *)
FullyWritten ==
    \A f \in Files : state[f] # "REGISTERED" =>
        \A i \in Chunk : tmp[<<FlowId[f], i>>] # <<>>

(* Two bodies of one chunk in one file, from which the protocol has no way  *)
(* back.                                                                    *)
Oversize(f) ==
    \E i \in Chunk : LET body == tmp[<<FlowId[f], i>>]
                     IN  body # Absent /\ Len(body) > 1

(* When the client holds every chunk of a file for settled and the server   *)
(* serves nothing about its identifier any more, the row is past            *)
(* REGISTERED: nobody would come back to it.  (The page shows "Upload       *)
(* Complete" then, deposit-flow.js:195.)                                    *)
DoneMeansUploaded ==
    \A f \in Files :
        /\ \A i \in Chunk : ack[<<f, i>>] = "done"
        /\ \A r \in Requests : At(r, "idle") \/ PosOf(r)[1] # FlowId[f]
        => state[f] # "REGISTERED" \/ Oversize(f)

(* As long as every reply arrives, requests that overlap do not write one   *)
(* chunk twice, so no file is turned down for the size of its chunks        *)
(* (process_chunked_files.py:90).                                           *)
NoSizeError == lost = 0 => \A f \in Files : ~Oversize(f) /\ state[f] # "ERROR"

(* What is stored for a file is what its own client sent.                   *)
OwnBytes ==
    \A f \in Files : state[f] # "REGISTERED" =>
        \A i \in Chunk : tmp[<<FlowId[f], i>>] = <<f>>

(* A file that was processed does not become UPLOADED again ("this          *)
(* DepositFile is already uploaded", api.py:586-588).                       *)
ProcessedStays ==
    [][\A f \in Files :
          state[f] \in {"HASHED", "ERROR"} => state'[f] # "UPLOADED"]_vars

(* Every registered file gets past REGISTERED, over a connection that loses *)
(* replies too, as the client never gives up a chunk; unless two bodies of  *)
(* one chunk ended up in one file.                                          *)
EventuallyUploadedOrOversize ==
    \A f \in Files : <>(state[f] # "REGISTERED" \/ Oversize(f))

=============================================================================
