---------------------------- MODULE PreserveForm ----------------------------
(***************************************************************************)
(* The form that uploads directories in one request,                       *)
(* static/js/preserve-directory-info.js: a request that times out on the   *)
(* server (408) is sent again a minute later, for twenty minutes; the same *)
(* button resets the form and cancels the upload, depending on which       *)
(* handlers are on it.                                                     *)
(*                                                                         *)
(* Every call of XHRuploadFiles has its own request and its own handler    *)
(* abortXHR; both are named by the number of the call.  A click runs the   *)
(* handlers one after the other, each on what the one before it left, so   *)
(* the page is one record and its functions map pages to pages.            *)
(***************************************************************************)
EXTENDS Naturals, Sequences, FiniteSets, SequencesExt

CONSTANTS
    Picks,        \* selections of files a user can make
    OverQuota,    \* those that are too large
    None,         \* no selection
    RetryLimit,   \* retryTimeout408, in units of retryDelay408
    MaxPicks, MaxSubmits, MaxCancels   \* bounds: what the user does

ASSUME PicksAssumption == OverQuota \subseteq Picks /\ None \notin Picks
ASSUME BoundsAssumption == /\ RetryLimit \in Nat /\ MaxPicks \in Nat
                           /\ MaxSubmits \in Nat /\ MaxCancels \in Nat

VARIABLES
    page,
    picks, submits, cancels,   \* bounded counters
    unguarded   \* ghost: the button was clicked between the submission and its
                \* request, or after a request had timed out

vars == <<page, picks, submits, cancels, unguarded>>

ResetHandler == 0   \* resetForm, among the handlers

Fields == [dir : Picks \cup {None}, file : Picks \cup {None}, listed : Picks \cup {None}]
Request == [by : {"submit", "retry", "cancel"}, files : Picks \cup {None},
            listed : Picks \cup {None}, open : BOOLEAN]

Page == [fields : Fields,         \* both inputs, and #id_directories
         dirOff : BOOLEAN, fileOff : BOOLEAN,   \* inputs disabled
         submitOff : BOOLEAN, cancelOff : BOOLEAN,
         handlers : Seq(Nat),     \* of clicks on #cancel_button
         aborting : BOOLEAN,      \* ABORT_REQUESTED
         retrying : BOOLEAN,      \* RETRYING_ON_408
         starting : Nat,          \* submissions that are to be sent
         timers : SUBSET Nat,     \* calls whose retry waits
         last : Nat,              \* the one in retryTimeoutID408
         waited : 0..RetryLimit,  \* since globalStartTime
         sent : Seq(Request)]

(* Every variable has its type, and no handler is on the button twice.      *)
TypeOK ==
    /\ page \in Page
    /\ page.timers \subseteq DOMAIN page.sent
    /\ \A i, j \in DOMAIN page.handlers : i # j => page.handlers[i] # page.handlers[j]
    /\ picks \in 0..MaxPicks /\ submits \in 0..MaxSubmits /\ cancels \in 0..MaxCancels
    /\ unguarded \in BOOLEAN

NoFields == [dir |-> None, file |-> None, listed |-> None]

Init ==
    /\ page = [fields |-> NoFields, dirOff |-> FALSE, fileOff |-> FALSE,
               submitOff |-> FALSE, cancelOff |-> FALSE,
               handlers |-> <<ResetHandler>>, aborting |-> FALSE,
               retrying |-> FALSE, starting |-> 0, timers |-> {}, last |-> 0,
               waited |-> 0, sent |-> <<>>]
    /\ picks = 0 /\ submits = 0 /\ cancels = 0
    /\ unguarded = FALSE

-----------------------------------------------------------------------------
(* The functions of the page.                                               *)

(* resetForm                                                                *)
Reset(p) ==
    [p EXCEPT !.fields = NoFields, !.dirOff = FALSE, !.fileOff = FALSE,
              !.submitOff = FALSE, !.cancelOff = FALSE, !.aborting = FALSE,
              !.handlers = Append(RemoveFirst(@, ResetHandler), ResetHandler)]

\* Mutant: the file input is read whichever is disabled.
StartFiles(p, by) ==
    [p EXCEPT !.aborting = p.retrying /\ @,
              !.handlers = Append(RemoveFirst(@, ResetHandler), Len(p.sent) + 1),
              !.sent = Append(@, [by |-> by, files |-> p.fields.file,
                                  listed |-> p.fields.listed, open |-> TRUE])]

\* Mutant: the handler that resets the form stays on the button.
StartKeepingReset(p, by) ==
    [p EXCEPT !.aborting = p.retrying /\ @,
              !.handlers = Append(@, Len(p.sent) + 1),
              !.sent = Append(@, [by |-> by,
                                  files |-> IF p.fileOff THEN p.fields.dir
                                                         ELSE p.fields.file,
                                  listed |-> p.fields.listed, open |-> TRUE])]

(* XHRuploadFiles: the selection is read from the input that is enabled.    *)
(* It leaves the button disabled if it was.                                 *)
Start(p, by) ==
    [p EXCEPT !.aborting = p.retrying /\ @,
              !.handlers = Append(RemoveFirst(@, ResetHandler), Len(p.sent) + 1),
              !.sent = Append(@, [by |-> by,
                                  files |-> IF p.fileOff THEN p.fields.dir
                                                         ELSE p.fields.file,
                                  listed |-> p.fields.listed, open |-> TRUE])]

\* Mutant: the form stays as it is when the time for retries is over.
EndedForGood(p, n, status) ==
    LET q == [p EXCEPT !.sent[n].open = FALSE]
    IN  IF status = 408 /\ ~p.aborting
          THEN IF p.waited < RetryLimit
                 THEN [q EXCEPT !.retrying = TRUE, !.timers = @ \cup {n}, !.last = n]
                 ELSE q
          ELSE Reset([q EXCEPT !.handlers = RemoveFirst(@, n)])

(* onloadend of the n-th request                                            *)
Ended(p, n, status) ==
    LET q == [p EXCEPT !.sent[n].open = FALSE]
    IN  IF status = 408 /\ ~p.aborting /\ p.waited < RetryLimit
          THEN [q EXCEPT !.retrying = TRUE, !.timers = @ \cup {n}, !.last = n]
          ELSE Reset([q EXCEPT !.handlers = RemoveFirst(@, n)])

(* abortXHR of the n-th call; abort() ends a request at once, and does      *)
(* nothing to one that has ended.                                           *)
AbortXHR(p, n) ==
    LET q == [p EXCEPT !.cancelOff = TRUE, !.aborting = TRUE]
    IN  IF p.retrying
          THEN Start([q EXCEPT !.retrying = FALSE, !.timers = @ \ {p.last}], "cancel")
          ELSE IF p.sent[n].open THEN Ended(q, n, 0) ELSE q

(* A handler that was removed before its turn does not run.                 *)
Handle(p, n) == IF Contains(p.handlers, n) THEN AbortXHR(p, n) ELSE p

(* A click runs the handlers there were.  resetForm is always the last; the *)
(* end of a request removes it and adds it anew, and a handler that is new  *)
(* does not run.                                                            *)
Click(p) ==
    LET aborts == RemoveFirst(p.handlers, ResetHandler)
        q == FoldLeft(Handle, p, aborts)
    IN  IF /\ Contains(p.handlers, ResetHandler) /\ Contains(q.handlers, ResetHandler)
           /\ \A n \in Range(aborts) : p.sent[n].open => q.sent[n].open
          THEN Reset(q) ELSE q

-----------------------------------------------------------------------------
(* What happens.                                                            *)

(* The change handlers of the two inputs; enforceQuota clears them if the   *)
(* selection is too large.                                                  *)
Selected(p, input, pick) ==
    LET f == [p.fields EXCEPT ![input] = pick, !.listed = pick]
    IN  IF pick \in OverQuota
          THEN [p EXCEPT !.fields = NoFields, !.dirOff = FALSE, !.fileOff = FALSE,
                         !.waited = 0]
          ELSE [p EXCEPT !.fields = f, !.waited = 0,
                         !.dirOff = @ \/ input = "file",
                         !.fileOff = @ \/ input = "dir"]

Pick(input, pick) ==
    /\ picks < MaxPicks /\ picks' = picks + 1
    /\ input = "dir" => ~page.dirOff
    /\ input = "file" => ~page.fileOff
    /\ page' = Selected(page, input, pick)
    /\ UNCHANGED <<submits, cancels, unguarded>>

\* Mutant: the button is not disabled.
SubmitAgain ==
    /\ ~page.submitOff
    /\ submits < MaxSubmits /\ submits' = submits + 1
    /\ page.fields.listed # None
    /\ page' = [page EXCEPT !.starting = @ + 1]
    /\ UNCHANGED <<picks, cancels, unguarded>>

(* submit; without a selection there is only a message.                     *)
Submit ==
    /\ ~page.submitOff
    /\ submits < MaxSubmits /\ submits' = submits + 1
    /\ page.fields.listed # None
    /\ page' = [page EXCEPT !.submitOff = TRUE, !.starting = @ + 1]
    /\ UNCHANGED <<picks, cancels, unguarded>>

(* A tenth of a second later the request is sent.                           *)
Send ==
    /\ page.starting > 0
    /\ page' = Start([page EXCEPT !.starting = @ - 1], "submit")
    /\ UNCHANGED <<picks, submits, cancels, unguarded>>

(* Its answer: 200, a network error (0), a time-out or another error.       *)
Answer(n, status) ==
    /\ page.sent[n].open
    /\ page' = Ended(page, n, status)
    /\ UNCHANGED <<picks, submits, cancels, unguarded>>

(* retryDelay408 is over.                                                   *)
Retry(n) ==
    /\ n \in page.timers
    /\ page' = Start([page EXCEPT !.timers = @ \ {n},
                                  !.waited = IF @ < RetryLimit THEN @ + 1 ELSE @],
                     "retry")
    /\ UNCHANGED <<picks, submits, cancels, unguarded>>

Cancel ==
    /\ ~page.cancelOff
    /\ cancels < MaxCancels /\ cancels' = cancels + 1
    /\ unguarded' = (unguarded \/ page.retrying \/ page.starting > 0)
    /\ page' = Click(page)
    /\ UNCHANGED <<picks, submits>>

Next ==
    \/ \E input \in {"dir", "file"}, pick \in Picks \cup {None} : Pick(input, pick)
    \/ Submit \/ Send \/ Cancel
    \/ \E n \in DOMAIN page.sent : \/ \E status \in {0, 200, 408, 500} : Answer(n, status)
                                   \/ Retry(n)

(* Timers run out, and requests end.                                        *)
Fairness ==
    /\ WF_vars(Send)
    /\ WF_vars(\E n \in DOMAIN page.sent :
                  \/ \E status \in {0, 200, 408, 500} : Answer(n, status)
                  \/ Retry(n))

Spec == Init /\ [][Next]_vars
FairSpec == Spec /\ Fairness

-----------------------------------------------------------------------------
(* Properties.                                                              *)

Open == {n \in DOMAIN page.sent : page.sent[n].open}
UnderWay == page.starting + Cardinality(page.timers) + Cardinality(Open)

(* There is one upload at a time, and the form cannot be submitted again    *)
(* before it is over - whatever is retried or cancelled, unless the click   *)
(* came before the request or after a time-out.                             *)
OneUpload == ~unguarded => UnderWay <= 1 /\ (UnderWay = 1 => page.submitOff)

(* While a request is under way the button cancels it: it is enabled, and   *)
(* among its handlers is that of this request, but not resetForm.           *)
CanBeCancelled ==
    ~unguarded => \A n \in Open : /\ ~page.cancelOff
                                  /\ Contains(page.handlers, n)
                                  /\ ~Contains(page.handlers, ResetHandler)

(* The names in #id_directories are those of the files that are sent, which *)
(* come from one of two inputs, perhaps changed while a retry waited.       *)
SentAsListed == \A n \in DOMAIN page.sent : page.sent[n].files = page.sent[n].listed

(* "Cancel Upload" and "Reset Form" do not start an upload.                 *)
CancelStartsNothing == \A n \in DOMAIN page.sent : page.sent[n].by # "cancel"

(* The form can be submitted again at last: time-outs end the retries.      *)
SubmitComesBack == page.submitOff ~> ~page.submitOff

=============================================================================
