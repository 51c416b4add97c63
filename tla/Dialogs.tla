------------------------------ MODULE Dialogs ------------------------------
(***************************************************************************)
(* The modal dialogs of the file browser: Modal and its four subclasses.   *)
(* Each registers a keydown handler on the document when it opens; the     *)
(* handler runs for keys pressed anywhere until close() removes it.        *)
(***************************************************************************)
EXTENDS NodesApi

VARIABLES
    open,   \* dialogs that are shown (one at a time)
    busy,   \* dialogs that wait for a response
    live,   \* dialogs whose boundKeydownHandler is on the document
    stale,  \* how many handlers of each dialog were left there before
    held    \* what a dialog acts on: parent, node and its name, nodes; and
            \* the text in its input

dialogs == <<open, busy, live, stale, held>>

Modal == {"collection", "folder", "rename", "delete"}
WithInput == Modal \ {"delete"}
Held == [nodes : SUBSET Nodes, was : Names \cup {None}, text : Names \cup {None}]
Empty == [nodes |-> {}, was |-> None, text |-> None]

DialogsTypeOK ==
    /\ open \subseteq Modal /\ busy \subseteq Modal /\ live \subseteq Modal
    /\ stale \in [Modal -> Nat]
    /\ held \in [Modal -> Held]

DialogsInit ==
    /\ open = {} /\ busy = {} /\ live = {}
    /\ stale = [m \in Modal |-> 0]
    /\ held = [m \in Modal |-> Empty]

(* open(): the bound handler is new each time.                              *)
OpenDialog(m, what) ==
    /\ open' = open \cup {m}
    /\ live' = live \cup {m}
    /\ stale' = [stale EXCEPT ![m] = IF m \in live THEN @ + 1 ELSE @]
    /\ held' = [held EXCEPT ![m] = what]
    /\ UNCHANGED busy

(* What a dialog holds is not looked at again without a handler left.       *)
Forget(ms) == held' = [m \in Modal |-> IF m \in ms /\ stale[m] = 0 THEN Empty
                                                                 ELSE held[m]]

\* Mutant: the handler stays on the document.
CancelKeepingHandler(m) ==
    /\ m \in open \ busy
    /\ open' = open \ {m}
    /\ UNCHANGED <<busy, live, stale, held>>

(* CANCEL; not while the buttons are disabled.                              *)
Cancel(m) ==
    /\ m \in open \ busy
    /\ open' = open \ {m}
    /\ live' = live \ {m}
    /\ Forget({m})
    /\ UNCHANGED <<busy, stale>>

(* Escape, which the popup library takes for "close": the dialog's own      *)
(* close() does not run.  A busy dialog stops the key.                      *)
CloseByEscape(m) ==
    /\ m \in open \ busy
    /\ open' = open \ {m}
    /\ UNCHANGED <<busy, live, stale, held>>

(* How often a dialog's submitHandler runs when Enter is pressed in an      *)
(* input: once for each of its handlers on the document.                    *)
Handlers(m) == stale[m] + (IF m \in live THEN 1 ELSE 0)

(* Submitting renames nothing if the name is the same: it closes.           *)
Unchanged(m, text) == m = "rename" /\ text = held[m].was

(* submitHandler of every dialog in ms, with the input of m as typed now.   *)
Submit(ms, m, text) ==
    LET typed == [held EXCEPT ![m].text = IF m \in WithInput THEN text ELSE None]
        closing == {k \in ms : Unchanged(k, typed[k].text)}
    IN  /\ held' = typed
        /\ busy' = busy \cup (ms \ closing)
        /\ open' = open \ closing
        /\ live' = live \ closing
        /\ UNCHANGED stale

\* Mutant: an error leaves the dialog busy.
RespondOnlySuccess(m, ok) ==
    \/ /\ ok
       /\ busy' = busy \ {m} /\ open' = open \ {m} /\ live' = live \ {m}
       /\ UNCHANGED <<stale, held>>
    \/ ~ok /\ UNCHANGED dialogs

(* The response: no longer busy, and closed unless there was an error.      *)
Respond(m, ok) ==
    /\ busy' = busy \ {m}
    /\ open' = IF ok THEN open \ {m} ELSE open
    /\ live' = IF ok THEN live \ {m} ELSE live
    /\ Forget(IF ok THEN {m} ELSE {})
    /\ UNCHANGED stale

=============================================================================
