----------------------------- MODULE FilesView -----------------------------
(***************************************************************************)
(* The file browser of the site: the Conductor, which asks the server for  *)
(* what the components request and publishes the answers, and its page:    *)
(* the navigator, the breadcrumbs, the table, the dialogs and the popover. *)
(*                                                                         *)
(* publish() runs the handlers of a topic in the step of the publisher, so *)
(* an action conjoins what each subscriber does.  A handler that awaits a  *)
(* response stops there: the rest of it is the action that takes the       *)
(* answer, and requests are answered in any order.                         *)
(*                                                                         *)
(* A path is the sequence of the node ids whose names it shows; None       *)
(* stands for the word "undefined" in a path.                              *)
(***************************************************************************)
EXTENDS Dialogs, MovePopover

CONSTANTS
    Start,         \* the directory the page is opened on
    MaxTroubles,   \* bound: uses of the back and forward buttons, dialogs
                   \* closed with Escape and requests without an answer
    MaxEvents      \* bound: these, and what else the user does that sends a
                   \* request, together

ASSUME StartAssumption ==
    Start \in Nodes /\ Kind[Start] # "FILE" /\ ParentAtFirst[Start] # None
ASSUME BoundsAssumption ==
    MaxEvents \in Nat /\ MaxTroubles \in Nat

VARIABLES
    ready,    \* the API has announced API_SERVICE_READY
    here,     \* Conductor.node and Conductor.path
    view,     \* the node and path of the last CHANGE_DIRECTORY
    calls,    \* requests that are not answered yet
    past,     \* the browser's history: its entries, and the current one
    tree,     \* the path attribute of each item of the navigator
    acts, backs, escapes, failures,   \* bounded counters
    hurried,  \* ghost: the user once did not wait for an answer, or went back
              \* in history under an open dialog
    astray,   \* ghost: a change of directory ended in an exception
    moved,    \* ghost: nodes that were moved
    shifted,  \* ghost: what was done to rows while pages were still to come
    torn      \* ghost: what had been done when a further page was loaded

page == <<nodes, rows, next, details, open, busy, live, stale, held, pop, tree>>
bounds == <<backs, escapes, failures>>
shifts == <<shifted, torn>>
ghosts == <<astray, moved, shifts>>
vars == <<parent, name, deleted, nodes, rows, next, details, open, busy, live,
          stale, held, pop, ready, here, view, calls, past, tree, acts, backs,
          escapes, failures, hurried, astray, moved, shifted, torn>>

Path == Seq(Nodes \cup {None})
Place == [node : Nodes \cup {None}, path : Path]
Op == {"node", "list", "more", "children", "listing", "move"} \cup Modal
Call == [op : Op, node : Nodes \cup {None}, nodes : SUBSET Nodes, path : Path,
         push : BOOLEAN, from : Nat, was : Names \cup {None},
         text : Names \cup {None}, names : SUBSET Names, fresh : BOOLEAN,
         same : BOOLEAN]

Changes == {"rename", "delete"}

Ask(op, n) == [op |-> op, node |-> n, nodes |-> {}, path |-> <<>>,
               push |-> FALSE, from |-> 0, was |-> None, text |-> None,
               names |-> {}, fresh |-> FALSE, same |-> FALSE]

(* Every variable has its type.                                             *)
TypeOK ==
    /\ ApiTypeOK /\ ListTypeOK /\ DialogsTypeOK /\ PopTypeOK
    /\ ready \in BOOLEAN
    /\ here \in Place /\ view \in Place
    /\ calls \in Seq(Call)
    /\ past.at \in DOMAIN past.entries /\ past.entries \in Seq(Place)
    /\ DOMAIN tree \subseteq Nodes /\ \A n \in DOMAIN tree : tree[n] \in Path
    /\ acts \in 0..MaxEvents /\ backs \in Nat /\ escapes \in Nat /\ failures \in Nat
    /\ backs + escapes + failures <= MaxTroubles
    /\ hurried \in BOOLEAN /\ astray \in BOOLEAN /\ moved \subseteq Nodes
    /\ shifted \subseteq Changes /\ torn \subseteq Changes

AtStart == [node |-> Start, path |-> PathOf[Start]]

Init ==
    /\ ApiInit /\ ListInit(Start) /\ DialogsInit /\ pop = Closed
    /\ ready = FALSE
    /\ here = AtStart /\ view = AtStart
    /\ calls = <<>>
    /\ past = [entries |-> <<AtStart>>, at |-> 1]
    /\ tree = [n \in {Org} |-> <<>>]
    /\ acts = 0 /\ backs = 0 /\ escapes = 0 /\ failures = 0
    /\ hurried = FALSE /\ astray = FALSE /\ moved = {}
    /\ shifted = {} /\ torn = {}

-----------------------------------------------------------------------------
(* Requests.                                                                *)

(* Those the view waits for.                                                *)
Pending == \E i \in DOMAIN calls : calls[i].op # "listing"

Budget == acts + backs + escapes + failures < MaxEvents
Trouble == Budget /\ backs + escapes + failures < MaxTroubles

Act ==
    /\ Budget
    /\ acts' = acts + 1
    /\ hurried' = (hurried \/ Pending \/ ~ready)

(* The user sees the page: no dialog before it, no popover over it.         *)
Free == open = {} /\ ~pop.open

Send(cs) == calls' = IF ready THEN calls \o cs ELSE calls
Answered(i) == RemoveAt(calls, i)

\* Mutant: the node of an earlier request stays.
ChangeKeepingNode(up, others, id, n, p, push) ==
    LET call == [Ask(IF n # None THEN "list" ELSE "node",
                     IF n # None THEN n ELSE id) EXCEPT !.path = p, !.push = push]
        fails == ~up \/ call.node = None
    IN  /\ here' = [here EXCEPT !.path = p]
        /\ calls' = IF fails THEN others ELSE Append(others, call)
        /\ astray' = (astray \/ fails)

\* Mutant: the path of an earlier request stays.
ChangeKeepingPath(up, others, id, n, p, push) ==
    LET call == [Ask(IF n # None THEN "list" ELSE "node",
                     IF n # None THEN n ELSE id) EXCEPT !.path = p, !.push = push]
        fails == ~up \/ call.node = None
    IN  /\ here' = [here EXCEPT !.node = n]
        /\ calls' = IF fails THEN others ELSE Append(others, call)
        /\ astray' = (astray \/ fails)

(* CHANGE_DIRECTORY_REQUEST by id or by node: both are remembered at once.  *)
(* What is missing is an exception when it is used: the API before it is    *)
(* ready, or a node.                                                        *)
ChangeWhen(up, others, id, n, p, push) ==
    LET call == [Ask(IF n # None THEN "list" ELSE "node",
                     IF n # None THEN n ELSE id) EXCEPT !.path = p, !.push = push]
        fails == ~up \/ call.node = None
    IN  /\ here' = [node |-> n, path |-> p]
        /\ calls' = IF fails THEN others ELSE Append(others, call)
        /\ astray' = (astray \/ fails)

Change(others, id, n, p, push) == ChangeWhen(ready, others, id, n, p, push)

(* When the table is drawn anew, what still waits to change it has the old  *)
(* one; props.nodes is another array then, too.                             *)
Outdated(cs) == [i \in DOMAIN cs |-> [cs[i] EXCEPT !.fresh = FALSE, !.same = FALSE]]

-----------------------------------------------------------------------------
(* The navigator.                                                           *)

Without(ns) == [n \in DOMAIN tree \ ns |-> tree[n]]

(* CreateTreeViewElements: children of d that have no item yet get one.     *)
WithItems(t, d, ns) ==
    [c \in DOMAIN t \cup ns |->
        IF c \in DOMAIN t THEN t[c]
        ELSE IF Kind[c] = "COLLECTION" THEN <<c>> ELSE Append(t[d], c)]

(* The items below d, of the children the navigator remembers (here: of     *)
(* those there are); those of n come with the message.                      *)
Grown(t, d, n, objects) ==
    LET kids == IF d = n THEN Folders(objects)
                ELSE {c \in Nodes \ {Org} : Exists(c) /\ parent[c] = d
                                            /\ Kind[c] # "FILE"}
    IN  IF d \in DOMAIN t THEN WithItems(t, d, kids) ELSE t

(* CHANGE_DIRECTORY: if n has no item, the items down to it are made first. *)
TreeShowing(n, objects) ==
    LET grow(t, d) == Grown(t, d, n, objects)
    IN  IF n \in DOMAIN tree THEN grow(tree, n)
        ELSE FoldLeft(grow, tree, <<Org>> \o PathOf[n])

(* NODE_CHILDREN_RESPONSE: the items below d are replaced, if there are any *)
(* children.  The item of the organization has no path attribute.           *)
TreeListing(d, objects) ==
    LET base == IF d = Org THEN <<None>> ELSE tree[d]
        kept == Without(Below(d) \ {d})
        ns   == Folders(objects)
    IN  IF d \notin DOMAIN tree \/ objects = <<>> THEN tree
        ELSE [c \in DOMAIN kept \cup ns |->
                 IF c \in ns THEN Append(base, c) ELSE kept[c]]

(* The end of a move: the item of n goes below that of d.                   *)
TreeMoving(ns, d) ==
    IF d \notin DOMAIN tree THEN Without(UNION {Below(n) : n \in ns})
    ELSE [c \in DOMAIN tree |-> IF c \in ns THEN Append(tree[d], c) ELSE tree[c]]

-----------------------------------------------------------------------------
(* Going to another directory.                                              *)

ApiReady ==
    /\ ~ready
    /\ ready' = TRUE
    /\ ChangeWhen(TRUE, calls, None, here.node, here.path, TRUE)
    /\ UNCHANGED <<api, page, view, past, acts, bounds, hurried, moved, shifts>>

Going == UNCHANGED <<api, page, ready, view, past, bounds, moved, shifts>>

(* Double click or Enter on a row; files are not opened by anything.        *)
OpenRow(i) ==
    LET n == NodeOfRow(i)
    IN  /\ Free /\ n # None /\ Kind[n] # "FILE"
        /\ Act
        /\ Change(calls, None, n, Append(view.path, n), TRUE)
        /\ Going

(* The k-th breadcrumb; 0 is "Collections".                                 *)
Crumb(k) ==
    LET ids == <<Org>> \o PathOf[view.node]
    IN  /\ Free
        /\ Act
        /\ Change(calls, IF k + 1 \in DOMAIN ids THEN ids[k + 1] ELSE Org, None,
                  SubSeq(view.path, 1, k), TRUE)
        /\ Going

TreeClick(n) ==
    /\ Free
    /\ Act
    /\ Change(calls, n, None, tree[n], TRUE)
    /\ Going

(* Closing and opening an item of the navigator.                            *)
TreeExpand(n) ==
    /\ Free
    /\ Act
    /\ tree' = Without(Below(n) \ {n})
    /\ Send(<<Ask("children", n)>>)
    /\ UNCHANGED <<api, nodes, rows, next, details, dialogs, pop, ready, here,
                   view, past, bounds, ghosts>>

(* Back and forward.  The first entry has no state: nothing happens.        *)
GoTo(j) ==
    /\ Trouble
    /\ backs' = backs + 1
    /\ hurried' = (hurried \/ Pending \/ ~ready \/ ~Free)
    /\ past' = [past EXCEPT !.at = j]
    /\ \/ /\ j > 1
          /\ Change(calls, None, past.entries[j].node, past.entries[j].path, FALSE)
       \/ /\ j = 1
          /\ UNCHANGED <<here, calls, astray>>
    /\ UNCHANGED <<api, page, ready, view, acts, escapes, failures, moved,
                   shifts>>

(* The node that was asked for by id; no results: an exception.             *)
AnswerNode(i) ==
    LET c == calls[i]
    IN  /\ c.op = "node"
        /\ calls' = IF Exists(c.node) THEN Append(Answered(i), [c EXCEPT !.op = "list"])
                                      ELSE Answered(i)
        /\ astray' = (astray \/ ~Exists(c.node))
        /\ UNCHANGED <<api, page, ready, here, view, past, acts, bounds, hurried,
                       moved, shifts>>

\* Mutant: an entry is counted that was not made.
VisitedAlways(at, push) ==
    [entries |-> IF push THEN Append(SubSeq(past.entries, 1, past.at), at)
                 ELSE past.entries,
     at |-> past.at + 1]

(* doHistoryUpdate: the entries after the current one are dropped.          *)
Visited(at, push) ==
    IF push THEN [entries |-> Append(SubSeq(past.entries, 1, past.at), at),
                  at |-> past.at + 1]
    ELSE past

(* Its children: CHANGE_DIRECTORY, then the new entry of the history.       *)
AnswerList(i) ==
    LET c  == calls[i]
        pg == Page(c.node, 0)
        at == [node |-> c.node, path |-> c.path]
    IN  /\ c.op = "list"
        /\ view' = at
        /\ ShowDirectory(c.node, pg)
        /\ tree' = TreeShowing(c.node, pg.results)
        /\ LoseTable
        /\ calls' = Outdated(Answered(i))
        /\ past' = Visited(at, c.push)
        /\ shifted' = {} /\ torn' = {}
        /\ UNCHANGED <<api, dialogs, ready, here, acts, bounds, hurried, astray,
                       moved>>

AnswerChildren(i) ==
    LET d == calls[i].node
    IN  /\ calls[i].op = "children"
        /\ tree' = TreeListing(d, Page(d, 0).results)
        /\ calls' = Answered(i)
        /\ UNCHANGED <<api, list, dialogs, pop, ready, here, view, past, acts,
                       bounds, hurried, ghosts>>

(* Scrolling to the end of the table, unless it is busy doing that.         *)
LoadMore ==
    /\ Free
    /\ next.from > 0
    /\ \A i \in DOMAIN calls : ~(calls[i].op = "more" /\ calls[i].fresh)
    /\ Act
    /\ Send(<<[Ask("more", next.of) EXCEPT !.from = next.from, !.fresh = TRUE]>>)
    /\ UNCHANGED <<api, page, ready, here, view, past, bounds, ghosts>>

AnswerMore(i) ==
    /\ calls[i].op = "more"
    /\ AppendPage(Page(calls[i].node, calls[i].from))
    /\ calls' = Answered(i)
    /\ torn' = torn \cup shifted
    /\ UNCHANGED <<api, dialogs, pop, tree, ready, here, view, past, acts, bounds,
                   hurried, astray, moved, shifted>>

-----------------------------------------------------------------------------
(* The menu of a row, and what its items open.                              *)

(* The menu on row i, with the rows rs selected: they stand for the nodes   *)
(* at their indexes.  The click also gives row i the focus.                 *)
Menu(i, rs) ==
    /\ Free
    /\ i \in rs
    /\ \A r \in rs : NodeOfRow(r) # None
    /\ Focus(NodeOfRow(i))

Opening ==    \* bound: only what could still be submitted is opened
    /\ Budget
    /\ hurried' = (hurried \/ Pending \/ ~ready)
    /\ UNCHANGED <<api, tree, ready, here, view, calls, past, acts, bounds, ghosts>>

AskRename(i) ==
    /\ Menu(i, {i})
    /\ LET o == nodes[rows[i].at]
       IN  OpenDialog("rename", [nodes |-> {o.id}, was |-> o.name, text |-> o.name])
    /\ UNCHANGED pop /\ Opening

AskDelete(i, rs) ==
    /\ Menu(i, rs)
    /\ Kind[NodeOfRow(i)] # "COLLECTION"
    /\ OpenDialog("delete", [Empty EXCEPT !.nodes = {NodeOfRow(r) : r \in rs}])
    /\ UNCHANGED pop /\ Opening

AskMove(i, rs) ==
    /\ Menu(i, rs)
    /\ Kind[NodeOfRow(i)] # "COLLECTION"
    /\ OpenMove(i, rs)
    /\ UNCHANGED dialogs /\ Opening

(* The New button; "folder" is disabled once "/" has been shown.            *)
AskNew(m) ==
    /\ Free
    /\ m = "folder" => view.path # <<>> \/ Len(past.entries) = 1
    /\ OpenDialog(m, Empty)
    /\ UNCHANGED <<list, pop>> /\ Opening

-----------------------------------------------------------------------------
(* The dialogs.                                                             *)

(* What the submitHandler of dialog m requests, with h as it is held.       *)
Request(m, h) ==
    [Ask(m, IF m = "folder" THEN view.node ELSE None) EXCEPT
        !.nodes = h[m].nodes, !.was = h[m].was, !.text = h[m].text]

(* The folder dialog has no node before the first CHANGE_DIRECTORY.         *)
WithoutParent(m) == m = "folder" /\ Len(past.entries) = 1

(* The submitHandler of each dialog in ms runs times[m] times, m's input    *)
(* having got a text.                                                       *)
Submitting(ms, times, m, text) ==
    LET sends(x) == x \in ms /\ ~Unchanged(x, (held')[x].text) /\ ~WithoutParent(x)
        all(x) == [j \in 1..(IF sends(x) THEN times[x] ELSE 0) |-> Request(x, held')]
    IN  /\ Act
        /\ Submit(ms, m, text)
        /\ Send(all("collection") \o all("folder") \o all("rename") \o all("delete"))
        /\ UNCHANGED <<api, list, pop, tree, ready, here, view, past, bounds, ghosts>>

SubmitByClick(m, text) ==
    /\ m \in open \ busy
    /\ Submitting({m}, [x \in Modal |-> 1], m, text)

(* Enter in an input: every handler that is on the document runs.           *)
SubmitByEnter(m, text) ==
    /\ m \in (open \ busy) \cap WithInput
    /\ Submitting({x \in Modal : Handlers(x) > 0}, [x \in Modal |-> Handlers(x)],
                  m, text)

CancelDialog(m) ==
    /\ Cancel(m)
    /\ UNCHANGED <<api, list, pop, tree, ready, here, view, calls, past, acts,
                   bounds, hurried, ghosts>>

EscapeDialog(m) ==
    /\ Trouble
    /\ escapes' = escapes + 1
    /\ CloseByEscape(m)
    /\ UNCHANGED <<api, list, pop, tree, ready, here, view, calls, past, acts,
                   backs, failures, hurried, ghosts>>

(* Offsets count what is before them in the listing as it is by then.       *)
Shifting(change) ==
    /\ shifted' = IF next.from > 0 THEN shifted \cup {change} ELSE shifted
    /\ UNCHANGED torn

(* The answers.  After a creation the view is to be loaded anew, a folder's *)
(* by the node the dialog had, a collection's by the one of the Conductor.  *)
AnswerCreate(i) ==
    LET c    == calls[i]
        kind == IF c.op = "folder" THEN "FOLDER" ELSE "COLLECTION"
        d    == IF c.op = "folder" THEN c.node ELSE Org
    IN  /\ c.op \in {"folder", "collection"}
        /\ \/ /\ MayCreate(d, kind, c.text)
              /\ Create(d, kind, c.text)
              /\ Respond(c.op, TRUE)
              /\ \/ /\ c.op = "folder"
                    /\ Change(Answered(i), None, c.node, here.path, TRUE)
                 \/ /\ c.op = "collection"
                    /\ Change(Append(Answered(i), Ask("children", Org)),
                              None, here.node, here.path, TRUE)
           \/ /\ ~MayCreate(d, kind, c.text)
              /\ Respond(c.op, FALSE)
              /\ calls' = Answered(i)
              /\ UNCHANGED <<api, here, astray>>
        /\ UNCHANGED <<list, pop, tree, ready, view, past, acts, bounds, hurried,
                       moved, shifts>>

AnswerRename(i) ==
    LET c == calls[i]
        n == CHOOSE x \in c.nodes : TRUE
    IN  /\ c.op = "rename"
        /\ \/ /\ MayRename(n, c.text)
              /\ Rename(n, c.text)
              /\ ShowRenamed(n, c.was, c.text)
              /\ Respond("rename", TRUE)
              /\ Shifting("rename")
           \/ /\ ~MayRename(n, c.text)
              /\ Respond("rename", FALSE)
              /\ UNCHANGED <<api, list, shifts>>
        /\ calls' = Answered(i)
        /\ UNCHANGED <<pop, tree, ready, here, view, past, acts, bounds, hurried,
                       astray, moved>>

(* One DELETE for each node.  The navigator does not hear of it.            *)
AnswerDelete(i) ==
    LET c     == calls[i]
        wrong == {n \in c.nodes : ~Exists(n)}
    IN  /\ c.op = "delete"
        /\ Delete(c.nodes \ wrong)
        /\ ShowDeleted(c.nodes \ wrong, wrong)
        /\ Respond("delete", wrong = {})
        /\ LoseTable
        /\ calls' = Outdated(Answered(i))
        /\ Shifting("delete")
        /\ UNCHANGED <<tree, ready, here, view, past, acts, bounds, hurried, astray,
                       moved>>

-----------------------------------------------------------------------------
(* The popover.                                                             *)

PickFolder(d) ==
    /\ Pick(d)
    /\ UNCHANGED <<api, list, dialogs, tree, ready, here, view, calls, past, acts,
                   bounds, hurried, ghosts>>

ListFolder(d) ==
    /\ Down(d) \/ Up(d)
    /\ Act
    /\ Send(<<Ask("listing", d)>>)
    /\ UNCHANGED <<api, page, ready, here, view, past, bounds, ghosts>>

AnswerListing(i) ==
    /\ calls[i].op = "listing"
    /\ ShowListing(calls[i].node)
    /\ calls' = Answered(i)
    /\ UNCHANGED <<api, list, dialogs, tree, ready, here, view, past, acts, bounds,
                   hurried, ghosts>>

MoveHere ==
    /\ MayMoveHere
    /\ Act
    /\ Send(<<[Ask("move", pop.dest) EXCEPT !.nodes = pop.chosen,
                  !.names = pop.names, !.fresh = pop.fresh, !.same = pop.same]>>)
    /\ UNCHANGED <<api, page, ready, here, view, past, bounds, ghosts>>

(* The PATCHes are answered.  Rows are looked for by name in the table the  *)
(* popover was drawn over: if one is not there, that is an exception before *)
(* anything is removed from the array; an item of the navigator that is not *)
(* there is one after the first folder.                                     *)
AnswerMove(i) ==
    LET c       == calls[i]
        ok      == {n \in c.nodes : MayMove(n, c.node)}
        hide    == c.names \ {name[n] : n \in c.nodes \ ok}
        found   == c.fresh /\ \A nm \in hide : \E r \in DOMAIN rows : rows[r].name = nm
        folders == {n \in ok : Kind[n] # "FILE"}
        reached == IF folders \cup {c.node} \subseteq DOMAIN tree THEN folders
                   ELSE {n \in folders : \A x \in folders : ~Precedes(x, n)}
    IN  /\ c.op = "move"
        /\ Move(ok, c.node)
        /\ Moved(c.nodes, c.nodes \ ok)
        /\ \/ /\ found
              /\ ShowMoved(IF c.same THEN reached ELSE {}, hide)
              /\ tree' = TreeMoving(reached \cap DOMAIN tree, c.node)
           \/ /\ ~found
              /\ UNCHANGED <<list, tree>>
        /\ calls' = Answered(i)
        /\ moved' = moved \cup ok
        /\ UNCHANGED <<dialogs, ready, here, view, past, acts, bounds, hurried,
                       astray, shifts>>

ClosePopover ==
    /\ CloseMove
    /\ UNCHANGED <<api, list, dialogs, tree, ready, here, view, calls, past, acts,
                   bounds, hurried, ghosts>>

-----------------------------------------------------------------------------

(* A request gets no answer: fetch rejects, and nothing catches that.       *)
Lose(i) ==
    /\ Trouble
    /\ failures' = failures + 1
    /\ calls' = Answered(i)
    /\ astray' = (astray \/ calls[i].op \in {"node", "list"})
    /\ UNCHANGED <<api, page, ready, here, view, past, acts, backs, escapes,
                   hurried, moved, shifts>>

Answer(i) ==
    /\ i \in DOMAIN calls
    /\ \/ AnswerNode(i) \/ AnswerList(i) \/ AnswerChildren(i) \/ AnswerMore(i)
       \/ AnswerCreate(i) \/ AnswerRename(i) \/ AnswerDelete(i)
       \/ AnswerListing(i) \/ AnswerMove(i)

SelectedRows(i) == {rs \in SUBSET DOMAIN rows : i \in rs /\ Cardinality(rs) <= 2}

User ==
    \/ \E i \in DOMAIN rows : OpenRow(i) \/ AskRename(i)
    \/ \E i \in DOMAIN rows : \E rs \in SelectedRows(i) :
          AskDelete(i, rs) \/ AskMove(i, rs)
    \/ \E k \in 0..Len(view.path) : Crumb(k)
    \/ \E n \in DOMAIN tree : TreeClick(n) \/ TreeExpand(n)
    \/ \E j \in {past.at - 1, past.at + 1} \cap DOMAIN past.entries : GoTo(j)
    \/ LoadMore \/ MoveHere \/ ClosePopover
    \/ \E m \in {"collection", "folder"} : AskNew(m)
    \/ \E m \in Modal : CancelDialog(m) \/ EscapeDialog(m)
    \/ \E m \in Modal, text \in Names :
          SubmitByClick(m, text) \/ SubmitByEnter(m, text)
    \/ \E d \in Nodes : PickFolder(d) \/ ListFolder(d)

Next ==
    \/ ApiReady \/ User
    \/ \E i \in DOMAIN calls : Answer(i) \/ Lose(i)

Spec == Init /\ [][Next]_vars

-----------------------------------------------------------------------------
(* Properties.                                                              *)

(* Nothing is outstanding, and every answer was waited for.                 *)
Quiet == ready /\ ~Pending /\ ~hurried

(* Six components keep the directory that is shown, the Conductor the one   *)
(* that was asked for last, and the browser its own: when nothing is        *)
(* outstanding they agree, unless a request went astray, or the browser is  *)
(* back at the entry that has no state (FilesView.js:112).                  *)
InStep ==
    Quiet /\ ~astray =>
        /\ here.path = view.path
        /\ past.at > 1 => past.entries[past.at] = view

(* The rows are those of the directory that is shown: each is an existing   *)
(* child under its name, no child is there twice, and none is missing once  *)
(* there is no further page.  Rows that came by pages, were renamed in      *)
(* place, filtered or removed are not read anew.  Moves are excepted, as a  *)
(* file that was moved stays in the array (MovePopover.js:186).  So are     *)
(* pages loaded after a change they do not know of, as the next page is at  *)
(* a fixed offset (FilesList.js:317): after a renaming, which may put a     *)
(* child before or after it, all of this; after a deletion, missing rows.   *)
Children(d) == {n \in Nodes \ {Org} : Exists(n) /\ parent[n] = d}

RowsTruthful ==
    Quiet /\ ~astray /\ escapes = 0 /\ moved = {} /\ Len(past.entries) > 1
    /\ "rename" \notin torn =>
        /\ \A i \in DOMAIN rows :
              /\ rows[i].id \in Children(view.node)
              /\ rows[i].name = name[rows[i].id]
        /\ Cardinality({rows[i].id : i \in DOMAIN rows}) = Len(rows)
        /\ next.from = 0 /\ torn = {} =>
              \A n \in Children(view.node) : \E i \in DOMAIN rows : rows[i].id = n

(* A row acts on the node it shows: the index it carries still leads there, *)
(* whatever was appended, filtered or drawn anew, and in whatever order.    *)
RowsNameTheirNodes == \A i \in DOMAIN rows : NodeOfRow(i) = rows[i].id

RowsNameTheirNodesUnlessMoved ==
    (\A n \in moved : Kind[n] = "FILE") => RowsNameTheirNodes

(* A request of a dialog comes from a dialog that is open and waits for it, *)
(* and was sent once.                                                       *)
OwnRequests ==
    \A i \in DOMAIN calls : calls[i].op \in Modal =>
        /\ calls[i].op \in open \cap busy
        /\ \A j \in DOMAIN calls \ {i} : calls[j].op # calls[i].op

OwnRequestsUnlessEscaped == escapes = 0 => OwnRequests

(* The path that is shown is that of the node that is shown, though they    *)
(* come from different components: the list appends a name to its path, the *)
(* breadcrumbs cut theirs and count ids, the navigator has an attribute,    *)
(* the history an object.  Excepted: the word "undefined", which the items  *)
(* of collections get when "Collections" is opened again                    *)
(* (FileTreeNavigator.js:174).                                              *)
PathOfNode ==
    Quiet /\ ~astray /\ moved = {} /\ None \notin Range(view.path) =>
        view.path = PathOf[view.node]

(* A dialog that is busy, which cannot even be closed, waits for a request  *)
(* that will be answered - unless one was lost, or sent before the page was *)
(* ready: nothing but the response ends that state.                         *)
BusyIsAwaited ==
    \A m \in busy : \/ \E i \in DOMAIN calls : calls[i].op = m
                    \/ failures > 0 \/ hurried

=============================================================================
