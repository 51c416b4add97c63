----------------------------- MODULE FilesList -----------------------------
(***************************************************************************)
(* The table in the middle of the file browser and the panel beside it:    *)
(* the components FilesList and FileDetails.  FilesList keeps an array of  *)
(* node objects (props.nodes) and a table whose rows name their node by    *)
(* an index into that array.  The two are changed by different handlers.   *)
(*                                                                         *)
(* Handlers are operators here; FilesView publishes to them.               *)
(***************************************************************************)
EXTENDS NodesApi

VARIABLES
    nodes,    \* props.nodes
    rows,     \* the rows of the table: index, shown node and name
    next,     \* nextChildrenUrl: the parent and offset (0: null) it asks for
    details   \* the node FileDetails shows

list == <<nodes, rows, next, details>>

Row == [at : Nat, id : Nodes, name : Names]

ListTypeOK ==
    /\ nodes \in Seq(Object)
    /\ rows \in Seq(Row)
    /\ next \in [of : Nodes, from : Nat]
    /\ details \in Nodes

ListInit(start) ==
    /\ nodes = <<>>
    /\ rows = <<>>
    /\ next = [of |-> start, from |-> 0]
    /\ details = start

(* What is left of s when only the elements at the indexes in keep stay.    *)
Kept(s, keep) ==
    LET upTo[k \in 0..Len(s)] ==
            IF k = 0 THEN <<>>
            ELSE IF k \in keep THEN Append(upTo[k - 1], s[k]) ELSE upTo[k - 1]
    IN  upTo[Len(s)]

(* nodeToUI5TableRow, for objects that come after the first k of the array. *)
RowsOf(objects, k) ==
    [i \in DOMAIN objects |-> [at |-> k + i, id |-> objects[i].id,
                               name |-> objects[i].name]]

(* CHANGE_DIRECTORY: new props, everything is drawn anew.                   *)
ShowDirectory(d, page) ==
    /\ nodes' = page.results
    /\ rows' = RowsOf(page.results, 0)
    /\ next' = page.next
    /\ details' = d

\* Mutant: the rows of a further page are numbered from 0 again.
AppendFromZero(page) ==
    /\ nodes' = nodes \o page.results
    /\ rows' = rows \o RowsOf(page.results, 0)
    /\ next' = page.next
    /\ UNCHANGED details

(* The end of loadMoreHandler: whatever directory is shown by now.          *)
AppendPage(page) ==
    /\ nodes' = nodes \o page.results
    /\ rows' = rows \o RowsOf(page.results, Len(nodes))
    /\ next' = page.next
    /\ UNCHANGED details

(* NODE_RENAME_RESPONSE of a success.  FilesList renames the row it finds   *)
(* by the old name; FileDetails, if it shows the node, renames the object,  *)
(* which is the one in the array if it was picked in the table.             *)
ShowRenamed(n, old, new) ==
    LET hits == {i \in DOMAIN rows : rows[i].name = old}
    IN  /\ rows' = IF hits = {} THEN rows
                   ELSE [rows EXCEPT ![Min(hits)].name = new]
        /\ nodes' = IF details # n THEN nodes
                    ELSE [i \in DOMAIN nodes |->
                            IF nodes[i].id = n THEN [nodes[i] EXCEPT !.name = new]
                            ELSE nodes[i]]
        /\ UNCHANGED <<next, details>>

\* Mutant: the table is not drawn anew.
FilterDeleted(ns, errors) ==
    /\ nodes' = Kept(nodes, {i \in DOMAIN nodes : nodes[i].id \notin ns})
    /\ UNCHANGED <<rows, next, details>>

(* NODES_DELETE_RESPONSE: ns were deleted, errors were not.                 *)
ShowDeleted(ns, errors) ==
    LET left == Kept(nodes, {i \in DOMAIN nodes : nodes[i].id \notin ns})
    IN  nodes' = left /\ rows' = RowsOf(left, 0) /\ UNCHANGED <<next, details>>

(* The end of a move: rows are found by name, and folders are spliced out   *)
(* of the array (files stay in it).                                         *)
ShowMoved(ns, names) ==
    /\ rows' = Kept(rows, {i \in DOMAIN rows : rows[i].name \notin names})
    /\ nodes' = Kept(nodes, {i \in DOMAIN nodes : \/ nodes[i].id \notin ns
                                                  \/ Kind[nodes[i].id] = "FILE"})
    /\ UNCHANGED <<next, details>>

(* FILE_ROW_SELECTED: a row gets the focus.                                 *)
Focus(n) == details' = n /\ UNCHANGED <<nodes, rows, next>>

(* The node that an event on row i is about.                                *)
NodeOfRow(i) == IF rows[i].at \in DOMAIN nodes THEN nodes[rows[i].at].id ELSE None

=============================================================================
