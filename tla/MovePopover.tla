---------------------------- MODULE MovePopover ----------------------------
(***************************************************************************)
(* The popover that moves rows of the table elsewhere.  When it opens it   *)
(* captures the chosen nodes, the names in their rows, the array they are  *)
(* in and the table; all of these may be out of date when it uses them.    *)
(* Its heading, which another request fills, is left out.                  *)
(***************************************************************************)
EXTENDS FilesList

VARIABLE pop

Closed == [open |-> FALSE, home |-> None, chosen |-> {}, cells |-> {},
           names |-> {}, at |-> None, listed |-> {}, dest |-> None,
           fresh |-> FALSE, same |-> FALSE]

PopTypeOK ==
    pop \in [open : BOOLEAN,
             home : Nodes \cup {None},     \* where the chosen nodes are
             chosen : SUBSET Nodes,
             cells : SUBSET Names,         \* the names in their rows
             names : SUBSET Names,         \* those MOVE HERE will hide
             at : Nodes \cup {None},       \* the directory that is listed
             listed : SUBSET Nodes,        \* the folders in it
             dest : Nodes \cup {None},     \* the one that is selected
             fresh : BOOLEAN,   \* the table is the one it was drawn over
             same : BOOLEAN]    \* and props.nodes the array it got

Folders(objects) == {n \in {o.id : o \in Range(objects)} : Kind[n] # "FILE"}

(* "Move" in the menu of row i, for the rows rs: lists the same directory.  *)
OpenMove(i, rs) ==
    pop' = [open |-> TRUE,
            home |-> parent[NodeOfRow(i)],
            chosen |-> {NodeOfRow(r) : r \in rs},
            cells |-> {rows[r].name : r \in rs},
            names |-> {rows[r].name : r \in rs},
            at |-> parent[NodeOfRow(i)],
            listed |-> Folders(nodes),
            dest |-> None, fresh |-> TRUE, same |-> TRUE]

(* Selecting a folder; MOVE HERE is disabled for the current parent, and    *)
(* for what is to be moved itself.                                          *)
Pick(d) ==
    /\ pop.open /\ d \in pop.listed
    /\ pop' = [pop EXCEPT !.dest = d]

MayMoveHere ==
    /\ pop.open /\ pop.dest # None
    /\ pop.dest \notin pop.chosen \cup {pop.home}

(* Double click on a folder, or the back button: which directory to list.   *)
Down(d) == pop.open /\ d \in pop.listed \ pop.chosen
Up(d) == pop.open /\ pop.at \in Nodes \ {Org} /\ d = parent[pop.at]

(* The answer: drawn anew, over the table that is there by now; with no     *)
(* node left to move that ends in an exception before anything is drawn.    *)
ShowListing(d) ==
    pop' = IF ~pop.open \/ pop.chosen = {} THEN pop
           ELSE [pop EXCEPT !.at = d, !.listed = Folders(Page(d, 0).results),
                            !.dest = None, !.names = pop.cells, !.fresh = TRUE]

(* The table, and props.nodes, were replaced.                               *)
LoseTable == pop' = [pop EXCEPT !.fresh = FALSE, !.same = FALSE]

(* The answers to the PATCHes of ns: what failed is no longer chosen, and   *)
(* the popover closes if nothing did.                                       *)
Moved(ns, failed) ==
    pop' = IF failed = {} THEN Closed
           ELSE [pop EXCEPT !.chosen = @ \ failed,
                            !.names = @ \ {name[n] : n \in failed}]

CloseMove == pop.open /\ pop' = Closed

=============================================================================
