--------------------------- MODULE WarningDeposit ---------------------------
(***************************************************************************)
(* Which of the files of a deposit exist already: warning_deposit of       *)
(* vault/api.py, asked by the deposit page.  The view sorts the folders of *)
(* all paths, so that each comes right after its parent's, and looks them  *)
(* up one by one; a stack holds the found folders that enclose the current *)
(* one.                                                                    *)
(*                                                                         *)
(* A folder of a path is the sequence of its names; names are numbers in   *)
(* the order of strings (with a slash after them), the empty name is 0.    *)
(* A node of the tree is the sequence of the names from below the          *)
(* collection down to it.                                                  *)
(***************************************************************************)
EXTENDS Integers, Sequences, FiniteSets, SequencesExt

CONSTANTS
    Paths,    \* relative paths of files, as numbers in their order
    Folder,   \* the folder of each, <<>> for none
    Name      \* the name of the file in it

ASSUME PathsAssumption == Paths \subseteq Nat /\ IsFiniteSet(Paths)
ASSUME NamesAssumption == /\ Folder \in [Paths -> Seq(Int \ {0})]
                          /\ Name \in [Paths -> Int \ {0}]

VARIABLES
    asking,   \* the files the page asks for
    tree      \* the nodes in the collection

TopPaths == {p \in Paths : Folder[p] = <<>>}

NodeOf(p) == Append(Folder[p], Name[p])

(* The folder as the view cuts it from the path: "/" if there is none.      *)
FolderOf(p) == IF Folder[p] = <<>> THEN <<0>> ELSE Folder[p]

(* All folders on the way to files of ps, in the order of strings.          *)
FoldersOf(ps) == (UNION {Prefixes(FolderOf(p)) : p \in ps}) \ {<<>>}

Before(d, e) ==
    \/ IsStrictPrefix(d, e)
    \/ \E i \in DOMAIN d \cap DOMAIN e :
          SubSeq(d, 1, i - 1) = SubSeq(e, 1, i - 1) /\ d[i] < e[i]

Sorted(ds) ==
    [i \in 1..Cardinality(ds) |->
        CHOOSE d \in ds : Cardinality({e \in ds : Before(e, d)}) = i - 1]

(* Looks up the node of folder d, and what it has of the files in d         *)
(* (_check_file_in_db).                                                     *)
LookUp(ps, nodes, stack, found, d, node) ==
    IF node \in nodes
      THEN [stack |-> Append(stack, [folder |-> d, node |-> node]),
            found |-> found \cup {p \in ps : /\ FolderOf(p) = d
                                             /\ Append(node, Name[p]) \in nodes}]
      ELSE [stack |-> stack, found |-> found]

\* Mutant: the stack is popped once.
VisitPopOnce(ps, nodes, w, d) ==
    LET kept == IF w.stack # <<>> /\ ~IsPrefix(Last(w.stack).folder, d)
                  THEN Front(w.stack) ELSE w.stack
    IN  IF w.stack = <<>> THEN LookUp(ps, nodes, <<>>, w.found, d, <<d[1]>>)
        ELSE IF kept = <<>> \/ kept # w.stack THEN [w EXCEPT !.stack = kept]
        ELSE LookUp(ps, nodes, kept, w.found, d, Append(Last(kept).node, Last(d)))

(* The stack, popped until a folder encloses d.                             *)
Popped(stack, d) ==
    LET enclosing == {k \in DOMAIN stack : IsPrefix(stack[k].folder, d)}
    IN  IF enclosing = {} THEN <<>> ELSE SubSeq(stack, 1, Max(enclosing))

\* Mutant: the folder is looked up below the first of the stack.
VisitFromTop(ps, nodes, w, d) ==
    LET kept == Popped(w.stack, d)
    IN  IF w.stack = <<>> THEN LookUp(ps, nodes, <<>>, w.found, d, <<d[1]>>)
        ELSE IF kept = <<>> THEN [w EXCEPT !.stack = <<>>]
        ELSE LookUp(ps, nodes, kept, w.found, d, Append(Head(kept).node, Last(d)))

(* One turn of the loop over the folders.  Without an enclosing folder the  *)
(* first name is looked up below the collection; otherwise the stack is     *)
(* popped until a folder encloses d, whose last name is looked up in that - *)
(* and d is not looked up at all if the stack has become empty.             *)
Visit(ps, nodes, w, d) ==
    LET kept == Popped(w.stack, d)
    IN  IF w.stack = <<>> THEN LookUp(ps, nodes, <<>>, w.found, d, <<d[1]>>)
        ELSE IF kept = <<>> THEN [w EXCEPT !.stack = <<>>]
        ELSE LookUp(ps, nodes, kept, w.found, d, Append(Last(kept).node, Last(d)))

Walk(ps, nodes) ==
    FoldLeft(LAMBDA w, d : Visit(ps, nodes, w, d),
             [stack |-> <<>>, found |-> {}], Sorted(FoldersOf(ps)))

(* The answer: "objects", the files without a folder that exist, and        *)
(* "relative_path".                                                         *)
Warned(ps, nodes) ==
    {p \in ps \cap TopPaths : NodeOf(p) \in nodes} \cup (ps \cap Walk(ps, nodes).found)

-----------------------------------------------------------------------------
(* What the answer should be, and when it is.                               *)

InTree(ps, nodes) == {p \in ps : NodeOf(p) \in nodes}

(* At most one of the folders at the top exists: the next one that does     *)
(* would find the stack of the first, empty it, and be passed over.         *)
OneTopFolder(ps, nodes) ==
    Cardinality({<<d[1]>> : d \in FoldersOf(ps)} \cap nodes) <= 1

(* No folder below the top is missing while one in it is asked for, which   *)
(* would be looked up one level higher.                                     *)
NoGap(ps, nodes) ==
    \A d \in FoldersOf(ps) : Len(d) > 2 => Front(d) \in nodes \/ <<d[1]>> \notin nodes

(* No file that exists is missing in the answer: none is overwritten        *)
(* without a question - if at most one of the folders at the top exists.    *)
AllAreNamed ==
    OneTopFolder(asking, tree) => InTree(asking, tree) \subseteq Warned(asking, tree)

(* No file that does not exist is in the answer, whatever folders have the  *)
(* same name in different places - unless a missing one encloses another.   *)
OnlyThoseAreNamed ==
    OneTopFolder(asking, tree) /\ NoGap(asking, tree) =>
        Warned(asking, tree) \subseteq InTree(asking, tree)

=============================================================================
