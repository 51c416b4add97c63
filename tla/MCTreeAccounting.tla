-------------------------- MODULE MCTreeAccounting --------------------------
(* An organization 1 with the collection 2; in it the folder 3 with the     *)
(* file 4.  Row 5 is a folder, a file or a collection still to be created.  *)
EXTENDS TreeAccounting, TLC

CONSTANTS u1, u2

Requests == Permutations(Users)

Node(type, parent, path, size, count) ==
    [type |-> type, parent |-> parent, path |-> path, size |-> size,
     count |-> count, deleted |-> FALSE]

OneFile ==
    [n \in Nodes |->
        CASE n = 1 -> Node("ORGANIZATION", None, <<1>>, 1, 2)
          [] n = 2 -> Node("COLLECTION", 1, <<1, 2>>, 1, 2)
          [] n = 3 -> Node("FOLDER", 2, <<1, 2, 3>>, 1, 1)
          [] n = 4 -> Node("FILE", 3, <<1, 2, 3, 4>>, 1, 1)
          [] OTHER -> None]
=============================================================================
