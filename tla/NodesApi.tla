------------------------------ MODULE NodesApi ------------------------------
(***************************************************************************)
(* The tree nodes of one organization as the site's pages see them: the    *)
(* rows behind /api/treenodes and /api/collections, and what the view sets *)
(* of vault/rest_api.py do with them.  A request is served in one step.    *)
(*                                                                         *)
(* Ids are numbers, and so are names, in the order of the database.  Rows  *)
(* that are not created yet have no parent.                                *)
(***************************************************************************)
EXTENDS Naturals, Sequences, FiniteSets, SequencesExt, FiniteSetsExt

CONSTANTS
    Nodes,          \* ids of TreeNode rows
    Org,            \* the node of the organization
    Kind,           \* node_type, a function of Nodes
    Names,          \* names of nodes, in their order
    ParentAtFirst,  \* the tree the page finds, a function of Nodes
    NameAtFirst,    \* and its names
    PageSize,       \* childQuery.limit
    None            \* the null value

ASSUME NodesAssumption == /\ Nodes \subseteq Nat /\ IsFiniteSet(Nodes)
                          /\ Org \in Nodes /\ None \notin Nodes
ASSUME KindAssumption == Kind \in [Nodes -> {"ORGANIZATION", "COLLECTION",
                                             "FOLDER", "FILE"}]
ASSUME NamesAssumption == Names \subseteq Nat /\ None \notin Names

(* The parents par make a tree below the organization: whoever is a parent  *)
(* is there, and there are no cycles (the root aside).                      *)
IsTree(par) ==
    /\ par[Org] # None
    /\ \A n \in Nodes : par[n] # None => par[par[n]] # None
    /\ \A S \in SUBSET (Nodes \ {Org}) : S # {} => \E n \in S : par[n] \notin S

ASSUME TreeAssumption == /\ ParentAtFirst \in [Nodes -> Nodes \cup {None}]
                         /\ NameAtFirst \in [Nodes -> Names]
                         /\ IsTree(ParentAtFirst)
(* Only the organization is a valid parent of a collection.                 *)
ASSUME CollectionsAssumption ==
    \A n \in Nodes : Kind[n] = "COLLECTION" => ParentAtFirst[n] \in {Org, None}
(* (parent, name) is unique.                                                *)
UniqueNames(par, nam) ==
    \A m, n \in Nodes \ {Org} :
        m # n /\ par[m] = par[n] /\ par[m] # None => nam[m] # nam[n]
ASSUME UniqueAssumption == UniqueNames(ParentAtFirst, NameAtFirst)
ASSUME PageAssumption == PageSize \in Nat \ {0}

VARIABLES
    parent,   \* parent of each node (the organization is its own)
    name,     \* its name
    deleted   \* nodes that are soft-deleted

api == <<parent, name, deleted>>

ApiTypeOK ==
    /\ parent \in [Nodes -> Nodes \cup {None}]
    /\ name \in [Nodes -> Names]
    /\ deleted \subseteq Nodes

ApiInit ==
    /\ parent = ParentAtFirst
    /\ name = NameAtFirst
    /\ deleted = {}

Exists(n) == parent[n] # None /\ n \notin deleted

(* The path column: the ids from below the organization down to the node.   *)
PathOf[n \in Nodes] ==
    IF n = Org \/ parent[n] = None THEN <<>> ELSE Append(PathOf[parent[n]], n)

Below(n) == {m \in Nodes : n \in Range(PathOf[m])}

Object == [id : Nodes, name : Names]    \* a node as JSON

(* childQuery.ordering, -node_type,name; the id settles what is left.       *)
TypeRank == [ORGANIZATION |-> 0, FOLDER |-> 1, FILE |-> 2, COLLECTION |-> 3]
Precedes(m, n) ==
    \/ TypeRank[Kind[m]] < TypeRank[Kind[n]]
    \/ /\ Kind[m] = Kind[n]
       /\ name[m] < name[n] \/ (name[m] = name[n] /\ m < n)

(* ORDER BY: a set of ids as a sequence.                                    *)
Ordered(ids) ==
    [i \in 1..Cardinality(ids) |->
        CHOOSE n \in ids : Cardinality({m \in ids : Precedes(m, n)}) = i - 1]

(* GET ?parent=d&limit=..&offset=from: a page of the children, and the      *)
(* "next" link, whose offset is 0 here if there is none.                    *)
Page(d, from) ==
    LET ids == Ordered({n \in Nodes \ {Org} : Exists(n) /\ parent[n] = d})
        all == [i \in DOMAIN ids |-> [id |-> ids[i], name |-> name[ids[i]]]]
    IN  [results |-> SubSeq(all, from + 1, Min({from + PageSize, Len(all)})),
         next |-> [of |-> d,
                   from |-> IF from + PageSize < Len(all) THEN from + PageSize
                                                          ELSE 0]]

(* (parent, name) is unique, deleted rows included: 409 otherwise.          *)
Taken(d, nm) == \E n \in Nodes \ {Org} : parent[n] = d /\ name[n] = nm

(* POST: a folder below d, or a collection below the organization.          *)
Spare(kind) == {n \in Nodes : parent[n] = None /\ Kind[n] = kind}
MayCreate(d, kind, nm) == nm \in Names /\ Exists(d) /\ ~Taken(d, nm) /\ Spare(kind) # {}
Create(d, kind, nm) ==
    LET n == Min(Spare(kind))
    IN  /\ parent' = [parent EXCEPT ![n] = d]
        /\ name' = [name EXCEPT ![n] = nm]
        /\ UNCHANGED deleted

(* PATCH of the name, PATCH of the parent, DELETE of the nodes of a set.    *)
MayRename(n, nm) == nm \in Names /\ Exists(n) /\ (name[n] = nm \/ ~Taken(parent[n], nm))
Rename(n, nm) == name' = [name EXCEPT ![n] = nm] /\ UNCHANGED <<parent, deleted>>

(* Below itself a node cannot go: the triggers on the path recurse until    *)
(* PostgreSQL gives up.                                                     *)
MayMove(n, d) == /\ Exists(n) /\ Exists(d)
                 /\ parent[n] = d \/ ~Taken(d, name[n])
                 /\ d \notin Below(n)
Move(ns, d) ==
    /\ parent' = [n \in Nodes |-> IF n \in ns THEN d ELSE parent[n]]
    /\ UNCHANGED <<name, deleted>>

Delete(ns) ==
    /\ deleted' = deleted \cup UNION {Below(n) : n \in ns}
    /\ UNCHANGED <<parent, name>>

=============================================================================
