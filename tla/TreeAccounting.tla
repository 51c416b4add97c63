--------------------------- MODULE TreeAccounting ---------------------------
(***************************************************************************)
(* The table vault_treenode: the paths, sizes and counts its triggers keep *)
(* (migrations 0033, 0036, sql/triggers.sql), under everything that writes *)
(* it: requests of users, the two daemons, the command that recalculates.  *)
(*                                                                         *)
(* An UPDATE of the ORM is Model.save(): every column of a row read before *)
(* is written, path, size, file_count and deleted, too.  A statement with  *)
(* its triggers is one step; one that raises changes nothing.  A path is   *)
(* the sequence of its ids.  Names are left out: where a name is taken     *)
(* already, the statement raises, and nothing is done here (Drop).         *)
(***************************************************************************)
EXTENDS Integers, Sequences, FiniteSets, SequencesExt, FiniteSetsExt

CONSTANTS
    Nodes,      \* ids
    Users,      \* requests served at the same time
    Tree,       \* the table at first, a function of Nodes
    Sizes,      \* sizes of files
    IntMax,     \* largest int of PostgreSQL; sizes are of type bigint
    MaxWrites,  \* bound on saves, deletions and recalculations
    MaxHeld,    \* bound on the instances in memory at the same time
    None        \* no row, no parent, nothing held

Containers == {"ORGANIZATION", "COLLECTION", "FOLDER"}
Counted == {"FILE", "FOLDER"}         \* the types the triggers are for
RowOf(Number) ==
    [type : Containers \cup {"FILE"}, parent : Nodes \cup {None},
     path : Seq(Nodes), size : Number, count : Number, deleted : BOOLEAN]
Row == RowOf(Nat)
Instance == [id : Nodes, was : Row]   \* a row as it was read

ASSUME NodesAssumption == Nodes \subseteq Nat /\ IsFiniteSet(Nodes)
ASSUME NoneAssumption == None \notin Nodes \cup RowOf(Int) \cup Instance
ASSUME SizesAssumption == Sizes \subseteq Nat /\ IntMax \in Nat
ASSUME BoundsAssumption == MaxWrites \in Nat /\ MaxHeld \in Nat

Actors == Users \cup {"chunked", "hashed"}    \* and the two daemons

VARIABLES
    row,      \* the table
    held,     \* the instance each actor has in memory: [id, was]
    broken,   \* what a stale or partial write has made wrong so far:
              \* "path", "sums" (size), "counts" (file_count)
    writes    \* saves, deletions and recalculations so far

vars == <<row, held, broken, writes>>

-----------------------------------------------------------------------------
(* Tables.                                                                  *)

Ids(t) == {n \in DOMAIN t : t[n] # None}
Undeleted(t) == {n \in Ids(t) : ~t[n].deleted}
Above(t, p) == {n \in Ids(t) : IsPrefix(t[n].path, p)}              \* path @> p
Below(t, p) == {n \in Ids(t) : IsPrefix(p, t[n].path)}              \* path <@ p
Under(t, n) == Below(t, t[n].path) \ {n}
SumOf(t, ns) == MapThenSumSet(LAMBDA n : t[n].size, ns)
Of(t, types) == {n \in Ids(t) : t[n].type \in types}

Add(t, ns, count, size) ==
    [n \in DOMAIN t |-> IF n \in ns
        THEN [t[n] EXCEPT !.count = @ + count, !.size = @ + size] ELSE t[n]]

(* The columns are PositiveBigIntegerFields: CHECK (size >= 0).             *)
Checked(t) == \A n \in Ids(t) : t[n].size >= 0 /\ t[n].count >= 0

ValidParents(type) ==
    CASE type = "ORGANIZATION" -> {} [] type = "COLLECTION" -> {"ORGANIZATION"}
      [] OTHER -> {"COLLECTION", "FOLDER"}

(* treenode_presave_handler; None is the parent of an organization.         *)
ValidParent(t, type, p) ==
    IF type = "ORGANIZATION" THEN p = None
    ELSE p \in Ids(t) /\ t[p].type \in ValidParents(type)

(* The path column says what the parents say.                               *)
PathsRight(t) ==
    \A n \in Ids(t) : t[n].path =
        IF t[n].parent = None THEN <<n>> ELSE Append(t[t[n].parent].path, n)

(* The size of a container is that of the files below it, its file_count    *)
(* is that of the files and the folders below it.                           *)
SizesRight(t) ==
    \A n \in Of(t, Containers) :
        t[n].size = SumOf(t, Under(t, n) \cap Undeleted(t) \cap Of(t, {"FILE"}))
CountsRight(t) ==
    \A n \in Of(t, Containers) :
        t[n].count = Cardinality(Under(t, n) \cap Undeleted(t) \cap Of(t, Counted))

(* The tree of one organization: no request looks up a node of another, or  *)
(* a parent there (rest_api.py:591).                                        *)
ASSUME TreeAssumption ==
    /\ Tree \in [Nodes -> Row \cup {None}]
    /\ \A n, m \in Of(Tree, {"ORGANIZATION"}) : n = m
    /\ \A n \in Ids(Tree) : ValidParent(Tree, Tree[n].type, Tree[n].parent)
    /\ \A n \in Of(Tree, {"FILE"}) : Tree[n].count = 1
    /\ PathsRight(Tree) /\ SizesRight(Tree) /\ CountsRight(Tree)

Init ==
    /\ row = Tree
    /\ held = [a \in Actors |-> None]
    /\ broken = {}
    /\ writes = 0

-----------------------------------------------------------------------------
(* INSERT.                                                                  *)

\* Mutant: treenode_set_new_file_count is missing.
FileCountDefault(type) == 0

FileCount(type) == IF type = "FILE" THEN 1 ELSE 0

Inserted(n, type, p, size) ==
    LET t == [row EXCEPT ![n] =
                [type |-> type, parent |-> p, path |-> Append(row[p].path, n),
                 size |-> size, count |-> FileCount(type), deleted |-> FALSE]]
    IN  IF type \in Counted THEN Add(t, Above(t, row[p].path), 1, size) ELSE t

(* POST of a folder or a collection, and get_or_create of the daemon; the   *)
(* parent was looked up before and may be deleted by now.                   *)
Create(type, p, size) ==
    /\ type = "FILE" => held["chunked"] = None
    /\ type # "FILE" => size = 0
    /\ ValidParent(row, type, p)
    /\ Nodes \ Ids(row) # {}
    /\ row' = Inserted(Min(Nodes \ Ids(row)), type, p, size)
    /\ UNCHANGED <<held, broken, writes>>

-----------------------------------------------------------------------------
(* UPDATE of one row n, old, to w.                                          *)

(* treenode_path_update_trg.                                                *)
WithPath(n, old, new) ==
    IF old.parent = new.parent THEN new
    ELSE [new EXCEPT !.path = Append(row[new.parent].path, n)]

(* treenode_file_accounting_update_trg.                                     *)
Raises(old, w) ==
    /\ w.type \in Counted
    /\ \/ old.deleted # w.deleted /\ w.size > IntMax
       \/ old.deleted # w.deleted /\ old.parent # w.parent
       \/ old.deleted # w.deleted /\ old.size # w.size
       \/ old.parent # w.parent /\ old.size # w.size
       \/ old.size # w.size /\ w.type # "FILE"

\* Mutant: the folder itself does not move with what is below it.
MovedCountInside(old) == old.count

MovedCount(old) == IF old.type = "FOLDER" THEN old.count + 1 ELSE old.count

OldLess(t, n, old) ==
    Add(t, Above(t, t[old.parent].path) \ {n}, -MovedCount(old), -old.size)

\* Mutant: the old size stays in the sums.
AccountedTwice(t, n, old, w) ==
    IF w.type \notin Counted THEN t
    ELSE IF old.deleted # w.deleted
      THEN LET sign == IF w.deleted THEN -1 ELSE 1
           IN  Add(t, Above(t, w.path) \ {n}, sign,
                   IF w.type = "FILE" THEN sign * w.size ELSE 0)
    ELSE IF old.parent # w.parent
      THEN LET less == OldLess(t, n, old)
           IN  Add(less, Above(t, t[w.parent].path) \ {n}, MovedCount(old), w.size)
    ELSE Add(t, Above(t, w.path) \ {n}, 0, IF w.size = old.size THEN 0 ELSE w.size)

Accounted(t, n, old, w) ==
    IF w.type \notin Counted THEN t
    ELSE IF old.deleted # w.deleted
      THEN LET sign == IF w.deleted THEN -1 ELSE 1
           IN  Add(t, Above(t, w.path) \ {n}, sign,
                   IF w.type = "FILE" THEN sign * w.size ELSE 0)
    ELSE IF old.parent # w.parent
      THEN LET less == OldLess(t, n, old)
           IN  Add(less, Above(t, t[w.parent].path) \ {n}, MovedCount(old), w.size)
    ELSE Add(t, Above(t, w.path) \ {n}, 0, w.size - old.size)

\* Mutant: the nodes below keep their paths.
RepathedAlone(t, n, old, w) == t

(* treenode_path_after_trg, which comes after it by name.                   *)
Repathed(t, n, old, w) ==
    [m \in DOMAIN t |-> IF t[m] # None /\ m # n /\ IsPrefix(old.path, t[m].path)
        THEN [t[m] EXCEPT !.path = w.path \o SubSeq(@, Len(old.path) + 1, Len(@))]
        ELSE t[m]]

(* Below itself a node's path has no end: the path triggers recurse until   *)
(* PostgreSQL gives up.                                                     *)
Endless(n, w) == n \in Range(Front(w.path))

Updated(n, new) ==
    LET old == row[n]
        w == WithPath(n, old, new)
        t == [row EXCEPT ![n] = w]
        moved == /\ old.deleted = w.deleted
                 /\ old.parent # w.parent
                 /\ w.type \in Counted
        done == Repathed(Accounted(t, n, old, w), n, old, w)
    IN  IF \/ Raises(old, w) \/ Endless(n, w) \/ ~Checked(done)
           \/ moved /\ ~Checked(OldLess(t, n, old))
          THEN row ELSE done

-----------------------------------------------------------------------------
(* Actors: an instance is read, and what is saved is that, but for a field. *)

(* The manager hides deleted rows; the foreign key of a DepositFile, by     *)
(* which process_hashed_files comes to the node, does not.                  *)
Get(a, n) ==
    /\ held[a] = None
    /\ Cardinality({b \in Actors : held[b] # None}) < MaxHeld
    /\ a \in Users => n \in Undeleted(row)
    /\ a = "chunked" => n \in Undeleted(row) \cap Of(row, {"FILE"})
    /\ a = "hashed" => n \in Of(row, {"FILE"})
    /\ held' = [held EXCEPT ![a] = [id |-> n, was |-> row[n]]]
    /\ UNCHANGED <<row, broken, writes>>

(* What writing new over a row that may have changed since it was read      *)
(* breaks: a path that a move above it made, or what its triggers summed;   *)
(* they take a deleted node out of its parents' sums once more if its       *)
(* parent or its size is another one (migration 0033:102-156).              *)
Breaks(n, new) ==
    IF Updated(n, new) = row THEN {}
    ELSE (IF new.parent = row[n].parent /\ new.path # row[n].path
            THEN {"path"} ELSE {})
         \cup
         (IF \/ new.type # "FILE" /\ <<new.size, new.count, new.deleted>>
                               # <<row[n].size, row[n].count, row[n].deleted>>
             \/ /\ new.deleted /\ row[n].deleted
                /\ <<new.parent, new.size>> # <<row[n].parent, row[n].size>>
            THEN {"sums", "counts"} ELSE {})

Save(a, new) ==
    /\ held[a] # None /\ writes < MaxWrites
    /\ row' = Updated(held[a].id, new)
    /\ broken' = broken \cup Breaks(held[a].id, new)
    /\ held' = [held EXCEPT ![a] = None]
    /\ writes' = writes + 1

(* A PATCH of the name, of a Collection, too (models.py:602).               *)
Rename(u) == held[u] # None /\ Save(u, held[u].was)

(* A PATCH of the parent, which was looked up before.                       *)
Move(u, p) ==
    /\ held[u] # None
    /\ ValidParent(row, held[u].was.type, p)
    /\ Save(u, [held[u].was EXCEPT !.parent = p])

(* process_chunked_files replaces a file.                                   *)
Replace(size) ==
    /\ held["chunked"] # None
    /\ Save("chunked", [held["chunked"].was EXCEPT !.size = size])

(* process_hashed_files sets pbox_path after an upload of minutes.          *)
Stored == held["hashed"] # None /\ Save("hashed", held["hashed"].was)

\* Mutant: only the children.
DoomedChildren(was) ==
    {n \in Below(row, was.path) \cap Undeleted(row) :
        Len(row[n].path) <= Len(was.path) + 1}

(* TreeNode.delete(): one UPDATE of the rows below the path as read.        *)
Doomed(was) == Below(row, was.path) \cap Undeleted(row)

Deleted(ds) ==
    LET t == [n \in DOMAIN row |-> IF n \in ds THEN [row[n] EXCEPT !.deleted = TRUE]
                                               ELSE row[n]]
        done == [n \in DOMAIN t |-> IF t[n] = None THEN None ELSE
                   LET gone == Under(t, n) \cap ds \cap Of(t, Counted)
                   IN  [t[n] EXCEPT !.count = @ - Cardinality(gone),
                                    !.size = @ - SumOf(t, gone \cap Of(t, {"FILE"}))]]
    IN  IF \/ \E n \in ds : row[n].type \in Counted /\ row[n].size > IntMax
           \/ ~Checked(done)
          THEN row ELSE done

Delete(u) ==
    /\ held[u] # None /\ writes < MaxWrites
    /\ row' = IF held[u].was.type \in Counted THEN Deleted(Doomed(held[u].was)) ELSE row
    /\ held' = [held EXCEPT ![u] = None]
    /\ writes' = writes + 1
    /\ UNCHANGED broken

(* Nothing comes of it: a name is taken, an upload is refused, a crash.     *)
Drop(a) ==
    /\ held[a] # None
    /\ held' = [held EXCEPT ![a] = None]
    /\ UNCHANGED <<row, broken, writes>>

-----------------------------------------------------------------------------
(* recalculate_treenode_accounting: one walk over the undeleted rows in the *)
(* order of their paths, with a stack of the containers it is in.           *)

Before(p, q) ==
    \E i \in DOMAIN q : /\ \A j \in 1 .. i - 1 : j \in DOMAIN p /\ p[j] = q[j]
                        /\ i > Len(p) \/ p[i] < q[i]

Walk ==
    [i \in 1 .. Cardinality(Undeleted(row)) |->
        CHOOSE n \in Undeleted(row) :
            Cardinality({m \in Undeleted(row) : Before(row[m].path, row[n].path)}) = i - 1]

IsParentOf(p, q) == Len(q) = Len(p) + 1 /\ IsPrefix(p, q)

(* Containers above p that the next path q is not in, the lowest first.     *)
Exhausted(p, q) ==
    LET out(s, i) == IF i <= Len(q) /\ q[i] = p[i] THEN s ELSE <<p[i]>> \o s
    IN  FoldLeft(out, <<>>, [i \in 1 .. Len(p) - 1 |-> i])

(* The walk: sums of the containers on the stack, values to be written, and *)
(* whether its assertions held.                                             *)
Tally(s, size, count) ==
    [s EXCEPT !.stack[Len(s.stack)].size = @ + size,
              !.stack[Len(s.stack)].count = @ + count]

IsOnTop(s, n) == s.stack # <<>> /\ Last(s.stack).id = n

Emit(s, n, size, count) ==
    [s EXCEPT !.out = [m \in DOMAIN s.out \cup {n} |->
        IF m = n THEN [size |-> size, count |-> count] ELSE s.out[m]]]

Visit(s, n, q) ==
    IF row[n].type # "FILE"
      THEN IF IsParentOf(row[n].path, q)
             THEN [s EXCEPT !.stack = Append(@, [id |-> n, size |-> 0, count |-> 0])]
             ELSE Emit(s, n, 0, 0)
      ELSE IF IsOnTop(s, row[n].parent) THEN Tally(s, row[n].size, 1)
                                        ELSE [s EXCEPT !.ok = FALSE]

\* Mutants: a container's size / the container itself is not handed on.
PopSize(s, n) ==
    IF ~s.ok \/ ~IsOnTop(s, n) THEN [s EXCEPT !.ok = FALSE]
    ELSE LET top == Last(s.stack)
             rest == Emit([s EXCEPT !.stack = Front(@)], n, top.size, top.count)
         IN  IF rest.stack = <<>> THEN rest ELSE Tally(rest, 0, top.count + 1)

PopInside(s, n) ==
    IF ~s.ok \/ ~IsOnTop(s, n) THEN [s EXCEPT !.ok = FALSE]
    ELSE LET top == Last(s.stack)
             rest == Emit([s EXCEPT !.stack = Front(@)], n, top.size, top.count)
         IN  IF rest.stack = <<>> THEN rest ELSE Tally(rest, top.size, top.count)

Pop(s, n) ==
    IF ~s.ok \/ ~IsOnTop(s, n) THEN [s EXCEPT !.ok = FALSE]
    ELSE LET top == Last(s.stack)
             rest == Emit([s EXCEPT !.stack = Front(@)], n, top.size, top.count)
         IN  IF rest.stack = <<>> THEN rest
             ELSE Tally(rest, top.size, top.count + 1)

WalkedRow(walk, s, i) ==
    LET p == row[walk[i]].path
        q == IF i < Len(walk) THEN row[walk[i + 1]].path ELSE <<>>
    IN  IF s.ok THEN FoldLeft(Pop, Visit(s, walk[i], q), Exhausted(p, q)) ELSE s

Calculated ==
    LET walk == Walk
        step(s, i) == WalkedRow(walk, s, i)
    IN  FoldLeft(step, [stack |-> <<>>, out |-> <<>>, ok |-> TRUE],
                 [i \in 1 .. Len(walk) |-> i])

Recalculated(out) ==
    [n \in DOMAIN row |-> IF n \in DOMAIN out
        THEN [row[n] EXCEPT !.size = out[n].size, !.count = out[n].count] ELSE row[n]]

(* DISABLE TRIGGER locks the table: writers wait.  Where an assertion fails *)
(* the finally clause commits what was written until then.  Deleted folders *)
(* keep the sums they have.                                                 *)
Recalculate ==
    /\ writes < MaxWrites
    /\ writes' = writes + 1
    /\ LET calculated == Calculated
           all == Of(row, Containers) \subseteq Undeleted(row)
       IN  /\ row' = Recalculated(calculated.out)
           /\ broken' = {"counts"} \cup
                IF ~calculated.ok THEN broken \cup {"sums"}
                ELSE IF all THEN broken \ {"sums"} ELSE broken
    /\ UNCHANGED held

DryRun ==
    /\ writes < MaxWrites
    /\ LET calculated == Calculated
       IN  ~calculated.ok /\ row' = Recalculated(calculated.out)
    /\ broken' = broken \cup {"sums", "counts"}
    /\ writes' = writes + 1
    /\ UNCHANGED held

Next ==
    \/ \E p \in Ids(row), size \in Sizes \cup {0}, type \in Containers \cup {"FILE"} :
          Create(type, p, size)
    \/ \E a \in Actors, n \in Ids(row) : Get(a, n)
    \/ \E a \in Actors : Drop(a)
    \/ \E u \in Users : Rename(u) \/ Delete(u)
    \/ \E u \in Users, p \in Ids(row) : Move(u, p)
    \/ \E size \in Sizes : Replace(size)
    \/ Stored \/ Recalculate \/ DryRun

Spec == Init /\ [][Next]_vars

-----------------------------------------------------------------------------
(* The columns keep their types, and the file_count of a file is 1.         *)
TypeOK ==
    /\ row \in [Nodes -> Row \cup {None}]
    /\ \A n \in Of(row, {"FILE"}) : row[n].count = 1
    /\ held \in [Actors -> Instance \cup {None}]
    /\ broken \subseteq {"path", "sums", "counts"}
    /\ writes \in 0 .. MaxWrites

(* The path column says what the parents say, whatever was moved, unless a  *)
(* node was saved by someone who read it before a folder above it moved.    *)
PathFollowsParent ==
    "path" \notin broken => PathsRight(row)

(* The size of a container is that of the files below it, through every     *)
(* insertion, replacement, move, deletion and undeletion (models.py:391),   *)
(* unless a container was saved by someone who read it before it changed,   *)
(* or a deleted file by someone who read it when it was deleted before.     *)
SizesExact ==
    broken \cap {"path", "sums"} = {} => SizesRight(row)

(* Its file_count is that of the files and the folders below it, likewise,  *)
(* as long as nothing was recalculated.                                     *)
CountsExact ==
    broken = {} => CountsRight(row)

(* No undeleted node is below a deleted one: the daemons and a late parent  *)
(* can put one there, and a late save undelete one.                         *)
NoOrphans ==
    \A n \in Undeleted(row), m \in Ids(row) \ Undeleted(row) : n \notin Under(row, m)

Empty(n) == Under(row, n) \cap Undeleted(row) = {}

(* Recalculating is right: it goes through where no node is orphaned, and   *)
(* if it does, it writes the sizes of what is below, whatever late saves    *)
(* have made of them (the paths must be right).                             *)
RecalculationRepairs ==
    "path" \notin broken =>
      LET calculated == Calculated
      IN  /\ NoOrphans => calculated.ok
          /\ calculated.ok =>
               \A n \in Undeleted(row) \cap Of(row, Containers) :
                  /\ n \in DOMAIN calculated.out
                  /\ calculated.out[n].size =
                       SumOf(row, Under(row, n) \cap Undeleted(row) \cap Of(row, {"FILE"}))

(* The walk of the command and the triggers have no code in common.  Their  *)
(* counts differ by the empty folders, which the walk does not count, and   *)
(* by the collections, which only it counts (lines 113 and 137), and by     *)
(* nothing else.                                                            *)
RecalculationAgrees ==
    broken = {} /\ NoOrphans =>
      LET calculated == Calculated
      IN  \A n \in Undeleted(row) \cap Of(row, Containers) :
            LET in == Under(row, n) \cap Undeleted(row)
            IN  calculated.out[n].count =
                  row[n].count
                    - Cardinality({m \in in \cap Of(row, {"FOLDER"}) : Empty(m)})
                    + Cardinality({m \in in \cap Of(row, {"COLLECTION"}) : ~Empty(m)})

(* A deletion that finds the node as it was read marks what is below it by  *)
(* parents, and nothing else; all of it, if no size is above IntMax (the    *)
(* trigger computes with int, migration 0033:60) and no count was           *)
(* recalculated (an empty folder would make it negative).                   *)
Lineage[n \in Ids(row)] ==
    IF row[n].parent = None THEN {n} ELSE {n} \cup Lineage[row[n].parent]

DeletesAsAsked ==
    [][\A u \in Users :
        LET n == held[u].id
            family == {m \in Undeleted(row) : n \in Lineage[m]}
        IN  broken = {} /\ held[u] # None /\ held'[u] = None
            /\ row[n] = held[u].was /\ Delete(u) =>
              \/ Undeleted(row) \ Undeleted(row') = family
              \/ row' = row /\ \/ row[n].type \notin Counted
                               \/ \E m \in family : row[m].size > IntMax]_vars

(* The help text of the command: "The default is dry-run, which is          *)
(* guaranteed to be read-only."                                             *)
DryRunIsReadOnly == [][DryRun => row' = row]_vars
=============================================================================
