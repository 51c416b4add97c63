-------------------------- MODULE MCWarningDeposit --------------------------
(***************************************************************************)
(* The answer of WarningDeposit to every set of the paths below in every   *)
(* tree.  The paths are in five folders, three levels deep, of equal names *)
(* in several places, and one whose name sorts before the slash.           *)
(***************************************************************************)
EXTENDS WarningDeposit

Places == <<<<>>, <<-1>>, <<1>>, <<1, 1>>, <<1, 2>>, <<1, 2, 1>>, <<2>>>>
MCPaths == DOMAIN Places
MCFolder == [p \in MCPaths |-> Places[p]]
MCName == [p \in MCPaths |-> 3]

Folders == {Places[p] : p \in MCPaths} \ {<<>>}
Files == {NodeOf(p) : p \in MCPaths}
Trees == {t \in SUBSET (Folders \cup Files) :
             \A n \in t : Len(n) > 1 => Front(n) \in t}

Init == tree \in Trees /\ asking = {}

Next == /\ \E p \in Paths \ asking : asking' = asking \cup {p}
        /\ UNCHANGED tree

Spec == Init /\ [][Next]_<<tree, asking>>

=============================================================================
