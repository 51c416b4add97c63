---------------------------- MODULE MCFilesView ----------------------------
(* A collection (2) with two folders (3, 4) and a file (5); a file (8) in   *)
(* one of the folders, with the name of the other; a folder (6) and a       *)
(* collection (7) can be created.                                           *)
EXTENDS FilesView

Kinds == <<"ORGANIZATION", "COLLECTION", "FOLDER", "FOLDER", "FILE", "FOLDER",
           "COLLECTION", "FILE">>
Parents == <<1, 1, 2, 2, 2, None, None, 3>>
FirstNames == <<1, 1, 1, 3, 2, 1, 1, 3>>

=============================================================================
