----------------------------- MODULE MCIndexer -----------------------------
(* Two files in two day folders; the name of one of them cannot be parsed. *)
EXTENDS Indexer

CONSTANTS f1, f2, d1, d2

MCFiles       == {f1, f2}
MCFolders     == {d1, d2}
MCFolderOf    == [f \in MCFiles |-> IF f = f1 THEN d1 ELSE d2]
MCUnparseable == {f2}
=============================================================================
