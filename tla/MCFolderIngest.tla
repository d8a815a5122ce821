-------------------------- MODULE MCFolderIngest ---------------------------
(* Instances of FolderIngest for TLC. *)
EXTENDS FolderIngest, TLC

CONSTANTS p1, p2, g1, f1, f2, h1, h2

=============================================================================
