--------------------------- MODULE MCArtifactStore ---------------------------
(* Finite instances of ArtifactStore.                                      *)
EXTENDS ArtifactStore, TLC

CONSTANTS p1, p2, p3

\* One inode per descriptor and two names.
Inodes == 1..5
=============================================================================
