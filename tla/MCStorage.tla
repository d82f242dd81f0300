------------------------------ MODULE MCStorage ------------------------------
(* An instance of Storage for TLC: inodes are interchangeable.              *)
EXTENDS StorageRefinement, TLC

Inodes == Permutations(Inode)
==============================================================================
