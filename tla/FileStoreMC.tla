------------------------------ MODULE FileStoreMC ------------------------------
(* An instance of FileStore: two processes, three inodes.                  *)
EXTENDS FileStore, TLC

CONSTANTS p1, p2, n1, n2, n3

\* Processes are alike, and so are inode numbers.
Alike == Permutations({p1, p2}) \cup Permutations({n1, n2, n3})
===============================================================================
