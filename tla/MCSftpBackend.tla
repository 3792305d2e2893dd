----------------------------- MODULE MCSftpBackend ----------------------------
(***************************************************************************)
(* SftpBackend on a directory d with a file f in it and a file g beside    *)
(* it, any of which may be, or turn into, the other kind, and an excluded  *)
(* file x.                                                                 *)
(***************************************************************************)
EXTENDS SftpBackend

MCParent == [p \in Paths |-> IF p = "f" THEN "d" ELSE "root"]

\* The second version is of another size than the first, and follows it within a second: it
\* is told by its size alone, which what is read while the file changes has too.
MCSize == [c \in 0..MaxChanges + 1 |-> IF c <= 2 THEN c ELSE 2]
MCTime == [v \in 1..MaxChanges |-> v]

MCOnServer ==
  [p \in Paths |-> CASE p = "d" -> {"dir", "file"}
                     [] p = "f" -> {"none", "dir"}
                     [] p = "g" -> {"dir"}
                     [] p = "x" -> {"file"}]
MCAtHome ==
  [p \in Paths |-> CASE p = "d" -> {"dir", "file"}
                     [] p = "f" -> {"none", "file"}
                     [] p \in {"g", "x"} -> {"file"}]
=============================================================================
