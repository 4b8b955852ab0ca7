----------------------------- MODULE MCTraverse -----------------------------
(* A root with a file and two subdirectories, one of which has another one;  *)
(* one file matches the exclude pattern, one does not match the include.    *)
EXTENDS Traverse

MCDirs == {"root", "a", "b", "c"}
MCFiles == {"f", "g", "h", "x", "y"}

MCEntries ==
  [d \in MCDirs |->
     CASE d = "root" -> {"a", "b", "f"}
       [] d = "a"    -> {"c", "x"}
       [] d = "b"    -> {"g"}
       [] d = "c"    -> {"h", "y"}]

MCInclude == {"f", "g", "h", "x"}
MCExclude == {"x"}
=============================================================================
