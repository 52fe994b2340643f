---------------------------- MODULE MCConfigFile ----------------------------
(* Small instances of ConfigFile: configurations of one, three and four    *)
(* blocks, which take several write() calls and several freads.  Inodes    *)
(* are interchangeable; three are enough while saves do not overlap (the   *)
(* file, the temporary file, a replaced file that a reader still has open).*)
EXTENDS ConfigFile, TLC
MCLen == [v \in Versions |-> CASE v = "short" -> 1 [] v = "long" -> 3 [] OTHER -> 4]
InodeSymmetry == Permutations(Inodes)
=============================================================================
