------------------- MODULE MCFilesystemResourceCoordinator -------------------
(***************************************************************************)
(* A small tree for the filesystem coordinator: a directory, a file      *)
(* below it and an unrelated file.                                          *)
(***************************************************************************)
EXTENDS FilesystemResourceCoordinator, TLC

MCPaths == {<<"d">>, <<"d", "f">>, <<"g">>}

Symmetry == Permutations(Operations) \cup Permutations(Roots) \cup Permutations(Spellings)
=============================================================================
