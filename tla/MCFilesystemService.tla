-------------------------- MODULE MCFilesystemService --------------------------
(***************************************************************************)
(* A small tree for the filesystem service: a directory with one file,      *)
(* another file, and a link that gives the directory and what is in it a    *)
(* second name.                                                             *)
(***************************************************************************)
EXTENDS FilesystemService, TLC

MCPaths == {<<>>, <<"d">>, <<"d", "f">>, <<"e">>, <<"l">>, <<"l", "f">>}

LinkedTree == (<<>> :> "directory") @@ (<<"d">> :> "directory") @@ (<<"d", "f">> :> "file")
              @@ (<<"e">> :> "file") @@ (<<"l">> :> "link") @@ (<<"l", "f">> :> "absent")

MCLinkTarget == <<"l">> :> <<"d">>

Symmetry == Permutations(Operations)
=============================================================================
