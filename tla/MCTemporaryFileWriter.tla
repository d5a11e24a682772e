------------------------ MODULE MCTemporaryFileWriter ------------------------
(***************************************************************************)
(* Temporary file writers as interchangeable model values.                  *)
(***************************************************************************)
EXTENDS TemporaryFileWriter, TLC

Symmetry == Permutations(Writers)
=============================================================================
