--------------------------- MODULE MCBundleStore ---------------------------
(***************************************************************************)
(* Small instances of BundleStore for TLC.                                 *)
(***************************************************************************)
EXTENDS BundleStore, TLC

\* Keys are interchangeable, and contents where none is blank.
KeySymmetry == Permutations(Key)
Symmetry    == KeySymmetry \cup Permutations(Content)
=============================================================================
