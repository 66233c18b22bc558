----------------------------- MODULE MCIouServer -----------------------------
(***************************************************************************)
(* IouServer for model checking.  The clients are interchangeable: no      *)
(* definition orders or names one.  (The descriptors are not: accept(2)    *)
(* returns the lowest free one.)                                           *)
(***************************************************************************)
EXTENDS IouServer, TLC

ClientSymmetry == Permutations(Clients)

=============================================================================
