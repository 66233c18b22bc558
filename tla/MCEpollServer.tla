---------------------------- MODULE MCEpollServer ----------------------------
(***************************************************************************)
(* EpollServer for model checking.  The clients are interchangeable: no    *)
(* definition orders or names one.                                         *)
(***************************************************************************)
EXTENDS EpollServer, TLC

ClientSymmetry == Permutations(Clients)

=============================================================================
