-------------------------- MODULE MCSchemaMigration --------------------------
(* An instance of SchemaMigration for TLC: which releases start. *)
EXTENDS SchemaMigration, TLC

CONSTANTS p1, p2, p3

\* Two processes of the release with V2 and one of the release before.
OldAndNew == p1 :> 2 @@ p2 :> 2 @@ p3 :> 1
=============================================================================
