------------------------------ MODULE MCRotation ------------------------------
(* A small instance of Rotation, with MCControld's apps, versions and slots. *)
EXTENDS Rotation, MCControld
=============================================================================
