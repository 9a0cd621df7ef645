------------------------------ MODULE MCSecondaryStorage ------------------------------
(* A small instance of SecondaryStorage: four calls on one key. *)
EXTENDS SecondaryStorage
===============================================================================
