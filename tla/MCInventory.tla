---------------------------- MODULE MCInventory -----------------------------
(***************************************************************************)
(* Two concurrent requests on one product in two warehouses.               *)
(***************************************************************************)
EXTENDS Inventory, TLC

CONSTANTS c1, c2, a, b
=============================================================================
