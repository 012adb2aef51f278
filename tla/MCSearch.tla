------------------------------ MODULE MCSearch ------------------------------
(***************************************************************************)
(* Two accounts on one device, solo and party searches, two calls suspended *)
(* at once.                                                                 *)
(***************************************************************************)
EXTENDS Search

CONSTANTS x, y

Signed == {x, y}

=============================================================================
