---------------------------- MODULE MCVrptwSolve ----------------------------
(***************************************************************************)
(* The driver over the instances of MCVrptwSplit.  The sweep looks at      *)
(* every rotation of its template, so one template for each sense of       *)
(* rotation, and one that begins elsewhere, stand for all orders by angle. *)
(***************************************************************************)
EXTENDS VrptwSolve, MCVrptwSplit

MCTemplates == {<<1, 2, 3>>, <<3, 2, 1>>, <<2, 3, 1>>}
=============================================================================
