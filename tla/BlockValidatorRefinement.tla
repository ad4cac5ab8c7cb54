----------------------- MODULE BlockValidatorRefinement -----------------------
EXTENDS BlockValidator

(***************************************************************************)
(* The peer's view refines TypedStore: each transaction moves the store    *)
(* from one admissible prefix to the next, and committing the batch does   *)
(* not change what is visible.                                             *)
(***************************************************************************)
Store == INSTANCE TypedStore WITH store <- [k \in AllKeys |-> View(upd, db)[k].value]

RefinesTypedStore == Store!Spec
=============================================================================
