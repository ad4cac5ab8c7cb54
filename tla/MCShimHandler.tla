---------------------------- MODULE MCShimHandler -----------------------------
(* Model values for ShimHandler.                                            *)
EXTENDS ShimHandler

CONSTANTS t1, t2

TwoContexts == {t1, t2}
=============================================================================
