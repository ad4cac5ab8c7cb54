--------------------------- MODULE MCChaincodeStub ----------------------------
(* Arguments for model checking ChaincodeStub.                              *)
EXTENDS ChaincodeStub

CONSTANT a

MCKeys == {a}
MCArgs == {MarshalInt64(1), MarshalInt64(-1), NotCanonical}
=============================================================================
