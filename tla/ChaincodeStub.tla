---------------------------- MODULE ChaincodeStub -----------------------------
(***************************************************************************)
(* The simulation of one transaction through shim/stub.go: what a          *)
(* ChaincodeStub lets the chaincode read, write and add as deltas.  The    *)
(* chaincode may invoke another one, which gets a stub of its own; both    *)
(* write into the transaction's one read/write set at the peer.            *)
(*                                                                         *)
(* Beside each stub runs the Stub of fabric-core/endorse.go, given the     *)
(* same calls on the same keys.                                            *)
(*                                                                         *)
(* What the chaincode puts into a delta is known by where it comes from:   *)
(* "inputs" of the proposal, "args" that the invoking chaincode computed   *)
(* from state, or state that this invocation has "read".                   *)
(***************************************************************************)
EXTENDS TypedDeltaHooks

CONSTANTS Args,             \* the arguments tried for PutDelta, byte strings
          MaxInvocations    \* bound: invocations in the transaction

VARIABLES stack,     \* the invocations under way, the running one last
          count,     \* invocations so far
          sent,      \* the writes the peer accepted
          verdict    \* what the two stubs made of the last call

vars == <<stack, count, sent, verdict>>

\* The stub of the running invocation.
Top == stack[Len(stack)]

\* The schema the chaincode was written for.
TypeId        == "int"
SchemaVersion == "v1"

-----------------------------------------------------------------------------
(***************************************************************************)
(* fabric-core/endorse.go: NewStub("int", "v1", OpAdd, OpSub).             *)
(***************************************************************************)
NewStub == [didRead |-> FALSE, plainKeys |-> {}, deltaKeys |-> {}]

BuildDescriptor(typeID, action, amount, schemaVersion) ==
    IF amount < 0 \/ action \notin {OpAdd, OpSub} THEN Err
    ELSE [typeId |-> typeID, version |-> schemaVersion, op |-> action, arg |-> MarshalInt64(amount)]

EndorseRead(s) == [s EXCEPT !.didRead = TRUE]

\* The stub after PutState, and the stub after PutDelta with its descriptor.
EndorsePutState(s, k) == IF k \in s.deltaKeys THEN s ELSE [s EXCEPT !.plainKeys = @ \cup {k}]

EndorseDescriptor(s, k, op, arg) ==
    IF s.didRead \/ k \in s.plainKeys \/ op \notin {OpAdd, OpSub} THEN Err
    ELSE BuildDescriptor(TypeId, op, arg, SchemaVersion)

EndorsePutDelta(s, k, op, arg) ==
    IF EndorseDescriptor(s, k, op, arg) = Err THEN s ELSE [s EXCEPT !.deltaKeys = @ \cup {k}]

-----------------------------------------------------------------------------
(***************************************************************************)
(* shim/stub.go.                                                           *)
(***************************************************************************)
newChaincodeStub(ns, no, tainted) ==
    [ns |-> ns, no |-> no, tainted |-> tainted, knows |-> FALSE,
     didRead |-> FALSE, plainKeys |-> {}, deltaKeys |-> {}, ref |-> NewStub]

\* Mutant: the sign of the argument is not checked.
buildShimDeltaSigned(typeID, action, bytes, schemaVersion) ==
    IF action \notin {OpAdd, OpSub} \/ UnmarshalInt64(bytes) = Err THEN Err
    ELSE [typeId |-> typeID, version |-> schemaVersion, op |-> action, arg |-> bytes]

buildShimDelta(typeID, action, bytes, schemaVersion) ==
    LET n == UnmarshalInt64(bytes)
    IN  IF action \notin {OpAdd, OpSub} THEN Err
        ELSE IF n = Err THEN Err
        ELSE IF n < 0 THEN Err
        ELSE [typeId |-> typeID, version |-> schemaVersion, op |-> action, arg |-> bytes]

Init == /\ count = 1
        /\ stack = <<newChaincodeStub("caller", 1, FALSE)>>
        /\ sent = {}
        /\ verdict = <<TRUE, TRUE>>

Update(s) == stack' = [stack EXCEPT ![Len(stack)] = s]

\* Every read API sets didRead before anything else, whatever the peer answers.
Reads == /\ Update([Top EXCEPT !.didRead = TRUE, !.knows = TRUE, !.ref = EndorseRead(@)])
         /\ verdict' = <<TRUE, TRUE>>
         /\ UNCHANGED <<count, sent>>

\* Mutant: the API reads without setting didRead.
ReadsUnseen == /\ Update([Top EXCEPT !.knows = TRUE, !.ref = EndorseRead(@)])
               /\ verdict' = <<TRUE, TRUE>>
               /\ UNCHANGED <<count, sent>>

GetState                                    == Reads
GetStateValidationParameter                 == Reads
GetQueryResult                              == Reads
GetPrivateData                              == Reads
GetPrivateDataHash                          == Reads
GetPrivateDataByRange                       == Reads
GetPrivateDataByPartialCompositeKey         == Reads
GetPrivateDataQueryResult                   == Reads
GetPrivateDataValidationParameter           == Reads
GetStateByRange                             == Reads
GetHistoryForKey                            == Reads
GetStateByPartialCompositeKey               == Reads
GetStateByRangeWithPagination               == Reads
GetStateByPartialCompositeKeyWithPagination == Reads
GetQueryResultWithPagination                == Reads

AnyRead ==
    \/ GetState \/ GetStateByRange \/ GetStateByRangeWithPagination
    \/ GetStateByPartialCompositeKey \/ GetStateByPartialCompositeKeyWithPagination
    \/ GetQueryResult \/ GetQueryResultWithPagination
    \/ GetHistoryForKey \/ GetStateValidationParameter
    \/ GetPrivateData \/ GetPrivateDataHash \/ GetPrivateDataByRange
    \/ GetPrivateDataByPartialCompositeKey \/ GetPrivateDataQueryResult
    \/ GetPrivateDataValidationParameter

\* The write is refused here, or marked and sent; the peer may still answer ERROR.
Send(k, kind, delta, source, answered) ==
    sent' = IF answered
            THEN sent \cup {[ns |-> Top.ns, no |-> Top.no, key |-> k, kind |-> kind,
                             delta |-> delta, source |-> source]}
            ELSE sent

\* Mutant: the key is not marked.
PutStateUnmarked(k, answered) ==
    LET ok == k \notin Top.deltaKeys
    IN  /\ Update([Top EXCEPT !.ref = EndorsePutState(@, k)])
        /\ Send(k, "plain", NoDelta, "inputs", ok /\ answered)
        /\ verdict' = <<ok, k \notin Top.ref.deltaKeys>>
        /\ UNCHANGED count

PutState(k, answered) ==
    LET ok == k \notin Top.deltaKeys
    IN  /\ Update([Top EXCEPT !.plainKeys = IF ok THEN @ \cup {k} ELSE @,
                              !.ref = EndorsePutState(@, k)])
        /\ Send(k, "plain", NoDelta, "inputs", ok /\ answered)
        /\ verdict' = <<ok, k \notin Top.ref.deltaKeys>>
        /\ UNCHANGED count

\* DelState marks the key as PutState does.
DelState(k, answered) == PutState(k, answered)

\* What PutDelta sends, or Err.
ShimDescriptor(s, k, op, arg) ==
    IF s.didRead \/ k \in s.plainKeys THEN Err
    ELSE buildShimDelta(TypeId, op, arg, SchemaVersion)

\* Mutant: the error of buildShimDelta is not looked at.
shimPutDeltaUnchecked(k, op, arg, source, answered) ==
    LET delta == ShimDescriptor(Top, k, op, arg)
    IN  /\ source = "args" => Top.tainted
        /\ source = "read" => Top.knows
        /\ Update([Top EXCEPT !.deltaKeys = @ \cup {k}])
        /\ Send(k, "delta", delta, source, answered)
        /\ UNCHANGED <<count, verdict>>

shimPutDelta(k, op, arg, source, answered) ==
    LET delta == ShimDescriptor(Top, k, op, arg)
        n     == UnmarshalInt64(arg)
    IN  /\ source = "args" => Top.tainted
        /\ source = "read" => Top.knows
        /\ Update([Top EXCEPT !.deltaKeys = IF delta = Err THEN @ ELSE @ \cup {k},
                              !.ref = IF n = Err THEN @ ELSE EndorsePutDelta(@, k, op, n)])
        /\ Send(k, "delta", delta, source, delta # Err /\ answered)
        /\ verdict' = <<delta, IF n = Err THEN Err ELSE EndorseDescriptor(Top.ref, k, op, n)>>
        /\ UNCHANGED count

(***************************************************************************)
(* InvokeChaincode: the callee runs with a new stub, on arguments that may *)
(* derive from what the caller knows; its response may carry state.        *)
(***************************************************************************)
InvokeChaincode(tainted) ==
    /\ Len(stack) = 1 /\ count < MaxInvocations
    /\ tainted => Top.tainted \/ Top.knows
    /\ count' = count + 1
    /\ stack' = <<[Top EXCEPT !.didRead = TRUE, !.ref = EndorseRead(@)],
                  newChaincodeStub("callee", count + 1, tainted)>>
    /\ verdict' = <<TRUE, TRUE>>
    /\ UNCHANGED sent

InvokeReturns == /\ Len(stack) = 2
                 /\ stack' = <<[stack[1] EXCEPT !.knows = TRUE]>>
                 /\ verdict' = <<TRUE, TRUE>>
                 /\ UNCHANGED <<count, sent>>

Next == \/ AnyRead
        \/ \E k \in Keys, answered \in BOOLEAN :
              \/ PutState(k, answered) \/ DelState(k, answered)
              \/ \E op \in Op, arg \in Args, source \in {"inputs", "args", "read"} :
                    shimPutDelta(k, op, arg, source, answered)
        \/ \E tainted \in BOOLEAN : InvokeChaincode(tainted)
        \/ InvokeReturns

Spec == Init /\ [][Next]_vars

-----------------------------------------------------------------------------
(***************************************************************************)
(* Types of the variables; what is sent as a delta is a descriptor.        *)
(***************************************************************************)
StubState == [didRead : BOOLEAN, plainKeys : SUBSET Keys, deltaKeys : SUBSET Keys]

TypeOK ==
    /\ count \in 1..MaxInvocations
    /\ Len(stack) \in {1, 2}
    /\ \A i \in DOMAIN stack :
          stack[i] \in [ns : {"caller", "callee"}, no : 1..count, tainted : BOOLEAN, knows : BOOLEAN,
                       didRead : BOOLEAN, plainKeys : SUBSET Keys, deltaKeys : SUBSET Keys,
                       ref : StubState]
    /\ \A w \in sent : w.key \in Keys /\ w.kind \in {"plain", "delta"} /\ w.delta \in Desc

(***************************************************************************)
(* The two implementations of the endorsement rules, ChaincodeStub in      *)
(* shim/stub.go and Stub in fabric-core/endorse.go, accept the same calls  *)
(* after the same calls, and send the same descriptors, also when the peer *)
(* refused some of them.                                                   *)
(***************************************************************************)
StubsAgree == verdict[1] = verdict[2]

(***************************************************************************)
(* Whatever PutDelta lets through, the hooks can decode and fold           *)
(* (buildShimDelta against toDelta and signedAmount): the encoding is no   *)
(* reason to invalidate the transaction.                                   *)
(***************************************************************************)
Decodable == \A w \in sent :
    w.kind = "delta" => toDelta(w.delta) # Err /\ signedAmount(toDelta(w.delta)) # Err

(***************************************************************************)
(* No delta is computed from state that its invocation read, by any of the *)
(* read APIs or through InvokeChaincode (didRead).                         *)
(***************************************************************************)
NoReadThenDelta == \A w \in sent : w.kind = "delta" => w.source # "read"

(***************************************************************************)
(* One invocation never sends a plain write and a delta for one key, in    *)
(* whichever order it tries and whatever the peer answers (plainKeys,      *)
(* deltaKeys).                                                             *)
(***************************************************************************)
OneKindPerInvocation ==
    \A v, w \in sent : v.no = w.no /\ v.key = w.key => v.kind = w.kind

(***************************************************************************)
(* "the delta arg must derive from proposal inputs only" (PutDelta), in    *)
(* all of the transaction.                                                 *)
(***************************************************************************)
ProposalInputsOnly == \A w \in sent : w.kind = "delta" => w.source = "inputs"
=============================================================================
