----------------------------- MODULE ShimHandler ------------------------------
(***************************************************************************)
(* shim/handler.go: the chaincode's end of the stream to its peer.  The    *)
(* loop that receives from the stream calls handleMessage for one message  *)
(* after another; every INIT or TRANSACTION runs in a goroutine, and the   *)
(* chaincode may use its stub from a second one.  A call of the peer makes *)
(* a response channel for the transaction, sends the request and waits.    *)
(* handleResponse hands the answer over on that unbuffered channel while   *)
(* it holds responseChannelsMutex.                                         *)
(*                                                                         *)
(* The peer and the stream are external: the stream is FIFO until it       *)
(* breaks, and the peer answers every request once, with RESPONSE or       *)
(* ERROR, in any order.                                                    *)
(***************************************************************************)
EXTENDS Naturals, Sequences

CONSTANTS Contexts,   \* transactions, as transactionContextID names them
          MaxCalls,   \* bound: calls of the peer by one goroutine
          MaxInbox,   \* bound: messages under way to the chaincode
          None        \* nil

VARIABLES state,      \* h.state
          inbox,      \* messages on the stream from the peer
          loop,       \* the answer handleResponse is handing over, under the mutex
          dead,       \* the receive loop has returned with an error
          broken,     \* the stream has failed
          chans,      \* h.responseChannels: the goroutine whose call made it
          routine,    \* the goroutines
          asked,      \* requests the peer has not answered
          hello,      \* handshake messages the peer has sent
          final       \* what the peer was told at the end of each transaction

vars == <<state, inbox, loop, dead, broken, chans, routine, asked, hello, final>>

\* The first goroutine runs the handler, the second is the chaincode's own.
Routines == Contexts \X {1, 2}

Ctx(r) == r[1]

Request == Routines \X (1..MaxCalls)

Message == [type : {"REGISTERED", "READY", "KEEPALIVE"}]
           \cup [type : {"INIT", "TRANSACTION"}, ctx : Contexts]
           \cup [type : {"RESPONSE", "ERROR"}, ctx : Contexts, req : Request]

Init == /\ state = "created"
        /\ inbox = <<>> /\ loop = None
        /\ dead = FALSE /\ broken = FALSE
        /\ chans = [c \in Contexts |-> None]
        /\ routine = [r \in Routines |-> [pc |-> "idle", calls |-> 0, got |-> None]]
        /\ asked = {} /\ hello = 0
        /\ final = [c \in Contexts |-> None]

-----------------------------------------------------------------------------
(***************************************************************************)
(* The receive loop, in handleMessage.  A message that h.state does not    *)
(* expect is an error, which ends the loop.                                *)
(***************************************************************************)
Receiving == ~dead /\ ~broken /\ loop = None /\ inbox # <<>>

\* serialSendAsync returns the message to the peer.
HandleKeepalive == /\ Receiving
                   /\ Head(inbox).type = "KEEPALIVE"
                   /\ inbox' = Tail(inbox)
                   /\ UNCHANGED <<state, loop, dead, broken, chans, routine, asked, hello, final>>

\* Mutant: a state that handleMessage does not know.
handleCreatedUnknown == /\ Receiving
                        /\ state = "created" /\ Head(inbox).type # "KEEPALIVE"
                        /\ inbox' = Tail(inbox)
                        /\ state' = "registered"
                        /\ UNCHANGED <<loop, dead, broken, chans, routine, asked, hello, final>>

handleCreated == /\ Receiving
                 /\ state = "created" /\ Head(inbox).type # "KEEPALIVE"
                 /\ inbox' = Tail(inbox)
                 /\ state' = IF Head(inbox).type = "REGISTERED" THEN "established" ELSE state
                 /\ dead' = (Head(inbox).type # "REGISTERED")
                 /\ UNCHANGED <<loop, broken, chans, routine, asked, hello, final>>

handleEstablished == /\ Receiving
                     /\ state = "established" /\ Head(inbox).type # "KEEPALIVE"
                     /\ inbox' = Tail(inbox)
                     /\ state' = IF Head(inbox).type = "READY" THEN "ready" ELSE state
                     /\ dead' = (Head(inbox).type # "READY")
                     /\ UNCHANGED <<loop, broken, chans, routine, asked, hello, final>>

\* handleReady for INIT and TRANSACTION: a goroutine runs handleStubInteraction.
StartStub == /\ Receiving
             /\ state = "ready" /\ Head(inbox).type \in {"INIT", "TRANSACTION"}
             /\ inbox' = Tail(inbox)
             /\ routine' = [routine EXCEPT ![<<Head(inbox).ctx, 1>>].pc = "running"]
             /\ UNCHANGED <<state, loop, dead, broken, chans, asked, hello, final>>

\* Mutant: only RESPONSE is handed over; ERROR is dropped.
handleResponseOnly ==
    /\ Receiving
    /\ state = "ready" /\ Head(inbox).type \in {"RESPONSE", "ERROR"}
    /\ inbox' = Tail(inbox)
    /\ loop' = IF Head(inbox).type = "RESPONSE" /\ chans[Head(inbox).ctx] # None THEN Head(inbox) ELSE None
    /\ UNCHANGED <<state, dead, broken, chans, routine, asked, hello, final>>

\* handleResponse finds the channel, and from here on holds the mutex.
handleResponse ==
    /\ Receiving
    /\ state = "ready" /\ Head(inbox).type \in {"RESPONSE", "ERROR"}
    /\ inbox' = Tail(inbox)
    /\ IF chans[Head(inbox).ctx] = None
       THEN dead' = TRUE /\ UNCHANGED loop
       ELSE loop' = Head(inbox) /\ UNCHANGED dead
    /\ UNCHANGED <<state, broken, chans, routine, asked, hello, final>>

\* The two ends meet on the channel, and handleResponse gives up the mutex.
Handover == /\ loop # None
            /\ LET r == chans[loop.ctx]
               IN  /\ routine[r].pc = "waiting"
                   /\ routine' = [routine EXCEPT ![r].pc = "received", ![r].got = loop.req]
            /\ loop' = None
            /\ UNCHANGED <<state, inbox, dead, broken, chans, asked, hello, final>>

-----------------------------------------------------------------------------
(***************************************************************************)
(* callPeerWithChaincodeMsg, and the same steps in handleQueryStateNext,   *)
(* handleQueryStateClose, handleGetHistoryForKey, handleInvokeChaincode.   *)
(***************************************************************************)
\* Mutant: the channel of a call under way is replaced.
createResponseChannelAnew(r) ==
    /\ routine[r].pc = "running" /\ routine[r].calls < MaxCalls
    /\ loop = None
    /\ chans' = [chans EXCEPT ![Ctx(r)] = r]
    /\ routine' = [routine EXCEPT ![r].pc = "sending", ![r].calls = @ + 1]
    /\ UNCHANGED <<state, inbox, loop, dead, broken, asked, hello, final>>

\* "channel exists" is returned to the chaincode, which goes on.
createResponseChannel(r) ==
    /\ routine[r].pc = "running" /\ routine[r].calls < MaxCalls
    /\ loop = None
    /\ IF chans[Ctx(r)] = None
       THEN /\ chans' = [chans EXCEPT ![Ctx(r)] = r]
            /\ routine' = [routine EXCEPT ![r].pc = "sending", ![r].calls = @ + 1]
       ELSE /\ routine' = [routine EXCEPT ![r].calls = @ + 1]
            /\ UNCHANGED chans
    /\ UNCHANGED <<state, inbox, loop, dead, broken, asked, hello, final>>

\* Mutant: the channel is deleted once the request is sent.
sendReceiveDeletes(r) ==
    /\ routine[r].pc = "sending"
    /\ routine' = [routine EXCEPT ![r].pc = IF broken THEN "failed" ELSE "waiting"]
    /\ chans' = [chans EXCEPT ![Ctx(r)] = None]
    /\ asked' = IF broken THEN asked ELSE asked \cup {<<r, routine[r].calls>>}
    /\ UNCHANGED <<state, inbox, loop, dead, broken, hello, final>>

\* sendReceive: serialSend, and on success the wait for the answer.
sendReceive(r) ==
    /\ routine[r].pc = "sending"
    /\ routine' = [routine EXCEPT ![r].pc = IF broken THEN "failed" ELSE "waiting"]
    /\ asked' = IF broken THEN asked ELSE asked \cup {<<r, routine[r].calls>>}
    /\ UNCHANGED <<state, inbox, loop, dead, broken, chans, hello, final>>

\* Mutant: the channel is not deleted when the send failed.
deleteOnSuccess(r) ==
    /\ routine[r].pc \in {"received", "failed"}
    /\ loop = None
    /\ chans' = IF routine[r].pc = "failed" THEN chans ELSE [chans EXCEPT ![Ctx(r)] = None]
    /\ routine' = [routine EXCEPT ![r].pc = "running"]
    /\ UNCHANGED <<state, inbox, loop, dead, broken, asked, hello, final>>

\* The deferred deleteResponseChannel; the call returns.
deleteResponseChannel(r) ==
    /\ routine[r].pc \in {"received", "failed"}
    /\ loop = None
    /\ chans' = [chans EXCEPT ![Ctx(r)] = None]
    /\ routine' = [routine EXCEPT ![r].pc = "running"]
    /\ UNCHANGED <<state, inbox, loop, dead, broken, asked, hello, final>>

\* The chaincode starts a goroutine of its own, which ends before Invoke does.
Spawn(c) == /\ routine[<<c, 1>>].pc = "running" /\ routine[<<c, 2>>].pc = "idle"
            /\ routine' = [routine EXCEPT ![<<c, 2>>].pc = "running"]
            /\ UNCHANGED <<state, inbox, loop, dead, broken, chans, asked, hello, final>>

SpawnEnds(c) == /\ routine[<<c, 2>>].pc = "running"
                /\ routine' = [routine EXCEPT ![<<c, 2>>].pc = "ended"]
                /\ UNCHANGED <<state, inbox, loop, dead, broken, chans, asked, hello, final>>

(***************************************************************************)
(* Init or Invoke returns: handleStubInteraction tells the peer COMPLETED  *)
(* or ERROR.  A send that fails reaches the loop through errc, which ends  *)
(* it.                                                                     *)
(***************************************************************************)
Finish(c, result) ==
    /\ routine[<<c, 1>>].pc = "running" /\ routine[<<c, 2>>].pc \in {"idle", "ended"}
    /\ routine' = [routine EXCEPT ![<<c, 1>>].pc = "ended"]
    /\ IF broken THEN dead' = TRUE /\ UNCHANGED final
                 ELSE final' = [final EXCEPT ![c] = result] /\ UNCHANGED dead
    /\ UNCHANGED <<state, inbox, loop, broken, chans, asked, hello>>

-----------------------------------------------------------------------------
(***************************************************************************)
(* The peer and the stream.                                                *)
(***************************************************************************)
ToShim(msg) == /\ ~broken
               /\ Len(inbox) < MaxInbox
               /\ inbox' = Append(inbox, msg)

PeerHello == /\ hello < 2
             /\ ToShim([type |-> IF hello = 0 THEN "REGISTERED" ELSE "READY"])
             /\ hello' = hello + 1
             /\ UNCHANGED <<state, loop, dead, broken, chans, routine, asked, final>>

\* A transaction is started once; `final' is "started" until it ends.
PeerStart(c, type) == /\ hello = 2
                      /\ final[c] = None
                      /\ ToShim([type |-> type, ctx |-> c])
                      /\ final' = [final EXCEPT ![c] = "started"]
                      /\ UNCHANGED <<state, loop, dead, broken, chans, routine, asked, hello>>

PeerAnswer(q, type) == /\ ToShim([type |-> type, ctx |-> Ctx(q[1]), req |-> q])
                       /\ asked' = asked \ {q}
                       /\ UNCHANGED <<state, loop, dead, broken, chans, routine, hello, final>>

PeerKeepalive == /\ inbox = <<>>
                 /\ ToShim([type |-> "KEEPALIVE"])
                 /\ UNCHANGED <<state, loop, dead, broken, chans, routine, asked, hello, final>>

StreamBreaks == /\ ~broken
                /\ broken' = TRUE
                /\ UNCHANGED <<state, inbox, loop, dead, chans, routine, asked, hello, final>>

-----------------------------------------------------------------------------
Loop == \/ HandleKeepalive \/ handleCreated \/ handleEstablished
        \/ StartStub \/ handleResponse \/ Handover

Call(r) == createResponseChannel(r) \/ sendReceive(r) \/ deleteResponseChannel(r)

Answer == \E q \in asked, type \in {"RESPONSE", "ERROR"} : PeerAnswer(q, type)

Next == \/ Loop \/ Answer
        \/ \E r \in Routines : Call(r)
        \/ \E c \in Contexts :
              \/ Spawn(c) \/ SpawnEnds(c)
              \/ \E result \in {"COMPLETED", "ERROR"} : Finish(c, result)
              \/ \E type \in {"INIT", "TRANSACTION"} : PeerStart(c, type)
        \/ PeerHello \/ PeerKeepalive \/ StreamBreaks

Spec == Init /\ [][Next]_vars

(***************************************************************************)
(* The loop keeps receiving, goroutines run and are not starved of the     *)
(* mutex (sync.Mutex hands it to a waiter that starves), and the peer      *)
(* answers.  Nothing obliges the chaincode to call or to return.           *)
(***************************************************************************)
FairSpec == /\ Spec /\ WF_vars(Loop) /\ SF_vars(Answer)
            /\ \A r \in Routines : WF_vars(sendReceive(r)) /\ SF_vars(deleteResponseChannel(r))

-----------------------------------------------------------------------------
(***************************************************************************)
(* Types of the variables; h.state is one that handleMessage knows, so it  *)
(* does not panic.                                                         *)
(***************************************************************************)
TypeOK ==
    /\ state \in {"created", "established", "ready"}
    /\ inbox \in Seq(Message) /\ Len(inbox) <= MaxInbox
    /\ loop \in Message \cup {None}
    /\ {dead, broken} \subseteq BOOLEAN
    /\ \A c \in Contexts : chans[c] \in {r \in Routines : Ctx(r) = c} \cup {None}
    /\ \A r \in Routines :
          /\ routine[r].pc \in {"idle", "running", "sending", "waiting", "received", "failed", "ended"}
          /\ routine[r].calls \in 0..MaxCalls
          /\ routine[r].got \in Request \cup {None}
    /\ asked \subseteq Request /\ hello \in 0..2
    /\ final \in [Contexts -> {None, "started", "COMPLETED", "ERROR"}]

(***************************************************************************)
(* Answers go to the goroutine that asked, for the call it is making, also *)
(* with two goroutines in one transaction (createResponseChannel,          *)
(* handleResponse).                                                        *)
(***************************************************************************)
Routed == \A r \in Routines :
             routine[r].pc = "received" => routine[r].got = <<r, routine[r].calls>>

(***************************************************************************)
(* No answer finds its channel gone, and no message comes in a state that  *)
(* does not expect it: as long as the stream holds the receive loop does   *)
(* not end (handleResponse, handleMessage).                                *)
(***************************************************************************)
LoopSurvives == dead => broken

(***************************************************************************)
(* A response channel lives exactly as long as its call, whichever way the *)
(* call ends, so that the next call of the transaction can have one        *)
(* (createResponseChannel, deleteResponseChannel).                         *)
(***************************************************************************)
ChannelPerCall == \A r \in Routines :
    (chans[Ctx(r)] = r) <=> (routine[r].pc \in {"sending", "waiting", "received", "failed"})

(***************************************************************************)
(* A transaction has one request with the peer at a time: the channels     *)
(* "protect chaincode from attempting concurrent requests to the peer"     *)
(* (comment on responseChannels).                                          *)
(***************************************************************************)
OneRequest ==
    LET pending == asked \cup {inbox[i].req : i \in {j \in DOMAIN inbox : inbox[j].type \in {"RESPONSE", "ERROR"}}}
                   \cup (IF loop = None THEN {} ELSE {loop.req})
    IN  \A p, q \in pending : Ctx(p[1]) = Ctx(q[1]) => p = q

(***************************************************************************)
(* A call of the peer returns, unless the stream breaks: handing over an   *)
(* answer under responseChannelsMutex does not block the goroutines for    *)
(* ever.                                                                   *)
(***************************************************************************)
CallReturns == \A r \in Routines :
    (routine[r].pc \in {"sending", "waiting", "received"}) ~> (routine[r].pc = "running" \/ broken)
=============================================================================
