---------------------------- MODULE CommitNotifier ----------------------------
(***************************************************************************)
(* Commit notifications of fabric-core/kv_ledger.go: commit, which holds   *)
(* blockAPIsRWLock, sends a notification for each block on a buffered      *)
(* channel; a consumer reads it and may close `done' when it wants no      *)
(* more; block queries take the lock for reading.                          *)
(*                                                                         *)
(* Blocks keep coming, so block numbers count modulo Numbers, which        *)
(* exceeds the number of notifications under way.                          *)
(***************************************************************************)
EXTENDS Naturals, Sequences

CONSTANTS Capacity,   \* of the notification channel (10 in the code)
          Numbers     \* bound: block numbers in use

ASSUME NotifierBounds == /\ Capacity \in Nat \ {0}
                         /\ Numbers \in Nat /\ Numbers > Capacity + 1

VARIABLES commit,     \* where commit is: "idle", "locked", or "sending"
          blockNo,    \* the number of the block in commit, or the next one
          notifier,   \* l.commitNotifier != nil
          queue,      \* the buffer of the data channel
          closed,     \* the data channel is closed
          done,       \* the consumer closed the done channel
          consumer,   \* the consumer has a data channel
          want,       \* the block the consumer receives next
          reader      \* a block query: "idle", "waiting", or "reading"

vars == <<commit, blockNo, notifier, queue, closed, done, consumer, want, reader>>

Init == /\ commit = "idle" /\ blockNo = 0
        /\ notifier = FALSE /\ queue = <<>> /\ closed = FALSE /\ done = FALSE
        /\ consumer = FALSE /\ want = 0
        /\ reader = "idle"

-----------------------------------------------------------------------------
\* commit has the block validated and takes blockAPIsRWLock.
Lock == /\ commit = "idle"
        /\ reader # "reading"
        /\ commit' = "locked"
        /\ UNCHANGED <<blockNo, notifier, queue, closed, done, consumer, want, reader>>

\* Mutant: the number of the block is not advanced past the bound.
UnlockUnbounded == commit' = "idle" /\ blockNo' = blockNo + 1

\* commit returns: the deferred unlocks.
Unlock == commit' = "idle" /\ blockNo' = (blockNo + 1) % Numbers

(***************************************************************************)
(* sendCommitNotification.  It looks at done once; after that it holds     *)
(* commitNotifierLock, and blockAPIsRWLock, until the channel has room.    *)
(***************************************************************************)
NotifyNobody == /\ commit = "locked"
                /\ ~notifier
                /\ Unlock
                /\ UNCHANGED <<notifier, queue, closed, done, consumer, want, reader>>

\* Mutant: done is taken for a reason not to send, and nothing is closed.
NotifyDoneIgnored == /\ commit = "locked"
                     /\ notifier /\ done
                     /\ Unlock
                     /\ UNCHANGED <<notifier, queue, closed, done, consumer, want, reader>>

\* Mutant: the channel is closed while the notifier stays registered.
NotifyDoneKeeps == /\ commit = "locked"
                   /\ notifier /\ done
                   /\ closed' = TRUE
                   /\ Unlock
                   /\ UNCHANGED <<notifier, queue, done, consumer, want, reader>>

NotifyDone == /\ commit = "locked"
              /\ notifier /\ done
              /\ closed' = TRUE
              /\ notifier' = FALSE
              /\ Unlock
              /\ UNCHANGED <<queue, done, consumer, want, reader>>

NotifyBlock == /\ commit = "locked"
               /\ notifier /\ ~done
               /\ commit' = "sending"
               /\ UNCHANGED <<blockNo, notifier, queue, closed, done, consumer, want, reader>>

\* Mutant: the unlock is missing on the path that sends.
SendHolds == /\ commit = "sending"
             /\ Len(queue) < Capacity
             /\ queue' = Append(queue, blockNo)
             /\ blockNo' = (blockNo + 1) % Numbers
             /\ commit' = "locked"
             /\ UNCHANGED <<notifier, closed, done, consumer, want, reader>>

\* Mutant: a full channel drops the notification.
SendOrDrop == /\ commit = "sending"
              /\ queue' = IF Len(queue) < Capacity THEN Append(queue, blockNo) ELSE queue
              /\ Unlock
              /\ UNCHANGED <<notifier, closed, done, consumer, want, reader>>

Send == /\ commit = "sending"
        /\ Len(queue) < Capacity
        /\ queue' = Append(queue, blockNo)
        /\ Unlock
        /\ UNCHANGED <<notifier, closed, done, consumer, want, reader>>

-----------------------------------------------------------------------------
(***************************************************************************)
(* The consumer.  CommitNotificationsChannel waits for commitNotifierLock  *)
(* and refuses while a notifier is registered.                             *)
(***************************************************************************)
CommitNotificationsChannel ==
    /\ ~consumer
    /\ commit # "sending"
    /\ ~notifier
    /\ notifier' = TRUE
    /\ queue' = <<>> /\ closed' = FALSE /\ done' = FALSE
    /\ consumer' = TRUE
    /\ want' = blockNo
    /\ UNCHANGED <<commit, blockNo, reader>>

Receive == /\ consumer
           /\ queue # <<>>
           /\ want' = (Head(queue) + 1) % Numbers
           /\ queue' = Tail(queue)
           /\ UNCHANGED <<commit, blockNo, notifier, closed, done, consumer, reader>>

ReceiveClosed == /\ consumer
                 /\ queue = <<>> /\ closed
                 /\ consumer' = FALSE
                 /\ UNCHANGED <<commit, blockNo, notifier, queue, closed, done, want, reader>>

CloseDone == /\ consumer
             /\ ~done
             /\ done' = TRUE
             /\ UNCHANGED <<commit, blockNo, notifier, queue, closed, consumer, want, reader>>

-----------------------------------------------------------------------------
\* Block queries, such as GetBlockByNumber, under blockAPIsRWLock.RLock.
Query == /\ reader = "idle"
         /\ reader' = "waiting"
         /\ UNCHANGED <<commit, blockNo, notifier, queue, closed, done, consumer, want>>

RLock == /\ reader = "waiting"
         /\ commit = "idle"
         /\ reader' = "reading"
         /\ UNCHANGED <<commit, blockNo, notifier, queue, closed, done, consumer, want>>

RUnlock == /\ reader = "reading"
           /\ reader' = "idle"
           /\ UNCHANGED <<commit, blockNo, notifier, queue, closed, done, consumer, want>>

Commit == Lock \/ NotifyNobody \/ NotifyDone \/ NotifyBlock \/ Send

Consume == Receive \/ ReceiveClosed

Next == \/ Commit \/ Consume
        \/ CommitNotificationsChannel \/ CloseDone
        \/ Query \/ RLock \/ RUnlock

Spec == Init /\ [][Next]_vars

(***************************************************************************)
(* Blocks keep coming and commit runs; a query returns.  sync.RWMutex      *)
(* starves neither side: a query that waits is let in when a commit        *)
(* unlocks, and a commit that waits goes before later queries.             *)
(***************************************************************************)
PeerSpec == Spec /\ WF_vars(Commit) /\ SF_vars(Lock) /\ SF_vars(RLock) /\ WF_vars(RUnlock)

\* In addition the consumer reads until it sees the channel closed.
FairSpec == PeerSpec /\ WF_vars(Consume)

-----------------------------------------------------------------------------
(***************************************************************************)
(* Types of the variables.                                                 *)
(***************************************************************************)
TypeOK == /\ commit \in {"idle", "locked", "sending"}
          /\ blockNo \in 0..(Numbers - 1) /\ want \in 0..(Numbers - 1)
          /\ {notifier, closed, done, consumer} \subseteq BOOLEAN
          /\ queue \in Seq(0..(Numbers - 1)) /\ Len(queue) <= Capacity
          /\ reader \in {"idle", "waiting", "reading"}

(***************************************************************************)
(* No gap and no repeat: the notifications in the channel are those of the *)
(* blocks from the one the consumer wants, in order, and while the         *)
(* notifier is registered they reach up to the last block committed        *)
(* (sendCommitNotification).                                               *)
(***************************************************************************)
EveryBlockOnce ==
    consumer => /\ \A i \in DOMAIN queue : queue[i] = (want + i - 1) % Numbers
                /\ notifier => blockNo = (want + Len(queue)) % Numbers

(***************************************************************************)
(* A channel that is closed is never sent on, which would panic the peer,  *)
(* and there is a channel for every registered notifier.                   *)
(***************************************************************************)
NoSendOnClosed == notifier => ~closed /\ consumer

(***************************************************************************)
(* Closing `done' "will cause the CommitNotifications channel to close"    *)
(* (comment on CommitNotificationsChannel).                                *)
(***************************************************************************)
DoneCloses == done /\ notifier ~> closed

(***************************************************************************)
(* A block query is served in the end: commit does not hold                *)
(* blockAPIsRWLock for ever.                                               *)
(***************************************************************************)
QueryServed == reader = "waiting" ~> reader = "reading"
=============================================================================
