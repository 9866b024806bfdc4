--------------------------- MODULE DeliveryQueue ----------------------------
(* The write-ahead queue of outbound messages (infra/outbound): the live   *)
(* send of each message, recovery at startup, the drain of a reconnecting  *)
(* account, the restart notice that is sent beside its queue entry, and    *)
(* crashes of the process.                                                 *)
(*                                                                         *)
(* Every file operation is a step.  A process is named by what it works    *)
(* for: the live send of entry e is e.  A crash loses the processes and    *)
(* their claims, not the files, and the next start recovers.  Time is left *)
(* out: a backoff has or has not run out, a recovery budget is or is not   *)
(* exceeded.  Retry counts stop at MaxRetries, beyond which the code does  *)
(* not tell them apart.                                                    *)
EXTENDS Naturals, FiniteSets

CONSTANTS Entry,        \* messages, each with one queue entry
          Notice,       \* restart notices: sent without a claim
          BestEffort,   \* messages whose send swallows errors
          MaxRetries,   \* MAX_RETRIES
          MaxCrashes    \* bound: crashes of the process

ASSUME QueueAssumption ==
    /\ Notice \subseteq Entry
    /\ BestEffort \subseteq Entry
    /\ MaxRetries \in Nat \ {0}
    /\ MaxCrashes \in Nat
    /\ Notice \cap BestEffort = {}
    /\ Entry \cap {"recovery", "drain", "none"} = {}

VARIABLES json,        \* entry -> its pending file, or NoFile
          delivered,   \* the entries with a .delivered marker
          failed,      \* the entries with a file in failed/
          claimed,     \* entriesInProgress
          pc,          \* process -> where it is
          cur,         \* owner -> the entry it works on
          todo,        \* owner -> the entries of its snapshot still to do
          held,        \* process -> the file its failDelivery read
          deferring,   \* entries whose deferral has not read its file yet
          deferred,    \* entry -> the file its deferral read
          sent,        \* history: entries sent without an error
          excused,     \* history: entries whose failure the sender accepted
          closed,      \* history: entries acknowledged
          revived,     \* history: entries whose file came back after that
          resent,      \* history: entries that went out again after that
          crashes

files == <<json, delivered, failed>>
memory == <<claimed, pc, cur, todo, held, deferring, deferred>>
history == <<sent, excused, closed, revived, resent>>
deliveryVars == <<files, memory, history, crashes>>

Owner == {"recovery", "drain"}

Proc == Entry \cup Owner

NoFile == [retryCount |-> 0, attempted |-> FALSE, present |-> FALSE]

Fresh == [retryCount |-> 0, attempted |-> FALSE, present |-> TRUE]

File == [retryCount : 0..MaxRetries, attempted : BOOLEAN, present : BOOLEAN]

\* What failDelivery writes for the file it read.
Failed(file) ==
    [retryCount |-> IF file.retryCount < MaxRetries THEN file.retryCount + 1 ELSE MaxRetries,
     attempted |-> TRUE, present |-> TRUE]

\* The entry a process works on.
Of(p) == IF p \in Owner THEN cur[p] ELSE p

DeliveryInit ==
    /\ json = [e \in Entry |-> NoFile]
    /\ delivered = {}
    /\ failed = {}
    /\ claimed = {}
    /\ pc = [p \in Proc |-> IF p = "recovery" THEN "load" ELSE "idle"]
    /\ cur = [p \in Owner |-> "none"]
    /\ todo = [p \in Owner |-> {}]
    /\ held = [p \in Proc |-> NoFile]
    /\ deferring = {}
    /\ deferred = [e \in Entry |-> NoFile]
    /\ sent = {}
    /\ excused = {}
    /\ closed = {}
    /\ revived = {}
    /\ resent = {}
    /\ crashes = 0

Goto(p, label) == pc' = [pc EXCEPT ![p] = label]

\* A mutant of Finish: an owner keeps its claim.
FinishKeepsClaim(p) ==
    /\ claimed' = IF p \in Notice \cup Owner THEN claimed ELSE claimed \ {p}
    /\ cur' = [o \in Owner |-> IF o = p THEN "none" ELSE cur[o]]
    /\ Goto(p, IF p \in Owner THEN "loop" ELSE "done")

\* The process is through with its entry and its claim is released.
Finish(p) ==
    /\ claimed' = IF p \in Notice THEN claimed ELSE claimed \ {Of(p)}
    /\ cur' = [o \in Owner |-> IF o = p THEN "none" ELSE cur[o]]
    /\ Goto(p, IF p \in Owner THEN "loop" ELSE "done")

-----------------------------------------------------------------------------
(* The live send (deliver.ts) and the restart notice.                      *)

\* enqueueDelivery: the file appears by a rename.  A restart notice goes on to
\* send; the others claim their entry first.
EnqueueDelivery(e) ==
    /\ pc[e] = "idle"
    /\ json' = [json EXCEPT ![e] = Fresh]
    /\ Goto(e, IF e \in Notice THEN "deliver" ELSE "queued")
    /\ UNCHANGED <<delivered, failed, claimed, cur, todo, held, deferring, deferred, history, crashes>>

\* The entry cannot be written: the message is sent without one.
SendUnqueued(e) ==
    /\ pc[e] = "idle"
    /\ Goto(e, "unqueued")
    /\ UNCHANGED <<files, claimed, cur, todo, held, deferring, deferred, history, crashes>>

\* A mutant of CanClaim: entries may be claimed twice.
AlwaysClaimable(e) == TRUE

\* claimRecoveryEntry succeeds.
CanClaim(e) == e \notin claimed

\* withActiveDeliveryClaim: another owner's claim ends the live send.
ClaimLive(e) ==
    /\ pc[e] = "queued"
    /\ IF CanClaim(e)
       THEN claimed' = claimed \cup {e} /\ Goto(e, "deliver")
       ELSE UNCHANGED claimed /\ Goto(e, "done")
    /\ UNCHANGED <<files, cur, todo, held, deferring, deferred, history, crashes>>

-----------------------------------------------------------------------------
(* Recovery and drain.                                                     *)

\* drainPendingDeliveries for a reconnecting account: skipped when one runs.
StartDrain ==
    /\ pc["drain"] = "idle"
    /\ Goto("drain", "load")
    /\ UNCHANGED <<files, claimed, cur, todo, held, deferring, deferred, history, crashes>>

\* loadPendingDeliveries: markers are removed, pending files listed; a drain
\* keeps the entries of its account.  A file that goes away while the list is
\* read is found missing below.
LoadPendingDeliveries(p) ==
    /\ pc[p] = "load"
    /\ \E S \in SUBSET {e \in Entry : json[e].present} :
          /\ p = "recovery" => S = {e \in Entry : json[e].present}
          /\ todo' = [todo EXCEPT ![p] = S]
    /\ delivered' = {}
    /\ Goto(p, "loop")
    /\ UNCHANGED <<json, failed, claimed, cur, held, deferring, deferred, history, crashes>>

\* The loop takes the next entry and claims it, or skips it.  The order of
\* enqueuedAt is left open.
NextEntry(p, e) ==
    /\ pc[p] = "loop"
    /\ e \in todo[p]
    /\ todo' = [todo EXCEPT ![p] = @ \ {e}]
    /\ IF CanClaim(e)
       THEN /\ claimed' = claimed \cup {e}
            /\ cur' = [cur EXCEPT ![p] = e]
            /\ Goto(p, "reread")
       ELSE UNCHANGED <<claimed, cur, pc>>
    /\ UNCHANGED <<files, held, deferring, deferred, history, crashes>>

\* The snapshot is done.
EndLoop(p) ==
    /\ pc[p] = "loop"
    /\ todo[p] = {}
    /\ Goto(p, "idle")
    /\ UNCHANGED <<files, claimed, cur, todo, held, deferring, deferred, history, crashes>>

\* A mutant of Reread: the snapshot is trusted.
RereadTrusting(p) ==
    /\ pc[p] = "reread"
    /\ Goto(p, "deliver")
    /\ UNCHANGED <<files, claimed, cur, todo, held, deferring, deferred, history, crashes>>

\* The claimed entry is read again: it is gone, out of retries, skipped (its
\* backoff runs, or it no longer matches the drain) or to be sent.  An entry
\* never attempted has no backoff.
Reread(p) ==
    /\ pc[p] = "reread"
    /\ LET file == json[cur[p]]
           spent == file.retryCount >= MaxRetries
       IN  \/ ~file.present /\ Finish(p)
           \/ file.present /\ p = "drain" /\ Finish(p)
           \/ file.present /\ spent /\ Goto(p, "expire") /\ UNCHANGED <<claimed, cur>>
           \/ file.present /\ ~spent /\ file.attempted /\ Finish(p)
           \/ file.present /\ ~spent /\ Goto(p, "deliver") /\ UNCHANGED <<claimed, cur>>
    /\ UNCHANGED <<files, todo, held, deferring, deferred, history, crashes>>

\* The loop ends by an error: the file cannot be read, or a drain cannot move
\* it.  The finally block releases the claim.
LoopAborts(p) ==
    /\ pc[p] = "reread" \/ (p = "drain" /\ pc[p] = "expire")
    /\ claimed' = claimed \ {cur[p]}
    /\ cur' = [cur EXCEPT ![p] = "none"]
    /\ todo' = [todo EXCEPT ![p] = {}]
    /\ Goto(p, "idle")
    /\ UNCHANGED <<files, held, deferring, deferred, history, crashes>>

\* A mutant of MoveToFailed: the file is removed instead.
MoveToFailedUnlinks(p) ==
    /\ pc[p] \in {"expire", "move"}
    /\ json' = [json EXCEPT ![cur[p]] = NoFile]
    /\ Finish(p)
    /\ UNCHANGED <<delivered, failed, todo, held, deferring, deferred, history, crashes>>

\* moveToFailed renames the file, if it is there and the rename succeeds.
MoveToFailed(p) ==
    /\ pc[p] \in {"expire", "move"}
    /\ \/ /\ json[cur[p]].present
          /\ json' = [json EXCEPT ![cur[p]] = NoFile]
          /\ failed' = failed \cup {cur[p]}
       \/ /\ json[cur[p]].present => p = "recovery" \/ pc[p] = "move"
          /\ UNCHANGED <<json, failed>>
    /\ Finish(p)
    /\ UNCHANGED <<delivered, todo, held, deferring, deferred, history, crashes>>

-----------------------------------------------------------------------------
(* Sending.                                                                *)

\* The message reaches the recipient, or it does not.
Transmit(e, reached) ==
    /\ resent' = IF reached /\ e \in closed THEN resent \cup {e} ELSE resent
    /\ UNCHANGED <<closed, revived>>

\* The live send resumes as soon as its file is in place.  An owner may claim
\* the entry before that, but its send is not over before that.
Resumed(p) == p \in Owner => pc[cur[p]] # "queued"

\* The send returns without an error.  Under bestEffort it does so although
\* the message did not get through, and nobody counts the failure unless the
\* caller passed onError.
Delivered(p) ==
    /\ pc[p] = "deliver"
    /\ Resumed(p)
    /\ \E reached \in BOOLEAN :
          /\ reached \/ Of(p) \in BestEffort
          /\ Transmit(Of(p), reached)
          /\ sent' = IF reached THEN sent \cup {Of(p)} ELSE sent
          /\ excused' = IF reached THEN excused ELSE excused \cup {Of(p)}
    /\ Goto(p, "ack")
    /\ UNCHANGED <<files, claimed, cur, todo, held, deferring, deferred, crashes>>

\* The send throws, perhaps after a part of the message got through, or a live
\* send under bestEffort had its failure counted.  An owner gives up for good
\* on a permanent error; a restart notice may try again.
DeliveryFails(p) ==
    /\ pc[p] = "deliver"
    /\ Resumed(p)
    /\ \E reached \in BOOLEAN : Transmit(Of(p), reached)
    /\ \/ Goto(p, "fail")
       \/ p \in Owner /\ Goto(p, "move")
       \/ p \in Notice /\ UNCHANGED pc
    /\ UNCHANGED <<files, claimed, cur, todo, held, deferring, deferred, sent, excused,
                   crashes>>

\* The caller aborts a live send: it is acknowledged like a success.
DeliveryAborted(e) ==
    /\ pc[e] = "deliver"
    /\ e \notin Notice
    /\ Goto(e, "ack")
    /\ excused' = excused \cup {e}
    /\ UNCHANGED <<files, claimed, cur, todo, held, deferring, deferred, sent, closed, revived,
                   resent, crashes>>

-----------------------------------------------------------------------------
(* ackDelivery and failDelivery.                                           *)

\* Phase 1: the pending file becomes a marker.  Without a file there is only a
\* marker to remove.
AckRename(p) ==
    /\ pc[p] = "ack"
    /\ json' = [json EXCEPT ![Of(p)] = NoFile]
    /\ delivered' = IF json[Of(p)].present THEN delivered \cup {Of(p)} ELSE delivered
    /\ closed' = closed \cup {Of(p)}
    /\ Goto(p, "unlink")
    /\ UNCHANGED <<failed, claimed, cur, todo, held, deferring, deferred, sent, excused, revived,
                   resent, crashes>>

\* The rename fails: an owner takes that for a failed send, a live send leaves
\* the file for the next start.
AckError(p) ==
    /\ pc[p] = "ack"
    /\ IF p \in Owner
       THEN Goto(p, "fail") /\ UNCHANGED <<claimed, cur>>
       ELSE Finish(p)
    /\ UNCHANGED <<files, todo, held, deferring, deferred, history, crashes>>

\* Phase 2: the marker is removed, if that succeeds.
AckUnlink(p) ==
    /\ pc[p] = "unlink"
    /\ delivered' \in {delivered, delivered \ {Of(p)}}
    /\ Finish(p)
    /\ UNCHANGED <<json, failed, todo, held, deferring, deferred, history, crashes>>

\* failDelivery reads the file; without one, or on an error, it gives up.
FailRead(p) ==
    /\ pc[p] = "fail"
    /\ \/ /\ json[Of(p)].present
          /\ held' = [held EXCEPT ![p] = json[Of(p)]]
          /\ Goto(p, "write")
          /\ UNCHANGED <<claimed, cur>>
       \/ /\ UNCHANGED held
          /\ Finish(p)
    /\ UNCHANGED <<files, todo, deferring, deferred, history, crashes>>

\* writeQueueEntry puts the file of an entry in place, whatever is there.
WriteQueueEntry(e, file) ==
    /\ json' = [json EXCEPT ![e] = Failed(file)]
    /\ revived' = IF json[e].present THEN revived ELSE revived \cup {e}

\* failDelivery writes the file back.
FailWrite(p) ==
    /\ pc[p] = "write"
    /\ WriteQueueEntry(Of(p), held[p])
    /\ held' = [held EXCEPT ![p] = NoFile]
    /\ Finish(p)
    /\ UNCHANGED <<delivered, failed, todo, deferring, deferred, sent, excused, closed, resent,
                   crashes>>

-----------------------------------------------------------------------------
(* The recovery budget and crashes.                                        *)

\* The budget is exceeded: deferRemainingEntriesForBudget calls failDelivery
\* for every entry left, all at once and without claiming any.
BudgetExceeded ==
    /\ pc["recovery"] = "loop"
    /\ todo["recovery"] # {}
    /\ deferring' = todo["recovery"]
    /\ todo' = [todo EXCEPT !["recovery"] = {}]
    /\ Goto("recovery", "defer")
    /\ UNCHANGED <<files, claimed, cur, held, deferred, history, crashes>>

\* failDelivery of a deferred entry reads its file ...
DeferRead(e) ==
    /\ e \in deferring
    /\ deferring' = deferring \ {e}
    /\ deferred' = [deferred EXCEPT ![e] = json[e]]
    /\ UNCHANGED <<files, claimed, pc, cur, todo, held, history, crashes>>

\* ... and writes it.
DeferWrite(e) ==
    /\ deferred[e].present
    /\ WriteQueueEntry(e, deferred[e])
    /\ deferred' = [deferred EXCEPT ![e] = NoFile]
    /\ UNCHANGED <<delivered, failed, claimed, pc, cur, todo, held, deferring, sent, excused,
                   closed, resent, crashes>>

\* allSettled: recovery ends with the last deferral.
EndDefer ==
    /\ pc["recovery"] = "defer"
    /\ deferring = {}
    /\ \A e \in Entry : ~deferred[e].present
    /\ Goto("recovery", "idle")
    /\ UNCHANGED <<files, claimed, cur, todo, held, deferring, deferred, history, crashes>>

\* The gateway dies and starts again: the files survive.
Crash ==
    /\ crashes < MaxCrashes
    /\ crashes' = crashes + 1
    /\ pc' = [p \in Proc |-> CASE p = "recovery" -> "load"
                               [] p = "drain" -> "idle"
                               [] pc[p] \in {"idle", "unqueued"} -> pc[p]
                               [] OTHER -> "done"]
    /\ claimed' = {}
    /\ cur' = [p \in Owner |-> "none"]
    /\ todo' = [p \in Owner |-> {}]
    /\ held' = [p \in Proc |-> NoFile]
    /\ deferring' = {}
    /\ deferred' = [e \in Entry |-> NoFile]
    /\ UNCHANGED <<files, history>>

DeliveryNext ==
    \/ \E e \in Entry : \/ EnqueueDelivery(e)
                         \/ SendUnqueued(e)
                         \/ ClaimLive(e)
                         \/ DeliveryAborted(e)
                         \/ DeferRead(e)
                         \/ DeferWrite(e)
    \/ \E p \in Owner : \/ LoadPendingDeliveries(p)
                         \/ \E e \in Entry : NextEntry(p, e)
                         \/ EndLoop(p)
                         \/ Reread(p)
                         \/ LoopAborts(p)
                         \/ MoveToFailed(p)
    \/ \E p \in Proc : \/ Delivered(p)
                        \/ DeliveryFails(p)
                        \/ AckRename(p)
                        \/ AckError(p)
                        \/ AckUnlink(p)
                        \/ FailRead(p)
                        \/ FailWrite(p)
    \/ StartDrain
    \/ BudgetExceeded
    \/ EndDefer
    \/ Crash

DeliverySpec == DeliveryInit /\ [][DeliveryNext]_deliveryVars

-----------------------------------------------------------------------------
(* Properties.                                                             *)

\* The labels at which a process has an entry to itself.
AtWork == {"reread", "expire", "move", "deliver", "ack", "unlink", "fail", "write"}

\* Every variable has its type.
DeliveryTypeOK ==
    /\ json \in [Entry -> File]
    /\ delivered \subseteq Entry
    /\ failed \subseteq Entry
    /\ claimed \subseteq Entry
    /\ pc \in [Proc -> AtWork \cup {"idle", "queued", "load", "loop", "defer", "done", "unqueued"}]
    /\ cur \in [Owner -> Entry \cup {"none"}]
    /\ todo \in [Owner -> SUBSET Entry]
    /\ held \in [Proc -> File]
    /\ deferring \subseteq Entry
    /\ deferred \in [Entry -> File]
    /\ sent \subseteq Entry /\ excused \subseteq Entry
    /\ closed \subseteq Entry /\ revived \subseteq Entry /\ resent \subseteq Entry
    /\ crashes \in 0..MaxCrashes

\* A message whose entry was written (deliver.ts:834) is never lost: whatever
\* crashes, reconnects and deferrals happen, it is still pending, it is in
\* failed/, it was sent, or the sender accepted its failure (an abort, or
\* bestEffort without onError).
NothingLost ==
    \A e \in Entry :
        pc[e] \notin {"idle", "unqueued"} =>
            json[e].present \/ e \in failed \cup sent \cup excused

\* Two processes never send the same message at the same time (the claim the
\* live send shares with recovery and drain, deliver.ts:859); the restart
\* notice, which is sent without a claim, is the one exception.
SingleSender ==
    \A p, q \in Proc :
        p # q /\ {p, q} \cap Notice = {} /\ pc[p] = "deliver" /\ pc[q] = "deliver"
            => Of(p) # Of(q)

\* The state is well typed, and a claim never outlives the process that holds
\* it, on whatever path that process left its entry (the finally blocks of
\* withActiveDeliveryClaim and of the loops); no process works on an entry
\* without one.
ClaimTruthful ==
    /\ DeliveryTypeOK
    /\ claimed = {Of(p) : p \in {q \in Proc \ Notice : pc[q] \in AtWork}}

\* A stale snapshot never sends an acknowledged message again
\* (delivery-queue-recovery.ts:272-274): only when a deferral put the file back
\* does it go out once more.
ResentOnlyIfRevived == resent \subseteq revived \cup Notice

=============================================================================
