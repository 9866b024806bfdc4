---------------------------- MODULE CommandQueue ----------------------------
(* The gateway's in-process command queue (process/command-queue.ts), the  *)
(* tasks of AgentLanes that run in it, the registries of active runs, and  *)
(* the restart loop that waits for both and then resets the queue          *)
(* (cli/gateway-cli/run-loop.ts).                                          *)
(*                                                                         *)
(* JavaScript runs one callback at a time, so every exported function, and *)
(* what runs when a task's promise settles, is one step: a pump finishes   *)
(* before anything else runs, and the draining flag of a lane is never set *)
(* between steps.  A task starts at most once, so the task itself stands   *)
(* for its entry in activeTaskIds.                                         *)
EXTENDS AgentLanes, FiniteSets

CONSTANTS LaneConfigs,   \* configurations: slots of the main and the cron lanes
          MaxCalls,      \* bound: the callers that ever call
          MaxResets      \* bound: lane resets plus restarts

ASSUME BoundsAssumption ==
    /\ LaneConfigs \subseteq [main : Nat, cron : Nat]
    /\ MaxCalls \in Nat
    /\ MaxResets \in Nat

VARIABLES gatewayDraining,   \* new work is rejected
          queue,             \* lane -> tasks waiting, in order
          active,            \* lane -> activeTaskIds
          maxConcurrent,     \* lane -> slots
          generation,        \* lane -> number of resets
          startedIn,         \* task -> the generation it started in
          promise,           \* task -> what its caller's promise says
          body,              \* task -> what its code is doing
          restart,           \* the run loop: "up", "draining", "closing"
          waiter,            \* the tasks the run loop waits for
          runsAwaited,       \* the run loop waits for the active runs
          drainCapped,       \* the run loop's waits have a timeout
          activeRuns,        \* the model runs in ACTIVE_EMBEDDED_RUNS
          replyRuns,         \* the turns with an operation in the reply registry
          resets             \* lane resets and restarts so far

lanes == <<queue, active, maxConcurrent, generation>>
tasks == <<startedIn, promise, body>>
loop == <<gatewayDraining, restart, waiter, runsAwaited, drainCapped>>
registry == <<activeRuns, replyRuns>>
vars == <<lanes, tasks, loop, registry, resets>>

\* Resolved and rejected by the task itself are one outcome, "settled": the
\* queue treats them alike.
Outcome == {"settled", "timeout", "cleared", "draining"}

Init ==
    /\ gatewayDraining = FALSE
    /\ queue = [l \in Lane |-> <<>>]
    /\ active = [l \in Lane |-> {}]
    /\ maxConcurrent = [l \in Lane |-> 1]
    /\ generation = [l \in Lane |-> 0]
    /\ startedIn = [t \in Task |-> 0]
    /\ promise = [t \in Task |-> "none"]
    /\ body = [t \in Task |-> "idle"]
    /\ restart = "up"
    /\ waiter = {}
    /\ runsAwaited = FALSE
    /\ drainCapped = FALSE
    /\ activeRuns = {}
    /\ replyRuns = {}
    /\ resets = 0

-----------------------------------------------------------------------------
(* Pumping.                                                                *)

\* How many entries of a lane's queue find a slot.
Slots(l, q, a, mc) ==
    LET room == IF mc[l] > Cardinality(a[l]) THEN mc[l] - Cardinality(a[l]) ELSE 0
    IN  IF Len(q[l]) < room THEN Len(q[l]) ELSE room

\* drainLane for the lanes in L: entries leave the queue in order while the
\* lane has a slot, each with the lane's current generation.
Pump(L, q, a, mc, g, b) ==
    LET n == [l \in Lane |-> IF l \in L THEN Slots(l, q, a, mc) ELSE 0]
        started == [l \in Lane |-> {q[l][i] : i \in 1..n[l]}]
    IN  /\ queue' = [l \in Lane |-> SubSeq(q[l], n[l] + 1, Len(q[l]))]
        /\ active' = [l \in Lane |-> a[l] \cup started[l]]
        /\ maxConcurrent' = mc
        /\ generation' = g
        /\ body' = [t \in Task |-> IF t \in started[LaneOf(t)] THEN "running" ELSE b[t]]
        /\ startedIn' = [t \in Task |-> IF t \in started[LaneOf(t)]
                                        THEN g[LaneOf(t)] ELSE startedIn[t]]

\* enqueueCommandInLane.
Enqueue(t, b) ==
    IF gatewayDraining
    THEN /\ promise' = [promise EXCEPT ![t] = "draining"]
         /\ body' = b
         /\ UNCHANGED <<lanes, startedIn>>
    ELSE /\ promise' = [promise EXCEPT ![t] = "pending"]
         /\ Pump({LaneOf(t)}, [queue EXCEPT ![LaneOf(t)] = Append(@, t)],
                 active, maxConcurrent, generation, b)

\* What the run loop still waits for: the tasks w, and the active runs if r.
\* With neither it goes on to close the server (Promise.all).
StillAwaited(w, r) ==
    /\ waiter' = w
    /\ runsAwaited' = r
    /\ IF w = {} /\ ~r THEN restart' = "closing" /\ drainCapped' = FALSE
                       ELSE UNCHANGED <<restart, drainCapped>>
    /\ UNCHANGED gatewayDraining

\* A mutant of NotifyActiveTaskWaiters: the run loop waits for idle lanes,
\* and so for the tasks that start while it waits.
NotifyWhenIdle(a) ==
    IF waiter # {} /\ \A l \in Lane : a[l] = {} /\ queue[l] = <<>>
    THEN StillAwaited({}, runsAwaited)
    ELSE UNCHANGED loop

\* notifyActiveTaskWaiters with the active tasks a: the wait for tasks is over
\* once none of those it began with is active.
NotifyActiveTaskWaiters(a) ==
    IF waiter # {} /\ \A l \in Lane : a[l] \cap waiter = {}
    THEN StillAwaited({}, runsAwaited)
    ELSE UNCHANGED loop

\* A mutant of Settle: the lane's slot is freed but the lane is not pumped.
SettleWithoutPump(t, outcome, b) ==
    /\ promise' = [promise EXCEPT ![t] = outcome]
    /\ active' = [active EXCEPT ![LaneOf(t)] = @ \ {t}]
    /\ NotifyActiveTaskWaiters(active')
    /\ body' = b
    /\ UNCHANGED <<queue, maxConcurrent, generation, startedIn>>

\* A mutant of Settle: the completion counts slots and does not look at the
\* generation, so a task of before a reset frees a slot of after it.
SettleAnyGeneration(t, outcome, b) ==
    /\ promise' = [promise EXCEPT ![t] = outcome]
    /\ LET l == LaneOf(t)
           a == [active EXCEPT ![l] = IF t \in @ \/ @ = {} THEN @ \ {t}
                                      ELSE @ \ {CHOOSE u \in @ : TRUE}]
       IN  /\ NotifyActiveTaskWaiters(a)
           /\ Pump({l}, queue, a, maxConcurrent, generation, b)

\* The promise of an active entry settles: completeTask, the waiters, the
\* pump and the caller's promise.  A task started before the lane's last
\* reset only settles its caller's promise.
Settle(t, outcome, b) ==
    /\ promise' = [promise EXCEPT ![t] = outcome]
    /\ IF startedIn[t] = generation[LaneOf(t)]
       THEN LET a == [active EXCEPT ![LaneOf(t)] = @ \ {t}]
            IN  /\ NotifyActiveTaskWaiters(a)
                /\ Pump({LaneOf(t)}, queue, a, maxConcurrent, generation, b)
       ELSE /\ body' = b
            /\ UNCHANGED <<lanes, startedIn, loop>>

-----------------------------------------------------------------------------
(* The callers and the bodies of their tasks.                              *)

\* A turn, a cron run or a maintenance run is enqueued.
Call(r) ==
    /\ promise[<<r, 1>>] = "none"
    /\ Cardinality({c \in Caller : promise[<<c, 1>>] # "none"}) < MaxCalls
    /\ Enqueue(<<r, 1>>, body)
    /\ UNCHANGED <<loop, registry, resets>>

\* A mutant of EnqueueInner: the body does not wait for the inner task.
EnqueueInnerForgotten(t) ==
    /\ body[t] = "running"
    /\ Nests(t)
    /\ promise[Inner(t)] = "none"
    /\ Enqueue(Inner(t), body)
    /\ UNCHANGED <<loop, registry, resets>>

\* The body of an outer task enqueues the next stage and waits for it.
EnqueueInner(t) ==
    /\ body[t] = "running"
    /\ Nests(t)
    /\ Enqueue(Inner(t), [body EXCEPT ![t] = "waiting"])
    /\ UNCHANGED <<loop, registry, resets>>

\* A body's promise settles: that of the entry too, unless it timed out.
BodySettles(t) ==
    LET b == [body EXCEPT ![t] = "over"]
    IN  IF promise[t] = "pending"
        THEN Settle(t, "settled", b)
        ELSE /\ body' = b
             /\ UNCHANGED <<lanes, promise, startedIn, loop>>

\* The inner task settled and with it the body that awaits it.
InnerSettled(t) ==
    /\ body[t] = "waiting"
    /\ promise[Inner(t)] \in Outcome
    /\ BodySettles(t)
    /\ UNCHANGED <<registry, resets>>

\* A body that awaits no inner task returns or throws.  An outer one does so
\* when the turn was aborted or there is nothing to run, and a model run after
\* it has left the registry.
Return(t) ==
    /\ body[t] = "running"
    /\ t \notin activeRuns
    /\ BodySettles(t)
    /\ UNCHANGED <<registry, resets>>

\* A mutant of TimeOut: the entry is rejected but keeps its slot.
TimeOutKeepsSlot(t) ==
    /\ Timed(t)
    /\ body[t] = "running"
    /\ promise[t] = "pending"
    /\ promise' = [promise EXCEPT ![t] = "timeout"]
    /\ UNCHANGED <<lanes, startedIn, body, loop, registry, resets>>

\* The task's timer fires: the entry is rejected and the lane released while
\* the body still runs.
TimeOut(t) ==
    /\ Timed(t)
    /\ body[t] = "running"
    /\ promise[t] = "pending"
    /\ Settle(t, "timeout", body)
    /\ UNCHANGED <<registry, resets>>

-----------------------------------------------------------------------------
(* The registries of active runs.  A session has at most one entry in each. *)

SessionLaneOf(r) == resolveSessionLane(SessionOf[r])

\* The registered runs and replies of the session of lane l.
RunsOf(l) == {t \in activeRuns : SessionLaneOf(t[1]) = l}

RepliesOf(l) == {r \in replyRuns : SessionLaneOf(r) = l}

\* An attempt of a model run registers its handle, in place of that of another
\* run of the session.
SetActiveEmbeddedRun(t) ==
    /\ ~Nests(t)
    /\ body[t] = "running"
    /\ t \notin activeRuns
    /\ activeRuns' = (activeRuns \ RunsOf(SessionLaneOf(t[1]))) \cup {t}
    /\ UNCHANGED <<lanes, tasks, loop, replyRuns, resets>>

\* The attempt ends; the run goes on to another one or to its end.
ClearActiveEmbeddedRun(t) ==
    /\ t \in activeRuns
    /\ activeRuns' = activeRuns \ {t}
    /\ UNCHANGED <<lanes, tasks, loop, replyRuns, resets>>

\* A reply of a channel begins, before it calls for its turn.  A turn without
\* one is that of another caller, or its operation was cleared.
CreateReplyOperation(r) ==
    /\ promise[<<r, 1>>] = "none"
    /\ RepliesOf(SessionLaneOf(r)) = {}
    /\ replyRuns' = replyRuns \cup {r}
    /\ UNCHANGED <<lanes, tasks, loop, activeRuns, resets>>

\* The reply is complete or has failed, with or without its turn.
ReplyEnds(r) ==
    /\ r \in replyRuns
    /\ promise[<<r, 1>>] # "pending"
    /\ replyRuns' = replyRuns \ {r}
    /\ UNCHANGED <<lanes, tasks, loop, activeRuns, resets>>

\* getActiveEmbeddedRunCount is not zero.
RunsActive == activeRuns # {} \/ replyRuns # {}

\* abortEmbeddedPiRun of all: what is running ends in its own time or never,
\* and a reply is dropped while its phase is "queued".
AbortForRestart ==
    /\ \E queued \in SUBSET {r \in replyRuns : promise[<<r, 1>>] = "none"} :
           replyRuns' = replyRuns \ queued
    /\ UNCHANGED activeRuns

-----------------------------------------------------------------------------
(* Configuration, interruption and recovery.                               *)

\* setCommandLaneConcurrency never leaves a lane without a slot.
AtLeastOne(n) == IF n < 1 THEN 1 ELSE n

\* applyGatewayLaneConcurrency: setCommandLaneConcurrency for the global lanes.
ApplyGatewayLaneConcurrency(cfg) ==
    /\ Pump(GlobalLane, queue, active,
            [maxConcurrent EXCEPT ![Main] = AtLeastOne(cfg.main),
                                  ![Cron] = AtLeastOne(cfg.cron),
                                  ![CronNested] = AtLeastOne(cfg.cron)],
            generation, body)
    /\ UNCHANGED <<promise, loop, registry, resets>>

\* A mutant of ClearCommandLane: the entries are rejected where they are.
ClearKeepsEntries(l) ==
    /\ promise' = [t \in Task |-> IF \E i \in DOMAIN queue[l] : queue[l][i] = t
                                  THEN "cleared" ELSE promise[t]]
    /\ UNCHANGED <<lanes, startedIn, body, loop, registry, resets>>

\* clearCommandLane of a session that is interrupted.
ClearCommandLane(l) ==
    /\ promise' = [t \in Task |-> IF \E i \in DOMAIN queue[l] : queue[l][i] = t
                                  THEN "cleared" ELSE promise[t]]
    /\ queue' = [queue EXCEPT ![l] = <<>>]
    /\ UNCHANGED <<active, maxConcurrent, generation, startedIn, body, loop, registry, resets>>

\* The recovery of a stuck session resets its lane: its registered run did not
\* end when it was aborted, or nothing is registered and no task holds the lane.
RecoveryResets(l) == RunsOf(l) # {} \/ (RepliesOf(l) = {} /\ active[l] = {})

\* resetCommandLane by the recovery, which has forced the run out of the
\* registries.
ResetCommandLane(l) ==
    /\ resets < MaxResets
    /\ RecoveryResets(l)
    /\ resets' = resets + 1
    /\ activeRuns' = activeRuns \ RunsOf(l)
    /\ replyRuns' = replyRuns \ RepliesOf(l)
    /\ LET a == [active EXCEPT ![l] = {}]
       IN  /\ NotifyActiveTaskWaiters(a)
           /\ Pump({l}, queue, a, maxConcurrent, [generation EXCEPT ![l] = @ + 1], body)
    /\ UNCHANGED promise

\* A restart is requested: markGatewayDraining, then the wait for the tasks
\* active now and for the active runs, unless there are none or the restart is
\* forced.
RequestRestart(force, capped) ==
    /\ restart = "up"
    /\ resets < MaxResets
    /\ resets' = resets + 1
    /\ gatewayDraining' = TRUE
    /\ LET activeAtStart == UNION {active[l] : l \in Lane}
       IN  IF force \/ (activeAtStart = {} /\ ~RunsActive)
           THEN /\ restart' = "closing"
                /\ AbortForRestart
                /\ UNCHANGED <<waiter, runsAwaited, drainCapped>>
           ELSE /\ restart' = "draining"
                /\ waiter' = activeAtStart
                /\ runsAwaited' = RunsActive
                /\ drainCapped' = capped
                /\ UNCHANGED registry
    /\ UNCHANGED <<lanes, tasks>>

\* A poll of waitForActiveEmbeddedRuns finds no run, of those it began with or
\* of later ones.
RunsDrained ==
    /\ runsAwaited
    /\ ~RunsActive
    /\ StillAwaited(waiter, FALSE)
    /\ UNCHANGED <<lanes, tasks, registry, resets>>

\* The deadline, which is the same for both waits, passes.
DrainTimeout ==
    /\ restart = "draining"
    /\ drainCapped
    /\ StillAwaited({}, FALSE)
    /\ AbortForRestart
    /\ UNCHANGED <<lanes, tasks, resets>>

\* The server is closed and the loop's next iteration calls resetAllLanes.
ResetAllLanes ==
    /\ restart = "closing"
    /\ restart' = "up"
    /\ gatewayDraining' = FALSE
    /\ Pump({l \in Lane : queue[l] # <<>>}, queue, [l \in Lane |-> {}], maxConcurrent,
            [l \in Lane |-> generation[l] + 1], body)
    /\ UNCHANGED <<promise, waiter, runsAwaited, drainCapped, registry, resets>>

-----------------------------------------------------------------------------
Next ==
    \/ \E r \in Caller : Call(r)
    \/ \E t \in Task : \/ EnqueueInner(t)
                       \/ InnerSettled(t)
                       \/ Return(t)
                       \/ TimeOut(t)
                       \/ SetActiveEmbeddedRun(t)
                       \/ ClearActiveEmbeddedRun(t)
    \/ \E r \in ChatTurn : CreateReplyOperation(r) \/ ReplyEnds(r)
    \/ \E cfg \in LaneConfigs : ApplyGatewayLaneConcurrency(cfg)
    \/ \E l \in SessionLane : ClearCommandLane(l) \/ ResetCommandLane(l)
    \/ \E force, capped \in BOOLEAN : RequestRestart(force, capped)
    \/ RunsDrained
    \/ DrainTimeout
    \/ ResetAllLanes

\* Promise callbacks run, timers fire, the poll of the active runs among them,
\* and the server closes (a watchdog, armed at the latest when the drain is
\* over, ends the process otherwise).  Nothing is assumed of model runs and of
\* replies: they may hang for ever, registered or not.
Progress ==
    \/ \E t \in Task : \/ Nests(t) /\ EnqueueInner(t)
                       \/ InnerSettled(t)
                       \/ TimeOut(t)
    \/ RunsDrained
    \/ DrainTimeout
    \/ ResetAllLanes

Spec == Init /\ [][Next]_vars

\* Each of these steps is taken at most once for a task or a restart, so weak
\* fairness of their disjunction lets none of them wait for ever.
FairSpec == Spec /\ WF_vars(Progress)

-----------------------------------------------------------------------------
\* The variables have their types.
TypeOK ==
    /\ gatewayDraining \in BOOLEAN
    /\ queue \in [Lane -> Seq(Task)]
    /\ active \in [Lane -> SUBSET Task]
    /\ maxConcurrent \in [Lane -> Nat \ {0}]
    /\ generation \in [Lane -> Nat]
    /\ startedIn \in [Task -> Nat]
    /\ promise \in [Task -> Outcome \cup {"none", "pending"}]
    /\ body \in [Task -> {"idle", "running", "waiting", "over"}]
    /\ restart \in {"up", "draining", "closing"}
    /\ waiter \subseteq Task
    /\ runsAwaited \in BOOLEAN
    /\ activeRuns \subseteq Task
    /\ replyRuns \subseteq ChatTurn
    /\ drainCapped \in BOOLEAN
    /\ resets \in 0..MaxResets

\* No lost wake-up: a lane with queued work has no free slot, whichever of
\* the callbacks, limits and resets freed one (drainLane, command-queue.ts).
NoLostWakeup ==
    \A l \in Lane : queue[l] # <<>> => Cardinality(active[l]) >= maxConcurrent[l]

\* The state is well typed, and a lane's slots are held by exactly the tasks
\* that run, were not given up by their timer and started after the lane's
\* last reset (completeTask).
SlotsTruthful ==
    /\ TypeOK
    /\ \A l \in Lane :
           active[l] = {t \in Task : /\ LaneOf(t) = l
                                     /\ promise[t] = "pending"
                                     /\ body[t] \in {"running", "waiting"}
                                     /\ startedIn[t] = generation[l]}

\* A command rejected as cleared or as draining never runs, before or after:
\* its caller may safely submit it again (clearCommandLane, enqueueCommandInLane).
RejectedNeverRuns ==
    \A t \in Task : promise[t] \in {"cleared", "draining"} => body[t] = "idle"

\* The run loop is never left waiting for nothing: while it waits for tasks,
\* one of them holds a slot, and it drains exactly while one of its two waits
\* is open (notifyActiveTaskWaiters, Promise.all in run-loop.ts).
WaiterHasReason ==
    /\ waiter # {} => \E l \in Lane : active[l] \cap waiter # {}
    /\ restart = "draining" <=> waiter # {} \/ runsAwaited

\* The work a task of a session's lane stands for is not finished.
Working(t) == \/ body[t] \in {"running", "waiting"}
              \/ Nests(t) /\ body[Inner(t)] = "running"

\* The lane gave the task up: a reset, or the timer of its model run.
GivenUp(t) == \/ startedIn[t] < generation[LaneOf(t)]
              \/ Nests(t) /\ promise[Inner(t)] = "timeout"

\* Two pieces of work on one session never overlap unless the lane gave one
\* of them up: turns, cron turns and transcript rewrites exclude each other
\* although their model runs sit in different global lanes (run.ts:372).
SessionExclusive ==
    \A t, u \in Task :
        /\ t # u
        /\ LaneOf(t) = LaneOf(u)
        /\ LaneOf(t) \in SessionLane
        /\ Working(t)
        /\ Working(u)
        => GivenUp(t) \/ GivenUp(u)

\* Every accepted command's promise settles although model runs may hang: the
\* nesting of lanes cannot deadlock (resolveGlobalLane), whatever is reset,
\* cleared or restarted meanwhile.  A caller enqueues once, so it is the same to
\* say that again and again none is pending.
EveryCallSettles == []<>(\A r \in Caller : promise[<<r, 1>>] # "pending")

\* The run loop waits, without a deadline, while runs are registered.
HeldByRuns == restart = "draining" /\ ~drainCapped /\ RunsActive

\* A restart gets to the next iteration of the loop, although the lanes' work
\* may hang and new work starts behind the tasks it waits for.  The one
\* exception: without a deadline it waits as long as runs or replies are
\* registered again and again (run-loop.ts:402, waitForActiveEmbeddedRuns).
RestartCompletes ==
    <>[]~HeldByRuns => (restart = "draining" ~> restart = "up")
=============================================================================
