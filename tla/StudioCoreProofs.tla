-------------------------- MODULE StudioCoreProofs --------------------------
(***************************************************************************)
(* The two queues of the Studio core: the lanes of the command queue, for  *)
(* any callers, sessions, limits and number of resets, and the delivery    *)
(* queue, for any messages, retries and crashes.                           *)
(***************************************************************************)
EXTENDS CommandQueue, DeliveryQueue, FiniteSetTheorems, TLAPS

-----------------------------------------------------------------------------
(* The lanes.                                                              *)
(*                                                                         *)
(* Every step of the queue ends by pumping lanes, and the properties speak *)
(* of the state after the pump only.  The inductive invariant is therefore *)
(* stated of values, Sound(queue, active, ...), so that it can be asked of *)
(* the state that a step has put together and not pumped yet.  It adds     *)
(* what the properties do not say and each of them needs: a queue holds    *)
(* tasks that have not begun, each once, so that a pump starts none twice; *)
(* and a task's code and its promise are never further apart than a timer  *)
(* or a reset can bring them.                                              *)

\* The task's code has begun and is not over.
Busy == {"running", "waiting"}

\* A lane's queue holds tasks of the lane, each once, that were accepted and
\* have not begun.
QueueInv(q, p, b) ==
    \A l \in Lane :
        /\ \A i \in DOMAIN q[l] :
              LaneOf(q[l][i]) = l /\ p[q[l][i]] = "pending" /\ b[q[l][i]] = "idle"
        /\ \A i, j \in DOMAIN q[l] : q[l][i] = q[l][j] => i = j

\* The slots of a lane are held by the tasks SlotsTruthful says.
SlotInv(a, g, s, p, b) ==
    \A l \in Lane :
        /\ IsFiniteSet(a[l])
        /\ a[l] = {t \in Task : /\ LaneOf(t) = l /\ p[t] = "pending"
                                /\ b[t] \in Busy /\ s[t] = g[l]}

\* A session's lane has one slot.
SessionInv(a, mc) ==
    \A l \in SessionLane : mc[l] = 1 /\ Cardinality(a[l]) <= 1

\* How far a task's code and its promise may be apart.
TaskInv(g, s, p, b) ==
    \A t \in Task :
        /\ s[t] <= g[LaneOf(t)]
        /\ p[t] \in {"none", "cleared", "draining"} => b[t] = "idle"
        /\ b[t] = "over" => p[t] # "pending"
        /\ p[t] = "settled" => b[t] = "over"
        /\ b[t] = "waiting" => Nests(t)
        /\ Nests(t) => /\ b[t] \in Busy => p[t] = "pending"
                       /\ p[Inner(t)] # "none" => b[t] \in {"waiting", "over"}
                       /\ p[Inner(t)] = "pending" => b[t] = "waiting"

\* The types of the lanes and the tasks, as functions of the values a step works
\* on.
LaneTypes(q, a, mc, g, s, p, b) ==
    /\ q \in [Lane -> Seq(Task)]
    /\ a \in [Lane -> SUBSET Task]
    /\ mc \in [Lane -> Nat \ {0}]
    /\ g \in [Lane -> Nat]
    /\ s \in [Task -> Nat]
    /\ p \in [Task -> Outcome \cup {"none", "pending"}]
    /\ b \in [Task -> {"idle", "running", "waiting", "over"}]

\* No lane in L has both queued work and a free slot.
Full(L, q, a, mc) == \A l \in L : q[l] # <<>> => Cardinality(a[l]) >= mc[l]

\* What holds between two pumps of the lanes.
Sound(q, a, mc, g, s, p, b) ==
    /\ LaneTypes(q, a, mc, g, s, p, b)
    /\ QueueInv(q, p, b)
    /\ SlotInv(a, g, s, p, b)
    /\ SessionInv(a, mc)
    /\ TaskInv(g, s, p, b)

\* The types of the run loop's variables.
LoopTypes ==
    /\ gatewayDraining \in BOOLEAN
    /\ restart \in {"up", "draining", "closing"}
    /\ waiter \subseteq Task
    /\ runsAwaited \in BOOLEAN
    /\ drainCapped \in BOOLEAN
    /\ resets \in 0..MaxResets

\* The types of the registries of active runs.
RegistryTypes ==
    /\ activeRuns \subseteq Task
    /\ replyRuns \subseteq ChatTurn

\* The inductive invariant: the lanes are sound, full where work is queued, and
\* the run loop has a reason to wait.
IInv ==
    /\ LoopTypes
    /\ RegistryTypes
    /\ Sound(queue, active, maxConcurrent, generation, startedIn, promise, body)
    /\ Full(Lane, queue, active, maxConcurrent)
    /\ WaiterHasReason

-----------------------------------------------------------------------------
(* The lanes and the tasks.                                                *)

\* The three global lanes are lanes, and no session lane is one of them.
LEMMA LaneFacts ==
    /\ Main \in Lane /\ Cron \in Lane /\ CronNested \in Lane
    /\ GlobalLane \subseteq Lane /\ SessionLane \subseteq Lane
    /\ GlobalLane \cap SessionLane = {}
    /\ Lane = GlobalLane \cup SessionLane
<1>1. \A s : <<"main", "">> # <<"session", s>> /\ <<"cron", "">> # <<"session", s>>
             /\ <<"cron-nested", "">> # <<"session", s>>
  OBVIOUS
<1>2. GlobalLane \cap SessionLane = {}
  BY <1>1 DEF Main, Cron, CronNested, GlobalLane, SessionLane, resolveSessionLane
<1> QED BY <1>2 DEF GlobalLane, Lane

\* A command passes two or three lanes, the last of them a global one.
LEMMA PathFacts ==
    ASSUME NEW r \in Caller
    PROVE  /\ Len(Path[r]) \in 2..3
           /\ Path[r][1] \in Lane /\ Path[r][2] \in Lane
           /\ Len(Path[r]) = 3 => Path[r][3] \in Lane
           /\ Path[r][Len(Path[r])] \in GlobalLane
<1>1. CASE r \in ChatTurn
  <2>1. Path[r] = <<resolveSessionLane(SessionOf[r]), resolveGlobalLane(Main)>>
    BY <1>1 DEF Path
  <2>2. resolveGlobalLane(Main) \in GlobalLane
    BY DEF resolveGlobalLane, Main, Cron, GlobalLane
  <2>3. resolveSessionLane(SessionOf[r]) \in Lane
    BY CallersAssumption DEF Lane, SessionLane
  <2> QED BY <2>1, <2>2, <2>3, LaneFacts
<1>2. CASE r \notin ChatTurn
  <2>1. Path[r] = <<Cron, resolveSessionLane(SessionOf[r]), resolveGlobalLane(Cron)>>
    BY <1>2 DEF Path
  <2>2. resolveGlobalLane(Cron) \in GlobalLane
    BY DEF resolveGlobalLane, GlobalLane
  <2>3. resolveSessionLane(SessionOf[r]) \in Lane
    BY CallersAssumption DEF Lane, SessionLane
  <2> QED BY <2>1, <2>2, <2>3, LaneFacts
<1> QED BY <1>1, <1>2

\* A task in a session lane nests another one, which is not the first of a
\* command.
LEMMA TaskFacts ==
    ASSUME NEW t \in Task
    PROVE  /\ LaneOf(t) \in Lane
           /\ LaneOf(t) \in SessionLane => Nests(t)
           /\ Nests(t) => Inner(t) \in Task /\ Inner(t) # t
           /\ Nests(t) => \A r : Inner(t) # <<r, 1>>
<1>1. /\ t = <<t[1], t[2]>> /\ t[1] \in Caller /\ t[2] \in 1..3
      /\ t[2] <= Len(Path[t[1]])
  BY DEF Task
<1>2. LaneOf(t) \in Lane
  BY <1>1, PathFacts DEF LaneOf
<1>3. LaneOf(t) \in SessionLane => Nests(t)
  BY <1>1, PathFacts, LaneFacts DEF LaneOf, Nests
<1>4. ASSUME Nests(t) PROVE Inner(t) \in Task
  <2>1. t[2] + 1 \in 1..3 /\ t[2] + 1 <= Len(Path[t[1]])
    BY <1>1, <1>4, PathFacts DEF Nests
  <2> QED BY <1>1, <2>1 DEF Inner, Task
<1>5. Inner(t) # t /\ \A r : Inner(t) # <<r, 1>>
  BY <1>1 DEF Inner
<1> QED BY <1>2, <1>3, <1>4, <1>5

\* A task is nested by one task only.
LEMMA InnerInjective ==
    ASSUME NEW t \in Task, NEW u \in Task, Inner(t) = Inner(u)
    PROVE  t = u
<1>1. /\ t = <<t[1], t[2]>> /\ t[2] \in 1..3
      /\ u = <<u[1], u[2]>> /\ u[2] \in 1..3
  BY DEF Task
<1>2. t[1] = u[1] /\ t[2] + 1 = u[2] + 1
  BY DEF Inner
<1> QED BY <1>1, <1>2

\* Every command has a first task.
LEMMA FirstIsTask ==
    ASSUME NEW r \in Caller
    PROVE  <<r, 1>> \in Task
BY PathFacts DEF Task

-----------------------------------------------------------------------------
(* The pump.                                                               *)

\* drainLane starts as many tasks as are queued or as there is room for,
\* whichever is less.
LEMMA SlotsRange ==
    ASSUME NEW l, NEW q, NEW a, NEW mc,
           Len(q[l]) \in Nat, Cardinality(a[l]) \in Nat, mc[l] \in Nat
    PROVE  /\ Slots(l, q, a, mc) \in 0..Len(q[l])
           /\ Cardinality(a[l]) + Slots(l, q, a, mc) <= mc[l] \/ Slots(l, q, a, mc) = 0
           /\ Slots(l, q, a, mc) = Len(q[l]) \/ Cardinality(a[l]) + Slots(l, q, a, mc) >= mc[l]
BY DEF Slots

\* There are k numbers from 1 to k.
LEMMA FirstNumbers ==
    ASSUME NEW k \in Nat
    PROVE  IsFiniteSet(1..k) /\ Cardinality(1..k) = k
<1>1. IsFiniteSet(1..k) /\ Cardinality(1..k) = IF 1 > k THEN 0 ELSE k - 1 + 1
  BY FS_Interval
<1> QED BY <1>1

\* drainLane, on some lanes: what it starts was queued, it leaves no lane both
\* queued and free, and it takes no slot away.
LEMMA PumpSound ==
    ASSUME NEW L \in SUBSET Lane, NEW q, NEW a, NEW mc, NEW g, NEW p, NEW b,
           Sound(q, a, mc, g, startedIn, p, b),
           Full(Lane \ L, q, a, mc),
           Pump(L, q, a, mc, g, b)
    PROVE  /\ Sound(queue', active', maxConcurrent', generation', startedIn', p, body')
           /\ Full(Lane, queue', active', maxConcurrent')
           /\ \A l \in Lane : a[l] \subseteq active'[l]
<1> DEFINE n == [l \in Lane |-> IF l \in L THEN Slots(l, q, a, mc) ELSE 0]
           started == [l \in Lane |-> {q[l][i] : i \in 1..n[l]}]
<1>1. /\ queue' = [l \in Lane |-> SubSeq(q[l], n[l] + 1, Len(q[l]))]
      /\ active' = [l \in Lane |-> a[l] \cup started[l]]
      /\ maxConcurrent' = mc
      /\ generation' = g
      /\ body' = [t \in Task |-> IF t \in started[LaneOf(t)] THEN "running" ELSE b[t]]
      /\ startedIn' = [t \in Task |-> IF t \in started[LaneOf(t)]
                                      THEN g[LaneOf(t)] ELSE startedIn[t]]
  BY DEF Pump
<1>2. LaneTypes(q, a, mc, g, startedIn, p, b)
  BY DEF Sound
<1>3. \A l \in Lane : /\ q[l] \in Seq(Task) /\ Len(q[l]) \in Nat /\ a[l] \subseteq Task
                      /\ mc[l] \in Nat /\ mc[l] >= 1 /\ g[l] \in Nat
  BY <1>2 DEF LaneTypes
<1>4. \A l \in Lane : IsFiniteSet(a[l]) /\ Cardinality(a[l]) \in Nat
  BY FS_CardinalityType DEF Sound, SlotInv
<1>5. \A l \in Lane : n[l] \in 0..Len(q[l])
  BY <1>3, <1>4, SlotsRange
<1>6. \A l \in Lane : 1..n[l] \subseteq DOMAIN q[l]
  BY <1>3, <1>5
<1>7. \A l \in Lane : \A t \in started[l] :
         t \in Task /\ LaneOf(t) = l /\ p[t] = "pending" /\ b[t] = "idle"
  BY <1>3, <1>6 DEF Sound, QueueInv
<1>8. \A l \in Lane : /\ IsFiniteSet(a[l] \cup started[l])
                      /\ Cardinality(a[l] \cup started[l]) = Cardinality(a[l]) + n[l]
  <2> SUFFICES ASSUME NEW l \in Lane
               PROVE  /\ IsFiniteSet(a[l] \cup started[l])
                      /\ Cardinality(a[l] \cup started[l]) = Cardinality(a[l]) + n[l]
    OBVIOUS
  <2>1. \A i, j \in DOMAIN q[l] : q[l][i] = q[l][j] => i = j
    BY DEF Sound, QueueInv
  <2>2. \A i \in DOMAIN q[l] : q[l][i] \notin a[l]
    BY DEF Sound, QueueInv, SlotInv, Busy
  <2> HIDE DEF n
  <2>3. n[l] \in Nat /\ IsFiniteSet(a[l]) /\ 1..n[l] \subseteq DOMAIN q[l]
    BY <1>3, <1>4, <1>5, <1>6
  <2>4. \A i, j \in 1..n[l] : q[l][i] = q[l][j] => i = j
    BY <2>1, <2>3
  <2>5. \A i \in 1..n[l] : q[l][i] \in started[l] /\ q[l][i] \notin a[l]
    BY <2>2, <2>3
  <2>6. \A x \in started[l] : \E i \in 1..n[l] : x = q[l][i]
    OBVIOUS
  <2> DEFINE T == started[l]
             f == [i \in 1..n[l] |-> q[l][i]]
  <2>7. ExistsBijection(1..n[l], T)
    <3>1. f \in [1..n[l] -> T]
      BY <2>5
    <3>2. \A i, j \in 1..n[l] : f[i] = f[j] => i = j
      BY <2>4
    <3>3. \A x \in T : \E i \in 1..n[l] : f[i] = x
      BY <2>6
    <3> HIDE DEF f, T
    <3>4. f \in Bijection(1..n[l], T)
      BY <3>1, <3>2, <3>3 DEF Bijection, Injection, Surjection, IsInjective
    <3> QED BY <3>4 DEF ExistsBijection
  <2>8. a[l] \cap T = {}
    BY <2>5, <2>6
  <2> HIDE DEF T
  <2>9. IsFiniteSet(1..n[l]) /\ Cardinality(1..n[l]) = n[l]
    <3>1. n[l] \in Nat
      BY <2>3
    <3> QED BY <3>1, FirstNumbers
  <2>10. IsFiniteSet(T) /\ Cardinality(T) = n[l]
    BY <2>7, <2>9, FS_Bijection
  <2>11. /\ IsFiniteSet(a[l] \cup T)
         /\ Cardinality(a[l] \cup T)
               = Cardinality(a[l]) + Cardinality(T) - Cardinality(a[l] \cap T)
    BY <2>3, <2>10, FS_Union
  <2>12. Cardinality(a[l] \cap T) = 0
    BY <2>8, FS_EmptySet
  <2>13. IsFiniteSet(a[l] \cup T) /\ Cardinality(a[l] \cup T) = Cardinality(a[l]) + n[l]
    BY <1>4, <2>3, <2>10, <2>11, <2>12
  <2> QED BY <2>13 DEF T
<1>9. \A l \in Lane : n[l] = Len(q[l]) \/ Cardinality(a[l]) + n[l] >= mc[l]
                      \/ l \notin L
  BY <1>3, <1>4, SlotsRange
<1>10. \A l \in Lane : Cardinality(a[l]) + n[l] <= mc[l] \/ n[l] = 0
  BY <1>3, <1>4, SlotsRange
<1>11. \A l \in Lane : l \notin L => n[l] = 0
  OBVIOUS
<1> HIDE DEF n
<1>12. \A l \in Lane : /\ queue'[l] \in Seq(Task)
                       /\ Len(queue'[l]) = Len(q[l]) - n[l]
                       /\ DOMAIN queue'[l] = 1..(Len(q[l]) - n[l])
                       /\ \A i \in DOMAIN queue'[l] :
                             i + n[l] \in DOMAIN q[l] /\ queue'[l][i] = q[l][i + n[l]]
  BY <1>1, <1>3, <1>5, SMTT(20)
<1>13. LaneTypes(queue', active', maxConcurrent', generation', startedIn', p, body')
  BY <1>1, <1>2, <1>3, <1>7, <1>12, TaskFacts DEF LaneTypes
<1>14. QueueInv(queue', p, body')
  <2> SUFFICES ASSUME NEW l \in Lane
               PROVE  /\ \A i \in DOMAIN queue'[l] :
                            /\ LaneOf(queue'[l][i]) = l /\ p[queue'[l][i]] = "pending"
                            /\ body'[queue'[l][i]] = "idle"
                      /\ \A i, j \in DOMAIN queue'[l] : queue'[l][i] = queue'[l][j] => i = j
    BY DEF QueueInv
  <2>1. \A i \in DOMAIN q[l] : /\ LaneOf(q[l][i]) = l /\ p[q[l][i]] = "pending"
                               /\ b[q[l][i]] = "idle" /\ q[l][i] \in Task
    BY <1>3 DEF Sound, QueueInv
  <2>2. \A i, j \in DOMAIN q[l] : q[l][i] = q[l][j] => i = j
    BY DEF Sound, QueueInv
  <2>0. \A i \in DOMAIN queue'[l] :
           /\ i \in Nat \ {0} /\ i + n[l] \in DOMAIN q[l] /\ queue'[l][i] = q[l][i + n[l]]
           /\ \A k \in 1..n[l] : k \in DOMAIN q[l] /\ k # i + n[l]
    BY <1>3, <1>5, <1>6, <1>12, SMTT(20)
  <2>3. ASSUME NEW i \in DOMAIN queue'[l] PROVE queue'[l][i] \notin started[l]
    <3>1. \A k \in 1..n[l] : q[l][i + n[l]] # q[l][k]
      BY <2>2, <2>0
    <3> QED BY <2>0, <3>1
  <2>4. ASSUME NEW i \in DOMAIN queue'[l]
        PROVE  /\ LaneOf(queue'[l][i]) = l /\ p[queue'[l][i]] = "pending"
               /\ body'[queue'[l][i]] = "idle"
    <3>1. /\ queue'[l][i] \in Task /\ LaneOf(queue'[l][i]) = l
          /\ p[queue'[l][i]] = "pending" /\ b[queue'[l][i]] = "idle"
      BY <2>0, <2>1
    <3>2. queue'[l][i] \notin started[LaneOf(queue'[l][i])]
      BY <2>3, <3>1
    <3> QED BY <1>1, <3>1, <3>2
  <2>5. ASSUME NEW i \in DOMAIN queue'[l], NEW j \in DOMAIN queue'[l],
               queue'[l][i] = queue'[l][j]
        PROVE  i = j
    <3>1. i + n[l] = j + n[l]
      BY <2>0, <2>2, <2>5
    <3> QED BY <1>5, <2>0, <3>1
  <2> QED BY <2>4, <2>5
<1>15. SlotInv(active', generation', startedIn', p, body')
  <2> SUFFICES ASSUME NEW l \in Lane
               PROVE  active'[l] = {t \in Task : /\ LaneOf(t) = l /\ p[t] = "pending"
                                                 /\ body'[t] \in Busy
                                                 /\ startedIn'[t] = generation'[l]}
    BY <1>1, <1>8 DEF SlotInv
  <2>1. a[l] = {t \in Task : /\ LaneOf(t) = l /\ p[t] = "pending"
                             /\ b[t] \in Busy /\ startedIn[t] = g[l]}
    BY DEF Sound, SlotInv
  <2>2. active'[l] = a[l] \cup started[l]
    BY <1>1
  <2>3. ASSUME NEW t \in Task, LaneOf(t) = l
        PROVE  t \in active'[l] <=> /\ p[t] = "pending" /\ body'[t] \in Busy
                                    /\ startedIn'[t] = generation'[l]
    <3>1. CASE t \in started[l]
      BY <1>1, <1>7, <2>2, <2>3, <3>1 DEF Busy
    <3>2. CASE t \notin started[l]
      BY <1>1, <2>1, <2>2, <2>3, <3>2
    <3> QED BY <3>1, <3>2
  <2> QED BY <1>7, <2>1, <2>2, <2>3
<1>16. SessionInv(active', maxConcurrent')
  <2> SUFFICES ASSUME NEW l \in SessionLane
               PROVE  maxConcurrent'[l] = 1 /\ Cardinality(active'[l]) <= 1
    BY DEF SessionInv
  <2>1. l \in Lane /\ mc[l] = 1 /\ Cardinality(a[l]) <= 1
    BY LaneFacts DEF Sound, SessionInv
  <2>2. Cardinality(active'[l]) = Cardinality(a[l]) + n[l]
    BY <1>1, <1>8, <2>1
  <2>3. Cardinality(a[l]) + n[l] <= 1
    BY <1>4, <1>10, <2>1
  <2> QED BY <1>1, <2>1, <2>2, <2>3
<1>17. TaskInv(generation', startedIn', p, body')
  <2> SUFFICES ASSUME NEW t \in Task
               PROVE  /\ startedIn'[t] <= generation'[LaneOf(t)]
                      /\ p[t] \in {"none", "cleared", "draining"} => body'[t] = "idle"
                      /\ body'[t] = "over" => p[t] # "pending"
                      /\ p[t] = "settled" => body'[t] = "over"
                      /\ body'[t] = "waiting" => Nests(t)
                      /\ Nests(t) => /\ body'[t] \in Busy => p[t] = "pending"
                                     /\ p[Inner(t)] # "none" => body'[t] \in {"waiting", "over"}
                                     /\ p[Inner(t)] = "pending" => body'[t] = "waiting"
    BY DEF TaskInv
  <2>1. /\ startedIn[t] <= g[LaneOf(t)]
        /\ p[t] \in {"none", "cleared", "draining"} => b[t] = "idle"
        /\ b[t] = "over" => p[t] # "pending"
        /\ p[t] = "settled" => b[t] = "over"
        /\ b[t] = "waiting" => Nests(t)
        /\ Nests(t) => /\ b[t] \in Busy => p[t] = "pending"
                       /\ p[Inner(t)] # "none" => b[t] \in {"waiting", "over"}
                       /\ p[Inner(t)] = "pending" => b[t] = "waiting"
    BY DEF Sound, TaskInv
  <2>2. CASE t \in started[LaneOf(t)]
    BY <1>1, <1>3, <1>7, <2>1, <2>2, TaskFacts
  <2>3. CASE t \notin started[LaneOf(t)]
    BY <1>1, <2>1, <2>3
  <2> QED BY <2>2, <2>3
<1>18. Full(Lane, queue', active', maxConcurrent')
  <2> SUFFICES ASSUME NEW l \in Lane, queue'[l] # <<>>
               PROVE  Cardinality(active'[l]) >= maxConcurrent'[l]
    BY DEF Full
  <2>1. Len(q[l]) - n[l] # 0
    BY <1>12
  <2>2. Cardinality(active'[l]) = Cardinality(a[l]) + n[l]
    BY <1>1, <1>8
  <2>3. CASE l \in L
    BY <1>1, <1>3, <1>5, <1>9, <2>1, <2>2, <2>3
  <2>4. CASE l \notin L
    <3>1. q[l] # <<>>
      BY <1>3, <1>11, <2>1, <2>4
    <3>2. Cardinality(a[l]) >= mc[l]
      BY <2>4, <3>1 DEF Full
    <3> QED BY <1>1, <1>3, <1>4, <1>11, <2>2, <2>4, <3>2
  <2> QED BY <2>3, <2>4
<1>19. \A l \in Lane : a[l] \subseteq active'[l]
  BY <1>1
<1> QED BY <1>13, <1>14, <1>15, <1>16, <1>17, <1>18, <1>19 DEF Sound

\* When the waits of the run loop change while it drains, it drains on exactly
\* if one of them is still open.
LEMMA StillAwaitedReason ==
    ASSUME NEW w \in SUBSET Task, NEW r \in BOOLEAN, StillAwaited(w, r), LoopTypes,
           restart = "draining"
    PROVE  /\ gatewayDraining' \in BOOLEAN
           /\ restart' \in {"up", "draining", "closing"}
           /\ drainCapped' \in BOOLEAN
           /\ waiter' = w /\ runsAwaited' = r
           /\ restart' = "draining" <=> waiter' # {} \/ runsAwaited'
<1>1. /\ waiter' = w /\ runsAwaited' = r /\ gatewayDraining' = gatewayDraining
      /\ w = {} /\ ~r => restart' = "closing" /\ drainCapped' = FALSE
      /\ ~(w = {} /\ ~r) => restart' = restart /\ drainCapped' = drainCapped
  BY DEF StillAwaited
<1> QED BY <1>1 DEF LoopTypes

\* After notifyActiveTaskWaiters a run loop that still waits has something to
\* wait for.
LEMMA NotifyReason ==
    ASSUME NEW a, NotifyActiveTaskWaiters(a), LoopTypes, WaiterHasReason
    PROVE  /\ gatewayDraining' \in BOOLEAN
           /\ restart' \in {"up", "draining", "closing"}
           /\ waiter' \subseteq Task
           /\ runsAwaited' \in BOOLEAN
           /\ drainCapped' \in BOOLEAN
           /\ waiter' # {} => \E l \in Lane : a[l] \cap waiter' # {}
           /\ restart' = "draining" <=> waiter' # {} \/ runsAwaited'
<1>1. CASE waiter # {} /\ \A l \in Lane : a[l] \cap waiter = {}
  <2>1. StillAwaited({}, runsAwaited)
    BY <1>1 DEF NotifyActiveTaskWaiters
  <2>2. restart = "draining" /\ runsAwaited \in BOOLEAN
    BY <1>1 DEF WaiterHasReason, LoopTypes
  <2> QED BY <2>1, <2>2, StillAwaitedReason
<1>2. CASE ~(waiter # {} /\ \A l \in Lane : a[l] \cap waiter = {})
  <2>1. UNCHANGED <<gatewayDraining, restart, waiter, runsAwaited, drainCapped>>
    BY <1>2 DEF NotifyActiveTaskWaiters, loop
  <2> QED BY <1>2, <2>1 DEF LoopTypes, WaiterHasReason
<1> QED BY <1>1, <1>2

\* What every step that pumps a lane after it has told the waiters leaves.
LEMMA NotifiedPump ==
    ASSUME NEW L \in SUBSET Lane, NEW a, NEW g, NEW b, LoopTypes, WaiterHasReason,
           Sound(queue, a, maxConcurrent, g, startedIn, promise', b),
           Full(Lane \ L, queue, a, maxConcurrent),
           NotifyActiveTaskWaiters(a),
           Pump(L, queue, a, maxConcurrent, g, b),
           resets' \in 0..MaxResets, RegistryTypes'
    PROVE  IInv'
<1>1. /\ Sound(queue', active', maxConcurrent', generation', startedIn', promise', body')
      /\ Full(Lane, queue', active', maxConcurrent')
      /\ \A l \in Lane : a[l] \subseteq active'[l]
  BY PumpSound
<1>2. LoopTypes'
  BY NotifyReason DEF LoopTypes
<1>3. WaiterHasReason'
  BY <1>1, NotifyReason DEF WaiterHasReason
<1> QED BY <1>1, <1>2, <1>3 DEF IInv

\* A step that leaves the run loop alone.
LEMMA QuietLoop ==
    ASSUME IInv, UNCHANGED loop, resets' \in 0..MaxResets, RegistryTypes',
           Sound(queue', active', maxConcurrent', generation', startedIn', promise', body'),
           Full(Lane, queue', active', maxConcurrent'),
           \A l \in Lane : active[l] \subseteq active'[l]
    PROVE  IInv'
<1>1. LoopTypes'
  BY DEF IInv, LoopTypes, loop
<1>2. WaiterHasReason'
  BY DEF IInv, WaiterHasReason, loop
<1> QED BY <1>1, <1>2 DEF IInv

\* A step that leaves the registries alone.
LEMMA QuietRegistry ==
    ASSUME IInv, UNCHANGED registry
    PROVE  RegistryTypes'
BY DEF IInv, RegistryTypes, registry

\* A step that changes nothing but the run loop and the registries.
LEMMA LanesKept ==
    ASSUME IInv, UNCHANGED <<lanes, tasks>>, LoopTypes', RegistryTypes', WaiterHasReason'
    PROVE  IInv'
<1>1. UNCHANGED <<queue, active, maxConcurrent, generation, startedIn, promise, body>>
  BY DEF lanes, tasks
<1> QED BY <1>1 DEF IInv

-----------------------------------------------------------------------------
\* enqueueCommandInLane: the task is rejected while the gateway drains, or
\* queued and the lane pumped.
LEMMA EnqueueKeeps ==
    ASSUME IInv, NEW t \in Task, NEW b, promise[t] = "none",
           b \in [Task -> {"idle", "running", "waiting", "over"}],
           \A u \in Task : b[u] = body[u] \/ (body[u] \in Busy /\ b[u] \in Busy),
           \A o \in {"pending", "draining"} :
               TaskInv(generation, startedIn, [promise EXCEPT ![t] = o], b),
           Enqueue(t, b), UNCHANGED <<loop, registry, resets>>
    PROVE  IInv'
<1>1. Sound(queue, active, maxConcurrent, generation, startedIn, promise, body)
  BY DEF IInv
<1>2. /\ LaneTypes(queue, active, maxConcurrent, generation, startedIn, promise, body)
      /\ QueueInv(queue, promise, body)
      /\ SlotInv(active, generation, startedIn, promise, body)
      /\ SessionInv(active, maxConcurrent)
      /\ Full(Lane, queue, active, maxConcurrent)
  BY DEF IInv, Sound
<1>3. body[t] = "idle" /\ b[t] = "idle"
  BY <1>1 DEF Sound, TaskInv, Busy
<1>4. \A o \in {"pending", "draining"} :
         LET p == [promise EXCEPT ![t] = o]
         IN  /\ p \in [Task -> Outcome \cup {"none", "pending"}]
             /\ QueueInv(queue, p, b)
             /\ SlotInv(active, generation, startedIn, p, b)
  <2> SUFFICES ASSUME NEW o \in {"pending", "draining"}, NEW p, p = [promise EXCEPT ![t] = o]
               PROVE  /\ p \in [Task -> Outcome \cup {"none", "pending"}]
                      /\ QueueInv(queue, p, b)
                      /\ SlotInv(active, generation, startedIn, p, b)
    OBVIOUS
  <2>1. /\ p \in [Task -> Outcome \cup {"none", "pending"}] /\ p[t] = o
        /\ \A u \in Task : u # t => p[u] = promise[u]
    BY <1>2 DEF LaneTypes, Outcome
  <2>2. \A l \in Lane : \A i \in DOMAIN queue[l] :
           queue[l][i] \in Task /\ queue[l][i] # t /\ b[queue[l][i]] = "idle"
    BY <1>2 DEF QueueInv, LaneTypes, Busy
  <2>3. QueueInv(queue, p, b)
    BY <1>2, <2>1, <2>2 DEF QueueInv
  <2>4. SlotInv(active, generation, startedIn, p, b)
    <3> SUFFICES ASSUME NEW l \in Lane
                 PROVE  active[l] = {u \in Task : /\ LaneOf(u) = l /\ p[u] = "pending"
                                                  /\ b[u] \in Busy /\ startedIn[u] = generation[l]}
      BY <1>2 DEF SlotInv
    <3>1. active[l] = {u \in Task : /\ LaneOf(u) = l /\ promise[u] = "pending"
                                    /\ body[u] \in Busy /\ startedIn[u] = generation[l]}
      BY <1>2 DEF SlotInv
    <3>2. ASSUME NEW u \in Task
          PROVE  promise[u] = "pending" /\ body[u] \in Busy <=> p[u] = "pending" /\ b[u] \in Busy
      BY <1>3, <2>1 DEF Busy
    <3> QED BY <3>1, <3>2
  <2> QED BY <2>1, <2>3, <2>4
<1>5. CASE gatewayDraining
  <2>1. /\ promise' = [promise EXCEPT ![t] = "draining"] /\ body' = b
        /\ UNCHANGED <<queue, active, maxConcurrent, generation, startedIn>>
    BY <1>5 DEF Enqueue, lanes
  <2>2. Sound(queue', active', maxConcurrent', generation', startedIn', promise', body')
    BY <1>2, <1>4, <2>1 DEF Sound, LaneTypes
  <2>3. Full(Lane, queue', active', maxConcurrent')
    BY <1>2, <2>1
  <2>4. resets' \in 0..MaxResets /\ RegistryTypes'
    BY QuietRegistry DEF IInv, LoopTypes
  <2> QED BY <2>1, <2>2, <2>3, <2>4, QuietLoop
<1>6. CASE ~gatewayDraining
  <2> DEFINE l == LaneOf(t)
             q == [queue EXCEPT ![l] = Append(@, t)]
             p == [promise EXCEPT ![t] = "pending"]
  <2>1. promise' = p /\ Pump({l}, q, active, maxConcurrent, generation, b)
    BY <1>6 DEF Enqueue
  <2>2. l \in Lane
    BY TaskFacts
  <2>3. /\ q \in [Lane -> Seq(Task)] /\ \A k \in Lane : k # l => q[k] = queue[k]
        /\ q[l] = Append(queue[l], t)
    BY <1>2, <2>2 DEF LaneTypes
  <2>4. QueueInv(queue, p, b) /\ p[t] = "pending"
    BY <1>2, <1>4 DEF LaneTypes
  <2>5. QueueInv(q, p, b)
    <3> SUFFICES ASSUME NEW k \in Lane
                 PROVE  /\ \A i \in DOMAIN q[k] : /\ LaneOf(q[k][i]) = k /\ p[q[k][i]] = "pending"
                                                  /\ b[q[k][i]] = "idle"
                        /\ \A i, j \in DOMAIN q[k] : q[k][i] = q[k][j] => i = j
      BY DEF QueueInv
    <3>1. /\ \A i \in DOMAIN queue[k] : /\ LaneOf(queue[k][i]) = k /\ p[queue[k][i]] = "pending"
                                        /\ b[queue[k][i]] = "idle"
          /\ \A i, j \in DOMAIN queue[k] : queue[k][i] = queue[k][j] => i = j
      BY <2>4 DEF QueueInv
    <3>2. CASE k # l
      BY <2>3, <3>1, <3>2
    <3>3. CASE k = l
      <4>1. queue[l] \in Seq(Task)
        BY <1>2, <2>2 DEF LaneTypes
      <4>2. /\ DOMAIN q[l] = 1..(Len(queue[l]) + 1)
            /\ q[l][Len(queue[l]) + 1] = t
            /\ \A i \in DOMAIN q[l] : i # Len(queue[l]) + 1 =>
                  i \in DOMAIN queue[l] /\ q[l][i] = queue[l][i]
        BY <2>3, <4>1
      <4>3. \A i \in DOMAIN queue[l] : queue[l][i] # t
        BY <1>2, <2>2 DEF QueueInv
      <4> HIDE DEF q, p, l
      <4>4. \A i \in DOMAIN q[l] : /\ LaneOf(q[l][i]) = l /\ p[q[l][i]] = "pending"
                                   /\ b[q[l][i]] = "idle"
        BY <1>3, <2>4, <3>1, <3>3, <4>2 DEF l
      <4>5. ASSUME NEW i \in DOMAIN q[l], NEW j \in DOMAIN q[l], q[l][i] = q[l][j]
            PROVE  i = j
        BY <3>1, <3>3, <4>2, <4>3, <4>5
      <4> QED BY <3>3, <4>4, <4>5
    <3> QED BY <3>2, <3>3
  <2>6. Sound(q, active, maxConcurrent, generation, startedIn, p, b)
    BY <1>2, <1>4, <2>3, <2>5 DEF Sound, LaneTypes
  <2>7. Full(Lane \ {l}, q, active, maxConcurrent)
    BY <1>2, <2>3 DEF Full
  <2> HIDE DEF q, p
  <2>8. /\ Sound(queue', active', maxConcurrent', generation', startedIn', p, body')
        /\ Full(Lane, queue', active', maxConcurrent')
        /\ \A k \in Lane : active[k] \subseteq active'[k]
    BY <2>1, <2>2, <2>6, <2>7, PumpSound
  <2>9. resets' \in 0..MaxResets /\ RegistryTypes'
    BY QuietRegistry DEF IInv, LoopTypes
  <2> QED BY <2>1, <2>8, <2>9, QuietLoop
<1> QED BY <1>5, <1>6

\* A task that settles gives its slot back if it still holds one, and the lane
\* is pumped.
LEMMA SettleKeeps ==
    ASSUME IInv, NEW t \in Task, NEW outcome \in {"settled", "timeout"}, NEW b,
           promise[t] = "pending", body[t] \in Busy,
           b \in [Task -> {"idle", "running", "waiting", "over"}],
           \A u \in Task : u # t => b[u] = body[u],
           TaskInv(generation, startedIn, [promise EXCEPT ![t] = outcome], b),
           Settle(t, outcome, b), UNCHANGED <<registry, resets>>
    PROVE  IInv'
<1> DEFINE l == LaneOf(t)
           a == [active EXCEPT ![l] = @ \ {t}]
           p == [promise EXCEPT ![t] = outcome]
<1>1. /\ LaneTypes(queue, active, maxConcurrent, generation, startedIn, promise, body)
      /\ QueueInv(queue, promise, body)
      /\ SlotInv(active, generation, startedIn, promise, body)
      /\ SessionInv(active, maxConcurrent)
      /\ Full(Lane, queue, active, maxConcurrent)
      /\ LoopTypes /\ resets \in 0..MaxResets /\ RegistryTypes' /\ WaiterHasReason
  BY QuietRegistry DEF IInv, Sound, LoopTypes
<1>2. l \in Lane
  BY TaskFacts
<1>3. /\ p \in [Task -> Outcome \cup {"none", "pending"}] /\ p[t] = outcome
      /\ \A u \in Task : u # t => p[u] = promise[u]
  BY <1>1 DEF LaneTypes, Outcome
<1>4. QueueInv(queue, p, b)
  <2>1. \A k \in Lane : \A i \in DOMAIN queue[k] : queue[k][i] \in Task /\ queue[k][i] # t
    BY <1>1 DEF QueueInv, LaneTypes, Busy
  <2> QED BY <1>1, <1>3, <2>1 DEF QueueInv
<1>5. promise' = p
  BY DEF Settle
<1>6. CASE startedIn[t] = generation[l]
  <2>1. NotifyActiveTaskWaiters(a) /\ Pump({l}, queue, a, maxConcurrent, generation, b)
    BY <1>6 DEF Settle
  <2>2. /\ a \in [Lane -> SUBSET Task] /\ a[l] = active[l] \ {t}
        /\ \A k \in Lane : k # l => a[k] = active[k]
    BY <1>1, <1>2 DEF LaneTypes
  <2>3. \A k \in Lane : IsFiniteSet(active[k]) /\ Cardinality(active[k]) \in Nat
    BY <1>1, FS_CardinalityType DEF SlotInv
  <2>4. \A k \in Lane : IsFiniteSet(a[k]) /\ Cardinality(a[k]) <= Cardinality(active[k])
    <3> HIDE DEF l, a
    <3>1. IsFiniteSet(a[l]) /\ Cardinality(a[l]) <= Cardinality(active[l])
      <4>1. IsFiniteSet(active[l])
        BY <1>2, <2>3
      <4>2. a[l] \in SUBSET active[l]
        BY <2>2
      <4> QED BY <4>1, <4>2, FS_Subset
    <3> QED BY <2>2, <2>3, <3>1, SMTT(20)
  <2>5. SlotInv(a, generation, startedIn, p, b)
    <3> SUFFICES ASSUME NEW k \in Lane
                 PROVE  a[k] = {u \in Task : /\ LaneOf(u) = k /\ p[u] = "pending"
                                             /\ b[u] \in Busy /\ startedIn[u] = generation[k]}
      BY <2>4 DEF SlotInv
    <3>1. active[k] = {u \in Task : /\ LaneOf(u) = k /\ promise[u] = "pending"
                                    /\ body[u] \in Busy /\ startedIn[u] = generation[k]}
      BY <1>1 DEF SlotInv
    <3>2. a[k] = active[k] \ {t}
      BY <2>2, <3>1
    <3> QED BY <1>3, <3>1, <3>2
  <2>6. SessionInv(a, maxConcurrent)
    <3> SUFFICES ASSUME NEW k \in SessionLane
                 PROVE  maxConcurrent[k] = 1 /\ Cardinality(a[k]) <= 1
      BY DEF SessionInv
    <3>1. k \in Lane /\ Cardinality(active[k]) <= 1 /\ maxConcurrent[k] = 1
      BY <1>1, LaneFacts DEF SessionInv
    <3>2. Cardinality(a[k]) \in Nat
      BY <2>4, <3>1, FS_CardinalityType
    <3> QED BY <2>3, <2>4, <3>1, <3>2
  <2>7. Sound(queue, a, maxConcurrent, generation, startedIn, p, b)
    BY <1>1, <1>3, <1>4, <2>2, <2>5, <2>6 DEF Sound, LaneTypes
  <2>8. Full(Lane \ {l}, queue, a, maxConcurrent)
    BY <1>1, <2>2 DEF Full
  <2> HIDE DEF a, p, l
  <2>9. Sound(queue, a, maxConcurrent, generation, startedIn, promise', b)
    BY <1>5, <2>7
  <2>10. {l} \in SUBSET Lane
    BY <1>2
  <2> QED BY <1>1, <2>1, <2>8, <2>9, <2>10, NotifiedPump
<1>7. CASE startedIn[t] # generation[l]
  <2>1. /\ body' = b /\ UNCHANGED loop
        /\ UNCHANGED <<queue, active, maxConcurrent, generation, startedIn>>
    BY <1>7 DEF Settle, lanes
  <2>2. SlotInv(active, generation, startedIn, p, b)
    <3> SUFFICES ASSUME NEW k \in Lane
                 PROVE  active[k] = {u \in Task : /\ LaneOf(u) = k /\ p[u] = "pending"
                                                  /\ b[u] \in Busy /\ startedIn[u] = generation[k]}
      BY <1>1 DEF SlotInv
    <3>1. active[k] = {u \in Task : /\ LaneOf(u) = k /\ promise[u] = "pending"
                                    /\ body[u] \in Busy /\ startedIn[u] = generation[k]}
      BY <1>1 DEF SlotInv
    <3>2. t \notin active[k]
      BY <1>7, <3>1
    <3> QED BY <1>3, <3>1, <3>2
  <2>3. Sound(queue, active, maxConcurrent, generation, startedIn, p, b)
    BY <1>1, <1>3, <1>4, <2>2 DEF Sound, LaneTypes
  <2> HIDE DEF p
  <2>4. Sound(queue', active', maxConcurrent', generation', startedIn', promise', body')
    BY <1>5, <2>1, <2>3
  <2>5. Full(Lane, queue', active', maxConcurrent')
    BY <1>1, <2>1
  <2> QED BY <1>1, <2>1, <2>4, <2>5, QuietLoop
<1> QED BY <1>6, <1>7

\* The task's code is over: its promise settles, unless its timer has done that.
LEMMA BodySettlesKeeps ==
    ASSUME IInv, NEW t \in Task, body[t] \in Busy,
           Nests(t) => promise[Inner(t)] # "pending",
           BodySettles(t), UNCHANGED <<registry, resets>>
    PROVE  IInv'
<1> DEFINE b == [body EXCEPT ![t] = "over"]
           p == [promise EXCEPT ![t] = "settled"]
<1>1. /\ LaneTypes(queue, active, maxConcurrent, generation, startedIn, promise, body)
      /\ QueueInv(queue, promise, body)
      /\ SlotInv(active, generation, startedIn, promise, body)
      /\ SessionInv(active, maxConcurrent)
      /\ TaskInv(generation, startedIn, promise, body)
      /\ Full(Lane, queue, active, maxConcurrent)
      /\ LoopTypes /\ resets \in 0..MaxResets /\ RegistryTypes' /\ WaiterHasReason
  BY QuietRegistry DEF IInv, Sound, LoopTypes
<1>2. /\ b \in [Task -> {"idle", "running", "waiting", "over"}] /\ b[t] = "over"
      /\ \A u \in Task : u # t => b[u] = body[u]
  BY <1>1 DEF LaneTypes
<1>3. CASE promise[t] = "pending"
  <2>1. Settle(t, "settled", b)
    BY <1>3 DEF BodySettles
  <2>2. p[t] = "settled" /\ \A u \in Task : u # t => p[u] = promise[u]
    BY <1>1 DEF LaneTypes
  <2>3. TaskInv(generation, startedIn, p, b)
    <3> HIDE DEF p, b
    <3> QED BY <1>1, <1>2, <1>3, <2>2, TaskFacts DEF TaskInv, Busy
  <2> HIDE DEF b
  <2> QED BY <1>2, <1>3, <2>1, <2>3, SettleKeeps
<1>4. CASE promise[t] # "pending"
  <2>1. /\ body' = b /\ UNCHANGED loop
        /\ UNCHANGED <<queue, active, maxConcurrent, generation, startedIn, promise>>
    BY <1>4 DEF BodySettles, lanes
  <2> HIDE DEF b
  <2>2. QueueInv(queue, promise, b)
    <3>1. \A k \in Lane : \A i \in DOMAIN queue[k] : queue[k][i] \in Task /\ queue[k][i] # t
      BY <1>1 DEF QueueInv, LaneTypes, Busy
    <3> QED BY <1>1, <1>2, <3>1 DEF QueueInv
  <2>3. SlotInv(active, generation, startedIn, promise, b)
    <3> SUFFICES ASSUME NEW k \in Lane
                 PROVE  active[k] = {u \in Task : /\ LaneOf(u) = k /\ promise[u] = "pending"
                                                  /\ b[u] \in Busy /\ startedIn[u] = generation[k]}
      BY <1>1 DEF SlotInv
    <3>1. active[k] = {u \in Task : /\ LaneOf(u) = k /\ promise[u] = "pending"
                                    /\ body[u] \in Busy /\ startedIn[u] = generation[k]}
      BY <1>1 DEF SlotInv
    <3> QED BY <1>2, <1>4, <3>1
  <2>4. TaskInv(generation, startedIn, promise, b)
    BY <1>1, <1>2, <1>4, TaskFacts DEF TaskInv, Busy
  <2>5. Sound(queue', active', maxConcurrent', generation', startedIn', promise', body')
    BY <1>1, <1>2, <2>1, <2>2, <2>3, <2>4 DEF Sound, LaneTypes
  <2>6. Full(Lane, queue', active', maxConcurrent')
    BY <1>1, <2>1
  <2> QED BY <1>1, <2>1, <2>5, <2>6, QuietLoop
<1> QED BY <1>3, <1>4

-----------------------------------------------------------------------------
\* A caller enqueues the first task of a command.
LEMMA CallKeeps ==
    ASSUME IInv, NEW r \in Caller, Call(r)
    PROVE  IInv'
<1> DEFINE t == <<r, 1>>
<1>1. t \in Task
  BY FirstIsTask
<1>2. \A u \in Task : Nests(u) => Inner(u) # t
  BY TaskFacts
<1>3. promise[t] = "none" /\ Enqueue(t, body) /\ UNCHANGED <<loop, registry, resets>>
  BY DEF Call
<1>4. /\ TaskInv(generation, startedIn, promise, body)
      /\ LaneTypes(queue, active, maxConcurrent, generation, startedIn, promise, body)
  BY DEF IInv, Sound
<1> HIDE DEF t
<1>5. ASSUME NEW o \in {"pending", "draining"}
      PROVE  TaskInv(generation, startedIn, [promise EXCEPT ![t] = o], body)
  <2> DEFINE p == [promise EXCEPT ![t] = o]
  <2>1. p[t] = o /\ \A u \in Task : u # t => p[u] = promise[u]
    BY <1>1, <1>4 DEF LaneTypes
  <2> HIDE DEF p
  <2>2. TaskInv(generation, startedIn, p, body)
    BY <1>1, <1>2, <1>3, <1>4, <2>1, TaskFacts DEF TaskInv, Busy
  <2> QED BY <2>2 DEF p
<1>6. body \in [Task -> {"idle", "running", "waiting", "over"}]
  BY <1>4 DEF LaneTypes
<1> QED BY <1>1, <1>3, <1>5, <1>6, EnqueueKeeps

\* A running task enqueues the one it nests and waits for it.
LEMMA EnqueueInnerKeeps ==
    ASSUME IInv, NEW t \in Task, EnqueueInner(t)
    PROVE  IInv'
<1> DEFINE v == Inner(t)
           b == [body EXCEPT ![t] = "waiting"]
<1>1. /\ body[t] = "running" /\ Nests(t) /\ Enqueue(v, b) /\ UNCHANGED <<loop, registry, resets>>
  BY DEF EnqueueInner
<1>2. v \in Task /\ v # t /\ \A u \in Task : Inner(u) = v => u = t
  BY <1>1, TaskFacts, InnerInjective
<1>3. /\ TaskInv(generation, startedIn, promise, body)
      /\ LaneTypes(queue, active, maxConcurrent, generation, startedIn, promise, body)
  BY DEF IInv, Sound
<1>4. promise[v] = "none" /\ promise[t] = "pending"
  BY <1>1, <1>3 DEF TaskInv, Busy
<1>5. /\ b \in [Task -> {"idle", "running", "waiting", "over"}] /\ b[t] = "waiting"
      /\ \A u \in Task : u # t => b[u] = body[u]
  BY <1>3 DEF LaneTypes
<1>6. ASSUME NEW o \in {"pending", "draining"}
      PROVE  TaskInv(generation, startedIn, [promise EXCEPT ![v] = o], b)
  <2> DEFINE p == [promise EXCEPT ![v] = o]
  <2>1. p[v] = o /\ \A u \in Task : u # v => p[u] = promise[u]
    BY <1>2, <1>3 DEF LaneTypes
  <2> HIDE DEF p, b
  <2>2. TaskInv(generation, startedIn, p, b)
    BY <1>1, <1>2, <1>3, <1>4, <1>5, <2>1, TaskFacts DEF TaskInv, Busy
  <2> QED BY <2>2 DEF p
<1>7. \A u \in Task : b[u] = body[u] \/ (body[u] \in Busy /\ b[u] \in Busy)
  BY <1>1, <1>5 DEF Busy
<1> HIDE DEF b, v
<1> QED BY <1>1, <1>2, <1>4, <1>5, <1>6, <1>7, EnqueueKeeps

\* The nested promise has settled, and so does the task.
LEMMA InnerSettledKeeps ==
    ASSUME IInv, NEW t \in Task, InnerSettled(t)
    PROVE  IInv'
BY BodySettlesKeeps DEF InnerSettled, Outcome, Busy

\* A task returns.
LEMMA ReturnKeeps ==
    ASSUME IInv, NEW t \in Task, Return(t)
    PROVE  IInv'
<1>1. Nests(t) => promise[Inner(t)] # "pending"
  BY DEF Return, IInv, Sound, TaskInv
<1> QED BY <1>1, BodySettlesKeeps DEF Return, Busy

\* A task's timer gives it up while its code goes on.
LEMMA TimeOutKeeps ==
    ASSUME IInv, NEW t \in Task, TimeOut(t)
    PROVE  IInv'
<1> DEFINE p == [promise EXCEPT ![t] = "timeout"]
<1>1. /\ ~Nests(t) /\ body[t] = "running" /\ promise[t] = "pending"
      /\ Settle(t, "timeout", body) /\ UNCHANGED <<registry, resets>>
  BY DEF TimeOut, Timed
<1>2. /\ TaskInv(generation, startedIn, promise, body)
      /\ LaneTypes(queue, active, maxConcurrent, generation, startedIn, promise, body)
  BY DEF IInv, Sound
<1>3. p[t] = "timeout" /\ \A u \in Task : u # t => p[u] = promise[u]
  BY <1>2 DEF LaneTypes
<1>4. TaskInv(generation, startedIn, p, body)
  <2> HIDE DEF p
  <2> QED BY <1>1, <1>2, <1>3, TaskFacts DEF TaskInv, Busy
<1>5. body \in [Task -> {"idle", "running", "waiting", "over"}] /\ body[t] \in Busy
  BY <1>1, <1>2 DEF LaneTypes, Busy
<1> QED BY <1>1, <1>4, <1>5, SettleKeeps

\* applyGatewayLaneConcurrency raises or lowers the limits and pumps the lanes.
LEMMA ApplyKeeps ==
    ASSUME IInv, NEW cfg \in LaneConfigs, ApplyGatewayLaneConcurrency(cfg)
    PROVE  IInv'
<1> DEFINE mc == [maxConcurrent EXCEPT ![Main] = AtLeastOne(cfg.main),
                                       ![Cron] = AtLeastOne(cfg.cron),
                                       ![CronNested] = AtLeastOne(cfg.cron)]
<1>1. /\ Pump(GlobalLane, queue, active, mc, generation, body)
      /\ UNCHANGED <<promise, loop, registry, resets>>
  BY DEF ApplyGatewayLaneConcurrency
<1>2. /\ Sound(queue, active, maxConcurrent, generation, startedIn, promise, body)
      /\ Full(Lane, queue, active, maxConcurrent)
      /\ resets \in 0..MaxResets /\ RegistryTypes'
  BY <1>1, QuietRegistry DEF IInv, LoopTypes
<1>3. AtLeastOne(cfg.main) \in Nat \ {0} /\ AtLeastOne(cfg.cron) \in Nat \ {0}
  BY BoundsAssumption DEF AtLeastOne
<1>4. /\ mc \in [Lane -> Nat \ {0}]
      /\ \A l \in SessionLane : l \in Lane /\ mc[l] = maxConcurrent[l]
      /\ Lane \ GlobalLane \subseteq SessionLane
  BY <1>2, <1>3, LaneFacts DEF Sound, LaneTypes, GlobalLane
<1> HIDE DEF mc
<1>5. Sound(queue, active, mc, generation, startedIn, promise, body)
  BY <1>2, <1>4 DEF Sound, LaneTypes, SessionInv
<1>6. Full(Lane \ GlobalLane, queue, active, mc)
  BY <1>2, <1>4 DEF Full
<1>7. GlobalLane \in SUBSET Lane
  BY LaneFacts
<1>8. /\ Sound(queue', active', maxConcurrent', generation', startedIn', promise, body')
      /\ Full(Lane, queue', active', maxConcurrent')
      /\ \A l \in Lane : active[l] \subseteq active'[l]
  BY <1>1, <1>5, <1>6, <1>7, PumpSound
<1> QED BY <1>1, <1>2, <1>8, QuietLoop

\* clearCommandLane rejects what is queued; the slots stay with the tasks that
\* run.
LEMMA ClearKeeps ==
    ASSUME IInv, NEW l \in SessionLane, ClearCommandLane(l)
    PROVE  IInv'
<1> DEFINE cleared == {t \in Task : \E i \in DOMAIN queue[l] : queue[l][i] = t}
<1>1. /\ promise' = [t \in Task |-> IF t \in cleared THEN "cleared" ELSE promise[t]]
      /\ queue' = [queue EXCEPT ![l] = <<>>]
      /\ UNCHANGED <<active, maxConcurrent, generation, startedIn, body, loop, registry, resets>>
  BY DEF ClearCommandLane
<1>2. /\ LaneTypes(queue, active, maxConcurrent, generation, startedIn, promise, body)
      /\ QueueInv(queue, promise, body)
      /\ SlotInv(active, generation, startedIn, promise, body)
      /\ SessionInv(active, maxConcurrent)
      /\ TaskInv(generation, startedIn, promise, body)
      /\ Full(Lane, queue, active, maxConcurrent)
      /\ resets \in 0..MaxResets /\ RegistryTypes'
  BY <1>1, QuietRegistry DEF IInv, Sound, LoopTypes
<1>3. l \in Lane
  BY LaneFacts
<1>4. \A t \in cleared : LaneOf(t) = l /\ promise[t] = "pending" /\ body[t] = "idle"
  BY <1>2, <1>3 DEF QueueInv
<1> HIDE DEF cleared
<1>5. LaneTypes(queue', active', maxConcurrent', generation', startedIn', promise', body')
  BY <1>1, <1>2, <1>3 DEF LaneTypes, Outcome
<1>6. QueueInv(queue', promise', body')
  <2> SUFFICES ASSUME NEW k \in Lane
               PROVE  /\ \A i \in DOMAIN queue'[k] :
                            /\ LaneOf(queue'[k][i]) = k /\ promise'[queue'[k][i]] = "pending"
                            /\ body'[queue'[k][i]] = "idle"
                      /\ \A i, j \in DOMAIN queue'[k] : queue'[k][i] = queue'[k][j] => i = j
    BY DEF QueueInv
  <2>1. CASE k = l
    <3>1. DOMAIN queue'[k] = {}
      BY <1>1, <1>2, <1>3, <2>1 DEF LaneTypes
    <3> QED BY <3>1
  <2>2. CASE k # l
    <3>1. queue'[k] = queue[k]
      BY <1>1, <1>2, <2>2 DEF LaneTypes
    <3>2. \A i \in DOMAIN queue[k] :
             /\ queue[k][i] \in Task /\ LaneOf(queue[k][i]) = k
             /\ promise[queue[k][i]] = "pending" /\ body[queue[k][i]] = "idle"
      BY <1>2 DEF QueueInv, LaneTypes
    <3>3. \A i \in DOMAIN queue[k] : queue[k][i] \notin cleared
      BY <1>4, <2>2, <3>2
    <3>4. \A i, j \in DOMAIN queue[k] : queue[k][i] = queue[k][j] => i = j
      BY <1>2 DEF QueueInv
    <3> QED BY <1>1, <3>1, <3>2, <3>3, <3>4
  <2> QED BY <2>1, <2>2
<1>7. SlotInv(active', generation', startedIn', promise', body')
  <2> SUFFICES ASSUME NEW k \in Lane
               PROVE  active[k] = {t \in Task : /\ LaneOf(t) = k /\ promise'[t] = "pending"
                                                /\ body[t] \in Busy /\ startedIn[t] = generation[k]}
    BY <1>1, <1>2 DEF SlotInv
  <2>1. active[k] = {t \in Task : /\ LaneOf(t) = k /\ promise[t] = "pending"
                                  /\ body[t] \in Busy /\ startedIn[t] = generation[k]}
    BY <1>2 DEF SlotInv
  <2>2. \A t \in Task : body[t] \in Busy => promise'[t] = promise[t]
    BY <1>1, <1>4 DEF Busy
  <2> QED BY <2>1, <2>2
<1>8. TaskInv(generation', startedIn', promise', body')
  BY <1>1, <1>2, <1>4, TaskFacts DEF TaskInv, Busy
<1>9. SessionInv(active', maxConcurrent')
  BY <1>1, <1>2
<1>10. Full(Lane, queue', active', maxConcurrent')
  BY <1>1, <1>2, <1>3 DEF Full, LaneTypes
<1>11. Sound(queue', active', maxConcurrent', generation', startedIn', promise', body')
  BY <1>5, <1>6, <1>7, <1>8, <1>9 DEF Sound
<1> QED BY <1>1, <1>2, <1>10, <1>11, QuietLoop

\* Emptying the slots of some lanes and advancing their generation leaves a
\* sound state: no task has started in a generation still to come.
LEMMA ResetSound ==
    ASSUME IInv, NEW R \in SUBSET Lane, NEW a, NEW g,
           a = [l \in Lane |-> IF l \in R THEN {} ELSE active[l]],
           g = [l \in Lane |-> IF l \in R THEN generation[l] + 1 ELSE generation[l]]
    PROVE  Sound(queue, a, maxConcurrent, g, startedIn, promise, body)
<1>1. /\ LaneTypes(queue, active, maxConcurrent, generation, startedIn, promise, body)
      /\ QueueInv(queue, promise, body)
      /\ SlotInv(active, generation, startedIn, promise, body)
      /\ SessionInv(active, maxConcurrent)
      /\ TaskInv(generation, startedIn, promise, body)
  BY DEF IInv, Sound
<1>2. LaneTypes(queue, a, maxConcurrent, g, startedIn, promise, body)
  BY <1>1 DEF LaneTypes
<1>3. SlotInv(a, g, startedIn, promise, body)
  <2> SUFFICES ASSUME NEW l \in Lane
               PROVE  /\ IsFiniteSet(a[l])
                      /\ a[l] = {t \in Task : /\ LaneOf(t) = l /\ promise[t] = "pending"
                                              /\ body[t] \in Busy /\ startedIn[t] = g[l]}
    BY DEF SlotInv
  <2>1. CASE l \notin R
    BY <1>1, <2>1 DEF SlotInv
  <2>2. CASE l \in R
    <3>1. \A t \in Task : LaneOf(t) = l => startedIn[t] # g[l]
      BY <1>1, <2>2 DEF TaskInv, LaneTypes
    <3> QED BY <2>2, <3>1, FS_EmptySet
  <2> QED BY <2>1, <2>2
<1>4. SessionInv(a, maxConcurrent)
  <2>1. Cardinality({}) = 0
    BY FS_EmptySet
  <2> QED BY <1>1, <2>1, LaneFacts DEF SessionInv
<1>5. TaskInv(g, startedIn, promise, body)
  <2>1. \A t \in Task : startedIn[t] <= g[LaneOf(t)]
    BY <1>1, TaskFacts DEF TaskInv, LaneTypes
  <2> QED BY <1>1, <2>1 DEF TaskInv
<1> QED BY <1>1, <1>2, <1>3, <1>4, <1>5 DEF Sound

\* resetCommandLane forgets the tasks of one lane.
LEMMA ResetKeeps ==
    ASSUME IInv, NEW l \in SessionLane, ResetCommandLane(l)
    PROVE  IInv'
<1> DEFINE a == [active EXCEPT ![l] = {}]
           g == [generation EXCEPT ![l] = @ + 1]
<1>1. /\ NotifyActiveTaskWaiters(a) /\ Pump({l}, queue, a, maxConcurrent, g, body)
      /\ resets < MaxResets /\ resets' = resets + 1 /\ promise' = promise
      /\ activeRuns' = activeRuns \ RunsOf(l) /\ replyRuns' = replyRuns \ RepliesOf(l)
  BY DEF ResetCommandLane
<1>2. l \in Lane
  BY LaneFacts
<1>3. /\ active \in [Lane -> SUBSET Task] /\ generation \in [Lane -> Nat]
      /\ Full(Lane, queue, active, maxConcurrent)
      /\ LoopTypes /\ RegistryTypes /\ WaiterHasReason
  BY DEF IInv, Sound, LaneTypes
<1>4. /\ a = [k \in Lane |-> IF k \in {l} THEN {} ELSE active[k]]
      /\ g = [k \in Lane |-> IF k \in {l} THEN generation[k] + 1 ELSE generation[k]]
  BY <1>2, <1>3
<1>5. Full(Lane \ {l}, queue, a, maxConcurrent)
  BY <1>3 DEF Full
<1> HIDE DEF a, g
<1>6. {l} \in SUBSET Lane
  BY <1>2
<1>7. Sound(queue, a, maxConcurrent, g, startedIn, promise', body)
  BY <1>1, <1>4, <1>6, ResetSound
<1>8. resets' \in 0..MaxResets
  BY <1>1, <1>3, BoundsAssumption DEF LoopTypes
<1>9. RegistryTypes'
  BY <1>1, <1>3 DEF RegistryTypes
<1> QED BY <1>1, <1>3, <1>5, <1>6, <1>7, <1>8, <1>9, NotifiedPump

\* resetAllLanes forgets those of every lane and ends the restart.
LEMMA ResetAllKeeps ==
    ASSUME IInv, ResetAllLanes
    PROVE  IInv'
<1> DEFINE a == [l \in Lane |-> {}]
           g == [l \in Lane |-> generation[l] + 1]
           L == {l \in Lane : queue[l] # <<>>}
<1>1. /\ Pump(L, queue, a, maxConcurrent, g, body)
      /\ restart = "closing" /\ restart' = "up" /\ gatewayDraining' = FALSE
      /\ UNCHANGED <<promise, waiter, runsAwaited, drainCapped, registry, resets>>
  BY DEF ResetAllLanes
<1>2. /\ a = [k \in Lane |-> IF k \in Lane THEN {} ELSE active[k]]
      /\ g = [k \in Lane |-> IF k \in Lane THEN generation[k] + 1 ELSE generation[k]]
  OBVIOUS
<1>3. Full(Lane \ L, queue, a, maxConcurrent) /\ L \in SUBSET Lane
  BY DEF Full
<1> HIDE DEF a, g, L
<1>4. Sound(queue, a, maxConcurrent, g, startedIn, promise, body)
  BY <1>2, ResetSound
<1>5. /\ Sound(queue', active', maxConcurrent', generation', startedIn', promise, body')
      /\ Full(Lane, queue', active', maxConcurrent')
  BY <1>1, <1>3, <1>4, PumpSound
<1>6. waiter = {} /\ ~runsAwaited
  BY <1>1 DEF IInv, WaiterHasReason
<1>7. LoopTypes' /\ WaiterHasReason' /\ RegistryTypes'
  BY <1>1, <1>6, QuietRegistry DEF IInv, LoopTypes, WaiterHasReason
<1> QED BY <1>1, <1>5, <1>7 DEF IInv

\* An aborted reply leaves the registry or stays in it.
LEMMA AbortTypes ==
    ASSUME RegistryTypes, AbortForRestart
    PROVE  RegistryTypes'
BY DEF AbortForRestart, RegistryTypes

\* A restart is requested: the run loop waits for what is active and for what
\* is registered, if anything is.
LEMMA RestartKeeps ==
    ASSUME IInv, NEW force \in BOOLEAN, NEW capped \in BOOLEAN, RequestRestart(force, capped)
    PROVE  IInv'
<1> DEFINE activeAtStart == UNION {active[l] : l \in Lane}
<1>1. /\ LoopTypes /\ RegistryTypes /\ active \in [Lane -> SUBSET Task]
      /\ restart = "up" /\ waiter = {} /\ ~runsAwaited
  BY DEF IInv, Sound, LaneTypes, RequestRestart, WaiterHasReason
<1>2. /\ resets' = resets + 1 /\ resets < MaxResets /\ gatewayDraining' = TRUE
      /\ active' = active /\ UNCHANGED <<lanes, tasks>>
  BY DEF RequestRestart, lanes
<1>3. \/ /\ restart' = "closing" /\ UNCHANGED <<waiter, runsAwaited, drainCapped>>
         /\ AbortForRestart
      \/ /\ restart' = "draining" /\ waiter' = activeAtStart /\ drainCapped' = capped
         /\ runsAwaited' = RunsActive /\ UNCHANGED registry
         /\ activeAtStart # {} \/ RunsActive
  BY DEF RequestRestart
<1>4. activeAtStart \subseteq Task /\ RunsActive \in BOOLEAN
  BY <1>1 DEF RunsActive
<1>5. LoopTypes'
  BY <1>1, <1>2, <1>3, <1>4, BoundsAssumption DEF LoopTypes
<1>6. RegistryTypes'
  BY <1>1, <1>3, AbortTypes, QuietRegistry
<1>7. waiter' # {} => \E l \in Lane : active'[l] \cap waiter' # {}
  <2> SUFFICES ASSUME waiter' # {} PROVE \E l \in Lane : active'[l] \cap waiter' # {}
    OBVIOUS
  <2>1. waiter' = activeAtStart
    BY <1>1, <1>3
  <2>2. PICK t \in activeAtStart : TRUE
    BY <2>1
  <2>3. PICK l \in Lane : t \in active[l]
    BY <2>2
  <2> QED BY <1>2, <2>1, <2>2, <2>3
<1>8. WaiterHasReason'
  BY <1>1, <1>3, <1>7 DEF WaiterHasReason
<1> QED BY <1>2, <1>5, <1>6, <1>8, LanesKept

\* A wait of the run loop that ends while the lanes stand still leaves it with
\* the tasks of the other one, if that is open.
LEMMA WaitEnds ==
    ASSUME IInv, restart = "draining", NEW w \in {{}, waiter}, NEW r \in BOOLEAN,
           StillAwaited(w, r), UNCHANGED <<lanes, tasks, resets>>, RegistryTypes'
    PROVE  IInv'
<1>1. LoopTypes /\ WaiterHasReason /\ w \in SUBSET Task
  BY DEF IInv, LoopTypes
<1>2. /\ gatewayDraining' \in BOOLEAN
      /\ restart' \in {"up", "draining", "closing"}
      /\ drainCapped' \in BOOLEAN
      /\ waiter' = w /\ runsAwaited' = r
      /\ restart' = "draining" <=> waiter' # {} \/ runsAwaited'
  BY <1>1, StillAwaitedReason
<1>3. LoopTypes'
  BY <1>1, <1>2 DEF LoopTypes
<1>4. active' = active
  BY DEF lanes
<1>5. WaiterHasReason'
  BY <1>1, <1>2, <1>4 DEF WaiterHasReason
<1> QED BY <1>3, <1>5, LanesKept

\* A poll finds no registered run.
LEMMA RunsDrainedKeeps ==
    ASSUME IInv, RunsDrained
    PROVE  IInv'
<1>1. restart = "draining"
  BY DEF RunsDrained, IInv, WaiterHasReason
<1> QED BY <1>1, WaitEnds, QuietRegistry DEF RunsDrained

\* The deadline passes.
LEMMA DrainTimeoutKeeps ==
    ASSUME IInv, DrainTimeout
    PROVE  IInv'
BY WaitEnds, AbortTypes DEF DrainTimeout, IInv

\* Runs and replies come and go in the registries; the lanes and the run loop
\* stay as they are.
LEMMA RegistryKeeps ==
    ASSUME IInv,
           \/ \E t \in Task : SetActiveEmbeddedRun(t) \/ ClearActiveEmbeddedRun(t)
           \/ \E r \in ChatTurn : CreateReplyOperation(r) \/ ReplyEnds(r)
    PROVE  IInv'
<1>1. UNCHANGED <<lanes, tasks, loop, resets>>
  BY DEF SetActiveEmbeddedRun, ClearActiveEmbeddedRun, CreateReplyOperation, ReplyEnds
<1>2. RegistryTypes'
  BY DEF SetActiveEmbeddedRun, ClearActiveEmbeddedRun, CreateReplyOperation, ReplyEnds,
         IInv, RegistryTypes
<1>3. UNCHANGED <<active, gatewayDraining, restart, waiter, runsAwaited, drainCapped, resets>>
  BY <1>1 DEF lanes, loop
<1>4. LoopTypes' /\ WaiterHasReason'
  BY <1>3 DEF IInv, LoopTypes, WaiterHasReason
<1> QED BY <1>1, <1>2, <1>4, LanesKept

\* Nothing changes.
LEMMA StutterKeeps ==
    ASSUME IInv, UNCHANGED vars
    PROVE  IInv'
<1>1. LoopTypes' /\ WaiterHasReason' /\ RegistryTypes'
  BY QuietRegistry DEF IInv, LoopTypes, vars, lanes, loop, WaiterHasReason
<1> QED BY <1>1, LanesKept DEF vars

\* The invariant holds at first.
LEMMA InitSound == Init => IInv
<1> SUFFICES ASSUME Init PROVE IInv
  OBVIOUS
<1>1. LoopTypes /\ RegistryTypes /\ WaiterHasReason
  <2>1. resets \in 0..MaxResets
    BY BoundsAssumption DEF Init
  <2> QED BY <2>1 DEF Init, LoopTypes, RegistryTypes, WaiterHasReason
<1>2. LaneTypes(queue, active, maxConcurrent, generation, startedIn, promise, body)
  BY DEF Init, LaneTypes
<1>3. IsFiniteSet({}) /\ Cardinality({}) = 0
  BY FS_EmptySet
<1>4. QueueInv(queue, promise, body)
  BY DEF Init, QueueInv
<1>5. SlotInv(active, generation, startedIn, promise, body)
  BY <1>3 DEF Init, SlotInv, Busy
<1>6. SessionInv(active, maxConcurrent)
  BY <1>3, LaneFacts DEF Init, SessionInv
<1>7. TaskInv(generation, startedIn, promise, body)
  BY TaskFacts DEF Init, TaskInv, Busy
<1>8. Full(Lane, queue, active, maxConcurrent)
  BY DEF Init, Full
<1> QED BY <1>1, <1>2, <1>4, <1>5, <1>6, <1>7, <1>8 DEF IInv, Sound

\* Every step keeps it.
LEMMA NextKeeps == IInv /\ [Next]_vars => IInv'
<1> SUFFICES ASSUME IInv, [Next]_vars PROVE IInv'
  OBVIOUS
<1>1. ASSUME NEW r \in Caller, Call(r) PROVE IInv'
  BY <1>1, CallKeeps
<1>2. ASSUME NEW t \in Task, EnqueueInner(t) PROVE IInv'
  BY <1>2, EnqueueInnerKeeps
<1>3. ASSUME NEW t \in Task, InnerSettled(t) PROVE IInv'
  BY <1>3, InnerSettledKeeps
<1>4. ASSUME NEW t \in Task, Return(t) PROVE IInv'
  BY <1>4, ReturnKeeps
<1>5. ASSUME NEW t \in Task, TimeOut(t) PROVE IInv'
  BY <1>5, TimeOutKeeps
<1>6. ASSUME NEW cfg \in LaneConfigs, ApplyGatewayLaneConcurrency(cfg) PROVE IInv'
  BY <1>6, ApplyKeeps
<1>7. ASSUME NEW l \in SessionLane, ClearCommandLane(l) PROVE IInv'
  BY <1>7, ClearKeeps
<1>8. ASSUME NEW l \in SessionLane, ResetCommandLane(l) PROVE IInv'
  BY <1>8, ResetKeeps
<1>9. ASSUME NEW force \in BOOLEAN, NEW capped \in BOOLEAN, RequestRestart(force, capped)
      PROVE  IInv'
  BY <1>9, RestartKeeps
<1>10. CASE DrainTimeout
  BY <1>10, DrainTimeoutKeeps
<1>11. CASE ResetAllLanes
  BY <1>11, ResetAllKeeps
<1>12. CASE UNCHANGED vars
  BY <1>12, StutterKeeps
<1>13. CASE RunsDrained
  BY <1>13, RunsDrainedKeeps
<1>14. CASE \/ \E t \in Task : SetActiveEmbeddedRun(t) \/ ClearActiveEmbeddedRun(t)
            \/ \E r \in ChatTurn : CreateReplyOperation(r) \/ ReplyEnds(r)
  BY <1>14, RegistryKeeps
<1> QED
  BY <1>1, <1>2, <1>3, <1>4, <1>5, <1>6, <1>7, <1>8, <1>9, <1>10, <1>11, <1>12,
     <1>13, <1>14 DEF Next

\* It holds in every state.
LEMMA Soundness == Spec => []IInv
BY InitSound, NextKeeps, PTL DEF Spec

-----------------------------------------------------------------------------
\* The slots of a lane are held by exactly the tasks that run, were not given up
\* and started after the lane's last reset (completeTask), for any callers,
\* limits and resets.
THEOREM SlotsHeld == Spec => []SlotsTruthful
<1>1. IInv => SlotsTruthful
  BY DEF IInv, Sound, LaneTypes, LoopTypes, RegistryTypes, SlotInv, SlotsTruthful, TypeOK, Busy
<1> QED BY <1>1, Soundness, PTL

\* No lane has both queued work and a free slot: whatever frees a slot pumps the
\* lane (drainLane).
THEOREM WakeupsKept == Spec => []NoLostWakeup
<1>1. IInv => NoLostWakeup
  BY DEF IInv, Full, NoLostWakeup
<1> QED BY <1>1, Soundness, PTL

\* A command that was rejected never runs (clearCommandLane,
\* enqueueCommandInLane).
THEOREM RejectionFinal == Spec => []RejectedNeverRuns
<1>1. IInv => RejectedNeverRuns
  BY DEF IInv, Sound, TaskInv, RejectedNeverRuns
<1> QED BY <1>1, Soundness, PTL

\* The run loop never waits for nothing: while it waits for tasks one holds a
\* slot, and it drains exactly while one of its two waits is open
\* (notifyActiveTaskWaiters, run-loop.ts).
THEOREM DrainHasReason == Spec => []WaiterHasReason
<1>1. IInv => WaiterHasReason
  BY DEF IInv
<1> QED BY <1>1, Soundness, PTL

\* Work on a session that the lanes have not given up holds the one slot of the
\* session's lane, although the model runs in a global lane.
LEMMA WorkingHoldsSlot ==
    ASSUME IInv, NEW t \in Task, LaneOf(t) \in SessionLane, Working(t), ~GivenUp(t)
    PROVE  t \in active[LaneOf(t)]
<1>1. /\ LaneTypes(queue, active, maxConcurrent, generation, startedIn, promise, body)
      /\ SlotInv(active, generation, startedIn, promise, body)
      /\ TaskInv(generation, startedIn, promise, body)
  BY DEF IInv, Sound
<1>2. LaneOf(t) \in Lane /\ Nests(t) /\ Inner(t) \in Task
  BY TaskFacts
<1>3. startedIn[t] = generation[LaneOf(t)]
  BY <1>1, <1>2 DEF GivenUp, TaskInv, LaneTypes
<1>4. promise[Inner(t)] # "timeout"
  BY <1>2 DEF GivenUp
<1>5. body[t] \in Busy
  <2>1. CASE body[Inner(t)] = "running"
    <3>1. promise[Inner(t)] \notin {"none", "cleared", "draining", "timeout"}
      BY <1>1, <1>2, <1>4, <2>1 DEF TaskInv
    <3>2. promise[Inner(t)] = "pending"
      BY <1>1, <1>2, <2>1, <3>1 DEF LaneTypes, Outcome, TaskInv
    <3> QED BY <1>1, <1>2, <3>2 DEF TaskInv, Busy
  <2> QED BY <2>1 DEF Working, Busy
<1>6. promise[t] = "pending"
  BY <1>1, <1>2, <1>5 DEF TaskInv
<1> QED BY <1>1, <1>2, <1>3, <1>5, <1>6 DEF SlotInv

\* Two pieces of work on one session never overlap unless the lanes gave one of
\* them up (run.ts:372).
THEOREM SessionsExclude == Spec => []SessionExclusive
<1>1. IInv => SessionExclusive
  <2> SUFFICES ASSUME IInv, NEW t \in Task, NEW u \in Task, t # u, LaneOf(t) = LaneOf(u),
                      LaneOf(t) \in SessionLane, Working(t), Working(u),
                      ~GivenUp(t), ~GivenUp(u)
               PROVE  FALSE
    BY DEF SessionExclusive
  <2> DEFINE A == active[LaneOf(t)]
  <2>1. t \in A /\ u \in A
    BY WorkingHoldsSlot
  <2>2. IsFiniteSet(A) /\ Cardinality(A) <= 1
    BY LaneFacts DEF IInv, Sound, SlotInv, SessionInv
  <2> HIDE DEF A
  <2>3. Cardinality(A) \in Nat /\ Cardinality(A) # 0
    BY <2>1, <2>2, FS_CardinalityType, FS_EmptySet
  <2>4. Cardinality(A) = 1
    BY <2>2, <2>3
  <2> QED BY <2>1, <2>2, <2>4, FS_Singleton
<1> QED BY <1>1, Soundness, PTL

-----------------------------------------------------------------------------
(* The delivery queue.                                                     *)

\* Process p works on entry e.
Works(p, e) == pc[p] \in AtWork /\ Of(p) = e

\* An owner at work has an entry.
CurOK == \A o \in Owner : pc[o] \in AtWork => cur[o] \in Entry

\* A process at work holds the claim of its entry, unless it is a notice.
WorkerClaims == \A p \in Proc \ Notice : pc[p] \in AtWork => Of(p) \in claimed

\* A claim has a process at work: the live send or one of the owners.
ClaimWorked ==
    \A e \in claimed :
        \/ e \notin Notice /\ Works(e, e)
        \/ \E o \in Owner : Works(o, e)

\* No two processes but notices work on one entry.
Alone ==
    \A p, q \in Proc \ Notice :
        pc[p] \in AtWork /\ pc[q] \in AtWork /\ Of(p) = Of(q) => p = q

\* A message that was not enqueued has left no trace in the queue.
Untouched ==
    \A e \in Entry :
        pc[e] \in {"idle", "unqueued"} =>
            /\ ~json[e].present /\ ~deferred[e].present
            /\ e \notin closed \cup deferring
            /\ \A o \in Owner : e \notin todo[o] /\ cur[o] # e

\* A live send that has not resumed is not a notice, is not acknowledged, and
\* no owner is through with the send of its entry.
QueuedOpen ==
    \A e \in Entry :
        pc[e] = "queued" =>
            /\ e \notin Notice \cup closed
            /\ \A o \in Owner : cur[o] = e => pc[o] \notin {"ack", "unlink"}

\* Only a message that was sent or excused is acknowledged.
AckEarned ==
    \A p \in Proc : pc[p] = "ack" => Of(p) \in sent \cup excused

\* An acknowledged message that was not revived has no file, and nobody is
\* about to send it.
ClosedGone ==
    \A e \in closed \ (revived \cup Notice) :
        /\ ~json[e].present
        /\ \A p \in Proc : Of(p) = e => pc[p] # "deliver"

\* What the claims are.
ClaimInv == CurOK /\ WorkerClaims /\ ClaimWorked /\ Alone

\* What the files and the labels say of each other.
FileInv == Untouched /\ QueuedOpen /\ AckEarned /\ ClosedGone

\* The inductive invariant.
DeliveryIInv == DeliveryTypeOK /\ ClaimInv /\ FileInv /\ NothingLost /\ ResentOnlyIfRevived

-----------------------------------------------------------------------------
(* Every action preserves it.                                              *)

\* enqueueDelivery writes the file of an entry that has left no trace yet.
LEMMA EnqueueDeliveryInv ==
    ASSUME DeliveryIInv, NEW e \in Entry, EnqueueDelivery(e)
    PROVE  DeliveryIInv'
<1>1. DeliveryTypeOK'
  BY QueueAssumption DEF DeliveryIInv, DeliveryTypeOK, ClaimInv, AtWork, File, EnqueueDelivery, Goto,
     Fresh, history, Of, Proc, Owner
<1>2. ClaimInv'
  BY QueueAssumption DEF DeliveryIInv, DeliveryTypeOK, ClaimInv, CurOK, WorkerClaims, ClaimWorked, Alone,
     Works, AtWork, EnqueueDelivery, Goto, Of, Proc, Owner
<1>3. FileInv'
  BY QueueAssumption DEF DeliveryIInv, DeliveryTypeOK, ClaimInv, FileInv, Untouched, QueuedOpen, AckEarned,
     ClosedGone, EnqueueDelivery, Goto, history, Of, Proc, Owner
<1>4. (NothingLost /\ ResentOnlyIfRevived)'
  BY DEF DeliveryIInv, DeliveryTypeOK, ClaimInv, FileInv, NothingLost, ResentOnlyIfRevived, EnqueueDelivery,
     Goto, Fresh, history, Of, Proc, Owner
<1> QED BY <1>1, <1>2, <1>3, <1>4 DEF DeliveryIInv

\* A send whose entry could not be written leaves the queue alone.
LEMMA SendUnqueuedInv ==
    ASSUME DeliveryIInv, NEW e \in Entry, SendUnqueued(e)
    PROVE  DeliveryIInv'
<1>1. DeliveryTypeOK'
  BY DEF DeliveryIInv, DeliveryTypeOK, ClaimInv, File, SendUnqueued, Goto, files, history, Of, Proc, Owner
<1>2. ClaimInv'
  BY DEF DeliveryIInv, DeliveryTypeOK, ClaimInv, CurOK, WorkerClaims, ClaimWorked, Alone, Works, AtWork,
     SendUnqueued, Goto, Of, Proc, Owner
<1>3. FileInv'
  BY DEF DeliveryIInv, DeliveryTypeOK, ClaimInv, FileInv, Untouched, QueuedOpen, AckEarned, ClosedGone,
     SendUnqueued, Goto, files, history, Of, Proc, Owner
<1>4. (NothingLost /\ ResentOnlyIfRevived)'
  BY DEF DeliveryIInv, DeliveryTypeOK, ClaimInv, FileInv, NothingLost, ResentOnlyIfRevived, SendUnqueued,
     Goto, files, history, Of, Proc, Owner
<1> QED BY <1>1, <1>2, <1>3, <1>4 DEF DeliveryIInv

\* The live send claims an entry that nobody works on, or ends.
LEMMA ClaimLiveInv ==
    ASSUME DeliveryIInv, NEW e \in Entry, ClaimLive(e)
    PROVE  DeliveryIInv'
<1>1. DeliveryTypeOK'
  <2>1. /\ claimed' \subseteq Entry
        /\ pc' \in [Proc -> AtWork \cup {"idle", "queued", "load", "loop", "defer", "done", "unqueued"}]
    BY DEF DeliveryIInv, DeliveryTypeOK, ClaimLive, Goto, Proc, AtWork
  <2> QED BY <2>1 DEF DeliveryIInv, DeliveryTypeOK, ClaimLive, files, history
<1>2. ClaimInv'
  <2>1. CASE CanClaim(e)
    <3>1. /\ e \notin claimed /\ pc[e] = "queued" /\ e \notin Notice
          /\ claimed' = claimed \cup {e}
          /\ pc' = [pc EXCEPT ![e] = "deliver"]
          /\ cur' = cur
      BY <2>1 DEF ClaimLive, Goto, CanClaim, DeliveryIInv, FileInv, QueuedOpen
    <3>2. e \in Proc /\ e \notin Owner
      BY QueueAssumption DEF Proc, Owner
    <3> QED BY <3>1, <3>2, QueueAssumption DEF DeliveryIInv, DeliveryTypeOK, ClaimInv, CurOK,
               WorkerClaims, ClaimWorked, Alone, Works, AtWork, Of, Proc, Owner
  <2>2. CASE ~CanClaim(e)
    BY <2>2 DEF DeliveryIInv, DeliveryTypeOK, ClaimInv, CurOK, WorkerClaims, ClaimWorked, Alone, Works,
       AtWork, ClaimLive, Goto, Of, Proc, Owner
  <2> QED BY <2>1, <2>2
<1>3. FileInv'
  BY QueueAssumption DEF DeliveryIInv, DeliveryTypeOK, ClaimInv, FileInv, Untouched, QueuedOpen, AckEarned,
     ClosedGone, ClaimLive, Goto, files, history, Of, Proc, Owner
<1>4. (NothingLost /\ ResentOnlyIfRevived)'
  BY DEF DeliveryIInv, DeliveryTypeOK, ClaimInv, FileInv, NothingLost, ResentOnlyIfRevived, ClaimLive, Goto,
     files, history, Of, Proc, Owner
<1> QED BY <1>1, <1>2, <1>3, <1>4 DEF DeliveryIInv

\* An aborted live send is excused before it is acknowledged.
LEMMA DeliveryAbortedInv ==
    ASSUME DeliveryIInv, NEW e \in Entry, DeliveryAborted(e)
    PROVE  DeliveryIInv'
<1>1. DeliveryTypeOK'
  BY DEF DeliveryIInv, DeliveryTypeOK, ClaimInv, AtWork, File, DeliveryAborted, Goto, files, Of, Proc,
     Owner
<1>2. ClaimInv'
  BY <1>1 DEF DeliveryIInv, DeliveryTypeOK, ClaimInv, CurOK, WorkerClaims, ClaimWorked, Alone, Works,
     DeliveryAborted, Goto, Of, Proc, Owner
<1>3. FileInv'
  BY QueueAssumption DEF DeliveryIInv, DeliveryTypeOK, ClaimInv, FileInv, Untouched, QueuedOpen, AckEarned,
     ClosedGone, DeliveryAborted, Goto, files, Of, Proc, Owner
<1>4. (NothingLost /\ ResentOnlyIfRevived)'
  BY DEF DeliveryIInv, DeliveryTypeOK, ClaimInv, FileInv, NothingLost, ResentOnlyIfRevived, DeliveryAborted,
     Goto, files, Of, Proc, Owner
<1> QED BY <1>1, <1>2, <1>3, <1>4 DEF DeliveryIInv

\* A deferral that reads a file changes no file.
LEMMA DeferReadInv ==
    ASSUME DeliveryIInv, NEW e \in Entry, DeferRead(e)
    PROVE  DeliveryIInv'
<1>1. DeliveryTypeOK'
  BY DEF DeliveryIInv, DeliveryTypeOK, ClaimInv, File, DeferRead, files, history, Of, Proc, Owner
<1>2. ClaimInv'
  BY DEF DeliveryIInv, DeliveryTypeOK, ClaimInv, CurOK, WorkerClaims, ClaimWorked, Alone, Works, DeferRead,
     Of, Proc, Owner
<1>3. FileInv'
  BY DEF DeliveryIInv, DeliveryTypeOK, ClaimInv, FileInv, Untouched, QueuedOpen, AckEarned, ClosedGone,
     DeferRead, files, history, Of, Proc, Owner
<1>4. (NothingLost /\ ResentOnlyIfRevived)'
  BY DEF DeliveryIInv, DeliveryTypeOK, ClaimInv, FileInv, NothingLost, ResentOnlyIfRevived, DeferRead,
     files, history, Of, Proc, Owner
<1> QED BY <1>1, <1>2, <1>3, <1>4 DEF DeliveryIInv

\* A deferral that writes keeps a file in place, or revives its entry.
LEMMA DeferWriteInv ==
    ASSUME DeliveryIInv, NEW e \in Entry, DeferWrite(e)
    PROVE  DeliveryIInv'
<1>1. DeliveryTypeOK'
  BY QueueAssumption DEF DeliveryIInv, DeliveryTypeOK, ClaimInv, File, DeferWrite, WriteQueueEntry, Failed,
     NoFile, Of, Proc, Owner
<1>2. ClaimInv'
  BY DEF DeliveryIInv, DeliveryTypeOK, ClaimInv, CurOK, WorkerClaims, ClaimWorked, Alone, Works, DeferWrite,
     WriteQueueEntry, Of, Proc, Owner
<1>3. FileInv'
  BY DEF DeliveryIInv, DeliveryTypeOK, ClaimInv, FileInv, Untouched, QueuedOpen, AckEarned, ClosedGone,
     DeferWrite, WriteQueueEntry, Of, Proc, Owner
<1>4. (NothingLost /\ ResentOnlyIfRevived)'
  BY DEF DeliveryIInv, DeliveryTypeOK, ClaimInv, FileInv, NothingLost, ResentOnlyIfRevived, DeferWrite,
     WriteQueueEntry, Failed, Of, Proc, Owner
<1> QED BY <1>1, <1>2, <1>3, <1>4 DEF DeliveryIInv

\* A snapshot only holds entries that were enqueued.
LEMMA LoadPendingDeliveriesInv ==
    ASSUME DeliveryIInv, NEW o \in Owner, LoadPendingDeliveries(o)
    PROVE  DeliveryIInv'
<1>1. DeliveryTypeOK'
  BY DEF DeliveryIInv, DeliveryTypeOK, ClaimInv, File, LoadPendingDeliveries, Goto, history, Of, Proc, Owner
<1>2. ClaimInv'
  BY DEF DeliveryIInv, DeliveryTypeOK, ClaimInv, CurOK, WorkerClaims, ClaimWorked, Alone, Works, AtWork,
     LoadPendingDeliveries, Goto, Of, Proc, Owner
<1>3. FileInv'
  BY DEF DeliveryIInv, DeliveryTypeOK, ClaimInv, FileInv, Untouched, QueuedOpen, AckEarned, ClosedGone,
     LoadPendingDeliveries, Goto, history, Of, Proc, Owner
<1>4. (NothingLost /\ ResentOnlyIfRevived)'
  BY DEF DeliveryIInv, DeliveryTypeOK, ClaimInv, FileInv, NothingLost, ResentOnlyIfRevived,
     LoadPendingDeliveries, Goto, history, Of, Proc, Owner
<1> QED BY <1>1, <1>2, <1>3, <1>4 DEF DeliveryIInv

\* An owner claims an entry that nobody works on, or skips it.
LEMMA NextEntryInv ==
    ASSUME DeliveryIInv, NEW o \in Owner, NEW e \in Entry, NextEntry(o, e)
    PROVE  DeliveryIInv'
<1>1. DeliveryTypeOK'
  BY QueueAssumption DEF DeliveryIInv, DeliveryTypeOK, ClaimInv, AtWork, File, NextEntry, Goto, files,
     history, Of, Proc, Owner
<1>2. ClaimInv'
  BY DEF DeliveryIInv, DeliveryTypeOK, ClaimInv, CurOK, WorkerClaims, ClaimWorked, Alone, Works, AtWork,
     NextEntry, Goto, CanClaim, Of, Proc, Owner
<1>3. FileInv'
  BY DEF DeliveryIInv, DeliveryTypeOK, ClaimInv, FileInv, Untouched, QueuedOpen, AckEarned, ClosedGone,
     NextEntry, Goto, files, history, Of, Proc, Owner
<1>4. (NothingLost /\ ResentOnlyIfRevived)'
  BY DEF DeliveryIInv, DeliveryTypeOK, ClaimInv, FileInv, NothingLost, ResentOnlyIfRevived, NextEntry, Goto,
     files, history, Of, Proc, Owner
<1> QED BY <1>1, <1>2, <1>3, <1>4 DEF DeliveryIInv

\* An owner between two entries holds no claim when it ends.
LEMMA EndLoopInv ==
    ASSUME DeliveryIInv, NEW o \in Owner, EndLoop(o)
    PROVE  DeliveryIInv'
<1>1. DeliveryTypeOK'
  BY DEF DeliveryIInv, DeliveryTypeOK, ClaimInv, File, EndLoop, Goto, files, history, Of, Proc, Owner
<1>2. ClaimInv'
  BY DEF DeliveryIInv, DeliveryTypeOK, ClaimInv, CurOK, WorkerClaims, ClaimWorked, Alone, Works, AtWork,
     EndLoop, Goto, Of, Proc, Owner
<1>3. FileInv'
  BY QueueAssumption DEF DeliveryIInv, DeliveryTypeOK, ClaimInv, FileInv, Untouched, QueuedOpen, AckEarned,
     ClosedGone, EndLoop, Goto, files, history, Of, Proc, Owner
<1>4. (NothingLost /\ ResentOnlyIfRevived)'
  BY DEF DeliveryIInv, DeliveryTypeOK, ClaimInv, FileInv, NothingLost, ResentOnlyIfRevived, EndLoop, Goto,
     files, history, Of, Proc, Owner
<1> QED BY <1>1, <1>2, <1>3, <1>4 DEF DeliveryIInv

\* An owner goes on to send only an entry whose file is there.
LEMMA RereadInv ==
    ASSUME DeliveryIInv, NEW o \in Owner, Reread(o)
    PROVE  DeliveryIInv'
<1>1. DeliveryTypeOK'
  BY DEF DeliveryIInv, DeliveryTypeOK, ClaimInv, AtWork, File, Reread, Goto, Finish, files, history, Of,
     Proc, Owner
<1>2. ClaimInv'
  BY QueueAssumption DEF DeliveryIInv, DeliveryTypeOK, ClaimInv, CurOK, WorkerClaims, ClaimWorked, Alone,
     Works, AtWork, Reread, Goto, Finish, Of, Proc, Owner
<1>3. FileInv'
  BY QueueAssumption DEF DeliveryIInv, DeliveryTypeOK, ClaimInv, FileInv, Untouched, QueuedOpen, AckEarned,
     ClosedGone, Reread, Goto, Finish, files, history, Of, Proc, Owner
<1>4. (NothingLost /\ ResentOnlyIfRevived)'
  BY DEF DeliveryIInv, DeliveryTypeOK, ClaimInv, FileInv, NothingLost, ResentOnlyIfRevived, Reread, Goto,
     Finish, files, history, Of, Proc, Owner
<1> QED BY <1>1, <1>2, <1>3, <1>4 DEF DeliveryIInv

\* The finally block releases the claim of the only process at work.
LEMMA LoopAbortsInv ==
    ASSUME DeliveryIInv, NEW o \in Owner, LoopAborts(o)
    PROVE  DeliveryIInv'
<1>1. DeliveryTypeOK'
  BY DEF DeliveryIInv, DeliveryTypeOK, ClaimInv, File, LoopAborts, Goto, files, history, Of, Proc, Owner
<1>2. ClaimInv'
  BY QueueAssumption DEF DeliveryIInv, DeliveryTypeOK, ClaimInv, CurOK, WorkerClaims, ClaimWorked, Alone,
     Works, AtWork, LoopAborts, Goto, Of, Proc, Owner
<1>3. FileInv'
  BY QueueAssumption DEF DeliveryIInv, DeliveryTypeOK, ClaimInv, FileInv, Untouched, QueuedOpen, AckEarned,
     ClosedGone, LoopAborts, Goto, files, history, Of, Proc, Owner
<1>4. (NothingLost /\ ResentOnlyIfRevived)'
  BY DEF DeliveryIInv, DeliveryTypeOK, ClaimInv, FileInv, NothingLost, ResentOnlyIfRevived, LoopAborts,
     Goto, files, history, Of, Proc, Owner
<1> QED BY <1>1, <1>2, <1>3, <1>4 DEF DeliveryIInv

\* A file that leaves the queue this way is in failed/.
LEMMA MoveToFailedInv ==
    ASSUME DeliveryIInv, NEW o \in Owner, MoveToFailed(o)
    PROVE  DeliveryIInv'
<1>1. DeliveryTypeOK'
  <2>1. cur[o] \in Entry /\ o \notin Notice
    BY QueueAssumption DEF MoveToFailed, DeliveryIInv, ClaimInv, CurOK, AtWork, Owner
  <2>2. json' \in [Entry -> File]
    <3>1. NoFile \in File
      BY QueueAssumption DEF NoFile, File
    <3>2. json' = json \/ json' = [json EXCEPT ![cur[o]] = NoFile]
      BY DEF MoveToFailed
    <3> QED BY <3>1, <3>2 DEF DeliveryIInv, DeliveryTypeOK
  <2>3. failed' \subseteq Entry
    <3>1. failed' = failed \/ failed' = failed \cup {cur[o]}
      BY DEF MoveToFailed
    <3> QED BY <2>1, <3>1 DEF DeliveryIInv, DeliveryTypeOK
  <2>4. /\ claimed' \subseteq Entry
        /\ cur' \in [Owner -> Entry \cup {"none"}]
        /\ pc' \in [Proc -> AtWork \cup {"idle", "queued", "load", "loop", "defer", "done", "unqueued"}]
    BY DEF MoveToFailed, Finish, Goto, DeliveryIInv, DeliveryTypeOK, Of, Proc, Owner
  <2> QED BY <2>2, <2>3, <2>4 DEF MoveToFailed, DeliveryIInv, DeliveryTypeOK, history
<1>2. ClaimInv'
  BY QueueAssumption DEF DeliveryIInv, DeliveryTypeOK, ClaimInv, CurOK, WorkerClaims, ClaimWorked, Alone,
     Works, AtWork, MoveToFailed, Goto, Finish, Of, Proc, Owner
<1>3. FileInv'
  BY QueueAssumption DEF DeliveryIInv, DeliveryTypeOK, ClaimInv, FileInv, Untouched, QueuedOpen, AckEarned,
     ClosedGone, MoveToFailed, Goto, Finish, history, Of, Proc, Owner
<1>4. (NothingLost /\ ResentOnlyIfRevived)'
  BY DEF DeliveryIInv, DeliveryTypeOK, ClaimInv, FileInv, NothingLost, ResentOnlyIfRevived, MoveToFailed,
     Goto, Finish, history, Of, Proc, Owner
<1> QED BY <1>1, <1>2, <1>3, <1>4 DEF DeliveryIInv

\* A send that returns has sent its message or is excused.
LEMMA DeliveredInv ==
    ASSUME DeliveryIInv, NEW p \in Proc, Delivered(p)
    PROVE  DeliveryIInv'
<1>1. DeliveryTypeOK'
  BY DEF DeliveryIInv, DeliveryTypeOK, ClaimInv, CurOK, AtWork, File, Delivered, Goto, Transmit, files, Of,
     Proc, Owner
<1>2. ClaimInv'
  BY <1>1 DEF DeliveryIInv, DeliveryTypeOK, ClaimInv, CurOK, WorkerClaims, ClaimWorked, Alone, Works,
     Delivered, Goto, Of, Proc, Owner
<1>3. FileInv'
  BY DEF DeliveryIInv, DeliveryTypeOK, ClaimInv, FileInv, Untouched, QueuedOpen, AckEarned, ClosedGone,
     Delivered, Goto, Transmit, Resumed, files, Of, Proc, Owner
<1>4. (NothingLost /\ ResentOnlyIfRevived)'
  BY DEF DeliveryIInv, DeliveryTypeOK, ClaimInv, FileInv, ClosedGone, NothingLost, ResentOnlyIfRevived,
     Delivered, Goto, Transmit, files, Of, Proc, Owner
<1> QED BY <1>1, <1>2, <1>3, <1>4 DEF DeliveryIInv

\* A send that throws may have sent an acknowledged message only if it was
\* revived.
LEMMA DeliveryFailsInv ==
    ASSUME DeliveryIInv, NEW p \in Proc, DeliveryFails(p)
    PROVE  DeliveryIInv'
<1>1. DeliveryTypeOK'
  BY DEF DeliveryIInv, DeliveryTypeOK, ClaimInv, AtWork, File, DeliveryFails, Goto, Transmit, files, Of,
     Proc, Owner
<1>2. ClaimInv'
  BY <1>1 DEF DeliveryIInv, DeliveryTypeOK, ClaimInv, CurOK, WorkerClaims, ClaimWorked, Alone, Works,
     DeliveryFails, Goto, Of, Proc, Owner
<1>3. FileInv'
  BY DEF DeliveryIInv, DeliveryTypeOK, ClaimInv, FileInv, Untouched, QueuedOpen, AckEarned, ClosedGone,
     DeliveryFails, Goto, Transmit, files, Of, Proc, Owner
<1>4. (NothingLost /\ ResentOnlyIfRevived)'
  BY DEF DeliveryIInv, DeliveryTypeOK, ClaimInv, FileInv, ClosedGone, NothingLost, ResentOnlyIfRevived,
     DeliveryFails, Goto, Transmit, files, Of, Proc, Owner
<1> QED BY <1>1, <1>2, <1>3, <1>4 DEF DeliveryIInv

\* The file that is acknowledged belongs to a message sent or excused, and
\* nobody else is about to send it.
LEMMA AckRenameInv ==
    ASSUME DeliveryIInv, NEW p \in Proc, AckRename(p)
    PROVE  DeliveryIInv'
<1>1. DeliveryTypeOK'
  BY QueueAssumption DEF DeliveryIInv, DeliveryTypeOK, ClaimInv, CurOK, AtWork, File, AckRename, Goto,
     NoFile, Of, Proc, Owner
<1>2. ClaimInv'
  BY <1>1 DEF DeliveryIInv, DeliveryTypeOK, ClaimInv, CurOK, WorkerClaims, ClaimWorked, Alone, Works,
     AckRename, Goto, Of, Proc, Owner
<1>3. FileInv'
  BY QueueAssumption DEF DeliveryIInv, DeliveryTypeOK, ClaimInv, Alone, FileInv, Untouched, QueuedOpen,
     AckEarned, ClosedGone, AckRename, Goto, NoFile, Of, Proc, Owner
<1>4. (NothingLost /\ ResentOnlyIfRevived)'
  BY DEF DeliveryIInv, DeliveryTypeOK, ClaimInv, FileInv, AckEarned, NothingLost, ResentOnlyIfRevived,
     AckRename, Goto, Of, Proc, Owner
<1> QED BY <1>1, <1>2, <1>3, <1>4 DEF DeliveryIInv

\* A failed rename leaves the file in place.
LEMMA AckErrorInv ==
    ASSUME DeliveryIInv, NEW p \in Proc, AckError(p)
    PROVE  DeliveryIInv'
<1>1. DeliveryTypeOK'
  BY DEF DeliveryIInv, DeliveryTypeOK, ClaimInv, CurOK, AtWork, File, AckError, Goto, Finish, files,
     history, Of, Proc, Owner
<1>2. ClaimInv'
  BY DEF DeliveryIInv, DeliveryTypeOK, ClaimInv, CurOK, WorkerClaims, ClaimWorked, Alone, Works, AtWork,
     AckError, Goto, Finish, Of, Proc, Owner
<1>3. FileInv'
  BY DEF DeliveryIInv, DeliveryTypeOK, ClaimInv, FileInv, Untouched, QueuedOpen, AckEarned, ClosedGone,
     AckError, Goto, Finish, files, history, Of, Proc, Owner
<1>4. (NothingLost /\ ResentOnlyIfRevived)'
  BY DEF DeliveryIInv, DeliveryTypeOK, ClaimInv, FileInv, NothingLost, ResentOnlyIfRevived, AckError, Goto,
     Finish, files, history, Of, Proc, Owner
<1> QED BY <1>1, <1>2, <1>3, <1>4 DEF DeliveryIInv

\* The marker is nobody's file.
LEMMA AckUnlinkInv ==
    ASSUME DeliveryIInv, NEW p \in Proc, AckUnlink(p)
    PROVE  DeliveryIInv'
<1>1. DeliveryTypeOK'
  BY DEF DeliveryIInv, DeliveryTypeOK, ClaimInv, File, AckUnlink, Goto, Finish, history, Of, Proc, Owner
<1>2. ClaimInv'
  BY QueueAssumption DEF DeliveryIInv, DeliveryTypeOK, ClaimInv, CurOK, WorkerClaims, ClaimWorked, Alone,
     Works, AtWork, AckUnlink, Goto, Finish, Of, Proc, Owner
<1>3. FileInv'
  BY QueueAssumption DEF DeliveryIInv, DeliveryTypeOK, ClaimInv, FileInv, Untouched, QueuedOpen, AckEarned,
     ClosedGone, AckUnlink, Goto, Finish, history, Of, Proc, Owner
<1>4. (NothingLost /\ ResentOnlyIfRevived)'
  BY DEF DeliveryIInv, DeliveryTypeOK, ClaimInv, FileInv, NothingLost, ResentOnlyIfRevived, AckUnlink, Goto,
     Finish, history, Of, Proc, Owner
<1> QED BY <1>1, <1>2, <1>3, <1>4 DEF DeliveryIInv

\* failDelivery reads the file of its own entry, or gives up.
LEMMA FailReadInv ==
    ASSUME DeliveryIInv, NEW p \in Proc, FailRead(p)
    PROVE  DeliveryIInv'
<1>1. DeliveryTypeOK'
  <2>1. held' \in [Proc -> File]
    <3>1. Of(p) \in Entry
      BY DEF DeliveryIInv, ClaimInv, CurOK, FailRead, AtWork, Of, Proc, Owner
    <3>2. json[Of(p)] \in File
      BY <3>1 DEF DeliveryIInv, DeliveryTypeOK
    <3> QED
      BY <3>2 DEF DeliveryIInv, DeliveryTypeOK, FailRead
  <2>2. UNCHANGED <<files, todo, deferring, deferred, history, crashes>>
    BY DEF FailRead
  <2>3. CASE Goto(p, "write") /\ UNCHANGED <<claimed, cur>>
    BY <2>1, <2>2, <2>3 DEF DeliveryIInv, DeliveryTypeOK, AtWork, Goto, files, history
  <2>4. CASE Finish(p)
    BY <2>1, <2>2, <2>4 DEF DeliveryIInv, DeliveryTypeOK, AtWork, Finish, Goto, files,
       history, Of, Proc, Owner
  <2> QED
    BY <2>3, <2>4 DEF FailRead
<1>2. ClaimInv'
  BY QueueAssumption DEF DeliveryIInv, DeliveryTypeOK, ClaimInv, CurOK, WorkerClaims, ClaimWorked, Alone,
     Works, AtWork, FailRead, Goto, Finish, Of, Proc, Owner
<1>3. FileInv'
  BY QueueAssumption DEF DeliveryIInv, DeliveryTypeOK, ClaimInv, FileInv, Untouched, QueuedOpen, AckEarned,
     ClosedGone, FailRead, Goto, Finish, files, history, Of, Proc, Owner
<1>4. (NothingLost /\ ResentOnlyIfRevived)'
  BY DEF DeliveryIInv, DeliveryTypeOK, ClaimInv, FileInv, NothingLost, ResentOnlyIfRevived, FailRead, Goto,
     Finish, files, history, Of, Proc, Owner
<1> QED BY <1>1, <1>2, <1>3, <1>4 DEF DeliveryIInv

\* failDelivery keeps the file in place, or revives its entry.
LEMMA FailWriteInv ==
    ASSUME DeliveryIInv, NEW p \in Proc, FailWrite(p)
    PROVE  DeliveryIInv'
<1>1. DeliveryTypeOK'
  BY QueueAssumption DEF DeliveryIInv, DeliveryTypeOK, ClaimInv, CurOK, AtWork, File, FailWrite, Goto,
     Finish, WriteQueueEntry, Failed, NoFile, Of, Proc, Owner
<1>2. ClaimInv'
  BY QueueAssumption DEF DeliveryIInv, DeliveryTypeOK, ClaimInv, CurOK, WorkerClaims, ClaimWorked, Alone,
     Works, AtWork, FailWrite, Goto, Finish, WriteQueueEntry, Of, Proc, Owner
<1>3. FileInv'
  BY QueueAssumption DEF DeliveryIInv, DeliveryTypeOK, ClaimInv, FileInv, Untouched, QueuedOpen, AckEarned,
     ClosedGone, FailWrite, Goto, Finish, WriteQueueEntry, Of, Proc, Owner
<1>4. (NothingLost /\ ResentOnlyIfRevived)'
  BY DEF DeliveryIInv, DeliveryTypeOK, ClaimInv, FileInv, NothingLost, ResentOnlyIfRevived, FailWrite, Goto,
     Finish, WriteQueueEntry, Failed, Of, Proc, Owner
<1> QED BY <1>1, <1>2, <1>3, <1>4 DEF DeliveryIInv

\* A drain starts without an entry.
LEMMA StartDrainInv ==
    ASSUME DeliveryIInv, StartDrain
    PROVE  DeliveryIInv'
<1>1. DeliveryTypeOK'
  BY DEF DeliveryIInv, DeliveryTypeOK, ClaimInv, File, StartDrain, Goto, files, history, Of, Proc, Owner
<1>2. ClaimInv'
  BY DEF DeliveryIInv, DeliveryTypeOK, ClaimInv, CurOK, WorkerClaims, ClaimWorked, Alone, Works, AtWork,
     StartDrain, Goto, Of, Proc, Owner
<1>3. FileInv'
  BY DEF DeliveryIInv, DeliveryTypeOK, ClaimInv, FileInv, Untouched, QueuedOpen, AckEarned, ClosedGone,
     StartDrain, Goto, files, history, Of, Proc, Owner
<1>4. (NothingLost /\ ResentOnlyIfRevived)'
  BY QueueAssumption DEF DeliveryIInv, DeliveryTypeOK, ClaimInv, FileInv, NothingLost, ResentOnlyIfRevived,
     StartDrain, Goto, files, history, Of, Proc, Owner
<1> QED BY <1>1, <1>2, <1>3, <1>4 DEF DeliveryIInv

\* The deferred entries were in recovery's snapshot.
LEMMA BudgetExceededInv ==
    ASSUME DeliveryIInv, BudgetExceeded
    PROVE  DeliveryIInv'
<1>1. DeliveryTypeOK'
  BY DEF DeliveryIInv, DeliveryTypeOK, ClaimInv, File, BudgetExceeded, Goto, files, history, Of, Proc, Owner
<1>2. ClaimInv'
  BY DEF DeliveryIInv, DeliveryTypeOK, ClaimInv, CurOK, WorkerClaims, ClaimWorked, Alone, Works, AtWork,
     BudgetExceeded, Goto, Of, Proc, Owner
<1>3. FileInv'
  BY DEF DeliveryIInv, DeliveryTypeOK, ClaimInv, FileInv, Untouched, QueuedOpen, AckEarned, ClosedGone,
     BudgetExceeded, Goto, files, history, Of, Proc, Owner
<1>4. (NothingLost /\ ResentOnlyIfRevived)'
  BY DEF DeliveryIInv, DeliveryTypeOK, ClaimInv, FileInv, NothingLost, ResentOnlyIfRevived, BudgetExceeded,
     Goto, files, history, Of, Proc, Owner
<1> QED BY <1>1, <1>2, <1>3, <1>4 DEF DeliveryIInv

\* Recovery ends its deferrals without an entry.
LEMMA EndDeferInv ==
    ASSUME DeliveryIInv, EndDefer
    PROVE  DeliveryIInv'
<1>1. DeliveryTypeOK'
  BY DEF DeliveryIInv, DeliveryTypeOK, ClaimInv, File, EndDefer, Goto, files, history, Of, Proc, Owner
<1>2. ClaimInv'
  BY DEF DeliveryIInv, DeliveryTypeOK, ClaimInv, CurOK, WorkerClaims, ClaimWorked, Alone, Works, AtWork,
     EndDefer, Goto, Of, Proc, Owner
<1>3. FileInv'
  BY QueueAssumption DEF DeliveryIInv, DeliveryTypeOK, ClaimInv, FileInv, Untouched, QueuedOpen, AckEarned,
     ClosedGone, EndDefer, Goto, files, history, Of, Proc, Owner
<1>4. (NothingLost /\ ResentOnlyIfRevived)'
  BY DEF DeliveryIInv, DeliveryTypeOK, ClaimInv, FileInv, NothingLost, ResentOnlyIfRevived, EndDefer, Goto,
     files, history, Of, Proc, Owner
<1> QED BY <1>1, <1>2, <1>3, <1>4 DEF DeliveryIInv

\* A crash loses the claims together with the processes, and no file.
LEMMA CrashInv ==
    ASSUME DeliveryIInv, Crash
    PROVE  DeliveryIInv'
<1>1. DeliveryTypeOK'
  BY QueueAssumption DEF DeliveryIInv, DeliveryTypeOK, ClaimInv, File, Crash, NoFile, files, history, Of,
     Proc, Owner
<1>2. ClaimInv'
  BY DEF DeliveryIInv, DeliveryTypeOK, ClaimInv, CurOK, WorkerClaims, ClaimWorked, Alone, Works, AtWork,
     Crash, Of, Proc, Owner
<1>3. FileInv'
  BY QueueAssumption DEF DeliveryIInv, DeliveryTypeOK, ClaimInv, FileInv, Untouched, QueuedOpen, AckEarned,
     ClosedGone, Crash, NoFile, files, history, Of, Proc, Owner
<1>4. (NothingLost /\ ResentOnlyIfRevived)'
  BY DEF DeliveryIInv, DeliveryTypeOK, ClaimInv, FileInv, NothingLost, ResentOnlyIfRevived, Crash, files,
     history, Of, Proc, Owner
<1> QED BY <1>1, <1>2, <1>3, <1>4 DEF DeliveryIInv


-----------------------------------------------------------------------------
(* The theorems.                                                           *)

\* The queue starts in the invariant: no message has been enqueued.
LEMMA DeliveryInitInv == DeliveryInit => DeliveryIInv
  BY QueueAssumption DEF DeliveryInit, DeliveryIInv, DeliveryTypeOK, ClaimInv, CurOK, WorkerClaims, ClaimWorked,
     Alone, FileInv, Untouched, QueuedOpen, AckEarned, ClosedGone, NothingLost,
     ResentOnlyIfRevived, Works, AtWork, Of, Proc, Owner, File, NoFile

\* Every step preserves the invariant.
LEMMA DeliveryNextInv == DeliveryIInv /\ [DeliveryNext]_deliveryVars => DeliveryIInv'
<1>1. SUFFICES ASSUME DeliveryIInv, [DeliveryNext]_deliveryVars PROVE DeliveryIInv'
  OBVIOUS
<1>2. ASSUME NEW e \in Entry,
             EnqueueDelivery(e) \/ SendUnqueued(e) \/ ClaimLive(e) \/ DeliveryAborted(e)
                 \/ DeferRead(e) \/ DeferWrite(e)
      PROVE  DeliveryIInv'
  BY <1>1, <1>2, EnqueueDeliveryInv, SendUnqueuedInv, ClaimLiveInv, DeliveryAbortedInv,
     DeferReadInv, DeferWriteInv
<1>3. ASSUME NEW o \in Owner,
             LoadPendingDeliveries(o) \/ (\E e \in Entry : NextEntry(o, e)) \/ EndLoop(o)
                 \/ Reread(o) \/ LoopAborts(o) \/ MoveToFailed(o)
      PROVE  DeliveryIInv'
  BY <1>1, <1>3, LoadPendingDeliveriesInv, NextEntryInv, EndLoopInv, RereadInv,
     LoopAbortsInv, MoveToFailedInv
<1>4. ASSUME NEW p \in Proc,
             Delivered(p) \/ DeliveryFails(p) \/ AckRename(p) \/ AckError(p)
                 \/ AckUnlink(p) \/ FailRead(p) \/ FailWrite(p)
      PROVE  DeliveryIInv'
  BY <1>1, <1>4, DeliveredInv, DeliveryFailsInv, AckRenameInv, AckErrorInv, AckUnlinkInv,
     FailReadInv, FailWriteInv
<1>5. CASE StartDrain \/ BudgetExceeded \/ EndDefer \/ Crash
  BY <1>1, <1>5, StartDrainInv, BudgetExceededInv, EndDeferInv, CrashInv
<1>6. CASE UNCHANGED deliveryVars
  BY <1>1, <1>6 DEF deliveryVars, files, memory, history, DeliveryIInv, DeliveryTypeOK, ClaimInv, CurOK,
     WorkerClaims, ClaimWorked, Alone, FileInv, Untouched, QueuedOpen, AckEarned, ClosedGone,
     NothingLost, ResentOnlyIfRevived, Works, Of
<1> QED BY <1>1, <1>2, <1>3, <1>4, <1>5, <1>6 DEF DeliveryNext

\* The invariant holds in every reachable state.
LEMMA DeliveryInvariant == DeliverySpec => []DeliveryIInv
  BY DeliveryInitInv, DeliveryNextInv, PTL DEF DeliverySpec

\* A claim is held exactly by the processes at work: WorkerClaims and
\* ClaimWorked are the two inclusions of ClaimTruthful.
LEMMA ClaimsAreWorkers == DeliveryIInv => ClaimTruthful
<1>1. SUFFICES ASSUME DeliveryIInv PROVE ClaimTruthful
  OBVIOUS
<1> DEFINE W == {Of(p) : p \in {q \in Proc \ Notice : pc[q] \in AtWork}}
<1>2. W \subseteq claimed
  BY <1>1 DEF DeliveryIInv, ClaimInv, WorkerClaims
<1>3. ASSUME NEW e \in claimed PROVE e \in W
  <2>1. CASE e \notin Notice /\ Works(e, e)
    BY <1>1, <2>1 DEF Works, Proc, DeliveryIInv, DeliveryTypeOK
  <2>2. ASSUME NEW o \in Owner, Works(o, e) PROVE e \in W
    BY <2>2, QueueAssumption DEF Works, Proc, Owner
  <2> QED BY <1>1, <2>1, <2>2 DEF DeliveryIInv, ClaimInv, ClaimWorked
<1> QED BY <1>1, <1>2, <1>3 DEF ClaimTruthful, DeliveryIInv

\* For any messages, any number of retries and any number of crashes: a message
\* whose entry was written (deliver.ts:834) is pending, failed, sent or given up by
\* its sender, between any two file operations of any process.
THEOREM NoMessageLost == DeliverySpec => []NothingLost
<1>1. DeliveryIInv => NothingLost
  BY DEF DeliveryIInv
<1> QED BY <1>1, DeliveryInvariant, PTL

\* The claims of recovery, drain and the live sends (entriesInProgress) are
\* exactly the entries at work: none leaks on any path out of an entry and
\* none is missing.
THEOREM ClaimsExact == DeliverySpec => []ClaimTruthful
  BY ClaimsAreWorkers, DeliveryInvariant, PTL

\* One message never has two senders at the same time, the restart notice
\* aside (deliver.ts:859).
THEOREM OneSender == DeliverySpec => []SingleSender
<1>1. DeliveryIInv => SingleSender
  BY DEF DeliveryIInv, ClaimInv, Alone, SingleSender, AtWork, Proc
<1> QED BY <1>1, DeliveryInvariant, PTL

\* An acknowledged message goes out again only after a write put its file back
\* (delivery-queue-recovery.ts:272).
THEOREM NoStaleResend == DeliverySpec => []ResentOnlyIfRevived
<1>1. DeliveryIInv => ResentOnlyIfRevived
  BY DEF DeliveryIInv
<1> QED BY <1>1, DeliveryInvariant, PTL

=============================================================================
