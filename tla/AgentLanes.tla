----------------------------- MODULE AgentLanes -----------------------------
(* Which command lanes the gateway's work goes through.                    *)
(*                                                                         *)
(* An agent turn is a task of its session's lane whose body enqueues the   *)
(* model run in a global lane and waits for it; a manual cron run holds a  *)
(* slot of the cron lane around such a turn.  A caller's tasks are         *)
(* <<r, 1>>, <<r, 2>>, ...: stage i enqueues stage i + 1 and settles after  *)
(* it.                                                                     *)
EXTENDS Naturals, Sequences

CONSTANTS Session,    \* session keys
          ChatTurn,   \* callers of runEmbeddedPiAgent from a channel
          CronRun,    \* callers of the cron service's enqueueRun
          SessionOf   \* the session each of them is about

Caller == ChatTurn \cup CronRun

ASSUME CallersAssumption ==
    /\ SessionOf \in [Caller -> Session]
    /\ ChatTurn \cap CronRun = {}

Main == <<"main", "">>

Cron == <<"cron", "">>

CronNested == <<"cron-nested", "">>

resolveSessionLane(s) == <<"session", s>>

\* Inner work of a cron job leaves the lane whose slot the job holds.
resolveGlobalLane(lane) == IF lane = Cron THEN CronNested ELSE lane

GlobalLane == {Main, Cron, CronNested}

SessionLane == {resolveSessionLane(s) : s \in Session}

Lane == GlobalLane \cup SessionLane

\* A mutant of Path: the cron turn asks for the lane its job occupies.
PathSelfNested ==
    [r \in Caller |->
        IF r \in ChatTurn THEN <<resolveSessionLane(SessionOf[r]), Main>>
        ELSE <<Cron, resolveSessionLane(SessionOf[r]), Cron>>]

\* The lanes of a caller's tasks, outermost first.
Path ==
    [r \in Caller |->
        IF r \in ChatTurn
        THEN <<resolveSessionLane(SessionOf[r]), resolveGlobalLane(Main)>>
        ELSE <<Cron, resolveSessionLane(SessionOf[r]), resolveGlobalLane(Cron)>>]

Task == {t \in Caller \X (1..3) : t[2] <= Len(Path[t[1]])}

LaneOf(t) == Path[t[1]][t[2]]

Nests(t) == t[2] < Len(Path[t[1]])

Inner(t) == <<t[1], t[2] + 1>>

\* The model run is enqueued with the turn's timeout and a grace period; the
\* session task and the cron task around it have none.
Timed(t) == ~Nests(t)
=============================================================================
