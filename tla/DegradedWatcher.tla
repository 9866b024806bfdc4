-------------------------- MODULE DegradedWatcher --------------------------
(***************************************************************************)
(* The load watcher of degraded_mode.py: a daemon thread samples CPU and   *)
(* RAM, and a three-state machine with hysteresis turns the samples into   *)
(* the mode that Pipeline.anonymize reads.  A sample is reduced to the     *)
(* band its peak falls in.  The time of a sample is taken before the lock, *)
(* so the sample and the step it causes are two steps of the thread.       *)
(***************************************************************************)
EXTENDS Naturals, Sequences

CONSTANTS
    PollInterval,     \* poll_interval_s
    DegradedAfter,    \* degraded_after_s
    EmergencyAfter,   \* emergency_after_s
    RecoverAfter,     \* recover_after_s
    MaxTime,          \* bound on the clock
    Unset              \* a marker that is not set

ASSUME WatcherAssumption ==
    /\ PollInterval \in Nat /\ DegradedAfter \in Nat
    /\ EmergencyAfter \in Nat /\ RecoverAfter \in Nat
    /\ MaxTime \in Nat
    /\ Unset \notin Nat

Modes == {"full", "degraded", "emergency"}

\* peak < 80, 80 <= peak < 95, peak >= 95.
Bands == {"low", "high", "critical"}

Time == 0..MaxTime
Marker == Time \cup {Unset}

VARIABLES
    mode,           \* _mode
    aboveEmSince, aboveDegSince, belowSince,
    now,            \* time.monotonic()
    pc,             \* where the watcher thread is
    sample,         \* the reading a tick is working on
    wakeAt,         \* when the pause between two ticks is over
    stopSet,        \* the _stop event
    log             \* history: the readings the state machine has used

markers == <<aboveEmSince, aboveDegSince, belowSince>>
watcherVars == <<mode, markers, now, pc, sample, wakeAt, stopSet, log>>

Reading == [band : Bands, at : Time]

WatcherTypeOK ==
    /\ mode \in Modes
    /\ aboveEmSince \in Marker /\ aboveDegSince \in Marker /\ belowSince \in Marker
    /\ now \in Time
    /\ pc \in {"off", "loop", "tick", "waiting", "exited"}
    /\ sample \in Reading
    /\ wakeAt \in Nat
    /\ stopSet \in BOOLEAN
    /\ log \in Seq(Reading)

WatcherInit ==
    /\ mode = "full"
    /\ aboveEmSince = Unset /\ aboveDegSince = Unset /\ belowSince = Unset
    /\ now = 0
    /\ pc = "off"
    /\ sample = [band |-> "low", at |-> 0]
    /\ wakeAt = 0
    /\ stopSet = FALSE
    /\ log = <<>>

----------------------------------------------------------------------------
(* tick                                                                    *)

Started(marker, t) == IF marker = Unset THEN t ELSE marker

\* The three branches of tick, under the lock.
Critical(t) ==
    /\ aboveEmSince' = Started(aboveEmSince, t)
    /\ aboveDegSince' = Started(aboveDegSince, t)
    /\ belowSince' = Unset
    /\ mode' = IF t >= aboveEmSince' + EmergencyAfter THEN "emergency" ELSE mode

\* Mutant: the guard that keeps an emergency is dropped.
HighDowngrades(t) ==
    /\ aboveEmSince' = Unset
    /\ aboveDegSince' = Started(aboveDegSince, t)
    /\ belowSince' = Unset
    /\ mode' = IF t >= aboveDegSince' + DegradedAfter THEN "degraded" ELSE mode

High(t) ==
    /\ aboveEmSince' = Unset
    /\ aboveDegSince' = Started(aboveDegSince, t)
    /\ belowSince' = Unset
    /\ mode' = IF t >= aboveDegSince' + DegradedAfter /\ mode # "emergency"
                 THEN "degraded" ELSE mode

\* Mutant: a full recovery needs one second more than it should.
LowLate(t) ==
    /\ aboveEmSince' = Unset
    /\ aboveDegSince' = Unset
    /\ belowSince' = Started(belowSince, t)
    /\ mode' = IF t > belowSince' + RecoverAfter THEN "full" ELSE mode

Low(t) ==
    /\ aboveEmSince' = Unset
    /\ aboveDegSince' = Unset
    /\ belowSince' = Started(belowSince, t)
    /\ mode' = IF t >= belowSince' + RecoverAfter THEN "full" ELSE mode

\* The probe has answered and the time is taken.
Sample(band) ==
    /\ pc = "loop"
    /\ ~stopSet
    /\ sample' = [band |-> band, at |-> now]
    /\ pc' = "tick"
    /\ UNCHANGED <<mode, markers, now, wakeAt, stopSet, log>>

\* The rest of tick, and the pause that follows it in _run.
Advance ==
    /\ pc = "tick"
    /\ \/ sample.band = "critical" /\ Critical(sample.at)
       \/ sample.band = "high" /\ High(sample.at)
       \/ sample.band = "low" /\ Low(sample.at)
    /\ log' = Append(log, sample)
    /\ pc' = "waiting"
    /\ wakeAt' = now + PollInterval
    /\ UNCHANGED <<now, sample, stopSet>>

\* The probe raises: _run swallows it, and the markers stay as they are.
ProbeFails ==
    /\ pc = "loop"
    /\ ~stopSet
    /\ pc' = "waiting"
    /\ wakeAt' = now + PollInterval
    /\ UNCHANGED <<mode, markers, now, sample, stopSet, log>>

----------------------------------------------------------------------------
(* start, _run, stop                                                       *)

\* start is called once, by the application's lifespan.
Start ==
    /\ pc = "off"
    /\ ~stopSet
    /\ pc' = "loop"
    /\ UNCHANGED <<mode, markers, now, sample, wakeAt, stopSet, log>>

WakeUp ==
    /\ pc = "waiting"
    /\ ~stopSet
    /\ now >= wakeAt
    /\ pc' = "loop"
    /\ UNCHANGED <<mode, markers, now, sample, wakeAt, stopSet, log>>

\* Mutant: the result of wait() is not looked at.
ExitInLoop ==
    /\ pc = "loop"
    /\ stopSet
    /\ pc' = "exited"
    /\ UNCHANGED <<mode, markers, now, sample, wakeAt, stopSet, log>>

\* The loop condition, or wait() returning TRUE.
Exit ==
    /\ pc \in {"loop", "waiting"}
    /\ stopSet
    /\ pc' = "exited"
    /\ UNCHANGED <<mode, markers, now, sample, wakeAt, stopSet, log>>

Stop ==
    /\ pc # "off"
    /\ ~stopSet
    /\ stopSet' = TRUE
    /\ UNCHANGED <<mode, markers, now, pc, sample, wakeAt, log>>

Clock ==
    /\ now < MaxTime
    /\ now' = now + 1
    /\ UNCHANGED <<mode, markers, pc, sample, wakeAt, stopSet, log>>

WatcherNext ==
    \/ Start
    \/ \E band \in Bands : Sample(band)
    \/ Advance \/ ProbeFails \/ WakeUp \/ Exit \/ Stop \/ Clock

WatcherSpec == WatcherInit /\ [][WatcherNext]_watcherVars

\* The thread is scheduled: it finishes a tick it has begun and returns from
\* wait() when the event is set.  Nothing is assumed of the probe.
FairWatcherSpec == WatcherSpec /\ WF_watcherVars(Advance) /\ WF_watcherVars(Exit)

----------------------------------------------------------------------------
(* Properties, over the log of readings and never over the markers.        *)

\* The last readings, from the i-th on, all fall in the given bands.
Run(readings, i, bands) ==
    i \in 1..Len(readings) /\ \A j \in i..Len(readings) : readings[j].band \in bands

\* The last readings fall in the bands and span at least d.
Sustained(readings, bands, d) ==
    \E i \in 1..Len(readings) :
        /\ Run(readings, i, bands)
        /\ readings[Len(readings)].at >= readings[i].at + d

\* The mode is only raised, or brought back to full, by readings that all lie
\* beyond the threshold and last for as long as the constructor's arguments
\* say, and nothing leads from emergency to degraded.
JustifiedSwitch ==
    [][/\ mode' = "emergency" /\ mode # "emergency" =>
             Sustained(log', {"critical"}, EmergencyAfter)
       /\ mode' = "degraded" /\ mode # "degraded" =>
             mode = "full" /\ Sustained(log', {"high", "critical"}, DegradedAfter)
       /\ mode' = "full" /\ mode # "full" =>
             Sustained(log', {"low"}, RecoverAfter)]_watcherVars

\* The switch is not late either: once the readings have been critical, or
\* low, for long enough, the mode is emergency, or full; and a high reading
\* that ends a long enough run above 80 finds it not full any more.
PromptSwitch ==
    log # <<>> =>
        /\ Sustained(log, {"critical"}, EmergencyAfter) => mode = "emergency"
        /\ Sustained(log, {"low"}, RecoverAfter) => mode = "full"
        /\ log[Len(log)].band = "high"
              /\ Sustained(log, {"high", "critical"}, DegradedAfter) => mode # "full"

\* stop() ends the thread wherever it is, also in the middle of a pause.
StopEndsThread == stopSet ~> pc = "exited"

============================================================================
