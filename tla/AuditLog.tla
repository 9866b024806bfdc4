------------------------------ MODULE AuditLog ------------------------------
(***************************************************************************)
(* The audit files of audit_log.py: one file of JSON lines for each local  *)
(* date, and a retention sweep at boot (lifespan of main.py) that deletes  *)
(* old files and replaces middle-aged ones by a .gz.  The process may die  *)
(* in the middle of a line or of a compression, and the disk may fill up.  *)
(* An event is its number; the fields of its line are Anonymizer's matter. *)
(***************************************************************************)
EXTENDS Naturals, Sequences, FiniteSets

CONSTANTS
    GzipAfter,     \* GZIP_AFTER_DAYS
    DeleteAfter,   \* DELETE_AFTER_DAYS
    MaxDay,        \* bound on the calendar
    MaxEvents,     \* bound on the events
    Garbage,       \* a line that is not JSON
    None           \* no such file, no compression going on

\* The files are named after the local date and aged by the UTC date, which
\* can be one day ahead: GzipAfter = 0 would compress the file in use.
ASSUME AuditAssumption ==
    /\ GzipAfter \in Nat \ {0}
    /\ DeleteAfter \in Nat /\ DeleteAfter >= GzipAfter
    /\ MaxDay \in Nat /\ MaxEvents \in Nat
    /\ Garbage \notin Nat

Days == 0..MaxDay
Events == 1..MaxEvents

\* unended: the last line has no newline yet.
Lines == Seq(Events \cup {Garbage})
Plain == [lines : Lines, unended : BOOLEAN]
\* whole: the archive has its trailer; without it, reading raises EOFError.
Gz == [lines : Lines, whole : BOOLEAN]

ASSUME NoneAssumption == None \notin Plain \cup Gz \cup Days

VARIABLES
    utc, local,   \* the two dates
    plain,        \* date |-> the .jsonl file, or None
    gz,           \* date |-> the .jsonl.gz file, or None
    phase,        \* "down", "sweep" (run_retention in lifespan) or "up"
    today,        \* the date run_retention took
    todo,         \* the entries of its listing that it has yet to act on
    copying,      \* the date whose archive is open for writing, or None
    \* History:
    events,       \* the number of events so far
    acked,        \* the events write returned for, and the date of their file
    swept         \* the last sweep ended without an exception

files == <<plain, gz>>
history == <<events, acked>>
vars == <<utc, local, plain, gz, phase, today, todo, copying, events, acked, swept>>

Entry == [day : Days, kind : {"plain", "gz"}]

TypeOK ==
    /\ utc \in Days /\ local \in Days
    /\ plain \in [Days -> Plain \cup {None}]
    /\ gz \in [Days -> Gz \cup {None}]
    /\ phase \in {"down", "sweep", "up"}
    /\ today \in Days
    /\ todo \subseteq Entry
    /\ copying \in Days \cup {None}
    /\ events \in 0..MaxEvents
    /\ acked \subseteq [id : Events, day : Days]
    /\ swept \in BOOLEAN

Init ==
    /\ utc = 0 /\ local = 0
    /\ plain = [d \in Days |-> None]
    /\ gz = [d \in Days |-> None]
    /\ phase = "down"
    /\ today = 0
    /\ todo = {}
    /\ copying = None
    /\ events = 0
    /\ acked = {}
    /\ swept = FALSE

----------------------------------------------------------------------------
(* write                                                                   *)

\* A line is appended to what is there, and so continues an unended line;
\* ended says whether its own newline is written.
AppendLine(file, line, ended) ==
    LET lines == IF file = None THEN <<>> ELSE file.lines
    IN  IF file # None /\ file.unended
          THEN [lines |-> [lines EXCEPT ![Len(lines)] = Garbage], unended |-> ~ended]
          ELSE [lines |-> Append(lines, line), unended |-> ~ended]

\* write returns: the line is flushed and synced.
Write ==
    /\ phase = "up"
    /\ events < MaxEvents
    /\ events' = events + 1
    /\ plain' = [plain EXCEPT ![local] = AppendLine(@, events + 1, TRUE)]
    /\ acked' = acked \cup {[id |-> events + 1, day |-> local]}
    /\ UNCHANGED <<utc, local, gz, phase, today, todo, copying, swept>>

\* write does not return: the process dies in it, or the disk is full.  Some
\* of the line has reached the file: a part, all but the newline, or all.
WriteTorn(line, ended, dies) ==
    /\ phase = "up"
    /\ events < MaxEvents
    /\ line \in {Garbage, events + 1}
    /\ ended => line # Garbage
    /\ events' = events + 1
    /\ plain' = [plain EXCEPT ![local] = AppendLine(@, line, ended)]
    /\ phase' = IF dies THEN "down" ELSE "up"
    /\ swept' = (swept /\ ~dies)
    /\ UNCHANGED <<utc, local, gz, today, todo, copying, acked>>

----------------------------------------------------------------------------
(* run_retention, step by step.                                            *)

\* Mutant: a file that has an archive already is taken for done.
ListingUnarchived ==
    {e \in Entry :
        /\ e.kind = "plain" => plain[e.day] # None /\ gz[e.day] = None
        /\ e.kind = "gz" => gz[e.day] # None
        /\ utc > e.day + (IF e.kind = "plain" THEN GzipAfter ELSE DeleteAfter)}

\* The files that need something done, by the date at the start of the sweep.
Listing ==
    {e \in Entry :
        /\ e.kind = "plain" => plain[e.day] # None
        /\ e.kind = "gz" => gz[e.day] # None
        /\ utc > e.day + (IF e.kind = "plain" THEN GzipAfter ELSE DeleteAfter)}

Boot ==
    /\ phase = "down"
    /\ phase' = "sweep"
    /\ today' = utc
    /\ todo' = Listing
    /\ swept' = FALSE
    /\ UNCHANGED <<utc, local, files, copying, history>>

Delete(e) ==
    /\ phase = "sweep" /\ copying = None
    /\ e \in todo
    /\ today > e.day + DeleteAfter
    /\ IF e.kind = "plain"
         THEN plain' = [plain EXCEPT ![e.day] = None] /\ UNCHANGED gz
         ELSE gz' = [gz EXCEPT ![e.day] = None] /\ UNCHANGED plain
    /\ todo' = todo \ {e}
    /\ UNCHANGED <<utc, local, phase, today, copying, history, swept>>

\* gzip.open(..., "wb") truncates what an interrupted sweep has left.
GzipOpen(d) ==
    /\ phase = "sweep" /\ copying = None
    /\ [day |-> d, kind |-> "plain"] \in todo
    /\ today <= d + DeleteAfter
    /\ copying' = d
    /\ gz' = [gz EXCEPT ![d] = [lines |-> <<>>, whole |-> FALSE]]
    /\ UNCHANGED <<utc, local, plain, phase, today, todo, history, swept>>

GzipClose ==
    /\ phase = "sweep" /\ copying # None
    /\ ~gz[copying].whole
    /\ gz' = [gz EXCEPT ![copying] = [lines |-> plain[copying].lines, whole |-> TRUE]]
    /\ UNCHANGED <<utc, local, plain, phase, today, todo, copying, history, swept>>

\* Mutant: the original is removed before the archive is closed.
UnlinkEarly ==
    /\ phase = "sweep" /\ copying # None
    /\ plain' = [plain EXCEPT ![copying] = None]
    /\ todo' = todo \ {[day |-> copying, kind |-> "plain"]}
    /\ copying' = None
    /\ UNCHANGED <<utc, local, gz, phase, today, history, swept>>

Unlink ==
    /\ phase = "sweep" /\ copying # None
    /\ gz[copying].whole
    /\ plain' = [plain EXCEPT ![copying] = None]
    /\ todo' = todo \ {[day |-> copying, kind |-> "plain"]}
    /\ copying' = None
    /\ UNCHANGED <<utc, local, gz, phase, today, history, swept>>

\* Something raises; lifespan swallows it and the rest of the sweep is not
\* done.  A copy that raises half way is closed on the way out, so that the
\* archive may look whole and hold a part of the lines.
SweepFails ==
    /\ phase = "sweep"
    /\ phase' = "up"
    /\ todo' = {}
    /\ copying' = None
    /\ \/ UNCHANGED gz
       \/ /\ copying # None
          /\ ~gz[copying].whole
          /\ \E n \in 0..Len(plain[copying].lines) :
               gz' = [gz EXCEPT ![copying] =
                        [lines |-> SubSeq(plain[copying].lines, 1, n), whole |-> TRUE]]
    /\ UNCHANGED <<utc, local, plain, today, history, swept>>

SweepDone ==
    /\ phase = "sweep"
    /\ todo = {}
    /\ phase' = "up"
    /\ swept' = TRUE
    /\ UNCHANGED <<utc, local, files, today, todo, copying, history>>

----------------------------------------------------------------------------

\* The process dies or is stopped, during a sweep too.
Crash ==
    /\ phase # "down"
    /\ phase' = "down"
    /\ todo' = {}
    /\ copying' = None
    /\ swept' = FALSE
    /\ UNCHANGED <<utc, local, files, today, history>>

\* Midnight comes at different times to the two dates.
UtcMidnight ==
    /\ utc < MaxDay /\ utc <= local
    /\ utc' = utc + 1
    /\ UNCHANGED <<local, files, phase, today, todo, copying, history, swept>>

LocalMidnight ==
    /\ local < MaxDay /\ local <= utc
    /\ local' = local + 1
    /\ UNCHANGED <<utc, files, phase, today, todo, copying, history, swept>>

Next ==
    \/ Write
    \/ \E line \in Events \cup {Garbage}, ended, dies \in BOOLEAN : WriteTorn(line, ended, dies)
    \/ Boot
    \/ \E e \in Entry : Delete(e)
    \/ \E d \in Days : GzipOpen(d)
    \/ GzipClose \/ Unlink \/ SweepFails \/ SweepDone
    \/ Crash \/ UtcMidnight \/ LocalMidnight

Spec == Init /\ [][Next]_vars

----------------------------------------------------------------------------
(* query reads every file, the older dates first, and skips what is not    *)
(* JSON.  A line it reports is known by its file and its place in it.  The *)
(* filters on workspace, category and time are left out.                   *)

\* The file an entry of the directory is of.
FileOf(e) == IF e.kind = "plain" THEN plain[e.day] ELSE gz[e.day]

query ==
    UNION {{e} \X {i \in 1..Len(FileOf(e).lines) : FileOf(e).lines[i] # Garbage} :
             e \in {e \in Entry : FileOf(e) # None}}

\* Mutant: the newest file comes first.
ReadNewestFirst(p, q) == p[1].day > q[1].day \/ (p[1] = q[1] /\ p[2] < q[2])

\* The line p is sure to be reported before the line q.  The sort is by the
\* date alone: a file and an archive of one date come in the directory's order.
ReadBefore(p, q) == p[1].day < q[1].day \/ (p[1] = q[1] /\ p[2] < q[2])

\* No archive raises while it is read; what raises there is not caught.
Answers == \A d \in Days : gz[d] # None => gz[d].whole

----------------------------------------------------------------------------
(* Properties.                                                             *)

Holds(file, id) == file # None /\ \E i \in 1..Len(file.lines) : file.lines[i] = id

Stored(a) ==
    \/ Holds(plain[a.day], a.id)
    \/ gz[a.day] # None /\ gz[a.day].whole /\ Holds(gz[a.day], a.id)

Young(a) == utc <= a.day + DeleteAfter

\* An event whose write returned stays readable for DeleteAfter days, through
\* sweeps that die or fail at any step, unless it is the first one after a
\* write that did not return.
OnlyNextLost ==
    \A a \in acked : Young(a) =>
        Stored(a) \/ (a.id > 1 /\ \A b \in acked : b.id # a.id - 1)

\* No event is on two of the lines that query reads: it reads each file once
\* and skips what is not JSON.
NoEventTwice ==
    \A e, f \in Entry : FileOf(e) # None /\ FileOf(f) # None =>
        \A i \in 1..Len(FileOf(e).lines), j \in 1..Len(FileOf(f).lines) :
            FileOf(e).lines[i] = FileOf(f).lines[j] /\ FileOf(e).lines[i] # Garbage
            => e = f /\ i = j

\* A sweep that ends normally repairs what earlier ones left: while the
\* process that ran it is up, query raises nothing and reports no event
\* twice, and no file was over age at boot.
SweptClean ==
    phase = "up" /\ swept =>
        /\ Answers
        /\ NoEventTwice
        /\ \A d \in Days : plain[d] # None \/ gz[d] # None => today <= d + DeleteAfter

\* Paging by offset is sound while the process is up: a line that query
\* reported stays where it was and says what it said, and new ones come after
\* all of them, the midnight of either date included, unless the last line was
\* left without its newline.
PagesStable ==
    [][phase = "up" /\ phase' = "up" /\ ~(plain[local] # None /\ plain[local].unended)
        => /\ \A p \in query :
                 p \in query' /\ (FileOf(p[1]).lines[p[2]])' = FileOf(p[1]).lines[p[2]]
           /\ \A p \in query, q \in query' \ query : ReadBefore(p, q)]_vars
============================================================================
