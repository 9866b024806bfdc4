--------------------------- MODULE AuditLogProofs ---------------------------
(***************************************************************************)
(* For every retention policy, calendar and number of events: the sweep of *)
(* audit_log.py loses no young event, whatever dies or fails, except those *)
(* that the append after a torn line spoils; and a sweep that ends leaves  *)
(* nothing over age, nothing doubled and no broken archive.                *)
(***************************************************************************)
EXTENDS AuditLog, SequenceTheorems, TLAPS

----------------------------------------------------------------------------
(* What an append does to a file.                                          *)

Unended(file) == file # None /\ file.unended

\* An append to a daily file, or to none, makes a daily file.
LEMMA AppendType ==
    ASSUME NEW file \in Plain \cup {None}, NEW line \in Events \cup {Garbage},
           NEW ended \in BOOLEAN,
           Unended(file) => Len(file.lines) > 0
    PROVE  /\ AppendLine(file, line, ended) \in Plain
           /\ AppendLine(file, line, ended) # None
           /\ AppendLine(file, line, ended).unended = ~ended
<1> DEFINE lines == IF file = None THEN <<>> ELSE file.lines
<1>1. lines \in Lines
  BY DEF Lines, Plain
<1>2. ASSUME Unended(file) PROVE [lines EXCEPT ![Len(lines)] = Garbage] \in Lines
  <2>1. Len(lines) \in 1..Len(lines)
    BY <1>1, <1>2 DEF Lines, Unended
  <2> QED
    BY <1>1, <2>1, ExceptSeq DEF Lines
<1>3. Append(lines, line) \in Lines
  BY <1>1 DEF Lines
<1>4. AppendLine(file, line, ended) \in Plain
  BY <1>2, <1>3 DEF AppendLine, Plain, Unended
<1>5. AppendLine(file, line, ended).unended = ~ended
  BY DEF AppendLine
<1> QED
  BY <1>4, <1>5, NoneAssumption

\* An append keeps the lines of the file except an unended last one.
LEMMA AppendKeeps ==
    ASSUME NEW file \in Plain \cup {None}, NEW line \in Events \cup {Garbage},
           NEW ended \in BOOLEAN, NEW id \in Events,
           Holds(file, id),
           Unended(file) => file.lines[Len(file.lines)] # id
    PROVE  Holds(AppendLine(file, line, ended), id)
<1> DEFINE lines == file.lines
<1>1. file # None /\ lines \in Lines
  BY DEF Holds, Plain
<1>2. PICK i \in 1..Len(lines) : lines[i] = id
  BY DEF Holds
<1>3. AppendLine(file, line, ended) # None
  BY <1>1, <1>2, AppendType DEF Lines, Unended
<1>4. CASE Unended(file)
  <2>1. AppendLine(file, line, ended).lines = [lines EXCEPT ![Len(lines)] = Garbage]
    BY <1>1, <1>4 DEF AppendLine, Unended
  <2>2. i # Len(lines)
    BY <1>2, <1>4
  <2>3. /\ Len([lines EXCEPT ![Len(lines)] = Garbage]) = Len(lines)
        /\ [lines EXCEPT ![Len(lines)] = Garbage][i] = id
    BY <1>1, <1>2, <2>2 DEF Lines
  <2> QED
    BY <1>2, <1>3, <2>1, <2>3 DEF Holds
<1>5. CASE ~Unended(file)
  <2>1. AppendLine(file, line, ended).lines = Append(lines, line)
    BY <1>1, <1>5 DEF AppendLine, Unended
  <2>2. /\ i \in 1..Len(Append(lines, line))
        /\ Append(lines, line)[i] = id
    BY <1>1, <1>2 DEF Lines
  <2> QED
    BY <1>3, <2>1, <2>2 DEF Holds
<1> QED
  BY <1>4, <1>5

\* The last line after an append: the new one, or garbage.
LEMMA AppendLast ==
    ASSUME NEW file \in Plain \cup {None}, NEW line \in Events \cup {Garbage},
           NEW ended \in BOOLEAN,
           Unended(file) => Len(file.lines) > 0,
           NEW new, new = AppendLine(file, line, ended).lines
    PROVE  /\ new \in Lines
           /\ Len(new) > 0
           /\ Unended(file) => new[Len(new)] = Garbage
           /\ ~Unended(file) => new[Len(new)] = line
<1> DEFINE old == IF file = None THEN <<>> ELSE file.lines
<1>1. old \in Lines
  BY DEF Lines, Plain
<1>2. CASE Unended(file)
  <2>1. old = file.lines /\ Len(old) > 0
    BY <1>2 DEF Unended
  <2>2. new = [old EXCEPT ![Len(old)] = Garbage]
    BY <1>2 DEF AppendLine, Unended
  <2>3. /\ [old EXCEPT ![Len(old)] = Garbage] \in Lines
        /\ Len([old EXCEPT ![Len(old)] = Garbage]) = Len(old)
        /\ [old EXCEPT ![Len(old)] = Garbage][Len(old)] = Garbage
    BY <1>1, <2>1 DEF Lines
  <2> QED
    BY <1>2, <2>1, <2>2, <2>3
<1>3. CASE ~Unended(file)
  <2>1. new = Append(old, line)
    BY <1>3 DEF AppendLine, Unended
  <2>2. /\ Append(old, line) \in Lines
        /\ Len(Append(old, line)) = Len(old) + 1
        /\ Append(old, line)[Len(old) + 1] = line
        /\ Len(old) \in Nat
    BY <1>1 DEF Lines
  <2> QED
    BY <1>3, <2>1, <2>2
<1> QED
  BY <1>2, <1>3

----------------------------------------------------------------------------
(* The inductive invariant.  OnlyNextLost alone is not inductive: a stored *)
(* event survives the deletion of its file only because the archive is a   *)
(* whole copy of it, the archive cannot be of the file in use because the  *)
(* two dates are at most a day apart, and an append harms no acknowledged  *)
(* line because an unended line was never acknowledged.                    *)

\* The dates are at most a day apart, no file is of a future day, and an
\* archive is of a file too old to be in use.
Calendar ==
    /\ utc <= local + 1 /\ local <= utc + 1 /\ today <= utc
    /\ \A d \in Days : plain[d] # None => d <= local
    /\ \A d \in Days : gz[d] # None => d + GzipAfter < utc

\* What is left to do is there to be done, and a closed archive is a copy.
Sweeping ==
    /\ phase # "sweep" => copying = None
    /\ phase = "sweep" => \A e \in todo :
         e.kind = "plain" => plain[e.day] # None /\ e.day + GzipAfter < today
    /\ copying # None =>
         /\ [day |-> copying, kind |-> "plain"] \in todo
         /\ gz[copying] # None
         /\ gz[copying].whole => gz[copying].lines = plain[copying].lines

\* A line without its newline is the last one written and was not acked.
TornLast ==
    /\ \A a \in acked : a.id <= events
    /\ Unended(plain[local]) =>
         /\ events > 0
         /\ \A a \in acked : a.id # events
         /\ Len(plain[local].lines) > 0
         /\ plain[local].lines[Len(plain[local].lines)] \in {Garbage, events}

\* The event came after a write that did not return.
AfterTorn(a) == a.id > 1 /\ \A b \in acked : b.id # a.id - 1

\* The file has the event; if it is gone, its archive is whole and has it.
Kept ==
    \A a \in acked : Young(a) =>
        \/ AfterTorn(a)
        \/ plain[a.day] # None /\ Holds(plain[a.day], a.id)
        \/ /\ plain[a.day] = None
           /\ gz[a.day] # None /\ gz[a.day].whole /\ Holds(gz[a.day], a.id)

IInv == TypeOK /\ Calendar /\ Sweeping /\ TornLast /\ Kept

LEMMA InitInv == Init => IInv
<1> SUFFICES ASSUME Init PROVE IInv
  OBVIOUS
<1>1. TypeOK
  <2>1. 0 \in Days /\ 0 \in 0..MaxEvents
    BY AuditAssumption DEF Days
  <2>2. plain \in [Days -> Plain \cup {None}] /\ gz \in [Days -> Gz \cup {None}]
    BY DEF Init
  <2> QED
    BY <2>1, <2>2 DEF Init, TypeOK
<1>2. Calendar
  BY <1>1 DEF Init, Calendar, Days
<1>3. Sweeping
  BY DEF Init, Sweeping
<1>4. TornLast
  BY AuditAssumption DEF Init, TornLast, Unended, Days
<1>5. Kept
  BY DEF Init, Kept
<1> QED
  BY <1>1, <1>2, <1>3, <1>4, <1>5 DEF IInv

----------------------------------------------------------------------------
(* One lemma for each action, or group of actions, that changes the files. *)

\* What write does to the files, whether or not it returns.
LEMMA AppendStep ==
    ASSUME TypeOK, TornLast, NEW line \in Events \cup {Garbage}, NEW ended \in BOOLEAN,
           plain' = [plain EXCEPT ![local] = AppendLine(@, line, ended)]
    PROVE  /\ plain' \in [Days -> Plain \cup {None}]
           /\ plain'[local] = AppendLine(plain[local], line, ended)
           /\ plain'[local] # None
           /\ Unended(plain'[local]) <=> ~ended
           /\ \A d \in Days : d # local => plain'[d] = plain[d]
           /\ \A a \in acked : Holds(plain[a.day], a.id) => Holds(plain'[a.day], a.id)
<1>1. plain[local] \in Plain \cup {None} /\ local \in Days
  BY DEF TypeOK
<1>2. Unended(plain[local]) => Len(plain[local].lines) > 0
  BY DEF TornLast
<1>3. /\ AppendLine(plain[local], line, ended) \in Plain
      /\ AppendLine(plain[local], line, ended) # None
      /\ AppendLine(plain[local], line, ended).unended = ~ended
  BY <1>1, <1>2, AppendType
<1>4. /\ plain' \in [Days -> Plain \cup {None}]
      /\ plain'[local] = AppendLine(plain[local], line, ended)
      /\ \A d \in Days : d # local => plain'[d] = plain[d]
  BY <1>1, <1>3 DEF TypeOK
<1>5. ASSUME NEW a \in acked, Holds(plain[a.day], a.id)
      PROVE  Holds(plain'[a.day], a.id)
  <2>1. a.id \in Events /\ a.day \in Days
    BY DEF TypeOK
  <2>2. CASE a.day # local
    BY <1>4, <1>5, <2>1, <2>2
  <2>3. CASE a.day = local
    <3>1. Unended(plain[local]) => plain[local].lines[Len(plain[local].lines)] # a.id
      BY <2>1, AuditAssumption DEF TornLast, Events
    <3> QED
      BY <1>1, <1>4, <1>5, <2>1, <2>3, <3>1, AppendKeeps
  <2> QED
    BY <2>2, <2>3
<1> QED
  BY <1>3, <1>4, <1>5 DEF Unended

LEMMA WriteInv == IInv /\ Write => IInv'
<1> SUFFICES ASSUME IInv, Write PROVE IInv'
  OBVIOUS
<1> DEFINE new == [id |-> events + 1, day |-> local]
<1>1. TypeOK /\ Calendar /\ Sweeping /\ TornLast /\ Kept
  BY DEF IInv
<1>2. events + 1 \in Events /\ events \in Nat /\ local \in Days
  BY <1>1, AuditAssumption DEF TypeOK, Write, Events
<1>3. /\ plain' \in [Days -> Plain \cup {None}]
      /\ plain'[local] = AppendLine(plain[local], events + 1, TRUE)
      /\ plain'[local] # None
      /\ ~Unended(plain'[local])
      /\ \A d \in Days : d # local => plain'[d] = plain[d]
      /\ \A a \in acked : Holds(plain[a.day], a.id) => Holds(plain'[a.day], a.id)
  BY <1>1, <1>2, AppendStep DEF Write
<1>4. new \in [id : Events, day : Days] /\ acked' = acked \cup {new}
  BY <1>2 DEF Write
<1>5. TypeOK'
  <2>1. events' \in 0..MaxEvents
    BY <1>2, AuditAssumption DEF Write, Events
  <2>2. acked' \subseteq [id : Events, day : Days]
    BY <1>1, <1>4 DEF TypeOK
  <2> QED
    BY <1>1, <1>3, <2>1, <2>2 DEF TypeOK, Write
<1>6. Calendar'
  <2>1. \A d \in Days : plain'[d] # None => d <= local
    BY <1>1, <1>2, <1>3 DEF Calendar, Days
  <2> QED
    BY <1>1, <2>1 DEF Calendar, Write
<1>7. Sweeping'
  BY <1>1 DEF Sweeping, Write
<1>8. TornLast'
  <2>1. \A a \in acked' : a.id <= events + 1
    <3> SUFFICES ASSUME NEW a \in acked' PROVE a.id <= events + 1
      OBVIOUS
    <3>1. CASE a \in acked
      BY <1>1, <1>2, <3>1 DEF TornLast, TypeOK, Events
    <3>2. CASE a = new
      BY <1>2, <3>2
    <3> QED
      BY <1>4, <3>1, <3>2
  <2>2. local' = local /\ events' = events + 1
    BY DEF Write
  <2>3. ~Unended(plain[local])'
    BY <1>3, <2>2 DEF Unended
  <2> QED
    BY <2>1, <2>2, <2>3 DEF TornLast
<1>9. Kept'
  <2> SUFFICES ASSUME NEW a \in acked', Young(a)'
               PROVE  \/ AfterTorn(a)'
                      \/ plain'[a.day] # None /\ Holds(plain'[a.day], a.id)
                      \/ /\ plain'[a.day] = None
                         /\ gz'[a.day] # None /\ gz'[a.day].whole /\ Holds(gz'[a.day], a.id)
    BY DEF Kept, Holds
  <2>1. CASE a = new
    <3>1. CASE Unended(plain[local])
      <4>1. events > 0 /\ \A b \in acked : b.id # events
        BY <1>1, <3>1 DEF TornLast
      <4>2. a.id = events + 1 /\ \A b \in acked' : b.id # events
        BY <1>2, <1>4, <2>1, <4>1
      <4>3. a.id > 1 /\ a.id - 1 = events
        BY <1>2, <4>1, <4>2
      <4> QED
        BY <4>2, <4>3 DEF AfterTorn
    <3>2. CASE ~Unended(plain[local])
      <4> DEFINE lines == plain'[local].lines
      <4>1. lines \in Lines /\ Len(lines) > 0 /\ lines[Len(lines)] = events + 1
        <5> DEFINE line == events + 1
                   ended == TRUE
        <5>1. lines = AppendLine(plain[local], line, ended).lines
          BY <1>3
        <5>2. plain[local] \in Plain \cup {None}
          BY <1>1, <1>2 DEF TypeOK
        <5>3. line \in Events \cup {Garbage} /\ ended \in BOOLEAN
          BY <1>2
        <5>4. Unended(plain[local]) => Len(plain[local].lines) > 0
          BY <3>2
        <5>5. lines \in Lines /\ Len(lines) > 0 /\ lines[Len(lines)] = line
          <6> HIDE DEF lines, line, ended
          <6> QED
            BY <3>2, <5>1, <5>2, <5>3, <5>4, AppendLast, SMTT(20)
        <5> QED
          BY <5>5
      <4>2. Len(lines) \in 1..Len(lines)
        BY <4>1 DEF Lines
      <4>3. Holds(plain'[local], events + 1)
        BY <1>3, <4>1, <4>2 DEF Holds
      <4> QED
        BY <1>3, <2>1, <4>3
    <3> QED
      BY <3>1, <3>2
  <2>2. CASE a \in acked
    <3>1. Young(a) /\ a.day \in Days /\ a.id \in Events
      BY <1>1, <2>2 DEF Young, Write, TypeOK
    <3>2. CASE AfterTorn(a)
      <4>1. a.id - 1 # events + 1
        BY <1>1, <1>2, <2>2, <3>1 DEF TornLast, Events
      <4> QED
        BY <1>4, <3>2, <4>1 DEF AfterTorn
    <3>3. CASE plain[a.day] # None /\ Holds(plain[a.day], a.id)
      BY <1>3, <2>2, <3>3 DEF Holds
    <3>4. CASE /\ plain[a.day] = None
               /\ gz[a.day] # None /\ gz[a.day].whole /\ Holds(gz[a.day], a.id)
      <4>1. a.day # local
        BY <1>1, <1>2, <3>1, <3>4, AuditAssumption DEF Calendar, Days, TypeOK
      <4> QED
        BY <1>3, <3>1, <3>4, <4>1 DEF Write
    <3> QED
      BY <1>1, <2>2, <3>1, <3>2, <3>3, <3>4 DEF Kept
  <2> QED
    BY <1>4, <2>1, <2>2
<1> QED
  BY <1>5, <1>6, <1>7, <1>8, <1>9 DEF IInv

LEMMA WriteTornInv ==
    ASSUME IInv, NEW line \in Events \cup {Garbage}, NEW ended \in BOOLEAN,
           NEW dies \in BOOLEAN, WriteTorn(line, ended, dies)
    PROVE  IInv'
<1>1. TypeOK /\ Calendar /\ Sweeping /\ TornLast /\ Kept
  BY DEF IInv
<1>2. events \in Nat /\ events + 1 \in 1..MaxEvents /\ local \in Days
  BY <1>1, AuditAssumption DEF TypeOK, WriteTorn
<1>3. /\ plain' \in [Days -> Plain \cup {None}]
      /\ plain'[local] = AppendLine(plain[local], line, ended)
      /\ plain'[local] # None
      /\ \A d \in Days : d # local => plain'[d] = plain[d]
      /\ \A a \in acked : Holds(plain[a.day], a.id) => Holds(plain'[a.day], a.id)
  BY <1>1, AppendStep DEF WriteTorn
<1>4. local' = local /\ events' = events + 1 /\ acked' = acked /\ gz' = gz /\ utc' = utc
  BY DEF WriteTorn
<1>5. TypeOK'
  <2>1. events' \in 0..MaxEvents
    BY <1>2, <1>4, AuditAssumption
  <2>2. phase' \in {"down", "sweep", "up"} /\ swept' \in BOOLEAN
    BY <1>1 DEF WriteTorn, TypeOK
  <2> QED
    BY <1>1, <1>3, <2>1, <2>2 DEF TypeOK, WriteTorn
<1>6. Calendar'
  <2>1. \A d \in Days : plain'[d] # None => d <= local
    BY <1>1, <1>2, <1>3 DEF Calendar, Days
  <2> QED
    BY <1>1, <2>1 DEF Calendar, WriteTorn
<1>7. Sweeping'
  BY <1>1 DEF Sweeping, WriteTorn
<1>8. TornLast'
  <2>1. \A a \in acked : a.id <= events + 1 /\ a.id # events + 1
    BY <1>1, <1>2 DEF TornLast, TypeOK, Events
  <2> DEFINE lines == plain'[local].lines
  <2>2. lines \in Lines /\ Len(lines) > 0 /\ lines[Len(lines)] \in {Garbage, events + 1}
    <3>1. line \in {Garbage, events + 1}
      BY DEF WriteTorn
    <3>2. Unended(plain[local]) => Len(plain[local].lines) > 0
      BY <1>1 DEF TornLast
    <3>3. plain[local] \in Plain \cup {None}
      BY <1>1 DEF TypeOK
    <3>4. /\ lines \in Lines /\ Len(lines) > 0
          /\ Unended(plain[local]) => lines[Len(lines)] = Garbage
          /\ ~Unended(plain[local]) => lines[Len(lines)] = line
      <4>1. lines = AppendLine(plain[local], line, ended).lines
        BY <1>3
      <4> HIDE DEF lines
      <4> QED
        BY <3>2, <3>3, <4>1, AppendLast
    <3> QED
      BY <3>1, <3>4
  <2> QED
    BY <1>2, <1>4, <2>1, <2>2 DEF TornLast
<1>9. Kept'
  <2> SUFFICES ASSUME NEW a \in acked, Young(a)
               PROVE  \/ AfterTorn(a)
                      \/ plain'[a.day] # None /\ Holds(plain'[a.day], a.id)
                      \/ /\ plain'[a.day] = None
                         /\ gz[a.day] # None /\ gz[a.day].whole /\ Holds(gz[a.day], a.id)
    BY <1>4 DEF Kept, Holds, Young, AfterTorn
  <2>1. a.day \in Days
    BY <1>1 DEF TypeOK
  <2>2. CASE plain[a.day] # None /\ Holds(plain[a.day], a.id)
    BY <1>3, <2>2 DEF Holds
  <2>3. CASE plain[a.day] = None /\ gz[a.day] # None
    <3>1. a.day # local
      BY <1>1, <1>2, <2>1, <2>3, AuditAssumption DEF Calendar, Days, TypeOK
    <3> QED
      BY <1>1, <1>3, <2>1, <2>3, <3>1 DEF Kept, Holds
  <2> QED
    BY <1>1, <2>2, <2>3 DEF Kept
<1> QED
  BY <1>5, <1>6, <1>7, <1>8, <1>9 DEF IInv

\* The parts of the invariant about events, for a step that acknowledges
\* none: the files in use and the young ones are left as they are, or an
\* archive takes over.
LEMMA NoEventStep ==
    ASSUME TypeOK, Kept, TornLast,
           UNCHANGED history, local' = local, utc' = utc,
           plain'[local] = plain[local],
           \A a \in acked : Young(a) =>
               \/ plain'[a.day] = plain[a.day] /\ plain[a.day] # None
               \/ plain'[a.day] = plain[a.day] /\ gz'[a.day] = gz[a.day]
               \/ /\ plain[a.day] # None /\ plain'[a.day] = None
                  /\ gz'[a.day] # None /\ gz'[a.day].whole
                  /\ gz'[a.day].lines = plain[a.day].lines
    PROVE  Kept' /\ TornLast'
<1>1. TornLast'
  BY DEF TornLast, Unended, history
<1>2. Kept'
  <2> SUFFICES ASSUME NEW a \in acked, Young(a)
               PROVE  \/ AfterTorn(a)
                      \/ plain'[a.day] # None /\ Holds(plain'[a.day], a.id)
                      \/ /\ plain'[a.day] = None
                         /\ gz'[a.day] # None /\ gz'[a.day].whole /\ Holds(gz'[a.day], a.id)
    BY DEF Kept, Holds, Young, AfterTorn, history
  <2> QED
    BY DEF Kept, Holds
<1> QED
  BY <1>1, <1>2

LEMMA BootInv == IInv /\ Boot => IInv'
<1> SUFFICES ASSUME IInv, Boot PROVE IInv'
  OBVIOUS
<1>1. TypeOK /\ Calendar /\ Sweeping /\ TornLast /\ Kept
  BY DEF IInv
<1>2. TypeOK'
  BY <1>1 DEF TypeOK, Boot, Listing, files, history
<1>3. Calendar'
  BY <1>1 DEF Calendar, Boot, files, TypeOK, Days
<1>4. Sweeping'
  <2>1. copying = None /\ copying' = None
    BY <1>1 DEF Sweeping, Boot
  <2>2. \A e \in todo' : e.kind = "plain" => plain'[e.day] # None /\ e.day + GzipAfter < today'
    <3> SUFFICES ASSUME NEW e \in Listing, e.kind = "plain"
                 PROVE  plain[e.day] # None /\ e.day + GzipAfter < utc
      BY DEF Boot, files
    <3>1. plain[e.day] # None /\ utc > e.day + GzipAfter /\ e.day \in Days
      BY DEF Listing, Entry
    <3> QED
      BY <1>1, <3>1, AuditAssumption DEF TypeOK, Days
  <2> QED
    BY <2>1, <2>2 DEF Sweeping, Boot
<1>5. Kept' /\ TornLast'
  BY <1>1, NoEventStep DEF Boot, files
<1> QED
  BY <1>2, <1>3, <1>4, <1>5 DEF IInv

LEMMA DeleteInv == ASSUME IInv, NEW e \in Entry, Delete(e) PROVE IInv'
<1>1. TypeOK /\ Calendar /\ Sweeping /\ TornLast /\ Kept
  BY DEF IInv
<1>2. e.day \in Days /\ today > e.day + DeleteAfter /\ e \in todo /\ copying = None
  BY DEF Delete, Entry
<1>3. /\ plain' \in [Days -> Plain \cup {None}] /\ gz' \in [Days -> Gz \cup {None}]
      /\ \A d \in Days : d # e.day => plain'[d] = plain[d] /\ gz'[d] = gz[d]
      /\ \A d \in Days : plain'[d] # None => plain[d] # None
      /\ \A d \in Days : gz'[d] # None => gz[d] # None
      /\ e.kind # "plain" => plain' = plain
  BY <1>1, <1>2 DEF Delete, TypeOK
<1>4. /\ utc' = utc /\ local' = local /\ today' = today /\ todo' = todo \ {e}
      /\ phase' = phase /\ copying' = None /\ UNCHANGED history /\ swept' = swept
  BY <1>2 DEF Delete
<1>5. TypeOK'
  BY <1>1, <1>2, <1>3, <1>4 DEF TypeOK, history
<1>6. Calendar'
  BY <1>1, <1>3, <1>4 DEF Calendar
<1>7. Sweeping'
  <2>1. ASSUME NEW f \in todo', f.kind = "plain", phase = "sweep"
        PROVE  plain'[f.day] # None /\ f.day + GzipAfter < today
    <3>1. f \in todo /\ f # e /\ f \in Entry
      BY <1>1, <1>4, <2>1 DEF TypeOK
    <3>2. plain[f.day] # None /\ f.day + GzipAfter < today
      BY <1>1, <2>1, <3>1 DEF Sweeping
    <3>3. plain'[f.day] = plain[f.day]
      <4>1. CASE e.kind # "plain"
        BY <1>3, <4>1
      <4>2. CASE e.kind = "plain"
        BY <1>3, <2>1, <3>1, <4>2 DEF Entry
      <4> QED
        BY <4>1, <4>2
    <3> QED
      BY <3>2, <3>3
  <2> QED
    BY <1>4, <2>1 DEF Sweeping
<1>8. Kept' /\ TornLast'
  <2>1. e.day # local
    BY <1>1, <1>2, AuditAssumption DEF Calendar, TypeOK, Days
  <2>2. \A a \in acked : Young(a) => a.day # e.day /\ a.day \in Days
    BY <1>1, <1>2, AuditAssumption DEF Calendar, TypeOK, Young, Days
  <2>3. plain'[local] = plain[local]
    BY <1>1, <1>3, <2>1 DEF TypeOK
  <2>4. \A a \in acked : Young(a) => plain'[a.day] = plain[a.day] /\ gz'[a.day] = gz[a.day]
    BY <1>3, <2>2
  <2> QED
    BY <1>1, <1>4, <2>3, <2>4, NoEventStep
<1> QED
  BY <1>5, <1>6, <1>7, <1>8 DEF IInv

LEMMA GzipOpenInv == ASSUME IInv, NEW d \in Days, GzipOpen(d) PROVE IInv'
<1>1. TypeOK /\ Calendar /\ Sweeping /\ TornLast /\ Kept
  BY DEF IInv
<1> DEFINE entry == [day |-> d, kind |-> "plain"]
           empty == [lines |-> <<>>, whole |-> FALSE]
<1>2. empty \in Gz /\ empty # None /\ d # None
  <2>1. <<>> \in Lines
    BY DEF Lines
  <2>2. empty \in Gz
    BY <2>1 DEF Gz
  <2> QED
    BY <2>2, NoneAssumption
<1>3. entry \in todo /\ plain[d] # None /\ d + GzipAfter < today
  BY <1>1 DEF GzipOpen, Sweeping
<1>4. /\ UNCHANGED <<utc, local, plain, phase, today, todo, history, swept>>
      /\ phase = "sweep" /\ copying' = d
      /\ gz' \in [Days -> Gz \cup {None}]
      /\ gz'[d] = empty
      /\ \A c \in Days : c # d => gz'[c] = gz[c]
  BY <1>1, <1>2 DEF GzipOpen, TypeOK
<1>5. TypeOK'
  BY <1>1, <1>4 DEF TypeOK, history
<1>6. Calendar'
  <2>1. d + GzipAfter < utc
    BY <1>1, <1>3, AuditAssumption DEF Calendar, TypeOK, Days
  <2> QED
    BY <1>1, <1>4, <2>1 DEF Calendar
<1>7. Sweeping'
  BY <1>1, <1>2, <1>3, <1>4 DEF Sweeping
<1>8. Kept' /\ TornLast'
  <2>1. ASSUME NEW a \in acked
        PROVE  \/ plain'[a.day] = plain[a.day] /\ plain[a.day] # None
               \/ plain'[a.day] = plain[a.day] /\ gz'[a.day] = gz[a.day]
    BY <1>1, <1>3, <1>4 DEF TypeOK
  <2> QED
    BY <1>1, <1>4, <2>1, NoEventStep
<1> QED
  BY <1>5, <1>6, <1>7, <1>8 DEF IInv

\* A file being compressed is there, too old to be in use, and typed.
LEMMA CopyingFacts ==
    ASSUME IInv, copying # None
    PROVE  /\ phase = "sweep" /\ copying \in Days
           /\ plain[copying] \in Plain /\ plain[copying] # None
           /\ gz[copying] # None
           /\ [day |-> copying, kind |-> "plain"] \in todo
           /\ copying + GzipAfter < utc /\ copying # local
<1>1. TypeOK /\ Calendar /\ Sweeping
  BY DEF IInv
<1>2. /\ phase = "sweep" /\ copying \in Days
      /\ [day |-> copying, kind |-> "plain"] \in todo /\ gz[copying] # None
  BY <1>1 DEF Sweeping, TypeOK
<1>3. plain[copying] # None /\ plain[copying] \in Plain
  BY <1>1, <1>2 DEF Sweeping, TypeOK
<1>4. copying + GzipAfter < utc /\ copying # local
  BY <1>1, <1>2, AuditAssumption DEF Calendar, TypeOK, Days
<1> QED
  BY <1>2, <1>3, <1>4

\* Writing the archive of the file being compressed harms nothing, for the
\* file is still there.
LEMMA ArchiveStep ==
    ASSUME IInv, copying # None, NEW g \in Gz,
           gz' = [gz EXCEPT ![copying] = g],
           UNCHANGED <<utc, local, plain, today, history>>
    PROVE  /\ gz' \in [Days -> Gz \cup {None}]
           /\ gz'[copying] = g /\ g # None
           /\ Calendar' /\ Kept' /\ TornLast'
<1>1. TypeOK /\ Calendar /\ Sweeping /\ TornLast /\ Kept
  BY DEF IInv
<1>2. /\ phase = "sweep" /\ copying \in Days
      /\ plain[copying] # None /\ copying + GzipAfter < utc
  BY CopyingFacts
<1>3. /\ gz' \in [Days -> Gz \cup {None}]
      /\ gz'[copying] = g
      /\ \A d \in Days : d # copying => gz'[d] = gz[d]
  BY <1>1, <1>2 DEF TypeOK
<1>4. g # None
  BY NoneAssumption
<1>5. Calendar'
  BY <1>1, <1>2, <1>3 DEF Calendar
<1>6. ASSUME NEW a \in acked
      PROVE  \/ plain'[a.day] = plain[a.day] /\ plain[a.day] # None
             \/ plain'[a.day] = plain[a.day] /\ gz'[a.day] = gz[a.day]
  BY <1>1, <1>2, <1>3 DEF TypeOK
<1>7. Kept' /\ TornLast'
  BY <1>1, <1>6, NoEventStep
<1> QED
  BY <1>3, <1>4, <1>5, <1>7

LEMMA GzipCloseInv == IInv /\ GzipClose => IInv'
<1> SUFFICES ASSUME IInv, GzipClose PROVE IInv'
  OBVIOUS
<1>1. TypeOK /\ Sweeping /\ copying # None
  BY DEF IInv, GzipClose
<1> DEFINE g == [lines |-> plain[copying].lines, whole |-> TRUE]
<1>2. g \in Gz
  BY <1>1, CopyingFacts DEF Gz, Plain
<1>3. gz' = [gz EXCEPT ![copying] = g]
  BY DEF GzipClose
<1>4. UNCHANGED <<utc, local, plain, phase, today, todo, copying, history, swept>>
  BY DEF GzipClose
<1>5. /\ gz' \in [Days -> Gz \cup {None}]
      /\ gz'[copying] = g /\ g # None
      /\ Calendar' /\ Kept' /\ TornLast'
  <2> HIDE DEF g
  <2> QED
    BY <1>1, <1>2, <1>3, <1>4, ArchiveStep
<1>6. TypeOK'
  BY <1>1, <1>4, <1>5 DEF TypeOK, history
<1>7. Sweeping'
  BY <1>1, <1>4, <1>5 DEF Sweeping
<1> QED
  BY <1>5, <1>6, <1>7 DEF IInv

LEMMA UnlinkInv == IInv /\ Unlink => IInv'
<1> SUFFICES ASSUME IInv, Unlink PROVE IInv'
  OBVIOUS
<1>1. TypeOK /\ Calendar /\ Sweeping /\ TornLast /\ Kept
  BY DEF IInv
<1>2. /\ copying # None /\ copying \in Days /\ copying # local
      /\ plain[copying] # None /\ gz[copying] # None /\ gz[copying].whole
  BY CopyingFacts DEF Unlink
<1>3. gz[copying].lines = plain[copying].lines
  BY <1>1, <1>2 DEF Sweeping
<1>4. /\ UNCHANGED <<utc, local, gz, phase, today, history, swept>>
      /\ copying' = None
      /\ todo' = todo \ {[day |-> copying, kind |-> "plain"]}
      /\ plain' \in [Days -> Plain \cup {None}]
      /\ plain'[copying] = None
      /\ \A d \in Days : d # copying => plain'[d] = plain[d]
  BY <1>1, <1>2 DEF Unlink, TypeOK
<1>5. TypeOK'
  BY <1>1, <1>4 DEF TypeOK, history
<1>6. Calendar'
  BY <1>1, <1>2, <1>4 DEF Calendar
<1>7. Sweeping'
  <2>1. ASSUME NEW f \in todo', f.kind = "plain", phase = "sweep"
        PROVE  plain'[f.day] # None /\ f.day + GzipAfter < today
    <3>1. f \in todo /\ f \in Entry /\ f # [day |-> copying, kind |-> "plain"]
      BY <1>1, <1>4, <2>1 DEF TypeOK
    <3>2. f.day # copying /\ f.day \in Days
      BY <2>1, <3>1 DEF Entry
    <3> QED
      BY <1>1, <1>4, <2>1, <3>1, <3>2 DEF Sweeping
  <2> QED
    BY <1>4, <2>1 DEF Sweeping
<1>8. Kept' /\ TornLast'
  <2>1. plain'[local] = plain[local]
    BY <1>1, <1>2, <1>4 DEF TypeOK
  <2>2. ASSUME NEW a \in acked
        PROVE  \/ plain'[a.day] = plain[a.day] /\ gz'[a.day] = gz[a.day]
               \/ /\ plain[a.day] # None /\ plain'[a.day] = None
                  /\ gz'[a.day] # None /\ gz'[a.day].whole
                  /\ gz'[a.day].lines = plain[a.day].lines
    <3>1. a.day \in Days
      BY <1>1 DEF TypeOK
    <3>2. CASE a.day = copying
      BY <1>2, <1>3, <1>4, <3>2
    <3>3. CASE a.day # copying
      BY <1>4, <3>1, <3>3
    <3> QED
      BY <3>2, <3>3
  <2> QED
    BY <1>1, <1>4, <2>1, <2>2, NoEventStep
<1> QED
  BY <1>5, <1>6, <1>7, <1>8 DEF IInv

LEMMA SweepFailsInv == IInv /\ SweepFails => IInv'
<1> SUFFICES ASSUME IInv, SweepFails PROVE IInv'
  OBVIOUS
<1>1. TypeOK /\ Calendar /\ Sweeping /\ TornLast /\ Kept
  BY DEF IInv
<1>2. /\ UNCHANGED <<utc, local, plain, today, history, swept>>
      /\ phase' = "up" /\ todo' = {} /\ copying' = None
  BY DEF SweepFails
<1>3. Sweeping'
  BY <1>2 DEF Sweeping
<1>4. CASE UNCHANGED gz
  <2>1. TypeOK'
    BY <1>1, <1>2, <1>4 DEF TypeOK, history
  <2>2. Calendar'
    BY <1>1, <1>2, <1>4 DEF Calendar
  <2>3. Kept' /\ TornLast'
    BY <1>1, <1>2, <1>4, NoEventStep
  <2> QED
    BY <1>3, <2>1, <2>2, <2>3 DEF IInv
<1>5. CASE /\ copying # None
           /\ \E n \in 0..Len(plain[copying].lines) :
                gz' = [gz EXCEPT ![copying] =
                         [lines |-> SubSeq(plain[copying].lines, 1, n), whole |-> TRUE]]
  <2>1. PICK n \in 0..Len(plain[copying].lines) :
          gz' = [gz EXCEPT ![copying] =
                   [lines |-> SubSeq(plain[copying].lines, 1, n), whole |-> TRUE]]
    BY <1>5
  <2> DEFINE g == [lines |-> SubSeq(plain[copying].lines, 1, n), whole |-> TRUE]
  <2>2. plain[copying].lines \in Lines
    BY <1>5, CopyingFacts DEF Plain
  <2>3. SubSeq(plain[copying].lines, 1, n) \in Lines
    BY <2>2 DEF Lines
  <2>4. g \in Gz /\ gz' = [gz EXCEPT ![copying] = g]
    BY <2>1, <2>3 DEF Gz
  <2>5. gz' \in [Days -> Gz \cup {None}] /\ Calendar' /\ Kept' /\ TornLast'
    <3> HIDE DEF g
    <3> QED
      BY <1>2, <1>5, <2>4, ArchiveStep
  <2>6. TypeOK'
    BY <1>1, <1>2, <2>5 DEF TypeOK, history
  <2> QED
    BY <1>3, <2>5, <2>6 DEF IInv
<1> QED
  BY <1>4, <1>5 DEF SweepFails

\* The steps that change no file.
LEMMA OtherInv ==
    ASSUME IInv, SweepDone \/ Crash \/ UtcMidnight \/ LocalMidnight
    PROVE  IInv'
<1>1. TypeOK /\ Calendar /\ Sweeping /\ TornLast /\ Kept
  BY DEF IInv
<1>2. CASE SweepDone
  <2>1. copying = None
    BY <1>1, <1>2 DEF Sweeping, SweepDone
  <2>2. TypeOK' /\ Calendar' /\ Sweeping'
    BY <1>1, <1>2, <2>1 DEF TypeOK, Calendar, Sweeping, SweepDone, files, history
  <2>3. Kept' /\ TornLast'
    BY <1>1, <1>2, NoEventStep DEF SweepDone, files
  <2> QED
    BY <2>2, <2>3 DEF IInv
<1>3. CASE Crash
  <2>1. TypeOK' /\ Calendar' /\ Sweeping'
    BY <1>1, <1>3 DEF TypeOK, Calendar, Sweeping, Crash, files, history
  <2>2. Kept' /\ TornLast'
    BY <1>1, <1>3, NoEventStep DEF Crash, files
  <2> QED
    BY <2>1, <2>2 DEF IInv
<1>4. CASE UtcMidnight
  <2>1. utc' = utc + 1 /\ utc \in Nat /\ utc + 1 \in Days /\ utc <= local
    BY <1>1, <1>4, AuditAssumption DEF UtcMidnight, TypeOK, Days
  <2>2. UNCHANGED <<local, files, phase, today, todo, copying, history, swept>>
    BY <1>4 DEF UtcMidnight
  <2>3. TypeOK'
    BY <1>1, <2>1, <2>2 DEF TypeOK, files, history
  <2>4. Calendar'
    BY <1>1, <2>1, <2>2, AuditAssumption DEF Calendar, TypeOK, files, Days
  <2>5. Sweeping' /\ TornLast'
    BY <1>1, <2>2 DEF Sweeping, TornLast, Unended, files, history
  <2>6. \A a \in acked : Young(a)' => Young(a)
    BY <1>1, <2>1, <2>2, AuditAssumption DEF Young, TypeOK, history, Days
  <2>7. Kept'
    BY <1>1, <2>2, <2>6 DEF Kept, Holds, AfterTorn, files, history
  <2> QED
    BY <2>3, <2>4, <2>5, <2>7 DEF IInv
<1>5. CASE LocalMidnight
  <2>1. local' = local + 1 /\ local \in Nat /\ local + 1 \in Days /\ local <= utc
    BY <1>1, <1>5, AuditAssumption DEF LocalMidnight, TypeOK, Days
  <2>2. UNCHANGED <<utc, files, phase, today, todo, copying, history, swept>>
    BY <1>5 DEF LocalMidnight
  <2>3. TypeOK'
    BY <1>1, <2>1, <2>2 DEF TypeOK, files, history
  <2>4. Calendar'
    BY <1>1, <2>1, <2>2 DEF Calendar, TypeOK, files, Days
  <2>5. plain[local + 1] = None
    BY <1>1, <2>1 DEF Calendar
  <2>6. Sweeping' /\ TornLast'
    BY <1>1, <2>1, <2>2, <2>5 DEF Sweeping, TornLast, Unended, files, history
  <2>7. Kept'
    BY <1>1, <2>2 DEF Kept, Holds, AfterTorn, Young, files, history
  <2> QED
    BY <2>3, <2>4, <2>6, <2>7 DEF IInv
<1> QED
  BY <1>2, <1>3, <1>4, <1>5

----------------------------------------------------------------------------

LEMMA NextInv == IInv /\ [Next]_vars => IInv'
<1> SUFFICES ASSUME IInv, [Next]_vars PROVE IInv'
  OBVIOUS
<1>1. CASE Write
  BY <1>1, WriteInv
<1>2. CASE \E line \in Events \cup {Garbage}, ended, dies \in BOOLEAN :
             WriteTorn(line, ended, dies)
  BY <1>2, WriteTornInv
<1>3. CASE Boot
  BY <1>3, BootInv
<1>4. CASE \E e \in Entry : Delete(e)
  BY <1>4, DeleteInv
<1>5. CASE \E d \in Days : GzipOpen(d)
  BY <1>5, GzipOpenInv
<1>6. CASE GzipClose \/ Unlink \/ SweepFails
  BY <1>6, GzipCloseInv, UnlinkInv, SweepFailsInv
<1>7. CASE SweepDone \/ Crash \/ UtcMidnight \/ LocalMidnight
  BY <1>7, OtherInv
<1>8. CASE UNCHANGED vars
  BY <1>8 DEF vars, IInv, TypeOK, Calendar, Sweeping, TornLast, Kept,
              Unended, Holds, AfterTorn, Young
<1> QED
  BY <1>1, <1>2, <1>3, <1>4, <1>5, <1>6, <1>7, <1>8 DEF Next

\* The invariant holds in every reachable state.
LEMMA Invariance == Spec => []IInv
  BY InitInv, NextInv, PTL DEF Spec

\* For every retention policy, calendar and number of events: the state stays
\* typed, and an event whose write returned stays readable for DeleteAfter
\* days through deletions, compressions, crashes and failures of run_retention
\* at any step, unless it follows a write that did not return.
THEOREM NothingElseLost == Spec => [](TypeOK /\ OnlyNextLost)
<1>1. IInv => TypeOK /\ OnlyNextLost
  BY DEF IInv, Kept, OnlyNextLost, Stored, AfterTorn
<1> QED
  BY <1>1, Invariance, PTL

----------------------------------------------------------------------------
(* What a sweep that ends normally leaves.  SweptClean says nothing while  *)
(* the sweep runs, so it is not inductive: what is over age, doubled or    *)
(* torn must be known to be among the entries that are left to do, and an  *)
(* event must be known to have stayed in the files of its day.             *)

\* The files p and g of a day have the event.
HeldOn(p, g, d, id) == Holds(p[d], id) \/ Holds(g[d], id)

\* No event is twice in the file.
Distinct(file) ==
    file # None => \A i, j \in 1..Len(file.lines) :
        file.lines[i] = file.lines[j] /\ file.lines[i] # Garbage => i = j

\* Every event is one of the first n and in the files of one day at most, and
\* no file has it twice.
OneDay(p, g, n) ==
    /\ \A d \in Days, id \in Events : HeldOn(p, g, d, id) => id <= n
    /\ \A c, d \in Days, id \in Events :
          HeldOn(p, g, c, id) /\ HeldOn(p, g, d, id) => c = d
    /\ \A d \in Days : Distinct(p[d]) /\ Distinct(g[d])

\* An archive that is not whole still has its original or is over age; what
\* a sweep has to do it does unless it dies or fails.
Covered ==
    /\ phase # "sweep" => todo = {}
    /\ phase = "sweep" => ~swept
    /\ \A d \in Days : gz[d] # None /\ ~gz[d].whole =>
          plain[d] # None \/ today > d + DeleteAfter
    /\ phase = "sweep" \/ (phase = "up" /\ swept) => \A d \in Days :
          /\ plain[d] # None /\ (gz[d] # None \/ today > d + DeleteAfter)
             => [day |-> d, kind |-> "plain"] \in todo
          /\ gz[d] # None /\ today > d + DeleteAfter => [day |-> d, kind |-> "gz"] \in todo

\* The invariant of the sweep.
SInv == OneDay(plain, gz, events) /\ Covered

\* What an append puts into a file: the lines that were there, the new one
\* and garbage.
LEMMA AppendAdds ==
    ASSUME NEW file \in Plain \cup {None}, NEW line \in Events \cup {Garbage},
           NEW ended \in BOOLEAN, NEW id \in Events,
           Unended(file) => Len(file.lines) > 0,
           Holds(AppendLine(file, line, ended), id)
    PROVE  Holds(file, id) \/ id = line
<1> DEFINE old == IF file = None THEN <<>> ELSE file.lines
           new == AppendLine(file, line, ended).lines
<1>1. old \in Lines
  BY DEF Lines, Plain
<1>2. PICK i \in 1..Len(new) : new[i] = id
  BY DEF Holds
<1>3. id # Garbage
  BY AuditAssumption DEF Events
<1>4. CASE Unended(file)
  <2>1. old = file.lines /\ Len(old) > 0 /\ file # None
    BY <1>4 DEF Unended
  <2>2. new = [old EXCEPT ![Len(old)] = Garbage]
    BY <1>4 DEF AppendLine, Unended
  <2>3. i \in 1..Len(old) /\ old[i] = id
    <3> HIDE DEF old, new
    <3> QED BY <1>1, <1>2, <1>3, <2>1, <2>2 DEF Lines
  <2> QED BY <2>1, <2>3 DEF Holds
<1>5. CASE ~Unended(file)
  <2>1. new = Append(old, line)
    BY <1>5 DEF AppendLine, Unended
  <2>2. (i \in 1..Len(old) /\ old[i] = id) \/ id = line
    <3> HIDE DEF old, new
    <3> QED BY <1>1, <1>2, <2>1 DEF Lines
  <2>3. file = None => Len(old) = 0
    OBVIOUS
  <2>4. Len(old) = 0 => ~(i \in 1..Len(old))
    OBVIOUS
  <2> QED BY <2>2, <2>3, <2>4 DEF Holds
<1> QED BY <1>4, <1>5

\* An append of a line that is not there doubles nothing.
LEMMA AppendDistinct ==
    ASSUME NEW file \in Plain \cup {None}, NEW line \in Events \cup {Garbage},
           NEW ended \in BOOLEAN, Distinct(file), ~Holds(file, line) \/ line = Garbage,
           Unended(file) => Len(file.lines) > 0
    PROVE  Distinct(AppendLine(file, line, ended))
<1> DEFINE old == IF file = None THEN <<>> ELSE file.lines
           new == AppendLine(file, line, ended).lines
<1>1. old \in Lines
  BY DEF Lines, Plain
<1>2. \A i, j \in 1..Len(old) : old[i] = old[j] /\ old[i] # Garbage => i = j
  <2>1. CASE file = None
    <3>1. Len(old) = 0
      BY <2>1
    <3> QED BY <3>1
  <2>2. CASE file # None
    BY <2>2 DEF Distinct
  <2> QED BY <2>1, <2>2
<1>3. line = Garbage \/ \A i \in 1..Len(old) : old[i] # line
  <2>1. CASE file = None
    <3>1. Len(old) = 0
      BY <2>1
    <3> QED BY <3>1
  <2>2. CASE file # None
    BY <2>2 DEF Holds
  <2> QED BY <2>1, <2>2
<1>4. \A i, j \in 1..Len(new) : new[i] = new[j] /\ new[i] # Garbage => i = j
  <2>1. CASE Unended(file)
    <3>1. Len(old) > 0
      BY <2>1 DEF Unended
    <3>2. new = [old EXCEPT ![Len(old)] = Garbage]
      BY <2>1 DEF AppendLine, Unended
    <3> HIDE DEF old, new
    <3> QED BY <1>1, <1>2, <3>1, <3>2 DEF Lines
  <2>2. CASE ~Unended(file)
    <3>1. new = Append(old, line)
      BY <2>2 DEF AppendLine, Unended
    <3> HIDE DEF old, new
    <3>2. Len(new) = Len(old) + 1 /\ Len(old) \in Nat /\ new[Len(old) + 1] = line
          /\ \A i \in 1..Len(old) : new[i] = old[i]
      BY <1>1, <3>1 DEF Lines
    <3> QED BY <1>2, <1>3, <3>2
  <2> QED BY <2>1, <2>2
<1> QED BY <1>4 DEF Distinct

\* What a write, whether or not it returns, leaves of SInv.
LEMMA AppendSInv ==
    ASSUME IInv, SInv, phase = "up", events < MaxEvents,
           NEW line \in {Garbage, events + 1}, NEW ended \in BOOLEAN,
           plain' = [plain EXCEPT ![local] = AppendLine(@, line, ended)],
           events' = events + 1,
           UNCHANGED <<gz, today, todo>>,
           phase' \in {"up", "down"}, phase' = "up" => swept' = swept
    PROVE  SInv'
<1>1. TypeOK /\ Calendar /\ TornLast /\ OneDay(plain, gz, events) /\ Covered
  BY DEF IInv, SInv
<1>2. events \in Nat /\ events + 1 \in Events /\ local \in Days
      /\ line \in Events \cup {Garbage}
  BY <1>1, AuditAssumption DEF TypeOK, Events
<1>3. /\ plain[local] \in Plain \cup {None}
      /\ Unended(plain[local]) => Len(plain[local].lines) > 0
  BY <1>1, <1>2 DEF TypeOK, TornLast
<1>4. /\ plain'[local] = AppendLine(plain[local], line, ended)
      /\ \A d \in Days : d # local => plain'[d] = plain[d]
  BY <1>1, <1>2 DEF TypeOK
<1>5. ASSUME NEW d \in Days, NEW id \in Events, HeldOn(plain', gz, d, id)
      PROVE  HeldOn(plain, gz, d, id) \/ (d = local /\ id = events + 1)
  <2>1. CASE d # local
    BY <1>4, <1>5, <2>1 DEF HeldOn
  <2>2. CASE d = local
    <3>1. CASE Holds(gz[d], id)
      BY <3>1 DEF HeldOn
    <3>2. CASE Holds(plain'[d], id)
      <4>1. Holds(AppendLine(plain[local], line, ended), id)
        BY <1>4, <2>2, <3>2
      <4>2. Holds(plain[local], id) \/ id = line
        BY <1>2, <1>3, <4>1, AppendAdds
      <4>3. id # Garbage
        BY AuditAssumption DEF Events
      <4> QED BY <2>2, <4>2, <4>3 DEF HeldOn
    <3> QED BY <1>5, <3>1, <3>2 DEF HeldOn
  <2> QED BY <2>1, <2>2
<1>6. \A d \in Days : ~HeldOn(plain, gz, d, events + 1)
  BY <1>1, <1>2 DEF OneDay
<1>7. \A d \in Days : Distinct(plain'[d]) /\ Distinct(gz[d])
  <2>1. ~Holds(plain[local], line) \/ line = Garbage
    BY <1>2, <1>6 DEF HeldOn
  <2>2. Distinct(plain[local])
    BY <1>1, <1>2 DEF OneDay
  <2>3. Distinct(plain'[local])
    BY <1>2, <1>3, <1>4, <2>1, <2>2, AppendDistinct
  <2> QED BY <1>1, <1>4, <2>3 DEF OneDay
<1>8. OneDay(plain', gz, events + 1)
  <2>1. \A d \in Days, id \in Events : HeldOn(plain', gz, d, id) => id <= events + 1
    BY <1>1, <1>2, <1>5 DEF OneDay, Events
  <2>2. ASSUME NEW c \in Days, NEW d \in Days, NEW id \in Events,
               HeldOn(plain', gz, c, id), HeldOn(plain', gz, d, id)
        PROVE  c = d
    <3>1. /\ HeldOn(plain, gz, c, id) \/ (c = local /\ id = events + 1)
          /\ HeldOn(plain, gz, d, id) \/ (d = local /\ id = events + 1)
      BY <1>5, <2>2
    <3> QED BY <1>1, <1>6, <3>1 DEF OneDay
  <2> QED BY <1>7, <2>1, <2>2 DEF OneDay
<1>9. gz[local] = None /\ today <= local + DeleteAfter
  BY <1>1, <1>2, AuditAssumption DEF Calendar, TypeOK, Days
<1>10. Covered'
  <2>1. \A d \in Days : gz[d] # None => plain'[d] = plain[d]
    BY <1>4, <1>9
  <2>2. phase' = "up" /\ swept' => \A d \in Days :
          /\ plain'[d] # None /\ (gz[d] # None \/ today > d + DeleteAfter)
             => [day |-> d, kind |-> "plain"] \in todo
          /\ gz[d] # None /\ today > d + DeleteAfter => [day |-> d, kind |-> "gz"] \in todo
    <3> SUFFICES ASSUME phase' = "up", swept', NEW d \in Days
                 PROVE  /\ plain'[d] # None /\ (gz[d] # None \/ today > d + DeleteAfter)
                           => [day |-> d, kind |-> "plain"] \in todo
                        /\ gz[d] # None /\ today > d + DeleteAfter
                           => [day |-> d, kind |-> "gz"] \in todo
      OBVIOUS
    <3>1. CASE d = local
      BY <1>1, <1>2, <1>9, <3>1, AuditAssumption DEF TypeOK, Days
    <3>2. CASE d # local
      BY <1>1, <1>4, <3>2 DEF Covered
    <3> QED BY <3>1, <3>2
  <2>3. \A d \in Days : gz[d] # None /\ ~gz[d].whole =>
          plain'[d] # None \/ today > d + DeleteAfter
    BY <1>1, <2>1 DEF Covered
  <2>4. phase' # "sweep" /\ todo = {}
    BY <1>1 DEF Covered
  <2> QED BY <2>2, <2>3, <2>4 DEF Covered
<1> QED BY <1>8, <1>10 DEF SInv

\* A step after which the files of each day hold only what they held before,
\* no file twice.
LEMMA NoNewEvent ==
    ASSUME OneDay(plain, gz, events), UNCHANGED events,
           \A d \in Days, id \in Events : HeldOn(plain', gz', d, id) => HeldOn(plain, gz, d, id),
           \A d \in Days : Distinct(plain'[d]) /\ Distinct(gz'[d])
    PROVE  OneDay(plain', gz', events')
BY DEF OneDay

\* A file that is not there holds nothing and doubles nothing.
LEMMA NoFile ==
    /\ Distinct(None)
    /\ \A id : ~Holds(None, id)
BY DEF Distinct, Holds

\* A line is written to the file of the current day, which is no concern of the
\* sweep.
LEMMA WriteSInv == IInv /\ SInv /\ Write => SInv'
<1> SUFFICES ASSUME IInv, SInv, Write PROVE SInv'
  OBVIOUS
<1> DEFINE line == events + 1
           ended == TRUE
<1>1. line \in {Garbage, events + 1} /\ ended \in BOOLEAN
  OBVIOUS
<1>2. plain' = [plain EXCEPT ![local] = AppendLine(@, line, ended)]
  BY DEF Write
<1> HIDE DEF line, ended
<1> QED BY <1>1, <1>2, AppendSInv DEF Write

\* So is a torn one.
LEMMA WriteTornSInv ==
    ASSUME IInv, SInv, NEW line \in Events \cup {Garbage}, NEW ended \in BOOLEAN,
           NEW dies \in BOOLEAN, WriteTorn(line, ended, dies)
    PROVE  SInv'
<1>1. phase' \in {"up", "down"} /\ (phase' = "up" => swept' = swept)
  <2>1. CASE dies
    BY <2>1 DEF WriteTorn
  <2>2. CASE ~dies
    <3>1. swept \in BOOLEAN
      BY DEF IInv, TypeOK
    <3>2. swept' = (swept /\ ~dies)
      BY DEF WriteTorn
    <3> QED BY <2>2, <3>1, <3>2 DEF WriteTorn
  <2> QED BY <2>1, <2>2
<1> QED BY <1>1, AppendSInv DEF WriteTorn

\* The restart lists what there is to do: everything over age, doubled or torn
\* is in the list.
LEMMA BootSInv == IInv /\ SInv /\ Boot => SInv'
<1> SUFFICES ASSUME IInv, SInv, Boot PROVE SInv'
  OBVIOUS
<1>1. TypeOK /\ Calendar /\ OneDay(plain, gz, events) /\ Covered
  BY DEF IInv, SInv
<1>2. OneDay(plain, gz, events)'
  BY <1>1 DEF Boot, files, history, OneDay, HeldOn, Distinct, Holds
<1>3. /\ UNCHANGED <<plain, gz>> /\ today' = utc /\ todo' = Listing
      /\ phase' = "sweep" /\ ~swept' /\ today <= utc
  BY <1>1 DEF Boot, files, Calendar
<1>4. utc \in Nat /\ today \in Nat /\ Days \subseteq Nat
  BY <1>1 DEF TypeOK, Days
<1>5. ASSUME NEW d \in Days
      PROVE  /\ gz[d] # None /\ ~gz[d].whole => plain[d] # None \/ utc > d + DeleteAfter
             /\ plain[d] # None /\ (gz[d] # None \/ utc > d + DeleteAfter)
                => [day |-> d, kind |-> "plain"] \in Listing
             /\ gz[d] # None /\ utc > d + DeleteAfter => [day |-> d, kind |-> "gz"] \in Listing
  <2>1. gz[d] # None /\ ~gz[d].whole => plain[d] # None \/ utc > d + DeleteAfter
    BY <1>1, <1>3, <1>4, AuditAssumption DEF Covered
  <2>2. ASSUME plain[d] # None, gz[d] # None \/ utc > d + DeleteAfter
        PROVE  [day |-> d, kind |-> "plain"] \in Listing
    <3>1. utc > d + GzipAfter
      BY <1>1, <1>4, <2>2, AuditAssumption DEF Calendar
    <3> QED BY <2>2, <3>1 DEF Listing, Entry
  <2>3. ASSUME gz[d] # None, utc > d + DeleteAfter
        PROVE  [day |-> d, kind |-> "gz"] \in Listing
    BY <2>3 DEF Listing, Entry
  <2> QED BY <2>1, <2>2, <2>3
<1>6. Covered'
  BY <1>3, <1>5 DEF Covered
<1> QED BY <1>2, <1>6 DEF SInv

\* A file over age is deleted.
LEMMA DeleteSInv == ASSUME IInv, SInv, NEW e \in Entry, Delete(e) PROVE SInv'
<1>1. TypeOK /\ Calendar /\ Sweeping /\ OneDay(plain, gz, events) /\ Covered
  BY DEF IInv, SInv
<1>2. e.day \in Days /\ e.kind \in {"plain", "gz"} /\ today > e.day + DeleteAfter
      /\ phase = "sweep"
  BY DEF Delete, Entry
<1>3. /\ \A d \in Days : plain'[d] = IF e.kind = "plain" /\ d = e.day THEN None ELSE plain[d]
      /\ \A d \in Days : gz'[d] = IF e.kind = "gz" /\ d = e.day THEN None ELSE gz[d]
  BY <1>1, <1>2 DEF Delete, TypeOK
<1>4. UNCHANGED <<phase, today, events, swept>> /\ todo' = todo \ {e}
  BY DEF Delete, history
<1>5. OneDay(plain', gz', events')
  <2>1. \A d \in Days, id \in Events : HeldOn(plain', gz', d, id) => HeldOn(plain, gz, d, id)
    BY <1>3, NoFile DEF HeldOn
  <2>2. \A d \in Days : Distinct(plain'[d]) /\ Distinct(gz'[d])
    BY <1>1, <1>3, NoFile DEF OneDay
  <2> QED BY <1>1, <1>4, <2>1, <2>2, NoNewEvent
<1>6. ASSUME NEW d \in Days
      PROVE  /\ gz'[d] # None /\ ~gz'[d].whole => plain'[d] # None \/ today > d + DeleteAfter
             /\ plain'[d] # None /\ (gz'[d] # None \/ today > d + DeleteAfter)
                => [day |-> d, kind |-> "plain"] \in todo'
             /\ gz'[d] # None /\ today > d + DeleteAfter
                => [day |-> d, kind |-> "gz"] \in todo'
  <2>1. /\ plain'[d] # None => plain'[d] = plain[d] /\ e # [day |-> d, kind |-> "plain"]
        /\ gz'[d] # None => gz'[d] = gz[d] /\ e # [day |-> d, kind |-> "gz"]
    BY <1>3
  <2>2. plain[d] # None => plain'[d] # None \/ today > d + DeleteAfter
    BY <1>2, <1>3
  <2> QED BY <1>1, <1>2, <1>4, <2>1, <2>2 DEF Covered
<1>7. Covered'
  BY <1>1, <1>2, <1>4, <1>6 DEF Covered
<1> QED BY <1>5, <1>7 DEF SInv

\* A copy is begun, over what an earlier one left.
LEMMA GzipOpenSInv == ASSUME IInv, SInv, NEW d \in Days, GzipOpen(d) PROVE SInv'
<1>1. TypeOK /\ Calendar /\ Sweeping /\ OneDay(plain, gz, events) /\ Covered
  BY DEF IInv, SInv
<1> DEFINE empty == [lines |-> <<>>, whole |-> FALSE]
<1>2. [day |-> d, kind |-> "plain"] \in todo /\ plain[d] # None /\ phase = "sweep"
      /\ today <= d + DeleteAfter
  BY <1>1 DEF GzipOpen, Sweeping
<1>3. \A c \in Days : gz'[c] = IF c = d THEN empty ELSE gz[c]
  BY <1>1 DEF GzipOpen, TypeOK
<1>4. UNCHANGED <<phase, today, todo, events, swept, plain>>
  BY DEF GzipOpen, history
<1>5. Distinct(empty) /\ \A id : ~Holds(empty, id)
  BY DEF Distinct, Holds
<1>6. OneDay(plain', gz', events')
  <2>1. \A c \in Days, id \in Events : HeldOn(plain', gz', c, id) => HeldOn(plain, gz, c, id)
    BY <1>3, <1>4, <1>5 DEF HeldOn
  <2>2. \A c \in Days : Distinct(plain'[c]) /\ Distinct(gz'[c])
    BY <1>1, <1>3, <1>4, <1>5 DEF OneDay
  <2> QED BY <1>1, <1>4, <2>1, <2>2, NoNewEvent
<1>7. ASSUME NEW c \in Days
      PROVE  /\ gz'[c] # None /\ ~gz'[c].whole => plain[c] # None \/ today > c + DeleteAfter
             /\ plain[c] # None /\ (gz'[c] # None \/ today > c + DeleteAfter)
                => [day |-> c, kind |-> "plain"] \in todo
             /\ gz'[c] # None /\ today > c + DeleteAfter
                => [day |-> c, kind |-> "gz"] \in todo
  <2>1. CASE c = d
    BY <1>1, <1>2, <2>1, AuditAssumption DEF TypeOK, Days
  <2>2. CASE c # d
    BY <1>1, <1>2, <1>3, <2>2 DEF Covered
  <2> QED BY <2>1, <2>2
<1>8. Covered'
  BY <1>1, <1>2, <1>4, <1>7 DEF Covered
<1> QED BY <1>6, <1>8 DEF SInv

\* An archive that becomes a prefix of the file being compressed holds only
\* events of its day, none of them twice.
LEMMA PrefixArchive ==
    ASSUME IInv, SInv, copying # None, NEW n \in 0..Len(plain[copying].lines),
           NEW g \in Gz, Len(g.lines) = n,
           \A i \in 1..n : g.lines[i] = plain[copying].lines[i],
           gz' = [gz EXCEPT ![copying] = g], UNCHANGED <<plain, events>>
    PROVE  OneDay(plain', gz', events')
<1>1. TypeOK /\ OneDay(plain, gz, events)
  BY DEF IInv, SInv
<1>2. copying \in Days /\ plain[copying] \in Plain /\ plain[copying] # None
  BY CopyingFacts
<1>3. plain[copying].lines \in Lines
  BY <1>2 DEF Plain
<1>4. Len(plain[copying].lines) \in Nat /\ n \in Nat /\ n <= Len(plain[copying].lines)
  BY <1>3 DEF Lines
<1>5. \A d \in Days : gz'[d] = IF d = copying THEN g ELSE gz[d]
  BY <1>1, <1>2 DEF TypeOK
<1>6. \A id \in Events : Holds(g, id) => Holds(plain[copying], id)
  BY <1>2, <1>4 DEF Holds
<1>7. Distinct(g)
  <2>1. Distinct(plain[copying])
    BY <1>1, <1>2 DEF OneDay
  <2> QED BY <1>2, <1>4, <2>1 DEF Distinct
<1>8. \A d \in Days, id \in Events : HeldOn(plain', gz', d, id) => HeldOn(plain, gz, d, id)
  BY <1>5, <1>6 DEF HeldOn
<1>9. \A d \in Days : Distinct(plain'[d]) /\ Distinct(gz'[d])
  BY <1>1, <1>5, <1>7 DEF OneDay
<1> QED BY <1>1, <1>8, <1>9, NoNewEvent

\* The copy is complete.
LEMMA GzipCloseSInv == IInv /\ SInv /\ GzipClose => SInv'
<1> SUFFICES ASSUME IInv, SInv, GzipClose PROVE SInv'
  OBVIOUS
<1>1. TypeOK /\ Sweeping /\ Covered /\ copying # None
  BY DEF IInv, SInv, GzipClose
<1> DEFINE g == [lines |-> plain[copying].lines, whole |-> TRUE]
<1>2. /\ copying \in Days /\ phase = "sweep" /\ gz[copying] # None
      /\ plain[copying] \in Plain /\ plain[copying] # None
      /\ [day |-> copying, kind |-> "plain"] \in todo
  BY <1>1, CopyingFacts
<1>3. plain[copying].lines \in Lines
  BY <1>2 DEF Plain
<1>4. g \in Gz /\ Len(plain[copying].lines) \in 0..Len(plain[copying].lines)
  BY <1>3 DEF Gz, Lines
<1>5. gz' = [gz EXCEPT ![copying] = g]
  BY DEF GzipClose
<1>6. UNCHANGED <<plain, phase, today, todo, events, swept>>
  BY DEF GzipClose, history
<1>7. OneDay(plain', gz', events')
  <2>1. /\ Len(g.lines) = Len(plain[copying].lines)
        /\ \A i \in 1..Len(plain[copying].lines) : g.lines[i] = plain[copying].lines[i]
    OBVIOUS
  <2> HIDE DEF g
  <2> QED BY <1>1, <1>4, <1>5, <1>6, <2>1, PrefixArchive
<1>8. \A d \in Days : gz'[d] = IF d = copying THEN g ELSE gz[d]
  BY <1>1, <1>2, <1>5 DEF TypeOK
<1>9. Covered'
  BY <1>1, <1>2, <1>6, <1>8 DEF Covered
<1> QED BY <1>7, <1>9 DEF SInv

\* The original is removed: its events are in the copy alone.
LEMMA UnlinkSInv == IInv /\ SInv /\ Unlink => SInv'
<1> SUFFICES ASSUME IInv, SInv, Unlink PROVE SInv'
  OBVIOUS
<1>1. TypeOK /\ OneDay(plain, gz, events) /\ Covered /\ copying # None /\ gz[copying].whole
  BY DEF IInv, SInv, Unlink
<1>2. copying \in Days /\ phase = "sweep"
  BY <1>1, CopyingFacts
<1>3. \A d \in Days : plain'[d] = IF d = copying THEN None ELSE plain[d]
  BY <1>1, <1>2 DEF Unlink, TypeOK
<1>4. /\ UNCHANGED <<gz, phase, today, events, swept>>
      /\ todo' = todo \ {[day |-> copying, kind |-> "plain"]}
  BY DEF Unlink, history
<1>5. OneDay(plain', gz', events')
  <2>1. \A d \in Days, id \in Events : HeldOn(plain', gz', d, id) => HeldOn(plain, gz, d, id)
    BY <1>3, <1>4, NoFile DEF HeldOn
  <2>2. \A d \in Days : Distinct(plain'[d]) /\ Distinct(gz'[d])
    BY <1>1, <1>3, <1>4, NoFile DEF OneDay
  <2> QED BY <1>1, <1>4, <2>1, <2>2, NoNewEvent
<1>6. ASSUME NEW d \in Days
      PROVE  /\ gz[d] # None /\ ~gz[d].whole => plain'[d] # None \/ today > d + DeleteAfter
             /\ plain'[d] # None /\ (gz[d] # None \/ today > d + DeleteAfter)
                => [day |-> d, kind |-> "plain"] \in todo'
             /\ gz[d] # None /\ today > d + DeleteAfter => [day |-> d, kind |-> "gz"] \in todo'
  <2>1. CASE d = copying
    BY <1>1, <1>2, <1>3, <1>4, <2>1 DEF Covered
  <2>2. CASE d # copying
    <3>1. [day |-> d, kind |-> "plain"] # [day |-> copying, kind |-> "plain"]
      BY <2>2
    <3> QED BY <1>1, <1>2, <1>3, <1>4, <2>2, <3>1 DEF Covered
  <2> QED BY <2>1, <2>2
<1>7. Covered'
  BY <1>1, <1>2, <1>4, <1>6 DEF Covered
<1> QED BY <1>5, <1>7 DEF SInv

\* The sweep breaks off and does not count as one that ended.
LEMMA SweepFailsSInv == IInv /\ SInv /\ SweepFails => SInv'
<1> SUFFICES ASSUME IInv, SInv, SweepFails PROVE SInv'
  OBVIOUS
<1>1. TypeOK /\ OneDay(plain, gz, events) /\ Covered
  BY DEF IInv, SInv
<1>2. /\ UNCHANGED <<plain, today, events, swept>>
      /\ phase' = "up" /\ todo' = {} /\ phase = "sweep"
  BY DEF SweepFails, history
<1>3. ~swept'
  BY <1>1, <1>2 DEF Covered
<1>4. ASSUME NEW d \in Days, gz'[d] # None, ~gz'[d].whole
      PROVE  gz'[d] = gz[d]
  <2>1. CASE UNCHANGED gz
    BY <2>1
  <2>2. CASE /\ copying # None
             /\ \E n \in 0..Len(plain[copying].lines) :
                  gz' = [gz EXCEPT ![copying] =
                           [lines |-> SubSeq(plain[copying].lines, 1, n), whole |-> TRUE]]
    <3>1. copying \in Days
      BY <2>2, CopyingFacts
    <3> QED BY <1>1, <1>4, <2>2, <3>1 DEF TypeOK
  <2> QED BY <2>1, <2>2 DEF SweepFails
<1>5. Covered'
  BY <1>1, <1>2, <1>3, <1>4 DEF Covered
<1>6. OneDay(plain', gz', events')
  <2>1. CASE UNCHANGED gz
    BY <1>1, <1>2, <2>1 DEF OneDay, HeldOn, Distinct, Holds
  <2>2. CASE /\ copying # None
             /\ \E n \in 0..Len(plain[copying].lines) :
                  gz' = [gz EXCEPT ![copying] =
                           [lines |-> SubSeq(plain[copying].lines, 1, n), whole |-> TRUE]]
    <3>1. PICK n \in 0..Len(plain[copying].lines) :
            gz' = [gz EXCEPT ![copying] =
                     [lines |-> SubSeq(plain[copying].lines, 1, n), whole |-> TRUE]]
      BY <2>2
    <3> DEFINE g == [lines |-> SubSeq(plain[copying].lines, 1, n), whole |-> TRUE]
    <3>2. plain[copying].lines \in Lines
      BY <2>2, CopyingFacts DEF Plain
    <3>3. /\ SubSeq(plain[copying].lines, 1, n) \in Lines
          /\ Len(SubSeq(plain[copying].lines, 1, n)) = n
          /\ \A i \in 1..n : SubSeq(plain[copying].lines, 1, n)[i] = plain[copying].lines[i]
      BY <3>2 DEF Lines
    <3>4. /\ g \in Gz /\ Len(g.lines) = n
          /\ \A i \in 1..n : g.lines[i] = plain[copying].lines[i]
          /\ gz' = [gz EXCEPT ![copying] = g]
      BY <3>1, <3>3 DEF Gz
    <3> HIDE DEF g
    <3> QED BY <1>2, <2>2, <3>4, PrefixArchive
  <2> QED BY <2>1, <2>2 DEF SweepFails
<1> QED BY <1>5, <1>6 DEF SInv

\* The steps that change no file.
LEMMA OtherSInv ==
    ASSUME IInv, SInv, SweepDone \/ Crash \/ UtcMidnight \/ LocalMidnight
    PROVE  SInv'
<1>1. OneDay(plain, gz, events) /\ Covered
  BY DEF SInv
<1>2. UNCHANGED <<plain, gz, events, today>>
  BY DEF SweepDone, Crash, UtcMidnight, LocalMidnight, files, history
<1>3. OneDay(plain', gz', events')
  BY <1>1, <1>2 DEF OneDay, HeldOn, Distinct, Holds
<1>4. Covered'
  <2>1. CASE SweepDone
    BY <1>1, <1>2, <2>1 DEF Covered, SweepDone
  <2>2. CASE Crash
    BY <1>1, <1>2, <2>2 DEF Covered, Crash
  <2>3. CASE UtcMidnight \/ LocalMidnight
    BY <1>1, <1>2, <2>3 DEF Covered, UtcMidnight, LocalMidnight
  <2> QED BY <2>1, <2>2, <2>3
<1> QED BY <1>3, <1>4 DEF SInv

\* The invariant holds at first.
LEMMA InitSInv == Init => SInv
<1> SUFFICES ASSUME Init PROVE SInv
  OBVIOUS
<1>1. \A d \in Days : plain[d] = None /\ gz[d] = None
  BY DEF Init
<1>2. OneDay(plain, gz, events)
  BY <1>1, NoFile DEF OneDay, HeldOn
<1>3. Covered
  BY <1>1 DEF Init, Covered
<1> QED BY <1>2, <1>3 DEF SInv

\* Every step keeps it.
LEMMA NextSInv == IInv /\ SInv /\ [Next]_vars => SInv'
<1> SUFFICES ASSUME IInv, SInv, [Next]_vars PROVE SInv'
  OBVIOUS
<1>1. CASE Write
  BY <1>1, WriteSInv
<1>2. CASE \E line \in Events \cup {Garbage}, ended, dies \in BOOLEAN :
             WriteTorn(line, ended, dies)
  BY <1>2, WriteTornSInv
<1>3. CASE Boot
  BY <1>3, BootSInv
<1>4. CASE \E e \in Entry : Delete(e)
  BY <1>4, DeleteSInv
<1>5. CASE \E d \in Days : GzipOpen(d)
  BY <1>5, GzipOpenSInv
<1>6. CASE GzipClose \/ Unlink \/ SweepFails
  BY <1>6, GzipCloseSInv, UnlinkSInv, SweepFailsSInv
<1>7. CASE SweepDone \/ Crash \/ UtcMidnight \/ LocalMidnight
  BY <1>7, OtherSInv
<1>8. CASE UNCHANGED vars
  BY <1>8 DEF vars, SInv, OneDay, HeldOn, Distinct, Holds, Covered
<1> QED BY <1>1, <1>2, <1>3, <1>4, <1>5, <1>6, <1>7, <1>8 DEF Next

\* For every retention policy, calendar and number of events: once
\* run_retention has ended normally, and until the process ends, no archive
\* makes query raise, no event is on two lines that it reads, although a
\* sweep that died or failed may have left a file beside its archive, and no
\* file over age is left.
THEOREM SweepRepairs == Spec => []SweptClean
<1>1. IInv /\ SInv => SweptClean
  <2> SUFFICES ASSUME IInv, SInv, phase = "up", swept
               PROVE  /\ Answers
                      /\ NoEventTwice
                      /\ \A d \in Days : plain[d] # None \/ gz[d] # None
                                         => today <= d + DeleteAfter
    BY DEF SweptClean
  <2>1. TypeOK /\ OneDay(plain, gz, events) /\ Covered /\ todo = {}
    BY DEF IInv, SInv, Covered
  <2>2. \A d \in Days : plain[d] = None \/ gz[d] = None
    BY <2>1 DEF Covered
  <2>3. Answers
    BY <2>1, <2>2 DEF Answers, Covered
  <2>4. ASSUME NEW e \in Entry, NEW f \in Entry, FileOf(e) # None, FileOf(f) # None,
               NEW i \in 1..Len(FileOf(e).lines), NEW j \in 1..Len(FileOf(f).lines),
               FileOf(e).lines[i] = FileOf(f).lines[j], FileOf(e).lines[i] # Garbage
        PROVE  e = f /\ i = j
    <3> DEFINE id == FileOf(e).lines[i]
    <3>1. e.day \in Days /\ f.day \in Days /\ e.kind \in {"plain", "gz"}
          /\ f.kind \in {"plain", "gz"}
      BY DEF Entry
    <3>2. FileOf(e).lines \in Lines
      BY <2>1, <2>4, <3>1 DEF FileOf, TypeOK, Plain, Gz
    <3>3. id \in Events
      BY <2>4, <3>2 DEF Lines
    <3>4. Holds(FileOf(e), id) /\ Holds(FileOf(f), id)
      BY <2>4 DEF Holds
    <3>5. e.day = f.day
      BY <2>1, <3>1, <3>3, <3>4 DEF FileOf, HeldOn, OneDay
    <3>6. e.kind = f.kind
      <4>1. plain[e.day] = None \/ gz[e.day] = None
        BY <2>2, <3>1
      <4>2. CASE e.kind = "plain" /\ f.kind = "gz"
        BY <2>4, <3>5, <4>1, <4>2 DEF FileOf
      <4>3. CASE e.kind = "gz" /\ f.kind = "plain"
        BY <2>4, <3>5, <4>1, <4>3 DEF FileOf
      <4> QED BY <3>1, <4>2, <4>3
    <3>7. e = f
      BY <3>5, <3>6 DEF Entry
    <3>8. Distinct(FileOf(e))
      BY <2>1, <3>1 DEF FileOf, OneDay
    <3> QED BY <2>4, <3>7, <3>8 DEF Distinct
  <2>5. NoEventTwice
    BY <2>4 DEF NoEventTwice
  <2>6. \A d \in Days : plain[d] # None \/ gz[d] # None => today <= d + DeleteAfter
    BY <2>1, AuditAssumption DEF Covered, TypeOK, Days
  <2> QED BY <2>3, <2>5, <2>6
<1>2. Spec => [](IInv /\ SInv)
  BY Invariance, InitSInv, NextSInv, PTL DEF Spec
<1> QED BY <1>1, <1>2, PTL

----------------------------------------------------------------------------
(* What a reader who pages through the audit sees.                         *)

\* A step keeps what query reported and adds only behind it.
Stable ==
    /\ \A p \in query :
          p \in query' /\ (FileOf(p[1]).lines[p[2]])' = FileOf(p[1]).lines[p[2]]
    /\ \A p \in query, q \in query' \ query : ReadBefore(p, q)

\* What query reports.
LEMMA QueryLine ==
    ASSUME NEW p
    PROVE  p \in query <=>
              \E e \in Entry : /\ FileOf(e) # None
                               /\ \E i \in 1..Len(FileOf(e).lines) :
                                     p = <<e, i>> /\ FileOf(e).lines[i] # Garbage
BY DEF query

\* The same after a step.
LEMMA QueryLineNext ==
    ASSUME NEW p
    PROVE  p \in query' <=>
              \E e \in Entry : /\ FileOf(e)' # None
                               /\ \E i \in 1..Len((FileOf(e)').lines) :
                                     p = <<e, i>> /\ (FileOf(e)').lines[i] # Garbage
BY DEF query

\* An append to a file whose last line is ended adds one line, the last of the
\* newest file.
LEMMA AppendStable ==
    ASSUME IInv, ~Unended(plain[local]), UNCHANGED gz,
           NEW line \in Events \cup {Garbage}, NEW ended \in BOOLEAN,
           plain' = [plain EXCEPT ![local] = AppendLine(@, line, ended)]
    PROVE  Stable
<1> DEFINE old == IF plain[local] = None THEN <<>> ELSE plain[local].lines
<1>0. local \in Days /\ [day |-> local, kind |-> "plain"] \in Entry
  BY DEF Entry, IInv, TypeOK
<1>1. PICK h \in Entry : h = [day |-> local, kind |-> "plain"]
  BY <1>0
<1>2. /\ plain'[local] # None /\ plain'[local] = AppendLine(plain[local], line, ended)
      /\ \A d \in Days : d # local => plain'[d] = plain[d]
  BY AppendStep DEF IInv
<1>3. FileOf(h) = plain[local] /\ FileOf(h)' = plain'[local]
  BY <1>1 DEF FileOf
<1>4. ASSUME NEW e \in Entry, e # h PROVE FileOf(e)' = FileOf(e)
  <2>1. e.day \in Days /\ (e.kind = "plain" => e.day # local)
    BY <1>1, <1>4 DEF Entry
  <2> QED
    BY <1>2, <2>1 DEF FileOf
<1>5. ASSUME NEW e \in Entry, e # h, FileOf(e) # None PROVE e.day < local
  <2>1. /\ e.day \in Days /\ e.kind \in {"plain", "gz"}
        /\ e.kind = "plain" => e.day # local
    BY <1>1, <1>5 DEF Entry
  <2>2. local \in Nat /\ utc \in Nat /\ e.day \in Nat
    BY <1>0, <2>1, AuditAssumption DEF IInv, TypeOK, Days
  <2>3. CASE e.kind = "plain"
    BY <1>5, <2>1, <2>2, <2>3 DEF FileOf, IInv, Calendar
  <2>4. CASE e.kind = "gz"
    <3>1. e.day + GzipAfter < utc /\ utc <= local + 1
      BY <1>5, <2>1, <2>4 DEF FileOf, IInv, Calendar
    <3> QED
      BY <2>2, <3>1, AuditAssumption
  <2> QED
    BY <2>1, <2>3, <2>4
<1>6. old \in Lines
  BY DEF IInv, TypeOK, Plain, Lines
<1>7. (plain'[local]).lines = Append(old, line)
  BY <1>2 DEF AppendLine, Unended
<1> HIDE DEF old
<1>8. /\ Len(old) \in Nat /\ Len(Append(old, line)) = Len(old) + 1
      /\ \A i \in 1..Len(old) : Append(old, line)[i] = old[i]
  BY <1>6 DEF Lines
<1>9. ASSUME NEW e \in Entry, FileOf(e) # None, NEW i \in 1..Len(FileOf(e).lines)
      PROVE  /\ FileOf(e)' # None /\ i \in 1..Len((FileOf(e)').lines)
             /\ (FileOf(e)').lines[i] = FileOf(e).lines[i]
  <2>1. CASE e # h
    BY <1>4, <1>9, <2>1
  <2>2. CASE e = h
    <3>1. FileOf(e).lines = old
      BY <1>3, <1>9, <2>2 DEF old
    <3>2. FileOf(e)' # None /\ (FileOf(e)').lines = Append(old, line)
      BY <1>2, <1>3, <1>7, <2>2
    <3> QED
      BY <1>8, <1>9, <3>1, <3>2
  <2> QED
    BY <2>1, <2>2
<1>10. ASSUME NEW p \in query
       PROVE  p \in query' /\ (FileOf(p[1]).lines[p[2]])' = FileOf(p[1]).lines[p[2]]
  <2>1. PICK e \in Entry : /\ FileOf(e) # None
                           /\ \E i \in 1..Len(FileOf(e).lines) :
                                 p = <<e, i>> /\ FileOf(e).lines[i] # Garbage
    BY <1>10, QueryLine
  <2>2. PICK i \in 1..Len(FileOf(e).lines) : p = <<e, i>> /\ FileOf(e).lines[i] # Garbage
    BY <2>1
  <2>3. /\ FileOf(e)' # None /\ i \in 1..Len((FileOf(e)').lines)
        /\ (FileOf(e)').lines[i] = FileOf(e).lines[i]
    BY <1>9, <2>1
  <2>4. p \in query'
    BY <2>2, <2>3, QueryLineNext
  <2>5. p[1] = e /\ p[2] = i
    BY <2>2
  <2> QED
    BY <2>3, <2>4, <2>5
<1>11. ASSUME NEW q \in query', q \notin query PROVE q = <<h, Len(old) + 1>>
  <2>1. PICK f \in Entry : /\ FileOf(f)' # None
                           /\ \E j \in 1..Len((FileOf(f)').lines) :
                                 q = <<f, j>> /\ (FileOf(f)').lines[j] # Garbage
    BY <1>11, QueryLineNext
  <2>2. PICK j \in 1..Len((FileOf(f)').lines) :
             q = <<f, j>> /\ (FileOf(f)').lines[j] # Garbage
    BY <2>1
  <2>3. f = h
    <3> SUFFICES ASSUME f # h PROVE FALSE
      OBVIOUS
    <3>1. FileOf(f)' = FileOf(f)
      BY <1>4
    <3> QED
      BY <1>11, <2>1, <2>2, <3>1, QueryLine
  <2>4. (FileOf(f)').lines = Append(old, line)
    BY <1>3, <1>7, <2>3
  <2>5. j \notin 1..Len(old)
    <3> SUFFICES ASSUME j \in 1..Len(old) PROVE FALSE
      OBVIOUS
    <3>1. old[j] # Garbage
      BY <1>8, <2>2, <2>4
    <3>2. plain[local] # None /\ FileOf(h).lines = old
      BY <1>3 DEF old
    <3> QED
      BY <1>1, <1>3, <1>11, <2>2, <2>3, <3>1, <3>2, QueryLine
  <2>6. j = Len(old) + 1
    BY <1>8, <2>2, <2>4, <2>5
  <2> QED
    BY <2>2, <2>3, <2>6
<1>12. ASSUME NEW p \in query, NEW q \in query' \ query PROVE ReadBefore(p, q)
  <2>1. q = <<h, Len(old) + 1>>
    BY <1>11, <1>12
  <2>2. PICK e \in Entry : /\ FileOf(e) # None
                           /\ \E i \in 1..Len(FileOf(e).lines) : p = <<e, i>>
    BY <1>12, QueryLine
  <2>3. PICK i \in 1..Len(FileOf(e).lines) : p = <<e, i>>
    BY <2>2
  <2>4. CASE e # h
    BY <1>1, <1>5, <2>1, <2>2, <2>3, <2>4 DEF ReadBefore
  <2>5. CASE e = h
    <3>1. FileOf(e).lines = old
      BY <1>3, <2>2, <2>5 DEF old
    <3>2. i < Len(old) + 1
      BY <1>8, <2>3, <3>1
    <3> QED
      BY <2>1, <2>3, <2>5, <3>2 DEF ReadBefore
  <2> QED
    BY <2>4, <2>5
<1> QED
  BY <1>10, <1>12 DEF Stable

\* For every retention policy, calendar and number of events: while the process
\* is up, what query reported stays where it was and new events come after it,
\* whatever write does and whichever midnight passes, unless the last line was
\* left without its newline.  So paging by offset misses nothing, as far as the
\* sort by date decides the order.
THEOREM PagingIsSound == Spec => PagesStable
<1>1. IInv /\ [Next]_vars =>
        [phase = "up" /\ phase' = "up" /\ ~Unended(plain[local]) => Stable]_vars
  <2> SUFFICES ASSUME IInv, Next, phase = "up", phase' = "up", ~Unended(plain[local])
               PROVE  Stable
    OBVIOUS
  <2>1. CASE UNCHANGED files
    <3>1. query' = query /\ \A e : FileOf(e)' = FileOf(e)
      BY <2>1 DEF files, query, FileOf
    <3> QED
      BY <3>1 DEF Stable
  <2>2. CASE Write
    <3>1. events + 1 \in Events
      BY <2>2, AuditAssumption DEF Write, IInv, TypeOK, Events
    <3> QED
      BY <2>2, <3>1, AppendStable DEF Write
  <2>3. ASSUME NEW line \in Events \cup {Garbage}, NEW ended \in BOOLEAN,
               NEW dies \in BOOLEAN, WriteTorn(line, ended, dies)
        PROVE  Stable
    BY <2>3, AppendStable DEF WriteTorn
  <2>4. CASE UtcMidnight \/ LocalMidnight
    BY <2>1, <2>4 DEF UtcMidnight, LocalMidnight
  <2>5. /\ ~(Boot \/ GzipClose \/ Unlink \/ SweepFails \/ SweepDone \/ Crash)
        /\ \A e \in Entry : ~Delete(e)
        /\ \A d \in Days : ~GzipOpen(d)
    BY DEF Boot, Delete, GzipOpen, GzipClose, Unlink, SweepFails, SweepDone, Crash
  <2> QED
    BY <2>2, <2>3, <2>4, <2>5 DEF Next
<1> HIDE DEF Stable
<1>2. Spec => [][phase = "up" /\ phase' = "up" /\ ~Unended(plain[local]) => Stable]_vars
  BY <1>1, Invariance, PTL DEF Spec
<1> QED
  BY <1>2 DEF PagesStable, Stable, Unended
============================================================================
