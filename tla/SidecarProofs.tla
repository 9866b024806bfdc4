--------------------------- MODULE SidecarProofs ----------------------------
(* The two parts of the sidecar that work on their own: the keys of the    *)
(* workspaces and the load watcher.                                        *)
(*                                                                         *)
(* For any workspaces, passphrases and number of keys, get_or_create hands *)
(* out only keys it has saved, and a workspace that has met one backend    *)
(* only never loses a row.                                                 *)
(*                                                                         *)
(* For every choice of the watcher's four durations, the mode switches     *)
(* when, and only when, the readings have lasted long enough.  The code    *)
(* keeps three markers and compares the time with them; the properties     *)
(* speak of the readings.  The inductive invariant says what the markers   *)
(* know of the readings: each is the time of the first reading of the      *)
(* current run beyond its threshold.                                       *)
EXTENDS WorkspaceKey, DegradedWatcher, TLAPS

-----------------------------------------------------------------------------
(* The keys.  A set replaces whatever its backend holds, so it is safe     *)
(* only because nothing is open under the old key, and because the get     *)
(* before it saw the backend empty, unless that get had asked the other    *)
(* backend.                                                                *)

\* The store is not open while its key is being created.
NotOpenYet == call # None => store[call.ws] = None

\* A backend that alone has been asked is still empty when a key is created.
EmptyBefore ==
    call # None =>
        /\ call.ws \notin usedFile => ring[call.ws] = None
        /\ call.ws \notin usedRing => file[call.ws] = None

\* An open store uses the key of the only backend that was asked.
OpenUnder ==
    \A ws \in Workspaces : store[ws] # None =>
        /\ ws \notin usedFile => store[ws] = ring[ws]
        /\ ws \notin usedRing => store[ws] = FileKey(ws)

\* The inductive invariant of the keys.
IInv ==
    /\ TypeOK /\ KeyPersisted /\ SingleBackendSafe
    /\ NotOpenYet /\ EmptyBefore /\ OpenUnder

\* None is not a key.
LEMMA NoneNotKey == None \notin Keys
BY KeyAssumption DEF Keys

\* It holds before any key exists.
LEMMA InitInv == Init => IInv
<1> SUFFICES ASSUME Init PROVE IInv
  OBVIOUS
<1>1. TypeOK
  BY KeyAssumption DEF Init, TypeOK
<1>2. KeyPersisted /\ SingleBackendSafe /\ NotOpenYet /\ EmptyBefore /\ OpenUnder
  BY DEF Init, KeyPersisted, SingleBackendSafe, NotOpenYet, EmptyBefore, OpenUnder
<1> QED
  BY <1>1, <1>2 DEF IInv

\* get: a key is generated or the store is opened under the one found.
LEMMA OpenInv == ASSUME IInv, NEW ws \in Workspaces, Open(ws) PROVE IInv'
<1>1. /\ TypeOK /\ KeyPersisted /\ SingleBackendSafe
      /\ NotOpenYet /\ EmptyBefore /\ OpenUnder
  BY DEF IInv
<1>2. /\ call = None /\ store[ws] = None
      /\ UNCHANGED <<ringUp, ring, file, fallback, pass, rows>>
      /\ usedRing \subseteq usedRing' /\ usedFile \subseteq usedFile'
      /\ usedRing' \subseteq Workspaces /\ usedFile' \subseteq Workspaces
  BY <1>1 DEF Open, GetFromRing, GetFromFile, TypeOK
<1>3. SingleBackendSafe'
  BY <1>1, <1>2 DEF SingleBackendSafe, FileKey
<1>4. CASE Generate(ws) /\ (ws \notin usedFile' => ring[ws] = None)
                        /\ (ws \notin usedRing' => file[ws] = None)
  <2>1. /\ generated + 1 \in Keys /\ generated' \in 0..MaxKeys
        /\ call' = [ws |-> ws, key |-> generated + 1] /\ store' = store
    BY <1>1, <1>4, KeyAssumption DEF Generate, TypeOK, Keys
  <2>2. call' \in Call /\ call'.ws = ws
    BY <2>1 DEF Call
  <2>3. TypeOK'
    BY <1>1, <1>2, <2>1, <2>2 DEF TypeOK
  <2>4. NotOpenYet' /\ EmptyBefore'
    BY <1>2, <1>4, <2>1, <2>2 DEF NotOpenYet, EmptyBefore
  <2>5. KeyPersisted' /\ OpenUnder'
    BY <1>1, <1>2, <2>1 DEF KeyPersisted, OpenUnder, FileKey
  <2> QED
    BY <1>3, <2>3, <2>4, <2>5 DEF IInv
<1>5. ASSUME NEW key \in Keys, OpenStore(ws, key), key \in {ring[ws], FileKey(ws)},
             ws \notin usedFile' => key = ring[ws],
             ws \notin usedRing' => key = FileKey(ws)
      PROVE  IInv'
  <2>1. /\ store' \in [Workspaces -> Keys \cup {None}]
        /\ store'[ws] = key
        /\ \A w \in Workspaces : w # ws => store'[w] = store[w]
        /\ UNCHANGED <<call, generated>>
    BY <1>1, <1>5 DEF OpenStore, TypeOK
  <2>2. TypeOK'
    BY <1>1, <1>2, <2>1 DEF TypeOK
  <2>3. KeyPersisted' /\ OpenUnder'
    BY <1>1, <1>2, <1>5, <2>1 DEF KeyPersisted, OpenUnder, FileKey
  <2>4. NotOpenYet' /\ EmptyBefore'
    BY <1>2, <2>1 DEF NotOpenYet, EmptyBefore
  <2> QED
    BY <1>3, <2>2, <2>3, <2>4 DEF IInv
<1>6. CASE GetFromRing(ws)
  <2>1. ws \in usedRing'
    BY <1>6 DEF GetFromRing
  <2>2. CASE ring[ws] = None
    BY <1>4, <1>6, <2>1, <2>2 DEF GetFromRing
  <2>3. CASE ring[ws] # None
    <3>1. ring[ws] \in Keys /\ OpenStore(ws, ring[ws])
      BY <1>1, <1>6, <2>3 DEF GetFromRing, TypeOK
    <3> QED
      BY <1>5, <2>1, <3>1
  <2> QED
    BY <2>2, <2>3
<1>7. CASE GetFromFile(ws)
  <2>1. ws \in usedFile'
    BY <1>7 DEF GetFromFile
  <2>2. CASE file[ws] = None
    BY <1>4, <1>7, <2>1, <2>2 DEF GetFromFile
  <2>3. CASE file[ws] # None
    <3>1. /\ FileKey(ws) = file[ws].key /\ FileKey(ws) \in Keys
          /\ OpenStore(ws, FileKey(ws))
      BY <1>1, <1>7, <2>3 DEF GetFromFile, TypeOK, FileKey, KeyFile
    <3> QED
      BY <1>5, <2>1, <3>1
  <2> QED
    BY <2>2, <2>3
<1> QED
  BY <1>6, <1>7 DEF Open

\* The new key is saved in the keyring.
LEMMA SetInRingInv == IInv /\ SetInRing => IInv'
<1> SUFFICES ASSUME IInv, SetInRing PROVE IInv'
  OBVIOUS
<1> DEFINE ws == call.ws
<1>1. /\ TypeOK /\ KeyPersisted /\ SingleBackendSafe
      /\ NotOpenYet /\ EmptyBefore /\ OpenUnder
  BY DEF IInv
<1>2. ws \in Workspaces /\ call.key \in Keys /\ store[ws] = None
  BY <1>1 DEF SetInRing, TypeOK, Call, NotOpenYet
<1>3. /\ ring' \in [Workspaces -> Keys \cup {None}]
      /\ store' \in [Workspaces -> Keys \cup {None}]
      /\ ring'[ws] = call.key /\ store'[ws] = call.key
      /\ \A w \in Workspaces : w # ws => ring'[w] = ring[w] /\ store'[w] = store[w]
      /\ usedRing' = usedRing \cup {ws} /\ call' = None
      /\ UNCHANGED <<ringUp, file, fallback, pass, rows, generated, usedFile>>
  BY <1>1, <1>2 DEF SetInRing, TypeOK
<1>4. TypeOK'
  BY <1>1, <1>2, <1>3 DEF TypeOK
<1>5. NotOpenYet' /\ EmptyBefore'
  BY <1>3 DEF NotOpenYet, EmptyBefore
<1>6. KeyPersisted' /\ OpenUnder'
  BY <1>1, <1>2, <1>3 DEF KeyPersisted, OpenUnder, FileKey
<1>7. ws \notin usedFile => rows[ws] = {}
  BY <1>1, <1>2, NoneNotKey DEF SetInRing, SingleBackendSafe, EmptyBefore, TypeOK
<1>8. SingleBackendSafe'
  BY <1>1, <1>2, <1>3, <1>7 DEF SingleBackendSafe, FileKey
<1> QED
  BY <1>4, <1>5, <1>6, <1>8 DEF IInv

\* The new key is saved in the file.
LEMMA SetInFileInv == IInv /\ SetInFile => IInv'
<1> SUFFICES ASSUME IInv, SetInFile PROVE IInv'
  OBVIOUS
<1>1. /\ TypeOK /\ KeyPersisted /\ SingleBackendSafe
      /\ NotOpenYet /\ EmptyBefore /\ OpenUnder
  BY DEF IInv
<1>2. PICK ws \in Workspaces : ws = call.ws /\ store[ws] = None
  BY <1>1 DEF SetInFile, TypeOK, Call, NotOpenYet
<1>3. PICK new \in KeyFile : new = [key |-> call.key, pass |-> pass]
  BY <1>1 DEF SetInFile, TypeOK, Call, KeyFile
<1>4. /\ file' \in [Workspaces -> KeyFile \cup {None}]
      /\ store' \in [Workspaces -> Keys \cup {None}]
      /\ file'[ws] = new /\ store'[ws] = new.key
      /\ \A w \in Workspaces : w # ws => file'[w] = file[w] /\ store'[w] = store[w]
      /\ usedFile' = usedFile \cup {ws} /\ call' = None
      /\ UNCHANGED <<ringUp, ring, fallback, pass, rows, generated, usedRing>>
  <2>1. new.key = call.key /\ new.key \in Keys
    BY <1>3 DEF KeyFile
  <2> QED
    BY <1>1, <1>2, <1>3, <2>1 DEF SetInFile, TypeOK
<1>5. TypeOK'
  BY <1>1, <1>2, <1>4 DEF TypeOK
<1>6. NotOpenYet' /\ EmptyBefore'
  BY <1>4 DEF NotOpenYet, EmptyBefore
<1>7. /\ FileKey(ws)' = new.key
      /\ \A w \in Workspaces : w # ws => FileKey(w)' = FileKey(w)
  <2>1. new # None
    BY KeyNoneAssumption
  <2> QED
    BY <1>4, <2>1 DEF FileKey
<1>8. KeyPersisted' /\ OpenUnder'
  BY <1>1, <1>2, <1>4, <1>7 DEF KeyPersisted, OpenUnder
<1>9. ws \notin usedRing => rows[ws] = {}
  <2>1. ws \notin usedRing => FileKey(ws) = None
    BY <1>1, <1>2 DEF SetInFile, EmptyBefore, FileKey
  <2>2. ws \notin usedRing => rows[ws] \subseteq {FileKey(ws)}
    BY <1>1, <1>2 DEF SingleBackendSafe
  <2>3. rows[ws] \subseteq Keys
    BY <1>1, <1>2 DEF TypeOK
  <2> QED
    BY <2>1, <2>2, <2>3, NoneNotKey
<1>10. SingleBackendSafe'
  BY <1>1, <1>2, <1>4, <1>7, <1>9 DEF SingleBackendSafe
<1> QED
  BY <1>5, <1>6, <1>8, <1>10 DEF IInv

\* put writes under the key of the open store; a purge leaves no row.
LEMMA RowsInv == ASSUME IInv, NEW ws \in Workspaces, Put(ws) \/ PurgeAll(ws) PROVE IInv'
<1>1. /\ TypeOK /\ KeyPersisted /\ SingleBackendSafe
      /\ NotOpenYet /\ EmptyBefore /\ OpenUnder
  BY DEF IInv
<1>2. /\ UNCHANGED <<ringUp, ring, file, fallback, pass, call, store, generated,
                     usedRing, usedFile>>
      /\ rows' \in [Workspaces -> SUBSET Keys]
      /\ rows'[ws] \subseteq rows[ws] \cup {store[ws]} /\ store[ws] # None
      /\ \A w \in Workspaces : w # ws => rows'[w] = rows[w]
  BY <1>1 DEF Put, PurgeAll, TypeOK
<1>3. TypeOK' /\ KeyPersisted' /\ NotOpenYet' /\ EmptyBefore' /\ OpenUnder'
  BY <1>1, <1>2 DEF TypeOK, KeyPersisted, NotOpenYet, EmptyBefore, OpenUnder, FileKey
<1>4. SingleBackendSafe'
  BY <1>1, <1>2 DEF SingleBackendSafe, OpenUnder, FileKey
<1> QED
  BY <1>3, <1>4 DEF IInv

\* The steps that close stores or change the environment.
LEMMA OtherInv ==
    ASSUME IInv,
           \/ SetFails \/ RingFlips
           \/ \E f \in BOOLEAN, p \in Passphrases \cup {None} : Restart(f, p)
    PROVE  IInv'
<1>1. /\ TypeOK /\ KeyPersisted /\ SingleBackendSafe
      /\ NotOpenYet /\ EmptyBefore /\ OpenUnder
  BY DEF IInv
<1>2. CASE SetFails
  BY <1>1, <1>2 DEF SetFails, IInv, TypeOK, KeyPersisted, SingleBackendSafe,
                    NotOpenYet, EmptyBefore, OpenUnder, FileKey
<1>3. CASE RingFlips
  BY <1>1, <1>3 DEF RingFlips, IInv, TypeOK, KeyPersisted, SingleBackendSafe,
                    NotOpenYet, EmptyBefore, OpenUnder, FileKey
<1>4. ASSUME NEW f \in BOOLEAN, NEW p \in Passphrases \cup {None}, Restart(f, p)
      PROVE  IInv'
  <2>1. TypeOK'
    BY <1>1, <1>4 DEF Restart, TypeOK
  <2>2. KeyPersisted' /\ NotOpenYet' /\ EmptyBefore' /\ OpenUnder'
    BY <1>4 DEF Restart, KeyPersisted, NotOpenYet, EmptyBefore, OpenUnder
  <2>3. SingleBackendSafe'
    BY <1>1, <1>4 DEF Restart, SingleBackendSafe, FileKey
  <2> QED
    BY <2>1, <2>2, <2>3 DEF IInv
<1> QED
  BY <1>2, <1>3, <1>4

----------------------------------------------------------------------------

\* Every step keeps it.
LEMMA NextInv == IInv /\ [Next]_vars => IInv'
<1> SUFFICES ASSUME IInv, [Next]_vars PROVE IInv'
  OBVIOUS
<1>1. CASE \E ws \in Workspaces : Open(ws) \/ Put(ws) \/ PurgeAll(ws)
  BY <1>1, OpenInv, RowsInv
<1>2. CASE SetInRing \/ SetInFile
  BY <1>2, SetInRingInv, SetInFileInv
<1>3. CASE \/ SetFails \/ RingFlips
           \/ \E f \in BOOLEAN, p \in Passphrases \cup {None} : Restart(f, p)
  BY <1>3, OtherInv
<1>4. CASE UNCHANGED vars
  BY <1>4 DEF vars, IInv, TypeOK, KeyPersisted, SingleBackendSafe,
              NotOpenYet, EmptyBefore, OpenUnder, FileKey
<1> QED
  BY <1>1, <1>2, <1>3, <1>4 DEF Next

\* The key a store is open under is in one of the two backends: get_or_create
\* returns no key whose set failed, and no later set replaces it.
THEOREM KeyAlwaysPersisted == Spec => []KeyPersisted
<1>1. IInv => KeyPersisted
  BY DEF IInv
<1> QED
  BY <1>1, InitInv, NextInv, PTL DEF Spec

\* A workspace that has met only the keychain, or only the key file, can read
\* every row it has not purged, whatever fails or restarts in between.
THEOREM NoRowOrphaned == Spec => [](TypeOK /\ SingleBackendSafe)
<1>1. IInv => TypeOK /\ SingleBackendSafe
  BY DEF IInv
<1> QED
  BY <1>1, InitInv, NextInv, PTL DEF Spec

-----------------------------------------------------------------------------
(* The watcher.                                                            *)

\* The last reading.
Last(readings) == readings[Len(readings)]

\* The readings are in the order of their times.
Ordered(readings) ==
    \A i, j \in 1..Len(readings) : i <= j => readings[i].at <= readings[j].at

\* A marker is set exactly when the last reading lies in the bands, and then
\* holds the time the current run of such readings began.
MarkerOf(readings, m, bands) ==
    /\ m = Unset => (readings = <<>> \/ Last(readings).band \notin bands)
    /\ m # Unset => \E i \in 1..Len(readings) :
          /\ Run(readings, i, bands)
          /\ readings[i].at = m
          /\ i = 1 \/ readings[i - 1].band \notin bands

\* The three markers.
MarkerInv ==
    /\ MarkerOf(log, aboveEmSince, {"critical"})
    /\ MarkerOf(log, aboveDegSince, {"high", "critical"})
    /\ MarkerOf(log, belowSince, {"low"})

\* No reading is later than the clock, or than the one a tick is working on.
TimeInv ==
    /\ Ordered(log)
    /\ \A i \in 1..Len(log) : log[i].at <= now
    /\ sample.at <= now
    /\ pc = "tick" => \A i \in 1..Len(log) : log[i].at <= sample.at

\* The inductive invariant of the watcher.
WatcherInv == WatcherTypeOK /\ TimeInv /\ MarkerInv /\ PromptSwitch

----------------------------------------------------------------------------
(* What one more reading does to a marker.                                 *)

\* A reading has a time.
LEMMA ReadingAt ==
    ASSUME NEW l \in Seq(Reading), NEW i \in 1..Len(l)
    PROVE  l[i] \in Reading /\ l[i].at \in Nat
<1>1. l[i] \in Reading
  OBVIOUS
<1> QED BY <1>1, WatcherAssumption DEF Reading, Time

\* A reading in the bands continues the run, or begins it.
LEMMA Extend ==
    ASSUME NEW l \in Seq(Reading), NEW r \in Reading, NEW m \in Marker, NEW bands,
           r.band \in bands, MarkerOf(l, m, bands)
    PROVE  MarkerOf(Append(l, r), Started(m, r.at), bands)
<1> DEFINE k == Append(l, r)
           n == Started(m, r.at)
<1>1. /\ k \in Seq(Reading) /\ Len(k) = Len(l) + 1 /\ k[Len(k)] = r /\ Len(l) \in Nat
      /\ \A i \in 1..Len(l) : k[i] = l[i]
  OBVIOUS
<1>2. n # Unset
  BY WatcherAssumption DEF Started, Reading, Time, Marker
<1>3. \E i \in 1..Len(k) : /\ Run(k, i, bands)
                           /\ k[i].at = n
                           /\ i = 1 \/ k[i - 1].band \notin bands
  <2>1. CASE m = Unset
    <3>1. Run(k, Len(k), bands)
      BY <1>1 DEF Run
    <3>2. k[Len(k)].at = n
      BY <1>1, <2>1 DEF Started
    <3>3. Len(k) = 1 \/ k[Len(k) - 1].band \notin bands
      <4>1. l = <<>> \/ (Len(l) \in 1..Len(l) /\ l[Len(l)].band \notin bands)
        BY <2>1 DEF MarkerOf, Last
      <4>2. l = <<>> => Len(l) = 0
        OBVIOUS
      <4> HIDE DEF k
      <4> QED BY <1>1, <4>1, <4>2
    <3> HIDE DEF k, n
    <3> QED BY <1>1, <3>1, <3>2, <3>3
  <2>2. CASE m # Unset
    <3>1. PICK i \in 1..Len(l) : /\ Run(l, i, bands)
                                 /\ l[i].at = m
                                 /\ i = 1 \/ l[i - 1].band \notin bands
      BY <2>2 DEF MarkerOf
    <3>2. n = m
      BY <2>2 DEF Started
    <3> HIDE DEF k, n
    <3>3. Run(k, i, bands)
      BY <1>1, <3>1 DEF Run
    <3>4. k[i].at = n /\ (i = 1 \/ k[i - 1].band \notin bands)
      BY <1>1, <3>1, <3>2
    <3> QED BY <1>1, <3>3, <3>4
  <2> QED BY <2>1, <2>2
<1> QED BY <1>2, <1>3 DEF MarkerOf

\* A reading outside the bands ends the run.
LEMMA Break ==
    ASSUME NEW l \in Seq(Reading), NEW r \in Reading, NEW bands, r.band \notin bands
    PROVE  MarkerOf(Append(l, r), Unset, bands)
<1>1. Last(Append(l, r)) = r
  BY DEF Last
<1> QED BY <1>1 DEF MarkerOf

\* Comparing the time of the last reading with the marker decides whether the
\* readings were sustained.
LEMMA SustainedIff ==
    ASSUME NEW l \in Seq(Reading), l # <<>>, Ordered(l), NEW m \in Marker, NEW bands,
           MarkerOf(l, m, bands), NEW d \in Nat
    PROVE  Sustained(l, bands, d) <=> m # Unset /\ Last(l).at >= m + d
<1>1. Len(l) \in 1..Len(l) /\ \A i \in 1..Len(l) : l[i].at \in Nat
  <2>1. Len(l) \in Nat /\ Len(l) # 0
    OBVIOUS
  <2> QED BY <2>1, ReadingAt
<1>2. ASSUME Sustained(l, bands, d) PROVE m # Unset /\ Last(l).at >= m + d
  <2>1. PICK i \in 1..Len(l) : Run(l, i, bands) /\ l[Len(l)].at >= l[i].at + d
    BY <1>2 DEF Sustained
  <2>2. l[Len(l)].band \in bands
    BY <1>1, <2>1 DEF Run
  <2>3. m # Unset
    BY <2>2 DEF MarkerOf, Last
  <2>4. PICK k \in 1..Len(l) : /\ Run(l, k, bands)
                               /\ l[k].at = m
                               /\ k = 1 \/ l[k - 1].band \notin bands
    BY <2>3 DEF MarkerOf
  <2>5. k <= i
    <3>1. SUFFICES ASSUME i < k PROVE FALSE
      BY <2>1, <2>4
    <3>2. k - 1 \in i..Len(l) /\ k # 1
      BY <2>1, <2>4, <3>1
    <3> QED BY <2>1, <2>4, <3>2 DEF Run
  <2>6. l[k].at <= l[i].at
    BY <2>1, <2>4, <2>5 DEF Ordered
  <2> QED BY <1>1, <2>1, <2>3, <2>4, <2>6 DEF Last
<1>3. ASSUME m # Unset, Last(l).at >= m + d PROVE Sustained(l, bands, d)
  <2>1. PICK k \in 1..Len(l) : Run(l, k, bands) /\ l[k].at = m
    BY <1>3 DEF MarkerOf
  <2> QED BY <1>3, <2>1 DEF Sustained, Last
<1> QED BY <1>2, <1>3

----------------------------------------------------------------------------
(* The invariant.                                                          *)

\* There is no reading and no marker at first.
LEMMA WatcherInitInv == WatcherInit => WatcherInv
<1> SUFFICES ASSUME WatcherInit PROVE WatcherInv
  OBVIOUS
<1>1. WatcherTypeOK
  <2>1. 0 \in Time /\ Unset \in Marker
    BY WatcherAssumption DEF Time, Marker
  <2>2. sample \in Reading
    BY <2>1 DEF WatcherInit, Reading, Bands
  <2>3. mode \in Modes /\ stopSet \in BOOLEAN /\ wakeAt \in Nat /\ log \in Seq(Reading)
    <3>1. mode \in Modes /\ wakeAt \in Nat /\ log \in Seq(Reading)
      BY DEF WatcherInit, Modes
    <3>2. stopSet \in BOOLEAN
      BY DEF WatcherInit
    <3> QED BY <3>1, <3>2
  <2>4. pc \in {"off", "loop", "tick", "waiting", "exited"}
    BY DEF WatcherInit
  <2>5. /\ aboveEmSince \in Marker /\ aboveDegSince \in Marker /\ belowSince \in Marker
        /\ now \in Time
    BY <2>1 DEF WatcherInit
  <2> QED BY <2>2, <2>3, <2>4, <2>5 DEF WatcherTypeOK
<1>2. TimeInv
  BY DEF WatcherInit, TimeInv, Ordered
<1>3. MarkerInv
  BY DEF WatcherInit, MarkerInv, MarkerOf
<1>4. PromptSwitch
  BY DEF WatcherInit, PromptSwitch
<1> QED BY <1>1, <1>2, <1>3, <1>4 DEF WatcherInv

\* The thread's other steps, the clock and stop() touch neither the mode, nor
\* the markers, nor the log.
LEMMA QuietStepInv ==
    ASSUME WatcherInv,
           \/ Start \/ ProbeFails \/ WakeUp \/ Exit \/ Stop \/ Clock
           \/ \E band \in Bands : Sample(band)
           \/ UNCHANGED watcherVars
    PROVE  WatcherInv' /\ UNCHANGED <<mode, log>>
<1>1. UNCHANGED <<mode, markers, log>>
  BY DEF Start, ProbeFails, WakeUp, Exit, Stop, Clock, Sample, watcherVars
<1>2. WatcherTypeOK'
  <2>1. CASE \/ Start \/ ProbeFails \/ WakeUp \/ Exit \/ Stop \/ Clock \/ UNCHANGED watcherVars
    <3>1. now \in Nat /\ now + PollInterval \in Nat
      BY WatcherAssumption DEF WatcherInv, WatcherTypeOK, Time
    <3>2. now' \in Time /\ wakeAt' \in Nat
      BY <2>1, <3>1, WatcherAssumption
         DEF WatcherInv, WatcherTypeOK, Start, ProbeFails, WakeUp, Exit, Stop, Clock, watcherVars, Time
    <3> QED BY <1>1, <2>1, <3>2
         DEF WatcherInv, WatcherTypeOK, Start, ProbeFails, WakeUp, Exit, Stop, Clock, watcherVars, markers
  <2>2. ASSUME NEW band \in Bands, Sample(band) PROVE WatcherTypeOK'
    BY <2>2 DEF WatcherInv, WatcherTypeOK, Sample, markers, Reading
  <2> QED BY <2>1, <2>2
<1>3. TimeInv'
  <2>1. \A i \in 1..Len(log) : log[i].at \in Nat
    BY ReadingAt DEF WatcherInv, WatcherTypeOK
  <2>2. now \in Nat
    BY DEF WatcherInv, WatcherTypeOK, Time
  <2>3. sample.at \in Nat
    BY WatcherAssumption DEF WatcherInv, WatcherTypeOK, Reading, Time
  <2>4. CASE \/ Start \/ ProbeFails \/ WakeUp \/ Exit \/ Stop \/ Clock \/ UNCHANGED watcherVars
    BY <2>1, <2>2, <2>3, <2>4
       DEF WatcherInv, TimeInv, Ordered, Start, ProbeFails, WakeUp, Exit, Stop, Clock, watcherVars
  <2>5. ASSUME NEW band \in Bands, Sample(band) PROVE TimeInv'
    <3>1. sample'.at = now /\ UNCHANGED <<now, log>>
      BY <2>5 DEF Sample
    <3> QED BY <2>2, <3>1 DEF WatcherInv, TimeInv, Ordered
  <2> QED BY <2>4, <2>5
<1>4. MarkerInv' /\ PromptSwitch'
  BY <1>1 DEF WatcherInv, MarkerInv, MarkerOf, PromptSwitch, Sustained, Run, Last, markers
<1> QED BY <1>1, <1>2, <1>3, <1>4 DEF WatcherInv

\* What a tick leaves behind, before the mode is looked at.
LEMMA TickMarkers ==
    ASSUME WatcherInv, Advance
    PROVE  /\ WatcherTypeOK' /\ TimeInv' /\ MarkerInv'
           /\ log' # <<>> /\ Last(log') = sample
<1>1. /\ log \in Seq(Reading) /\ sample \in Reading /\ log' = Append(log, sample)
      /\ aboveEmSince \in Marker /\ aboveDegSince \in Marker /\ belowSince \in Marker
      /\ sample.at \in Time /\ sample.band \in Bands
  BY DEF WatcherInv, WatcherTypeOK, Advance, Reading
<1>2. MarkerOf(log, aboveEmSince, {"critical"}) /\ MarkerOf(log, aboveDegSince, {"high", "critical"})
        /\ MarkerOf(log, belowSince, {"low"})
  BY DEF WatcherInv, MarkerInv
<1>3. /\ log' \in Seq(Reading) /\ log' # <<>> /\ Last(log') = sample
      /\ Len(log') = Len(log) + 1 /\ Len(log) \in Nat
      /\ \A i \in 1..Len(log) : log'[i] = log[i]
      /\ log'[Len(log) + 1] = sample
  BY <1>1 DEF Last
<1>4. MarkerInv'
  <2>1. CASE sample.band = "critical" /\ Critical(sample.at)
    <3>1. MarkerOf(log', aboveEmSince', {"critical"})
      BY <1>1, <1>2, <2>1, Extend DEF Critical
    <3>2. MarkerOf(log', aboveDegSince', {"high", "critical"})
      BY <1>1, <1>2, <2>1, Extend DEF Critical
    <3>3. MarkerOf(log', belowSince', {"low"})
      BY <1>1, <2>1, Break DEF Critical
    <3> QED BY <3>1, <3>2, <3>3 DEF MarkerInv, MarkerOf, Run, Last
  <2>2. CASE sample.band = "high" /\ High(sample.at)
    <3>1. MarkerOf(log', aboveEmSince', {"critical"})
      BY <1>1, <2>2, Break DEF High
    <3>2. MarkerOf(log', aboveDegSince', {"high", "critical"})
      BY <1>1, <1>2, <2>2, Extend DEF High
    <3>3. MarkerOf(log', belowSince', {"low"})
      BY <1>1, <2>2, Break DEF High
    <3> QED BY <3>1, <3>2, <3>3 DEF MarkerInv, MarkerOf, Run, Last
  <2>3. CASE sample.band = "low" /\ Low(sample.at)
    <3>1. MarkerOf(log', aboveEmSince', {"critical"})
      BY <1>1, <2>3, Break DEF Low
    <3>2. MarkerOf(log', aboveDegSince', {"high", "critical"})
      BY <1>1, <2>3, Break DEF Low
    <3>3. MarkerOf(log', belowSince', {"low"})
      BY <1>1, <1>2, <2>3, Extend DEF Low
    <3> QED BY <3>1, <3>2, <3>3 DEF MarkerInv, MarkerOf, Run, Last
  <2> QED BY <2>1, <2>2, <2>3 DEF Advance
<1>5. WatcherTypeOK'
  <2>1. /\ aboveEmSince' \in Marker /\ aboveDegSince' \in Marker /\ belowSince' \in Marker
        /\ mode' \in Modes
    BY <1>1 DEF Advance, Critical, High, Low, Started, Marker, WatcherInv, WatcherTypeOK, Modes
  <2>2. pc' = "waiting" /\ wakeAt' \in Nat /\ UNCHANGED <<now, sample, stopSet>>
    BY WatcherAssumption DEF Advance, WatcherInv, WatcherTypeOK, Time
  <2> QED BY <1>3, <2>1, <2>2 DEF WatcherInv, WatcherTypeOK
<1>6. TimeInv'
  <2>1. \A i \in 1..Len(log) : log[i].at <= sample.at
    BY DEF WatcherInv, TimeInv, Advance
  <2>2. \A i, j \in 1..Len(log) : i <= j => log[i].at <= log[j].at
    BY DEF WatcherInv, TimeInv, Ordered
  <2>3. \A i \in 1..Len(log) : log[i].at \in Nat
    BY ReadingAt DEF WatcherInv, WatcherTypeOK
  <2>4. sample.at \in Nat /\ sample.at <= now /\ now \in Nat
        /\ now' = now /\ sample' = sample /\ pc' = "waiting"
    BY <1>1, WatcherAssumption DEF WatcherInv, WatcherTypeOK, TimeInv, Advance, Time
  <2>5. Ordered(log')
    BY <1>3, <2>1, <2>2, <2>4 DEF Ordered
  <2>6. \A i \in 1..Len(log') : log'[i].at <= now'
    BY <1>3, <2>1, <2>3, <2>4
  <2> QED BY <2>4, <2>5, <2>6 DEF TimeInv, Ordered
<1> QED BY <1>3, <1>4, <1>5, <1>6

\* After a tick the mode says what the readings were, in both directions.
LEMMA TickMode ==
    ASSUME WatcherInv, Advance
    PROVE  /\ PromptSwitch'
           /\ mode' = "emergency" /\ mode # "emergency" =>
                 Sustained(log', {"critical"}, EmergencyAfter)
           /\ mode' = "degraded" /\ mode # "degraded" =>
                 mode = "full" /\ Sustained(log', {"high", "critical"}, DegradedAfter)
           /\ mode' = "full" /\ mode # "full" => Sustained(log', {"low"}, RecoverAfter)
<1> DEFINE t == sample.at
<1>1. /\ WatcherTypeOK' /\ TimeInv' /\ MarkerInv' /\ log' # <<>> /\ Last(log') = sample
  BY TickMarkers
<1>2. /\ log' \in Seq(Reading) /\ Ordered(log') /\ mode \in Modes
      /\ aboveEmSince' \in Marker /\ aboveDegSince' \in Marker /\ belowSince' \in Marker
      /\ MarkerOf(log', aboveEmSince', {"critical"})
      /\ MarkerOf(log', aboveDegSince', {"high", "critical"})
      /\ MarkerOf(log', belowSince', {"low"})
  BY <1>1 DEF WatcherTypeOK, TimeInv, MarkerInv, Ordered, MarkerOf, Run, Last, WatcherInv
<1>3. /\ Sustained(log', {"critical"}, EmergencyAfter) <=>
            aboveEmSince' # Unset /\ t >= aboveEmSince' + EmergencyAfter
      /\ Sustained(log', {"high", "critical"}, DegradedAfter) <=>
            aboveDegSince' # Unset /\ t >= aboveDegSince' + DegradedAfter
      /\ Sustained(log', {"low"}, RecoverAfter) <=>
            belowSince' # Unset /\ t >= belowSince' + RecoverAfter
  BY <1>1, <1>2, SustainedIff, WatcherAssumption
<1>4. t # Unset /\ log'[Len(log')].band = sample.band
  BY <1>1, WatcherAssumption DEF Last, WatcherInv, WatcherTypeOK, Reading, Time
<1>5. CASE sample.band = "critical" /\ Critical(t)
  <2>1. aboveEmSince' # Unset /\ belowSince' = Unset
    BY <1>4, <1>5 DEF Critical, Started
  <2>2. PromptSwitch'
    BY <1>3, <1>4, <1>5, <2>1 DEF Critical, PromptSwitch, Sustained, Run
  <2> QED BY <1>2, <1>3, <1>5, <2>1, <2>2 DEF Critical, Modes
<1>6. CASE sample.band = "high" /\ High(t)
  <2>1. aboveDegSince' # Unset /\ belowSince' = Unset /\ aboveEmSince' = Unset
    BY <1>4, <1>6 DEF High, Started
  <2>2. PromptSwitch'
    BY <1>3, <1>4, <1>6, <2>1 DEF High, PromptSwitch, Sustained, Run
  <2> QED BY <1>2, <1>3, <1>6, <2>1, <2>2 DEF High, Modes
<1>7. CASE sample.band = "low" /\ Low(t)
  <2>1. belowSince' # Unset /\ aboveDegSince' = Unset /\ aboveEmSince' = Unset
    BY <1>4, <1>7 DEF Low, Started
  <2>2. PromptSwitch'
    BY <1>3, <1>4, <1>7, <2>1 DEF Low, PromptSwitch, Sustained, Run
  <2> QED BY <1>2, <1>3, <1>7, <2>1, <2>2 DEF Low, Modes
<1> QED BY <1>5, <1>6, <1>7 DEF Advance

\* Every step keeps the watcher's invariant.
LEMMA WatcherNextInv == WatcherInv /\ [WatcherNext]_watcherVars => WatcherInv'
BY QuietStepInv, TickMarkers, TickMode DEF WatcherNext, WatcherInv

\* The watcher's state is well typed and it never switches late, for every
\* choice of the durations and every sequence of readings and probe failures.
THEOREM NeverLate == WatcherSpec => [](WatcherTypeOK /\ PromptSwitch)
<1>1. WatcherInv => WatcherTypeOK /\ PromptSwitch
  BY DEF WatcherInv
<1> QED BY <1>1, WatcherInitInv, WatcherNextInv, PTL DEF WatcherSpec

\* It never switches without the readings that justify it.
THEOREM NeverUnjustified == WatcherSpec => JustifiedSwitch
<1> DEFINE Step ==
      /\ mode' = "emergency" /\ mode # "emergency" =>
            Sustained(log', {"critical"}, EmergencyAfter)
      /\ mode' = "degraded" /\ mode # "degraded" =>
            mode = "full" /\ Sustained(log', {"high", "critical"}, DegradedAfter)
      /\ mode' = "full" /\ mode # "full" => Sustained(log', {"low"}, RecoverAfter)
<1>1. WatcherInv /\ [WatcherNext]_watcherVars => [Step]_watcherVars
  <2> SUFFICES ASSUME WatcherInv, [WatcherNext]_watcherVars PROVE Step
    OBVIOUS
  <2>1. CASE Advance
    BY <2>1, TickMode
  <2>2. CASE ~Advance
    <3>1. mode' = mode
      BY <2>2, QuietStepInv DEF WatcherNext
    <3> QED BY <3>1
  <2> QED BY <2>1, <2>2
<1>2. JustifiedSwitch <=> [][Step]_watcherVars
  BY DEF JustifiedSwitch
<1> HIDE DEF Step
<1> QED BY <1>1, <1>2, WatcherInitInv, WatcherNextInv, PTL DEF WatcherSpec
=============================================================================
