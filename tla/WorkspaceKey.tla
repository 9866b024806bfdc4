---------------------------- MODULE WorkspaceKey ----------------------------
(***************************************************************************)
(* The key of a workspace: workspace_key.py over the OS keychain and       *)
(* workspace_key_fallback.py (the file key.enc, wrapped under a            *)
(* passphrase), as MappingStore.__init__ uses them.  The keychain raises   *)
(* when it is locked or unreachable, which may change between any two      *)
(* calls; the switch BRIKKO_KEY_FALLBACK and the passphrase are read from  *)
(* the environment and may differ from one process to the next.  Keys are  *)
(* numbered in the order they are generated.                               *)
(***************************************************************************)
EXTENDS Naturals

CONSTANTS
    Workspaces,
    Passphrases,   \* values of BRIKKO_KEY_PASSPHRASE
    MaxKeys,       \* bound on the keys generated
    None           \* no key, no file, no passphrase, no call running

ASSUME KeyAssumption == MaxKeys \in Nat /\ None \notin Nat /\ None \notin Passphrases

Keys == 1..MaxKeys
KeyFile == [key : Keys, pass : Passphrases]
Call == [ws : Workspaces, key : Keys]

ASSUME KeyNoneAssumption == None \notin KeyFile \cup Call

VARIABLES
    ringUp,     \* the keychain answers
    ring,       \* workspace |-> the keychain's entry, or None
    file,       \* workspace |-> key.enc, or None
    fallback,   \* BRIKKO_KEY_FALLBACK=1
    pass,       \* BRIKKO_KEY_PASSPHRASE, or None
    call,       \* get_or_create between get and set, or None
    store,      \* workspace |-> the key of the open MappingStore, or None
    rows,       \* workspace |-> the keys its mapping rows are encrypted with
    \* History:
    generated,  \* the number of keys generated so far
    usedRing,   \* workspaces for which the keychain has ever answered
    usedFile    \* workspaces for which the fallback has ever been asked

vars == <<ringUp, ring, file, fallback, pass, call, store, rows,
          generated, usedRing, usedFile>>

TypeOK ==
    /\ ringUp \in BOOLEAN /\ fallback \in BOOLEAN
    /\ ring \in [Workspaces -> Keys \cup {None}]
    /\ file \in [Workspaces -> KeyFile \cup {None}]
    /\ pass \in Passphrases \cup {None}
    /\ call \in Call \cup {None}
    /\ store \in [Workspaces -> Keys \cup {None}]
    /\ rows \in [Workspaces -> SUBSET Keys]
    /\ generated \in 0..MaxKeys
    /\ usedRing \subseteq Workspaces /\ usedFile \subseteq Workspaces

Init ==
    /\ ringUp \in BOOLEAN /\ fallback \in BOOLEAN
    /\ pass \in Passphrases \cup {None}
    /\ ring = [w \in Workspaces |-> None]
    /\ file = [w \in Workspaces |-> None]
    /\ call = None
    /\ store = [w \in Workspaces |-> None]
    /\ rows = [w \in Workspaces |-> {}]
    /\ generated = 0
    /\ usedRing = {} /\ usedFile = {}

----------------------------------------------------------------------------
(* get_or_create, called by MappingStore.__init__ when Pipeline._store     *)
(* finds no open store.                                                    *)

\* get answered None: a fresh key is generated, and set is next.
Generate(ws) ==
    /\ generated < MaxKeys
    /\ generated' = generated + 1
    /\ call' = [ws |-> ws, key |-> generated + 1]
    /\ UNCHANGED store

\* get answered a key.
OpenStore(ws, key) ==
    /\ store' = [store EXCEPT ![ws] = key]
    /\ UNCHANGED <<call, generated>>

GetFromRing(ws) ==
    /\ ringUp
    /\ IF ring[ws] = None THEN Generate(ws) ELSE OpenStore(ws, ring[ws])
    /\ usedRing' = usedRing \cup {ws}
    /\ UNCHANGED usedFile

\* Mutant: a key file that cannot be unwrapped counts as absent.
GetFromFileLenient(ws) ==
    /\ ~ringUp /\ fallback
    /\ IF file[ws] # None /\ file[ws].pass = pass
         THEN OpenStore(ws, file[ws].key) ELSE Generate(ws)
    /\ usedFile' = usedFile \cup {ws}
    /\ UNCHANGED usedRing

\* The keychain raises.  Without a file the passphrase is not looked at; a
\* file that cannot be unwrapped raises, and the endpoint answers 503.
GetFromFile(ws) ==
    /\ ~ringUp /\ fallback
    /\ \/ file[ws] = None /\ Generate(ws)
       \/ file[ws] # None /\ file[ws].pass = pass /\ OpenStore(ws, file[ws].key)
    /\ usedFile' = usedFile \cup {ws}
    /\ UNCHANGED usedRing

Open(ws) ==
    /\ call = None
    /\ store[ws] = None
    /\ GetFromRing(ws) \/ GetFromFile(ws)
    /\ UNCHANGED <<ringUp, ring, file, fallback, pass, rows>>

\* set and the return of get_or_create.
SetInRing ==
    /\ call # None
    /\ ringUp
    /\ ring' = [ring EXCEPT ![call.ws] = call.key]
    /\ store' = [store EXCEPT ![call.ws] = call.key]
    /\ usedRing' = usedRing \cup {call.ws}
    /\ call' = None
    /\ UNCHANGED <<ringUp, file, fallback, pass, rows, generated, usedFile>>

\* The new file replaces the old one atomically.
SetInFile ==
    /\ call # None
    /\ ~ringUp /\ fallback /\ pass # None
    /\ file' = [file EXCEPT ![call.ws] = [key |-> call.key, pass |-> pass]]
    /\ store' = [store EXCEPT ![call.ws] = call.key]
    /\ usedFile' = usedFile \cup {call.ws}
    /\ call' = None
    /\ UNCHANGED <<ringUp, ring, fallback, pass, rows, generated, usedRing>>

\* Mutant: the store is opened with a key that could not be saved.
SetFailsSilently ==
    /\ call # None
    /\ ~ringUp /\ (~fallback \/ pass = None)
    /\ store' = [store EXCEPT ![call.ws] = call.key]
    /\ call' = None
    /\ UNCHANGED <<ringUp, ring, file, fallback, pass, rows, generated,
                   usedRing, usedFile>>

\* Neither backend takes the key: KeyringUnavailableError (no fallback) or
\* WorkspaceKeyMissingError (no passphrase), and the key is dropped.
SetFails ==
    /\ call # None
    /\ ~ringUp /\ (~fallback \/ pass = None)
    /\ call' = None
    /\ UNCHANGED <<ringUp, ring, file, fallback, pass, store, rows, generated,
                   usedRing, usedFile>>

----------------------------------------------------------------------------

\* MappingStore.put, with the key read when the store was opened.
Put(ws) ==
    /\ call = None
    /\ store[ws] # None
    /\ rows' = [rows EXCEPT ![ws] = @ \cup {store[ws]}]
    /\ UNCHANGED <<ringUp, ring, file, fallback, pass, call, store, generated,
                   usedRing, usedFile>>

\* MappingStore.purge of everything.
PurgeAll(ws) ==
    /\ call = None
    /\ store[ws] # None
    /\ rows' = [rows EXCEPT ![ws] = {}]
    /\ UNCHANGED <<ringUp, ring, file, fallback, pass, call, store, generated,
                   usedRing, usedFile>>

\* The process ends, in the middle of a call or not, and is started again.
Restart(f, p) ==
    /\ call' = None
    /\ store' = [w \in Workspaces |-> None]
    /\ fallback' = f
    /\ pass' = p
    /\ UNCHANGED <<ringUp, ring, file, rows, generated, usedRing, usedFile>>

\* The keychain is locked or unlocked.
RingFlips ==
    /\ ringUp' = ~ringUp
    /\ UNCHANGED <<ring, file, fallback, pass, call, store, rows, generated,
                   usedRing, usedFile>>

Next ==
    \/ \E ws \in Workspaces : Open(ws) \/ Put(ws) \/ PurgeAll(ws)
    \/ SetInRing \/ SetInFile \/ SetFails
    \/ \E f \in BOOLEAN, p \in Passphrases \cup {None} : Restart(f, p)
    \/ RingFlips

Spec == Init /\ [][Next]_vars

----------------------------------------------------------------------------
(* Properties.                                                             *)

FileKey(ws) == IF file[ws] = None THEN None ELSE file[ws].key

\* A key that rows are being written with is in one of the two backends, so
\* the next process can find it there: get_or_create never returns a key it
\* could not save.
KeyPersisted ==
    \A ws \in Workspaces : store[ws] # None => store[ws] \in {ring[ws], FileKey(ws)}

\* As long as a workspace has only ever met one of the backends, all of its
\* rows can be decrypted with the key that is stored there, through outages,
\* restarts and wrong or missing passphrases.
SingleBackendSafe ==
    \A ws \in Workspaces :
        /\ ws \notin usedFile => rows[ws] \subseteq {ring[ws]}
        /\ ws \notin usedRing => rows[ws] \subseteq {FileKey(ws)}

\* "generating + storing a fresh one if absent": a key is generated only for a
\* workspace that has none.  get asks one backend and does not know what the
\* other one holds.
FreshOnlyIfAbsent ==
    \A ws \in Workspaces :
        call # None /\ call.ws = ws => ring[ws] = None /\ file[ws] = None
============================================================================
