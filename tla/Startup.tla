------------------------------ MODULE Startup ------------------------------
(***************************************************************************)
(* Starting the core (core.New, core/core.go) on what earlier lives of the *)
(* process left: the at-rest data key (core/secret/crypto.go), the sealed  *)
(* settings file (core/config/engine.go) and the server table of the       *)
(* ServerStore module, into which profiles of a pre-migration file go.     *)
(* Once up, settings are updated and the requests of ServerStore are made. *)
(*                                                                         *)
(* Every durable write is a step of its own, the process may die before    *)
(* and after each, and each access may fail.  FileStore.Save replaces the  *)
(* file in one step (a temporary file and a rename).  Between two lives    *)
(* the file can be damaged and the key lost or damaged.                    *)
(*                                                                         *)
(* Settings are opaque; normalised values only are written, so Normalize   *)
(* is the identity on everything read back.  Sealing is modelled by the    *)
(* number of the key: Open succeeds exactly under the key of the Seal.     *)
(***************************************************************************)
EXTENDS ServerStore

CONSTANTS
    LegacyIds,    \* servers of the pre-migration file
    LegacyBody,   \* their columns
    LegacyRefs,   \* their credentials
    LegacyCred,
    Settings,     \* values of AppSettings
    Default,      \* DefaultAppSettings
    Corrupt,      \* a file that no key opens
    Invalid,      \* a stored data key that is not 32 bytes of base64
    MaxStarts,    \* bound: launches of the process
    MaxDamages    \* bound: damages done from outside

Sealed == [key : Nat \ {0}, settings : Settings, servers : BOOLEAN]

\* A pre-migration build validated the servers it saved.
ASSUME StartupAssumption ==
    /\ LegacyIds \subseteq Ids /\ LegacyRefs \subseteq Refs
    /\ LegacyBody \in Bodies /\ LegacyCred \in Creds
    /\ LegacyBody \in Locked => LegacyRefs # {}
    /\ Default \in Settings /\ None \notin Settings
    /\ None # Invalid /\ {None, Invalid} \cap Nat = {} /\ {None, Corrupt} \cap Sealed = {}
    /\ {MaxStarts, MaxDamages} \subseteq Nat

VARIABLES
    phase,      \* where core.New is; "up" once it has returned
    key,        \* the data key in the secret store
    keys,       \* number of data keys generated
    blob,       \* the settings file
    backups,    \* files moved out of the way
    ekey,       \* Engine.key
    cfg,        \* Engine.cfg.Settings
    legacy,     \* profiles still to migrate, with their ids
    applied,    \* the settings the logger and the tunnel manager use
    starts, damages,
    promised,   \* history: the settings last acknowledged
    harmed,     \* history: file or key were damaged after that
    unsaved,    \* history: a save failed in this life of the process
    before,     \* history: number of faults before this launch
    settled     \* history: legacy servers that a start has migrated, or over whose id
                \*   a caller has added a server since

disk  == <<key, keys, blob, backups>>
core  == <<ekey, cfg, legacy, applied>>
notes == <<starts, damages, promised, harmed, unsaved, before, settled>>
startVars == <<phase, disk, core, notes>>
allVars   == <<vars, startVars>>

Phases == {"down", "legacy", "config", "load", "create", "recover", "reset", "db", "migrate", "up"}

\* The startup state has these shapes, on top of ServerStore's.
StartupTypeOK ==
    /\ TypeOK
    /\ phase \in Phases
    /\ key \in Nat \/ key \in {None, Invalid}
    /\ keys \in Nat /\ ekey \in 0 .. keys
    /\ blob \in Sealed \/ blob \in {None, Corrupt}
    /\ \A b \in backups : b \in Sealed \/ b = Corrupt
    /\ cfg \in Settings \cup {None} /\ applied \in Settings \cup {None}
    /\ promised \in Settings \cup {None}
    /\ legacy \subseteq [id : LegacyIds, p : Profiles]
    /\ {harmed, unsaved} \subseteq BOOLEAN /\ before \in 0 .. faults
    /\ settled \subseteq LegacyIds
    /\ starts \in 0 .. MaxStarts /\ damages \in 0 .. MaxDamages

\* A first start finds nothing, or what a pre-migration build left.
Init ==
    /\ rows = [i \in Ids |-> None]
    /\ op = [c \in Callers |-> Idle]
    /\ session = None /\ requests = 0 /\ faults = 0 /\ crashes = 0
    /\ acked = [i \in Ids |-> None] /\ unsure = {} /\ leaky = {}
    /\ used = LegacyIds
    /\ \/ /\ key = None /\ keys = 0 /\ blob = None /\ promised = None
          /\ secrets = [i \in Ids |-> [r \in Refs |-> None]]
       \/ \E s \in Settings :
             /\ key = 1 /\ keys = 1 /\ promised = s
             /\ blob = [key |-> 1, settings |-> s, servers |-> TRUE]
             /\ secrets = [i \in Ids |-> [r \in Refs |->
                             IF i \in LegacyIds /\ r \in LegacyRefs THEN LegacyCred ELSE None]]
    /\ phase = "down" /\ backups = {} /\ ekey = 0 /\ cfg = None /\ legacy = {} /\ applied = None
    /\ starts = 0 /\ damages = 0 /\ harmed = FALSE /\ unsaved = FALSE /\ before = 0
    /\ settled = {}

-----------------------------------------------------------------------------
(* The data key *)

\* Mutant: every error of the secret store means that there is no key.
DataKeyAlwaysMade(fault) ==
    IF key \in Nat /\ ~fault THEN [key |-> key, keys |-> keys, got |-> key]
    ELSE [key |-> keys + 1, keys |-> keys + 1, got |-> keys + 1]

\* GetOrCreateDataKey: the key, which it may have made; 0 for an error.  An
\* invalid key is deleted, but the error of the (successful) Get is then not
\* ErrNotFound and the call fails.  fault: the one access that matters fails.
GetOrCreateDataKey(fault) ==
    IF fault THEN [key |-> key, keys |-> keys, got |-> 0]
    ELSE IF key = Invalid THEN [key |-> None, keys |-> keys, got |-> 0]
    ELSE IF key = None THEN [key |-> keys + 1, keys |-> keys + 1, got |-> keys + 1]
    ELSE [key |-> key, keys |-> keys, got |-> key]

Opens(k, b) == b \notin {None, Corrupt} /\ b.key = k

Seal(k, s) == [key |-> k, settings |-> s, servers |-> FALSE]

\* One access in this step fails, or none does.
Fault(f) == f \in BOOLEAN /\ (f => faults < MaxFaults) /\ faults' = faults + (IF f THEN 1 ELSE 0)

-----------------------------------------------------------------------------
(* core.New *)

Launch ==
    /\ phase = "down" /\ starts < MaxStarts
    /\ starts' = starts + 1 /\ phase' = "legacy" /\ before' = faults /\ unsaved' = FALSE
    /\ UNCHANGED <<vars, disk, core, damages, promised, harmed, settled>>

\* core.New returns an error: the process is of no use until relaunched.
Fail == phase' = "down"

\* Mutant: the credentials, which the file does not hold, are not fetched.
LegacyProfileBare(i) ==
    [body |-> LegacyBody, enabled |-> TRUE, tested |-> FALSE, cred |-> [r \in Refs |-> None]]

LegacyProfile(i) ==
    [body |-> LegacyBody, enabled |-> TRUE, tested |-> FALSE,
     cred |-> [r \in Refs |-> IF r \in LegacyRefs THEN secrets[i][r] ELSE None]]

\* Mutant: the data key is only looked up, not made or cleared.
LoadLegacyServersPeeking ==
    /\ phase = "legacy" /\ phase' = "config"
    /\ legacy' = IF key \in Nat /\ Opens(key, blob) /\ blob.servers
                 THEN {[id |-> i, p |-> LegacyProfile(i)] : i \in LegacyIds} ELSE {}
    /\ UNCHANGED <<vars, disk, ekey, cfg, applied, notes>>

\* LoadLegacyServers: any error only skips the migration.
LoadLegacyServers ==
    /\ phase = "legacy" /\ phase' = "config"
    /\ \E keyFault, readFault \in BOOLEAN :
          LET k == GetOrCreateDataKey(keyFault)
          IN  /\ ~(keyFault /\ readFault) /\ Fault(keyFault \/ readFault)
              /\ key' = k.key /\ keys' = k.keys
              /\ legacy' = IF ~readFault /\ Opens(k.got, blob) /\ blob.servers
                           THEN {[id |-> i, p |-> LegacyProfile(i)] : i \in LegacyIds} ELSE {}
    /\ UNCHANGED <<rows, secrets, op, session, used, requests, crashes, history>>
    /\ UNCHANGED <<blob, backups, ekey, cfg, applied, notes>>

\* config.New asks for the key a second time, and needs it.
ConfigNew ==
    /\ phase = "config"
    /\ \E f \in BOOLEAN :
          LET k == GetOrCreateDataKey(f)
          IN  /\ Fault(f)
              /\ key' = k.key /\ keys' = k.keys
              /\ IF k.got = 0 THEN Fail /\ UNCHANGED ekey ELSE ekey' = k.got /\ phase' = "load"
    /\ UNCHANGED <<rows, secrets, op, session, used, requests, crashes, history>>
    /\ UNCHANGED <<blob, backups, cfg, legacy, applied, notes>>

Load ==
    /\ phase = "load"
    /\ \E f \in BOOLEAN :
          /\ Fault(f)
          /\ \/ f /\ Fail /\ UNCHANGED cfg
             \/ ~f /\ blob = None /\ cfg' = Default /\ phase' = "create"
             \/ ~f /\ Opens(ekey, blob) /\ cfg' = blob.settings /\ phase' = "db"
             \/ ~f /\ blob # None /\ ~Opens(ekey, blob) /\ cfg' = Default /\ phase' = "recover"
    /\ UNCHANGED <<rows, secrets, op, session, used, requests, crashes, history>>
    /\ UNCHANGED <<disk, ekey, legacy, applied, notes>>

\* Mutant: the unreadable file is not moved out of the way.
BackUpSkipped ==
    /\ phase = "recover" /\ phase' = "reset"
    /\ UNCHANGED <<vars, disk, core, notes>>

\* recoverCorrupt moves the file away; a failing rename is only logged.
BackUp ==
    /\ phase = "recover" /\ phase' = "reset"
    /\ \E f \in BOOLEAN :
          /\ Fault(f)
          /\ IF f THEN UNCHANGED <<blob, backups>>
                  ELSE blob' = None /\ backups' = backups \cup {blob}
    /\ UNCHANGED <<rows, secrets, op, session, used, requests, crashes, history>>
    /\ UNCHANGED <<key, keys, core, notes>>

\* The defaults are saved; only recoverCorrupt goes on when that fails.
SaveDefaults ==
    /\ phase \in {"create", "reset"}
    /\ \E f \in BOOLEAN :
          /\ Fault(f)
          /\ IF f THEN /\ phase' = IF phase = "create" THEN "down" ELSE "db"
                       /\ unsaved' = TRUE
                       /\ UNCHANGED <<blob, promised, harmed>>
                  ELSE /\ phase' = "db" /\ blob' = Seal(ekey, cfg)
                       /\ promised' = cfg /\ harmed' = FALSE
                       /\ UNCHANGED unsaved
    /\ UNCHANGED <<rows, secrets, op, session, used, requests, crashes, history>>
    /\ UNCHANGED <<key, keys, backups, core, starts, damages, before, settled>>

\* The database is opened and its schema brought up to date.
OpenDb ==
    /\ phase = "db"
    /\ \E f \in BOOLEAN : Fault(f) /\ phase' = IF f THEN "down" ELSE "migrate"
    /\ UNCHANGED <<rows, secrets, op, session, used, requests, crashes, history>>
    /\ UNCHANGED <<disk, core, notes>>

\* One legacy profile is handed to Create, under the id it had.
Migrate(c) ==
    /\ phase = "migrate" /\ At(c, "idle")
    /\ \E l \in legacy :
          /\ legacy' = legacy \ {l}
          /\ IF Validate(l.p)
             THEN Become(c, PersistStep([pc |-> "idle", kind |-> "add", id |-> l.id,
                                         p |-> l.p, todo |-> {}]))
             ELSE UNCHANGED op
    /\ UNCHANGED <<rows, secrets, session, used, bounds, history>>
    /\ UNCHANGED <<phase, disk, ekey, cfg, applied, notes>>

\* The rest of core.New: the tunnel manager starts with its own defaults.
Ready ==
    /\ phase = "migrate" /\ legacy = {} /\ \A c \in Callers : At(c, "idle")
    /\ phase' = "up" /\ applied' = Default
    /\ settled' = {i \in LegacyIds : acked[i] # None} \cup settled
    /\ UNCHANGED <<vars, disk, ekey, cfg, legacy, starts, damages, promised, harmed, unsaved, before>>

-----------------------------------------------------------------------------
(* Up *)

\* UpdateSettings: memory first, then the file, then what runs.
UpdateSettings(s) ==
    /\ phase = "up" /\ \A c \in Callers : At(c, "idle")
    /\ cfg' = s
    /\ \E f \in BOOLEAN :
          /\ Fault(f)
          /\ IF f THEN unsaved' = TRUE /\ UNCHANGED <<blob, applied, promised, harmed>>
                  ELSE /\ blob' = Seal(ekey, s) /\ applied' = s
                       /\ promised' = s /\ harmed' = FALSE
                       /\ UNCHANGED unsaved
    /\ UNCHANGED <<rows, secrets, op, session, used, requests, crashes, history>>
    /\ UNCHANGED <<phase, key, keys, backups, ekey, legacy, starts, damages, before, settled>>

UseStore ==
    /\ \/ phase = "up" /\ (EndSession \/ \E c \in Callers : Request(c))
       \/ phase \in {"migrate", "up"} /\ \E c \in Callers : StoreStep(c)
    /\ settled' = settled \cup {i \in LegacyIds : phase = "up" /\
                                 \E c \in Callers : op'[c].kind = "add" /\ op'[c].id = i}
    /\ UNCHANGED <<phase, disk, core, starts, damages, promised, harmed, unsaved, before>>

\* The process dies, or is closed.
Die ==
    /\ phase # "down" /\ crashes < MaxCrashes /\ crashes' = crashes + 1
    /\ StoreCrash
    /\ phase' = "down"
    /\ UNCHANGED <<requests, faults, disk, core, notes>>

\* From outside, between two lives: the file is damaged, or the key is.
Damage ==
    /\ phase = "down" /\ damages < MaxDamages /\ damages' = damages + 1
    /\ \/ blob # None /\ blob' = Corrupt /\ UNCHANGED key
       \/ key \in Nat /\ key' \in {None, Invalid} /\ UNCHANGED blob
    /\ harmed' = TRUE
    /\ UNCHANGED <<vars, phase, keys, backups, core, starts, promised, unsaved, before, settled>>

Next ==
    \/ Launch \/ LoadLegacyServers \/ ConfigNew \/ Load \/ BackUp \/ SaveDefaults \/ OpenDb
    \/ Ready \/ Die \/ Damage \/ UseStore
    \/ \E c \in Callers : Migrate(c)
    \/ \E s \in Settings : UpdateSettings(s)

Spec == Init /\ [][Next]_allVars

-----------------------------------------------------------------------------
(* Properties *)

\* Acknowledged settings survive: unless file or key are damaged from
\* outside, the file holds them and opens under the stored key at every
\* moment (keyring errors, failing saves and deaths during startup and during
\* later updates included), and a core that is up and whose saves all worked
\* uses them.
SettingsSurvive ==
    promised # None /\ ~harmed =>
        /\ Opens(key, blob) /\ blob.settings = promised
        /\ phase \in {"db", "migrate", "up"} /\ ~unsaved => cfg = promised

\* Damage never keeps the core from starting ("reset to defaults with a
\* warning rather than failing startup", engine.go:165-167): New fails only
\* when an access failed since the launch.  An invalid key relies on the two
\* calls of GetOrCreateDataKey, the first of which fails.
DamageDoesNotStopStartup ==
    [][phase # "down" /\ phase' = "down" /\ crashes' = crashes => faults' > before]_allVars

\* "The corrupt file must have been backed up, not silently lost"
\* (engine_test.go:131): a file the engine cannot open is replaced only after
\* it was moved to a backup, unless an access failed.
UnreadableIsBackedUp ==
    [][phase # "down" /\ blob # None /\ blob' # blob =>
          Opens(ekey, blob) \/ blob \in backups' \/ faults' > before]_allVars

\* File, key and memory agree on the settings that were acknowledged, at every
\* moment of every life of the process.
StartupInv == StartupTypeOK /\ SettingsSurvive

\* The file that still holds the pre-migration servers is overwritten without
\* them only after each was created in the repository (or another server was
\* added over its id), unless the file cannot be opened or an access failed
\* since the launch (a keyring error skips the migration, and any later save
\* of that life then drops the servers).
LegacyIsNotLost ==
    [][phase # "down" /\ Opens(ekey, blob) /\ blob.servers /\ blob' # blob =>
          LegacyIds \subseteq settled \/ faults' > before]_allVars

\* "one-time migration" (engine.go:111-112): a server that was migrated once
\* is not written again by a later start.
MigrationIsOneTime ==
    [][\A i \in LegacyIds : phase = "migrate" /\ i \in settled => rows'[i] = rows[i]]_allVars

=============================================================================
