---------------------------- MODULE StartupProof ----------------------------
(***************************************************************************)
(* Proofs about starting the core on what earlier lives of the process     *)
(* left: for any settings, any servers, any number of launches, damages,   *)
(* faults and deaths, and any number of callers.                           *)
(***************************************************************************)
EXTENDS Startup, ServerStoreProof

\* core.New has built the engine.
Loaded == {"load", "create", "recover", "reset", "db", "migrate", "up"}

\* Keys are numbered as they are made; the engine uses the stored one.
KeysAreKnown ==
    /\ key \in Nat => key \in 1 .. keys
    /\ blob \in Sealed => blob.key \in 1 .. keys
    /\ phase \in Loaded => key \in Nat /\ ekey = key

\* Where core.New is tells what it has found.
PhaseFits ==
    /\ phase \in {"create", "recover", "reset", "db", "migrate", "up"} => cfg \in Settings
    /\ phase \in {"create", "recover", "reset"} => promised = None \/ harmed
    /\ phase = "create" => blob = None
    /\ phase = "recover" => blob # None /\ ~Opens(ekey, blob)
    /\ phase = "reset" => blob = None \/ faults > before
    /\ phase \in {"db", "migrate", "up"} => Opens(ekey, blob) \/ faults > before
    /\ phase = "config" /\ key = Invalid => faults > before
    /\ phase \notin {"migrate", "up"} => \A c \in Callers : op[c].pc = "idle"

\* What lives across starts of the process.
CoreInv ==
    /\ StartupTypeOK /\ TypeInv /\ LegacyIds \subseteq used
    /\ KeysAreKnown /\ PhaseFits /\ SettingsSurvive

\* The settings file still holds the servers of the pre-migration build.
HoldsServers == blob \in Sealed /\ blob.servers

\* The credentials a legacy server came with.
HasLegacyCreds(cred) == \A r \in LegacyRefs : cred[r] = LegacyCred

\* A legacy server that no start has migrated is as the old build left it, or
\* on its way into the table.
Unmigrated(i) ==
    /\ HasLegacyCreds(secrets[i])
    /\ rows[i] = None \/ acked[i] # None
    /\ phase = "up" => rows[i] = None
    /\ \A c \in Callers : op[c].id = i =>
          \/ phase = "up" /\ op[c].pc \in {"getRow", "select", "refs"}
          \/ /\ phase = "migrate" /\ op[c].kind = "add" /\ op[c].pc \in {"setSecrets", "upsert"}
             /\ HasLegacyCreds(op[c].p.cred)

\* This start takes care of legacy server i.
Covered(i) ==
    \/ \E l \in legacy : l.id = i
    \/ acked[i] # None
    \/ \E c \in Callers : op[c].id = i

\* Every server of the file is migrated or untouched.
UntilMigrated == \A i \in LegacyIds \ settled : Unmigrated(i)

\* What is on its way to migration is what the old build saved.
ListFits ==
    \A l \in legacy : l.id \notin settled => l.p.body = LegacyBody /\ HasLegacyCreds(l.p.cred)

\* Every server of the file is migrated or taken care of.
AllCovered == \A i \in LegacyIds \ settled : Covered(i)

\* As long as no access failed in this start and the file opens, nothing of
\* it is left behind.
NoneLeftBehind ==
    faults = before =>
        /\ phase = "config" /\ Opens(key, blob) => AllCovered
        /\ phase \in Loaded \ {"up"} /\ Opens(ekey, blob) => AllCovered
        /\ phase = "up" /\ Opens(ekey, blob) => LegacyIds \subseteq settled

\* The servers of the file survive: each is settled, or untouched and taken
\* care of by this start, unless an access failed or the file does not open.
LegacyInv == HoldsServers => UntilMigrated /\ ListFits /\ NoneLeftBehind

StartInv == CoreInv /\ LegacyInv
-----------------------------------------------------------------------------
(* Keys and files.                                                         *)

\* A file opens only when it is a sealed one.
LEMMA OpensIs ==
  ASSUME NEW k, NEW b, b \in Sealed \/ b \in {None, Corrupt}
  PROVE  Opens(k, b) <=> b \in Sealed /\ b.key = k
BY StartupAssumption DEF Opens

\* What the engine seals is a file that opens under its key.
LEMMA SealIs ==
  ASSUME NEW k \in Nat \ {0}, NEW s \in Settings
  PROVE  /\ Seal(k, s) \in Sealed /\ Opens(k, Seal(k, s)) /\ Seal(k, s).settings = s
         /\ Seal(k, s).key = k /\ ~Seal(k, s).servers
<1>1. /\ Seal(k, s) \in Sealed /\ Seal(k, s).settings = s
      /\ Seal(k, s).key = k /\ ~Seal(k, s).servers
  BY DEF Seal, Sealed
<1> QED
  BY <1>1, StartupAssumption DEF Opens

\* GetOrCreateDataKey returns the stored key, or an error; it makes a key only
\* when there is none, and never replaces one that is valid.
LEMMA DataKey ==
  ASSUME CoreInv, NEW f \in BOOLEAN
  PROVE  LET k == GetOrCreateDataKey(f)
         IN  /\ k.keys \in Nat /\ k.keys >= keys /\ (k.key \in Nat \/ k.key \in {None, Invalid})
             /\ k.key \in Nat => k.key \in 1 .. k.keys
             /\ k.got \in 0 .. k.keys
             /\ k.got # 0 => k.key \in Nat /\ k.key = k.got
             /\ key \in Nat => k.key = key
             /\ ~f /\ key \in Nat => k.got = key
             /\ ~f => k.key # Invalid
             /\ ~f /\ key # Invalid => k.got # 0
             /\ k.got # 0 /\ key \notin Nat => k.got = keys + 1
             /\ f => k.key = key
             /\ k.got # 0 => ~f
<1>1. /\ key \in Nat \/ key \in {None, Invalid}
      /\ keys \in Nat /\ (key \in Nat => key \in 1 .. keys)
  BY DEF CoreInv, StartupTypeOK, KeysAreKnown
<1>2. None \notin Nat /\ Invalid \notin Nat /\ None # Invalid
  BY StartupAssumption
<1>3. CASE f
  BY <1>1, <1>3 DEF GetOrCreateDataKey
<1>4. CASE ~f /\ key = Invalid
  BY <1>1, <1>2, <1>4 DEF GetOrCreateDataKey
<1>5. CASE ~f /\ key = None
  BY <1>1, <1>2, <1>5 DEF GetOrCreateDataKey
<1>6. CASE ~f /\ key \in Nat
  BY <1>1, <1>2, <1>6 DEF GetOrCreateDataKey
<1> QED
  BY <1>1, <1>3, <1>4, <1>5, <1>6

\* A step of core.New that counts a fault, or none.
LEMMA FaultIs ==
  ASSUME CoreInv, NEW f \in BOOLEAN, Fault(f)
  PROVE  /\ faults' \in 0 .. MaxFaults /\ faults' >= faults
         /\ f => faults' > faults /\ faults' > before
         /\ ~f => faults' = faults
         /\ before \in 0 .. faults' /\ faults \in Nat /\ before \in Nat
<1>1. faults \in 0 .. MaxFaults /\ before \in 0 .. faults /\ MaxFaults \in Nat
  BY StoreAssumption DEF CoreInv, StartupTypeOK, TypeOK
<1>2. CASE f
  BY <1>1, <1>2 DEF Fault
<1>3. CASE ~f
  BY <1>1, <1>3 DEF Fault
<1> QED
  BY <1>2, <1>3

\* core.New leaves the tables alone until it migrates.
StoreStill == UNCHANGED <<rows, secrets, op, session, used, requests, crashes, acked, unsure, leaky>>

\* The types of the tables then stay.
LEMMA StillTypes ==
  ASSUME CoreInv, StoreStill, faults' \in 0 .. MaxFaults
  PROVE  TypeInv' /\ TypeOK' /\ LegacyIds \subseteq used'
BY DEF CoreInv, StoreStill, TypeInv, TypeOK

\* What the core's invariant says, in parts.
LEMMA CoreParts ==
  ASSUME CoreInv
  PROVE  /\ phase \in Phases /\ (key \in Nat \/ key \in {None, Invalid})
         /\ keys \in Nat /\ ekey \in 0 .. keys
         /\ blob \in Sealed \/ blob \in {None, Corrupt}
         /\ \A b \in backups : b \in Sealed \/ b = Corrupt
         /\ cfg \in Settings \cup {None} /\ applied \in Settings \cup {None}
         /\ promised \in Settings \cup {None}
         /\ legacy \subseteq [id : LegacyIds, p : Profiles]
         /\ harmed \in BOOLEAN /\ unsaved \in BOOLEAN
         /\ before \in 0 .. faults /\ settled \subseteq LegacyIds
         /\ starts \in 0 .. MaxStarts /\ damages \in 0 .. MaxDamages
         /\ faults \in 0 .. MaxFaults /\ MaxFaults \in Nat /\ MaxStarts \in Nat
         /\ MaxDamages \in Nat /\ MaxCrashes \in Nat /\ crashes \in 0 .. MaxCrashes
BY StoreAssumption, StartupAssumption DEF CoreInv, StartupTypeOK, TypeOK

\* A launch.
LEMMA LaunchKeeps == ASSUME CoreInv, Launch PROVE CoreInv'
<1>1. /\ phase = "down" /\ starts < MaxStarts /\ starts' = starts + 1 /\ phase' = "legacy"
      /\ before' = faults /\ unsaved' = FALSE
      /\ StoreStill /\ faults' = faults
      /\ UNCHANGED <<key, keys, blob, backups, ekey, cfg, legacy, applied,
                     damages, promised, harmed, settled>>
  BY DEF Launch, vars, disk, core, StoreStill
<1>2. TypeInv' /\ TypeOK' /\ LegacyIds \subseteq used'
  BY <1>1, CoreParts, StillTypes
<1>3. StartupTypeOK'
  <2>1. {harmed', unsaved'} \subseteq BOOLEAN
    BY <1>1, CoreParts
  <2>2. starts' \in 0 .. MaxStarts /\ before' \in 0 .. faults' /\ phase' \in Phases
    BY <1>1, CoreParts DEF Phases
  <2> QED
    BY <1>1, <1>2, <2>1, <2>2, CoreParts DEF StartupTypeOK
<1>4. KeysAreKnown'
  BY <1>1 DEF CoreInv, KeysAreKnown, Loaded
<1>5. PhaseFits'
  BY <1>1 DEF CoreInv, PhaseFits, StoreStill
<1>6. SettingsSurvive'
  BY <1>1 DEF CoreInv, SettingsSurvive, Opens
<1> QED
  BY <1>2, <1>3, <1>4, <1>5, <1>6 DEF CoreInv

\* A legacy profile, completed from the secret store, is a profile.
LEMMA LegacyTypes ==
  ASSUME CoreInv, NEW i \in LegacyIds
  PROVE  LegacyProfile(i) \in Profiles
BY StartupAssumption DEF CoreInv, TypeInv, TypeOK, LegacyProfile, Profiles, Credentials

\* The legacy servers are read.
LEMMA LegacyKeeps == ASSUME CoreInv, LoadLegacyServers PROVE CoreInv'
<1>1. PICK keyFault, readFault \in BOOLEAN :
        LET k == GetOrCreateDataKey(keyFault)
        IN  /\ ~(keyFault /\ readFault) /\ Fault(keyFault \/ readFault)
            /\ key' = k.key /\ keys' = k.keys
            /\ legacy' = IF ~readFault /\ Opens(k.got, blob) /\ blob.servers
                         THEN {[id |-> i, p |-> LegacyProfile(i)] : i \in LegacyIds} ELSE {}
  BY DEF LoadLegacyServers
<1> DEFINE k == GetOrCreateDataKey(keyFault)
<1>2. /\ phase = "legacy" /\ phase' = "config" /\ StoreStill
      /\ UNCHANGED <<blob, backups, ekey, cfg, applied, starts, damages, promised, harmed,
                     unsaved, before, settled>>
  BY DEF LoadLegacyServers, StoreStill, history, notes
<1>3. /\ faults' \in 0 .. MaxFaults /\ before \in 0 .. faults'
      /\ keyFault => faults' > before
  BY <1>1, FaultIs
<1>4. /\ keys' \in Nat /\ keys' >= keys /\ (key' \in Nat \/ key' \in {None, Invalid})
      /\ key' \in Nat => key' \in 1 .. keys'
      /\ key \in Nat => key' = key
      /\ ~keyFault => key' # Invalid
  BY <1>1, DataKey
<1>5. TypeInv' /\ TypeOK' /\ LegacyIds \subseteq used'
  BY <1>2, <1>3, StillTypes
<1>6. legacy' \subseteq [id : LegacyIds, p : Profiles]
  BY <1>1, LegacyTypes
<1>7. StartupTypeOK'
  <2>1. ekey' \in 0 .. keys'
    BY <1>2, <1>4, CoreParts
  <2> QED
    BY <1>2, <1>3, <1>4, <1>5, <1>6, <2>1, CoreParts DEF StartupTypeOK, Phases
<1>8. KeysAreKnown'
  <2>1. blob \in Sealed => blob.key \in 1 .. keys'
    BY <1>4, CoreParts DEF CoreInv, KeysAreKnown
  <2> QED
    BY <1>2, <1>4, <2>1 DEF KeysAreKnown, Loaded
<1>9. PhaseFits'
  BY <1>2, <1>3, <1>4 DEF CoreInv, PhaseFits, StoreStill
<1>10. SettingsSurvive'
  <2>1. Opens(key, blob) => key \in Nat
    BY OpensIs, CoreParts DEF Sealed
  <2> QED
    BY <1>2, <1>4, <2>1 DEF CoreInv, SettingsSurvive, Opens
<1> QED
  BY <1>5, <1>7, <1>8, <1>9, <1>10 DEF CoreInv

\* The engine gets its key, or core.New fails.
LEMMA ConfigKeeps == ASSUME CoreInv, ConfigNew PROVE CoreInv'
<1>1. PICK f \in BOOLEAN :
        LET k == GetOrCreateDataKey(f)
        IN  /\ Fault(f) /\ key' = k.key /\ keys' = k.keys
            /\ IF k.got = 0 THEN Fail /\ UNCHANGED ekey ELSE ekey' = k.got /\ phase' = "load"
  BY DEF ConfigNew
<1>2. /\ phase = "config" /\ StoreStill
      /\ UNCHANGED <<blob, backups, cfg, legacy, applied, starts, damages, promised, harmed,
                     unsaved, before, settled>>
  BY DEF ConfigNew, StoreStill, history, notes
<1>3. faults' \in 0 .. MaxFaults /\ before \in 0 .. faults'
  BY <1>1, FaultIs
<1>4. /\ keys' \in Nat /\ keys' >= keys /\ (key' \in Nat \/ key' \in {None, Invalid})
      /\ key' \in Nat => key' \in 1 .. keys'
      /\ key \in Nat => key' = key
      /\ \/ phase' = "down" /\ ekey' = ekey
         \/ phase' = "load" /\ ekey' \in 0 .. keys' /\ ekey' = key' /\ key' \in Nat
  BY <1>1, DataKey DEF Fail
<1>5. TypeInv' /\ TypeOK' /\ LegacyIds \subseteq used'
  BY <1>2, <1>3, StillTypes
<1>6. StartupTypeOK'
  <2>1. ekey' \in 0 .. keys' /\ phase' \in Phases
    BY <1>2, <1>4, CoreParts DEF Phases
  <2> QED
    BY <1>2, <1>3, <1>4, <1>5, <2>1, CoreParts DEF StartupTypeOK
<1>7. KeysAreKnown'
  <2>1. blob \in Sealed => blob.key \in 1 .. keys'
    BY <1>4, CoreParts DEF CoreInv, KeysAreKnown
  <2> QED
    BY <1>2, <1>4, <2>1 DEF KeysAreKnown, Loaded
<1>8. PhaseFits'
  BY <1>2, <1>4 DEF CoreInv, PhaseFits, StoreStill
<1>9. SettingsSurvive'
  <2>1. Opens(key, blob) => key \in Nat
    BY OpensIs, CoreParts DEF Sealed
  <2> QED
    BY <1>2, <1>4, <2>1 DEF CoreInv, SettingsSurvive, Opens
<1> QED
  BY <1>5, <1>6, <1>7, <1>8, <1>9 DEF CoreInv

\* The file is opened, missing or unreadable.
LEMMA LoadKeeps == ASSUME CoreInv, Load PROVE CoreInv'
<1>1. PICK f \in BOOLEAN :
        /\ Fault(f)
        /\ \/ f /\ Fail /\ UNCHANGED cfg
           \/ ~f /\ blob = None /\ cfg' = Default /\ phase' = "create"
           \/ ~f /\ Opens(ekey, blob) /\ cfg' = blob.settings /\ phase' = "db"
           \/ ~f /\ blob # None /\ ~Opens(ekey, blob) /\ cfg' = Default /\ phase' = "recover"
  BY DEF Load
<1>2. /\ phase = "load" /\ StoreStill
      /\ UNCHANGED <<key, keys, blob, backups, ekey, legacy, applied, starts, damages, promised,
                     harmed, unsaved, before, settled>>
  BY DEF Load, StoreStill, history, notes, disk
<1>3. faults' \in 0 .. MaxFaults /\ before \in 0 .. faults'
  BY <1>1, FaultIs
<1>4. TypeInv' /\ TypeOK' /\ LegacyIds \subseteq used'
  BY <1>2, <1>3, StillTypes
<1>5. key \in Nat /\ ekey = key
  BY <1>2 DEF CoreInv, KeysAreKnown, Loaded
<1>6. \/ phase' = "down" /\ cfg' = cfg
      \/ phase' = "create" /\ blob = None /\ cfg' \in Settings
      \/ phase' = "db" /\ Opens(ekey, blob) /\ cfg' = blob.settings /\ cfg' \in Settings
      \/ phase' = "recover" /\ blob # None /\ ~Opens(ekey, blob) /\ cfg' \in Settings
  <2>1. Opens(ekey, blob) => blob.settings \in Settings
    BY OpensIs, CoreParts DEF Sealed
  <2> QED
    BY <1>1, <2>1, StartupAssumption DEF Fail
<1>7. StartupTypeOK'
  BY <1>2, <1>3, <1>4, <1>6, CoreParts DEF StartupTypeOK, Phases
<1>8. KeysAreKnown'
  BY <1>2, <1>5, <1>6 DEF CoreInv, KeysAreKnown, Loaded
<1>9. promised # None /\ ~harmed => Opens(ekey, blob) /\ blob # None /\ blob.settings = promised
  BY <1>5 DEF CoreInv, SettingsSurvive, Opens
<1>10. PhaseFits'
  <2>1. Opens(ekey', blob') <=> Opens(ekey, blob)
    BY <1>2
  <2>2. phase' # "up"
    BY <1>6
  <2>4. \A c \in Callers : op'[c].pc = "idle"
    BY <1>2 DEF CoreInv, PhaseFits, StoreStill
  <2> QED
    BY <1>2, <1>6, <1>9, <2>1, <2>2, <2>4 DEF PhaseFits
<1>11. SettingsSurvive'
  BY <1>2, <1>5, <1>6, <1>9 DEF SettingsSurvive, Opens
<1> QED
  BY <1>4, <1>7, <1>8, <1>10, <1>11 DEF CoreInv

\* The unreadable file is moved away, or the move fails.
LEMMA BackUpKeeps == ASSUME CoreInv, BackUp PROVE CoreInv'
<1>1. PICK f \in BOOLEAN :
        /\ Fault(f)
        /\ IF f THEN UNCHANGED <<blob, backups>> ELSE blob' = None /\ backups' = backups \cup {blob}
  BY DEF BackUp
<1>2. /\ phase = "recover" /\ phase' = "reset" /\ StoreStill
      /\ UNCHANGED <<key, keys, ekey, cfg, legacy, applied, starts, damages, promised,
                     harmed, unsaved, before, settled>>
  BY DEF BackUp, StoreStill, history, notes, core
<1>3. faults' \in 0 .. MaxFaults /\ before \in 0 .. faults' /\ (f => faults' > before)
  BY <1>1, FaultIs
<1>4. TypeInv' /\ TypeOK' /\ LegacyIds \subseteq used'
  BY <1>2, <1>3, StillTypes
<1>5. promised = None \/ harmed
  BY <1>2 DEF CoreInv, PhaseFits
<1>6. /\ blob' = blob \/ blob' = None
      /\ \A b \in backups' : b \in Sealed \/ b = Corrupt \/ b = None
  BY <1>1, CoreParts
<1>7. blob # None
  BY <1>2 DEF CoreInv, PhaseFits
<1>8. StartupTypeOK'
  <2>1. \A b \in backups' : b \in Sealed \/ b = Corrupt
    BY <1>1, <1>7, CoreParts
  <2> QED
    BY <1>2, <1>3, <1>4, <1>6, <2>1, CoreParts DEF StartupTypeOK, Phases
<1>9. KeysAreKnown'
  BY <1>2, <1>6, StartupAssumption DEF CoreInv, KeysAreKnown, Loaded
<1>10. PhaseFits' /\ SettingsSurvive'
  BY <1>1, <1>2, <1>3, <1>5 DEF CoreInv, PhaseFits, SettingsSurvive, StoreStill
<1> QED
  BY <1>4, <1>8, <1>9, <1>10 DEF CoreInv

\* The defaults are saved, or the save fails.
LEMMA DefaultsKeep == ASSUME CoreInv, SaveDefaults PROVE CoreInv'
<1>1. PICK f \in BOOLEAN :
        /\ Fault(f)
        /\ IF f THEN /\ phase' = IF phase = "create" THEN "down" ELSE "db"
                     /\ unsaved' = TRUE
                     /\ UNCHANGED <<blob, promised, harmed>>
                ELSE /\ phase' = "db" /\ blob' = Seal(ekey, cfg)
                     /\ promised' = cfg /\ harmed' = FALSE
                     /\ UNCHANGED unsaved
  BY DEF SaveDefaults
<1>2. /\ phase \in {"create", "reset"} /\ StoreStill
      /\ UNCHANGED <<key, keys, backups, ekey, cfg, legacy, applied, starts, damages,
                     before, settled>>
  BY DEF SaveDefaults, StoreStill, history, core
<1>3. faults' \in 0 .. MaxFaults /\ before \in 0 .. faults' /\ (f => faults' > before)
  BY <1>1, FaultIs
<1>4. TypeInv' /\ TypeOK' /\ LegacyIds \subseteq used'
  BY <1>2, <1>3, StillTypes
<1>5. /\ ekey = key /\ ekey \in Nat \ {0} /\ ekey \in 1 .. keys
      /\ cfg \in Settings /\ (promised = None \/ harmed)
      /\ \A c \in Callers : op[c].pc = "idle"
  BY <1>2, CoreParts DEF CoreInv, KeysAreKnown, PhaseFits, Loaded
<1>6. /\ Seal(ekey, cfg) \in Sealed /\ Opens(ekey, Seal(ekey, cfg))
      /\ Seal(ekey, cfg).settings = cfg /\ Seal(ekey, cfg).key = ekey
  BY <1>5, SealIs
<1>7. CASE f
  <2>1. /\ phase' = IF phase = "create" THEN "down" ELSE "db"
        /\ unsaved' = TRUE /\ UNCHANGED <<blob, promised, harmed>>
    BY <1>1, <1>7
  <2>2. StartupTypeOK'
    BY <1>2, <1>3, <1>4, <2>1, CoreParts DEF StartupTypeOK, Phases
  <2>3. KeysAreKnown'
    BY <1>2, <1>5, <2>1 DEF CoreInv, KeysAreKnown
  <2>4. PhaseFits' /\ SettingsSurvive'
    BY <1>2, <1>3, <1>5, <1>7, <2>1
       DEF PhaseFits, SettingsSurvive, StoreStill
  <2> QED
    BY <1>4, <2>2, <2>3, <2>4 DEF CoreInv
<1>8. CASE ~f
  <2>1. /\ phase' = "db" /\ blob' = Seal(ekey, cfg)
        /\ promised' = cfg /\ harmed' = FALSE /\ UNCHANGED unsaved
    BY <1>1, <1>8
  <2>2. StartupTypeOK'
    <3>1. blob' \in Sealed /\ promised' \in Settings /\ phase' \in Phases /\ harmed' \in BOOLEAN
      BY <1>5, <1>6, <2>1 DEF Phases
    <3> QED
      BY <1>2, <1>3, <1>4, <2>1, <3>1, CoreParts DEF StartupTypeOK
  <2>3. KeysAreKnown'
    BY <1>2, <1>5, <1>6, <2>1 DEF KeysAreKnown
  <2>4. Opens(ekey', blob') /\ Opens(key', blob') /\ blob'.settings = promised'
    BY <1>2, <1>5, <1>6, <2>1
  <2>5. PhaseFits' /\ SettingsSurvive'
    BY <1>2, <1>5, <2>1, <2>4
       DEF PhaseFits, SettingsSurvive, StoreStill
  <2> QED
    BY <1>4, <2>2, <2>3, <2>5 DEF CoreInv
<1> QED
  BY <1>7, <1>8

\* The database is opened.
LEMMA OpenDbKeeps == ASSUME CoreInv, OpenDb PROVE CoreInv'
<1>1. PICK f \in BOOLEAN : Fault(f) /\ phase' = IF f THEN "down" ELSE "migrate"
  BY DEF OpenDb
<1>2. /\ phase = "db" /\ StoreStill
      /\ UNCHANGED <<key, keys, blob, backups, ekey, cfg, legacy, applied, starts, damages,
                     promised, harmed, unsaved, before, settled>>
  BY DEF OpenDb, StoreStill, history, core, disk, notes
<1>3. faults' \in 0 .. MaxFaults /\ before \in 0 .. faults' /\ faults' >= faults
  BY <1>1, FaultIs
<1>4. TypeInv' /\ TypeOK' /\ LegacyIds \subseteq used'
  BY <1>2, <1>3, StillTypes
<1>5. StartupTypeOK' /\ phase' \in {"down", "migrate"}
  BY <1>1, <1>2, <1>3, <1>4, CoreParts DEF StartupTypeOK, Phases
<1>6. KeysAreKnown'
  BY <1>2, <1>5 DEF CoreInv, KeysAreKnown, Loaded
<1>7. (faults > before => faults' > before) /\ (Opens(ekey', blob') <=> Opens(ekey, blob))
  BY <1>2, <1>3, CoreParts
<1>8. PhaseFits'
  BY <1>2, <1>5, <1>7 DEF CoreInv, PhaseFits, StoreStill
<1>9. SettingsSurvive'
  BY <1>2, <1>5 DEF CoreInv, SettingsSurvive, Opens
<1> QED
  BY <1>4, <1>5, <1>6, <1>8, <1>9 DEF CoreInv

\* core.New returns.
LEMMA ReadyKeeps == ASSUME CoreInv, Ready PROVE CoreInv'
<1>1. /\ phase = "migrate" /\ phase' = "up" /\ applied' = Default
      /\ settled' = {i \in LegacyIds : acked[i] # None} \cup settled
      /\ UNCHANGED <<key, keys, blob, backups, ekey, cfg, legacy, starts, damages,
                     promised, harmed, unsaved, before, faults>> /\ StoreStill
  BY DEF Ready, StoreStill, disk, vars
<1>2. TypeInv' /\ TypeOK' /\ LegacyIds \subseteq used'
  BY <1>1, CoreParts, StillTypes
<1>3. StartupTypeOK'
  BY <1>1, <1>2, CoreParts, StartupAssumption DEF StartupTypeOK, Phases
<1>4. KeysAreKnown'
  BY <1>1 DEF CoreInv, KeysAreKnown, Loaded
<1>5. Opens(ekey', blob') <=> Opens(ekey, blob)
  BY <1>1
<1>6. PhaseFits'
  BY <1>1, <1>5 DEF CoreInv, PhaseFits
<1>7. SettingsSurvive'
  BY <1>1, <1>6 DEF CoreInv, SettingsSurvive, Opens
<1> QED
  BY <1>2, <1>3, <1>4, <1>6, <1>7 DEF CoreInv

\* Settings are updated in memory, and saved or not.
LEMMA SettingsKeep ==
  ASSUME CoreInv, NEW s \in Settings, UpdateSettings(s) PROVE CoreInv'
<1>1. PICK f \in BOOLEAN :
        /\ Fault(f)
        /\ IF f THEN unsaved' = TRUE /\ UNCHANGED <<blob, applied, promised, harmed>>
                ELSE /\ blob' = Seal(ekey, s) /\ applied' = s
                     /\ promised' = s /\ harmed' = FALSE
                     /\ UNCHANGED unsaved
  BY DEF UpdateSettings
<1>2. /\ phase = "up" /\ phase' = "up" /\ cfg' = s /\ StoreStill
      /\ UNCHANGED <<key, keys, backups, ekey, legacy, starts, damages, before, settled>>
  BY DEF UpdateSettings, StoreStill, history
<1>3. /\ faults' \in 0 .. MaxFaults /\ before \in 0 .. faults' /\ faults' >= faults
      /\ faults \in Nat /\ before \in Nat /\ (f => faults' > before)
  BY <1>1, FaultIs
<1>4. TypeInv' /\ TypeOK' /\ LegacyIds \subseteq used'
  BY <1>2, <1>3, StillTypes
<1>5. ekey = key /\ ekey \in Nat \ {0} /\ ekey \in 1 .. keys
  BY <1>2, CoreParts DEF CoreInv, KeysAreKnown, Loaded
<1>6. /\ Seal(ekey, s) \in Sealed /\ Opens(ekey, Seal(ekey, s))
      /\ Seal(ekey, s).settings = s /\ Seal(ekey, s).key = ekey
  BY <1>5, SealIs
<1>7. CASE f
  <2>1. unsaved' = TRUE /\ UNCHANGED <<blob, applied, promised, harmed>>
    BY <1>1, <1>7
  <2>2. StartupTypeOK'
    BY <1>2, <1>3, <1>4, <2>1, CoreParts DEF StartupTypeOK
  <2>3. KeysAreKnown'
    BY <1>2, <1>5, <2>1 DEF CoreInv, KeysAreKnown
  <2>4. PhaseFits' /\ SettingsSurvive'
    BY <1>2, <1>3, <1>5, <1>7, <2>1
       DEF CoreInv, PhaseFits, SettingsSurvive, StoreStill, Opens
  <2> QED
    BY <1>4, <2>2, <2>3, <2>4 DEF CoreInv
<1>8. CASE ~f
  <2>1. /\ blob' = Seal(ekey, s) /\ applied' = s
        /\ promised' = s /\ harmed' = FALSE /\ UNCHANGED unsaved
    BY <1>1, <1>8
  <2>2. StartupTypeOK'
    <3>1. blob' \in Sealed /\ {harmed', unsaved'} \subseteq BOOLEAN
      BY <1>6, <2>1, CoreParts
    <3> QED
      BY <1>2, <1>3, <1>4, <2>1, <3>1, CoreParts DEF StartupTypeOK
  <2>3. KeysAreKnown'
    BY <1>2, <1>5, <1>6, <2>1 DEF KeysAreKnown
  <2>4. Opens(ekey', blob') /\ Opens(key', blob') /\ blob'.settings = promised'
    BY <1>2, <1>5, <1>6, <2>1
  <2>5. PhaseFits' /\ SettingsSurvive'
    BY <1>2, <2>1, <2>4 DEF PhaseFits, SettingsSurvive
  <2> QED
    BY <1>4, <2>2, <2>3, <2>5 DEF CoreInv
<1> QED
  BY <1>7, <1>8

\* The process dies.
LEMMA DieKeeps == ASSUME CoreInv, Die PROVE CoreInv'
<1>1. /\ crashes' = crashes + 1 /\ crashes < MaxCrashes /\ StoreCrash /\ phase' = "down"
      /\ UNCHANGED <<requests, faults, key, keys, blob, backups, ekey, cfg, legacy, applied,
                     starts, damages, promised, harmed, unsaved, before, settled>>
  BY DEF Die, disk, core, notes
<1>2. TypeInv' /\ TypeOK'
  <2>1. crashes' \in 0 .. MaxCrashes
    BY <1>1, CoreParts
  <2>2. TypeInv'
    BY <1>1, <2>1, CrashTypes DEF CoreInv
  <2> QED
    BY <2>2 DEF TypeInv
<1>3. used' = used /\ op' = [c \in Callers |-> Idle]
  BY <1>1 DEF StoreCrash
<1>4. StartupTypeOK'
  BY <1>1, <1>2, CoreParts DEF StartupTypeOK, Phases
<1>5. KeysAreKnown'
  BY <1>1 DEF CoreInv, KeysAreKnown, Loaded
<1>6. PhaseFits'
  <2>1. \A c \in Callers : op'[c].pc = "idle"
    BY <1>3, IdleShape
  <2> QED
    BY <1>1, <2>1 DEF PhaseFits
<1>7. SettingsSurvive'
  BY <1>1 DEF CoreInv, SettingsSurvive, Opens
<1> QED
  BY <1>2, <1>3, <1>4, <1>5, <1>6, <1>7 DEF CoreInv

\* File or key are damaged between two lives.
LEMMA DamageKeeps == ASSUME CoreInv, Damage PROVE CoreInv'
<1>1. /\ phase = "down" /\ damages < MaxDamages /\ damages' = damages + 1 /\ harmed' = TRUE
      /\ \/ blob' = Corrupt /\ UNCHANGED key
         \/ key' \in {None, Invalid} /\ UNCHANGED blob
      /\ UNCHANGED <<phase, keys, backups, ekey, cfg, legacy, applied, starts, promised,
                     unsaved, before, settled, faults>> /\ StoreStill
  BY DEF Damage, vars, core, StoreStill
<1>2. TypeInv' /\ TypeOK' /\ LegacyIds \subseteq used'
  BY <1>1, CoreParts, StillTypes
<1>3. StartupTypeOK'
  <2>1. /\ damages' \in 0 .. MaxDamages /\ {harmed', unsaved'} \subseteq BOOLEAN
        /\ blob' \in Sealed \/ blob' \in {None, Corrupt}
        /\ key' \in Nat \/ key' \in {None, Invalid}
    BY <1>1, CoreParts
  <2> QED
    BY <1>1, <1>2, <2>1, CoreParts DEF StartupTypeOK
<1>4. KeysAreKnown'
  <2>1. None \notin Nat /\ Invalid \notin Nat /\ Corrupt \notin Sealed
    BY StartupAssumption
  <2> QED
    BY <1>1, <2>1 DEF CoreInv, KeysAreKnown, Loaded
<1>5. PhaseFits' /\ SettingsSurvive'
  BY <1>1 DEF CoreInv, PhaseFits, SettingsSurvive, StoreStill
<1> QED
  BY <1>2, <1>3, <1>4, <1>5 DEF CoreInv

\* No request takes an id back, and faults only grow.
LEMMA StepIs ==
  ASSUME TypeInv, NEW c \in Callers, Request(c) \/ StoreStep(c)
  PROVE  /\ TypeInv' /\ used \subseteq used' /\ faults' >= faults /\ crashes' = crashes
         /\ faults \in Nat /\ faults' \in Nat
<1>1. TypeInv' /\ faults \in Nat /\ faults' \in Nat
  <2>1. TypeInv'
    BY RequestTypes, StepTypes
  <2> QED
    BY <2>1, StoreAssumption DEF TypeInv, TypeOK
<1>2. CASE Request(c)
  <2>1. faults' = faults /\ crashes' = crashes /\ used \subseteq used'
    BY <1>2 DEF Request, AddServer, UpdateServer, DeleteServer, ReadServer
  <2> QED
    BY <1>1, <2>1
<1>3. CASE Quiet
  BY <1>1, <1>3 DEF Quiet
<1>4. CASE GotProfile(c)
  <2>1. faults' = faults /\ crashes' = crashes
    BY <1>4 DEF GotProfile, bounds
  <2>2. used \subseteq used'
    BY <1>4 DEF GotProfile
  <2> QED
    BY <1>1, <2>1, <2>2
<1>5. CASE Drop(c) \/ SetSecret(c) \/ Upsert(c) \/ DeleteRow(c) \/ DeleteSecret(c)
  <2>1. UNCHANGED <<used, faults, crashes>>
    BY <1>5 DEF Drop, SetSecret, Upsert, DeleteRow, DeleteSecret, bounds
  <2> QED
    BY <1>1, <2>1
<1>6. CASE AccessFails(c) \/ DropFails(c)
  <2>1. used' = used /\ crashes' = crashes /\ faults' = faults + 1
    BY <1>6 DEF AccessFails, DropFails
  <2> QED
    BY <1>1, <2>1
<1> QED
  BY <1>2, <1>3, <1>4, <1>5, <1>6, GetRowStep, GetSecretStep, DialStep, SelectStep, QueryStep
     DEF StoreStep

\* Requests leave the settings alone.
LEMMA UseKeeps == ASSUME CoreInv, UseStore PROVE CoreInv'
<1>1. /\ UNCHANGED <<phase, key, keys, blob, backups, ekey, cfg, legacy, applied, starts,
                     damages, promised, harmed, unsaved, before>>
      /\ phase \in {"migrate", "up"}
  BY DEF UseStore, disk, core
<1>2. TypeInv' /\ used \subseteq used' /\ faults' >= faults /\ faults' \in Nat
  <2>1. CASE EndSession
    <3>1. TypeInv'
      BY <2>1 DEF EndSession, CoreInv, TypeInv, TypeOK, stores, bounds, history
    <3>2. used' = used /\ faults' = faults
      BY <2>1 DEF EndSession, bounds
    <3> QED
      BY <3>1, <3>2, CoreParts
  <2>2. ASSUME NEW c \in Callers, Request(c) \/ StoreStep(c)
        PROVE  TypeInv' /\ used \subseteq used' /\ faults' >= faults /\ faults' \in Nat
    BY <2>2, StepIs DEF CoreInv
  <2> QED
    BY <2>1, <2>2 DEF UseStore
<1>3. StartupTypeOK'
  <2>1. before \in 0 .. faults'
    BY <1>2, CoreParts
  <2>2. settled' \subseteq LegacyIds
    BY CoreParts DEF UseStore
  <2> QED
    BY <1>1, <1>2, <2>1, <2>2, CoreParts DEF StartupTypeOK, TypeInv
<1>4. KeysAreKnown' /\ SettingsSurvive'
  BY <1>1 DEF CoreInv, KeysAreKnown, SettingsSurvive, Opens
<1>5. (faults > before => faults' > before) /\ (Opens(ekey', blob') <=> Opens(ekey, blob))
  BY <1>1, <1>2, CoreParts
<1>6. PhaseFits'
  BY <1>1, <1>5 DEF CoreInv, PhaseFits
<1> QED
  BY <1>1, <1>2, <1>3, <1>4, <1>6 DEF CoreInv

\* What the handing over of one legacy server does.
LEMMA MigrateIs ==
  ASSUME CoreInv, NEW c \in Callers, Migrate(c)
  PROVE  /\ phase = "migrate" /\ op[c].pc = "idle"
         /\ UNCHANGED <<rows, secrets, session, used, requests, faults, crashes, acked, unsure,
                        leaky, phase, key, keys, blob, backups, ekey, cfg, applied, starts,
                        damages, promised, harmed, unsaved, before, settled>>
         /\ \E l \in legacy :
               /\ legacy' = legacy \ {l}
               /\ \/ /\ Validate(l.p)
                     /\ \E o : /\ Advances(c, o) /\ o.id = l.id /\ o.p = l.p /\ o.kind = "add"
                               /\ o.pc \in {"setSecrets", "upsert"}
                  \/ ~Validate(l.p) /\ UNCHANGED op
<1>1. /\ phase = "migrate" /\ op[c].pc = "idle"
      /\ UNCHANGED <<rows, secrets, session, used, requests, faults, crashes, acked, unsure,
                     leaky, phase, key, keys, blob, backups, ekey, cfg, applied, starts,
                     damages, promised, harmed, unsaved, before, settled>>
  BY DEF Migrate, At, bounds, history, disk, notes
<1>2. PICK l \in legacy :
        /\ legacy' = legacy \ {l}
        /\ IF Validate(l.p)
           THEN Become(c, PersistStep([pc |-> "idle", kind |-> "add", id |-> l.id,
                                       p |-> l.p, todo |-> {}]))
           ELSE UNCHANGED op
  BY DEF Migrate
<1> DEFINE q == [pc |-> "idle", kind |-> "add", id |-> l.id, p |-> l.p, todo |-> {}]
           o == PersistStep(q)
<1>3. l.id \in LegacyIds /\ l.p \in Profiles /\ l.id \in used /\ l.id \in Ids
  BY CoreParts, StartupAssumption DEF CoreInv
<1>4. q \in Ops /\ q.p = l.p /\ q.id = l.id /\ q.kind = "add"
  BY <1>3 DEF Ops, Steps, Kinds
<1> HIDE DEF q
<1>5. /\ o \in Ops /\ OpShape(o, used') /\ o.pc \in {"setSecrets", "upsert"}
      /\ o.id = l.id /\ o.p = l.p /\ o.kind = "add"
  BY <1>1, <1>3, <1>4, PersistShape
<1> HIDE DEF o
<1>6. CASE Validate(l.p)
  <2>1. Advances(c, o)
    BY <1>2, <1>5, <1>6 DEF Advances, o, q
  <2> QED
    BY <1>1, <1>2, <1>5, <1>6, <2>1
<1>7. CASE ~Validate(l.p)
  BY <1>1, <1>2, <1>7
<1> QED
  BY <1>6, <1>7

\* Migration leaves the settings alone.
LEMMA MigrateKeeps == ASSUME CoreInv, NEW c \in Callers, Migrate(c) PROVE CoreInv'
<1>1. /\ phase = "migrate" /\ legacy' \subseteq legacy
      /\ UNCHANGED <<rows, secrets, session, used, requests, faults, crashes, acked, unsure,
                     leaky, phase, key, keys, blob, backups, ekey, cfg, applied, starts,
                     damages, promised, harmed, unsaved, before, settled>>
  BY MigrateIs
<1>2. TypeInv'
  <2>1. CASE UNCHANGED op
    BY <1>1, <2>1 DEF CoreInv, TypeInv, TypeOK
  <2>2. ASSUME NEW o, Advances(c, o) PROVE TypeInv'
    <3>1. TypeInv
      BY DEF CoreInv
    <3> QED
      BY <1>1, <2>2, <3>1, TypesOf, MovesKeepTypes DEF Advances
  <2> QED
    BY <2>1, <2>2, MigrateIs
<1>3. StartupTypeOK'
  BY <1>1, <1>2, CoreParts DEF StartupTypeOK, TypeInv
<1>4. KeysAreKnown' /\ SettingsSurvive' /\ PhaseFits'
  BY <1>1 DEF CoreInv, KeysAreKnown, SettingsSurvive, PhaseFits, Opens
<1> QED
  BY <1>1, <1>2, <1>3, <1>4 DEF CoreInv

\* The first start finds a consistent disk.
LEMMA CoreBegins == Init => CoreInv
<1> SUFFICES ASSUME Init PROVE CoreInv
  OBVIOUS
<1>1. op \in [Callers -> Ops] /\ \A c \in Callers : OpShape(op[c], used) /\ op[c].pc = "idle"
  BY IdleShape DEF Init
<1>2. secrets \in [Ids -> Credentials]
  BY StartupAssumption DEF Init, Credentials
<1>3. TypeOK /\ TypeInv /\ LegacyIds \subseteq used
  BY <1>1, <1>2, StoreAssumption, StartupAssumption DEF Init, TypeOK, TypeInv, Ops
<1>a. /\ phase = "down" /\ backups = {} /\ ekey = 0 /\ cfg = None /\ legacy = {}
      /\ applied = None /\ starts = 0 /\ damages = 0 /\ before = 0 /\ faults = 0 /\ settled = {}
      /\ phase \in Phases /\ phase \notin Loaded
  BY DEF Init, Phases, Loaded
<1>b. {harmed, unsaved} \subseteq BOOLEAN /\ ~harmed
  BY DEF Init
<1>c. /\ starts \in 0 .. MaxStarts /\ damages \in 0 .. MaxDamages /\ before \in 0 .. faults
      /\ MaxStarts \in Nat /\ MaxDamages \in Nat
  BY <1>a, StartupAssumption
<1>4. CASE key = None /\ keys = 0 /\ blob = None /\ promised = None
  <2>1. StartupTypeOK
    BY <1>3, <1>4, <1>a, <1>b, <1>c DEF StartupTypeOK
  <2>2. KeysAreKnown
    BY <1>4, <1>a, StartupAssumption DEF KeysAreKnown
  <2>3. PhaseFits /\ SettingsSurvive
    BY <1>1, <1>4, <1>a DEF PhaseFits, SettingsSurvive
  <2> QED
    BY <1>3, <2>1, <2>2, <2>3 DEF CoreInv
<1>5. ASSUME NEW s \in Settings, key = 1, keys = 1, promised = s,
             blob = [key |-> 1, settings |-> s, servers |-> TRUE]
      PROVE  CoreInv
  <2>1. blob \in Sealed /\ blob.key = 1 /\ blob.settings = s
    BY <1>5 DEF Sealed
  <2>2. Opens(key, blob)
    BY <1>5, <2>1, OpensIs
  <2>3. StartupTypeOK
    BY <1>3, <1>5, <2>1, <1>a, <1>b, <1>c DEF StartupTypeOK
  <2>4. KeysAreKnown
    BY <1>5, <2>1, <1>a DEF KeysAreKnown
  <2>5. PhaseFits /\ SettingsSurvive
    BY <1>1, <1>5, <2>1, <2>2, <1>a DEF PhaseFits, SettingsSurvive
  <2> QED
    BY <1>3, <2>3, <2>4, <2>5 DEF CoreInv
<1> QED
  BY <1>4, <1>5 DEF Init

\* Every step keeps the core consistent.
LEMMA CoreIsInductive == CoreInv /\ [Next]_allVars => CoreInv'
<1> SUFFICES ASSUME CoreInv, [Next]_allVars PROVE CoreInv'
  OBVIOUS
<1>1. CASE UNCHANGED allVars
  <2>1. /\ UNCHANGED <<phase, key, keys, blob, backups, ekey, cfg, legacy, applied, starts,
                       damages, promised, harmed, unsaved, before, settled>>
        /\ StoreStill /\ faults' = faults
    BY <1>1 DEF allVars, vars, startVars, disk, core, notes, StoreStill
  <2>2. TypeInv' /\ TypeOK' /\ LegacyIds \subseteq used'
    BY <2>1, CoreParts, StillTypes
  <2>3. StartupTypeOK'
    BY <2>1, <2>2, CoreParts DEF StartupTypeOK
  <2>4. KeysAreKnown' /\ PhaseFits' /\ SettingsSurvive'
    BY <2>1 DEF CoreInv, KeysAreKnown, PhaseFits, SettingsSurvive, Opens, StoreStill
  <2> QED
    BY <2>2, <2>3, <2>4 DEF CoreInv
<1> QED
  BY <1>1, LaunchKeeps, LegacyKeeps, ConfigKeeps, LoadKeeps, BackUpKeeps, DefaultsKeep,
     OpenDbKeeps, ReadyKeeps, DieKeeps, DamageKeeps, UseKeeps, MigrateKeeps, SettingsKeep
     DEF Next

\* The core stays consistent.
LEMMA CoreHolds == Spec => []CoreInv
BY CoreBegins, CoreIsInductive, PTL DEF Spec

\* Acknowledged settings survive: undamaged, the file holds them and opens
\* under the stored key at every moment of every life of the process, whatever
\* fails, and a core whose saves all worked has them in memory.
THEOREM SettingsAreSafe == Spec => []StartupInv
<1>1. CoreInv => StartupInv
  BY DEF CoreInv, StartupInv
<1> QED
  BY <1>1, CoreHolds, PTL

\* core.New fails only when an access failed: neither a damaged file nor a
\* damaged or missing key keeps the core from starting.
THEOREM StartupSurvivesDamage == Spec => DamageDoesNotStopStartup
<1> DEFINE A == phase # "down" /\ phase' = "down" /\ crashes' = crashes => faults' > before
<1>1. ASSUME CoreInv, [Next]_allVars PROVE [A]_allVars
  <2> SUFFICES ASSUME Next, phase # "down", phase' = "down", crashes' = crashes
               PROVE  faults' > before
    BY <1>1
  <2>1. ~Launch /\ ~LoadLegacyServers /\ ~BackUp /\ ~Ready /\ ~Damage
    BY DEF Launch, LoadLegacyServers, BackUp, Ready, Damage
  <2>2. ~UseStore /\ ~(\E c \in Callers : Migrate(c)) /\ ~(\E s \in Settings : UpdateSettings(s))
    BY DEF UseStore, Migrate, UpdateSettings
  <2>3. ~Die
    BY <1>1, CoreParts DEF Die
  <2>4. CASE ConfigNew
    <3>1. PICK f \in BOOLEAN :
            LET k == GetOrCreateDataKey(f)
            IN  /\ Fault(f)
                /\ IF k.got = 0 THEN Fail /\ UNCHANGED ekey ELSE ekey' = k.got /\ phase' = "load"
      BY <2>4 DEF ConfigNew
    <3>2. CASE f
      BY <1>1, <3>1, <3>2, FaultIs
    <3>3. CASE ~f
      <4>1. key = Invalid
        BY <1>1, <3>1, <3>3, DataKey
      <4>2. faults > before /\ faults' = faults
        BY <1>1, <2>4, <3>1, <3>3, <4>1, FaultIs DEF CoreInv, PhaseFits, ConfigNew
      <4> QED
        BY <4>2
    <3> QED
      BY <3>2, <3>3
  <2>5. CASE Load
    BY <1>1, <2>5, FaultIs DEF Load
  <2>6. CASE SaveDefaults
    BY <1>1, <2>6, FaultIs DEF SaveDefaults
  <2>7. CASE OpenDb
    BY <1>1, <2>7, FaultIs DEF OpenDb
  <2> QED
    BY <2>1, <2>2, <2>3, <2>4, <2>5, <2>6, <2>7 DEF Next
<1> QED
  BY <1>1, CoreHolds, PTL DEF Spec, DamageDoesNotStopStartup

\* A file the engine cannot open is replaced only after it was backed up, or
\* when an access failed.
THEOREM UnreadableIsKept == Spec => UnreadableIsBackedUp
<1> DEFINE A == phase # "down" /\ blob # None /\ blob' # blob =>
                  Opens(ekey, blob) \/ blob \in backups' \/ faults' > before
<1>1. ASSUME CoreInv, [Next]_allVars PROVE [A]_allVars
  <2> SUFFICES ASSUME Next, phase # "down", blob # None, blob' # blob
               PROVE  Opens(ekey, blob) \/ blob \in backups' \/ faults' > before
    BY <1>1
  <2>1. ~Launch /\ ~LoadLegacyServers /\ ~ConfigNew /\ ~Load /\ ~OpenDb /\ ~Ready /\ ~Damage /\ ~Die
    BY DEF Launch, LoadLegacyServers, ConfigNew, Load, OpenDb, Ready, Damage, Die, disk
  <2>2. ~UseStore /\ ~(\E c \in Callers : Migrate(c))
    BY DEF UseStore, Migrate, disk
  <2>3. CASE BackUp
    BY <2>3 DEF BackUp
  <2>4. CASE SaveDefaults
    <3>1. phase = "reset" /\ faults > before
      BY <1>1, <2>4 DEF SaveDefaults, CoreInv, PhaseFits
    <3> QED
      BY <1>1, <2>4, <3>1, FaultIs DEF SaveDefaults
  <2>5. ASSUME NEW s \in Settings, UpdateSettings(s)
        PROVE  Opens(ekey, blob) \/ faults' > before
    <3>1. Opens(ekey, blob) \/ faults > before
      BY <1>1, <2>5 DEF UpdateSettings, CoreInv, PhaseFits
    <3> QED
      BY <1>1, <2>5, <3>1, FaultIs DEF UpdateSettings
  <2> QED
    BY <2>1, <2>2, <2>3, <2>4, <2>5 DEF Next
<1> QED
  BY <1>1, CoreHolds, PTL DEF Spec, UnreadableIsBackedUp
-----------------------------------------------------------------------------
(* The servers of the pre-migration file.                                  *)

\* Nothing makes a file with servers in it any more.
LEMMA HoldersStay ==
  ASSUME CoreInv, [Next]_allVars, HoldsServers'
  PROVE  HoldsServers /\ blob' = blob
<1>1. blob' = blob \/ (\E s : blob' = Seal(ekey, s)) \/ blob' \in {None, Corrupt}
  BY DEF Next, Launch, LoadLegacyServers, ConfigNew, Load, BackUp, SaveDefaults, OpenDb, Ready,
         Die, Damage, UseStore, Migrate, UpdateSettings, disk, startVars, allVars
<1>2. ASSUME NEW s PROVE ~Seal(ekey, s).servers
  BY DEF Seal
<1>3. None \notin Sealed /\ Corrupt \notin Sealed
  BY StartupAssumption
<1> QED
  BY <1>1, <1>2, <1>3 DEF HoldsServers

\* While nobody touches the stores, a server stays as it was.
LEMMA StillUnmigrated ==
  ASSUME UntilMigrated, UNCHANGED <<rows, secrets, acked, op, settled>>,
         \/ phase' = phase
         \/ phase \notin {"migrate", "up"} /\ phase' # "up"
  PROVE  UntilMigrated'
BY DEF UntilMigrated, Unmigrated

\* Nor does the list of profiles, once it is made.
LEMMA StillCovered ==
  ASSUME UNCHANGED <<acked, op, legacy, settled>>
  PROVE  (AllCovered => AllCovered') /\ (ListFits => ListFits')
BY DEF AllCovered, Covered, ListFits

\* A file opens under the key it was sealed with, and a new key is another.
LEMMA NewKeyOpensNothing ==
  ASSUME CoreInv, NEW f \in BOOLEAN, Opens(GetOrCreateDataKey(f).key, blob)
  PROVE  /\ key \in Nat /\ Opens(key, blob) /\ GetOrCreateDataKey(f).key = key
         /\ ~f => GetOrCreateDataKey(f).got = key
<1> DEFINE k == GetOrCreateDataKey(f)
<1>1. blob \in Sealed /\ blob.key = k.key /\ blob.key \in 1 .. keys /\ keys \in Nat
  BY CoreParts, OpensIs DEF CoreInv, KeysAreKnown
<1>2. k.key \in Nat /\ k.key # keys + 1
  BY <1>1
<1>3. key \in Nat
  <2>1. CASE key = None
    BY <1>2, <2>1, StartupAssumption DEF GetOrCreateDataKey
  <2>2. CASE key = Invalid
    BY <1>2, <2>2, StartupAssumption DEF GetOrCreateDataKey
  <2> QED
    BY <2>1, <2>2, CoreParts
<1>4. k.key = key /\ (~f => k.got = key)
  BY <1>3, DataKey
<1> QED
  BY <1>3, <1>4

\* A legacy profile has the credentials of the secret store.
LEMMA LegacyProfileIs ==
  ASSUME NEW i \in LegacyIds, HasLegacyCreds(secrets[i])
  PROVE  LegacyProfile(i).body = LegacyBody /\ HasLegacyCreds(LegacyProfile(i).cred)
BY StartupAssumption DEF LegacyProfile, HasLegacyCreds

\* Reading the file puts every server on the list, or skips the migration
\* because of a fault or a file that does not open.
LEMMA ListKeeps == ASSUME StartInv, LoadLegacyServers, HoldsServers PROVE LegacyInv'
<1>1. PICK keyFault, readFault \in BOOLEAN :
        LET k == GetOrCreateDataKey(keyFault)
        IN  /\ ~(keyFault /\ readFault) /\ Fault(keyFault \/ readFault)
            /\ key' = k.key /\ keys' = k.keys
            /\ legacy' = IF ~readFault /\ Opens(k.got, blob) /\ blob.servers
                         THEN {[id |-> i, p |-> LegacyProfile(i)] : i \in LegacyIds} ELSE {}
  BY DEF LoadLegacyServers
<1>2. /\ phase = "legacy" /\ phase' = "config"
      /\ UNCHANGED <<rows, secrets, acked, op, settled, before, blob>>
  BY DEF LoadLegacyServers, history, notes
<1>3. CoreInv /\ UntilMigrated /\ blob.servers
  BY DEF StartInv, LegacyInv, HoldsServers
<1>4. UntilMigrated'
  BY <1>2, <1>3, StillUnmigrated
<1>5. ListFits'
  <2> SUFFICES ASSUME NEW l \in legacy', l.id \notin settled
               PROVE  l.p.body = LegacyBody /\ HasLegacyCreds(l.p.cred)
    BY <1>2 DEF ListFits
  <2>1. PICK i \in LegacyIds : l = [id |-> i, p |-> LegacyProfile(i)]
    BY <1>1
  <2>2. HasLegacyCreds(secrets[i])
    BY <1>3, <2>1 DEF UntilMigrated, Unmigrated
  <2> QED
    BY <2>1, <2>2, LegacyProfileIs
<1>6. ASSUME faults' = before', Opens(key', blob') PROVE AllCovered'
  <2>1. ~keyFault /\ ~readFault
    BY <1>1, <1>2, <1>3, <1>6, FaultIs
  <2>2. GetOrCreateDataKey(keyFault).got = key /\ Opens(key, blob)
    BY <1>1, <1>2, <1>3, <1>6, <2>1, NewKeyOpensNothing
  <2>3. legacy' = {[id |-> i, p |-> LegacyProfile(i)] : i \in LegacyIds}
    BY <1>1, <1>3, <2>1, <2>2
  <2> SUFFICES ASSUME NEW i \in LegacyIds PROVE \E l \in legacy' : l.id = i
    BY <1>2 DEF AllCovered, Covered
  <2>4. [id |-> i, p |-> LegacyProfile(i)] \in legacy'
    BY <2>3
  <2> QED
    BY <2>4
<1>7. NoneLeftBehind'
  BY <1>2, <1>6 DEF NoneLeftBehind, Loaded
<1> QED
  BY <1>4, <1>5, <1>7 DEF LegacyInv

\* The engine opens the file under the key that read the list.
LEMMA EngineKeeps == ASSUME StartInv, ConfigNew, HoldsServers PROVE LegacyInv'
<1>1. PICK f \in BOOLEAN :
        LET k == GetOrCreateDataKey(f)
        IN  /\ Fault(f) /\ key' = k.key /\ keys' = k.keys
            /\ IF k.got = 0 THEN Fail /\ UNCHANGED ekey ELSE ekey' = k.got /\ phase' = "load"
  BY DEF ConfigNew
<1>2. /\ phase = "config" /\ phase' \in {"down", "load"}
      /\ UNCHANGED <<rows, secrets, acked, op, legacy, settled, before, blob>>
  BY DEF ConfigNew, history, notes, Fail
<1>3. CoreInv /\ UntilMigrated /\ ListFits /\ NoneLeftBehind
  BY DEF StartInv, LegacyInv
<1>4. UntilMigrated' /\ ListFits'
  BY <1>2, <1>3, StillUnmigrated, StillCovered
<1>5. ASSUME faults' = before', phase' = "load", Opens(ekey', blob') PROVE AllCovered'
  <2>1. ~f /\ faults = before
    BY <1>1, <1>2, <1>3, <1>5, FaultIs
  <2>2. ekey' = GetOrCreateDataKey(f).key
    BY <1>1, <1>3, <1>5, DataKey DEF Fail
  <2>3. Opens(key, blob)
    BY <1>2, <1>3, <1>5, <2>2, NewKeyOpensNothing
  <2> QED
    BY <1>2, <1>3, <2>1, <2>3, StillCovered DEF NoneLeftBehind
<1>6. NoneLeftBehind'
  BY <1>2, <1>5 DEF NoneLeftBehind, Loaded
<1> QED
  BY <1>4, <1>6 DEF LegacyInv

\* The other steps of core.New before the migration, launches, deaths,
\* damages and failing saves.
LEMMA WaitingKeeps ==
  ASSUME StartInv, HoldsServers, UNCHANGED <<rows, secrets, acked, op, legacy, settled, blob>>,
         phase' \in Loaded => before' = before /\ faults' >= faults /\ ekey' = ekey,
         phase' # "config",
         \/ phase' = phase
         \/ phase \notin {"migrate", "up"} /\ phase' # "up",
         phase' \in Loaded => phase \in Loaded
  PROVE  LegacyInv'
<1>1. CoreInv /\ UntilMigrated /\ ListFits /\ NoneLeftBehind
  BY DEF StartInv, LegacyInv
<1>2. UntilMigrated' /\ ListFits'
  BY <1>1, StillUnmigrated, StillCovered
<1>3. NoneLeftBehind'
  <2> SUFFICES ASSUME faults' = before', phase' \in Loaded, Opens(ekey', blob')
               PROVE  /\ phase' # "up" => AllCovered'
                      /\ phase' = "up" => LegacyIds \subseteq settled'
    BY DEF NoneLeftBehind, Loaded
  <2>1. faults = before /\ Opens(ekey, blob) /\ phase \in Loaded
    BY <1>1, CoreParts
  <2>2. CASE phase = "up"
    BY <1>1, <2>1, <2>2 DEF NoneLeftBehind
  <2>3. CASE phase # "up"
    BY <1>1, <2>1, <2>3, StillCovered DEF NoneLeftBehind
  <2> QED
    BY <2>2, <2>3
<1> QED
  BY <1>2, <1>3 DEF LegacyInv

\* A start that ends with every profile handed over and every request answered
\* has migrated what no fault kept from it.
LEMMA DoneKeeps == ASSUME StartInv, Ready, HoldsServers PROVE LegacyInv'
<1>1. /\ phase = "migrate" /\ phase' = "up" /\ legacy = {} /\ \A c \in Callers : op[c].pc = "idle"
      /\ settled' = {i \in LegacyIds : acked[i] # None} \cup settled
      /\ UNCHANGED <<rows, secrets, acked, op, legacy, before, faults, blob, ekey>>
  BY DEF Ready, vars, disk, At
<1>2. CoreInv /\ UntilMigrated /\ NoneLeftBehind
  BY DEF StartInv, LegacyInv
<1>3. ASSUME NEW i \in LegacyIds \ settled, NEW c \in Callers PROVE op[c].id # i
  BY <1>1, <1>2 DEF UntilMigrated, Unmigrated
<1>4. UntilMigrated'
  BY <1>1, <1>2, <1>3 DEF UntilMigrated, Unmigrated
<1>5. ListFits'
  BY <1>1 DEF ListFits
<1>6. NoneLeftBehind'
  <2> SUFFICES ASSUME faults = before, Opens(ekey, blob), NEW i \in LegacyIds, i \notin settled
               PROVE  acked[i] # None
    BY <1>1 DEF NoneLeftBehind, Loaded
  <2>1. Covered(i)
    BY <1>1, <1>2 DEF NoneLeftBehind, Loaded, AllCovered
  <2> QED
    BY <1>1, <1>3, <2>1 DEF Covered
<1> QED
  BY <1>4, <1>5, <1>6 DEF LegacyInv

\* Death leaves both stores as they are.
LEMMA DeathKeeps == ASSUME StartInv, Die, HoldsServers PROVE LegacyInv'
<1>1. /\ phase' = "down" /\ op' = [c \in Callers |-> Idle]
      /\ UNCHANGED <<rows, secrets, acked, legacy, settled>>
  BY DEF Die, StoreCrash, LeaveInDoubt, stores, core, notes
<1>2. UntilMigrated /\ ListFits
  BY DEF StartInv, LegacyInv
<1>3. \A c \in Callers : op'[c].id = None
  BY <1>1 DEF Idle
<1>4. \A i \in LegacyIds : i # None
  BY StartupAssumption, StoreAssumption
<1>5. UntilMigrated'
  BY <1>1, <1>2, <1>3, <1>4 DEF UntilMigrated, Unmigrated
<1>6. ListFits' /\ NoneLeftBehind'
  BY <1>1, <1>2 DEF ListFits, NoneLeftBehind, Loaded
<1> QED
  BY <1>5, <1>6 DEF LegacyInv

\* A legacy profile is valid, so its migration always leads to a Create.
LEMMA LegacyIsValid ==
  ASSUME NEW p \in Profiles, p.body = LegacyBody, HasLegacyCreds(p.cred)
  PROVE  Validate(p)
<1>1. \A r \in LegacyRefs : r \in Refs /\ p.cred[r] # None
  BY StartupAssumption, StoreAssumption DEF HasLegacyCreds
<1> QED
  BY <1>1, StartupAssumption DEF Validate, SecretRefsFor

\* Handing a profile to Create takes it off the list and under way.
LEMMA HandOverKeeps ==
  ASSUME StartInv, NEW c \in Callers, Migrate(c), HoldsServers PROVE LegacyInv'
<1>1. /\ phase = "migrate" /\ op[c].pc = "idle"
      /\ UNCHANGED <<rows, secrets, faults, acked, phase, key, blob, ekey, before, settled, used>>
  BY MigrateIs DEF StartInv
<1>2. /\ CoreInv /\ UntilMigrated /\ ListFits /\ NoneLeftBehind /\ TypeInv
      /\ legacy \subseteq [id : LegacyIds, p : Profiles]
  BY CoreParts DEF StartInv, LegacyInv, CoreInv
<1>3. PICK l \in legacy :
        /\ legacy' = legacy \ {l}
        /\ \/ /\ Validate(l.p)
              /\ \E o : /\ Advances(c, o) /\ o.id = l.id /\ o.p = l.p /\ o.kind = "add"
                        /\ o.pc \in {"setSecrets", "upsert"}
           \/ ~Validate(l.p) /\ UNCHANGED op
  BY <1>2, MigrateIs
<1>4. ListFits'
  BY <1>1, <1>2, <1>3 DEF ListFits
<1>5. op[c].id = None /\ \A i \in LegacyIds : i # None
  BY <1>1, <1>2, TypesOf, StartupAssumption, StoreAssumption DEF OpShape
<1>6. CASE Validate(l.p)
  <2>1. PICK o : /\ Advances(c, o) /\ o.id = l.id /\ o.p = l.p /\ o.kind = "add"
                 /\ o.pc \in {"setSecrets", "upsert"}
    BY <1>3, <1>6
  <2>2. op'[c] = o /\ \A d \in Callers : d # c => op'[d] = op[d]
    BY <1>1, <1>2, <2>1, BecomeKeeps DEF Advances
  <2>3. ASSUME NEW i \in LegacyIds \ settled PROVE Unmigrated(i)'
    <3>1. Unmigrated(i)
      BY <1>2 DEF UntilMigrated
    <3>2. o.id = i => HasLegacyCreds(o.p.cred)
      BY <1>2, <2>1 DEF ListFits
    <3> QED
      BY <1>1, <2>1, <2>2, <3>1, <3>2 DEF Unmigrated
  <2>4. ASSUME NEW i \in LegacyIds \ settled, Covered(i) PROVE Covered(i)'
    <3>1. CASE \E m \in legacy : m.id = i
      BY <1>3, <2>1, <2>2, <3>1 DEF Covered
    <3>2. CASE acked[i] # None
      BY <1>1, <3>2 DEF Covered
    <3>3. CASE \E d \in Callers : op[d].id = i
      BY <1>5, <2>2, <3>3 DEF Covered
    <3> QED
      BY <2>4, <3>1, <3>2, <3>3 DEF Covered
  <2>5. UntilMigrated' /\ (AllCovered => AllCovered')
    BY <1>1, <2>3, <2>4 DEF UntilMigrated, AllCovered
  <2> QED
    BY <1>1, <1>2, <1>4, <2>5 DEF LegacyInv, NoneLeftBehind, Loaded
<1>7. CASE ~Validate(l.p)
  <2>1. op' = op /\ l.id \in settled
    BY <1>2, <1>3, <1>7, LegacyIsValid DEF ListFits
  <2>2. UntilMigrated'
    BY <1>1, <1>2, <2>1, StillUnmigrated
  <2>3. ASSUME NEW i \in LegacyIds \ settled, Covered(i) PROVE Covered(i)'
    BY <1>1, <1>3, <2>1, <2>3 DEF Covered
  <2>4. AllCovered => AllCovered'
    BY <1>1, <2>3 DEF AllCovered
  <2> QED
    BY <1>1, <1>2, <1>4, <2>2, <2>4 DEF LegacyInv, NoneLeftBehind, Loaded
<1> QED
  BY <1>6, <1>7

\* A request on one server leaves the others alone, also a duplicate, which
\* takes a fresh id.
LEMMA ElsewhereStays ==
  ASSUME TypeInv, NEW c \in Callers, StoreStep(c), NEW i \in used, op[c].id # i
  PROVE  /\ rows'[i] = rows[i] /\ secrets'[i] = secrets[i] /\ acked'[i] = acked[i]
         /\ op'[c].id # i /\ \A d \in Callers : d # c => op'[d] = op[d]
<1>0. /\ i \in Ids /\ i # None /\ rows \in [Ids -> Rows \cup {None}]
      /\ secrets \in [Ids -> Credentials] /\ acked \in [Ids -> Profiles \cup {None}]
      /\ op[c].pc # "idle" => op[c].id \in Ids
      /\ Idle.id = None
  BY TypesOf, StoreAssumption DEF Idle
<1> DEFINE Same == rows'[i] = rows[i] /\ secrets'[i] = secrets[i] /\ acked'[i] = acked[i]
<1>1. ASSUME NEW o, Advances(c, o), used \subseteq used', o.id # i, Same
      PROVE  Same /\ op'[c].id # i /\ \A d \in Callers : d # c => op'[d] = op[d]
  <2>1. op'[c] = o /\ \A d \in Callers : d # c => op'[d] = op[d]
    BY <1>1, BecomeKeeps DEF Advances
  <2> QED
    BY <1>1, <2>1
<1>2. ASSUME NEW r, NEW v, Put(op[c].id, r, v) PROVE secrets'[i] = secrets[i]
  BY <1>0, <1>2 DEF Put
<1>3. Quiet => Same /\ used \subseteq used'
  BY DEF Quiet
<1>4. CASE GetRow(c)
  BY <1>0, <1>1, <1>3, <1>4, GetRowStep
<1>5. CASE GetSecret(c)
  BY <1>0, <1>1, <1>3, <1>5, GetSecretStep
<1>6. CASE GotProfile(c)
  <2>1. Same
    BY <1>6, GotProfileStep
  <2>2. PICK o : Advances(c, o) /\ used \subseteq used' /\ o.id # i
    BY <1>0, <1>6, GotProfileStep
  <2> QED
    BY <1>1, <2>1, <2>2
<1>7. CASE Dial(c)
  BY <1>0, <1>1, <1>3, <1>7, DialStep
<1>8. CASE Select(c)
  BY <1>0, <1>1, <1>3, <1>8, SelectStep
<1>9. CASE Drop(c)
  <2>1. PICK o, r : Advances(c, o) /\ Put(op[c].id, r, None) /\ o.id = op[c].id
    BY <1>9, DropStep
  <2>2. UNCHANGED <<rows, acked, used>>
    BY <1>9, DropStep
  <2> QED
    BY <1>1, <1>2, <2>1, <2>2
<1>10. CASE SetSecret(c)
  <2>1. PICK o, r : Advances(c, o) /\ Put(op[c].id, r, op[c].p.cred[r]) /\ o.id = op[c].id
    BY <1>10, SetSecretStep
  <2>2. UNCHANGED <<rows, acked, used>>
    BY <1>10, SetSecretStep
  <2> QED
    BY <1>1, <1>2, <2>1, <2>2
<1>11. CASE Upsert(c)
  <2>1. /\ UNCHANGED <<secrets, used>> /\ op[c].id \in used
        /\ \E row : rows' = [rows EXCEPT ![op[c].id] = row]
        /\ acked' = [acked EXCEPT ![op[c].id] = op[c].p]
    BY <1>11, UpsertStep
  <2>2. PICK o : Advances(c, o) /\ o.id # i
    BY <1>0, <1>11, UpsertStep
  <2>3. Same
    BY <1>0, <2>1
  <2> QED
    BY <1>1, <2>1, <2>2, <2>3
<1>12. CASE QuerySecretRefs(c)
  BY <1>0, <1>1, <1>3, <1>12, QueryStep
<1>13. CASE DeleteRow(c)
  <2>1. /\ UNCHANGED <<secrets, used>> /\ op[c].id \in used
        /\ rows' = [rows EXCEPT ![op[c].id] = None]
        /\ acked' = acked \/ acked' = [acked EXCEPT ![op[c].id] = None]
    BY <1>13, DeleteRowStep
  <2>2. PICK o : Advances(c, o) /\ o.id # i
    BY <1>0, <1>13, DeleteRowStep
  <2>3. Same
    BY <1>0, <2>1
  <2> QED
    BY <1>1, <2>1, <2>2, <2>3
<1>14. CASE DeleteSecret(c)
  <2>1. op[c].pc = "delSecrets" /\ UNCHANGED <<rows, used>>
    BY <1>14 DEF DeleteSecret, At
  <2>2. PICK r \in op[c].todo :
          /\ Put(op[c].id, r, None) /\ Deleted(c, r)
          /\ IF op[c].todo = {r} THEN Acknowledge(op[c].id, None) ELSE UNCHANGED history
    BY <1>14 DEF DeleteSecret, Put
  <2>3. PICK o : Advances(c, o) /\ o.id # i
    BY <1>0, <2>1, <2>2, DeletedStep
  <2>4. acked' = acked \/ acked' = [acked EXCEPT ![op[c].id] = None]
    BY <2>2 DEF Acknowledge, history
  <2>5. Same
    BY <1>0, <1>2, <2>1, <2>2, <2>4
  <2> QED
    BY <1>1, <2>1, <2>3, <2>5
<1>15. CASE AccessFails(c)
  <2>1. UNCHANGED <<rows, secrets, acked, used>> /\ Advances(c, Idle)
    BY <1>15, AccessFailsStep
  <2> QED
    BY <1>0, <1>1, <2>1
<1>16. CASE DropFails(c)
  <2>1. UNCHANGED <<rows, secrets, used>>
        /\ (acked' = acked \/ acked' = [acked EXCEPT ![op[c].id] = None])
    BY <1>16, DropFailsStep
  <2>2. PICK o : Advances(c, o) /\ o.id # i
    BY <1>0, <1>16, DropFailsStep
  <2>3. Same
    BY <1>0, <2>1
  <2> QED
    BY <1>1, <2>1, <2>2, <2>3
<1> QED
  BY <1>4, <1>5, <1>6, <1>7, <1>8, <1>9, <1>10, <1>11, <1>12, <1>13, <1>14, <1>15, <1>16
     DEF StoreStep

\* The request on a server of the file: while migrating it is its creation,
\* later it finds no row and ends.
LEMMA OwnStepKeeps ==
  ASSUME CoreInv, NEW c \in Callers, StoreStep(c), NEW i \in LegacyIds, Unmigrated(i),
         op[c].id = i, UNCHANGED <<phase, legacy>>
  PROVE  Unmigrated(i)' /\ (faults' = faults => Covered(i)' \/ phase = "up")
<1>0. /\ TypeInv /\ i \in Ids /\ i \in used /\ i # None /\ Idle.id = None
      /\ rows \in [Ids -> Rows \cup {None}] /\ secrets \in [Ids -> Credentials]
      /\ acked \in [Ids -> Profiles \cup {None}]
      /\ LegacyRefs \subseteq Refs /\ None \notin Rows /\ None \notin Profiles
      /\ faults \in Nat
  BY TypesOf, StoreAssumption, StartupAssumption, CoreParts DEF Idle, CoreInv
<1>1. ASSUME NEW o, Advances(c, o), used \subseteq used'
      PROVE  op'[c] = o /\ \A d \in Callers : d # c => op'[d] = op[d]
  BY <1>0, <1>1, BecomeKeeps DEF Advances
<1>2. ASSUME Advances(c, Idle), UNCHANGED <<rows, secrets, acked, used>> PROVE Unmigrated(i)'
  <2>1. op'[c].id # i /\ \A d \in Callers : d # c => op'[d] = op[d]
    BY <1>0, <1>1, <1>2
  <2> QED
    BY <1>2, <2>1 DEF Unmigrated
<1>3. CASE AccessFails(c)
  <2>1. faults' # faults
    BY <1>0, <1>3 DEF AccessFails
  <2> QED
    BY <1>0, <1>2, <1>3, <2>1, AccessFailsStep
<1>4. CASE phase = "up" /\ ~AccessFails(c)
  <2>1. op[c].pc \in {"getRow", "select", "refs"} /\ rows[i] = None
    BY <1>4 DEF Unmigrated
  <2>2. GetRow(c) \/ Select(c) \/ QuerySecretRefs(c)
    BY <1>4, <2>1 DEF StoreStep, GetSecret, GotProfile, Dial, Drop, SetSecret, Upsert, DeleteRow,
                      DeleteSecret, DropFails, At
  <2>3. Become(c, Idle) /\ UNCHANGED <<rows, secrets, acked, used>>
    BY <2>1, <2>2 DEF GetRow, Select, QuerySecretRefs, stores, history
  <2>4. Advances(c, Idle)
    BY <2>3, IdleShape DEF Advances
  <2> QED
    BY <1>2, <1>4, <2>3, <2>4
<1>5. CASE phase # "up" /\ ~AccessFails(c)
  <2>1. /\ phase = "migrate" /\ op[c].pc \in {"setSecrets", "upsert"} /\ op[c].kind = "add"
        /\ HasLegacyCreds(op[c].p.cred)
    BY <1>5 DEF Unmigrated
  <2>2. SetSecret(c) \/ Upsert(c)
    BY <1>5, <2>1 DEF StoreStep, GetRow, GetSecret, GotProfile, Dial, Select, Drop, DeleteRow,
                      DeleteSecret, DropFails, QuerySecretRefs, At
  <2>3. CASE SetSecret(c)
    <3>1. PICK o, r : /\ Advances(c, o) /\ r \in op[c].todo
                      /\ Put(i, r, op[c].p.cred[r])
                      /\ o.id = op[c].id /\ o.p = op[c].p /\ o.kind = op[c].kind
                      /\ o.pc \in {"setSecrets", "upsert"}
      BY <1>0, <2>3, SetSecretStep
    <3>2. UNCHANGED <<rows, acked, used>>
      BY <1>0, <2>3, SetSecretStep
    <3>3. op'[c] = o /\ \A d \in Callers : d # c => op'[d] = op[d]
      BY <1>1, <3>1, <3>2
    <3>4. \A q \in Refs : secrets'[i][q] = IF q = r THEN op[c].p.cred[r] ELSE secrets[i][q]
      <4>1. secrets[i] \in Credentials
        BY <1>0
      <4> QED
        BY <1>0, <3>1, <4>1 DEF Put, Credentials
    <3>5. HasLegacyCreds(secrets'[i])
      BY <1>0, <2>1, <3>4 DEF Unmigrated, HasLegacyCreds
    <3>6. Unmigrated(i)'
      BY <2>1, <3>1, <3>2, <3>3, <3>5 DEF Unmigrated
    <3>7. Covered(i)'
      BY <3>1, <3>3 DEF Covered
    <3> QED
      BY <3>6, <3>7
  <2>4. CASE Upsert(c)
    <3>1. /\ UNCHANGED <<secrets, used>> /\ op[c].p \in Profiles
          /\ acked' = [acked EXCEPT ![i] = op[c].p]
      BY <1>0, <2>4, UpsertStep
    <3>2. Advances(c, Idle)
      BY <2>1, <2>4, IdleShape DEF Upsert, Advances
    <3>3. op'[c].id # i /\ \A d \in Callers : d # c => op'[d] = op[d]
      BY <1>0, <1>1, <3>1, <3>2
    <3>4. acked'[i] # None
      BY <1>0, <3>1
    <3>5. Unmigrated(i)'
      BY <2>1, <3>1, <3>3, <3>4 DEF Unmigrated
    <3> QED
      BY <3>4, <3>5 DEF Covered
  <2> QED
    BY <2>2, <2>3, <2>4
<1> QED
  BY <1>3, <1>4, <1>5

\* No request, while the core is up, does anything to such a server, but for
\* one that adds another server over its id.
LEMMA RequestIs ==
  ASSUME TypeInv, NEW c \in Callers, Request(c), NEW i \in used
  PROVE  /\ UNCHANGED <<rows, secrets, acked, faults>>
         /\ op[c].pc = "idle" /\ \A d \in Callers : d # c => op'[d] = op[d]
         /\ op'[c].id = i => op'[c].pc \in {"getRow", "select", "refs"} \/ op'[c].kind = "add"
<1>0. op \in [Callers -> Ops]
  BY DEF TypeInv, TypeOK, Ops
<1>1. /\ UNCHANGED <<rows, secrets, acked, faults>> /\ op[c].pc = "idle"
  BY DEF Request, AddServer, UpdateServer, DeleteServer, ReadServer, Ask, At, stores, history
<1>2. ASSUME NEW k, NEW j, NEW p, NEW s \in {"getRow", "select", "refs"}, Ask(c, k, j, p, s)
      PROVE  /\ \A d \in Callers : d # c => op'[d] = op[d]
             /\ op'[c].pc \in {"getRow", "select", "refs"}
  BY <1>0, <1>2 DEF Ask, Become
<1>3. ASSUME NEW j \in Ids, NEW p \in Profiles, AddServer(c, j, p)
      PROVE  op'[c].kind = "add" /\ \A d \in Callers : d # c => op'[d] = op[d]
  <2> DEFINE q == [pc |-> "idle", kind |-> "add", id |-> j, p |-> p, todo |-> {}]
  <2>1. op' = [op EXCEPT ![c] = PersistStep(q)]
    BY <1>3 DEF AddServer, Become
  <2>2. PersistStep(q).kind = "add"
    BY DEF PersistStep
  <2> HIDE DEF q
  <2> QED
    BY <1>0, <2>1, <2>2
<1>4. CASE \E j \in Ids, p \in Profiles : AddServer(c, j, p)
  BY <1>1, <1>3, <1>4
<1>5. CASE \E j \in Ids, p \in Profiles : UpdateServer(c, j, p)
  BY <1>1, <1>2, <1>5 DEF UpdateServer
<1>6. CASE \E j \in Ids : DeleteServer(c, j)
  BY <1>1, <1>2, <1>6 DEF DeleteServer
<1>7. CASE \E j \in Ids : \E k : ReadServer(c, j, k)
  BY <1>1, <1>2, <1>7 DEF ReadServer
<1> QED
  BY <1>4, <1>5, <1>6, <1>7 DEF Request

\* The repository at work, while migrating and later.
LEMMA WorkKeeps == ASSUME StartInv, UseStore, HoldsServers PROVE LegacyInv'
<1>1. /\ UNCHANGED <<phase, blob, ekey, key, legacy, before>>
      /\ phase \in {"migrate", "up"} /\ settled \subseteq settled'
      /\ \A i \in LegacyIds \ settled', c \in Callers :
            phase = "up" /\ op'[c].id = i => op'[c].kind # "add"
  BY DEF UseStore, disk, core
<1>2. /\ CoreInv /\ UntilMigrated /\ ListFits /\ NoneLeftBehind /\ TypeInv
      /\ LegacyIds \subseteq used
  BY DEF StartInv, LegacyInv, CoreInv
<1>3. ListFits'
  BY <1>1, <1>2 DEF ListFits
<1>4. ASSUME UntilMigrated',
             faults' = before => faults = before,
             faults' = before /\ phase = "migrate" /\ AllCovered => AllCovered'
      PROVE  LegacyInv'
  BY <1>1, <1>2, <1>3, <1>4 DEF LegacyInv, NoneLeftBehind, Loaded
<1>5. CASE EndSession
  <2>1. UNCHANGED <<rows, secrets, acked, op, faults>>
    BY <1>5 DEF EndSession, stores, bounds, history
  <2>2. UntilMigrated'
    BY <1>1, <1>2, <2>1 DEF UntilMigrated, Unmigrated
  <2>3. AllCovered => AllCovered'
    BY <1>1, <2>1 DEF AllCovered, Covered
  <2> QED
    BY <1>1, <1>4, <2>1, <2>2, <2>3
<1>6. ASSUME NEW c \in Callers, Request(c), phase = "up" PROVE LegacyInv'
  <2>1. faults' = faults
    BY <1>2, <1>6 DEF Request, AddServer, UpdateServer, DeleteServer, ReadServer
  <2>2. ASSUME NEW i \in LegacyIds \ settled' PROVE Unmigrated(i)'
    <3>1. Unmigrated(i) /\ i \in used
      BY <1>1, <1>2 DEF UntilMigrated
    <3> QED
      BY <1>1, <1>2, <1>6, <3>1, RequestIs DEF Unmigrated
  <2> QED
    BY <1>1, <1>4, <1>6, <2>1, <2>2 DEF UntilMigrated
<1>7. ASSUME NEW c \in Callers, StoreStep(c) PROVE LegacyInv'
  <2>1. faults' >= faults /\ faults' \in Nat /\ faults \in Nat /\ before \in Nat /\ before <= faults
    BY <1>2, <1>7, StepIs, CoreParts
  <2>2. ASSUME NEW i \in LegacyIds \ settled
        PROVE  /\ Unmigrated(i)'
               /\ faults' = faults /\ phase = "migrate" /\ Covered(i) => Covered(i)'
    <3>1. Unmigrated(i) /\ i \in used
      BY <1>2 DEF UntilMigrated
    <3>2. CASE op[c].id = i
      BY <1>1, <1>2, <1>7, <3>1, <3>2, OwnStepKeeps
    <3>3. CASE op[c].id # i
      <4>1. /\ rows'[i] = rows[i] /\ secrets'[i] = secrets[i] /\ acked'[i] = acked[i]
            /\ op'[c].id # i /\ \A d \in Callers : d # c => op'[d] = op[d]
        BY <1>2, <1>7, <3>1, <3>3, ElsewhereStays
      <4>2. Unmigrated(i)'
        BY <1>1, <3>1, <4>1 DEF Unmigrated
      <4>3. Covered(i) => Covered(i)'
        BY <1>1, <3>3, <4>1 DEF Covered
      <4> QED
        BY <4>2, <4>3
    <3> QED
      BY <3>2, <3>3
  <2> QED
    BY <1>1, <1>4, <2>1, <2>2 DEF UntilMigrated, AllCovered
<1> QED
  BY <1>5, <1>6, <1>7 DEF UseStore

\* Every step keeps the servers of the file.
LEMMA LegacyIsInductive == StartInv /\ [Next]_allVars => StartInv'
<1> SUFFICES ASSUME StartInv, [Next]_allVars PROVE StartInv'
  OBVIOUS
<1>1. CoreInv /\ CoreInv'
  BY CoreIsInductive DEF StartInv
<1>2. CASE ~HoldsServers'
  BY <1>1, <1>2 DEF StartInv, LegacyInv
<1>3. CASE HoldsServers'
  <2>1. HoldsServers /\ blob' = blob
    BY <1>1, <1>3, HoldersStay
  <2>2. /\ faults \in Nat /\ before \in Nat /\ phase \in Phases
        /\ \A f \in BOOLEAN : Fault(f) => faults' >= faults
    BY <1>1, CoreParts, FaultIs
  <2>3. CASE UNCHANGED allVars
    <3>1. UNCHANGED <<rows, secrets, acked, op, legacy, settled, phase, before, faults, key, ekey>>
      BY <2>3 DEF allVars, vars, startVars, disk, core, notes
    <3> QED
      BY <1>1, <2>1, <3>1 DEF StartInv, LegacyInv, UntilMigrated, Unmigrated, ListFits,
         NoneLeftBehind, AllCovered, Covered, Opens, HoldsServers
  <2>4. CASE Launch
    <3>1. phase = "down" /\ phase' = "legacy"
          /\ UNCHANGED <<rows, secrets, acked, op, legacy, settled>>
      BY <2>4 DEF Launch, vars, core
    <3> QED
      BY <1>1, <2>1, <3>1, WaitingKeeps DEF StartInv, Loaded
  <2>5. CASE Load
    <3>1. /\ phase = "load" /\ phase' \in {"down", "create", "db", "recover"}
          /\ UNCHANGED <<rows, secrets, acked, op, legacy, settled, before, ekey>>
          /\ faults' >= faults
      BY <2>2, <2>5 DEF Load, history, notes, Fail
    <3> QED
      BY <1>1, <2>1, <3>1, WaitingKeeps DEF StartInv, Loaded
  <2>6. CASE BackUp
    <3>1. /\ phase = "recover" /\ phase' = "reset"
          /\ UNCHANGED <<rows, secrets, acked, op, legacy, settled, before, ekey>>
          /\ faults' >= faults
      BY <2>2, <2>6 DEF BackUp, history, notes, core
    <3> QED
      BY <1>1, <2>1, <3>1, WaitingKeeps DEF StartInv, Loaded
  <2>7. CASE SaveDefaults
    <3>1. /\ phase \in {"create", "reset"} /\ phase' \in {"down", "db"}
          /\ UNCHANGED <<rows, secrets, acked, op, legacy, settled, before, ekey>>
          /\ faults' >= faults
      BY <2>2, <2>7 DEF SaveDefaults, history, core
    <3> QED
      BY <1>1, <2>1, <3>1, WaitingKeeps DEF StartInv, Loaded
  <2>8. CASE OpenDb
    <3>1. /\ phase = "db" /\ phase' \in {"down", "migrate"}
          /\ UNCHANGED <<rows, secrets, acked, op, legacy, settled, before, ekey>>
          /\ faults' >= faults
      BY <2>2, <2>8 DEF OpenDb, history, core, notes
    <3> QED
      BY <1>1, <2>1, <3>1, WaitingKeeps DEF StartInv, Loaded
  <2>9. CASE Damage
    <3>1. /\ phase = "down" /\ phase' = "down"
          /\ UNCHANGED <<rows, secrets, acked, op, legacy, settled>>
      BY <2>9 DEF Damage, vars, core
    <3> QED
      BY <1>1, <2>1, <3>1, WaitingKeeps DEF StartInv, Loaded
  <2>10. ASSUME NEW s \in Settings, UpdateSettings(s) PROVE LegacyInv'
    <3>1. /\ phase = "up" /\ phase' = phase
          /\ UNCHANGED <<rows, secrets, acked, op, legacy, settled, before, ekey>>
          /\ faults' >= faults
      BY <2>2, <2>10 DEF UpdateSettings, history
    <3> QED
      BY <1>1, <2>1, <3>1, WaitingKeeps DEF StartInv, Loaded
  <2>11. LegacyInv'
    BY <2>1, <2>3, <2>4, <2>5, <2>6, <2>7, <2>8, <2>9, <2>10, ListKeeps, EngineKeeps, DoneKeeps,
       DeathKeeps, HandOverKeeps, WorkKeeps DEF Next, StartInv
  <2> QED
    BY <1>1, <2>11 DEF StartInv
<1> QED
  BY <1>2, <1>3

\* Before the first launch the servers are as the old build left them.
LEMMA LegacyBegins == Init => StartInv
<1> SUFFICES ASSUME Init PROVE LegacyInv
  BY CoreBegins DEF StartInv
<1> SUFFICES ASSUME HoldsServers PROVE LegacyInv
  BY DEF LegacyInv
<1>1. \A i \in LegacyIds : HasLegacyCreds(secrets[i]) /\ rows[i] = None
  BY StartupAssumption DEF Init, HoldsServers, HasLegacyCreds
<1>2. \A c \in Callers : op[c].id = None
  BY DEF Init, Idle
<1>3. phase = "down" /\ legacy = {}
  BY DEF Init
<1>4. UntilMigrated
  BY <1>1, <1>2, <1>3, StartupAssumption, StoreAssumption DEF UntilMigrated, Unmigrated
<1> QED
  BY <1>3, <1>4 DEF LegacyInv, ListFits, NoneLeftBehind, Loaded

\* The file that holds the servers of the pre-migration build is replaced only
\* after each of them was created in the repository or another server was added
\* over its id, unless an access failed since the launch or the file cannot be
\* opened.
THEOREM LegacyServersSurvive == Spec => LegacyIsNotLost
<1> DEFINE A == phase # "down" /\ Opens(ekey, blob) /\ blob.servers /\ blob' # blob =>
                  LegacyIds \subseteq settled \/ faults' > before
<1>1. Spec => []StartInv
  BY LegacyBegins, LegacyIsInductive, PTL DEF Spec
<1>2. ASSUME StartInv, [Next]_allVars PROVE [A]_allVars
  <2> SUFFICES ASSUME Next, phase # "down", Opens(ekey, blob), blob.servers, blob' # blob
               PROVE  LegacyIds \subseteq settled \/ faults' > before
    BY <1>2
  <2>0. HoldsServers /\ CoreInv /\ NoneLeftBehind
    BY <1>2, CoreParts, OpensIs DEF StartInv, LegacyInv, HoldsServers
  <2>1. ~Launch /\ ~LoadLegacyServers /\ ~ConfigNew /\ ~Load /\ ~OpenDb /\ ~Ready /\ ~Damage /\ ~Die
    BY DEF Launch, LoadLegacyServers, ConfigNew, Load, OpenDb, Ready, Damage, Die, disk
  <2>2. ~UseStore /\ ~(\E c \in Callers : Migrate(c))
    BY DEF UseStore, Migrate, disk
  <2>3. ~BackUp
    BY <2>0 DEF BackUp, CoreInv, PhaseFits
  <2>4. CASE SaveDefaults
    <3>1. faults > before
      <4>1. blob # None
        BY DEF Opens
      <4> QED
        BY <2>0, <2>4, <4>1 DEF SaveDefaults, CoreInv, PhaseFits
    <3> QED
      BY <2>0, <2>4, <3>1, FaultIs DEF SaveDefaults
  <2>5. ASSUME NEW s \in Settings, UpdateSettings(s)
        PROVE  LegacyIds \subseteq settled \/ faults' > before
    <3>1. PICK f \in BOOLEAN : Fault(f)
      BY <2>5 DEF UpdateSettings
    <3>2. faults' >= faults /\ faults \in Nat /\ before \in 0 .. faults /\ faults' \in Nat
      BY <2>0, <3>1, FaultIs, CoreParts
    <3>3. CASE faults = before
      BY <2>0, <2>5, <3>3 DEF UpdateSettings, NoneLeftBehind
    <3>4. CASE faults # before
      BY <3>2, <3>4
    <3> QED
      BY <3>3, <3>4
  <2> QED
    BY <2>1, <2>2, <2>3, <2>4, <2>5 DEF Next
<1> QED
  BY <1>1, <1>2, PTL DEF Spec, LegacyIsNotLost
=============================================================================
