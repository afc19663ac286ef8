---------------------------- MODULE ServerStore ----------------------------
(***************************************************************************)
(* Server profiles: the repository (core/store/server_repository.go), the  *)
(* Server Manager on top of it (core/server/manager.go) and the facade's   *)
(* guards (core/core.go).                                                  *)
(*                                                                         *)
(* A profile lives in two stores that no transaction spans: a SQLite row   *)
(* with the names of its credentials, and one secret-store entry for each  *)
(* credential.  Every access to either store is a step of its own, so that *)
(* an error or the death of the process can come between any two.          *)
(*                                                                         *)
(* A request runs to its end before the next one starts (both bridges hold *)
(* one mutex around Dispatch): Callers is a singleton for the program.     *)
(*                                                                         *)
(* Data: a body stands for the columns a user edits, tested for the        *)
(* latency columns, enabled for itself and for favorite, which is handled  *)
(* in the same way.  Timestamps and the redactor are left out.  The        *)
(* credentials of a profile are visited in any order.  A profile that      *)
(* Validate rejects changes nothing, so requests carry valid ones.         *)
(***************************************************************************)
EXTENDS Naturals, FiniteSets

CONSTANTS
    Ids,          \* server ids; one the core gives out was never used before
    Refs,         \* names of credentials (password, uuid, sshPrivateKey)
    Creds,        \* values of credentials
    Bodies,       \* the user's columns
    Locked,       \* bodies whose protocol requires a credential
    None,         \* no row, no value
    Callers,      \* who may have a request in progress
    MaxRequests,  \* bound: requests made
    MaxFaults,    \* bound: store accesses that fail
    MaxCrashes    \* bound: deaths of the process

Credentials == [Refs -> Creds \cup {None}]
Profiles == [body : Bodies, enabled : BOOLEAN, tested : BOOLEAN, cred : Credentials]
Rows     == [body : Bodies, enabled : BOOLEAN, tested : BOOLEAN, refs : SUBSET Refs]

ASSUME StoreAssumption ==
    /\ Locked \subseteq Bodies
    /\ None \notin Ids \cup Creds \cup Bodies \cup Profiles \cup Rows
    /\ {MaxRequests, MaxFaults, MaxCrashes} \subseteq Nat

Kinds == {"add", "update", "delete", "get", "toggle", "latency", "duplicate", "connect"}
Steps == {"idle", "getRow", "getSecrets", "dial", "select", "drop", "setSecrets",
          "upsert", "refs", "delRow", "delSecrets"}

Idle == [pc |-> "idle", kind |-> "get", id |-> None, p |-> None, todo |-> {}]

VARIABLES
    rows,      \* the servers table
    secrets,   \* the secret store: [id][ref]
    op,        \* per caller: the request in progress
    session,   \* the profile the tunnel runs with, and its id
    used,      \* ids ever given to a server, by the core or by a caller
    requests, faults, crashes,
    acked,     \* history: per id, the profile the last acknowledged request left
    unsure,    \* history: ids whose last change failed or was cut short
    leaky      \* history: ids of which some change failed, was cut short, or
               \*   created a server over one that named more credentials

stores  == <<rows, secrets>>
history == <<acked, unsure, leaky>>
bounds  == <<requests, faults, crashes>>
vars    == <<rows, secrets, op, session, used, requests, faults, crashes,
             acked, unsure, leaky>>

\* The state is made of profiles, rows and requests of these shapes.
TypeOK ==
    /\ rows \in [Ids -> Rows \cup {None}]
    /\ secrets \in [Ids -> Credentials]
    /\ op \in [Callers -> [pc : Steps, kind : Kinds, id : Ids \cup {None},
                           p : Profiles \cup {None}, todo : SUBSET Refs]]
    /\ session \in [id : Ids, body : Bodies] \cup {None}
    /\ used \subseteq Ids
    /\ requests \in 0 .. MaxRequests /\ faults \in 0 .. MaxFaults
    /\ crashes \in 0 .. MaxCrashes
    /\ acked \in [Ids -> Profiles \cup {None}]
    /\ unsure \subseteq leaky /\ leaky \subseteq used

StoreInit ==
    /\ rows = [i \in Ids |-> None]
    /\ secrets = [i \in Ids |-> [r \in Refs |-> None]]
    /\ op = [c \in Callers |-> Idle]
    /\ session = None /\ used = {}
    /\ requests = 0 /\ faults = 0 /\ crashes = 0
    /\ acked = [i \in Ids |-> None] /\ unsure = {} /\ leaky = {}

-----------------------------------------------------------------------------
SecretRefsFor(p) == {r \in Refs : p.cred[r] # None}

Validate(p) == p.body \in Locked => SecretRefsFor(p) # {}

\* Every credential that a row names is one of the profile.
Covers(p, row) == row # None => row.refs \subseteq SecretRefsFor(p)

RunningTo(i) == session # None /\ session.id = i

\* Mutant: the row is written and the credentials are not.
PersistRowOnly(o) == [o EXCEPT !.pc = "upsert", !.todo = {}]

\* Where a request goes on once it only has to set the credentials of its
\* profile and write the row.
PersistStep(o) ==
    LET refs == SecretRefsFor(o.p)
    IN  [o EXCEPT !.pc = IF refs = {} THEN "upsert" ELSE "setSecrets", !.todo = refs]

\* Mutant: an update leaves the credentials that the new profile lacks.
ReplaceKeepsStale(o, row) == PersistStep(o)

\* Where an update goes on once it has seen the row.
ReplaceStep(o, row) ==
    LET stale == row.refs \ SecretRefsFor(o.p)
    IN  IF stale = {} THEN PersistStep(o)
                      ELSE [o EXCEPT !.pc = "drop", !.todo = stale]

\* Update is given a profile that was read and changed.
UpdateStep(o) == IF Validate(o.p) THEN [o EXCEPT !.pc = "select"] ELSE Idle

Become(c, o) == op' = [op EXCEPT ![c] = o]

At(c, pc) == op[c].pc = pc

\* The request of caller c is answered: p is what id i holds now.
Acknowledge(i, p) ==
    /\ acked' = [acked EXCEPT ![i] = p]
    /\ unsure' = unsure \ {i}
    /\ UNCHANGED leaky

\* Some change of the servers in ids ended half-way.  A server nobody was
\* told about is not in doubt: it must not exist.
LeaveInDoubt(ids) ==
    /\ unsure' = unsure \cup {i \in ids : acked[i] # None}
    /\ leaky' = leaky \cup ids
    /\ UNCHANGED acked

-----------------------------------------------------------------------------
(* Requests *)

Ask(c, kind, i, p, pc) ==
    /\ At(c, "idle") /\ requests < MaxRequests
    /\ requests' = requests + 1
    /\ Become(c, [pc |-> pc, kind |-> kind, id |-> i, p |-> p, todo |-> {}])

\* AddServer, and each profile of ImportServers.  Create gives a profile
\* without an id a fresh one and keeps the id a caller supplies, which may be
\* that of a stored server, of a deleted one or of the one in use: nothing
\* asks, and persist then writes over it.
AddServer(c, i, p) ==
    /\ Validate(p)
    /\ At(c, "idle") /\ requests < MaxRequests
    /\ requests' = requests + 1
    /\ used' = used \cup {i}
    /\ Become(c, PersistStep([pc |-> "idle", kind |-> "add", id |-> i, p |-> p, todo |-> {}]))
    /\ UNCHANGED <<stores, session, faults, crashes, history>>

UpdateServer(c, i, p) ==
    /\ i \in used /\ Validate(p) /\ ~RunningTo(i)
    /\ Ask(c, "update", i, p, "select")
    /\ UNCHANGED <<stores, session, used, faults, crashes, history>>

DeleteServer(c, i) ==
    /\ i \in used /\ ~RunningTo(i)
    /\ Ask(c, "delete", i, None, "refs")
    /\ UNCHANGED <<stores, session, used, faults, crashes, history>>

\* GetServer, SetEnabled and SetFavorite, TestLatency, Duplicate and the
\* resolving of a profile by Connect all begin with a Get.
ReadServer(c, i, kind) ==
    /\ i \in used
    /\ Ask(c, kind, i, None, "getRow")
    /\ UNCHANGED <<stores, session, used, faults, crashes, history>>

-----------------------------------------------------------------------------
(* Get *)

\* Mutant: Get does not restore the credentials.
GetRowOnly(c) ==
    LET row == rows[op[c].id]
    IN  /\ At(c, "getRow")
        /\ Become(c, IF row = None THEN Idle
                     ELSE [op[c] EXCEPT !.pc = "getSecrets",
                             !.p = [body |-> row.body, enabled |-> row.enabled,
                                    tested |-> row.tested, cred |-> [r \in Refs |-> None]]])
        /\ UNCHANGED <<stores, session, used, bounds, history>>

GetRow(c) ==
    LET row == rows[op[c].id]
    IN  /\ At(c, "getRow")
        /\ Become(c, IF row = None THEN Idle
                     ELSE [op[c] EXCEPT !.pc = "getSecrets", !.todo = row.refs,
                             !.p = [body |-> row.body, enabled |-> row.enabled,
                                    tested |-> row.tested, cred |-> [r \in Refs |-> None]]])
        /\ UNCHANGED <<stores, session, used, bounds, history>>

\* A missing secret is skipped.
GetSecret(c) ==
    /\ At(c, "getSecrets")
    /\ \E r \in op[c].todo :
          Become(c, [op[c] EXCEPT !.p.cred[r] = secrets[op[c].id][r], !.todo = @ \ {r}])
    /\ UNCHANGED <<stores, session, used, bounds, history>>

\* The profile is read; what the request does with it.
GotProfile(c) ==
    LET o == op[c]
    IN  /\ At(c, "getSecrets") /\ o.todo = {}
        /\ \/ o.kind = "get" /\ Become(c, Idle) /\ UNCHANGED <<session, used>>
           \/ /\ o.kind = "toggle"
              /\ Become(c, UpdateStep([o EXCEPT !.p.enabled = ~@]))
              /\ UNCHANGED <<session, used>>
           \/ o.kind = "latency" /\ Become(c, [o EXCEPT !.pc = "dial"]) /\ UNCHANGED <<session, used>>
           \/ /\ o.kind = "connect"
              /\ Become(c, Idle)
              /\ session' = IF o.p.enabled /\ session = None
                            THEN [id |-> o.id, body |-> o.p.body] ELSE session
              /\ UNCHANGED used
           \/ o.kind = "duplicate" /\ ~Validate(o.p) /\ Become(c, Idle) /\ UNCHANGED <<session, used>>
           \/ /\ o.kind = "duplicate" /\ Validate(o.p)
              /\ \E i \in Ids \ used :
                    /\ used' = used \cup {i}
                    /\ Become(c, PersistStep([o EXCEPT !.id = i, !.p.tested = FALSE]))
              /\ UNCHANGED session
        /\ UNCHANGED <<stores, bounds, history>>

\* TestLatency dials the server, for up to ten seconds; a failed dial ends it.
Dial(c) ==
    /\ At(c, "dial")
    /\ \/ Become(c, Idle)
       \/ Become(c, UpdateStep([op[c] EXCEPT !.p.tested = TRUE]))
    /\ UNCHANGED <<stores, session, used, bounds, history>>

-----------------------------------------------------------------------------
(* Update and persist *)

Select(c) ==
    LET row == rows[op[c].id]
    IN  /\ At(c, "select")
        /\ Become(c, IF row = None THEN Idle ELSE ReplaceStep(op[c], row))
        /\ UNCHANGED <<stores, session, used, bounds, history>>

Dropped(o, r) == IF o.todo = {r} THEN PersistStep(o) ELSE [o EXCEPT !.todo = @ \ {r}]

Drop(c) ==
    /\ At(c, "drop")
    /\ \E r \in op[c].todo :
          /\ secrets' = [secrets EXCEPT ![op[c].id][r] = None]
          /\ Become(c, Dropped(op[c], r))
    /\ UNCHANGED <<rows, session, used, bounds, history>>

SetSecret(c) ==
    LET o == op[c]
    IN  /\ At(c, "setSecrets")
        /\ \E r \in o.todo :
              /\ secrets' = [secrets EXCEPT ![o.id][r] = o.p.cred[r]]
              /\ Become(c, [o EXCEPT !.todo = @ \ {r},
                                     !.pc = IF o.todo = {r} THEN "upsert" ELSE @])
        /\ UNCHANGED <<rows, session, used, bounds, history>>

\* The row is written without its credentials; UpdateServer of the facade
\* then reads the profile again for its answer.  Create, unlike Update, has
\* not looked at the row it replaces: the credentials that only the old row
\* named stay in the secret store.
Upsert(c) ==
    LET o == op[c]
    IN  /\ At(c, "upsert")
        /\ rows' = [rows EXCEPT ![o.id] = [body |-> o.p.body, enabled |-> o.p.enabled,
                                           tested |-> o.p.tested, refs |-> SecretRefsFor(o.p)]]
        /\ Become(c, IF o.kind = "update"
                     THEN [o EXCEPT !.pc = "getRow", !.kind = "get", !.p = None] ELSE Idle)
        /\ acked' = [acked EXCEPT ![o.id] = o.p]
        /\ unsure' = unsure \ {o.id}
        /\ leaky' = leaky \cup {i \in {o.id} : o.kind = "add" /\ ~Covers(o.p, rows[i])}
        /\ UNCHANGED <<secrets, session, used, bounds>>

-----------------------------------------------------------------------------
(* Delete *)

QuerySecretRefs(c) ==
    LET row == rows[op[c].id]
    IN  /\ At(c, "refs")
        /\ Become(c, IF row = None THEN Idle
                     ELSE [op[c] EXCEPT !.pc = "delRow", !.todo = row.refs])
        /\ UNCHANGED <<stores, session, used, bounds, history>>

DeleteRow(c) ==
    LET o == op[c]
    IN  /\ At(c, "delRow")
        /\ rows' = [rows EXCEPT ![o.id] = None]
        /\ IF rows[o.id] # None /\ o.todo # {}
           THEN Become(c, [o EXCEPT !.pc = "delSecrets"]) /\ UNCHANGED history
           ELSE /\ Become(c, Idle)
                /\ IF rows[o.id] # None THEN Acknowledge(o.id, None) ELSE UNCHANGED history
        /\ UNCHANGED <<secrets, session, used, bounds>>

\* The credentials go one by one; the last one answers the request.
Deleted(c, r) ==
    LET o == op[c]
    IN  IF o.todo = {r} THEN Become(c, Idle) ELSE Become(c, [o EXCEPT !.todo = @ \ {r}])

DeleteSecret(c) ==
    LET o == op[c]
    IN  /\ At(c, "delSecrets")
        /\ \E r \in o.todo :
              /\ secrets' = [secrets EXCEPT ![o.id][r] = None]
              /\ Deleted(c, r)
              /\ IF o.todo = {r} THEN Acknowledge(o.id, None) ELSE UNCHANGED history
        /\ UNCHANGED <<rows, session, used, bounds>>

-----------------------------------------------------------------------------
(* What goes wrong *)

\* In these steps a request has changed, or may have changed, a store.
Writing == {"drop", "setSecrets", "upsert", "delSecrets"}

\* An access to a store fails and the request returns the error.
AccessFails(c) ==
    /\ op[c].pc \in {"getRow", "getSecrets", "select", "setSecrets", "upsert", "refs", "delRow"}
    /\ op[c].pc = "getSecrets" => op[c].todo # {}
    /\ faults < MaxFaults /\ faults' = faults + 1
    /\ Become(c, Idle)
    /\ IF op[c].pc \in Writing THEN LeaveInDoubt({op[c].id}) ELSE UNCHANGED history
    /\ UNCHANGED <<stores, session, used, requests, crashes>>

\* The deletion of a secret fails, which nobody looks at.
DropFails(c) ==
    LET o == op[c]
    IN  /\ o.pc \in {"drop", "delSecrets"}
        /\ faults < MaxFaults /\ faults' = faults + 1
        /\ leaky' = leaky \cup {o.id}
        /\ \E r \in o.todo :
              IF At(c, "drop")
              THEN Become(c, Dropped(o, r)) /\ UNCHANGED <<acked, unsure>>
              ELSE /\ Deleted(c, r)
                   /\ IF o.todo = {r}
                      THEN acked' = [acked EXCEPT ![o.id] = None] /\ unsure' = unsure \ {o.id}
                      ELSE UNCHANGED <<acked, unsure>>
        /\ UNCHANGED <<stores, session, used, requests, crashes>>

\* The process dies; both stores stay as they are.
StoreCrash ==
    /\ op' = [c \in Callers |-> Idle]
    /\ session' = None
    /\ LeaveInDoubt({op[c].id : c \in {d \in Callers : op[d].pc \in Writing}})
    /\ UNCHANGED <<stores, used>>

Crash ==
    /\ crashes < MaxCrashes /\ crashes' = crashes + 1
    /\ StoreCrash
    /\ UNCHANGED <<requests, faults>>

\* The session ends (see VpnService).
EndSession ==
    /\ session # None /\ session' = None
    /\ UNCHANGED <<stores, op, used, bounds, history>>

\* The request in progress goes on, or fails.
StoreStep(c) ==
    \/ GetRow(c) \/ GetSecret(c) \/ GotProfile(c) \/ Dial(c)
    \/ Select(c) \/ Drop(c) \/ SetSecret(c) \/ Upsert(c)
    \/ QuerySecretRefs(c) \/ DeleteRow(c) \/ DeleteSecret(c)
    \/ AccessFails(c) \/ DropFails(c)

Request(c) ==
    \/ \E i \in Ids, p \in Profiles :
          \/ p.enabled /\ ~p.tested /\ AddServer(c, i, p)
          \/ ~p.tested /\ UpdateServer(c, i, p)
    \/ \E i \in Ids :
          \/ DeleteServer(c, i)
          \/ \E k \in {"get", "toggle", "latency", "duplicate", "connect"} : ReadServer(c, i, k)

StoreNext == Crash \/ EndSession \/ \E c \in Callers : Request(c) \/ StoreStep(c)

StoreSpec == StoreInit /\ [][StoreNext]_vars

-----------------------------------------------------------------------------
(* Properties *)

\* What a Get of server i returns.
Stored(i) ==
    IF rows[i] = None THEN None
    ELSE [body |-> rows[i].body, enabled |-> rows[i].enabled, tested |-> rows[i].tested,
          cred |-> [r \in Refs |-> IF r \in rows[i].refs THEN secrets[i][r] ELSE None]]

Busy(i) == \E c \in Callers : op[c].id = i

\* What a request acknowledged is what a Get returns from then on, whatever
\* fails or dies later on other servers, and also when earlier changes of this
\* server failed half-way: the columns of the row and the credentials of the
\* secret store fit together again.  A creation that fails or is cut short
\* leaves no server behind, because persist writes the row last.
AckedReadsBack ==
    \A i \in Ids : ~Busy(i) /\ i \notin unsure => Stored(i) = acked[i]

\* The stores have their shapes, and what was acknowledged reads back.
StoreInv == TypeOK /\ AckedReadsBack

\* No credential outlives the profile that named it: a secret that no row
\* names belongs to a request in progress, or to a server of which a change
\* failed or was cut short, or which was added over an existing one.  Update
\* drops what the new profile lacks, Delete drops everything.
SecretsAreOwned ==
    \A i \in Ids, r \in Refs :
        secrets[i][r] # None /\ (rows[i] = None \/ r \notin rows[i].refs) =>
            Busy(i) \/ i \in leaky

\* A latency test, and a toggle of one flag, read the whole profile and write
\* all of it back in up to a dozen accesses.  At every one of them, failed
\* ones and a death included, what a Get returns stays as it is but for their
\* own column: no step costs the server a credential, not even for a while.
OnlyItsColumn ==
    [][\A c \in Callers, i \in Ids :
          op[c].id = i /\ op[c].pc # "idle" /\ Stored(i)' # Stored(i) =>
              /\ op[c].kind = "latency" => Stored(i)' = [Stored(i) EXCEPT !.tested = TRUE]
              /\ op[c].kind = "toggle"  => Stored(i)' = [Stored(i) EXCEPT !.enabled = ~@]]_vars

=============================================================================
