------------------------- MODULE ServerStoreProof -------------------------
(***************************************************************************)
(* Proofs about the server profiles, for any sets of ids, credentials and  *)
(* columns and any number of requests, faults and deaths of the process.   *)
(*                                                                         *)
(* The shapes of the state hold for any number of callers.  What the       *)
(* stores promise holds for the program's one caller at a time: two        *)
(* requests on one server would interleave their writes.                   *)
(***************************************************************************)
EXTENDS ServerStore, TLAPS

Ops == [pc : Steps, kind : Kinds, id : Ids \cup {None},
        p : Profiles \cup {None}, todo : SUBSET Refs]

\* In these steps a request holds a profile.
Holding == {"getSecrets", "dial", "select", "drop", "setSecrets", "upsert"}

\* What a request in progress is made of, given the ids in use.
OpShape(o, ids) ==
    /\ o.pc = "idle" => o.id = None
    /\ o.pc # "idle" => o.id \in ids
    /\ o.pc \in Holding => o.p \in Profiles
    /\ o.pc \in {"getRow", "getSecrets"} => o.kind \notin {"add", "update", "delete"}
    /\ o.pc = "dial" => o.kind = "latency"
    /\ o.pc \in {"select", "drop"} => o.kind \in {"update", "toggle", "latency"}
    /\ o.pc \in {"setSecrets", "upsert"} => o.kind \notin {"get", "delete", "connect"}
    /\ o.pc \in {"refs", "delRow", "delSecrets"} => o.kind = "delete"
    /\ o.pc = "drop" => o.todo \cap SecretRefsFor(o.p) = {}
    /\ o.pc = "setSecrets" => o.todo \subseteq SecretRefsFor(o.p)
    /\ o.pc = "upsert" => o.todo = {}

\* The types, and the shape of every request.
TypeInv == TypeOK /\ \A c \in Callers : OpShape(op[c], used)

-----------------------------------------------------------------------------
(* Shapes.                                                                 *)

\* The idle request is well formed.
LEMMA IdleShape ==
  ASSUME NEW ids PROVE Idle \in Ops /\ OpShape(Idle, ids) /\ Idle.pc = "idle"
BY DEF Idle, Ops, OpShape, Steps, Kinds, Holding

\* Setting credentials and writing the row go on from any request that holds
\* a profile.
LEMMA PersistShape ==
  ASSUME NEW ids, NEW o \in Ops, o.p \in Profiles, o.id \in ids,
         o.kind \notin {"get", "delete", "connect"}
  PROVE  /\ PersistStep(o) \in Ops /\ OpShape(PersistStep(o), ids)
         /\ PersistStep(o).pc \in {"setSecrets", "upsert"}
         /\ PersistStep(o).id = o.id /\ PersistStep(o).p = o.p
         /\ PersistStep(o).kind = o.kind
         /\ PersistStep(o).todo = SecretRefsFor(o.p)
BY DEF Ops, OpShape, Steps, Kinds, Holding, PersistStep, SecretRefsFor

\* So does the replacing of a row.
LEMMA ReplaceShape ==
  ASSUME NEW ids, NEW o \in Ops, o.p \in Profiles, o.id \in ids, NEW row \in Rows,
         o.kind \in {"update", "toggle", "latency"}
  PROVE  /\ ReplaceStep(o, row) \in Ops /\ OpShape(ReplaceStep(o, row), ids)
         /\ ReplaceStep(o, row).pc \in {"drop", "setSecrets", "upsert"}
         /\ ReplaceStep(o, row).id = o.id /\ ReplaceStep(o, row).p = o.p
         /\ ReplaceStep(o, row).kind = o.kind
         /\ ReplaceStep(o, row).pc = "drop" =>
               ReplaceStep(o, row).todo = row.refs \ SecretRefsFor(o.p)
         /\ ReplaceStep(o, row).pc # "drop" =>
               /\ row.refs \subseteq SecretRefsFor(o.p)
               /\ ReplaceStep(o, row).todo = SecretRefsFor(o.p)
<1> DEFINE stale == row.refs \ SecretRefsFor(o.p)
<1>1. CASE stale = {}
  <2>1. ReplaceStep(o, row) = PersistStep(o)
    BY <1>1 DEF ReplaceStep
  <2> QED
    BY <1>1, <2>1, PersistShape
<1>2. CASE stale # {}
  <2>1. ReplaceStep(o, row) = [o EXCEPT !.pc = "drop", !.todo = stale]
    BY <1>2 DEF ReplaceStep
  <2> QED
    BY <2>1 DEF Ops, OpShape, Steps, Kinds, Holding, Rows
<1> QED
  BY <1>1, <1>2

\* An update of a profile that was read looks at the row, or is refused.
LEMMA UpdateShape ==
  ASSUME NEW ids, NEW o \in Ops, o.p \in Profiles, o.id \in ids,
         o.kind \in {"update", "toggle", "latency"}
  PROVE  /\ UpdateStep(o) \in Ops /\ OpShape(UpdateStep(o), ids)
         /\ \/ UpdateStep(o) = Idle
            \/ /\ UpdateStep(o).pc = "select" /\ UpdateStep(o).p = o.p
               /\ UpdateStep(o).id = o.id /\ UpdateStep(o).kind = o.kind
<1>1. CASE Validate(o.p)
  BY <1>1 DEF UpdateStep, Ops, OpShape, Steps, Kinds, Holding
<1>2. CASE ~Validate(o.p)
  BY <1>2, IdleShape DEF UpdateStep
<1> QED
  BY <1>1, <1>2

\* A dropped credential is off the list; the last one leads to persist.
LEMMA DroppedShape ==
  ASSUME NEW ids, NEW o \in Ops, OpShape(o, ids), o.pc = "drop", NEW r \in o.todo
  PROVE  /\ Dropped(o, r) \in Ops /\ OpShape(Dropped(o, r), ids)
         /\ Dropped(o, r).id = o.id /\ Dropped(o, r).p = o.p
         /\ Dropped(o, r).kind = o.kind
         /\ \/ Dropped(o, r).pc = "drop" /\ Dropped(o, r).todo = o.todo \ {r}
            \/ /\ o.todo = {r} /\ Dropped(o, r).pc \in {"setSecrets", "upsert"}
               /\ Dropped(o, r).todo = SecretRefsFor(o.p)
<1>0. o.p \in Profiles /\ o.id \in ids /\ o.kind \in {"update", "toggle", "latency"}
  BY DEF OpShape, Holding
<1>1. CASE o.todo = {r}
  BY <1>0, <1>1, PersistShape DEF Dropped
<1>2. CASE o.todo # {r}
  BY <1>0, <1>2 DEF Dropped, Ops, OpShape, Steps, Kinds, Holding
<1> QED
  BY <1>1, <1>2
-----------------------------------------------------------------------------
(* Types, for any number of callers.                                       *)

\* A request that moves on to a well-formed one keeps the shapes.
LEMMA BecomeKeeps ==
  ASSUME TypeInv, NEW c \in Callers, NEW o \in Ops, Become(c, o),
         used \subseteq used', OpShape(o, used')
  PROVE  /\ op' \in [Callers -> Ops] /\ op'[c] = o
         /\ \A d \in Callers : d # c => op'[d] = op[d]
         /\ \A d \in Callers : OpShape(op'[d], used')
<1>1. op \in [Callers -> Ops] /\ \A d \in Callers : OpShape(op[d], used)
  BY DEF TypeInv, TypeOK, Ops
<1>2. op' = [op EXCEPT ![c] = o]
  BY DEF Become
<1>3. op' \in [Callers -> Ops] /\ op'[c] = o /\ \A d \in Callers : d # c => op'[d] = op[d]
  BY <1>1, <1>2
<1>4. ASSUME NEW d \in Callers, d # c PROVE OpShape(op[d], used')
  BY <1>1, <1>4 DEF OpShape
<1> QED
  BY <1>3, <1>4

\* What a step that only advances a request has to show for the types.
LEMMA MovesKeepTypes ==
  ASSUME TypeInv, NEW c \in Callers, NEW o \in Ops, Become(c, o), OpShape(o, used'),
         used \subseteq used', used' \subseteq Ids,
         session' \in [id : Ids, body : Bodies] \cup {None},
         rows' \in [Ids -> Rows \cup {None}], secrets' \in [Ids -> Credentials],
         requests' \in 0 .. MaxRequests, faults' \in 0 .. MaxFaults,
         crashes' \in 0 .. MaxCrashes,
         acked' \in [Ids -> Profiles \cup {None}],
         unsure' \subseteq leaky', leaky' \subseteq used'
  PROVE  TypeInv'
<1>1. op' \in [Callers -> Ops] /\ \A d \in Callers : OpShape(op'[d], used')
  BY BecomeKeeps
<1>2. TypeOK'
  BY <1>1 DEF TypeOK, Ops
<1> QED
  BY <1>1, <1>2 DEF TypeInv

\* The parts of the type invariant a step of caller c looks at.
LEMMA TypesOf ==
  ASSUME TypeInv, NEW c \in Callers
  PROVE  /\ op[c] \in Ops /\ OpShape(op[c], used)
         /\ op[c].pc # "idle" => op[c].id \in used /\ op[c].id \in Ids
         /\ rows \in [Ids -> Rows \cup {None}] /\ secrets \in [Ids -> Credentials]
         /\ used \subseteq Ids /\ unsure \subseteq leaky /\ leaky \subseteq used
         /\ session \in [id : Ids, body : Bodies] \cup {None}
         /\ acked \in [Ids -> Profiles \cup {None}]
         /\ requests \in 0 .. MaxRequests /\ faults \in 0 .. MaxFaults
         /\ crashes \in 0 .. MaxCrashes
BY DEF TypeInv, TypeOK, Ops, OpShape

\* A profile as Get begins it is one.
LEMMA BareProfile ==
  ASSUME NEW row \in Rows
  PROVE  [body |-> row.body, enabled |-> row.enabled, tested |-> row.tested,
          cred |-> [r \in Refs |-> None]] \in Profiles
BY DEF Rows, Profiles, Credentials

\* Requests keep the types.
LEMMA RequestTypes ==
  ASSUME TypeInv, NEW c \in Callers, Request(c)
  PROVE  TypeInv'
<1>0. /\ MaxRequests \in Nat
      /\ op[c] \in Ops
  BY StoreAssumption, TypesOf
<1>1. ASSUME NEW i \in used, NEW p \in Profiles \cup {None}, NEW k \in Kinds, NEW s \in Steps,
             Ask(c, k, i, p, s), UNCHANGED <<stores, session, used, faults, crashes, history>>,
             OpShape([pc |-> s, kind |-> k, id |-> i, p |-> p, todo |-> {}], used)
      PROVE  TypeInv'
  <2> DEFINE o == [pc |-> s, kind |-> k, id |-> i, p |-> p, todo |-> {}]
  <2>1. o \in Ops /\ OpShape(o, used') /\ Become(c, o)
    BY <1>1, TypesOf DEF Ops, Ask
  <2>2. requests' \in 0 .. MaxRequests
    BY <1>0, <1>1, TypesOf DEF Ask
  <2>3. UNCHANGED <<rows, secrets, session, used, faults, crashes, acked, unsure, leaky>>
    BY <1>1 DEF stores, history
  <2> HIDE DEF o
  <2> QED
    BY <2>1, <2>2, <2>3, TypesOf, MovesKeepTypes
<1>2. ASSUME NEW i \in Ids, NEW p \in Profiles, AddServer(c, i, p)
      PROVE  TypeInv'
  <2> DEFINE o == [pc |-> "idle", kind |-> "add", id |-> i, p |-> p, todo |-> {}]
  <2>1. used' = used \cup {i} /\ Become(c, PersistStep(o))
    BY <1>2 DEF AddServer
  <2>2. o \in Ops /\ o.p \in Profiles /\ o.id \in used' /\ o.kind = "add"
    BY <1>2, <2>1 DEF Ops, Steps, Kinds
  <2> HIDE DEF o
  <2>3. PersistStep(o) \in Ops /\ OpShape(PersistStep(o), used')
    BY <2>2, PersistShape
  <2>4. requests' \in 0 .. MaxRequests
    BY <1>0, <1>2, TypesOf DEF AddServer
  <2>5. UNCHANGED <<rows, secrets, session, faults, crashes, acked, unsure, leaky>>
    BY <1>2 DEF AddServer, stores, history
  <2>6. used \subseteq used' /\ used' \subseteq Ids /\ leaky \subseteq used'
    BY <1>2, <2>1, TypesOf
  <2> QED
    BY <2>1, <2>3, <2>4, <2>5, <2>6, TypesOf, MovesKeepTypes
<1>3. ASSUME NEW i \in Ids, NEW p \in Profiles, UpdateServer(c, i, p)
      PROVE  TypeInv'
  <2>1. OpShape([pc |-> "select", kind |-> "update", id |-> i, p |-> p, todo |-> {}], used)
    BY <1>3 DEF OpShape, UpdateServer, Holding
  <2> QED
    BY <1>1, <1>3, <2>1 DEF UpdateServer, Steps, Kinds
<1>4. ASSUME NEW i \in Ids, DeleteServer(c, i)
      PROVE  TypeInv'
  <2>1. OpShape([pc |-> "refs", kind |-> "delete", id |-> i, p |-> None, todo |-> {}], used)
    BY <1>4 DEF OpShape, DeleteServer, Holding
  <2> QED
    BY <1>1, <1>4, <2>1 DEF DeleteServer, Steps, Kinds
<1>5. ASSUME NEW i \in Ids, NEW k \in {"get", "toggle", "latency", "duplicate", "connect"},
             ReadServer(c, i, k)
      PROVE  TypeInv'
  <2>1. OpShape([pc |-> "getRow", kind |-> k, id |-> i, p |-> None, todo |-> {}], used)
    BY <1>5 DEF OpShape, ReadServer, Holding
  <2> QED
    BY <1>1, <1>5, <2>1 DEF ReadServer, Steps, Kinds
<1> QED
  BY <1>2, <1>3, <1>4, <1>5 DEF Request
-----------------------------------------------------------------------------
(* What each step does to the request, as a well-formed successor.         *)

\* Caller c goes on with the well-formed request o.
Advances(c, o) == o \in Ops /\ OpShape(o, used') /\ Become(c, o)

\* The credential r of server i becomes v.
Put(i, r, v) == secrets' = [secrets EXCEPT ![i][r] = v]

\* Steps that touch neither store nor ids.
Quiet == UNCHANGED <<rows, secrets, session, used, requests, faults, crashes, acked, unsure, leaky>>

\* Get reads the row, or ends because there is none.
LEMMA GetRowStep ==
  ASSUME TypeInv, NEW c \in Callers, GetRow(c)
  PROVE  /\ Quiet /\ op[c].pc = "getRow"
         /\ \/ Advances(c, Idle)
            \/ \E o : /\ Advances(c, o) /\ rows[op[c].id] \in Rows
                      /\ o.pc = "getSecrets" /\ o.id = op[c].id /\ o.kind = op[c].kind
                      /\ o.todo = rows[op[c].id].refs
                      /\ o.p.body = rows[op[c].id].body /\ o.p.enabled = rows[op[c].id].enabled
                      /\ o.p.tested = rows[op[c].id].tested /\ o.p.cred = [r \in Refs |-> None]
<1> DEFINE row == rows[op[c].id]
           p   == [body |-> row.body, enabled |-> row.enabled,
                   tested |-> row.tested, cred |-> [r \in Refs |-> None]]
           o   == [op[c] EXCEPT !.pc = "getSecrets", !.todo = row.refs, !.p = p]
<1>1. Quiet /\ op[c].pc = "getRow"
  BY DEF GetRow, Quiet, At, stores, bounds, history
<1>2. op[c] \in Ops /\ OpShape(op[c], used) /\ op[c].id \in used /\ row \in Rows \cup {None}
  BY <1>1, TypesOf
<1>3. CASE row = None
  BY <1>1, <1>3, IdleShape DEF GetRow, Advances, Quiet
<1>4. CASE row # None
  <2>1. row \in Rows /\ p \in Profiles
    BY <1>2, <1>4, BareProfile
  <2>2. Become(c, o)
    BY <1>4 DEF GetRow
  <2>3. op[c].kind \notin {"add", "update", "delete"}
    BY <1>1, <1>2 DEF OpShape
  <2> HIDE DEF p
  <2>4. o \in Ops /\ o.pc = "getSecrets" /\ o.id = op[c].id /\ o.kind = op[c].kind
        /\ o.todo = row.refs /\ o.p = p
    BY <1>2, <2>1 DEF Ops, Steps, Rows
  <2>5. OpShape(o, used)
    BY <1>2, <2>1, <2>3, <2>4 DEF OpShape, Holding
  <2>6. p.body = row.body /\ p.enabled = row.enabled /\ p.tested = row.tested
        /\ p.cred = [r \in Refs |-> None]
    BY DEF p
  <2> HIDE DEF o
  <2>7. Advances(c, o)
    BY <1>1, <2>2, <2>4, <2>5 DEF Advances, Quiet
  <2> QED
    BY <1>1, <2>1, <2>4, <2>6, <2>7
<1> QED
  BY <1>3, <1>4

\* Get reads one credential.
LEMMA GetSecretStep ==
  ASSUME TypeInv, NEW c \in Callers, GetSecret(c)
  PROVE  /\ Quiet /\ op[c].pc = "getSecrets"
         /\ \E o, r : /\ Advances(c, o) /\ r \in op[c].todo
                      /\ o.pc = "getSecrets" /\ o.id = op[c].id /\ o.kind = op[c].kind
                      /\ o.todo = op[c].todo \ {r}
                      /\ o.p = [op[c].p EXCEPT !.cred[r] = secrets[op[c].id][r]]
<1>1. Quiet /\ op[c].pc = "getSecrets"
  BY DEF GetSecret, Quiet, At, stores, bounds, history
<1>2. /\ op[c] \in Ops /\ OpShape(op[c], used) /\ op[c].id \in Ids /\ op[c].id \in used
      /\ op[c].p \in Profiles /\ op[c].todo \in SUBSET Refs
  BY <1>1, TypesOf DEF OpShape, Holding, Ops
<1>3. PICK r \in op[c].todo :
        Become(c, [op[c] EXCEPT !.p.cred[r] = secrets[op[c].id][r], !.todo = @ \ {r}])
  BY DEF GetSecret
<1> DEFINE p == [op[c].p EXCEPT !.cred[r] = secrets[op[c].id][r]]
           o == [op[c] EXCEPT !.p.cred[r] = secrets[op[c].id][r], !.todo = @ \ {r}]
<1>4. p \in Profiles
  <2>1. secrets[op[c].id][r] \in Creds \cup {None}
    BY <1>2, TypesOf DEF Credentials
  <2>2. [op[c].p.cred EXCEPT ![r] = secrets[op[c].id][r]] \in Credentials
    BY <1>2, <2>1 DEF Credentials, Profiles
  <2> QED
    BY <1>2, <2>2 DEF Profiles
<1>5. o.p = p /\ o.pc = "getSecrets" /\ o.id = op[c].id /\ o.kind = op[c].kind
      /\ o.todo = op[c].todo \ {r}
  BY <1>1, <1>2 DEF Ops
<1>6. o \in Ops
  <2>1. o = [op[c] EXCEPT !.p = p, !.todo = op[c].todo \ {r}]
    BY <1>2 DEF Ops
  <2> HIDE DEF o, p
  <2> QED
    BY <1>2, <1>4, <2>1 DEF Ops
<1> HIDE DEF o, p
<1>7. OpShape(o, used)
  BY <1>1, <1>2, <1>4, <1>5 DEF OpShape, Holding
<1>8. Advances(c, o)
  BY <1>1, <1>3, <1>6, <1>7 DEF Advances, Quiet, o
<1> QED
  BY <1>1, <1>3, <1>5, <1>8 DEF p

\* What each kind of request does with the profile it read.
LEMMA GotProfileStep ==
  ASSUME TypeInv, NEW c \in Callers, GotProfile(c)
  PROVE  /\ UNCHANGED <<rows, secrets, requests, faults, crashes, acked, unsure, leaky>>
         /\ op[c].pc = "getSecrets" /\ op[c].todo = {} /\ op[c].p \in Profiles
         /\ \/ Advances(c, Idle) /\ UNCHANGED <<session, used>>
            \/ /\ Advances(c, Idle) /\ UNCHANGED used
               /\ session' = [id |-> op[c].id, body |-> op[c].p.body]
            \/ /\ op[c].kind = "toggle" /\ UNCHANGED <<session, used>>
               /\ \E o : /\ Advances(c, o) /\ o.kind = "toggle" /\ o.pc = "select"
                         /\ o.id = op[c].id /\ o.p = [op[c].p EXCEPT !.enabled = ~@]
            \/ /\ op[c].kind = "latency" /\ UNCHANGED <<session, used>>
               /\ \E o : /\ Advances(c, o) /\ o.kind = "latency" /\ o.pc = "dial"
                         /\ o.id = op[c].id /\ o.p = op[c].p
            \/ /\ op[c].kind = "duplicate" /\ UNCHANGED session
               /\ \E o, i : /\ i \in Ids \ used /\ used' = used \cup {i}
                            /\ Advances(c, o) /\ o.id = i /\ o.kind = "duplicate"
                            /\ o.pc \in {"setSecrets", "upsert"}
                            /\ o.todo = SecretRefsFor(o.p)
<1> DEFINE q == op[c]
<1>1. /\ UNCHANGED <<rows, secrets, requests, faults, crashes, acked, unsure, leaky>>
      /\ q.pc = "getSecrets" /\ q.todo = {}
  BY DEF GotProfile, At, stores, bounds, history
<1>2. q \in Ops /\ OpShape(q, used) /\ q.id \in Ids /\ q.id \in used /\ q.p \in Profiles
  BY <1>1, TypesOf DEF OpShape, Holding
<1>3. CASE Become(c, Idle) /\ UNCHANGED used
           /\ (UNCHANGED session \/ session' = [id |-> q.id, body |-> q.p.body])
  BY <1>1, <1>2, <1>3, IdleShape DEF Advances
<1>4. CASE q.kind = "toggle" /\ Become(c, UpdateStep([q EXCEPT !.p.enabled = ~@]))
           /\ UNCHANGED <<session, used>>
  <2> DEFINE o == [q EXCEPT !.p.enabled = ~@]
  <2>1. o.p = [q.p EXCEPT !.enabled = ~@] /\ o.kind = q.kind /\ o.id = q.id
    BY <1>2 DEF Ops
  <2>2. o.p \in Profiles
    BY <1>2, <2>1 DEF Profiles
  <2>3. o \in Ops
    BY <1>2, <2>1, <2>2 DEF Ops
  <2> HIDE DEF o
  <2>4. /\ UpdateStep(o) \in Ops /\ OpShape(UpdateStep(o), used)
        /\ \/ UpdateStep(o) = Idle
           \/ /\ UpdateStep(o).pc = "select" /\ UpdateStep(o).p = o.p
              /\ UpdateStep(o).id = o.id /\ UpdateStep(o).kind = o.kind
    BY <1>2, <1>4, <2>1, <2>2, <2>3, UpdateShape
  <2>5. Advances(c, UpdateStep(o))
    BY <1>4, <2>4 DEF Advances, o
  <2> QED
    BY <1>1, <1>2, <1>4, <2>1, <2>4, <2>5
<1>5. CASE q.kind = "latency" /\ Become(c, [q EXCEPT !.pc = "dial"]) /\ UNCHANGED <<session, used>>
  <2> DEFINE o == [q EXCEPT !.pc = "dial"]
  <2>1. o \in Ops /\ o.pc = "dial" /\ o.p = q.p /\ o.kind = q.kind /\ o.id = q.id
    BY <1>2 DEF Ops, Steps
  <2> HIDE DEF o
  <2>2. OpShape(o, used)
    BY <1>2, <1>5, <2>1 DEF OpShape, Holding
  <2>3. Advances(c, o)
    BY <1>5, <2>1, <2>2 DEF Advances, o
  <2> QED
    BY <1>1, <1>2, <1>5, <2>1, <2>3
<1>6. ASSUME NEW i \in Ids \ used, q.kind = "duplicate", used' = used \cup {i}, UNCHANGED session,
             Become(c, PersistStep([q EXCEPT !.id = i, !.p.tested = FALSE]))
      PROVE  \E o : /\ Advances(c, o) /\ o.id = i /\ o.kind = "duplicate"
                    /\ o.pc \in {"setSecrets", "upsert"} /\ o.todo = SecretRefsFor(o.p)
  <2> DEFINE o == [q EXCEPT !.id = i, !.p.tested = FALSE]
  <2>1. o.p = [q.p EXCEPT !.tested = FALSE] /\ o.kind = q.kind /\ o.id = i
    BY <1>2 DEF Ops
  <2>2. o.p \in Profiles
    <3>1. [q.p EXCEPT !.tested = FALSE] \in Profiles
      BY <1>2 DEF Profiles
    <3> QED
      BY <2>1, <3>1
  <2>3. o \in Ops
    BY <1>2, <2>1, <2>2 DEF Ops
  <2> HIDE DEF o
  <2>4. /\ PersistStep(o) \in Ops /\ OpShape(PersistStep(o), used')
        /\ PersistStep(o).pc \in {"setSecrets", "upsert"}
        /\ PersistStep(o).id = o.id /\ PersistStep(o).p = o.p
        /\ PersistStep(o).kind = o.kind
        /\ PersistStep(o).todo = SecretRefsFor(o.p)
    BY <1>6, <2>1, <2>2, <2>3, PersistShape
  <2>5. Advances(c, PersistStep(o))
    BY <1>6, <2>4 DEF Advances, o
  <2> QED
    BY <1>6, <2>1, <2>4, <2>5
<1>7. \/ Become(c, Idle) /\ UNCHANGED used
         /\ (UNCHANGED session \/ session' = [id |-> q.id, body |-> q.p.body])
      \/ q.kind = "toggle" /\ Become(c, UpdateStep([q EXCEPT !.p.enabled = ~@]))
         /\ UNCHANGED <<session, used>>
      \/ q.kind = "latency" /\ Become(c, [q EXCEPT !.pc = "dial"]) /\ UNCHANGED <<session, used>>
      \/ /\ q.kind = "duplicate" /\ UNCHANGED session
         /\ \E i \in Ids \ used :
              /\ used' = used \cup {i}
              /\ Become(c, PersistStep([q EXCEPT !.id = i, !.p.tested = FALSE]))
  BY DEF GotProfile
<1> QED
  <2>1. CASE /\ q.kind = "duplicate" /\ UNCHANGED session
             /\ \E i \in Ids \ used :
                  /\ used' = used \cup {i}
                  /\ Become(c, PersistStep([q EXCEPT !.id = i, !.p.tested = FALSE]))
    BY <1>1, <1>2, <1>6, <2>1
  <2> QED
    BY <1>3, <1>4, <1>5, <1>7, <2>1

\* A dial fails, or leads to an update that sets the latency columns.
LEMMA DialStep ==
  ASSUME TypeInv, NEW c \in Callers, Dial(c)
  PROVE  /\ Quiet /\ op[c].pc = "dial" /\ op[c].kind = "latency" /\ op[c].p \in Profiles
         /\ \/ Advances(c, Idle)
            \/ \E o : /\ Advances(c, o) /\ o.kind = "latency" /\ o.pc = "select"
                      /\ o.id = op[c].id /\ o.p = [op[c].p EXCEPT !.tested = TRUE]
<1> DEFINE q == op[c]
           o == [q EXCEPT !.p.tested = TRUE]
<1>1. Quiet /\ q.pc = "dial"
  BY DEF Dial, Quiet, At, stores, bounds, history
<1>2. q \in Ops /\ OpShape(q, used) /\ q.id \in used /\ q.p \in Profiles /\ q.kind = "latency"
  BY <1>1, TypesOf DEF OpShape, Holding
<1>3. CASE Become(c, Idle)
  BY <1>1, <1>2, <1>3, IdleShape DEF Advances
<1>4. CASE Become(c, UpdateStep(o))
  <2>1. o.p = [q.p EXCEPT !.tested = TRUE] /\ o.kind = q.kind /\ o.id = q.id
    BY <1>2 DEF Ops
  <2>2. o.p \in Profiles
    BY <1>2, <2>1 DEF Profiles
  <2>3. o \in Ops
    BY <1>2, <2>1, <2>2 DEF Ops
  <2> HIDE DEF o
  <2>4. /\ UpdateStep(o) \in Ops /\ OpShape(UpdateStep(o), used)
        /\ \/ UpdateStep(o) = Idle
           \/ /\ UpdateStep(o).pc = "select" /\ UpdateStep(o).p = o.p
              /\ UpdateStep(o).id = o.id /\ UpdateStep(o).kind = o.kind
    BY <1>2, <2>1, <2>2, <2>3, UpdateShape
  <2>5. Advances(c, UpdateStep(o))
    BY <1>1, <1>4, <2>4 DEF Advances, Quiet
  <2> QED
    BY <1>1, <1>2, <2>1, <2>4, <2>5
<1> QED
  BY <1>3, <1>4 DEF Dial

\* An update looks at the row it replaces, and ends when there is none.
LEMMA SelectStep ==
  ASSUME TypeInv, NEW c \in Callers, Select(c)
  PROVE  /\ Quiet /\ op[c].pc = "select"
         /\ \/ Advances(c, Idle)
            \/ \E o : /\ Advances(c, o) /\ rows[op[c].id] \in Rows
                      /\ o.kind = op[c].kind /\ o.id = op[c].id /\ o.p = op[c].p
                      /\ \/ /\ o.pc = "drop"
                            /\ o.todo = rows[op[c].id].refs \ SecretRefsFor(o.p)
                         \/ /\ o.pc \in {"setSecrets", "upsert"}
                            /\ o.todo = SecretRefsFor(o.p)
                            /\ rows[op[c].id].refs \subseteq SecretRefsFor(o.p)
<1> DEFINE q   == op[c]
           row == rows[q.id]
<1>1. Quiet /\ q.pc = "select"
  BY DEF Select, Quiet, At, stores, bounds, history
<1>2. /\ q \in Ops /\ OpShape(q, used) /\ q.id \in used /\ q.p \in Profiles
      /\ q.kind \in {"update", "toggle", "latency"} /\ row \in Rows \cup {None}
  BY <1>1, TypesOf DEF OpShape, Holding
<1>3. CASE row = None
  BY <1>1, <1>3, IdleShape DEF Select, Advances, Quiet
<1>4. CASE row # None
  <2>1. row \in Rows /\ Become(c, ReplaceStep(q, row))
    BY <1>2, <1>4 DEF Select
  <2> DEFINE o == ReplaceStep(q, row)
  <2>2. /\ o \in Ops /\ OpShape(o, used)
        /\ o.pc \in {"drop", "setSecrets", "upsert"}
        /\ o.id = q.id /\ o.p = q.p /\ o.kind = q.kind
        /\ o.pc = "drop" => o.todo = row.refs \ SecretRefsFor(q.p)
        /\ o.pc # "drop" => row.refs \subseteq SecretRefsFor(q.p) /\ o.todo = SecretRefsFor(q.p)
    BY <1>2, <2>1, ReplaceShape
  <2>3. Advances(c, o)
    BY <1>1, <2>1, <2>2 DEF Advances, Quiet
  <2> HIDE DEF o
  <2> QED
    BY <1>1, <2>1, <2>2, <2>3
<1> QED
  BY <1>3, <1>4

\* A stale credential is deleted.
LEMMA DropStep ==
  ASSUME TypeInv, NEW c \in Callers, Drop(c)
  PROVE  /\ UNCHANGED <<rows, session, used, requests, faults, crashes, acked, unsure, leaky>>
         /\ op[c].pc = "drop" /\ op[c].id \in used /\ op[c].p \in Profiles
         /\ \E o, r : /\ Advances(c, o) /\ r \in op[c].todo
                      /\ Put(op[c].id, r, None)
                      /\ o.id = op[c].id /\ o.p = op[c].p /\ o.kind = op[c].kind
                      /\ \/ o.pc = "drop" /\ o.todo = op[c].todo \ {r}
                         \/ /\ op[c].todo = {r} /\ o.pc \in {"setSecrets", "upsert"}
                            /\ o.todo = SecretRefsFor(o.p)
<1>1. /\ UNCHANGED <<rows, session, used, requests, faults, crashes, acked, unsure, leaky>>
      /\ op[c].pc = "drop"
  BY DEF Drop, At, bounds, history
<1>2. op[c] \in Ops /\ OpShape(op[c], used) /\ op[c].id \in used /\ op[c].p \in Profiles
  BY <1>1, TypesOf DEF OpShape, Holding
<1>3. PICK r \in op[c].todo : /\ Put(op[c].id, r, None)
                              /\ Become(c, Dropped(op[c], r))
  BY DEF Drop, Put
<1> DEFINE o == Dropped(op[c], r)
<1>4. /\ o \in Ops /\ OpShape(o, used) /\ o.id = op[c].id /\ o.p = op[c].p /\ o.kind = op[c].kind
      /\ \/ o.pc = "drop" /\ o.todo = op[c].todo \ {r}
         \/ /\ op[c].todo = {r} /\ o.pc \in {"setSecrets", "upsert"}
            /\ o.todo = SecretRefsFor(op[c].p)
  BY <1>1, <1>2, <1>3, DroppedShape
<1>5. Advances(c, o)
  BY <1>1, <1>3, <1>4 DEF Advances
<1> HIDE DEF o
<1> QED
  BY <1>1, <1>2, <1>3, <1>4, <1>5

\* One credential is stored.
LEMMA SetSecretStep ==
  ASSUME TypeInv, NEW c \in Callers, SetSecret(c)
  PROVE  /\ UNCHANGED <<rows, session, used, requests, faults, crashes, acked, unsure, leaky>>
         /\ op[c].pc = "setSecrets" /\ op[c].id \in used /\ op[c].p \in Profiles
         /\ op[c].todo \subseteq SecretRefsFor(op[c].p)
         /\ \E o, r : /\ Advances(c, o) /\ r \in op[c].todo
                      /\ Put(op[c].id, r, op[c].p.cred[r])
                      /\ o.id = op[c].id /\ o.p = op[c].p /\ o.kind = op[c].kind
                      /\ o.pc \in {"setSecrets", "upsert"} /\ o.todo = op[c].todo \ {r}
<1> DEFINE q == op[c]
<1>1. /\ UNCHANGED <<rows, session, used, requests, faults, crashes, acked, unsure, leaky>>
      /\ q.pc = "setSecrets"
  BY DEF SetSecret, At, bounds, history
<1>2. /\ q \in Ops /\ OpShape(q, used) /\ q.id \in used /\ q.p \in Profiles
      /\ q.todo \subseteq SecretRefsFor(q.p)
  BY <1>1, TypesOf DEF OpShape, Holding
<1>3. PICK r \in q.todo :
        /\ Put(q.id, r, q.p.cred[r])
        /\ Become(c, [q EXCEPT !.todo = @ \ {r}, !.pc = IF q.todo = {r} THEN "upsert" ELSE @])
  BY DEF SetSecret, Put
<1> DEFINE o == [q EXCEPT !.todo = @ \ {r}, !.pc = IF q.todo = {r} THEN "upsert" ELSE @]
<1>4. /\ o \in Ops /\ o.id = q.id /\ o.p = q.p /\ o.kind = q.kind
      /\ o.pc = IF q.todo = {r} THEN "upsert" ELSE "setSecrets"
      /\ o.todo = q.todo \ {r}
  BY <1>1, <1>2 DEF Ops, Steps
<1> HIDE DEF o
<1>5. OpShape(o, used)
  BY <1>1, <1>2, <1>3, <1>4 DEF OpShape, Holding
<1>6. Advances(c, o)
  BY <1>1, <1>3, <1>4, <1>5 DEF Advances, o
<1> QED
  BY <1>1, <1>2, <1>3, <1>4, <1>6

\* The row is written and the request acknowledged.
LEMMA UpsertStep ==
  ASSUME TypeInv, NEW c \in Callers, Upsert(c)
  PROVE  LET row == [body |-> op[c].p.body, enabled |-> op[c].p.enabled,
                     tested |-> op[c].p.tested, refs |-> SecretRefsFor(op[c].p)]
         IN  /\ UNCHANGED <<secrets, session, used, requests, faults, crashes>>
             /\ leaky' = leaky \cup {i \in {op[c].id} : op[c].kind = "add" /\ ~Covers(op[c].p, rows[i])}
             /\ op[c].pc = "upsert" /\ op[c].todo = {} /\ op[c].id \in used
             /\ op[c].p \in Profiles /\ row \in Rows
             /\ rows' = [rows EXCEPT ![op[c].id] = row]
             /\ acked' = [acked EXCEPT ![op[c].id] = op[c].p]
             /\ unsure' = unsure \ {op[c].id}
             /\ \/ Advances(c, Idle)
                \/ \E o : Advances(c, o) /\ o.id = op[c].id /\ o.pc = "getRow" /\ o.kind = "get"
<1> DEFINE q   == op[c]
           row == [body |-> q.p.body, enabled |-> q.p.enabled,
                   tested |-> q.p.tested, refs |-> SecretRefsFor(q.p)]
           o   == [q EXCEPT !.pc = "getRow", !.kind = "get", !.p = None]
<1>1. /\ UNCHANGED <<secrets, session, used, requests, faults, crashes>>
      /\ leaky' = leaky \cup {i \in {q.id} : q.kind = "add" /\ ~Covers(q.p, rows[i])}
      /\ q.pc = "upsert" /\ rows' = [rows EXCEPT ![q.id] = row]
      /\ acked' = [acked EXCEPT ![q.id] = q.p] /\ unsure' = unsure \ {q.id}
  BY DEF Upsert, At, bounds
<1>2. q \in Ops /\ OpShape(q, used) /\ q.id \in used /\ q.p \in Profiles /\ q.todo = {}
  BY <1>1, TypesOf DEF OpShape, Holding
<1>3. row \in Rows
  BY <1>2 DEF Rows, Profiles, SecretRefsFor
<1>4. \/ Advances(c, Idle)
      \/ Advances(c, o) /\ o.id = q.id /\ o.pc = "getRow" /\ o.kind = "get"
  <2>1. CASE Become(c, Idle)
    BY <1>1, <2>1, IdleShape DEF Advances
  <2>2. CASE Become(c, o)
    <3>1. o \in Ops /\ o.id = q.id /\ o.pc = "getRow" /\ o.kind = "get"
      BY <1>2 DEF Ops, Steps, Kinds
    <3> HIDE DEF o
    <3>2. OpShape(o, used)
      BY <1>2, <3>1 DEF OpShape, Holding
    <3> QED
      BY <1>1, <2>2, <3>1, <3>2 DEF Advances
  <2>3. Become(c, Idle) \/ Become(c, o)
    BY DEF Upsert
  <2> QED
    BY <2>1, <2>2, <2>3
<1> HIDE DEF o
<1> QED
  BY <1>1, <1>2, <1>3, <1>4

\* Delete asks which credentials there are, and ends when there is no row.
LEMMA QueryStep ==
  ASSUME TypeInv, NEW c \in Callers, QuerySecretRefs(c)
  PROVE  /\ Quiet /\ op[c].pc = "refs"
         /\ \/ Advances(c, Idle)
            \/ \E o : /\ Advances(c, o) /\ rows[op[c].id] \in Rows
                      /\ o.kind = op[c].kind /\ o.id = op[c].id
                      /\ o.pc = "delRow" /\ o.todo = rows[op[c].id].refs
<1> DEFINE q   == op[c]
           row == rows[q.id]
           o   == [q EXCEPT !.pc = "delRow", !.todo = row.refs]
<1>1. Quiet /\ q.pc = "refs"
  BY DEF QuerySecretRefs, Quiet, At, stores, bounds, history
<1>2. /\ q \in Ops /\ OpShape(q, used) /\ q.id \in used /\ q.kind = "delete"
      /\ row \in Rows \cup {None}
  BY <1>1, TypesOf DEF OpShape
<1>3. CASE row = None
  BY <1>1, <1>3, IdleShape DEF QuerySecretRefs, Advances, Quiet
<1>4. CASE row # None
  <2>1. row \in Rows /\ Become(c, o)
    BY <1>2, <1>4 DEF QuerySecretRefs
  <2>2. o \in Ops /\ o.kind = q.kind /\ o.id = q.id /\ o.pc = "delRow" /\ o.todo = row.refs
    BY <1>2, <2>1 DEF Ops, Steps, Rows
  <2> HIDE DEF o
  <2>3. OpShape(o, used)
    BY <1>2, <2>2 DEF OpShape, Holding
  <2>4. Advances(c, o)
    BY <1>1, <2>1, <2>2, <2>3 DEF Advances, Quiet
  <2> QED
    BY <1>1, <2>1, <2>2, <2>4
<1> QED
  BY <1>3, <1>4

\* The row goes; the request is acknowledged unless credentials are left.
LEMMA DeleteRowStep ==
  ASSUME TypeInv, NEW c \in Callers, DeleteRow(c)
  PROVE  /\ UNCHANGED <<secrets, session, used, requests, faults, crashes, leaky>>
         /\ op[c].pc = "delRow" /\ op[c].id \in used /\ op[c].kind = "delete"
         /\ rows' = [rows EXCEPT ![op[c].id] = None]
         /\ \/ /\ rows[op[c].id] # None /\ UNCHANGED <<acked, unsure>>
               /\ \E o : /\ Advances(c, o) /\ o.kind = "delete" /\ o.id = op[c].id
                         /\ o.pc = "delSecrets" /\ o.todo = op[c].todo
            \/ rows[op[c].id] = None /\ UNCHANGED <<acked, unsure>> /\ Advances(c, Idle)
            \/ /\ op[c].todo = {} /\ Advances(c, Idle)
               /\ acked' = [acked EXCEPT ![op[c].id] = None] /\ unsure' = unsure \ {op[c].id}
<1> DEFINE q == op[c]
           o == [q EXCEPT !.pc = "delSecrets"]
<1>1. /\ UNCHANGED <<secrets, session, used, requests, faults, crashes, leaky>>
      /\ q.pc = "delRow" /\ rows' = [rows EXCEPT ![q.id] = None]
  BY DEF DeleteRow, At, bounds, history, Acknowledge
<1>2. q \in Ops /\ OpShape(q, used) /\ q.id \in used /\ q.kind = "delete"
  BY <1>1, TypesOf DEF OpShape
<1>3. CASE rows[q.id] # None /\ q.todo # {}
  <2>1. Become(c, o) /\ UNCHANGED <<acked, unsure>>
    BY <1>3 DEF DeleteRow, history
  <2>2. o \in Ops /\ o.kind = q.kind /\ o.id = q.id /\ o.pc = "delSecrets" /\ o.todo = q.todo
    BY <1>2 DEF Ops, Steps
  <2> HIDE DEF o
  <2>3. OpShape(o, used)
    BY <1>2, <2>2 DEF OpShape, Holding
  <2>4. Advances(c, o)
    BY <1>1, <2>1, <2>2, <2>3 DEF Advances
  <2> QED
    BY <1>1, <1>2, <1>3, <2>1, <2>2, <2>4
<1>4. CASE ~(rows[q.id] # None /\ q.todo # {})
  <2>1. Become(c, Idle) /\ IF rows[q.id] # None THEN Acknowledge(q.id, None) ELSE UNCHANGED history
    BY <1>4 DEF DeleteRow
  <2>2. Advances(c, Idle)
    BY <1>1, <2>1, IdleShape DEF Advances
  <2> QED
    BY <1>1, <1>2, <1>4, <2>1, <2>2 DEF Acknowledge, history
<1> QED
  BY <1>3, <1>4

\* A credential of a deleted server is off the list, deleted or not; the last
\* one answers the request.
LEMMA DeletedStep ==
  ASSUME TypeInv, NEW c \in Callers, op[c].pc = "delSecrets", NEW r \in op[c].todo,
         Deleted(c, r), UNCHANGED used
  PROVE  \/ op[c].todo = {r} /\ Advances(c, Idle)
         \/ /\ op[c].todo # {r}
            /\ \E o : /\ Advances(c, o) /\ o.kind = "delete" /\ o.id = op[c].id
                      /\ o.pc = "delSecrets" /\ o.todo = op[c].todo \ {r}
<1> DEFINE q == op[c]
           o == [q EXCEPT !.todo = @ \ {r}]
<1>1. q \in Ops /\ OpShape(q, used) /\ q.id \in used /\ q.kind = "delete"
  BY TypesOf DEF OpShape
<1>2. CASE q.todo = {r}
  <2>1. Become(c, Idle)
    BY <1>2 DEF Deleted
  <2> QED
    BY <1>2, <2>1, IdleShape DEF Advances
<1>3. CASE q.todo # {r}
  <2>1. Become(c, o)
    BY <1>3 DEF Deleted
  <2>2. o \in Ops /\ o.kind = q.kind /\ o.id = q.id /\ o.pc = "delSecrets" /\ o.todo = q.todo \ {r}
    BY <1>1 DEF Ops
  <2> HIDE DEF o
  <2>3. OpShape(o, used)
    BY <1>1, <2>2 DEF OpShape, Holding
  <2>4. Advances(c, o)
    BY <2>1, <2>2, <2>3 DEF Advances
  <2> QED
    BY <1>1, <1>3, <2>2, <2>4
<1> QED
  BY <1>2, <1>3

\* Where an access can fail, and that only a request that was writing leaves
\* its server in doubt.
LEMMA AccessFailsStep ==
  ASSUME TypeInv, NEW c \in Callers, AccessFails(c)
  PROVE  /\ UNCHANGED <<rows, secrets, session, used, requests, crashes, acked>>
         /\ op[c].pc \notin {"idle", "drop", "delSecrets"} /\ op[c].id \in used
         /\ faults' \in 0 .. MaxFaults /\ Advances(c, Idle)
         /\ \/ op[c].pc \notin Writing /\ UNCHANGED <<unsure, leaky>>
            \/ /\ op[c].pc \in Writing /\ leaky' = leaky \cup {op[c].id}
               /\ unsure' = unsure \cup {i \in {op[c].id} : acked[i] # None}
<1>1. /\ UNCHANGED <<rows, secrets, session, used, requests, crashes, acked>>
      /\ op[c].pc \notin {"idle", "drop", "delSecrets"} /\ Become(c, Idle)
      /\ faults < MaxFaults /\ faults' = faults + 1
      /\ \/ op[c].pc \notin Writing /\ UNCHANGED <<unsure, leaky>>
         \/ /\ op[c].pc \in Writing /\ leaky' = leaky \cup {op[c].id}
            /\ unsure' = unsure \cup {i \in {op[c].id} : acked[i] # None}
  BY DEF AccessFails, stores, history, LeaveInDoubt
<1>2. op[c].id \in used /\ faults' \in 0 .. MaxFaults
  BY <1>1, TypesOf, StoreAssumption
<1>3. Advances(c, Idle)
  BY <1>1, IdleShape DEF Advances
<1> QED
  BY <1>1, <1>2, <1>3

\* A failing deletion of a credential is not noticed: the request goes on.
LEMMA DropFailsStep ==
  ASSUME TypeInv, NEW c \in Callers, DropFails(c)
  PROVE  /\ UNCHANGED <<rows, secrets, session, used, requests, crashes>>
         /\ op[c].pc \in {"drop", "delSecrets"} /\ op[c].id \in used
         /\ faults' \in 0 .. MaxFaults /\ leaky' = leaky \cup {op[c].id}
         /\ \/ /\ op[c].pc = "drop" /\ op[c].p \in Profiles /\ UNCHANGED <<acked, unsure>>
               /\ \E o : /\ Advances(c, o) /\ o.id = op[c].id /\ o.p = op[c].p
                         /\ o.kind = op[c].kind
                         /\ \/ o.pc = "drop"
                            \/ o.pc \in {"setSecrets", "upsert"} /\ o.todo = SecretRefsFor(o.p)
            \/ /\ op[c].pc = "delSecrets" /\ UNCHANGED <<acked, unsure>>
               /\ \E o : /\ Advances(c, o) /\ o.kind = "delete" /\ o.id = op[c].id
                         /\ o.pc = "delSecrets"
            \/ /\ op[c].pc = "delSecrets" /\ Advances(c, Idle)
               /\ acked' = [acked EXCEPT ![op[c].id] = None] /\ unsure' = unsure \ {op[c].id}
<1> DEFINE q == op[c]
<1>1. /\ UNCHANGED <<rows, secrets, session, used, requests, crashes>>
      /\ q.pc \in {"drop", "delSecrets"} /\ leaky' = leaky \cup {q.id}
      /\ faults < MaxFaults /\ faults' = faults + 1
  BY DEF DropFails, stores
<1>2. /\ q \in Ops /\ OpShape(q, used) /\ q.id \in used /\ faults' \in 0 .. MaxFaults
  BY <1>1, TypesOf, StoreAssumption
<1>3. CASE q.pc = "drop"
  <2>1. PICK r \in q.todo : Become(c, Dropped(q, r)) /\ UNCHANGED <<acked, unsure>>
    BY <1>3 DEF DropFails, At
  <2> DEFINE o == Dropped(q, r)
  <2>2. /\ o \in Ops /\ OpShape(o, used) /\ o.id = q.id /\ o.p = q.p /\ o.kind = q.kind
        /\ \/ o.pc = "drop"
           \/ o.pc \in {"setSecrets", "upsert"} /\ o.todo = SecretRefsFor(q.p)
    BY <1>2, <1>3, <2>1, DroppedShape
  <2> HIDE DEF o
  <2>3. Advances(c, o) /\ q.p \in Profiles
    BY <1>1, <1>2, <1>3, <2>1, <2>2 DEF Advances, o, OpShape, Holding
  <2> QED
    BY <1>1, <1>2, <1>3, <2>1, <2>2, <2>3
<1>4. CASE q.pc = "delSecrets"
  <2>1. PICK r \in q.todo :
          /\ Deleted(c, r)
          /\ IF q.todo = {r}
             THEN acked' = [acked EXCEPT ![q.id] = None] /\ unsure' = unsure \ {q.id}
             ELSE UNCHANGED <<acked, unsure>>
    BY <1>4 DEF DropFails, At
  <2>2. \/ q.todo = {r} /\ Advances(c, Idle)
        \/ /\ q.todo # {r}
           /\ \E o : /\ Advances(c, o) /\ o.kind = "delete" /\ o.id = q.id
                     /\ o.pc = "delSecrets" /\ o.todo = q.todo \ {r}
    BY <1>1, <1>4, <2>1, DeletedStep
  <2> QED
    BY <1>1, <1>2, <1>4, <2>1, <2>2
<1> QED
  BY <1>1, <1>3, <1>4

\* Steps of a request in progress keep the types.
LEMMA StepTypes ==
  ASSUME TypeInv, NEW c \in Callers, StoreStep(c)
  PROVE  TypeInv'
<1>1. ASSUME NEW o, Advances(c, o), Quiet PROVE TypeInv'
  BY <1>1, TypesOf, MovesKeepTypes DEF Advances, Quiet
<1>2. CASE GetRow(c)
  BY <1>1, <1>2, GetRowStep
<1>3. CASE GetSecret(c)
  BY <1>1, <1>3, GetSecretStep
<1>4. CASE GotProfile(c)
  <2>1. /\ UNCHANGED <<rows, secrets, requests, faults, crashes, acked, unsure, leaky>>
        /\ op[c].p \in Profiles /\ op[c].id \in Ids
    BY <1>4, GotProfileStep, TypesOf
  <2>2. PICK o : /\ Advances(c, o) /\ used \subseteq used' /\ used' \subseteq Ids
                 /\ \/ UNCHANGED session
                    \/ session' = [id |-> op[c].id, body |-> op[c].p.body]
    BY <1>4, GotProfileStep, TypesOf
  <2>3. session' \in [id : Ids, body : Bodies] \cup {None}
    BY <2>1, <2>2, TypesOf DEF Profiles
  <2>4. leaky \subseteq used'
    BY <2>2, TypesOf
  <2> QED
    BY <2>1, <2>2, <2>3, <2>4, TypesOf, MovesKeepTypes DEF Advances
<1>5. CASE Dial(c)
  BY <1>1, <1>5, DialStep
<1>6. CASE Select(c)
  BY <1>1, <1>6, SelectStep
<1>7. ASSUME NEW o, Advances(c, o), NEW i \in Ids, NEW r \in Refs, NEW v \in Creds \cup {None},
             Put(i, r, v),
             UNCHANGED <<rows, session, used, requests, faults, crashes>>,
             acked' \in [Ids -> Profiles \cup {None}], unsure' \subseteq leaky, leaky' = leaky
      PROVE  TypeInv'
  <2>1. secrets' \in [Ids -> Credentials]
    BY <1>7, TypesOf DEF Credentials, Put
  <2> QED
    BY <1>7, <2>1, TypesOf, MovesKeepTypes DEF Advances
<1>8. CASE Drop(c)
  <2>1. op[c].id \in Ids /\ op[c].todo \subseteq Refs
    BY <1>8, DropStep, TypesOf DEF Ops
  <2>2. PICK o, r : /\ Advances(c, o) /\ r \in op[c].todo
                    /\ Put(op[c].id, r, None)
    BY <1>8, DropStep
  <2>3. UNCHANGED <<rows, session, used, requests, faults, crashes, acked, unsure, leaky>>
    BY <1>8, DropStep
  <2> QED
    BY <1>7, <2>1, <2>2, <2>3, TypesOf
<1>9. CASE SetSecret(c)
  <2>1. /\ op[c].id \in Ids /\ op[c].todo \subseteq Refs
        /\ \A r \in Refs : op[c].p.cred[r] \in Creds \cup {None}
    BY <1>9, SetSecretStep, TypesOf DEF Ops, Profiles, Credentials
  <2>2. PICK o, r : /\ Advances(c, o) /\ r \in op[c].todo
                    /\ Put(op[c].id, r, op[c].p.cred[r])
    BY <1>9, SetSecretStep
  <2>3. UNCHANGED <<rows, session, used, requests, faults, crashes, acked, unsure, leaky>>
    BY <1>9, SetSecretStep
  <2> QED
    BY <1>7, <2>1, <2>2, <2>3, TypesOf
<1>10. ASSUME NEW o, Advances(c, o), NEW i \in used, NEW row \in Rows \cup {None},
              rows' = [rows EXCEPT ![i] = row],
              UNCHANGED <<secrets, session, used, requests, faults, crashes>>,
              leaky \subseteq leaky', leaky' \subseteq used,
              \/ UNCHANGED <<acked, unsure>>
              \/ \E p \in Profiles \cup {None} :
                    acked' = [acked EXCEPT ![i] = p] /\ unsure' = unsure \ {i}
       PROVE  TypeInv'
  <2>1. rows' \in [Ids -> Rows \cup {None}] /\ acked' \in [Ids -> Profiles \cup {None}]
        /\ unsure' \subseteq leaky'
    BY <1>10, TypesOf
  <2> QED
    BY <1>10, <2>1, TypesOf, MovesKeepTypes DEF Advances
<1>11. CASE Upsert(c)
  <2> DEFINE row == [body |-> op[c].p.body, enabled |-> op[c].p.enabled,
                     tested |-> op[c].p.tested, refs |-> SecretRefsFor(op[c].p)]
  <2>1. /\ row \in Rows /\ rows' = [rows EXCEPT ![op[c].id] = row] /\ op[c].id \in used
        /\ UNCHANGED <<secrets, session, used, requests, faults, crashes>>
        /\ leaky \subseteq leaky' /\ leaky' \subseteq leaky \cup {op[c].id}
        /\ op[c].p \in Profiles /\ acked' = [acked EXCEPT ![op[c].id] = op[c].p]
        /\ unsure' = unsure \ {op[c].id}
        /\ \E o : Advances(c, o)
    BY <1>11, UpsertStep
  <2> HIDE DEF row
  <2>2. leaky' \subseteq used
    BY <2>1, TypesOf
  <2> QED
    BY <1>10, <2>1, <2>2
<1>12. CASE QuerySecretRefs(c)
  BY <1>1, <1>12, QueryStep
<1>13. CASE DeleteRow(c)
  BY <1>10, <1>13, DeleteRowStep, TypesOf
<1>14. CASE DeleteSecret(c)
  <2>1. /\ op[c].pc = "delSecrets"
        /\ UNCHANGED <<rows, session, used, requests, faults, crashes, leaky>>
    BY <1>14 DEF DeleteSecret, At, bounds, history, Acknowledge
  <2>2. PICK r \in op[c].todo :
          /\ Put(op[c].id, r, None) /\ Deleted(c, r)
          /\ IF op[c].todo = {r} THEN Acknowledge(op[c].id, None) ELSE UNCHANGED history
    BY <1>14 DEF DeleteSecret, Put
  <2>3. op[c].id \in Ids /\ r \in Refs /\ \E o : Advances(c, o)
    BY <2>1, <2>2, DeletedStep, TypesOf DEF Ops
  <2>4. acked' \in [Ids -> Profiles \cup {None}] /\ unsure' \subseteq leaky
    BY <2>2, <2>3, TypesOf DEF Acknowledge, history
  <2> QED
    BY <1>7, <2>1, <2>2, <2>3, <2>4
<1>15. CASE AccessFails(c)
  <2>1. unsure' \subseteq leaky' /\ leaky' \subseteq used
    BY <1>15, AccessFailsStep, TypesOf
  <2> QED
    BY <1>15, <2>1, AccessFailsStep, TypesOf, MovesKeepTypes DEF Advances
<1>16. CASE DropFails(c)
  <2>1. /\ UNCHANGED <<rows, secrets, session, used, requests, crashes>>
        /\ faults' \in 0 .. MaxFaults /\ \E o : Advances(c, o)
    BY <1>16, DropFailsStep
  <2>2. unsure' \subseteq leaky' /\ leaky' \subseteq used
        /\ acked' \in [Ids -> Profiles \cup {None}]
    BY <1>16, DropFailsStep, TypesOf
  <2> QED
    BY <2>1, <2>2, TypesOf, MovesKeepTypes DEF Advances
<1> QED
  BY <1>2, <1>3, <1>4, <1>5, <1>6, <1>8, <1>9, <1>11, <1>12, <1>13, <1>14, <1>15, <1>16
     DEF StoreStep

\* So do the death of the process, and the end of a session.
LEMMA CrashTypes ==
  ASSUME TypeInv, StoreCrash, UNCHANGED <<requests, faults>>, crashes' \in 0 .. MaxCrashes
  PROVE  TypeInv'
<1> DEFINE ids == {op[c].id : c \in {d \in Callers : op[d].pc \in Writing}}
<1>1. ids \subseteq used
  BY DEF TypeInv, OpShape, Writing
<1>2. /\ op' = [c \in Callers |-> Idle] /\ session' = None /\ UNCHANGED <<rows, secrets, used, acked>>
      /\ unsure' = unsure \cup {i \in ids : acked[i] # None} /\ leaky' = leaky \cup ids
  BY DEF StoreCrash, LeaveInDoubt, stores
<1> HIDE DEF ids
<1>3. op' \in [Callers -> Ops] /\ \A c \in Callers : OpShape(op'[c], used')
  BY <1>2, IdleShape
<1>4. TypeOK'
  BY <1>1, <1>2, <1>3 DEF TypeInv, TypeOK, Ops
<1> QED
  BY <1>3, <1>4 DEF TypeInv

\* The shapes are those of every step.
LEMMA TypesAreInductive == TypeInv /\ [StoreNext]_vars => TypeInv'
<1> SUFFICES ASSUME TypeInv, [StoreNext]_vars PROVE TypeInv'
  OBVIOUS
<1>1. CASE Crash
  <2>1. crashes' \in 0 .. MaxCrashes /\ UNCHANGED <<requests, faults>> /\ StoreCrash
    BY <1>1, StoreAssumption DEF Crash, TypeInv, TypeOK
  <2> QED
    BY <2>1, CrashTypes
<1>2. CASE EndSession
  BY <1>2 DEF EndSession, TypeInv, TypeOK, stores, bounds, history
<1>3. CASE UNCHANGED vars
  BY <1>3 DEF vars, TypeInv, TypeOK
<1> QED
  BY <1>1, <1>2, <1>3, RequestTypes, StepTypes DEF StoreNext

\* Rows, secrets and requests always have their shapes, whatever fails.
THEOREM StoreTypes == StoreSpec => []TypeInv
<1>1. StoreInit => TypeInv
  <2> SUFFICES ASSUME StoreInit PROVE TypeInv
    OBVIOUS
  <2>1. op \in [Callers -> Ops] /\ \A c \in Callers : OpShape(op[c], used)
    BY IdleShape DEF StoreInit
  <2>2. TypeOK
    BY <2>1, StoreAssumption DEF StoreInit, TypeOK, Credentials, Ops
  <2> QED
    BY <2>1, <2>2 DEF TypeInv
<1> QED
  BY <1>1, TypesAreInductive, PTL DEF StoreSpec
-----------------------------------------------------------------------------
(* What the stores promise, for one caller at a time.                      *)

\* Both bridges hold one mutex around a request.
OneCaller == \A c, d \in Callers : c = d

\* What a Get finds for credential r, given the row and the secrets.
Held(row, sec, r) == IF r \in row.refs THEN sec[r] ELSE None

\* The profile that a request read is still the stored one, but for the
\* column that the request is about.
ReadIsCurrent(o, row, sec) ==
    /\ o.pc = "getSecrets" =>
          /\ row # None /\ o.todo \subseteq row.refs
          /\ o.p.body = row.body /\ o.p.enabled = row.enabled /\ o.p.tested = row.tested
          /\ \A r \in Refs : r \in o.todo \/ o.p.cred[r] = Held(row, sec, r)
    /\ \/ o.pc = "dial"
       \/ o.pc \in {"select", "drop", "setSecrets", "upsert"} /\ o.kind \in {"toggle", "latency"}
       => /\ row # None /\ o.p.body = row.body
          /\ \A r \in Refs : o.p.cred[r] = Held(row, sec, r)
          /\ IF o.kind = "toggle" THEN o.p.tested = row.tested /\ o.p.enabled = ~row.enabled
             ELSE o.p.enabled = row.enabled /\ (o.pc # "dial" => o.p.tested = TRUE)

\* What of a change is in the stores already, and which credentials may be
\* there without being named by the row: those of the profile being written,
\* those on the list of what is to be deleted, those of a leaky server, and
\* those of a row that a server is being added over.
ChangeIsOnItsWay(o, row, sec, leaks) ==
    /\ o.pc \in {"setSecrets", "upsert"} =>
          \A r \in SecretRefsFor(o.p) \ o.todo : sec[r] = o.p.cred[r]
    /\ o.pc \in {"drop", "setSecrets", "upsert"} =>
          \A r \in Refs : sec[r] # None =>
              \/ r \in SecretRefsFor(o.p) \/ (o.pc = "drop" /\ r \in o.todo) \/ o.id \in leaks
              \/ o.kind = "add" /\ row # None /\ r \in row.refs
    /\ o.pc = "delRow" => row # None /\ o.todo = row.refs
    /\ o.pc = "delSecrets" =>
          row = None /\ \A r \in Refs : sec[r] # None => r \in o.todo \/ o.id \in leaks

OpFits(o, row, sec, leaks) == ReadIsCurrent(o, row, sec) /\ ChangeIsOnItsWay(o, row, sec, leaks)

RequestsFit ==
    \A c \in Callers : OpFits(op[c], rows[op[c].id], secrets[op[c].id], leaky)

\* An id nobody was given has no row.
FreshIsEmpty == \A i \in Ids : i \notin used => rows[i] = None

\* A server that is not in doubt and was not acknowledged does not exist.
UnackedIsAbsent == \A i \in Ids : i \notin unsure /\ acked[i] = None => rows[i] = None

\* Writing is the only time at which stores and acknowledgements may differ.
QuietReadsBack ==
    \A i \in Ids :
        i \notin unsure /\ (\A c \in Callers : op[c].id = i => op[c].pc \notin Writing) =>
            Stored(i) = acked[i]

\* A secret that no row names belongs to a writing request or a leaky server.
QuietIsOwned ==
    \A i \in Ids, r \in Refs :
        secrets[i][r] # None /\ (rows[i] = None \/ r \notin rows[i].refs) =>
            i \in leaky \/ \E c \in Callers : op[c].id = i /\ op[c].pc \in Writing

\* The inductive invariant of the stores.
SInv ==
    /\ TypeInv /\ RequestsFit /\ FreshIsEmpty
    /\ UnackedIsAbsent /\ QuietReadsBack /\ QuietIsOwned
-----------------------------------------------------------------------------
(* The stores, step by step.                                               *)

\* With one caller its request is all there is.
LEMMA OnlyRequest ==
  ASSUME OneCaller, NEW c \in Callers, NEW d \in Callers PROVE d = c
BY DEF OneCaller

\* An idle request fits any stores.
LEMMA IdleFits ==
  ASSUME NEW row, NEW sec, NEW leaks PROVE OpFits(Idle, row, sec, leaks)
BY IdleShape DEF OpFits, ReadIsCurrent, ChangeIsOnItsWay

\* What a Get returns depends on one row and the credentials it names.
LEMMA StoredKept ==
  ASSUME NEW i, rows'[i] = rows[i],
         rows[i] = None \/ \A r \in Refs : r \in rows[i].refs => secrets'[i][r] = secrets[i][r]
  PROVE  Stored(i)' = Stored(i)
<1>1. CASE rows[i] = None
  BY <1>1 DEF Stored
<1>2. CASE \A r \in Refs : r \in rows[i].refs => secrets'[i][r] = secrets[i][r]
  <2>1. [r \in Refs |-> IF r \in rows'[i].refs THEN secrets'[i][r] ELSE None]
        = [r \in Refs |-> IF r \in rows[i].refs THEN secrets[i][r] ELSE None]
    BY <1>2
  <2> QED
    BY <2>1 DEF Stored
<1> QED
  BY <1>1, <1>2

\* The invariant as it bears on the request of the one caller.
LEMMA FitsOf ==
  ASSUME SInv, NEW c \in Callers
  PROVE  /\ TypeInv
         /\ ReadIsCurrent(op[c], rows[op[c].id], secrets[op[c].id])
         /\ ChangeIsOnItsWay(op[c], rows[op[c].id], secrets[op[c].id], leaky)
BY DEF SInv, RequestsFit, OpFits

\* A step that reads, or that begins to write, keeps the stores' promises,
\* provided its new request fits them.
LEMMA QuietKeeps ==
  ASSUME SInv, TypeInv', OneCaller, NEW c \in Callers, NEW o, Advances(c, o),
         UNCHANGED <<rows, secrets, acked, unsure, leaky>>, used \subseteq used',
         op[c].pc \notin Writing \/ (o.pc \in Writing /\ o.id = op[c].id),
         OpFits(o, rows[o.id], secrets[o.id], leaky)
  PROVE  SInv'
<1>1. op'[c] = o /\ \A d \in Callers : d = c
  BY BecomeKeeps, OnlyRequest DEF Advances, SInv
<1>2. RequestsFit'
  BY <1>1 DEF RequestsFit
<1>3. FreshIsEmpty' /\ UnackedIsAbsent'
  BY DEF SInv, FreshIsEmpty, UnackedIsAbsent
<1>4. QuietReadsBack'
  <2> SUFFICES ASSUME NEW i \in Ids, i \notin unsure,
                      \A d \in Callers : op'[d].id = i => op'[d].pc \notin Writing
               PROVE  Stored(i)' = acked'[i]
    BY DEF QuietReadsBack
  <2>1. \A d \in Callers : op[d].id = i => op[d].pc \notin Writing
    BY <1>1
  <2>2. Stored(i)' = Stored(i)
    BY StoredKept
  <2> QED
    BY <2>1, <2>2 DEF SInv, QuietReadsBack
<1>5. QuietIsOwned'
  <2> SUFFICES ASSUME NEW i \in Ids, NEW r \in Refs, secrets[i][r] # None,
                      rows[i] = None \/ r \notin rows[i].refs, i \notin leaky
               PROVE  \E d \in Callers : op'[d].id = i /\ op'[d].pc \in Writing
    BY DEF QuietIsOwned
  <2>1. PICK d \in Callers : op[d].id = i /\ op[d].pc \in Writing
    BY DEF SInv, QuietIsOwned
  <2> QED
    BY <1>1, <2>1
<1> QED
  BY <1>2, <1>3, <1>4, <1>5 DEF SInv

\* A request ends without a change.
LEMMA EndsQuietly ==
  ASSUME SInv, TypeInv', OneCaller, NEW c \in Callers, Advances(c, Idle),
         UNCHANGED <<rows, secrets, session, used, acked, unsure, leaky>>,
         op[c].pc \notin Writing
  PROVE  SInv'
BY IdleFits, QuietKeeps

\* An id that was never given out has neither row nor credentials.
LEMMA FreshHasNothing ==
  ASSUME SInv, NEW i \in Ids, i \notin used
  PROVE  rows[i] = None /\ \A r \in Refs : secrets[i][r] = None
<1>1. rows[i] = None /\ i \notin leaky
  BY DEF SInv, FreshIsEmpty, TypeInv, TypeOK
<1>2. \A c \in Callers : op[c].pc \in Writing => op[c].id # i
  BY DEF SInv, TypeInv, OpShape, Writing
<1> QED
  BY <1>1, <1>2 DEF SInv, QuietIsOwned

\* A duplicate begins to be written, under a fresh id.
LEMMA FreshFits ==
  ASSUME SInv, NEW o, o.id \in Ids, o.id \notin used, o.kind = "duplicate",
         o.pc \in {"setSecrets", "upsert"}, o.todo = SecretRefsFor(o.p)
  PROVE  OpFits(o, rows[o.id], secrets[o.id], leaky)
<1>1. rows[o.id] = None /\ \A r \in Refs : secrets[o.id][r] = None
  BY FreshHasNothing
<1> QED
  BY <1>1 DEF OpFits, ReadIsCurrent, ChangeIsOnItsWay

\* A server at rest has only the credentials its row names, unless leaky.
LEMMA AtRestOwned ==
  ASSUME SInv, OneCaller, NEW c \in Callers, op[c].pc \notin Writing, NEW i \in Ids, NEW r \in Refs,
         secrets[i][r] # None
  PROVE  i \in leaky \/ (rows[i] # None /\ r \in rows[i].refs)
<1>1. \A d \in Callers : op[d].pc \notin Writing
  BY OnlyRequest
<1> QED
  BY <1>1 DEF SInv, QuietIsOwned

\* A server begins to be added, under whatever id.
LEMMA AddFits ==
  ASSUME SInv, OneCaller, NEW c \in Callers, op[c].pc \notin Writing,
         NEW o, o.id \in Ids, o.kind = "add",
         o.pc \in {"setSecrets", "upsert"}, o.todo = SecretRefsFor(o.p)
  PROVE  OpFits(o, rows[o.id], secrets[o.id], leaky)
<1>1. \A r \in Refs : secrets[o.id][r] # None =>
        o.id \in leaky \/ (rows[o.id] # None /\ r \in rows[o.id].refs)
  BY AtRestOwned
<1> QED
  BY <1>1 DEF OpFits, ReadIsCurrent, ChangeIsOnItsWay

\* New requests keep the promises.
LEMMA RequestKeeps ==
  ASSUME SInv, OneCaller, NEW c \in Callers, Request(c)
  PROVE  SInv'
<1>0. TypeInv /\ TypeInv'
  BY RequestTypes DEF SInv
<1>1. ASSUME NEW i \in used, NEW p \in Profiles \cup {None}, NEW k \in Kinds, NEW st \in Steps,
             Ask(c, k, i, p, st), UNCHANGED <<stores, session, used, faults, crashes, history>>,
             OpShape([pc |-> st, kind |-> k, id |-> i, p |-> p, todo |-> {}], used),
             OpFits([pc |-> st, kind |-> k, id |-> i, p |-> p, todo |-> {}],
                    rows[i], secrets[i], leaky)
      PROVE  SInv'
  <2> DEFINE o == [pc |-> st, kind |-> k, id |-> i, p |-> p, todo |-> {}]
  <2>1. o \in Ops /\ OpShape(o, used) /\ Become(c, o) /\ o.id = i
    BY <1>0, <1>1, TypesOf DEF Ops, Ask
  <2>2. UNCHANGED <<rows, secrets, session, used, acked, unsure, leaky>>
    BY <1>1 DEF stores, history
  <2>3. op[c].pc \notin Writing
    BY <1>1 DEF Ask, At, Writing
  <2>4. OpFits(o, rows[o.id], secrets[o.id], leaky)
    BY <1>1, <2>2
  <2> HIDE DEF o
  <2>5. Advances(c, o)
    BY <2>1, <2>2 DEF Advances
  <2> QED
    BY <1>0, <2>2, <2>3, <2>4, <2>5, QuietKeeps
<1>2. ASSUME NEW i \in Ids, NEW p \in Profiles, AddServer(c, i, p)
      PROVE  SInv'
  <2> DEFINE q == [pc |-> "idle", kind |-> "add", id |-> i, p |-> p, todo |-> {}]
             o == PersistStep(q)
  <2>1. /\ used' = used \cup {i} /\ Become(c, o)
        /\ op[c].pc = "idle" /\ UNCHANGED <<rows, secrets, session, acked, unsure, leaky>>
    BY <1>2 DEF AddServer, At, stores, history
  <2>2. q \in Ops /\ q.p \in Profiles /\ q.id \in used' /\ q.kind = "add" /\ q.id = i
    BY <1>2, <2>1 DEF Ops, Steps, Kinds
  <2> HIDE DEF q
  <2>3. /\ o \in Ops /\ OpShape(o, used') /\ o.id = i /\ o.kind = "add"
        /\ o.pc \in {"setSecrets", "upsert"} /\ o.todo = SecretRefsFor(o.p)
    BY <2>2, PersistShape
  <2> HIDE DEF o
  <2>4. Advances(c, o)
    BY <2>1, <2>3 DEF Advances
  <2>5. OpFits(o, rows[o.id], secrets[o.id], leaky)
    BY <2>1, <2>3, AddFits DEF Writing
  <2> QED
    BY <1>0, <2>1, <2>4, <2>5, QuietKeeps DEF Writing
<1>3. ASSUME NEW i \in Ids, NEW p \in Profiles, UpdateServer(c, i, p)
      PROVE  SInv'
  <2>1. OpShape([pc |-> "select", kind |-> "update", id |-> i, p |-> p, todo |-> {}], used)
    BY <1>3 DEF OpShape, UpdateServer, Holding
  <2>2. OpFits([pc |-> "select", kind |-> "update", id |-> i, p |-> p, todo |-> {}],
               rows[i], secrets[i], leaky)
    BY <1>3 DEF OpFits, ReadIsCurrent, ChangeIsOnItsWay, UpdateServer
  <2> QED
    BY <1>1, <1>3, <2>1, <2>2 DEF UpdateServer, Steps, Kinds
<1>4. ASSUME NEW i \in Ids, DeleteServer(c, i)
      PROVE  SInv'
  <2>1. OpShape([pc |-> "refs", kind |-> "delete", id |-> i, p |-> None, todo |-> {}], used)
    BY <1>4 DEF OpShape, DeleteServer, Holding
  <2>2. OpFits([pc |-> "refs", kind |-> "delete", id |-> i, p |-> None, todo |-> {}],
               rows[i], secrets[i], leaky)
    BY <1>4 DEF OpFits, ReadIsCurrent, ChangeIsOnItsWay, DeleteServer
  <2> QED
    BY <1>1, <1>4, <2>1, <2>2 DEF DeleteServer, Steps, Kinds
<1>5. ASSUME NEW i \in Ids, NEW k \in {"get", "toggle", "latency", "duplicate", "connect"},
             ReadServer(c, i, k)
      PROVE  SInv'
  <2>1. OpShape([pc |-> "getRow", kind |-> k, id |-> i, p |-> None, todo |-> {}], used)
    BY <1>5 DEF OpShape, ReadServer, Holding
  <2>2. OpFits([pc |-> "getRow", kind |-> k, id |-> i, p |-> None, todo |-> {}],
               rows[i], secrets[i], leaky)
    BY <1>5 DEF OpFits, ReadIsCurrent, ChangeIsOnItsWay
  <2> QED
    BY <1>1, <1>5, <2>1, <2>2 DEF ReadServer, Steps, Kinds
<1> QED
  BY <1>2, <1>3, <1>4, <1>5 DEF Request

\* Reading keeps the promises, and what is read is what is stored.
LEMMA ReadKeeps ==
  ASSUME SInv, OneCaller, NEW c \in Callers,
         GetRow(c) \/ GetSecret(c) \/ GotProfile(c) \/ Dial(c)
  PROVE  SInv'
<1> DEFINE q   == op[c]
           row == rows[q.id]
           sec == secrets[q.id]
<1>0. /\ TypeInv /\ TypeInv' /\ q \in Ops /\ OpShape(q, used)
      /\ ReadIsCurrent(q, row, sec)
  BY StepTypes, FitsOf, TypesOf DEF StoreStep, SInv
<1>1. CASE GetRow(c)
  <2>1. Quiet /\ q.pc = "getRow" /\ q.pc \notin Writing
    BY <1>0, <1>1, GetRowStep DEF Writing
  <2>2. CASE Advances(c, Idle)
    BY <1>0, <2>1, <2>2, EndsQuietly DEF Quiet
  <2>3. ASSUME NEW o, Advances(c, o), row \in Rows,
               o.pc = "getSecrets", o.id = q.id, o.kind = q.kind, o.todo = row.refs,
               o.p.body = row.body, o.p.enabled = row.enabled, o.p.tested = row.tested,
               o.p.cred = [r \in Refs |-> None]
        PROVE  SInv'
    <3>1. row # None
      BY <2>3, StoreAssumption
    <3>2. ReadIsCurrent(o, row, sec)
      BY <2>3, <3>1 DEF ReadIsCurrent, Held
    <3>3. ChangeIsOnItsWay(o, row, sec, leaky)
      BY <2>3 DEF ChangeIsOnItsWay
    <3>5. OpFits(o, rows[o.id], secrets[o.id], leaky)
      BY <2>1, <2>3, <3>2, <3>3 DEF OpFits, Quiet
    <3> QED
      BY <1>0, <2>1, <2>3, <3>5, QuietKeeps DEF Quiet
  <2> QED
    BY <1>0, <1>1, <2>2, <2>3, GetRowStep
<1>2. CASE GetSecret(c)
  <2>1. Quiet /\ q.pc = "getSecrets" /\ q.pc \notin Writing
    BY <1>0, <1>2, GetSecretStep DEF Writing
  <2>2. PICK o, r : /\ Advances(c, o) /\ r \in q.todo
                    /\ o.pc = "getSecrets" /\ o.id = q.id /\ o.kind = q.kind
                    /\ o.todo = q.todo \ {r} /\ o.p = [q.p EXCEPT !.cred[r] = sec[r]]
    BY <1>0, <1>2, GetSecretStep
  <2>3. /\ row # None /\ q.todo \subseteq row.refs
        /\ q.p.body = row.body /\ q.p.enabled = row.enabled /\ q.p.tested = row.tested
        /\ \A s \in Refs : s \in q.todo \/ q.p.cred[s] = Held(row, sec, s)
    BY <1>0, <2>1 DEF ReadIsCurrent
  <2>4. q.p \in Profiles /\ q.p.cred \in [Refs -> Creds \cup {None}]
    BY <1>0, <2>1 DEF OpShape, Holding, Profiles, Credentials
  <2>5. /\ o.p.body = q.p.body /\ o.p.enabled = q.p.enabled /\ o.p.tested = q.p.tested
        /\ \A s \in Refs : o.p.cred[s] = IF s = r THEN sec[r] ELSE q.p.cred[s]
    BY <2>2, <2>4 DEF Profiles
  <2>6. ReadIsCurrent(o, row, sec)
    BY <2>2, <2>3, <2>5 DEF ReadIsCurrent, Held
  <2>7. ChangeIsOnItsWay(o, row, sec, leaky)
    BY <2>2 DEF ChangeIsOnItsWay
  <2>9. OpFits(o, rows[o.id], secrets[o.id], leaky)
    BY <2>1, <2>2, <2>6, <2>7 DEF OpFits, Quiet
  <2> QED
    BY <1>0, <2>1, <2>2, <2>9, QuietKeeps DEF Quiet
<1>3. CASE GotProfile(c)
  <2>1. /\ UNCHANGED <<rows, secrets, acked, unsure, leaky>> /\ q.pc = "getSecrets"
        /\ q.pc \notin Writing /\ q.todo = {} /\ q.p \in Profiles
    BY <1>0, <1>3, GotProfileStep DEF Writing
  <2>2. /\ row # None
        /\ q.p.body = row.body /\ q.p.enabled = row.enabled /\ q.p.tested = row.tested
        /\ \A s \in Refs : q.p.cred[s] = Held(row, sec, s)
    BY <1>0, <2>1 DEF ReadIsCurrent
  <2>3. CASE Advances(c, Idle) /\ UNCHANGED <<session, used>>
    BY <1>0, <2>1, <2>3, EndsQuietly
  <2>4. CASE /\ Advances(c, Idle) /\ UNCHANGED used
             /\ session' = [id |-> q.id, body |-> q.p.body]
    <3> QED
      BY <1>0, <2>1, <2>4, IdleFits, QuietKeeps
  <2>5. ASSUME NEW o, Advances(c, o), UNCHANGED <<session, used>>, o.id = q.id,
               OpFits(o, row, sec, leaky)
        PROVE  SInv'
    BY <1>0, <2>1, <2>5, QuietKeeps
  <2>6. ASSUME NEW o, Advances(c, o), UNCHANGED <<session, used>>, o.id = q.id,
               o.kind = "toggle", o.pc = "select", o.p = [q.p EXCEPT !.enabled = ~@]
        PROVE  SInv'
    <3>1. o.p.body = q.p.body /\ o.p.cred = q.p.cred /\ o.p.tested = q.p.tested
          /\ o.p.enabled = ~q.p.enabled
      BY <2>1, <2>6 DEF Profiles
    <3>2. ReadIsCurrent(o, row, sec)
      BY <2>2, <2>6, <3>1 DEF ReadIsCurrent
    <3>3. ChangeIsOnItsWay(o, row, sec, leaky)
      BY <2>6 DEF ChangeIsOnItsWay
    <3> QED
      BY <2>5, <2>6, <3>2, <3>3 DEF OpFits
  <2>7. ASSUME NEW o, Advances(c, o), UNCHANGED <<session, used>>, o.id = q.id,
               o.kind = "latency", o.pc = "dial", o.p = q.p
        PROVE  SInv'
    <3>1. ReadIsCurrent(o, row, sec)
      BY <2>2, <2>7 DEF ReadIsCurrent
    <3>2. ChangeIsOnItsWay(o, row, sec, leaky)
      BY <2>7 DEF ChangeIsOnItsWay
    <3> QED
      BY <2>5, <2>7, <3>1, <3>2 DEF OpFits
  <2>8. ASSUME NEW o, NEW i \in Ids \ used, used' = used \cup {i}, UNCHANGED session,
               Advances(c, o), o.id = i, o.kind = "duplicate",
               o.pc \in {"setSecrets", "upsert"}, o.todo = SecretRefsFor(o.p)
        PROVE  SInv'
    <3>1. OpFits(o, rows[o.id], secrets[o.id], leaky)
      BY <2>8, FreshFits
    <3> QED
      BY <1>0, <2>1, <2>8, <3>1, QuietKeeps
  <2> QED
    BY <1>0, <1>3, <2>3, <2>4, <2>6, <2>7, <2>8, GotProfileStep
<1>4. CASE Dial(c)
  <2>1. Quiet /\ q.pc = "dial" /\ q.pc \notin Writing /\ q.kind = "latency" /\ q.p \in Profiles
    BY <1>0, <1>4, DialStep DEF Writing
  <2>2. CASE Advances(c, Idle)
    BY <1>0, <2>1, <2>2, EndsQuietly DEF Quiet
  <2>3. ASSUME NEW o, Advances(c, o), o.kind = "latency", o.pc = "select", o.id = q.id,
               o.p = [q.p EXCEPT !.tested = TRUE]
        PROVE  SInv'
    <3>1. /\ o.p.body = q.p.body /\ o.p.cred = q.p.cred /\ o.p.tested = TRUE
          /\ o.p.enabled = q.p.enabled
      BY <2>1, <2>3 DEF Profiles
    <3>2. ReadIsCurrent(o, row, sec)
      BY <1>0, <2>1, <2>3, <3>1 DEF ReadIsCurrent
    <3>3. ChangeIsOnItsWay(o, row, sec, leaky)
      BY <2>3 DEF ChangeIsOnItsWay
    <3>4. OpFits(o, rows[o.id], secrets[o.id], leaky)
      BY <2>1, <2>3, <3>2, <3>3 DEF OpFits, Quiet
    <3> QED
      BY <1>0, <2>1, <2>3, <3>4, QuietKeeps DEF Quiet
  <2> QED
    BY <1>0, <1>4, <2>2, <2>3, DialStep
<1> QED
  BY <1>1, <1>2, <1>3, <1>4

\* Looking at the row, before an update or a deletion, keeps the promises.
LEMMA LookKeeps ==
  ASSUME SInv, OneCaller, NEW c \in Callers, Select(c) \/ QuerySecretRefs(c)
  PROVE  SInv'
<1> DEFINE q   == op[c]
           row == rows[q.id]
           sec == secrets[q.id]
<1>0. /\ TypeInv /\ TypeInv' /\ q \in Ops /\ OpShape(q, used) /\ q.pc \in {"select", "refs"}
      /\ ReadIsCurrent(q, row, sec)
      /\ q.pc \notin Writing /\ q.id \in Ids /\ q.id \in used
  BY StepTypes, FitsOf, TypesOf, SelectStep, QueryStep DEF StoreStep, SInv, Writing
<1>1. CASE Select(c)
  <2>1. Quiet /\ q.pc = "select" /\ q.p \in Profiles
    BY <1>0, <1>1, SelectStep DEF OpShape, Holding
  <2>2. CASE Advances(c, Idle)
    BY <1>0, <2>1, <2>2, EndsQuietly DEF Quiet
  <2>3. ASSUME NEW o, Advances(c, o), row \in Rows, o.kind = q.kind, o.id = q.id, o.p = q.p,
               \/ o.pc = "drop" /\ o.todo = row.refs \ SecretRefsFor(o.p)
               \/ /\ o.pc \in {"setSecrets", "upsert"} /\ o.todo = SecretRefsFor(o.p)
                  /\ row.refs \subseteq SecretRefsFor(o.p)
        PROVE  SInv'
    <3>1. ReadIsCurrent(o, row, sec)
      BY <1>0, <2>1, <2>3 DEF ReadIsCurrent
    <3>2. \A r \in Refs : sec[r] # None => q.id \in leaky \/ r \in row.refs
      BY <1>0, AtRestOwned
    <3>3. o.kind \notin {"add", "duplicate"}
      BY <1>0, <2>1, <2>3 DEF OpShape
    <3>4. ChangeIsOnItsWay(o, row, sec, leaky)
      BY <2>3, <3>2, <3>3 DEF ChangeIsOnItsWay
    <3>6. OpFits(o, rows[o.id], secrets[o.id], leaky)
      BY <2>1, <2>3, <3>1, <3>4 DEF OpFits, Quiet
    <3> QED
      BY <1>0, <2>1, <2>3, <3>6, QuietKeeps DEF Quiet
  <2> QED
    BY <1>0, <1>1, <2>2, <2>3, SelectStep
<1>2. CASE QuerySecretRefs(c)
  <2>1. Quiet /\ q.pc = "refs"
    BY <1>0, <1>2, QueryStep
  <2>2. CASE Advances(c, Idle)
    BY <1>0, <2>1, <2>2, EndsQuietly DEF Quiet
  <2>3. ASSUME NEW o, Advances(c, o), row \in Rows, o.kind = q.kind, o.id = q.id,
               o.pc = "delRow", o.todo = row.refs
        PROVE  SInv'
    <3>1. row # None
      BY <2>3, StoreAssumption
    <3>2. ReadIsCurrent(o, row, sec) /\ ChangeIsOnItsWay(o, row, sec, leaky)
      BY <2>3, <3>1 DEF ReadIsCurrent, ChangeIsOnItsWay
    <3>4. OpFits(o, rows[o.id], secrets[o.id], leaky)
      BY <2>1, <2>3, <3>2 DEF OpFits, Quiet
    <3> QED
      BY <1>0, <2>1, <2>3, <3>4, QuietKeeps DEF Quiet
  <2> QED
    BY <1>0, <1>2, <2>2, <2>3, QueryStep
<1> QED
  BY <1>1, <1>2

\* A step that writes one credential of its own server, and goes on writing
\* or answers, keeps the promises about all other servers.
LEMMA PutKeeps ==
  ASSUME SInv, TypeInv', OneCaller, NEW c \in Callers, NEW o, Advances(c, o),
         NEW r \in Refs, NEW v, Put(op[c].id, r, v), op[c].pc \in Writing,
         o.pc \in Writing, o.id = op[c].id,
         UNCHANGED <<rows, session, used, acked, unsure, leaky>>,
         OpFits(o, rows[o.id], secrets'[o.id], leaky)
  PROVE  SInv'
<1>1. op'[c] = o /\ \A d \in Callers : d = c
  BY BecomeKeeps, OnlyRequest DEF Advances, SInv
<1>2. RequestsFit'
  BY <1>1 DEF RequestsFit
<1>3. FreshIsEmpty' /\ UnackedIsAbsent'
  BY DEF SInv, FreshIsEmpty, UnackedIsAbsent
<1>4. \A i \in Ids : i # op[c].id => secrets'[i] = secrets[i]
  BY DEF Put, SInv, TypeInv, TypeOK
<1>5. QuietReadsBack'
  <2> SUFFICES ASSUME NEW i \in Ids, i \notin unsure,
                      \A d \in Callers : op'[d].id = i => op'[d].pc \notin Writing
               PROVE  Stored(i)' = acked'[i]
    BY DEF QuietReadsBack
  <2>1. i # op[c].id /\ \A d \in Callers : op[d].id = i => op[d].pc \notin Writing
    BY <1>1
  <2>2. Stored(i)' = Stored(i)
    BY <1>4, <2>1, StoredKept
  <2> QED
    BY <2>1, <2>2 DEF SInv, QuietReadsBack
<1>6. QuietIsOwned'
  <2> SUFFICES ASSUME NEW i \in Ids, NEW s \in Refs, secrets'[i][s] # None,
                      rows[i] = None \/ s \notin rows[i].refs, i \notin leaky
               PROVE  \E d \in Callers : op'[d].id = i /\ op'[d].pc \in Writing
    BY DEF QuietIsOwned
  <2>1. CASE i = op[c].id
    BY <1>1, <2>1
  <2>2. CASE i # op[c].id
    <3>1. \A d \in Callers : op[d].id # i
      BY <1>1, <2>2
    <3> QED
      BY <1>4, <2>2, <3>1 DEF SInv, QuietIsOwned
  <2> QED
    BY <2>1, <2>2
<1> QED
  BY <1>2, <1>3, <1>5, <1>6 DEF SInv

\* What one write does to the credentials of its server.
LEMMA PutIs ==
  ASSUME TypeInv, NEW i \in Ids, NEW r \in Refs, NEW v, Put(i, r, v)
  PROVE  \A s \in Refs : secrets'[i][s] = IF s = r THEN v ELSE secrets[i][s]
BY DEF Put, TypeInv, TypeOK, Credentials

\* Dropping a stale credential, and setting a new one, keep the promises.
LEMMA WriteSecretKeeps ==
  ASSUME SInv, OneCaller, NEW c \in Callers, Drop(c) \/ SetSecret(c)
  PROVE  SInv'
<1> DEFINE q   == op[c]
           row == rows[q.id]
           sec == secrets[q.id]
<1>0. /\ TypeInv /\ TypeInv' /\ q \in Ops /\ OpShape(q, used) /\ q.pc \in {"drop", "setSecrets"}
      /\ ReadIsCurrent(q, row, sec) /\ ChangeIsOnItsWay(q, row, sec, leaky)
      /\ q.pc \in Writing /\ q.id \in Ids /\ q.p \in Profiles /\ q.todo \subseteq Refs
  BY StepTypes, FitsOf, TypesOf, DropStep, SetSecretStep DEF StoreStep, SInv, Writing, Ops
<1>1. CASE Drop(c)
  <2>1. /\ UNCHANGED <<rows, session, used, acked, unsure, leaky>> /\ q.pc = "drop"
        /\ q.todo \cap SecretRefsFor(q.p) = {}
    BY <1>0, <1>1, DropStep DEF OpShape
  <2>2. PICK o, r : /\ Advances(c, o) /\ r \in q.todo /\ Put(q.id, r, None)
                    /\ o.id = q.id /\ o.p = q.p /\ o.kind = q.kind
                    /\ \/ o.pc = "drop" /\ o.todo = q.todo \ {r}
                       \/ /\ q.todo = {r} /\ o.pc \in {"setSecrets", "upsert"}
                          /\ o.todo = SecretRefsFor(o.p)
    BY <1>0, <1>1, DropStep
  <2>3. r \in Refs /\ \A s \in Refs : secrets'[q.id][s] = IF s = r THEN None ELSE sec[s]
    BY <1>0, <2>2, PutIs
  <2>4. q.p.cred[r] = None
    BY <2>1, <2>2, <2>3 DEF SecretRefsFor
  <2>5. ReadIsCurrent(o, row, secrets'[q.id])
    BY <1>0, <2>1, <2>2, <2>3, <2>4 DEF ReadIsCurrent, Held
  <2>6. o.kind \notin {"add", "duplicate"}
    BY <1>0, <2>1, <2>2 DEF OpShape
  <2>7. ChangeIsOnItsWay(o, row, secrets'[q.id], leaky)
    BY <1>0, <2>1, <2>2, <2>3, <2>6 DEF ChangeIsOnItsWay
  <2>9. OpFits(o, rows[o.id], secrets'[o.id], leaky)
    BY <2>2, <2>5, <2>7 DEF OpFits
  <2> QED
    BY <1>0, <2>1, <2>2, <2>3, <2>9, PutKeeps DEF Writing
<1>2. CASE SetSecret(c)
  <2>1. /\ UNCHANGED <<rows, session, used, acked, unsure, leaky>> /\ q.pc = "setSecrets"
        /\ q.todo \subseteq SecretRefsFor(q.p)
    BY <1>0, <1>2, SetSecretStep
  <2>2. PICK o, r : /\ Advances(c, o) /\ r \in q.todo /\ Put(q.id, r, q.p.cred[r])
                    /\ o.id = q.id /\ o.p = q.p /\ o.kind = q.kind
                    /\ o.pc \in {"setSecrets", "upsert"} /\ o.todo = q.todo \ {r}
    BY <1>0, <1>2, SetSecretStep
  <2>3. r \in Refs /\ \A s \in Refs : secrets'[q.id][s] = IF s = r THEN q.p.cred[r] ELSE sec[s]
    BY <1>0, <2>2, PutIs
  <2>4. q.p.cred[r] # None
    BY <2>1, <2>2 DEF SecretRefsFor
  <2>5. ReadIsCurrent(o, row, secrets'[q.id])
    BY <1>0, <2>1, <2>2, <2>3, <2>4 DEF ReadIsCurrent, Held
  <2>6. SecretRefsFor(q.p) \subseteq Refs
    BY DEF SecretRefsFor
  <2>7. ChangeIsOnItsWay(o, row, secrets'[q.id], leaky)
    BY <1>0, <2>1, <2>2, <2>3, <2>6 DEF ChangeIsOnItsWay
  <2>9. OpFits(o, rows[o.id], secrets'[o.id], leaky)
    BY <2>2, <2>5, <2>7 DEF OpFits
  <2> QED
    BY <1>0, <2>1, <2>2, <2>3, <2>9, PutKeeps DEF Writing
<1> QED
  BY <1>1, <1>2

\* A step that touches the server of its request only has to answer for that
\* one.
LEMMA TouchKeeps ==
  ASSUME SInv, TypeInv', OneCaller, NEW c \in Callers, NEW o, Advances(c, o),
         NEW i \in Ids, op[c].id = i, i \in used, o.pc \in Writing => o.id = i,
         \A j \in Ids : j # i => /\ rows'[j] = rows[j] /\ secrets'[j] = secrets[j]
                                 /\ acked'[j] = acked[j] /\ (j \in unsure' <=> j \in unsure),
         leaky \subseteq leaky', used' = used,
         OpFits(o, rows'[o.id], secrets'[o.id], leaky'),
         i \notin unsure' /\ acked'[i] = None => rows'[i] = None,
         o.pc \in Writing \/ i \in unsure' \/ Stored(i)' = acked'[i],
         \/ o.pc \in Writing
         \/ \A r \in Refs : secrets'[i][r] # None =>
               i \in leaky' \/ (rows'[i] # None /\ r \in rows'[i].refs)
  PROVE  SInv'
<1>1. op'[c] = o /\ \A d \in Callers : d = c
  BY BecomeKeeps, OnlyRequest DEF Advances, SInv
<1>2. RequestsFit'
  BY <1>1 DEF RequestsFit
<1>3. FreshIsEmpty' /\ UnackedIsAbsent'
  BY DEF SInv, FreshIsEmpty, UnackedIsAbsent
<1>4. QuietReadsBack'
  <2> SUFFICES ASSUME NEW j \in Ids, j \notin unsure',
                      \A d \in Callers : op'[d].id = j => op'[d].pc \notin Writing
               PROVE  Stored(j)' = acked'[j]
    BY DEF QuietReadsBack
  <2>1. CASE j = i
    BY <1>1, <2>1
  <2>2. CASE j # i
    <3>1. \A d \in Callers : op[d].id # j
      BY <1>1, <2>2
    <3>2. Stored(j)' = Stored(j)
      BY <2>2, StoredKept
    <3> QED
      BY <2>2, <3>1, <3>2 DEF SInv, QuietReadsBack
  <2> QED
    BY <2>1, <2>2
<1>5. QuietIsOwned'
  <2> SUFFICES ASSUME NEW j \in Ids, NEW s \in Refs, secrets'[j][s] # None,
                      rows'[j] = None \/ s \notin rows'[j].refs, j \notin leaky'
               PROVE  \E d \in Callers : op'[d].id = j /\ op'[d].pc \in Writing
    BY DEF QuietIsOwned
  <2>1. CASE j = i
    BY <1>1, <2>1
  <2>2. CASE j # i
    <3>1. \A d \in Callers : op[d].id # j
      BY <1>1, <2>2
    <3> QED
      BY <2>2, <3>1 DEF SInv, QuietIsOwned
  <2> QED
    BY <2>1, <2>2
<1> QED
  BY <1>2, <1>3, <1>4, <1>5 DEF SInv

\* What is stored after the row is written is the profile of the request.
LEMMA WrittenReadsBack ==
  ASSUME NEW i \in Ids, NEW p \in Profiles, NEW row \in Rows, rows'[i] = row,
         row.body = p.body, row.enabled = p.enabled, row.tested = p.tested,
         row.refs = SecretRefsFor(p),
         \A r \in SecretRefsFor(p) : secrets'[i][r] = p.cred[r]
  PROVE  Stored(i)' = p
<1>1. row # None
  BY StoreAssumption
<1>2. p.cred = [r \in Refs |-> IF r \in row.refs THEN secrets'[i][r] ELSE None]
  BY DEF Profiles, Credentials, SecretRefsFor
<1>3. Stored(i)' = [body |-> p.body, enabled |-> p.enabled, tested |-> p.tested, cred |-> p.cred]
  BY <1>1, <1>2 DEF Stored
<1> QED
  BY <1>3 DEF Profiles

\* Writing the row keeps the promises: the credentials are all there.
LEMMA UpsertKeeps ==
  ASSUME SInv, OneCaller, NEW c \in Callers, Upsert(c)
  PROVE  SInv' /\ \A i \in Ids : i = op[c].id => Stored(i)' = op[c].p
<1> DEFINE q   == op[c]
           sec == secrets[q.id]
           row == [body |-> q.p.body, enabled |-> q.p.enabled,
                   tested |-> q.p.tested, refs |-> SecretRefsFor(q.p)]
<1>0. /\ TypeInv /\ TypeInv' /\ OpShape(q, used)
      /\ ReadIsCurrent(q, rows[q.id], sec) /\ ChangeIsOnItsWay(q, rows[q.id], sec, leaky)
      /\ rows \in [Ids -> Rows \cup {None}]
      /\ used \subseteq Ids /\ acked \in [Ids -> Profiles \cup {None}]
  BY StepTypes, FitsOf, TypesOf DEF StoreStep, SInv
<1>1. /\ UNCHANGED <<secrets, session, used>>
      /\ leaky' = leaky \cup {j \in {q.id} : q.kind = "add" /\ ~Covers(q.p, rows[j])}
      /\ q.pc = "upsert" /\ q.todo = {} /\ q.id \in used /\ q.p \in Profiles
      /\ row \in Rows /\ rows' = [rows EXCEPT ![q.id] = row]
      /\ acked' = [acked EXCEPT ![q.id] = q.p] /\ unsure' = unsure \ {q.id}
  BY <1>0, UpsertStep
<1>2. PICK o : /\ Advances(c, o)
               /\ o = Idle \/ (o.id = q.id /\ o.pc = "getRow" /\ o.kind = "get")
  BY <1>0, UpsertStep
<1>3. /\ row.body = q.p.body /\ row.enabled = q.p.enabled /\ row.tested = q.p.tested
      /\ row.refs = SecretRefsFor(q.p)
  OBVIOUS
<1> HIDE DEF row
<1>4. /\ rows'[q.id] = row /\ row # None /\ q.id \in Ids /\ acked'[q.id] = q.p /\ q.p # None
      /\ \A j \in Ids : j # q.id => rows'[j] = rows[j] /\ acked'[j] = acked[j]
  BY <1>0, <1>1, StoreAssumption
<1> PICK i \in Ids : i = q.id
  BY <1>4
<1>5. Stored(i)' = q.p
  <2>1. \A r \in SecretRefsFor(q.p) : secrets'[i][r] = q.p.cred[r]
    BY <1>0, <1>1 DEF ChangeIsOnItsWay
  <2> QED
    BY <1>1, <1>3, <1>4, <2>1, WrittenReadsBack
<1>6. OpFits(o, rows'[o.id], secrets'[o.id], leaky')
  <2>1. CASE o = Idle
    BY <2>1, IdleFits
  <2>2. CASE o.pc = "getRow" /\ o.kind = "get"
    BY <2>2 DEF OpFits, ReadIsCurrent, ChangeIsOnItsWay
  <2> QED
    BY <1>2, <2>1, <2>2
<1>8. \A r \in Refs : secrets'[q.id][r] # None => q.id \in leaky' \/ r \in row.refs
  BY <1>0, <1>1, <1>3 DEF ChangeIsOnItsWay, Covers
<1>9. o.pc \notin Writing
  BY <1>2, IdleShape DEF Writing
<1>10. \A j \in Ids : j # q.id => /\ rows'[j] = rows[j] /\ secrets'[j] = secrets[j]
                                  /\ acked'[j] = acked[j] /\ (j \in unsure' <=> j \in unsure)
  BY <1>1, <1>4
<1> QED
  BY <1>0, <1>1, <1>2, <1>4, <1>5, <1>6, <1>8, <1>9, <1>10, TouchKeeps

\* A server without a row reads as none.
LEMMA AbsentReadsNone ==
  ASSUME NEW i \in Ids, rows'[i] = None PROVE Stored(i)' = None
BY DEF Stored

\* Deleting the row, and then its credentials, keeps the promises.
LEMMA DeleteKeeps ==
  ASSUME SInv, OneCaller, NEW c \in Callers, DeleteRow(c) \/ DeleteSecret(c)
  PROVE  SInv'
<1> DEFINE q == op[c]
<1>0. /\ TypeInv /\ TypeInv' /\ q \in Ops /\ OpShape(q, used)
      /\ q.pc \in {"delRow", "delSecrets"} /\ q.kind = "delete"
      /\ ChangeIsOnItsWay(q, rows[q.id], secrets[q.id], leaky)
      /\ rows \in [Ids -> Rows \cup {None}] /\ q.id \in Ids /\ q.id \in used
      /\ q.todo \subseteq Refs /\ acked \in [Ids -> Profiles \cup {None}]
  <2>1. TypeInv /\ TypeInv' /\ ChangeIsOnItsWay(q, rows[q.id], secrets[q.id], leaky)
    BY StepTypes, FitsOf DEF StoreStep, SInv
  <2>2. q.pc \in {"delRow", "delSecrets"}
    BY DEF DeleteRow, DeleteSecret, At
  <2>3. q.kind = "delete"
    BY <2>1, <2>2, TypesOf DEF OpShape
  <2> QED
    BY <2>1, <2>2, <2>3, TypesOf DEF Ops
<1> PICK i \in Ids : i = q.id
  BY <1>0
<1>1. CASE DeleteRow(c)
  <2>1. /\ UNCHANGED <<secrets, session, used, leaky>> /\ q.pc = "delRow"
        /\ rows' = [rows EXCEPT ![q.id] = None]
    BY <1>0, <1>1, DeleteRowStep
  <2>2. /\ rows'[i] = None /\ \A j \in Ids : j # i => rows'[j] = rows[j]
        /\ rows[i] # None /\ q.todo = rows[i].refs
    BY <1>0, <2>1 DEF ChangeIsOnItsWay
  <2>3. Stored(i)' = None
    BY <1>0, <2>1, <2>2, AbsentReadsNone
  <2>4. \A r \in Refs : secrets[i][r] # None => i \in leaky \/ r \in q.todo
    BY <2>1, <2>2, AtRestOwned DEF Writing
  <2>5. ASSUME NEW o, UNCHANGED <<acked, unsure>>, Advances(c, o), o.kind = "delete", o.id = q.id,
               o.pc = "delSecrets", o.todo = q.todo
        PROVE  SInv'
    <3>1. OpFits(o, rows'[o.id], secrets'[o.id], leaky')
      BY <1>0, <2>1, <2>2, <2>4, <2>5
         DEF OpFits, ReadIsCurrent, ChangeIsOnItsWay
    <3> QED
      BY <1>0, <2>1, <2>2, <2>3, <2>5, <3>1, TouchKeeps DEF Writing
  <2>6. CASE /\ q.todo = {} /\ Advances(c, Idle)
             /\ acked' = [acked EXCEPT ![q.id] = None] /\ unsure' = unsure \ {q.id}
    <3>1. OpFits(Idle, rows'[Idle.id], secrets'[Idle.id], leaky') /\ Idle.pc \notin Writing
      BY IdleFits, IdleShape DEF Writing
    <3>2. acked'[i] = None /\ \A j \in Ids : j # i => acked'[j] = acked[j]
      BY <1>0, <2>6
    <3>3. \A r \in Refs : secrets'[i][r] # None => i \in leaky
      BY <2>1, <2>4, <2>6
    <3> QED
      BY <1>0, <2>1, <2>2, <2>3, <2>6, <3>1, <3>2, <3>3, TouchKeeps
  <2> QED
    BY <1>0, <1>1, <2>2, <2>5, <2>6, DeleteRowStep
<1>2. CASE DeleteSecret(c)
  <2>1. /\ q.pc = "delSecrets" /\ UNCHANGED <<rows, session, used, leaky>>
    BY <1>2 DEF DeleteSecret, At, history, Acknowledge
  <2>2. PICK r \in q.todo :
          /\ Put(q.id, r, None) /\ Deleted(c, r)
          /\ IF q.todo = {r} THEN Acknowledge(q.id, None) ELSE UNCHANGED history
    BY <1>2 DEF DeleteSecret, Put
  <2>3. /\ r \in Refs
        /\ \A s \in Refs : secrets'[i][s] = IF s = r THEN None ELSE secrets[i][s]
        /\ \A j \in Ids : j # i => secrets'[j] = secrets[j]
    <3>1. r \in Refs /\ \A s \in Refs : secrets'[i][s] = IF s = r THEN None ELSE secrets[i][s]
      BY <1>0, <2>2, PutIs
    <3> QED
      BY <1>0, <2>2, <3>1, TypesOf DEF Put
  <2>4. rows[i] = None /\ \A s \in Refs : secrets[i][s] # None => s \in q.todo \/ i \in leaky
    BY <1>0, <2>1 DEF ChangeIsOnItsWay
  <2>5. CASE q.todo = {r}
    <3>1. Advances(c, Idle) /\ acked' = [acked EXCEPT ![q.id] = None] /\ unsure' = unsure \ {q.id}
      BY <1>0, <2>1, <2>2, <2>5, DeletedStep DEF Acknowledge
    <3>2. OpFits(Idle, rows'[Idle.id], secrets'[Idle.id], leaky') /\ Idle.pc \notin Writing
      BY IdleFits, IdleShape DEF Writing
    <3>3. acked'[i] = None /\ \A j \in Ids : j # i => acked'[j] = acked[j]
      BY <1>0, <3>1
    <3>4. \A s \in Refs : secrets'[i][s] # None => i \in leaky
      BY <2>3, <2>4, <2>5
    <3>5. Stored(i)' = None
      BY <2>1, <2>4, AbsentReadsNone
    <3> QED
      BY <1>0, <2>1, <2>3, <2>4, <3>1, <3>2, <3>3, <3>4, <3>5, TouchKeeps
  <2>6. CASE q.todo # {r}
    <3>1. UNCHANGED <<acked, unsure>>
      BY <2>2, <2>6 DEF history
    <3>2. PICK o : /\ Advances(c, o) /\ o.kind = "delete" /\ o.id = q.id
                   /\ o.pc = "delSecrets" /\ o.todo = q.todo \ {r}
      BY <1>0, <2>1, <2>2, <2>6, DeletedStep
    <3>3. OpFits(o, rows[o.id], secrets'[o.id], leaky)
      BY <1>0, <2>1, <2>3, <2>4, <3>2
         DEF OpFits, ReadIsCurrent, ChangeIsOnItsWay
    <3> QED
      BY <1>0, <2>1, <2>2, <2>3, <3>1, <3>2, <3>3, PutKeeps DEF Writing
  <2> QED
    BY <2>5, <2>6
<1> QED
  BY <1>1, <1>2

\* An access that fails, and a deletion whose failure nobody sees, keep the
\* promises: the server is in doubt, or leaky.
LEMMA FailureKeeps ==
  ASSUME SInv, OneCaller, NEW c \in Callers, AccessFails(c) \/ DropFails(c)
  PROVE  SInv'
<1> DEFINE q == op[c]
<1>0. /\ TypeInv /\ TypeInv' /\ OpShape(q, used) /\ q.id \in Ids /\ q.id \in used
      /\ ReadIsCurrent(q, rows[q.id], secrets[q.id])
      /\ ChangeIsOnItsWay(q, rows[q.id], secrets[q.id], leaky)
      /\ acked \in [Ids -> Profiles \cup {None}]
  BY StepTypes, FitsOf, TypesOf, AccessFailsStep, DropFailsStep DEF StoreStep, SInv
<1> PICK i \in Ids : i = q.id
  BY <1>0
<1>1. OpFits(Idle, rows'[Idle.id], secrets'[Idle.id], leaky') /\ Idle.pc \notin Writing
  BY IdleFits, IdleShape DEF Writing
<1>2. rows[i] = None => Stored(i) = None
  BY DEF Stored
<1>3. CASE AccessFails(c)
  <2>1. /\ UNCHANGED <<rows, secrets, session, used, acked>> /\ Advances(c, Idle)
        /\ \/ q.pc \notin Writing /\ UNCHANGED <<unsure, leaky>>
           \/ /\ q.pc \in Writing /\ leaky' = leaky \cup {q.id}
              /\ unsure' = unsure \cup {j \in {q.id} : acked[j] # None}
    BY <1>0, <1>3, AccessFailsStep
  <2>2. CASE q.pc \notin Writing
    BY <1>0, <2>1, <2>2, EndsQuietly
  <2>3. CASE q.pc \in Writing
    <3>1. i \in leaky' /\ (i \notin unsure' => i \notin unsure /\ acked[i] = None)
      BY <2>1, <2>3
    <3>2. i \notin unsure' => rows[i] = None
      BY <3>1 DEF SInv, UnackedIsAbsent
    <3>3. Stored(i)' = Stored(i)
      BY <2>1, StoredKept
    <3>4. i \in unsure' \/ Stored(i)' = acked'[i]
      BY <1>2, <2>1, <3>1, <3>2, <3>3
    <3>5. /\ \A j \in Ids : j # i => /\ rows'[j] = rows[j] /\ secrets'[j] = secrets[j]
                                     /\ acked'[j] = acked[j] /\ (j \in unsure' <=> j \in unsure)
          /\ leaky \subseteq leaky'
      BY <2>1, <2>3
    <3> QED
      BY <1>0, <1>1, <2>1, <3>1, <3>2, <3>4, <3>5, TouchKeeps
  <2> QED
    BY <2>2, <2>3
<1>4. CASE DropFails(c)
  <2>1. /\ UNCHANGED <<rows, secrets, session, used>> /\ leaky' = leaky \cup {q.id}
        /\ q.pc \in {"drop", "delSecrets"}
    BY <1>0, <1>4, DropFailsStep
  <2>2. ASSUME NEW o, UNCHANGED <<acked, unsure>>, Advances(c, o), o.id = q.id, o.pc \in Writing,
               OpFits(o, rows[q.id], secrets[q.id], leaky')
        PROVE  SInv'
    <3>1. i \notin unsure' /\ acked'[i] = None => rows'[i] = None
      BY <2>1, <2>2 DEF SInv, UnackedIsAbsent
    <3> QED
      BY <1>0, <2>1, <2>2, <3>1, TouchKeeps
  <2>3. ASSUME q.pc = "drop", q.p \in Profiles, UNCHANGED <<acked, unsure>>,
               NEW o, Advances(c, o), o.id = q.id, o.p = q.p, o.kind = q.kind,
               \/ o.pc = "drop"
               \/ o.pc \in {"setSecrets", "upsert"} /\ o.todo = SecretRefsFor(o.p)
        PROVE  SInv'
    <3>1. o.kind \notin {"add", "duplicate"}
      BY <1>0, <2>3 DEF OpShape
    <3>2. ReadIsCurrent(o, rows[q.id], secrets[q.id])
      BY <1>0, <2>3 DEF ReadIsCurrent
    <3>3. ChangeIsOnItsWay(o, rows[q.id], secrets[q.id], leaky')
      BY <1>0, <2>1, <2>3, <3>1 DEF ChangeIsOnItsWay
    <3> QED
      BY <2>2, <2>3, <3>2, <3>3 DEF OpFits, Writing
  <2>4. ASSUME q.pc = "delSecrets", UNCHANGED <<acked, unsure>>,
               NEW o, Advances(c, o), o.kind = "delete", o.id = q.id, o.pc = "delSecrets"
        PROVE  SInv'
    <3>1. q.kind = "delete"
      BY <1>0, <2>4 DEF OpShape
    <3>2. ChangeIsOnItsWay(o, rows[q.id], secrets[q.id], leaky')
      BY <1>0, <2>1, <2>4 DEF ChangeIsOnItsWay
    <3>3. ReadIsCurrent(o, rows[q.id], secrets[q.id])
      BY <1>0, <2>4, <3>1 DEF ReadIsCurrent
    <3> QED
      BY <2>2, <2>4, <3>2, <3>3 DEF OpFits, Writing
  <2>5. CASE /\ q.pc = "delSecrets" /\ Advances(c, Idle)
             /\ acked' = [acked EXCEPT ![q.id] = None] /\ unsure' = unsure \ {q.id}
    <3>1. rows[i] = None
      BY <1>0, <2>5 DEF ChangeIsOnItsWay
    <3>2. Stored(i)' = None
      BY <2>1, <3>1, AbsentReadsNone
    <3>3. acked'[i] = None /\ \A j \in Ids : j # i => acked'[j] = acked[j]
      BY <1>0, <2>5
    <3>4. /\ \A j \in Ids : j # i => /\ rows'[j] = rows[j] /\ secrets'[j] = secrets[j]
                                     /\ acked'[j] = acked[j] /\ (j \in unsure' <=> j \in unsure)
          /\ leaky \subseteq leaky' /\ i \in leaky' /\ rows'[i] = None /\ Advances(c, Idle)
          /\ Stored(i)' = acked'[i] /\ op[c].id = i /\ i \in used /\ used' = used
      BY <1>0, <2>1, <2>5, <3>1, <3>2, <3>3
    <3>5. TypeInv'
      BY <1>0, <2>1
    <3> HIDE DEF q
    <3> QED
      BY <1>1, <3>4, <3>5, TouchKeeps
  <2> QED
    BY <1>0, <1>4, <2>3, <2>4, <2>5, DropFailsStep
<1> QED
  BY <1>3, <1>4

\* The process may die at any step: a creation then leaves no server, and
\* every other change leaves its server in doubt.
LEMMA CrashKeeps ==
  ASSUME SInv, TypeInv', StoreCrash
  PROVE  SInv'
<1> DEFINE ids == {op[c].id : c \in {d \in Callers : op[d].pc \in Writing}}
<1>1. /\ op' = [c \in Callers |-> Idle] /\ session' = None /\ UNCHANGED <<rows, secrets, used, acked>>
      /\ unsure' = unsure \cup {i \in ids : acked[i] # None} /\ leaky' = leaky \cup ids
  BY DEF StoreCrash, LeaveInDoubt, stores
<1>2. \A d \in Callers : op[d].pc \in Writing => op[d].id \in ids
  OBVIOUS
<1> HIDE DEF ids
<1>3. RequestsFit'
  BY <1>1, IdleFits DEF RequestsFit
<1>4. FreshIsEmpty' /\ UnackedIsAbsent'
  BY <1>1 DEF SInv, FreshIsEmpty, UnackedIsAbsent
<1>5. QuietReadsBack'
  <2> SUFFICES ASSUME NEW i \in Ids, i \notin unsure' PROVE Stored(i)' = acked'[i]
    BY DEF QuietReadsBack
  <2>1. Stored(i)' = Stored(i) /\ i \notin unsure
    BY <1>1, StoredKept
  <2>2. CASE i \in ids
    <3>1. acked[i] = None
      BY <1>1, <2>2
    <3>2. rows[i] = None
      BY <2>1, <3>1 DEF SInv, UnackedIsAbsent
    <3> QED
      BY <1>1, <2>1, <3>1, <3>2 DEF Stored
  <2>3. CASE i \notin ids
    <3>1. \A d \in Callers : op[d].id = i => op[d].pc \notin Writing
      BY <1>2, <2>3
    <3> QED
      BY <1>1, <2>1, <3>1 DEF SInv, QuietReadsBack
  <2> QED
    BY <2>2, <2>3
<1>6. QuietIsOwned'
  BY <1>1, <1>2 DEF SInv, QuietIsOwned
<1> QED
  BY <1>3, <1>4, <1>5, <1>6 DEF SInv

\* Every step of the stores keeps their promises.
LEMMA StoresAreInductive ==
  ASSUME OneCaller PROVE SInv /\ [StoreNext]_vars => SInv'
<1> SUFFICES ASSUME SInv, [StoreNext]_vars PROVE SInv'
  OBVIOUS
<1>1. TypeInv'
  BY TypesAreInductive DEF SInv
<1>2. CASE Crash
  BY <1>1, <1>2, CrashKeeps DEF Crash
<1>3. CASE EndSession
  <2>1. session' = None /\ UNCHANGED <<rows, secrets, op, used, acked, unsure, leaky>>
    BY <1>3 DEF EndSession, stores, history
  <2>2. RequestsFit'
    BY <2>1 DEF SInv, RequestsFit, OpFits
  <2>3. QuietReadsBack'
    BY <2>1 DEF SInv, QuietReadsBack, Stored
  <2> QED
    BY <1>1, <2>1, <2>2, <2>3
       DEF SInv, FreshIsEmpty, UnackedIsAbsent, QuietIsOwned
<1>4. ASSUME NEW c \in Callers, StoreStep(c) PROVE SInv'
  BY <1>4, ReadKeeps, LookKeeps, WriteSecretKeeps, UpsertKeeps, DeleteKeeps, FailureKeeps
     DEF StoreStep
<1>5. CASE UNCHANGED vars
  <2>1. UNCHANGED <<rows, secrets, op, session, used, acked, unsure, leaky>>
    BY <1>5 DEF vars
  <2>2. QuietReadsBack'
    BY <2>1 DEF SInv, QuietReadsBack, Stored
  <2> QED
    BY <1>1, <2>1, <2>2
       DEF SInv, RequestsFit, FreshIsEmpty, UnackedIsAbsent, QuietIsOwned
<1> QED
  BY <1>2, <1>3, <1>4, <1>5, RequestKeeps DEF StoreNext

\* The stores begin empty.
LEMMA StoresBegin == StoreInit => SInv
<1> SUFFICES ASSUME StoreInit PROVE SInv
  OBVIOUS
<1>1. op \in [Callers -> Ops] /\ \A c \in Callers : OpShape(op[c], used)
  BY IdleShape DEF StoreInit
<1>2. TypeOK
  BY <1>1, StoreAssumption DEF StoreInit, TypeOK, Credentials, Ops
<1>3. RequestsFit
  BY IdleFits DEF RequestsFit, StoreInit
<1>4. QuietReadsBack
  BY DEF QuietReadsBack, Stored, StoreInit
<1> QED
  BY <1>1, <1>2, <1>3, <1>4
     DEF SInv, TypeInv, FreshIsEmpty, UnackedIsAbsent, QuietIsOwned, StoreInit

\* The inductive invariant holds throughout.
LEMMA StoresHold == ASSUME OneCaller PROVE StoreSpec => []SInv
<1>1. StoreInit => SInv
  BY StoresBegin
<1>2. SInv /\ [StoreNext]_vars => SInv'
  BY StoresAreInductive
<1> QED
  BY <1>1, <1>2, PTL DEF StoreSpec

\* What was acknowledged reads back, and a creation that failed or was cut
\* short leaves no server.
THEOREM AcknowledgedIsDurable == ASSUME OneCaller PROVE StoreSpec => []StoreInv
<1>1. SInv => StoreInv
  BY DEF SInv, TypeInv, QuietReadsBack, StoreInv, AckedReadsBack, Busy
<1> QED
  BY <1>1, StoresHold, PTL

\* No credential outlives the profile that named it, but for servers whose
\* change failed or was cut short and for those added over an existing one.
THEOREM NoStraySecrets == ASSUME OneCaller PROVE StoreSpec => []SecretsAreOwned
<1>1. SInv => SecretsAreOwned
  BY DEF SInv, QuietIsOwned, SecretsAreOwned, Busy
<1> QED
  BY <1>1, StoresHold, PTL

\* Replacing the latency column of a profile.
LEMMA SetTested ==
  ASSUME NEW q \in Profiles, NEW p \in Profiles,
         q.body = p.body, q.enabled = p.enabled, q.cred = p.cred, p.tested
  PROVE  [q EXCEPT !.tested = TRUE] = p
BY DEF Profiles

\* What a request for a change of one column has read is what is stored, at
\* every later step of it.
LEMMA ReadIsStored ==
  ASSUME SInv, NEW c \in Callers, op[c].kind \in {"latency", "toggle"},
         op[c].pc \in {"drop", "setSecrets", "upsert"}
  PROVE  /\ op[c].id \in Ids /\ op[c].p \in Profiles /\ rows[op[c].id] \in Rows
         /\ op[c].p.body = rows[op[c].id].body
         /\ \A r \in Refs : op[c].p.cred[r] = Held(rows[op[c].id], secrets[op[c].id], r)
         /\ op[c].kind = "latency" => op[c].p.enabled = rows[op[c].id].enabled /\ op[c].p.tested = TRUE
         /\ op[c].kind = "toggle" =>
               op[c].p.tested = rows[op[c].id].tested /\ op[c].p.enabled = ~rows[op[c].id].enabled
<1>1. ReadIsCurrent(op[c], rows[op[c].id], secrets[op[c].id]) /\ TypeInv
  BY FitsOf
<1>2. op[c].id \in Ids /\ op[c].p \in Profiles /\ rows[op[c].id] \in Rows \cup {None}
  BY <1>1, TypesOf DEF OpShape, Holding
<1> QED
  BY <1>1, <1>2 DEF ReadIsCurrent

\* Writing the row of such a request changes its own column.
LEMMA UpsertSetsColumn ==
  ASSUME SInv, OneCaller, NEW c \in Callers, NEW i \in Ids, op[c].id = i, Upsert(c)
  PROVE  /\ op[c].kind = "latency" => Stored(i)' = [Stored(i) EXCEPT !.tested = TRUE]
         /\ op[c].kind = "toggle" => Stored(i)' = [Stored(i) EXCEPT !.enabled = ~@]
<1> DEFINE p == op[c].p
<1>1. Stored(i)' = p /\ op[c].pc = "upsert" /\ p \in Profiles
  BY UpsertKeeps, UpsertStep DEF SInv
<1>2. ASSUME op[c].kind \in {"latency", "toggle"}
      PROVE  /\ rows[i] \in Rows /\ p.body = rows[i].body
             /\ p.cred = [r \in Refs |-> IF r \in rows[i].refs THEN secrets[i][r] ELSE None]
             /\ Stored(i) = [body |-> p.body, enabled |-> rows[i].enabled,
                             tested |-> rows[i].tested, cred |-> p.cred]
  <2>1. /\ rows[i] \in Rows /\ rows[i] # None /\ p.body = rows[i].body
        /\ \A r \in Refs : p.cred[r] = Held(rows[i], secrets[i], r)
    BY <1>1, <1>2, ReadIsStored, StoreAssumption
  <2>2. p.cred = [r \in Refs |-> IF r \in rows[i].refs THEN secrets[i][r] ELSE None]
    BY <1>1, <2>1 DEF Held, Profiles, Credentials
  <2> QED
    BY <2>1, <2>2 DEF Stored
<1>3. CASE op[c].kind = "latency"
  <2>1. p.enabled = rows[i].enabled /\ p.tested = TRUE
    BY <1>1, <1>3, ReadIsStored
  <2>2. Stored(i) \in Profiles
    BY <1>1, <1>2, <1>3 DEF Profiles, Rows
  <2>3. Stored(i).body = p.body /\ Stored(i).enabled = p.enabled /\ Stored(i).cred = p.cred
    BY <1>2, <1>3, <2>1
  <2>4. Stored(i)' = [Stored(i) EXCEPT !.tested = TRUE]
    BY <1>1, <2>1, <2>2, <2>3, SetTested
  <2>5. op[c].kind # "toggle"
    BY <1>3
  <2> QED
    BY <2>4, <2>5, Zenon
<1>4. CASE op[c].kind = "toggle"
  <2>1. p.enabled = ~rows[i].enabled /\ p.tested = rows[i].tested
    BY <1>1, <1>4, ReadIsStored
  <2>2. p = [body |-> p.body, enabled |-> p.enabled, tested |-> p.tested, cred |-> p.cred]
    BY <1>1 DEF Profiles
  <2> QED
    BY <1>1, <1>2, <1>4, <2>1, <2>2
<1> QED
  BY <1>3, <1>4

\* Dropping and setting credentials on the way there changes nothing: what is
\* dropped is not there, what is set is there already.
LEMMA RewriteIsSilent ==
  ASSUME SInv, NEW c \in Callers, NEW i \in Ids, op[c].id = i,
         op[c].kind \in {"latency", "toggle"}, Drop(c) \/ SetSecret(c)
  PROVE  Stored(i)' = Stored(i)
<1>1. /\ TypeInv /\ op[c].pc \in {"drop", "setSecrets"} /\ rows' = rows
      /\ OpShape(op[c], used) /\ op[c].todo \subseteq Refs
  BY DropStep, SetSecretStep, TypesOf DEF SInv, Ops
<1>2. /\ op[c].p \in Profiles /\ rows[i] \in Rows
      /\ \A r \in Refs : op[c].p.cred[r] = Held(rows[i], secrets[i], r)
  BY <1>1, ReadIsStored
<1>3. PICK r \in op[c].todo : Put(i, r, op[c].p.cred[r])
  <2>1. CASE Drop(c)
    <3>1. PICK r \in op[c].todo : Put(i, r, None)
      BY <1>1, <2>1, DropStep
    <3>2. op[c].pc = "drop"
      BY <1>1, <2>1, DropStep
    <3>3. op[c].p.cred[r] = None
      BY <1>1, <3>1, <3>2 DEF OpShape, SecretRefsFor
    <3> QED
      BY <3>1, <3>3
  <2>2. CASE SetSecret(c)
    BY <1>1, <2>2, SetSecretStep
  <2> QED
    BY <2>1, <2>2
<1>4. \A s \in Refs : secrets'[i][s] = IF s = r THEN op[c].p.cred[r] ELSE secrets[i][s]
  BY <1>1, <1>3, PutIs
<1>5. \A s \in Refs : s \in rows[i].refs => secrets'[i][s] = secrets[i][s]
  BY <1>1, <1>2, <1>3, <1>4 DEF Held
<1> QED
  BY <1>1, <1>5, StoredKept

\* A latency test and a toggle rewrite the whole profile in many accesses, and
\* none of them, whatever fails or dies on the way, changes what a Get returns
\* but for their own column: what is stored has not moved since it was read.
THEOREM ColumnsAreKept == ASSUME OneCaller PROVE StoreSpec => OnlyItsColumn
<1> DEFINE A == \A c \in Callers, i \in Ids :
                  op[c].id = i /\ op[c].pc # "idle" /\ Stored(i)' # Stored(i) =>
                    /\ op[c].kind = "latency" => Stored(i)' = [Stored(i) EXCEPT !.tested = TRUE]
                    /\ op[c].kind = "toggle"  => Stored(i)' = [Stored(i) EXCEPT !.enabled = ~@]
<1>1. ASSUME SInv, [StoreNext]_vars PROVE [A]_vars
  <2> SUFFICES ASSUME NEW c \in Callers, NEW i \in Ids, StoreNext,
                      op[c].id = i, op[c].pc # "idle", Stored(i)' # Stored(i),
                      op[c].kind \in {"latency", "toggle"}
               PROVE  /\ op[c].kind = "latency" => Stored(i)' = [Stored(i) EXCEPT !.tested = TRUE]
                      /\ op[c].kind = "toggle" => Stored(i)' = [Stored(i) EXCEPT !.enabled = ~@]
    BY <1>1
  <2>1. StoreStep(c)
    <3>1. ASSUME NEW d \in Callers PROVE d = c
      BY OnlyRequest
    <3>2. ~Crash /\ ~EndSession
      BY StoredKept DEF Crash, StoreCrash, EndSession, stores
    <3>3. ~Request(c)
      BY DEF Request, AddServer, UpdateServer, DeleteServer, ReadServer, Ask, At
    <3> QED
      BY <3>1, <3>2, <3>3 DEF StoreNext
  <2>2. ~UNCHANGED <<rows, secrets>>
    BY StoredKept
  <2>3. Drop(c) \/ SetSecret(c) \/ Upsert(c) \/ DeleteRow(c) \/ DeleteSecret(c)
    BY <2>1, <2>2 DEF StoreStep, GetRow, GetSecret, GotProfile, Dial, Select,
                      QuerySecretRefs, AccessFails, DropFails, stores
  <2>4. ~DeleteRow(c) /\ ~DeleteSecret(c)
    <3>1. OpShape(op[c], used)
      BY <1>1, TypesOf DEF SInv
    <3> QED
      BY <3>1 DEF OpShape, DeleteRow, DeleteSecret, At
  <2>5. Upsert(c)
    BY <1>1, <2>3, <2>4, RewriteIsSilent
  <2> QED
    BY <1>1, <2>5, UpsertSetsColumn
<1> QED
  BY <1>1, StoresHold, PTL DEF StoreSpec, OnlyItsColumn
=============================================================================
