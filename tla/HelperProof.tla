----------------------------- MODULE HelperProof ----------------------------
(***************************************************************************)
(* What Helper promises, for any number of calls, connections, helper      *)
(* processes and pings, with helpers that crash and answers that come too  *)
(* late.                                                                   *)
(*                                                                         *)
(* The client's bookkeeping is sound: numbers are fresh, channels empty    *)
(* until they are answered (BookInv).  After Stop every engine is doomed,  *)
(* and after a good Start it is up (LifeInv): both rest on the order in    *)
(* which the one open connection delivers its requests.                    *)
(***************************************************************************)
EXTENDS Helper, TLAPS

-----------------------------------------------------------------------------
(* Types and numbers.                                                      *)

Elems(s) == {s[n] : n \in 1 .. Len(s)}

\* Only a quit has no number.
UpMsgs ==
    {m \in [type : {"connect", "disconnect", "ping", "quit"}, seq : {0} \cup Seqs] :
        m.type # "quit" => m.seq \in Seqs}
DownMsgs == [seq : Seqs, ok : BOOLEAN]

\* A thread whose request was sent and not given up.
InFlight(t) == at[t] \in {"sent", "await"}

RunnerTypes ==
    /\ app \in {"up", "closing", "gone"}
    /\ ops \in 0 .. MaxOps
    /\ call \in {"none", "start", "stop"}
    /\ outcome \in {"none", "started", "failed", "stopped"}
    /\ mode \in {"vpn", "proxy"}
    /\ conns \in 0 .. MaxConns /\ client \in 0 .. conns
    /\ procs \in 0 .. MaxProcs

ThreadTypes ==
    /\ at \in [Threads -> {"idle", "ensure", "spawned", "send", "sent", "await", "dead"}]
    /\ on \in [Threads -> {0} \cup Conns] /\ \A k \in Conns : on[k] = k
    /\ \A t \in Threads : at[t] \in {"send", "sent", "await"} => on[t] \in 1 .. conns
    /\ seq \in [Threads -> {0} \cup Seqs]
    /\ pings \in [Conns -> 0 .. MaxPings]

ClientTypes ==
    /\ counter \in [Conns -> Nat]
    /\ pending \in [Conns -> SUBSET Seqs]
    /\ box \in [Conns -> [Seqs -> Seq(BOOLEAN)]]
    /\ closed \subseteq Conns /\ intentional \subseteq Conns /\ lost \subseteq Conns
    /\ up \in [Conns -> Seq(UpMsgs)] /\ down \in [Conns -> Seq(DownMsgs)]

HostTypes ==
    /\ peer \in [Conns -> {0} \cup Procs] /\ path \in {0} \cup Procs
    /\ host \in [Procs -> {"none", "spawned", "listening", "serving", "starting", "gone"}]
    /\ serves \in [Procs -> {0} \cup Conns] /\ eng \subseteq Procs

Types == RunnerTypes /\ ThreadTypes /\ ClientTypes /\ HostTypes /\ inProc \in BOOLEAN

\* A connection's counter is at most the calls and pings that were to use it;
\* those that have not yet are left over.
One(c) == IF c THEN 1 ELSE 0
Numbered ==
    \A k \in Conns : counter[k] + One(at[k] = "send") + One(at[Op] \in {"ensure", "spawned", "send"})
                     <= ops + pings[k]

\* No number above the counter was used, and no number belongs to two threads.
FreshNumbers ==
    /\ \A t \in Threads : InFlight(t) => seq[t] \in 1 .. counter[on[t]]
    /\ \A t, u \in Threads : InFlight(t) /\ InFlight(u) /\ on[t] = on[u] /\ seq[t] = seq[u] => t = u
    /\ \A k \in Conns, s \in Seqs : s > counter[k] => box[k][s] = <<>>
    /\ \A k \in Conns : \A m \in Elems(up[k]) \cup Elems(down[k]) : m.seq <= counter[k]

\* A registered channel is empty and belongs to a request that waits for it; a
\* channel that is not registered yet is empty too.
EmptyChannels ==
    /\ \A k \in Conns : \A s \in pending[k] :
          /\ box[k][s] = <<>>
          /\ \E t \in Threads : at[t] = "await" /\ on[t] = k /\ seq[t] = s
    /\ \A t \in Threads : at[t] = "sent" => box[on[t]][seq[t]] = <<>>
    /\ \A k \in Conns, s \in Seqs : Len(box[k][s]) <= 1

EndedOnce == lost \subseteq closed /\ QuitIsNoLoss

\* Where the runner's call is.
CallPlaces ==
    /\ app # "gone" => (call = "none" <=> at[Op] = "idle")
    /\ call = "start" => mode = "vpn" /\ outcome \in {"none", "stopped"}
    /\ call = "stop" => at[Op] \in {"send", "sent", "await"}
    /\ call # "none" => app = "up" /\ at[Op] # "dead"
    /\ app # "gone" /\ at[Op] \in {"send", "sent", "await"} => on[Op] = client
    /\ inProc => mode = "proxy" /\ outcome = "started" /\ call = "none"

BookInv == Types /\ CallPlaces /\ Numbered /\ FreshNumbers /\ EmptyChannels /\ EndedOnce

-----------------------------------------------------------------------------
(* Sequences.                                                              *)

\* What a queue holds after a message is added or taken.
LEMMA ElemsFacts ==
  ASSUME NEW S, NEW s \in Seq(S)
  PROVE  /\ \A e : Elems(Append(s, e)) = Elems(s) \cup {e}
         /\ \A e \in S : Append(s, e) \in Seq(S)
         /\ s # <<>> => /\ Tail(s) \in Seq(S) /\ Head(s) \in S /\ Head(s) \in Elems(s)
                        /\ Elems(Tail(s)) \subseteq Elems(s)
         /\ Elems(<<>>) = {} /\ <<>> \in Seq(S) /\ Elems(s) \subseteq S
<1>1. ASSUME NEW e PROVE Elems(Append(s, e)) = Elems(s) \cup {e}
  <2> DEFINE t == Append(s, e)
  <2>1. /\ Len(s) \in Nat /\ Len(t) = Len(s) + 1 /\ t[Len(s) + 1] = e
        /\ \A n \in 1 .. Len(s) : t[n] = s[n]
    OBVIOUS
  <2> HIDE DEF t
  <2>2. 1 .. Len(t) = (1 .. Len(s)) \cup {Len(s) + 1}
    BY <2>1
  <2>3. Elems(t) = Elems(s) \cup {e}
    BY <2>1, <2>2 DEF Elems
  <2> QED
    BY <2>3 DEF t
<1>2. ASSUME s # <<>>
      PROVE  /\ Tail(s) \in Seq(S) /\ Head(s) \in S /\ Head(s) \in Elems(s)
             /\ Elems(Tail(s)) \subseteq Elems(s)
  <2>1. /\ Len(s) \in Nat \ {0} /\ Len(Tail(s)) = Len(s) - 1 /\ Head(s) = s[1]
        /\ \A n \in 1 .. Len(s) - 1 : Tail(s)[n] = s[n + 1]
        /\ Tail(s) \in Seq(S)
    BY <1>2
  <2>2. Head(s) \in Elems(s) /\ Head(s) \in S
    BY <2>1 DEF Elems
  <2>3. ASSUME NEW n \in 1 .. Len(Tail(s)) PROVE Tail(s)[n] \in Elems(s)
    <3>1. n \in 1 .. Len(s) - 1 /\ n + 1 \in 1 .. Len(s)
      BY <2>1
    <3> QED
      BY <2>1, <3>1 DEF Elems
  <2> QED
    BY <2>1, <2>2, <2>3 DEF Elems
<1>3. Elems(<<>>) = {} /\ <<>> \in Seq(S) /\ Elems(s) \subseteq S
  BY DEF Elems
<1> QED
  BY <1>1, <1>2, <1>3

-----------------------------------------------------------------------------
(* What the shared operators of the client do.                             *)

\* close: channels that are registered get an error and are not registered any
\* more; nothing else is added but a quit, and what the helper sent is gone.
CloseEffect(W) ==
    /\ ClientTypes'
    /\ closed \subseteq closed' /\ intentional \subseteq intentional'
    /\ \A j \in Conns : pending'[j] \subseteq W[j]
    /\ \A j \in Conns, s \in Seqs :
          \/ box'[j][s] = box[j][s]
          \/ /\ Len(box'[j][s]) = Len(box[j][s]) + 1
             /\ s \in W[j] /\ s \notin pending'[j] /\ j \in closed'
    /\ \A j \in Conns : \/ up'[j] = up[j]
                        \/ up'[j] = Append(up[j], [type |-> "quit", seq |-> 0]) /\ j \in closed'
    /\ \A j \in Conns : down'[j] = down[j] \/ (down'[j] = <<>> /\ j \in closed')

\* CloseWith has that effect.
LEMMA CloseFacts ==
  ASSUME ClientTypes, NEW k \in Conns, NEW q \in BOOLEAN, NEW W \in [Conns -> SUBSET Seqs],
         CloseWith(k, q, W), UNCHANGED <<counter>>, lost' \subseteq Conns
  PROVE  /\ CloseEffect(W)
         /\ closed' = closed \cup {k}
         /\ intentional' = (IF q /\ k \notin closed THEN intentional \cup {k} ELSE intentional)
<1> USE DEF ClientTypes
<1>1. CASE k \in closed
  <2>1. pending' = W /\ UNCHANGED <<box, closed, intentional, up, down>>
    BY <1>1 DEF CloseWith
  <2>2. closed' = closed \cup {k}
    BY <1>1, <2>1
  <2> QED
    BY <1>1, <2>1, <2>2 DEF CloseEffect
<1>2. CASE k \notin closed
  <2> DEFINE quit == [type |-> "quit", seq |-> 0]
             bx == [s \in Seqs |-> IF s \in W[k] THEN Append(box[k][s], FALSE) ELSE box[k][s]]
  <2>1. /\ closed' = closed \cup {k}
        /\ intentional' = (IF q THEN intentional \cup {k} ELSE intentional)
        /\ pending' = [W EXCEPT ![k] = {}]
        /\ box' = [box EXCEPT ![k] = bx]
        /\ up' = IF q THEN [up EXCEPT ![k] = Append(up[k], quit)] ELSE up
        /\ down' = [down EXCEPT ![k] = <<>>]
    BY <1>2 DEF CloseWith
  <2>2. /\ bx \in [Seqs -> Seq(BOOLEAN)]
        /\ \A s \in Seqs : bx[s] = box[k][s] \/ (Len(bx[s]) = Len(box[k][s]) + 1 /\ s \in W[k])
    <3>1. \A b \in Seq(BOOLEAN) : Append(b, FALSE) \in Seq(BOOLEAN) /\ Len(Append(b, FALSE)) = Len(b) + 1
      OBVIOUS
    <3>2. \A s \in Seqs : box[k][s] \in Seq(BOOLEAN)
      OBVIOUS
    <3> QED
      BY <3>1, <3>2
  <2>3. quit \in UpMsgs
    BY DEF UpMsgs
  <2>4. up[k] \in Seq(UpMsgs) /\ <<>> \in Seq(DownMsgs)
    OBVIOUS
  <2>5. Append(up[k], quit) \in Seq(UpMsgs)
    BY <2>3, <2>4, ElemsFacts
  <2> HIDE DEF quit, bx
  <2>6. /\ box' \in [Conns -> [Seqs -> Seq(BOOLEAN)]]
        /\ \A j \in Conns : box'[j] = IF j = k THEN bx ELSE box[j]
    BY <2>1, <2>2
  <2>7. up' \in [Conns -> Seq(UpMsgs)] /\ \A j \in Conns : up'[j] = up[j] \/ (up'[j] = Append(up[j], quit) /\ j = k)
    BY <2>1, <2>5
  <2>8. down' \in [Conns -> Seq(DownMsgs)] /\ \A j \in Conns : down'[j] = IF j = k THEN <<>> ELSE down[j]
    BY <2>1, <2>4
  <2>9. pending' \in [Conns -> SUBSET Seqs] /\ \A j \in Conns : pending'[j] = IF j = k THEN {} ELSE W[j]
    BY <2>1
  <2>10. ClientTypes'
    BY <2>1, <2>6, <2>7, <2>8, <2>9
  <2>11. \A j \in Conns, s \in Seqs :
          \/ box'[j][s] = box[j][s]
          \/ /\ Len(box'[j][s]) = Len(box[j][s]) + 1
             /\ s \in W[j] /\ s \notin pending'[j] /\ j \in closed'
    BY <2>1, <2>2, <2>6, <2>9
  <2>12. CloseEffect(W)
    <3>1. closed \subseteq closed' /\ intentional \subseteq intentional'
      BY <2>1
    <3>2. \A j \in Conns : pending'[j] \subseteq W[j]
      BY <2>9
    <3>3. \A j \in Conns : up'[j] = up[j] \/ (up'[j] = Append(up[j], quit) /\ j \in closed')
      BY <2>1, <2>7
    <3>4. \A j \in Conns : down'[j] = down[j] \/ (down'[j] = <<>> /\ j \in closed')
      BY <2>1, <2>8
    <3> QED
      BY <2>10, <2>11, <3>1, <3>2, <3>3, <3>4 DEF CloseEffect, quit
  <2> QED
    BY <1>2, <2>1, <2>12
<1> QED
  BY <1>1, <1>2

\* A request that fails ends its thread's wait, with the effect of a close.
LEMMA FailFacts ==
  ASSUME Types, NEW t \in Threads, NEW W \in [Conns -> SUBSET Seqs], Failed(t, W),
         UNCHANGED <<counter, lost>>
  PROVE  /\ CloseEffect(W) /\ intentional' = intentional
         /\ at' = [at EXCEPT ![t] = IF t = Op THEN "idle" ELSE "dead"]
         /\ IF t = Op THEN Returns(FALSE) ELSE UNCHANGED <<call, outcome>>
<1>1. ClientTypes /\ lost' \subseteq Conns
  BY DEF Types, ClientTypes
<1>2. CASE t = Op
  <2>1. /\ at' = [at EXCEPT ![t] = "idle"] /\ Returns(FALSE) /\ pending' = W
        /\ UNCHANGED <<box, closed, intentional, up, down>>
    BY <1>2 DEF Failed
  <2>2. CloseEffect(W)
    BY <1>1, <2>1 DEF CloseEffect, ClientTypes
  <2> QED
    BY <1>2, <2>1, <2>2
<1>3. CASE t # Op
  <2>1. /\ at' = [at EXCEPT ![t] = "dead"] /\ UNCHANGED <<call, outcome>> /\ CloseWith(t, FALSE, W)
    BY <1>3 DEF Failed
  <2>2. t \in Conns /\ FALSE \in BOOLEAN
    BY <1>3 DEF Threads
  <2>3. CloseEffect(W) /\ intentional' = intentional
    BY <1>1, <2>1, <2>2, CloseFacts
  <2> QED
    BY <1>3, <2>1, <2>3
<1> QED
  BY <1>2, <1>3

\* A close keeps numbers fresh and channels empty, if everyone registered in W
\* still waits.
LEMMA CloseKeeps ==
  ASSUME Types, FreshNumbers, EmptyChannels, NEW W, \A j \in Conns : W[j] \subseteq pending[j],
         CloseEffect(W), UNCHANGED <<on, seq, counter>>,
         \A t \in Threads : InFlight(t)' => at'[t] = at[t],
         \A j \in Conns : \A s \in W[j] : \E u \in Threads : at'[u] = "await" /\ on[u] = j /\ seq[u] = s
  PROVE  FreshNumbers' /\ EmptyChannels'
<1>0. /\ counter \in [Conns -> Nat] /\ pending \in [Conns -> SUBSET Seqs]
      /\ pending' \in [Conns -> SUBSET Seqs] /\ \A j \in Conns : pending'[j] \subseteq W[j]
      /\ \A j \in Conns, s \in Seqs :
            \/ box'[j][s] = box[j][s]
            \/ s \in W[j] /\ s \notin pending'[j] /\ Len(box'[j][s]) = Len(box[j][s]) + 1
      /\ ThreadTypes
  BY DEF Types, ClientTypes, CloseEffect
<1>1. \A t \in Threads : InFlight(t)' => InFlight(t)
  BY DEF InFlight
<1>3. \A k \in Conns, s \in Seqs : s \in W[k] => box[k][s] = <<>>
  BY DEF EmptyChannels
<1>4. \A k \in Conns, s \in Seqs : s \in W[k] =>
        \E u \in Threads : InFlight(u) /\ on[u] = k /\ seq[u] = s /\ at[u] = "await"
  BY DEF EmptyChannels, InFlight
<1>5. \A k \in Conns, s \in Seqs : s \in W[k] => s <= counter[k]
  BY <1>0, <1>4 DEF FreshNumbers
<1>6. \A k \in Conns : Elems(up'[k]) \cup Elems(down'[k])
                         \subseteq Elems(up[k]) \cup Elems(down[k]) \cup {[type |-> "quit", seq |-> 0]}
  <2> SUFFICES ASSUME NEW k \in Conns
               PROVE  /\ Elems(up'[k]) \subseteq Elems(up[k]) \cup {[type |-> "quit", seq |-> 0]}
                      /\ Elems(down'[k]) \subseteq Elems(down[k])
    OBVIOUS
  <2>1. up[k] \in Seq(UpMsgs) /\ down[k] \in Seq(DownMsgs)
    BY DEF Types, ClientTypes
  <2> DEFINE quit == [type |-> "quit", seq |-> 0]
  <2>2. (up'[k] = up[k] \/ up'[k] = Append(up[k], quit)) /\ (down'[k] = down[k] \/ down'[k] = <<>>)
    BY DEF CloseEffect
  <2> HIDE DEF quit
  <2>3. Elems(up'[k]) \subseteq Elems(up[k]) \cup {quit}
    <3>1. Elems(Append(up[k], quit)) = Elems(up[k]) \cup {quit}
      BY <2>1, ElemsFacts
    <3> QED
      BY <2>2, <3>1
  <2>4. Elems(down'[k]) \subseteq Elems(down[k])
    BY <2>1, <2>2, ElemsFacts
  <2> QED
    BY <2>3, <2>4 DEF quit
<1>7. FreshNumbers'
  <2>1. \A t \in Threads : InFlight(t)' => seq'[t] \in 1 .. counter'[on'[t]]
    BY <1>1 DEF FreshNumbers
  <2>2. \A t, u \in Threads : InFlight(t)' /\ InFlight(u)' /\ on'[t] = on'[u] /\ seq'[t] = seq'[u] => t = u
    BY <1>1 DEF FreshNumbers
  <2>3. \A k \in Conns, s \in Seqs : s > counter'[k] => box'[k][s] = <<>>
    <3> SUFFICES ASSUME NEW k \in Conns, NEW s \in Seqs, s > counter[k] PROVE box'[k][s] = <<>>
      OBVIOUS
    <3>1. s \notin W[k]
      BY <1>0, <1>5, HelperAssumption DEF Seqs
    <3> QED
      BY <1>0, <3>1 DEF FreshNumbers
  <2>4. \A k \in Conns : \A m \in Elems(up'[k]) \cup Elems(down'[k]) : m.seq <= counter'[k]
    BY <1>0, <1>6 DEF FreshNumbers
  <2> QED
    BY <2>1, <2>2, <2>3, <2>4 DEF FreshNumbers
<1>8. EmptyChannels'
  <2>1. ASSUME NEW k \in Conns, NEW s \in pending'[k]
        PROVE  /\ box'[k][s] = <<>>
               /\ \E t \in Threads : at'[t] = "await" /\ on'[t] = k /\ seq'[t] = s
    <3>1. s \in W[k] /\ s \in Seqs
      BY <1>0
    <3> QED
      BY <1>0, <1>3, <3>1
  <2>2. ASSUME NEW t \in Threads, at'[t] = "sent" PROVE box'[on'[t]][seq'[t]] = <<>>
    <3>1. at[t] = "sent" /\ InFlight(t)
      BY <2>2 DEF InFlight
    <3>2. on[t] \in Conns /\ seq[t] \in Seqs
      BY <1>0, <3>1, HelperAssumption DEF FreshNumbers, ThreadTypes, Conns, Seqs, InFlight
    <3>3. seq[t] \notin W[on[t]]
      BY <1>4, <3>1, <3>2 DEF FreshNumbers
    <3> QED
      BY <1>0, <3>1, <3>2, <3>3 DEF EmptyChannels
  <2>3. ASSUME NEW k \in Conns, NEW s \in Seqs PROVE Len(box'[k][s]) <= 1
    <3>1. CASE box'[k][s] = box[k][s]
      BY <3>1 DEF EmptyChannels
    <3>2. CASE s \in W[k] /\ Len(box'[k][s]) = Len(box[k][s]) + 1
      BY <1>3, <3>2
    <3> QED
      BY <1>0, <3>1, <3>2
  <2> QED
    BY <2>1, <2>2, <2>3 DEF EmptyChannels
<1> QED
  BY <1>7, <1>8

-----------------------------------------------------------------------------
(* The client's bookkeeping, step by step.                                 *)

\* A request that fails keeps the books.
LEMMA FailKeepsBooks ==
  ASSUME BookInv, NEW t \in Threads, NEW W \in [Conns -> SUBSET Seqs], Failed(t, W),
         at[t] \in {"send", "sent", "await"},
         \A j \in Conns : W[j] \subseteq pending[j],
         at[t] = "await" => seq[t] \notin W[on[t]],
         UNCHANGED <<seq, counter>>, RequestFrame, app # "gone"
  PROVE  BookInv'
<1>1. /\ CloseEffect(W) /\ intentional' = intentional
      /\ at' = [at EXCEPT ![t] = IF t = Op THEN "idle" ELSE "dead"]
      /\ (t = Op /\ Returns(FALSE)) \/ UNCHANGED <<call, outcome>>
  BY FailFacts DEF BookInv, RequestFrame
<1>2. /\ UNCHANGED <<app, ops, inProc, mode, client, conns, procs, on, pings, lost, peer, path, host,
                     serves, eng>>
  BY DEF RequestFrame, hostVars
<1>3. at \in [Threads -> {"idle", "ensure", "spawned", "send", "sent", "await", "dead"}]
  BY DEF BookInv, Types, ThreadTypes
<1>4. \A u \in Threads : IF u = t THEN at'[u] \in {"idle", "dead"} ELSE at'[u] = at[u]
  BY <1>1, <1>3
<1>5. RunnerTypes'
  BY <1>1, <1>2 DEF BookInv, Types, RunnerTypes, Returns
<1>6. ThreadTypes'
  <2>1. at' \in [Threads -> {"idle", "ensure", "spawned", "send", "sent", "await", "dead"}]
    BY <1>1, <1>3
  <2> QED
    BY <1>2, <1>4, <2>1 DEF BookInv, Types, ThreadTypes
<1>7. HostTypes' /\ ClientTypes'
  BY <1>1, <1>2 DEF BookInv, Types, HostTypes, CloseEffect
<1>8. inProc' \in BOOLEAN
  BY <1>2 DEF BookInv, Types
<1>9. Numbered'
  <2>1. \A u \in Threads : at'[u] \in {"send", "ensure", "spawned"} => at'[u] = at[u]
    BY <1>4
  <2>2. Op \in Threads /\ \A k \in Conns : k \in Threads
    BY DEF Threads
  <2>3. /\ \A k \in Conns : One(at'[k] = "send") <= One(at[k] = "send")
        /\ One(at'[Op] \in {"ensure", "spawned", "send"}) <= One(at[Op] \in {"ensure", "spawned", "send"})
    BY <2>1, <2>2 DEF One
  <2>4. \A k \in Conns : counter[k] \in Nat /\ pings[k] \in Nat /\ ops \in Nat
    BY HelperAssumption DEF BookInv, Types, ClientTypes, ThreadTypes, RunnerTypes
  <2>5. /\ \A k \in Conns : One(at'[k] = "send") \in Nat /\ One(at[k] = "send") \in Nat
        /\ One(at'[Op] \in {"ensure", "spawned", "send"}) \in Nat
        /\ One(at[Op] \in {"ensure", "spawned", "send"}) \in Nat
    BY DEF One
  <2> QED
    BY <1>2, <2>3, <2>4, <2>5 DEF BookInv, Numbered
<1>10. FreshNumbers' /\ EmptyChannels'
  <2>1. \A u \in Threads : InFlight(u)' => at'[u] = at[u]
    BY <1>4 DEF InFlight
  <2>2. ASSUME NEW j \in Conns, NEW s \in W[j]
        PROVE  \E u \in Threads : at'[u] = "await" /\ on[u] = j /\ seq[u] = s
    <3>1. PICK u \in Threads : at[u] = "await" /\ on[u] = j /\ seq[u] = s
      BY DEF BookInv, EmptyChannels
    <3>2. u # t
      BY <3>1
    <3> QED
      BY <1>4, <3>1, <3>2
  <2> QED
    BY <1>1, <1>2, <2>1, <2>2, CloseKeeps DEF BookInv
<1>11. EndedOnce'
  BY <1>1, <1>2 DEF BookInv, EndedOnce, QuitIsNoLoss, CloseEffect
<1>12. CallPlaces'
  <2>1. Op \in Threads
    BY DEF Threads
  <2>2. CASE t = Op
    <3>0. at[Op] # "idle"
      BY <2>2
    <3>1. call # "none"
      BY <3>0 DEF BookInv, CallPlaces
    <3>2. ~ inProc
      BY <3>1 DEF BookInv, CallPlaces
    <3>3. call' = "none"
      BY <2>2, FailFacts DEF BookInv, RequestFrame, Returns
    <3>4. at'[Op] = "idle"
      BY <1>1, <1>3, <2>1, <2>2
    <3> QED
      BY <1>2, <3>2, <3>3, <3>4 DEF CallPlaces
  <2>3. CASE t # Op
    BY <1>1, <1>2, <1>4, <2>1, <2>3 DEF BookInv, CallPlaces
  <2> QED
    BY <2>2, <2>3
<1> QED
  BY <1>5, <1>6, <1>7, <1>8, <1>9, <1>10, <1>11, <1>12 DEF BookInv, Types

\* A step that sends no request, registers no channel and answers none keeps
\* the numbers fresh and the channels empty.
LEMMA QuietKeeps ==
  ASSUME Types, FreshNumbers, EmptyChannels, UNCHANGED <<seq, counter, pending, box>>,
         \A t \in Threads : InFlight(t)' => at'[t] = at[t] /\ on'[t] = on[t],
         \A t \in Threads : at[t] = "await" =>
            (at'[t] = at[t] /\ on'[t] = on[t]) \/ seq[t] \notin pending[on[t]],
         \A k \in Conns : Elems(up'[k]) \subseteq Elems(up[k]),
         \A k \in Conns : \A d \in Elems(down'[k]) :
            d \in Elems(down[k]) \/ \E m \in Elems(up[k]) : m.seq = d.seq
  PROVE  FreshNumbers' /\ EmptyChannels'
<1>1. \A t \in Threads : InFlight(t)' => InFlight(t)
  BY DEF InFlight
<1>2. FreshNumbers'
  <2>1. \A t \in Threads : InFlight(t)' => seq'[t] \in 1 .. counter'[on'[t]]
    BY <1>1 DEF FreshNumbers
  <2>2. \A t, u \in Threads : InFlight(t)' /\ InFlight(u)' /\ on'[t] = on'[u] /\ seq'[t] = seq'[u] => t = u
    BY <1>1 DEF FreshNumbers
  <2>3. \A k \in Conns, s \in Seqs : s > counter'[k] => box'[k][s] = <<>>
    BY DEF FreshNumbers
  <2>4. \A k \in Conns : \A m \in Elems(up'[k]) \cup Elems(down'[k]) : m.seq <= counter'[k]
    BY DEF FreshNumbers
  <2> QED
    BY <2>1, <2>2, <2>3, <2>4 DEF FreshNumbers
<1>3. EmptyChannels'
  <2>1. ASSUME NEW k \in Conns, NEW s \in pending[k]
        PROVE  \E t \in Threads : at'[t] = "await" /\ on'[t] = k /\ seq[t] = s
    BY DEF EmptyChannels
  <2>2. \A t \in Threads : at'[t] = "sent" => box[on'[t]][seq[t]] = <<>>
    BY DEF EmptyChannels, InFlight
  <2>3. \A k \in Conns : \A s \in pending'[k] :
          /\ box'[k][s] = <<>>
          /\ \E t \in Threads : at'[t] = "await" /\ on'[t] = k /\ seq'[t] = s
    BY <2>1 DEF EmptyChannels
  <2>4. \A k \in Conns, s \in Seqs : Len(box'[k][s]) <= 1
    BY DEF EmptyChannels
  <2> QED
    BY <2>2, <2>3, <2>4 DEF EmptyChannels
<1> QED
  BY <1>2, <1>3

\* The counter's bound, when at most the calls and pings grow with what they
\* leave over.
LEMMA NumberedKept ==
  ASSUME Types, Numbered, UNCHANGED counter,
         ops' \in Nat, \A k \in Conns : pings'[k] \in Nat,
         \A k \in Conns : /\ pings'[k] >= pings[k]
                          /\ at'[k] = "send" => at[k] = "send" \/ pings'[k] >= pings[k] + 1,
         ops' >= ops,
         at'[Op] \in {"ensure", "spawned", "send"} =>
            at[Op] \in {"ensure", "spawned", "send"} \/ ops' >= ops + 1
  PROVE  Numbered'
<1> SUFFICES ASSUME NEW k \in Conns
             PROVE  counter[k] + One(at'[k] = "send") + One(at'[Op] \in {"ensure", "spawned", "send"})
                     <= ops' + pings'[k]
  BY DEF Numbered
<1>1. counter[k] \in Nat /\ pings[k] \in Nat /\ ops \in Nat
  BY HelperAssumption DEF Types, ClientTypes, ThreadTypes, RunnerTypes
<1>2. counter[k] + One(at[k] = "send") + One(at[Op] \in {"ensure", "spawned", "send"}) <= ops + pings[k]
  BY DEF Numbered
<1> DEFINE a == at[k] = "send"  a2 == at'[k] = "send"
           b == at[Op] \in {"ensure", "spawned", "send"}
           b2 == at'[Op] \in {"ensure", "spawned", "send"}
<1>3. /\ a2 => a \/ pings'[k] >= pings[k] + 1
      /\ b2 => b \/ ops' >= ops + 1
      /\ pings'[k] >= pings[k] /\ ops' >= ops
      /\ pings'[k] \in Nat /\ ops' \in Nat
  OBVIOUS
<1>4. counter[k] + One(a) + One(b) <= ops + pings[k]
  BY <1>2
<1> HIDE DEF a, a2, b, b2
<1>5. counter[k] + One(a2) + One(b2) <= ops' + pings'[k]
  BY <1>1, <1>3, <1>4 DEF One
<1> QED
  BY <1>5 DEF a2, b2

\* The runner's own steps keep the books.
LEMMA RunnerKeepsBooks ==
  ASSUME BookInv, Runner \/ Ensure
  PROVE  BookInv'
<1>1. UNCHANGED <<app, seq, pings, counter, pending, box, closed, intentional, lost, up, down>>
  BY DEF Runner, Ensure, StartProxy, StartVPN, Stop, KeepClient, DialHelper, Spawn, EnsureFails,
     RunnerFrame, clientVars
<1>2. Types /\ CallPlaces /\ app = "up" /\ Op \in Threads
  BY DEF BookInv, Runner, Ensure, Threads
<1>3. /\ at[Op] \in {"idle", "ensure", "spawned"} /\ at'[Op] \in {"idle", "ensure", "spawned", "send"}
      /\ at' \in [Threads -> {"idle", "ensure", "spawned", "send", "sent", "await", "dead"}]
      /\ on' \in [Threads -> {0} \cup Conns]
      /\ \A k \in Conns : at'[k] = at[k] /\ on'[k] = on[k]
      /\ at'[Op] = "send" => on'[Op] = client' /\ on'[Op] \in 1 .. conns'
      /\ conns' >= conns
      /\ RunnerTypes'
  <2>0. /\ at \in [Threads -> {"idle", "ensure", "spawned", "send", "sent", "await", "dead"}]
        /\ on \in [Threads -> {0} \cup Conns] /\ RunnerTypes /\ Op \notin Conns
        /\ \A k \in Conns : k \in Threads
    BY <1>2 DEF Types, ThreadTypes, Threads, Conns, Op
  <2>1. CASE StartProxy
    BY <1>1, <1>2, <2>0, <2>1, HelperAssumption DEF StartProxy, CanStart, RunnerTypes, CallPlaces
  <2>2. CASE StartVPN
    BY <1>1, <1>2, <2>0, <2>2, HelperAssumption DEF StartVPN, CanStart, RunnerTypes, CallPlaces
  <2>3. CASE Stop
    BY <1>1, <1>2, <2>0, <2>3, HelperAssumption DEF Stop, RunnerTypes, CallPlaces, Conns
  <2>4. CASE KeepClient
    BY <1>1, <1>2, <2>0, <2>4, HelperAssumption DEF KeepClient, RunnerTypes, CallPlaces, Conns
  <2>5. CASE DialHelper
    BY <1>1, <1>2, <2>0, <2>5, HelperAssumption DEF DialHelper, Dial, RunnerTypes, CallPlaces, Conns
  <2>6. CASE Spawn
    BY <1>1, <1>2, <2>0, <2>6, HelperAssumption DEF Spawn, RunnerTypes, CallPlaces
  <2>7. CASE EnsureFails
    BY <1>1, <1>2, <2>0, <2>7 DEF EnsureFails, Returns, RunnerTypes, CallPlaces
  <2> QED
    BY <2>1, <2>2, <2>3, <2>4, <2>5, <2>6, <2>7 DEF Runner, Ensure
<1>4. ThreadTypes'
  BY <1>1, <1>2, <1>3 DEF Types, ThreadTypes, RunnerTypes, Threads
<1>5. ClientTypes'
  BY <1>1, <1>2 DEF Types, ClientTypes
<1>6. HostTypes'
  <2>1. CASE DialHelper
    <3>1. path \in Procs /\ UNCHANGED <<path, host, serves, eng>>
          /\ peer' = [peer EXCEPT ![conns + 1] = path]
      BY <1>2, <2>1 DEF DialHelper, Dial, Alive, hostVars, Types, HostTypes
    <3> QED
      BY <1>2, <3>1 DEF Types, HostTypes
  <2>2. CASE Spawn
    BY <1>2, <2>2 DEF Spawn, Types, HostTypes
  <2>3. CASE ~ DialHelper /\ ~ Spawn
    <3>1. UNCHANGED <<peer, path, host, serves, eng>>
      BY <2>3 DEF Runner, Ensure, StartProxy, StartVPN, Stop, KeepClient, EnsureFails, hostVars
    <3> QED
      BY <1>2, <3>1 DEF Types, HostTypes
  <2> QED
    BY <2>1, <2>2, <2>3
<1>7. inProc' \in BOOLEAN
  BY <1>2 DEF Types, Runner, Ensure, StartProxy, StartVPN, Stop, KeepClient, DialHelper, Spawn, EnsureFails
<1>8. CallPlaces'
  <2>1. CASE StartProxy
    BY <1>1, <1>2, <1>3, <2>1 DEF StartProxy, CanStart, CallPlaces
  <2>2. CASE StartVPN
    BY <1>1, <1>2, <1>3, <2>2 DEF StartVPN, CanStart, CallPlaces, Types, ThreadTypes
  <2>3. CASE Stop
    BY <1>1, <1>2, <1>3, <2>3 DEF Stop, CallPlaces, Types, ThreadTypes
  <2>4. CASE KeepClient
    BY <1>1, <1>2, <1>3, <2>4 DEF KeepClient, CallPlaces, Types, ThreadTypes
  <2>5. CASE DialHelper
    BY <1>1, <1>2, <1>3, <2>5 DEF DialHelper, Dial, CallPlaces, Types, ThreadTypes
  <2>6. CASE Spawn
    BY <1>1, <1>2, <1>3, <2>6 DEF Spawn, CallPlaces, Types, ThreadTypes
  <2>7. CASE EnsureFails
    BY <1>1, <1>2, <1>3, <2>7 DEF EnsureFails, Returns, CallPlaces, Types, ThreadTypes
  <2> QED
    BY <2>1, <2>2, <2>3, <2>4, <2>5, <2>6, <2>7 DEF Runner, Ensure
<1>9. Numbered'
  <2>0. ops \in Nat /\ \A k \in Conns : pings[k] \in Nat
    BY <1>2, HelperAssumption DEF Types, RunnerTypes, ThreadTypes
  <2>1. ops' \in Nat /\ ops' >= ops /\ \A k \in Conns : pings'[k] \in Nat /\ pings'[k] >= pings[k]
    <3>1. ops' = ops \/ ops' = ops + 1
      BY DEF Runner, Ensure, StartProxy, StartVPN, Stop, KeepClient, DialHelper, Spawn, EnsureFails
    <3> QED
      BY <1>1, <2>0, <3>1
  <2>2. at'[Op] \in {"ensure", "spawned", "send"} =>
            at[Op] \in {"ensure", "spawned", "send"} \/ ops' >= ops + 1
    <3>1. CASE Ensure
      <4>1. at[Op] \in {"ensure", "spawned"}
        BY <3>1 DEF Ensure, KeepClient, DialHelper, Spawn, EnsureFails
      <4> QED
        BY <4>1
    <3>2. CASE Runner
      <4>1. ops' = ops + 1
        BY <3>2 DEF Runner, StartProxy, StartVPN, Stop
      <4> QED
        BY <2>0, <4>1
    <3> QED
      BY <3>1, <3>2
  <2> QED
    BY <1>1, <1>2, <1>3, <2>1, <2>2, NumberedKept DEF BookInv
<1>10. FreshNumbers' /\ EmptyChannels'
  <2>1. \A t \in Threads : InFlight(t)' => at'[t] = at[t] /\ on'[t] = on[t]
    BY <1>3 DEF InFlight, Threads
  <2>2. \A t \in Threads : at[t] = "await" => at'[t] = at[t] /\ on'[t] = on[t]
    BY <1>3 DEF Threads
  <2> QED
    BY <1>1, <1>2, <2>1, <2>2, QuietKeeps DEF BookInv
<1>11. EndedOnce'
  BY <1>1 DEF BookInv, EndedOnce, QuitIsNoLoss
<1> QED
  BY <1>3, <1>4, <1>5, <1>6, <1>7, <1>8, <1>9, <1>10, <1>11 DEF BookInv, Types


\* The next number of a connection is in range, and new.
LEMMA NextNumber ==
  ASSUME BookInv, NEW t \in Threads, at[t] = "send"
  PROVE  /\ on[t] \in Conns /\ on[t] \in 1 .. conns
         /\ counter[on[t]] \in Nat /\ counter[on[t]] + 1 \in Seqs
<1>1. on[t] \in 1 .. conns /\ conns \in 0 .. MaxConns /\ MaxConns \in Nat /\ MaxOps \in Nat /\ MaxPings \in Nat
  BY HelperAssumption DEF BookInv, Types, ThreadTypes, RunnerTypes
<1>2. on[t] \in Conns
  BY <1>1 DEF Conns
<1> DEFINE k == on[t]
<1>3. counter[k] \in Nat /\ pings[k] \in 0 .. MaxPings /\ ops \in 0 .. MaxOps
  BY <1>2 DEF BookInv, Types, ClientTypes, ThreadTypes, RunnerTypes
<1>4. t = Op \/ t = k
  BY DEF BookInv, Types, ThreadTypes, Threads
<1> DEFINE a == at[k] = "send"
           b == at[Op] \in {"ensure", "spawned", "send"}
<1>5. counter[k] + One(a) + One(b) <= ops + pings[k]
  BY <1>2 DEF BookInv, Numbered
<1>6. a \/ b
  BY <1>4
<1> HIDE DEF k, a, b
<1>7. counter[k] + 1 <= MaxOps + MaxPings
  BY <1>1, <1>3, <1>5, <1>6 DEF One
<1>8. counter[k] + 1 \in Seqs
  BY <1>1, <1>3, <1>7 DEF Seqs
<1> QED
  BY <1>1, <1>2, <1>3, <1>8 DEF k

\* A request that goes out keeps the books: its number is new.
LEMMA SendKeepsBooks ==
  ASSUME BookInv, NEW t \in Threads, at[t] = "send", app # "gone",
         NEW k, k = on[t], NEW n, n = counter[k] + 1, NEW m, m = [type |-> Type(t), seq |-> n],
         counter' = [counter EXCEPT ![k] = n],
         seq' = [seq EXCEPT ![t] = n],
         up' = [up EXCEPT ![k] = Append(up[k], m)],
         at' = [at EXCEPT ![t] = "sent"],
         UNCHANGED <<call, outcome, pending, box, closed, intentional, down>>,
         RequestFrame
  PROVE  BookInv'
<1>1. k \in Conns /\ k \in 1 .. conns /\ counter[k] \in Nat /\ n \in Seqs /\ n \in Nat
  BY NextNumber DEF Seqs
<1>2. UNCHANGED <<app, ops, inProc, mode, client, conns, procs, on, pings, lost, peer, path, host,
                  serves, eng>>
  BY DEF RequestFrame, hostVars
<1>3. Types /\ ThreadTypes /\ ClientTypes /\ HostTypes /\ RunnerTypes
  BY DEF BookInv, Types
<1>4. m \in UpMsgs /\ m.seq = n
  BY <1>1 DEF UpMsgs, Type
<1>5. /\ \A u \in Threads : at'[u] = IF u = t THEN "sent" ELSE at[u]
      /\ at' \in [Threads -> {"idle", "ensure", "spawned", "send", "sent", "await", "dead"}]
  BY <1>3 DEF ThreadTypes
<1>6. /\ \A u \in Threads : seq'[u] = IF u = t THEN n ELSE seq[u]
      /\ seq' \in [Threads -> {0} \cup Seqs]
  BY <1>1, <1>3 DEF ThreadTypes
<1>7. /\ \A j \in Conns : counter'[j] = IF j = k THEN n ELSE counter[j]
      /\ counter' \in [Conns -> Nat]
  BY <1>1, <1>3 DEF ClientTypes
<1>8. /\ \A j \in Conns : up'[j] = IF j = k THEN Append(up[k], m) ELSE up[j]
      /\ up' \in [Conns -> Seq(UpMsgs)]
  <2>1. Append(up[k], m) \in Seq(UpMsgs)
    BY <1>1, <1>3, <1>4, ElemsFacts DEF ClientTypes
  <2> QED
    BY <1>3, <2>1 DEF ClientTypes
<1>9. Types'
  <2>1. ThreadTypes'
    BY <1>1, <1>2, <1>3, <1>5, <1>6 DEF ThreadTypes
  <2>2. ClientTypes'
    BY <1>2, <1>3, <1>7, <1>8 DEF ClientTypes
  <2>3. HostTypes' /\ RunnerTypes'
    BY <1>2, <1>3 DEF HostTypes, RunnerTypes
  <2>4. inProc' \in BOOLEAN
    BY <1>2 DEF BookInv, Types
  <2> QED
    BY <2>1, <2>2, <2>3, <2>4 DEF Types
<1>10. CallPlaces'
  BY <1>2, <1>5 DEF BookInv, CallPlaces, Threads
<1>11. Numbered'
  <2> SUFFICES ASSUME NEW j \in Conns
               PROVE  counter'[j] + One(at'[j] = "send") + One(at'[Op] \in {"ensure", "spawned", "send"})
                        <= ops + pings[j]
    BY <1>2 DEF Numbered
  <2> DEFINE a == at[j] = "send"  a2 == at'[j] = "send"
             b == at[Op] \in {"ensure", "spawned", "send"}
             b2 == at'[Op] \in {"ensure", "spawned", "send"}
  <2>1. counter[j] + One(a) + One(b) <= ops + pings[j]
    BY DEF BookInv, Numbered
  <2>2. (a2 => a) /\ (b2 => b) /\ (j = k => (a /\ ~ a2) \/ (b /\ ~ b2))
    BY <1>3, <1>5 DEF ThreadTypes, Threads
  <2>3. counter[j] \in Nat /\ pings[j] \in Nat /\ ops \in Nat /\ (j # k => counter'[j] = counter[j])
        /\ (j = k => counter'[j] = counter[j] + 1)
    BY <1>3, <1>7, HelperAssumption DEF ThreadTypes, RunnerTypes, ClientTypes
  <2> HIDE DEF a, a2, b, b2
  <2>4. counter'[j] + One(a2) + One(b2) <= ops + pings[j]
    BY <2>1, <2>2, <2>3 DEF One
  <2> QED
    BY <2>4 DEF a2, b2
<1>12. FreshNumbers'
  <2>0. \A j \in Conns : counter[j] \in Nat /\ counter'[j] \in Nat /\ counter[j] <= counter'[j]
    BY <1>1, <1>3, <1>7 DEF ClientTypes
  <2>1. ASSUME NEW u \in Threads, InFlight(u)' PROVE seq'[u] \in 1 .. counter'[on'[u]]
    <3>1. CASE u = t
      BY <1>1, <1>2, <1>6, <1>7, <3>1 DEF Seqs
    <3>2. CASE u # t
      <4>1. InFlight(u) /\ seq'[u] = seq[u]
        BY <1>5, <1>6, <2>1, <3>2 DEF InFlight
      <4>2. on[u] \in Conns
        BY <1>3, <4>1, HelperAssumption DEF ThreadTypes, RunnerTypes, InFlight, Conns
      <4>3. seq[u] \in 1 .. counter[on[u]]
        BY <4>1 DEF BookInv, FreshNumbers
      <4> QED
        BY <1>2, <2>0, <4>1, <4>2, <4>3
    <3> QED
      BY <3>1, <3>2
  <2>2. ASSUME NEW u \in Threads, NEW v \in Threads, InFlight(u)', InFlight(v)',
               on'[u] = on'[v], seq'[u] = seq'[v]
        PROVE  u = v
    <3>1. \A w \in Threads : w # t /\ InFlight(w)' => InFlight(w) /\ seq'[w] = seq[w]
      BY <1>5, <1>6 DEF InFlight
    <3>2. \A w \in Threads : InFlight(w) /\ on[w] = k => seq[w] # n
      BY <1>1 DEF BookInv, FreshNumbers
    <3>3. seq'[t] = n /\ on[t] = k /\ on' = on
      BY <1>2, <1>6
    <3>4. CASE u = t
      BY <2>2, <3>1, <3>2, <3>3, <3>4
    <3>5. CASE v = t
      BY <2>2, <3>1, <3>2, <3>3, <3>5
    <3>6. CASE u # t /\ v # t
      BY <2>2, <3>1, <3>3, <3>6 DEF BookInv, FreshNumbers
    <3> QED
      BY <3>4, <3>5, <3>6
  <2>3. ASSUME NEW j \in Conns, NEW s \in Seqs, s > counter'[j] PROVE box'[j][s] = <<>>
    <3>1. s \in Nat
      BY DEF Seqs
    <3>2. s > counter[j]
      BY <2>0, <2>3, <3>1
    <3> QED
      BY <3>2 DEF BookInv, FreshNumbers
  <2>4. ASSUME NEW j \in Conns, NEW e \in Elems(up'[j]) \cup Elems(down'[j]) PROVE e.seq <= counter'[j]
    <3>1. up[j] \in Seq(UpMsgs) /\ down[j] \in Seq(DownMsgs)
      BY <1>3 DEF ClientTypes
    <3>2. Elems(Append(up[j], m)) = Elems(up[j]) \cup {m}
      BY <3>1, ElemsFacts
    <3>3. e \in Elems(up[j]) \cup Elems(down[j]) \/ (j = k /\ e = m)
      BY <1>8, <2>4, <3>2
    <3>4. CASE e \in Elems(up[j]) \cup Elems(down[j])
      <4>1. e \in UpMsgs \cup DownMsgs
        BY <3>1, <3>4, ElemsFacts
      <4>2. e.seq \in Nat
        BY <4>1, HelperAssumption DEF UpMsgs, DownMsgs, Seqs
      <4>3. e.seq <= counter[j]
        BY <3>4 DEF BookInv, FreshNumbers
      <4> QED
        BY <2>0, <4>2, <4>3
    <3>5. CASE j = k /\ e = m
      BY <1>1, <1>4, <1>7, <3>5
    <3> QED
      BY <3>3, <3>4, <3>5
  <2> QED
    BY <2>1, <2>2, <2>3, <2>4 DEF FreshNumbers
<1>13. EmptyChannels'
  <2>1. ASSUME NEW j \in Conns, NEW s \in pending'[j]
        PROVE  /\ box'[j][s] = <<>>
               /\ \E u \in Threads : at'[u] = "await" /\ on'[u] = j /\ seq'[u] = s
    <3>1. PICK u \in Threads : at[u] = "await" /\ on[u] = j /\ seq[u] = s
      BY <2>1 DEF BookInv, EmptyChannels
    <3>2. u # t
      BY <3>1
    <3> QED
      BY <1>2, <1>5, <1>6, <2>1, <3>1, <3>2 DEF BookInv, EmptyChannels
  <2>2. ASSUME NEW u \in Threads, at'[u] = "sent" PROVE box'[on'[u]][seq'[u]] = <<>>
    <3>1. CASE u = t
      BY <1>1, <1>2, <1>6, <3>1 DEF BookInv, FreshNumbers
    <3>2. CASE u # t
      BY <1>2, <1>5, <1>6, <2>2, <3>2 DEF BookInv, EmptyChannels
    <3> QED
      BY <3>1, <3>2
  <2>3. \A j \in Conns, s \in Seqs : Len(box'[j][s]) <= 1
    BY DEF BookInv, EmptyChannels
  <2> QED
    BY <2>1, <2>2, <2>3 DEF EmptyChannels
<1>14. EndedOnce'
  BY <1>2 DEF BookInv, EndedOnce, QuitIsNoLoss
<1> QED
  BY <1>9, <1>10, <1>11, <1>12, <1>13, <1>14 DEF BookInv


\* Every step of a request keeps the books.
LEMMA RequestKeepsBooks ==
  ASSUME BookInv, NEW t \in Threads, Request(t)
  PROVE  BookInv'
<1>1. app # "gone"
  BY DEF Request
<1>2. Types /\ ThreadTypes /\ ClientTypes /\ HostTypes /\ RunnerTypes
  BY DEF BookInv, Types
<1>3. pending \in [Conns -> SUBSET Seqs] /\ \A j \in Conns : pending[j] \subseteq pending[j]
  BY <1>2 DEF ClientTypes
<1>4. at[t] \in {"send", "sent", "await"} => on[t] \in Conns
  BY <1>2, HelperAssumption DEF ThreadTypes, RunnerTypes, Conns
<1>5. CASE Send(t)
  <2>1. at[t] = "send" /\ RequestFrame
    BY <1>5 DEF Send
  <2>2. CASE Failed(t, pending) /\ UNCHANGED <<seq, counter>>
    BY <1>1, <1>3, <2>1, <2>2, FailKeepsBooks
  <2>3. CASE ~ (Failed(t, pending) /\ UNCHANGED <<seq, counter>>)
    <3>1. /\ counter' = [counter EXCEPT ![on[t]] = counter[on[t]] + 1]
          /\ seq' = [seq EXCEPT ![t] = counter[on[t]] + 1]
          /\ up' = [up EXCEPT ![on[t]] = Append(up[on[t]], [type |-> Type(t), seq |-> counter[on[t]] + 1])]
          /\ at' = [at EXCEPT ![t] = "sent"]
          /\ UNCHANGED <<call, outcome, pending, box, closed, intentional, down>>
      BY <1>5, <2>3 DEF Send
    <3> QED
      BY <1>1, <2>1, <3>1, SendKeepsBooks
  <2> QED
    BY <2>2, <2>3
<1>6. CASE Register(t)
  <2>1. at[t] = "sent" /\ RequestFrame /\ UNCHANGED <<seq, counter>>
    BY <1>6 DEF Register
  <2>2. CASE Failed(t, pending)
    BY <1>1, <1>3, <2>1, <2>2, FailKeepsBooks
  <2>3. CASE ~ Failed(t, pending)
    <3>1. /\ pending' = [pending EXCEPT ![on[t]] = @ \cup {seq[t]}]
          /\ at' = [at EXCEPT ![t] = "await"]
          /\ UNCHANGED <<call, outcome, box, closed, intentional, up, down>>
      BY <1>6, <2>3 DEF Register
    <3>2. UNCHANGED <<app, ops, inProc, mode, client, conns, procs, on, pings, lost, peer, path, host,
                      serves, eng>>
      BY <2>1 DEF RequestFrame, hostVars
    <3>3. InFlight(t) /\ on[t] \in Conns
      BY <1>4, <2>1 DEF InFlight
    <3>4. seq[t] \in Seqs
      BY <1>2, <3>3, HelperAssumption DEF BookInv, FreshNumbers, ThreadTypes
    <3>5. /\ \A u \in Threads : at'[u] = IF u = t THEN "await" ELSE at[u]
          /\ at' \in [Threads -> {"idle", "ensure", "spawned", "send", "sent", "await", "dead"}]
      BY <1>2, <3>1 DEF ThreadTypes
    <3>6. /\ \A j \in Conns : pending'[j] = IF j = on[t] THEN pending[j] \cup {seq[t]} ELSE pending[j]
          /\ pending' \in [Conns -> SUBSET Seqs]
      BY <1>3, <3>1, <3>3, <3>4
    <3>7. ThreadTypes' /\ ClientTypes' /\ HostTypes' /\ RunnerTypes'
      <4>1. ThreadTypes'
        BY <1>2, <2>1, <3>2, <3>5 DEF ThreadTypes
      <4>2. ClientTypes'
        BY <1>2, <2>1, <3>1, <3>2, <3>6 DEF ClientTypes
      <4>3. HostTypes' /\ RunnerTypes'
        BY <1>2, <3>1, <3>2 DEF HostTypes, RunnerTypes
      <4> QED
        BY <4>1, <4>2, <4>3
    <3>8. CallPlaces' /\ inProc' \in BOOLEAN
      <4>1. inProc' \in BOOLEAN
        BY <3>2 DEF BookInv, Types
      <4>2. CallPlaces'
        BY <2>1, <3>1, <3>2, <3>5 DEF BookInv, CallPlaces, Threads
      <4> QED
        BY <4>1, <4>2
    <3>9. Numbered'
      <4>1. (\A k \in Conns : pings[k] \in Nat) /\ ops \in Nat
        BY <1>2, HelperAssumption DEF ThreadTypes, RunnerTypes
      <4>2. Op \in Threads /\ \A k \in Conns : k \in Threads
        BY DEF Threads
      <4>3. \A u \in Threads : at'[u] \in {"ensure", "spawned", "send"} => at[u] = at'[u]
        BY <3>5
      <4> QED
        BY <1>2, <2>1, <3>2, <4>1, <4>2, <4>3, NumberedKept DEF BookInv
    <3>10. FreshNumbers'
      <4>1. \A u \in Threads : InFlight(u)' => InFlight(u)
        BY <2>1, <3>5 DEF InFlight
      <4> QED
        BY <2>1, <3>1, <3>2, <4>1 DEF BookInv, FreshNumbers
    <3>11. EmptyChannels'
      <4>1. ASSUME NEW j \in Conns, NEW s \in pending'[j]
            PROVE  /\ box'[j][s] = <<>>
                   /\ \E u \in Threads : at'[u] = "await" /\ on'[u] = j /\ seq'[u] = s
        <5>1. CASE s \in pending[j]
          <6>1. PICK u \in Threads : at[u] = "await" /\ on[u] = j /\ seq[u] = s
            BY <5>1 DEF BookInv, EmptyChannels
          <6>2. at'[u] = "await"
            BY <3>5, <6>1
          <6> QED
            BY <2>1, <3>1, <3>2, <5>1, <6>1, <6>2 DEF BookInv, EmptyChannels
        <5>2. CASE s \notin pending[j]
          <6>1. j = on[t] /\ s = seq[t]
            BY <3>6, <4>1, <5>2
          <6>2. box[on[t]][seq[t]] = <<>>
            BY <2>1 DEF BookInv, EmptyChannels
          <6> QED
            BY <2>1, <3>1, <3>2, <3>5, <6>1, <6>2
        <5> QED
          BY <5>1, <5>2
      <4>2. \A u \in Threads : at'[u] = "sent" => at[u] = "sent"
        BY <3>5
      <4> QED
        BY <2>1, <3>1, <3>2, <4>1, <4>2 DEF BookInv, EmptyChannels
    <3>12. EndedOnce'
      BY <3>1, <3>2 DEF BookInv, EndedOnce, QuitIsNoLoss
    <3> QED
      BY <3>7, <3>8, <3>9, <3>10, <3>11, <3>12 DEF BookInv, Types
  <2> QED
    BY <2>2, <2>3
<1>7. CASE Answered(t)
  <2>1. at[t] = "await" /\ RequestFrame /\ UNCHANGED <<seq, counter>> /\ box[on[t]][seq[t]] # <<>>
    BY <1>7 DEF Answered
  <2>2. on[t] \in Conns /\ seq[t] \notin pending[on[t]]
    BY <1>4, <2>1 DEF BookInv, EmptyChannels
  <2>3. CASE Failed(t, pending)
    BY <1>1, <1>3, <2>1, <2>2, <2>3, FailKeepsBooks
  <2>4. CASE ~ Failed(t, pending)
    <3>1. /\ at' = [at EXCEPT ![t] = "idle"]
          /\ IF t = Op THEN Returns(TRUE) ELSE UNCHANGED <<call, outcome>>
          /\ UNCHANGED <<pending, box, closed, intentional, up, down>>
      BY <1>7, <2>4 DEF Answered
    <3>2. UNCHANGED <<app, ops, inProc, mode, client, conns, procs, on, pings, lost, peer, path, host,
                      serves, eng>>
      BY <2>1 DEF RequestFrame, hostVars
    <3>3. /\ \A u \in Threads : at'[u] = IF u = t THEN "idle" ELSE at[u]
          /\ at' \in [Threads -> {"idle", "ensure", "spawned", "send", "sent", "await", "dead"}]
      BY <1>2, <3>1 DEF ThreadTypes
    <3>4. ThreadTypes' /\ ClientTypes' /\ HostTypes' /\ RunnerTypes'
      <4>1. ThreadTypes'
        BY <1>2, <2>1, <3>2, <3>3 DEF ThreadTypes
      <4>2. ClientTypes'
        BY <1>2, <2>1, <3>1, <3>2 DEF ClientTypes
      <4>3. HostTypes'
        BY <1>2, <3>1, <3>2 DEF HostTypes
      <4>4. RunnerTypes'
        BY <1>2, <3>1, <3>2 DEF RunnerTypes, Returns
      <4> QED
        BY <4>1, <4>2, <4>3, <4>4
    <3>5. inProc' \in BOOLEAN
      BY <3>2 DEF BookInv, Types
    <3>6. CallPlaces'
      <4>1. CASE t = Op
        <5>1. call # "none"
          BY <1>1, <2>1, <4>1 DEF BookInv, CallPlaces
        <5>2. ~ inProc
          BY <5>1 DEF BookInv, CallPlaces
        <5>3. call' = "none"
          BY <3>1, <4>1 DEF Returns
        <5>4. at'[Op] = "idle"
          BY <3>3, <4>1
        <5> QED
          BY <3>2, <5>2, <5>3, <5>4 DEF CallPlaces
      <4>2. CASE t # Op
        BY <3>1, <3>2, <3>3, <4>2 DEF BookInv, CallPlaces, Threads
      <4> QED
        BY <4>1, <4>2
    <3>7. Numbered'
      <4>1. (\A k \in Conns : pings[k] \in Nat) /\ ops \in Nat
        BY <1>2, HelperAssumption DEF ThreadTypes, RunnerTypes
      <4>2. Op \in Threads /\ \A k \in Conns : k \in Threads
        BY DEF Threads
      <4>3. \A u \in Threads : at'[u] \in {"ensure", "spawned", "send"} => at[u] = at'[u]
        BY <3>3
      <4> QED
        BY <1>2, <2>1, <3>2, <4>1, <4>2, <4>3, NumberedKept DEF BookInv
    <3>8. FreshNumbers' /\ EmptyChannels'
      <4>1. \A u \in Threads : InFlight(u)' => at'[u] = at[u] /\ on'[u] = on[u]
        BY <3>2, <3>3 DEF InFlight
      <4>2. \A u \in Threads : at[u] = "await" =>
               (at'[u] = at[u] /\ on'[u] = on[u]) \/ seq[u] \notin pending[on[u]]
        BY <2>2, <3>2, <3>3
      <4> QED
        BY <1>2, <2>1, <3>1, <4>1, <4>2, QuietKeeps DEF BookInv
    <3>9. EndedOnce'
      BY <3>1, <3>2 DEF BookInv, EndedOnce, QuitIsNoLoss
    <3> QED
      BY <3>4, <3>5, <3>6, <3>7, <3>8, <3>9 DEF BookInv, Types
  <2> QED
    BY <2>3, <2>4
<1>8. CASE TimedOut(t)
  <2>1. /\ at[t] = "await" /\ RequestFrame /\ UNCHANGED <<seq, counter>>
        /\ Failed(t, [pending EXCEPT ![on[t]] = @ \ {seq[t]}])
    BY <1>8 DEF TimedOut
  <2> DEFINE W == [pending EXCEPT ![on[t]] = @ \ {seq[t]}]
  <2>2. /\ W \in [Conns -> SUBSET Seqs] /\ \A j \in Conns : W[j] \subseteq pending[j]
        /\ seq[t] \notin W[on[t]]
    BY <1>3, <1>4, <2>1
  <2>3. Failed(t, W)
    BY <2>1
  <2> HIDE DEF W
  <2> QED
    BY <1>1, <2>1, <2>2, <2>3, FailKeepsBooks
<1> QED
  BY <1>5, <1>6, <1>7, <1>8 DEF Request


\* The threads of a connection keep the books: a response goes to the channel
\* that waits for its number, and to no other.
LEMMA ReaderKeepsBooks ==
  ASSUME BookInv, NEW k \in Conns, Reader(k) \/ Pinger(k)
  PROVE  BookInv'
<1>1. Types /\ ThreadTypes /\ ClientTypes /\ HostTypes /\ RunnerTypes /\ app # "gone"
  BY DEF BookInv, Types, Reader, Pinger
<1>2. (\A j \in Conns : pings[j] \in Nat) /\ ops \in Nat
  BY <1>1, HelperAssumption DEF ThreadTypes, RunnerTypes
<1>3. CASE Tick(k)
  <2>1. UNCHANGED <<app, runnerVars, on, seq, clientVars, up, down, peer, hostVars>>
    BY <1>3 DEF Tick
  <2>2. UNCHANGED <<app, ops, call, outcome, mode, inProc, client, conns, procs, on, seq, counter, pending,
                    box, closed, intentional, lost, up, down, peer, path, host, serves, eng>>
    BY <2>1 DEF runnerVars, clientVars, hostVars
  <2>3. PICK w \in {"dead", "send"} : at' = [at EXCEPT ![k] = w] /\ (w = "send" => k \notin closed)
    BY <1>3 DEF Tick
  <2>4. k \in Threads /\ k # Op /\ Op \in Threads /\ at[k] = "idle" /\ k \in 1 .. conns
    BY <1>1, <1>3 DEF Threads, Tick, Conns, Op, RunnerTypes
  <2>5. /\ \A u \in Threads : at'[u] = IF u = k THEN w ELSE at[u]
        /\ at' \in [Threads -> {"idle", "ensure", "spawned", "send", "sent", "await", "dead"}]
    BY <1>1, <2>3 DEF ThreadTypes
  <2>6. /\ pings' \in [Conns -> 0 .. MaxPings]
        /\ \A j \in Conns : pings'[j] \in Nat /\ pings'[j] >= pings[j]
        /\ w = "send" => pings'[k] = pings[k] + 1
    <3>1. CASE k \in closed
      BY <1>1, <1>2, <1>3, <2>3, <3>1 DEF Tick, ThreadTypes
    <3>2. CASE k \notin closed
      <4>1. pings' = [pings EXCEPT ![k] = pings[k] + 1] /\ pings[k] < MaxPings
        BY <1>3, <3>2 DEF Tick
      <4> QED
        BY <1>1, <1>2, <4>1, HelperAssumption DEF ThreadTypes
    <3> QED
      BY <3>1, <3>2
  <2>7. ThreadTypes'
    <3>1. on[k] = k
      BY <1>1 DEF ThreadTypes
    <3> QED
      BY <1>1, <2>2, <2>4, <2>5, <2>6, <3>1 DEF ThreadTypes
  <2>8. ClientTypes' /\ HostTypes' /\ RunnerTypes'
    <3>1. ClientTypes'
      BY <1>1, <2>2 DEF ClientTypes
    <3>2. HostTypes' /\ RunnerTypes'
      BY <1>1, <2>2 DEF HostTypes, RunnerTypes
    <3> QED
      BY <3>1, <3>2
  <2>9. inProc' \in BOOLEAN
    BY <2>2 DEF BookInv, Types
  <2>10. CallPlaces'
    BY <2>2, <2>4, <2>5 DEF BookInv, CallPlaces
  <2>11. Numbered'
    <3>1. \A j \in Conns : j \in Threads /\ (j # k => at'[j] = at[j])
      BY <2>5 DEF Threads
    <3>2. \A j \in Conns : at'[j] = "send" => at[j] = "send" \/ pings'[j] >= pings[j] + 1
      BY <1>2, <2>5, <2>6, <3>1
    <3> QED
      BY <1>1, <1>2, <2>2, <2>4, <2>5, <2>6, <3>2, NumberedKept DEF BookInv
  <2>12. FreshNumbers' /\ EmptyChannels'
    <3>1. \A u \in Threads : InFlight(u)' => at'[u] = at[u] /\ on'[u] = on[u]
      BY <2>2, <2>5 DEF InFlight
    <3>2. \A u \in Threads : at[u] = "await" => at'[u] = at[u] /\ on'[u] = on[u]
      BY <2>2, <2>4, <2>5
    <3> QED
      BY <1>1, <2>2, <3>1, <3>2, QuietKeeps DEF BookInv
  <2>13. EndedOnce'
    BY <2>2 DEF BookInv, EndedOnce, QuitIsNoLoss
  <2> QED
    BY <2>7, <2>8, <2>9, <2>10, <2>11, <2>12, <2>13 DEF BookInv, Types
<1>4. CASE Read(k)
  <2>1. /\ down[k] # <<>> /\ k \notin closed
        /\ pending' = [pending EXCEPT ![k] = @ \ {Head(down[k]).seq}]
        /\ box' = IF Head(down[k]).seq \in pending[k]
                  THEN [box EXCEPT ![k][Head(down[k]).seq] = Append(@, Head(down[k]).ok)] ELSE box
        /\ down' = [down EXCEPT ![k] = Tail(@)]
        /\ UNCHANGED <<app, runnerVars, threadVars, counter, closed, intentional, lost, up, peer, hostVars>>
    BY <1>4 DEF Read
  <2>2. UNCHANGED <<app, ops, call, outcome, mode, inProc, client, conns, procs, at, on, seq, pings, counter,
                    closed, intentional, lost, up, peer, path, host, serves, eng>>
    BY <2>1 DEF runnerVars, threadVars, hostVars
  <2>3. down[k] \in Seq(DownMsgs) /\ up[k] \in Seq(UpMsgs)
    BY <1>1 DEF ClientTypes
  <2>4. /\ Head(down[k]) \in DownMsgs /\ Tail(down[k]) \in Seq(DownMsgs)
        /\ Elems(Tail(down[k])) \subseteq Elems(down[k])
    BY <2>1, <2>3, ElemsFacts
  <2>5. PICK n \in Seqs, r \in BOOLEAN : n = Head(down[k]).seq /\ r = Head(down[k]).ok
    BY <2>4 DEF DownMsgs
  <2>6. /\ pending' \in [Conns -> SUBSET Seqs]
        /\ \A j \in Conns : pending'[j] = IF j = k THEN pending[j] \ {n} ELSE pending[j]
    BY <1>1, <2>1, <2>5 DEF ClientTypes
  <2>7. /\ down' \in [Conns -> Seq(DownMsgs)]
        /\ \A j \in Conns : Elems(down'[j]) \subseteq Elems(down[j])
    BY <1>1, <2>1, <2>4 DEF ClientTypes
  <2>8. /\ box' \in [Conns -> [Seqs -> Seq(BOOLEAN)]]
        /\ \A j \in Conns, s \in Seqs :
              \/ box'[j][s] = box[j][s]
              \/ j = k /\ s = n /\ n \in pending[k] /\ Len(box'[j][s]) = Len(box[j][s]) + 1
    <3>1. box \in [Conns -> [Seqs -> Seq(BOOLEAN)]]
      BY <1>1 DEF ClientTypes
    <3>2. CASE n \notin pending[k]
      BY <2>1, <2>5, <3>1, <3>2
    <3>3. CASE n \in pending[k]
      <4> DEFINE b == Append(box[k][n], r)
      <4>1. box' = [box EXCEPT ![k] = [box[k] EXCEPT ![n] = b]]
        BY <2>1, <2>5, <3>1, <3>3
      <4>2. b \in Seq(BOOLEAN) /\ Len(b) = Len(box[k][n]) + 1
        <5>1. box[k][n] \in Seq(BOOLEAN)
          BY <3>1
        <5> QED
          BY <5>1
      <4> HIDE DEF b
      <4> QED
        BY <3>1, <3>3, <4>1, <4>2
    <3> QED
      BY <3>2, <3>3
  <2>9. Types'
    <3>1. ThreadTypes' /\ HostTypes' /\ RunnerTypes'
      <4>1. ThreadTypes'
        BY <1>1, <2>2 DEF ThreadTypes
      <4>2. HostTypes' /\ RunnerTypes'
        BY <1>1, <2>2 DEF HostTypes, RunnerTypes
      <4> QED
        BY <4>1, <4>2
    <3>2. ClientTypes'
      BY <1>1, <2>2, <2>6, <2>7, <2>8 DEF ClientTypes
    <3>3. inProc' \in BOOLEAN
      BY <2>2 DEF BookInv, Types
    <3> QED
      BY <3>1, <3>2, <3>3 DEF Types
  <2>10. CallPlaces' /\ Numbered' /\ EndedOnce'
    BY <2>2 DEF BookInv, CallPlaces, Numbered, EndedOnce, QuitIsNoLoss
  <2>11. FreshNumbers'
    <3>1. ASSUME NEW j \in Conns, NEW s \in Seqs, s > counter'[j] PROVE box'[j][s] = <<>>
      <4>1. s \notin pending[j]
        <5>1. SUFFICES ASSUME s \in pending[j] PROVE FALSE
          OBVIOUS
        <5>2. PICK u \in Threads : at[u] = "await" /\ on[u] = j /\ seq[u] = s
          BY <5>1 DEF BookInv, EmptyChannels
        <5>3. s \in 1 .. counter[j] /\ counter[j] \in Nat
          BY <1>1, <5>2 DEF BookInv, FreshNumbers, InFlight, ClientTypes
        <5> QED
          BY <2>2, <3>1, <5>3
      <4> QED
        BY <2>2, <2>8, <3>1, <4>1 DEF BookInv, FreshNumbers
    <3> QED
      BY <2>2, <2>7, <3>1 DEF BookInv, FreshNumbers, InFlight
  <2>12. EmptyChannels'
    <3>0. \A j \in Conns : \A s \in pending[j] : s \in Seqs
      BY <1>1 DEF ClientTypes
    <3>1. ASSUME NEW j \in Conns, NEW s \in pending'[j]
          PROVE  /\ box'[j][s] = <<>>
                 /\ \E u \in Threads : at'[u] = "await" /\ on'[u] = j /\ seq'[u] = s
      <4>1. s \in pending[j] /\ s \in Seqs /\ ~ (j = k /\ s = n)
        BY <2>6, <3>0, <3>1
      <4>2. box'[j][s] = box[j][s]
        BY <2>8, <4>1
      <4> QED
        BY <2>2, <4>1, <4>2 DEF BookInv, EmptyChannels
    <3>2. ASSUME NEW u \in Threads, at'[u] = "sent" PROVE box'[on'[u]][seq'[u]] = <<>>
      <4>1. at[u] = "sent" /\ InFlight(u)
        BY <2>2, <3>2 DEF InFlight
      <4>2. on[u] \in Conns /\ seq[u] \in Seqs
        BY <1>1, <4>1, HelperAssumption DEF BookInv, FreshNumbers, ThreadTypes, RunnerTypes, Conns, Seqs, InFlight
      <4>3. seq[u] \notin pending[on[u]]
        <5>1. SUFFICES ASSUME seq[u] \in pending[on[u]] PROVE FALSE
          OBVIOUS
        <5>2. PICK v \in Threads : at[v] = "await" /\ on[v] = on[u] /\ seq[v] = seq[u]
          BY <4>2, <5>1 DEF BookInv, EmptyChannels
        <5>3. InFlight(v) /\ v # u
          BY <4>1, <5>2 DEF InFlight
        <5> QED
          BY <4>1, <5>2, <5>3 DEF BookInv, FreshNumbers
      <4>4. box'[on[u]][seq[u]] = box[on[u]][seq[u]]
        BY <2>8, <4>2, <4>3
      <4> QED
        BY <2>2, <4>1, <4>4 DEF BookInv, EmptyChannels
    <3>3. ASSUME NEW j \in Conns, NEW s \in Seqs PROVE Len(box'[j][s]) <= 1
      <4>1. CASE box'[j][s] = box[j][s]
        BY <4>1 DEF BookInv, EmptyChannels
      <4>2. CASE s \in pending[j] /\ Len(box'[j][s]) = Len(box[j][s]) + 1
        <5>1. box[j][s] = <<>>
          BY <4>2 DEF BookInv, EmptyChannels
        <5> QED
          BY <4>2, <5>1
      <4> QED
        BY <2>8, <4>1, <4>2
    <3> QED
      BY <3>1, <3>2, <3>3 DEF EmptyChannels
  <2> QED
    BY <2>9, <2>10, <2>11, <2>12 DEF BookInv
<1>5. CASE ReadEnds(k)
  <2>1. /\ k \notin lost \cup intentional /\ CloseWith(k, FALSE, pending) /\ lost' = lost \cup {k}
        /\ UNCHANGED <<app, ops, call, outcome, mode, inProc, client, conns, procs, at, on, seq, pings,
                       counter, peer, path, host, serves, eng>>
    BY <1>5 DEF ReadEnds, runnerVars, threadVars, hostVars
  <2>2. lost' \subseteq Conns /\ pending \in [Conns -> SUBSET Seqs] /\ FALSE \in BOOLEAN
    BY <1>1, <2>1 DEF ClientTypes
  <2>3. CloseEffect(pending) /\ closed' = closed \cup {k} /\ intentional' = intentional
    BY <1>1, <2>1, <2>2, CloseFacts
  <2>4. Types'
    <3>1. ThreadTypes' /\ HostTypes' /\ RunnerTypes'
      <4>1. ThreadTypes'
        BY <1>1, <2>1 DEF ThreadTypes
      <4>2. HostTypes' /\ RunnerTypes'
        BY <1>1, <2>1 DEF HostTypes, RunnerTypes
      <4> QED
        BY <4>1, <4>2
    <3>2. ClientTypes'
      BY <2>3 DEF CloseEffect
    <3>3. inProc' \in BOOLEAN
      BY <2>1 DEF BookInv, Types
    <3> QED
      BY <3>1, <3>2, <3>3 DEF Types
  <2>5. CallPlaces' /\ Numbered'
    BY <2>1 DEF BookInv, CallPlaces, Numbered
  <2>6. EndedOnce'
    BY <2>1, <2>3 DEF BookInv, EndedOnce, QuitIsNoLoss
  <2>7. FreshNumbers' /\ EmptyChannels'
    <3>1. \A u \in Threads : InFlight(u)' => at'[u] = at[u]
      BY <2>1
    <3>2. \A j \in Conns : \A s \in pending[j] : \E u \in Threads : at'[u] = "await" /\ on[u] = j /\ seq[u] = s
      BY <2>1 DEF BookInv, EmptyChannels
    <3> QED
      BY <1>1, <2>1, <2>3, <3>1, <3>2, CloseKeeps DEF BookInv
  <2> QED
    BY <2>4, <2>5, <2>6, <2>7 DEF BookInv
<1> QED
  BY <1>3, <1>4, <1>5 DEF Reader, Pinger


-----------------------------------------------------------------------------
(* The helpers.                                                            *)

\* Who listens, accepts and serves: a connection in use has a process at the
\* other end, an engine runs in a process that serves one, and a process that
\* starts an engine does so for the connect at the head of its queue.
HelperShape ==
    /\ \A k \in 1 .. conns : peer[k] \in Procs /\ host[peer[k]] \notin {"none", "spawned"}
    /\ \A p \in Procs : host[p] \in {"serving", "starting"} =>
                            serves[p] \in 1 .. conns /\ peer[serves[p]] = p
    /\ \A p \in eng : host[p] = "serving"
    /\ \A p \in Procs : host[p] = "starting" =>
                            up[serves[p]] # <<>> /\ Head(up[serves[p]]).type = "connect"
    /\ \A p \in Procs : host[p] = "none" \/ p <= procs

\* A step of the other side keeps the books when all it adds is answers to
\* messages it got.
LEMMA OtherSideKeepsBooks ==
  ASSUME BookInv, HostFrame, HostTypes', up' \in [Conns -> Seq(UpMsgs)], down' \in [Conns -> Seq(DownMsgs)],
         \A k \in Conns : Elems(up'[k]) \subseteq Elems(up[k]),
         \A k \in Conns : \A d \in Elems(down'[k]) :
            d \in Elems(down[k]) \/ \E m \in Elems(up[k]) : m.seq = d.seq
  PROVE  BookInv'
<1>1. UNCHANGED <<app, ops, call, outcome, mode, inProc, client, conns, procs, at, on, seq, pings, counter,
                  pending, box, closed, intentional, lost, peer>>
  BY DEF HostFrame, runnerVars, threadVars, clientVars
<1>2. Types /\ ThreadTypes /\ ClientTypes /\ RunnerTypes
  BY DEF BookInv, Types
<1>3. Types'
  <2>1. ThreadTypes' /\ RunnerTypes'
    BY <1>1, <1>2 DEF ThreadTypes, RunnerTypes
  <2>2. ClientTypes'
    BY <1>1, <1>2 DEF ClientTypes
  <2>3. inProc' \in BOOLEAN
    BY <1>1 DEF BookInv, Types
  <2> QED
    BY <2>1, <2>2, <2>3 DEF Types
<1>4. CallPlaces' /\ Numbered' /\ EndedOnce'
  BY <1>1 DEF BookInv, CallPlaces, Numbered, EndedOnce, QuitIsNoLoss
<1>5. FreshNumbers' /\ EmptyChannels'
  BY <1>1, <1>2, QuietKeeps DEF BookInv
<1> QED
  BY <1>3, <1>4, <1>5 DEF BookInv

\* What a host does to the queues when it answers the head of one.
LEMMA HandledFacts ==
  ASSUME ClientTypes, NEW p, NEW k \in Conns, NEW ok \in BOOLEAN, Handled(p, k, ok),
         up[k] # <<>>, Head(up[k]).type # "quit"
  PROVE  /\ up' \in [Conns -> Seq(UpMsgs)] /\ down' \in [Conns -> Seq(DownMsgs)]
         /\ \A j \in Conns : up'[j] = IF j = k THEN Tail(up[k]) ELSE up[j]
         /\ \A j \in Conns : \/ down'[j] = down[j]
                             \/ /\ j = k /\ k \notin closed
                                /\ down'[k] = Append(down[k], [seq |-> Head(up[k]).seq, ok |-> ok])
         /\ \A j \in Conns : Elems(up'[j]) \subseteq Elems(up[j])
         /\ \A j \in Conns : \A d \in Elems(down'[j]) :
               d \in Elems(down[j]) \/ \E m \in Elems(up[j]) : m.seq = d.seq
<1>1. /\ up \in [Conns -> Seq(UpMsgs)] /\ down \in [Conns -> Seq(DownMsgs)]
      /\ up[k] \in Seq(UpMsgs) /\ down[k] \in Seq(DownMsgs)
  BY DEF ClientTypes
<1>2. /\ Tail(up[k]) \in Seq(UpMsgs) /\ Head(up[k]) \in UpMsgs /\ Head(up[k]) \in Elems(up[k])
      /\ Elems(Tail(up[k])) \subseteq Elems(up[k])
  BY <1>1, ElemsFacts
<1>3. Head(up[k]).seq \in Seqs
  BY <1>2 DEF UpMsgs
<1>4. PICK d : d = [seq |-> Head(up[k]).seq, ok |-> ok]
  OBVIOUS
<1>5. d \in DownMsgs /\ d.seq = Head(up[k]).seq
  BY <1>3, <1>4 DEF DownMsgs
<1>6. Append(down[k], d) \in Seq(DownMsgs) /\ Elems(Append(down[k], d)) = Elems(down[k]) \cup {d}
  BY <1>1, <1>5, ElemsFacts
<1>7. /\ up' = [up EXCEPT ![k] = Tail(up[k])]
      /\ down' = down \/ (k \notin closed /\ down' = [down EXCEPT ![k] = Append(down[k], d)])
  BY <1>4 DEF Handled, Respond
<1>8. /\ up' \in [Conns -> Seq(UpMsgs)]
      /\ \A j \in Conns : up'[j] = IF j = k THEN Tail(up[k]) ELSE up[j]
  BY <1>1, <1>2, <1>7
<1>9. /\ down' \in [Conns -> Seq(DownMsgs)]
      /\ \A j \in Conns : down'[j] = down[j] \/ (j = k /\ k \notin closed /\ down'[k] = Append(down[k], d))
  BY <1>1, <1>6, <1>7
<1>10. \A j \in Conns : Elems(up'[j]) \subseteq Elems(up[j])
  BY <1>2, <1>8
<1>11. ASSUME NEW j \in Conns, NEW e \in Elems(down'[j])
       PROVE  e \in Elems(down[j]) \/ \E m \in Elems(up[j]) : m.seq = e.seq
  BY <1>2, <1>5, <1>6, <1>9, <1>11
<1> QED
  BY <1>4, <1>8, <1>9, <1>10, <1>11

\* What the end of a process does to the queues.
LEMMA GoneFacts ==
  ASSUME ClientTypes, HostTypes, NEW p \in Procs, NEW unlink \in BOOLEAN, Gone(p, unlink)
  PROVE  /\ up' \in [Conns -> Seq(UpMsgs)]
         /\ \A j \in Conns : up'[j] = IF peer[j] = p THEN <<>> ELSE up[j]
         /\ \A j \in Conns : Elems(up'[j]) \subseteq Elems(up[j])
         /\ \A q \in Procs : host'[q] = IF q = p THEN "gone" ELSE host[q]
         /\ host' \in [Procs -> {"none", "spawned", "listening", "serving", "starting", "gone"}]
         /\ path' \in {0, path} /\ serves' = serves /\ eng' = eng \ {p}
<1>1. up \in [Conns -> Seq(UpMsgs)] /\ <<>> \in Seq(UpMsgs)
  BY DEF ClientTypes
<1>2. up' = [j \in Conns |-> IF peer[j] = p THEN <<>> ELSE up[j]]
  BY DEF Gone
<1>3. /\ up' \in [Conns -> Seq(UpMsgs)]
      /\ \A j \in Conns : up'[j] = IF peer[j] = p THEN <<>> ELSE up[j]
  BY <1>1, <1>2
<1>4. Elems(<<>>) = {}
  BY DEF Elems
<1>5. \A j \in Conns : Elems(up'[j]) \subseteq Elems(up[j])
  BY <1>3, <1>4
<1>6. /\ \A q \in Procs : host'[q] = IF q = p THEN "gone" ELSE host[q]
      /\ host' \in [Procs -> {"none", "spawned", "listening", "serving", "starting", "gone"}]
  BY DEF Gone, HostTypes
<1>7. path' \in {0, path} /\ serves' = serves /\ eng' = eng \ {p}
  BY DEF Gone
<1> QED
  BY <1>3, <1>5, <1>6, <1>7

\* A process in use serves a connection that was dialled.
LEMMA ServesFacts ==
  ASSUME BookInv, HelperShape, NEW p \in Procs, host[p] \in {"serving", "starting"}
  PROVE  serves[p] \in 1 .. conns /\ serves[p] \in Conns /\ peer[serves[p]] = p
<1>1. conns \in 0 .. MaxConns
  BY DEF BookInv, Types, RunnerTypes
<1> QED
  BY <1>1, HelperAssumption DEF HelperShape, Conns

\* Every step of a helper keeps the books.
LEMMA HostKeepsBooks ==
  ASSUME BookInv, HelperShape, NEW p \in Procs, Host(p) \/ Listen(p) \/ Crash(p)
  PROVE  BookInv'
<1>1. Types /\ ClientTypes /\ HostTypes /\ RunnerTypes
  BY DEF BookInv, Types
<1>2. /\ up \in [Conns -> Seq(UpMsgs)] /\ down \in [Conns -> Seq(DownMsgs)]
      /\ \A k \in Conns : Elems(up[k]) \subseteq Elems(up[k])
  BY <1>1 DEF ClientTypes
<1>3. CASE Listen(p)
  <2>1. HostFrame /\ UNCHANGED <<serves, eng, up, down, peer>>
    BY <1>3 DEF Listen, HostFrame
  <2>2. HostTypes'
    BY <1>1, <1>3, <2>1 DEF Listen, HostTypes
  <2> QED
    BY <1>2, <2>1, <2>2, OtherSideKeepsBooks
<1>4. CASE Accept(p)
  <2>1. HostFrame /\ UNCHANGED <<path, eng, up, down, peer>>
    BY <1>4 DEF Accept, HostFrame
  <2>2. PICK k \in 1 .. conns : serves' = [serves EXCEPT ![p] = k]
    BY <1>4 DEF Accept
  <2>3. k \in Conns
    BY <1>1, HelperAssumption DEF Conns, RunnerTypes
  <2>4. HostTypes'
    BY <1>1, <1>4, <2>1, <2>2, <2>3 DEF Accept, HostTypes
  <2> QED
    BY <1>2, <2>1, <2>4, OtherSideKeepsBooks
<1>5. CASE Connect(p) /\ p \notin eng
  <2>1. HostFrame /\ UNCHANGED <<path, eng, serves, up, down, peer>>
    BY <1>5 DEF Connect, HostFrame
  <2>2. HostTypes'
    BY <1>1, <1>5, <2>1 DEF Connect, HostTypes
  <2> QED
    BY <1>2, <2>1, <2>2, OtherSideKeepsBooks
<1>6. CASE (Connect(p) /\ p \in eng) \/ Connected(p) \/ Disconnect(p) \/ Ping(p)
  <2>1. host[p] \in {"serving", "starting"} /\ HostFrame /\ UNCHANGED <<path, serves, peer>>
    BY <1>6 DEF Connect, Connected, Disconnect, Ping, HostFrame, hostVars
  <2>2. serves[p] \in Conns
    BY <2>1, ServesFacts
  <2>3. up[serves[p]] # <<>> /\ Head(up[serves[p]]).type # "quit"
    BY <1>6 DEF Connect, Connected, Disconnect, Ping, HelperShape
  <2>4. \E ok \in BOOLEAN : Handled(p, serves[p], ok)
    <3>1. CASE Connect(p) /\ p \in eng
      BY <3>1, FALSE \in BOOLEAN DEF Connect
    <3>2. CASE Connected(p)
      BY <3>2 DEF Connected
    <3>3. CASE Disconnect(p)
      BY <3>3, FALSE \in BOOLEAN, TRUE \in BOOLEAN DEF Disconnect
    <3>4. CASE Ping(p)
      BY <3>4, TRUE \in BOOLEAN DEF Ping
    <3> QED
      BY <1>6, <3>1, <3>2, <3>3, <3>4
  <2>5. PICK ok \in BOOLEAN : Handled(p, serves[p], ok)
    BY <2>4
  <2>6. HostTypes'
    <3>0. host' = host \/ host' = [host EXCEPT ![p] = "serving"]
      BY <1>6 DEF Connect, Connected, Disconnect, Ping, hostVars
    <3>1. host' \in [Procs -> {"none", "spawned", "listening", "serving", "starting", "gone"}]
      BY <1>1, <3>0 DEF HostTypes
    <3>2. eng' \subseteq eng \cup {p}
      <4>1. CASE Connected(p)
        BY <4>1 DEF Connected
      <4>2. CASE ~ Connected(p)
        BY <1>6, <4>2 DEF Connect, Disconnect, Ping, hostVars
      <4> QED
        BY <4>1, <4>2
    <3> QED
      BY <1>1, <2>1, <3>1, <3>2 DEF HostTypes
  <2>7. /\ up' \in [Conns -> Seq(UpMsgs)] /\ down' \in [Conns -> Seq(DownMsgs)]
        /\ \A j \in Conns : Elems(up'[j]) \subseteq Elems(up[j])
        /\ \A j \in Conns : \A d \in Elems(down'[j]) :
               d \in Elems(down[j]) \/ \E m \in Elems(up[j]) : m.seq = d.seq
    BY <1>1, <2>2, <2>3, <2>5, HandledFacts
  <2> QED
    BY <2>1, <2>6, <2>7, OtherSideKeepsBooks
<1>7. CASE Quit(p) \/ Crash(p)
  <2>1. HostFrame /\ UNCHANGED <<down, peer>>
    BY <1>7 DEF Quit, Crash, HostFrame
  <2>2. PICK unlink \in BOOLEAN : Gone(p, unlink)
    BY <1>7, TRUE \in BOOLEAN, FALSE \in BOOLEAN DEF Quit, Crash
  <2>3. /\ up' \in [Conns -> Seq(UpMsgs)]
        /\ \A j \in Conns : Elems(up'[j]) \subseteq Elems(up[j])
        /\ host' \in [Procs -> {"none", "spawned", "listening", "serving", "starting", "gone"}]
        /\ path' \in {0, path} /\ serves' = serves /\ eng' = eng \ {p}
    BY <1>1, <2>2, GoneFacts
  <2>4. HostTypes'
    BY <1>1, <2>1, <2>3 DEF HostTypes
  <2> QED
    BY <1>2, <2>1, <2>3, <2>4, OtherSideKeepsBooks
<1> QED
  BY <1>3, <1>4, <1>5, <1>6, <1>7 DEF Host

\* The app's end keeps the books.
LEMMA ShutdownKeepsBooks ==
  ASSUME BookInv, Shutdown
  PROVE  BookInv'
<1>1. Types /\ ThreadTypes /\ ClientTypes /\ HostTypes /\ RunnerTypes
  BY DEF BookInv, Types
<1>2. CASE Kill
  <2>1. HostFrame /\ UNCHANGED <<down, peer>> /\ Gone(procs, FALSE)
    BY <1>2 DEF Kill, HostFrame
  <2>2. procs \in Procs
    BY <1>1, <1>2, HelperAssumption DEF Kill, RunnerTypes, Procs
  <2>3. /\ up' \in [Conns -> Seq(UpMsgs)]
        /\ \A j \in Conns : Elems(up'[j]) \subseteq Elems(up[j])
        /\ host' \in [Procs -> {"none", "spawned", "listening", "serving", "starting", "gone"}]
        /\ path' \in {0, path} /\ serves' = serves /\ eng' = eng \ {procs}
    BY <1>1, <2>1, <2>2, GoneFacts, FALSE \in BOOLEAN
  <2>4. HostTypes'
    BY <1>1, <2>1, <2>3 DEF HostTypes
  <2>5. down' \in [Conns -> Seq(DownMsgs)]
    BY <1>1, <2>1 DEF ClientTypes
  <2> QED
    BY <2>1, <2>3, <2>4, <2>5, OtherSideKeepsBooks
<1>3. CASE Exit
  <2>1. /\ app' = "gone" /\ closed' = Conns /\ down' = [k \in Conns |-> <<>>] /\ call' = "none"
        /\ UNCHANGED <<ops, outcome, mode, client, conns, procs, at, on, seq, pings, counter, pending, box,
                       intentional, lost, up, peer, path, host, serves, eng>>
    BY <1>3 DEF Exit, threadVars, hostVars
  <2>2. inProc' = FALSE
    BY <1>3 DEF Exit
  <2>3. Types'
    <3>1. ThreadTypes' /\ HostTypes' /\ RunnerTypes'
      <4>1. ThreadTypes'
        BY <1>1, <2>1 DEF ThreadTypes
      <4>2. HostTypes' /\ RunnerTypes'
        BY <1>1, <2>1 DEF HostTypes, RunnerTypes
      <4> QED
        BY <4>1, <4>2
    <3>2. ClientTypes'
      BY <1>1, <2>1 DEF ClientTypes
    <3> QED
      BY <2>2, <3>1, <3>2 DEF Types
  <2>4. CallPlaces'
    BY <2>1, <2>2 DEF CallPlaces
  <2>5. Numbered' /\ EndedOnce'
    BY <1>1, <2>1 DEF BookInv, Numbered, EndedOnce, QuitIsNoLoss, ClientTypes
  <2>6. FreshNumbers' /\ EmptyChannels'
    <3>1. \A k \in Conns : Elems(down'[k]) = {}
      BY <2>1 DEF Elems
    <3> QED
      BY <1>1, <2>1, <3>1, QuietKeeps DEF BookInv
  <2> QED
    BY <2>3, <2>4, <2>5, <2>6 DEF BookInv
<1>4. CASE CloseRunner
  <2>1. /\ app = "up" /\ call = "none" /\ app' = "closing" /\ client' = 0
        /\ UNCHANGED <<ops, call, outcome, mode, conns, procs, at, on, seq, pings, counter, lost, peer,
                       path, host, serves, eng>>
    BY <1>4 DEF CloseRunner, threadVars, hostVars
  <2>2. inProc' = FALSE
    BY <1>4 DEF CloseRunner
  <2>3. /\ ClientTypes' /\ FreshNumbers' /\ EmptyChannels' /\ EndedOnce'
    <3>1. CASE client = 0
      <4>1. UNCHANGED <<pending, box, closed, intentional, up, down>>
        BY <1>4, <3>1 DEF CloseRunner
      <4>2. ClientTypes'
        BY <1>1, <2>1, <4>1 DEF ClientTypes
      <4>3. EndedOnce'
        BY <2>1, <4>1 DEF BookInv, EndedOnce, QuitIsNoLoss
      <4>4. FreshNumbers' /\ EmptyChannels'
        BY <1>1, <2>1, <4>1, QuietKeeps DEF BookInv
      <4> QED
        BY <4>2, <4>3, <4>4
    <3>2. CASE client # 0
      <4>1. client \in Conns /\ CloseWith(client, TRUE, pending)
        <5>1. client \in Conns
          BY <1>1, <3>2, HelperAssumption DEF RunnerTypes, Conns
        <5>2. CloseWith(client, TRUE, pending)
          BY <1>4, <3>2 DEF CloseRunner
        <5> QED
          BY <5>1, <5>2
      <4>2. pending \in [Conns -> SUBSET Seqs] /\ lost' \subseteq Conns /\ TRUE \in BOOLEAN
        BY <1>1, <2>1 DEF ClientTypes
      <4>3. /\ CloseEffect(pending) /\ closed' = closed \cup {client}
            /\ intentional' = (IF client \notin closed THEN intentional \cup {client} ELSE intentional)
        BY <1>1, <2>1, <4>1, <4>2, CloseFacts
      <4>4. FreshNumbers' /\ EmptyChannels'
        <5>1. \A u \in Threads : InFlight(u)' => at'[u] = at[u]
          BY <2>1
        <5>2. \A j \in Conns : \A s \in pending[j] :
                 \E u \in Threads : at'[u] = "await" /\ on[u] = j /\ seq[u] = s
          BY <2>1 DEF BookInv, EmptyChannels
        <5> QED
          BY <1>1, <2>1, <4>3, <5>1, <5>2, CloseKeeps DEF BookInv
      <4>5. EndedOnce'
        BY <2>1, <4>3 DEF BookInv, EndedOnce, QuitIsNoLoss
      <4> QED
        BY <4>3, <4>4, <4>5 DEF CloseEffect
    <3> QED
      BY <3>1, <3>2
  <2>4. Types'
    <3>1. ThreadTypes' /\ HostTypes' /\ RunnerTypes'
      <4>1. ThreadTypes'
        BY <1>1, <2>1 DEF ThreadTypes
      <4>2. HostTypes'
        BY <1>1, <2>1 DEF HostTypes
      <4>3. RunnerTypes'
        BY <1>1, <2>1, HelperAssumption DEF RunnerTypes
      <4> QED
        BY <4>1, <4>2, <4>3
    <3> QED
      BY <2>2, <2>3, <3>1 DEF Types
  <2>5. CallPlaces' /\ Numbered'
    <3>1. at[Op] = "idle"
      BY <2>1 DEF BookInv, CallPlaces
    <3> QED
      BY <2>1, <2>2, <3>1 DEF BookInv, CallPlaces, Numbered
  <2> QED
    BY <2>3, <2>4, <2>5 DEF BookInv
<1> QED
  BY <1>2, <1>3, <1>4 DEF Shutdown


\* A step that closes or adds to queues only keeps the helpers' shape.
LEMMA ShapeKept ==
  ASSUME BookInv, HelperShape, UNCHANGED <<conns, procs, peer, host, serves, eng>>,
         \A k \in Conns : up'[k] = up[k] \/ \E m : up'[k] = Append(up[k], m)
  PROVE  HelperShape'
<1>1. ASSUME NEW p \in Procs, host[p] = "starting"
      PROVE  up'[serves[p]] # <<>> /\ Head(up'[serves[p]]).type = "connect"
  <2>1. serves[p] \in Conns
    BY <1>1, ServesFacts
  <2>2. up[serves[p]] # <<>> /\ Head(up[serves[p]]).type = "connect"
    BY <1>1 DEF HelperShape
  <2>3. up[serves[p]] \in Seq(UpMsgs)
    BY <2>1 DEF BookInv, Types, ClientTypes
  <2>4. CASE up'[serves[p]] = up[serves[p]]
    BY <2>2, <2>4
  <2>5. CASE up'[serves[p]] # up[serves[p]]
    <3>1. PICK m : up'[serves[p]] = Append(up[serves[p]], m)
      BY <2>1, <2>5
    <3>2. Append(up[serves[p]], m) # <<>> /\ Head(Append(up[serves[p]], m)) = Head(up[serves[p]])
      BY <2>2, <2>3
    <3> QED
      BY <2>2, <3>1, <3>2
  <2> QED
    BY <2>4, <2>5
<1> QED
  BY <1>1 DEF HelperShape

\* The end of a process keeps the helpers' shape.
LEMMA GoneKeepsShape ==
  ASSUME BookInv, HelperShape, NEW p \in Procs, NEW unlink \in BOOLEAN, Gone(p, unlink),
         UNCHANGED <<conns, peer, procs>>, host[p] # "none" \/ p <= procs
  PROVE  HelperShape'
<1>1. /\ \A j \in Conns : up'[j] = IF peer[j] = p THEN <<>> ELSE up[j]
      /\ \A q \in Procs : host'[q] = IF q = p THEN "gone" ELSE host[q]
      /\ serves' = serves /\ eng' = eng \ {p}
  BY GoneFacts DEF BookInv, Types
<1>2. \A k \in 1 .. conns : peer[k] \in Procs /\ host'[peer[k]] \notin {"none", "spawned"}
  BY <1>1 DEF HelperShape
<1>3. \A q \in Procs : host'[q] \in {"serving", "starting"} =>
                          q # p /\ host[q] = host'[q] /\ serves[q] \in 1 .. conns /\ peer[serves[q]] = q
  BY <1>1 DEF HelperShape
<1>4. \A q \in eng' : host'[q] = "serving"
  BY <1>1 DEF HelperShape, BookInv, Types, HostTypes
<1>5. ASSUME NEW q \in Procs, host'[q] = "starting"
      PROVE  up'[serves[q]] # <<>> /\ Head(up'[serves[q]]).type = "connect"
  <2>1. q # p /\ host[q] = "starting" /\ serves[q] \in Conns /\ peer[serves[q]] = q
    BY <1>3, <1>5, ServesFacts
  <2>2. up'[serves[q]] = up[serves[q]]
    BY <1>1, <2>1
  <2> QED
    BY <2>1, <2>2 DEF HelperShape
<1>6. \A q \in Procs : host'[q] = "none" \/ q <= procs'
  BY <1>1 DEF HelperShape
<1> QED
  BY <1>1, <1>2, <1>3, <1>4, <1>5, <1>6 DEF HelperShape

\* A request of a thread only adds to the queues.
LEMMA RequestQueues ==
  ASSUME BookInv, NEW t \in Threads, Request(t)
  PROVE  /\ UNCHANGED <<app, ops, inProc, mode, client, conns, procs, on, pings, lost, peer, path, host,
                        serves, eng>>
         /\ \A k \in Conns : up'[k] = up[k] \/ \E m : up'[k] = Append(up[k], m)
<1>1. /\ UNCHANGED <<app, ops, inProc, mode, client, conns, procs, on, pings, lost, peer, path, host,
                     serves, eng>>
  BY DEF Request, Send, Register, Answered, TimedOut, RequestFrame, hostVars
<1>2. up \in [Conns -> Seq(UpMsgs)]
  BY DEF BookInv, Types, ClientTypes
<1>3. ASSUME NEW W, Failed(t, W) PROVE \A k \in Conns : up'[k] = up[k]
  BY <1>2, <1>3 DEF Failed, CloseWith
<1>4. CASE \E W : Failed(t, W)
  BY <1>1, <1>3, <1>4
<1>5. CASE ~ \E W : Failed(t, W)
  <2>1. up' = up \/ \E m : up' = [up EXCEPT ![on[t]] = Append(up[on[t]], m)]
    BY <1>5 DEF Request, Send, Register, Answered, TimedOut
  <2>2. \A k \in Conns : up'[k] = up[k] \/ \E m : up'[k] = Append(up[k], m)
    BY <1>2, <2>1
  <2> QED
    BY <1>1, <2>2
<1> QED
  BY <1>4, <1>5

\* Books and helpers, together.
ShapeInv == BookInv /\ HelperShape

\* Every step keeps them.
LEMMA ShapeStep ==
  ASSUME ShapeInv, [Next]_vars
  PROVE  ShapeInv'
<1>0. BookInv /\ HelperShape /\ HostTypes /\ RunnerTypes /\ ClientTypes
  BY DEF ShapeInv, BookInv, Types
<1>1. CASE Runner \/ Ensure
  <2>1. BookInv'
    BY <1>0, <1>1, RunnerKeepsBooks
  <2>2. UNCHANGED <<up, serves, eng>>
    BY <1>1 DEF Runner, Ensure, StartProxy, StartVPN, Stop, KeepClient, DialHelper, Spawn, EnsureFails,
       RunnerFrame, hostVars
  <2>3. CASE DialHelper
    <3>1. /\ peer' = [peer EXCEPT ![conns + 1] = path] /\ conns' = conns + 1 /\ UNCHANGED <<host, procs>>
          /\ conns < MaxConns /\ Alive(path)
      BY <2>3 DEF DialHelper, Dial, hostVars
    <3>2. conns + 1 \in Conns /\ conns \in Nat /\ path \in Procs /\ host[path] \notin {"none", "spawned"}
      BY <1>0, <3>1, HelperAssumption DEF Conns, RunnerTypes, HostTypes, Alive
    <3>3. /\ \A k \in Conns : peer'[k] = IF k = conns + 1 THEN path ELSE peer[k]
          /\ \A k \in 1 .. conns : k \in Conns /\ k # conns + 1 /\ k \in 1 .. conns'
          /\ \A k \in 1 .. conns' : k \in 1 .. conns \/ k = conns + 1
      BY <1>0, <3>1, <3>2, HelperAssumption DEF HostTypes, Conns
    <3> QED
      BY <1>0, <2>1, <2>2, <3>1, <3>2, <3>3 DEF HelperShape, ShapeInv
  <2>4. CASE Spawn
    <3>1. /\ host' = [host EXCEPT ![procs + 1] = "spawned"] /\ UNCHANGED <<conns, peer>>
      BY <2>4 DEF Spawn
    <3>2. procs + 1 \in Procs
      BY <1>0, <2>4, HelperAssumption DEF Spawn, RunnerTypes, Procs
    <3>3. host[procs + 1] = "none"
      BY <1>0, <3>2, HelperAssumption DEF HelperShape, RunnerTypes, Procs
    <3>4. procs' = procs + 1 /\ procs \in Nat /\ \A p \in Procs : p \in Nat
      BY <1>0, <2>4, HelperAssumption DEF Spawn, RunnerTypes, Procs
    <3> QED
      BY <1>0, <2>1, <2>2, <3>1, <3>2, <3>3, <3>4 DEF HelperShape, ShapeInv, HostTypes
  <2>5. CASE ~ DialHelper /\ ~ Spawn
    <3>1. UNCHANGED <<conns, procs, peer, host>>
      BY <1>1, <2>5 DEF Runner, Ensure, StartProxy, StartVPN, Stop, KeepClient, EnsureFails, hostVars
    <3> QED
      BY <1>0, <2>1, <2>2, <3>1, ShapeKept DEF ShapeInv
  <2> QED
    BY <2>3, <2>4, <2>5
<1>2. CASE Shutdown
  <2>1. BookInv'
    BY <1>0, <1>2, ShutdownKeepsBooks
  <2>2. CASE Kill
    <3>1. Gone(procs, FALSE) /\ UNCHANGED <<conns, peer, procs>> /\ procs # 0
      BY <2>2 DEF Kill, runnerVars
    <3>2. procs \in Procs /\ procs <= procs
      BY <1>0, <3>1, HelperAssumption DEF RunnerTypes, Procs
    <3> QED
      BY <1>0, <2>1, <3>1, <3>2, FALSE \in BOOLEAN, GoneKeepsShape DEF ShapeInv
  <2>3. CASE Exit
    <3>1. UNCHANGED <<conns, procs, peer, host, serves, eng, up>>
      BY <2>3 DEF Exit, hostVars
    <3> QED
      BY <1>0, <2>1, <3>1, ShapeKept DEF ShapeInv
  <2>4. CASE CloseRunner
    <3>1. UNCHANGED <<conns, procs, peer, host, serves, eng>>
      BY <2>4 DEF CloseRunner, hostVars
    <3>2. \A k \in Conns : up'[k] = up[k] \/ \E m : up'[k] = Append(up[k], m)
      <4>1. up' = up \/ up' = [up EXCEPT ![client] = Append(up[client], [type |-> "quit", seq |-> 0])]
        BY <2>4 DEF CloseRunner, CloseWith
      <4> QED
        BY <1>0, <4>1 DEF ClientTypes
    <3> QED
      BY <1>0, <2>1, <3>1, <3>2, ShapeKept DEF ShapeInv
  <2> QED
    BY <1>2, <2>2, <2>3, <2>4 DEF Shutdown
<1>3. CASE \E t \in Threads : Request(t)
  <2>1. PICK t \in Threads : Request(t)
    BY <1>3
  <2>2. BookInv'
    BY <1>0, <2>1, RequestKeepsBooks
  <2> QED
    BY <1>0, <2>1, <2>2, RequestQueues, ShapeKept DEF ShapeInv
<1>4. CASE \E k \in Conns : Reader(k) \/ Pinger(k)
  <2>1. PICK k \in Conns : Reader(k) \/ Pinger(k)
    BY <1>4
  <2>2. BookInv'
    BY <1>0, <2>1, ReaderKeepsBooks
  <2>3. UNCHANGED <<conns, procs, peer, host, serves, eng>>
    BY <2>1 DEF Reader, Pinger, Read, ReadEnds, Tick, runnerVars, hostVars
  <2>4. \A j \in Conns : up'[j] = up[j]
    BY <2>1 DEF Reader, Pinger, Read, ReadEnds, Tick, CloseWith
  <2> QED
    BY <1>0, <2>2, <2>3, <2>4, ShapeKept DEF ShapeInv
<1>5. CASE \E p \in Procs : Host(p) \/ Listen(p) \/ Crash(p)
  <2>1. PICK p \in Procs : Host(p) \/ Listen(p) \/ Crash(p)
    BY <1>5
  <2>2. BookInv'
    BY <1>0, <2>1, HostKeepsBooks
  <2>3. UNCHANGED <<conns, procs, peer>>
    BY <2>1 DEF Host, Listen, Crash, Accept, Connect, Connected, Disconnect, Ping, Quit, HostFrame, runnerVars
  <2>4. CASE Quit(p) \/ Crash(p)
    <3>1. PICK unlink \in BOOLEAN : Gone(p, unlink)
      BY <2>4, TRUE \in BOOLEAN, FALSE \in BOOLEAN DEF Quit, Crash
    <3>2. host[p] # "none"
      BY <2>4 DEF Quit, Crash, Alive
    <3> QED
      BY <1>0, <2>2, <2>3, <3>1, <3>2, GoneKeepsShape DEF ShapeInv
  <2>5. CASE Listen(p)
    <3>1. /\ UNCHANGED <<serves, eng, up>> /\ host[p] = "spawned"
          /\ \A q \in Procs : host'[q] = host[q] \/ (q = p /\ host'[q] \in {"listening", "gone"})
      BY <1>0, <2>5 DEF Listen, HostTypes
    <3> QED
      BY <1>0, <2>2, <2>3, <3>1 DEF HelperShape, ShapeInv, HostTypes
  <2>6. CASE Accept(p)
    <3>1. PICK k \in 1 .. conns : peer[k] = p /\ serves' = [serves EXCEPT ![p] = k]
      BY <2>6 DEF Accept
    <3>2. /\ UNCHANGED <<eng, up>> /\ host[p] = "listening"
          /\ \A q \in Procs : host'[q] = IF q = p THEN "serving" ELSE host[q]
          /\ \A q \in Procs : serves'[q] = IF q = p THEN k ELSE serves[q]
      BY <1>0, <2>6, <3>1 DEF Accept, HostTypes
    <3> QED
      BY <1>0, <2>2, <2>3, <3>1, <3>2 DEF HelperShape, ShapeInv, HostTypes
  <2>7. CASE Connect(p) /\ p \notin eng
    <3>1. /\ UNCHANGED <<serves, eng, up>> /\ host[p] = "serving"
          /\ up[serves[p]] # <<>> /\ Head(up[serves[p]]).type = "connect"
          /\ \A q \in Procs : host'[q] = IF q = p THEN "starting" ELSE host[q]
      BY <1>0, <2>7 DEF Connect, HostTypes
    <3> QED
      BY <1>0, <2>2, <2>3, <2>7, <3>1 DEF HelperShape, ShapeInv, HostTypes
  <2>8. CASE (Connect(p) /\ p \in eng) \/ Connected(p) \/ Disconnect(p) \/ Ping(p)
    <3>1. /\ serves' = serves /\ eng' \subseteq eng \cup {p} /\ host[p] \in {"serving", "starting"}
          /\ \A q \in Procs : host'[q] = IF q = p THEN "serving" ELSE host[q]
          /\ up' = [up EXCEPT ![serves[p]] = Tail(@)]
      <4>1. /\ serves' = serves /\ eng' \subseteq eng \cup {p} /\ host[p] \in {"serving", "starting"}
            /\ up' = [up EXCEPT ![serves[p]] = Tail(@)]
        BY <2>8 DEF Connect, Connected, Disconnect, Ping, Handled, hostVars
      <4>2. (host' = host /\ host[p] = "serving") \/ host' = [host EXCEPT ![p] = "serving"]
        BY <2>8 DEF Connect, Connected, Disconnect, Ping, hostVars
      <4> QED
        BY <1>0, <4>1, <4>2 DEF HostTypes
    <3>2. ASSUME NEW q \in Procs, host'[q] = "starting"
          PROVE  up'[serves[q]] = up[serves[q]] /\ host[q] = "starting"
      <4>1. q # p /\ host[q] = "starting"
        BY <3>1, <3>2
      <4>2. serves[q] # serves[p]
        BY <1>0, <3>1, <4>1, ServesFacts
      <4>3. serves[q] \in Conns
        BY <1>0, <4>1, ServesFacts
      <4> QED
        BY <1>0, <3>1, <4>1, <4>2, <4>3 DEF ClientTypes
    <3>3. \A q \in eng' : host'[q] = "serving"
      BY <1>0, <3>1 DEF HelperShape, HostTypes
    <3> QED
      BY <1>0, <2>2, <2>3, <3>1, <3>2, <3>3 DEF HelperShape, ShapeInv
  <2> QED
    BY <2>1, <2>4, <2>5, <2>6, <2>7, <2>8 DEF Host
<1>6. CASE UNCHANGED vars
  <2>1. BookInv'
    BY <1>0, <1>6 DEF BookInv, Types, RunnerTypes, ThreadTypes, ClientTypes, HostTypes, CallPlaces, Numbered,
       FreshNumbers, EmptyChannels, EndedOnce, QuitIsNoLoss, InFlight, vars, runnerVars, threadVars,
       clientVars, hostVars
  <2>2. UNCHANGED <<conns, procs, peer, host, serves, eng, up>>
    BY <1>6 DEF vars, runnerVars, hostVars
  <2> QED
    BY <1>0, <2>1, <2>2, ShapeKept DEF ShapeInv
<1> QED
  BY <1>1, <1>2, <1>3, <1>4, <1>5, <1>6 DEF Next


\* They hold at the start.
LEMMA ShapeInit ==
  ASSUME Init
  PROVE  ShapeInv
<1>1. /\ 0 \in 0 .. MaxOps /\ 0 \in 0 .. MaxConns /\ 0 \in 0 .. MaxProcs /\ 0 \in 0 .. MaxPings
      /\ 0 \in 0 .. 0 /\ 1 .. 0 = {}
  BY HelperAssumption
<1>2. Op \in Threads /\ Op \notin Conns
  BY DEF Threads, Conns, Op
<1>3. RunnerTypes
  BY <1>1 DEF Init, RunnerTypes
<1>4. ThreadTypes
  <2>1. on \in [Threads -> {0} \cup Conns] /\ \A k \in Conns : on[k] = k
    BY DEF Init, Threads, Op
  <2> QED
    BY <1>1, <2>1 DEF Init, ThreadTypes
<1>5. ClientTypes
  <2>1. <<>> \in Seq(BOOLEAN) /\ <<>> \in Seq(UpMsgs) /\ <<>> \in Seq(DownMsgs)
    OBVIOUS
  <2> QED
    BY <2>1 DEF Init, ClientTypes
<1>6. HostTypes
  BY DEF Init, HostTypes
<1>7. inProc \in BOOLEAN /\ ~ inProc
  BY DEF Init
<1>8. CallPlaces
  BY <1>2, <1>7 DEF Init, CallPlaces
<1>9. Numbered
  <2> SUFFICES ASSUME NEW k \in Conns
               PROVE  counter[k] + One(at[k] = "send") + One(at[Op] \in {"ensure", "spawned", "send"})
                        <= ops + pings[k]
    BY DEF Numbered
  <2>1. counter[k] = 0 /\ ops = 0 /\ pings[k] = 0 /\ at[k] = "idle" /\ at[Op] = "idle"
    BY <1>2 DEF Init, Threads
  <2>2. One(at[k] = "send") = 0
    BY <2>1 DEF One
  <2>3. One(at[Op] \in {"ensure", "spawned", "send"}) = 0
    BY <2>1 DEF One
  <2> QED
    BY <2>1, <2>2, <2>3
<1>10. FreshNumbers
  <2>1. \A k \in Conns : Elems(up[k]) \cup Elems(down[k]) = {}
    BY DEF Init, Elems
  <2> QED
    BY <2>1 DEF Init, FreshNumbers, InFlight
<1>11. EmptyChannels
  <2>1. \A t \in Threads : at[t] = "idle"
    BY DEF Init
  <2>2. \A k \in Conns : pending[k] = {} /\ \A s \in Seqs : box[k][s] = <<>>
    BY DEF Init
  <2> QED
    BY <2>1, <2>2 DEF EmptyChannels
<1>12. EndedOnce
  BY DEF Init, EndedOnce, QuitIsNoLoss
<1>13. HelperShape
  BY <1>1 DEF Init, HelperShape
<1> QED
  BY <1>3, <1>4, <1>5, <1>6, <1>7, <1>8, <1>9, <1>10, <1>11, <1>12, <1>13 DEF ShapeInv, BookInv, Types

\* Books and helpers are sound in every state.
THEOREM BooksAreSound == Spec => []ShapeInv
<1>1. Init => ShapeInv
  BY ShapeInit
<1>2. ShapeInv /\ [Next]_vars => ShapeInv'
  BY ShapeStep
<1> QED
  BY <1>1, <1>2, PTL DEF Spec

\* What the books say about the client: every variable has its type (the
\* numbers a connection hands out stay within the calls and pings that were
\* made), a channel gets one answer, and a deliberate close is no loss.
LEMMA BooksGiveClientInv == ShapeInv => ClientInv
<1> SUFFICES ASSUME ShapeInv PROVE ClientInv
  OBVIOUS
<1>1. /\ RunnerTypes /\ ThreadTypes /\ ClientTypes /\ HostTypes /\ inProc \in BOOLEAN
      /\ Numbered /\ EmptyChannels /\ EndedOnce
  BY DEF ShapeInv, BookInv, Types
<1>2. ASSUME NEW k \in Conns PROVE counter[k] \in {0} \cup Seqs
  <2> DEFINE a == at[k] = "send"  b == at[Op] \in {"ensure", "spawned", "send"}
  <2>1. counter[k] + One(a) + One(b) <= ops + pings[k]
    BY <1>1 DEF Numbered
  <2>2. counter[k] \in Nat /\ pings[k] \in 0 .. MaxPings /\ ops \in 0 .. MaxOps
        /\ MaxPings \in Nat /\ MaxOps \in Nat
    BY <1>1, HelperAssumption DEF ClientTypes, ThreadTypes, RunnerTypes
  <2> HIDE DEF a, b
  <2>3. counter[k] <= MaxOps + MaxPings
    BY <2>1, <2>2 DEF One
  <2> QED
    BY <2>2, <2>3 DEF Seqs
<1>3. counter \in [Conns -> {0} \cup Seqs]
  BY <1>1, <1>2 DEF ClientTypes
<1>4. client \in {0} \cup Conns
  BY <1>1, HelperAssumption DEF RunnerTypes, Conns
<1>5. \A k \in Conns :
          /\ up[k] \in Seq([type : {"connect", "disconnect", "ping", "quit"}, seq : {0} \cup Seqs])
          /\ down[k] \in Seq([seq : Seqs, ok : BOOLEAN])
  <2> SUFFICES ASSUME NEW k \in Conns
               PROVE  /\ up[k] \in Seq([type : {"connect", "disconnect", "ping", "quit"}, seq : {0} \cup Seqs])
                      /\ down[k] \in Seq([seq : Seqs, ok : BOOLEAN])
    OBVIOUS
  <2> DEFINE M == [type : {"connect", "disconnect", "ping", "quit"}, seq : {0} \cup Seqs]
  <2>1. up[k] \in Seq(UpMsgs) /\ UpMsgs \subseteq M
    BY <1>1 DEF ClientTypes, UpMsgs
  <2>2. down[k] \in Seq([seq : Seqs, ok : BOOLEAN])
    BY <1>1 DEF ClientTypes, DownMsgs
  <2> HIDE DEF M
  <2>3. up[k] \in Seq(M)
    BY <2>1
  <2> QED
    BY <2>2, <2>3 DEF M
<1>6. \A k \in Conns : \A n \in Seqs : box[k][n] \in Seq(BOOLEAN)
  BY <1>1 DEF ClientTypes
<1>7. TypeOK
  <2>1. /\ app \in {"up", "closing", "gone"} /\ ops \in 0 .. MaxOps /\ call \in {"none", "start", "stop"}
        /\ outcome \in {"none", "started", "failed", "stopped"} /\ mode \in {"vpn", "proxy"}
        /\ conns \in 0 .. MaxConns /\ procs \in 0 .. MaxProcs
    BY <1>1 DEF RunnerTypes
  <2>2. /\ at \in [Threads -> {"idle", "ensure", "spawned", "send", "sent", "await", "dead"}]
        /\ on \in [Threads -> {0} \cup Conns] /\ seq \in [Threads -> {0} \cup Seqs]
        /\ pings \in [Conns -> 0 .. MaxPings]
    BY <1>1 DEF ThreadTypes
  <2>3. /\ pending \in [Conns -> SUBSET Seqs]
        /\ closed \subseteq Conns /\ intentional \subseteq Conns /\ lost \subseteq Conns
    BY <1>1 DEF ClientTypes
  <2>4. /\ peer \in [Conns -> {0} \cup Procs] /\ path \in {0} \cup Procs
        /\ host \in [Procs -> {"none", "spawned", "listening", "serving", "starting", "gone"}]
        /\ serves \in [Procs -> {0} \cup Conns] /\ eng \subseteq Procs
    BY <1>1 DEF HostTypes
  <2> QED
    BY <1>1, <1>3, <1>4, <1>5, <1>6, <2>1, <2>2, <2>3, <2>4, Zenon DEF TypeOK
<1>8. AnsweredOnce /\ QuitIsNoLoss
  BY <1>1 DEF AnsweredOnce, EmptyChannels, EndedOnce
<1> QED
  BY <1>7, <1>8 DEF ClientInv

\* The bookkeeping of helper_client.go holds in every state, whatever times
\* out, crashes or is answered late.
THEOREM ClientIsSound == Spec => []ClientInv
BY BooksAreSound, BooksGiveClientInv, PTL


-----------------------------------------------------------------------------
(* The queue of requests on their way to a helper.                         *)

HasConnect(u) == \E m \in Elems(u) : m.type = "connect"
NoDisconnect(u) == \A m \in Elems(u) : m.type # "disconnect"

\* A message, or an answer, with number s is in the queue.
Carries(u, s) == \E m \in Elems(u) : m.seq = s

\* Behind every connect there is a disconnect or a quit.
Ended(u) ==
    \E i \in 1 .. Len(u) :
        /\ u[i].type \in {"disconnect", "quit"}
        /\ \A j \in 1 .. Len(u) : u[j].type = "connect" => j < i

\* If number s is in the queue, it is one connect, with no disconnect behind.
LastIs(u, s) ==
    \A i, j \in 1 .. Len(u) : u[i].seq = s =>
        /\ u[i].type = "connect"
        /\ u[j].type = "disconnect" => j < i
        /\ u[j].seq = s => j = i

\* A good answer to number s is on its way, or in its channel.
Yes(d, s) == [seq |-> s, ok |-> TRUE] \in Elems(d)
Good(b) == b # <<>> /\ Head(b)

-----------------------------------------------------------------------------
(* Engines and the requests for them.                                      *)

\* Connection k is closed, or its helper has gone.
Off(k) == k \in closed \/ host[peer[k]] = "gone"

\* The helper of connection k serves it and has an engine.
Engine(k) == peer[k] \in eng /\ serves[peer[k]] = k

\* If the helper of connection k has an engine, or is asked for one, the end of
\* that engine is on its way.
Settled(k) == Off(k) \/ (Engine(k) \/ HasConnect(up[k]) => Ended(up[k]))

\* The engine of connection k is up, and no disconnect is on its way.
Runs(k) == Engine(k) /\ NoDisconnect(up[k])

\* Number s is the last connect of connection k: it is on its way, with no
\* disconnect behind it, or it is answered, and if well, the engine is up.
LastConnect(k, s) ==
    /\ LastIs(up[k], s)
    /\ Carries(up[k], s) => box[k][s] = <<>> /\ ~ Carries(down[k], s)
    /\ Good(box[k][s]) \/ Yes(down[k], s) => Runs(k)

\* No connect was sent since the last disconnect.
Calm ==
    \/ outcome \in {"none", "stopped"} /\ call = "none"
    \/ mode = "proxy"
    \/ call = "start" /\ at[Op] \in {"ensure", "spawned", "send"}
    \/ call = "stop" /\ InFlight(Op)

\* Only the runner's client is open, and only what was dialled is used.
OneClient ==
    /\ \A k \in 1 .. conns : k \notin closed => k = client
    /\ app = "up" /\ client = 0 => conns = 0
    /\ client # 0 => client = conns
    /\ at[Op] = "spawned" => client = 0 \/ client \in closed
    /\ \A k \in Conns : k > conns => up[k] = <<>>

SettleInv == Calm => \A k \in 1 .. conns : Settled(k)

\* A VPN start was reported a success.
Started == outcome = "started" /\ mode = "vpn" /\ call = "none"

StartInv ==
    /\ call = "start" /\ InFlight(Op) => Off(on[Op]) \/ LastConnect(on[Op], seq[Op])
    /\ app = "up" /\ Started => client # 0 /\ (Off(client) \/ Runs(client))

LifeInv == OneClient /\ SettleInv /\ StartInv

\* What a message at the end of the queue changes.
LEMMA AppendQueue ==
  ASSUME NEW u \in Seq(UpMsgs), NEW m \in UpMsgs
  PROVE  /\ m.type \in {"disconnect", "quit"} => Ended(Append(u, m))
         /\ m.type # "connect" /\ Ended(u) => Ended(Append(u, m))
         /\ m.type # "connect" /\ HasConnect(Append(u, m)) => HasConnect(u)
         /\ m.type # "disconnect" /\ NoDisconnect(u) => NoDisconnect(Append(u, m))
         /\ \A s :
               /\ m.type # "disconnect" /\ m.seq # s /\ LastIs(u, s) => LastIs(Append(u, m), s)
               /\ m.type = "connect" /\ m.seq = s /\ ~ Carries(u, s) => LastIs(Append(u, m), s)
               /\ m.seq # s /\ Carries(Append(u, m), s) => Carries(u, s)
<1> DEFINE v == Append(u, m)  l == Len(u)
<1>1. /\ l \in Nat /\ Len(v) = l + 1 /\ v[l + 1] = m
      /\ \A n \in 1 .. l : v[n] = u[n]
  OBVIOUS
<1>2. Elems(v) = Elems(u) \cup {m}
  BY ElemsFacts
<1>3. \A n \in 1 .. l : u[n] \in Elems(u)
  BY DEF Elems
<1>4. Len(u) = l
  OBVIOUS
<1> HIDE DEF v, l
<1>5. 1 .. Len(v) = (1 .. l) \cup {l + 1} /\ l + 1 \notin 1 .. l /\ \A n \in 1 .. l : n < l + 1
  BY <1>1
<1>6. m.type \in {"disconnect", "quit"} => Ended(v)
  <2> SUFFICES ASSUME m.type \in {"disconnect", "quit"} PROVE Ended(v)
    OBVIOUS
  <2>1. \A j \in 1 .. Len(v) : v[j].type = "connect" => j < l + 1
    BY <1>1, <1>5
  <2>2. l + 1 \in 1 .. Len(v) /\ v[l + 1].type \in {"disconnect", "quit"}
    BY <1>1, <1>5
  <2> QED
    BY <2>1, <2>2 DEF Ended
<1>7. m.type # "connect" /\ Ended(u) => Ended(v)
  <2> SUFFICES ASSUME m.type # "connect", Ended(u) PROVE Ended(v)
    OBVIOUS
  <2>1. PICK i \in 1 .. l : /\ u[i].type \in {"disconnect", "quit"}
                            /\ \A j \in 1 .. l : u[j].type = "connect" => j < i
    BY <1>4 DEF Ended
  <2>2. i \in 1 .. Len(v) /\ v[i].type \in {"disconnect", "quit"}
    BY <1>1, <1>5, <2>1
  <2>3. \A j \in 1 .. Len(v) : v[j].type = "connect" => j < i
    BY <1>1, <1>5, <2>1
  <2> QED
    BY <2>2, <2>3 DEF Ended
<1>8. /\ m.type # "connect" /\ HasConnect(v) => HasConnect(u)
      /\ m.type # "disconnect" /\ NoDisconnect(u) => NoDisconnect(v)
      /\ \A s : m.seq # s /\ Carries(v, s) => Carries(u, s)
  BY <1>2 DEF HasConnect, NoDisconnect, Carries
<1>9. \A s : m.type # "disconnect" /\ m.seq # s /\ LastIs(u, s) => LastIs(v, s)
  BY <1>1, <1>4, <1>5 DEF LastIs
<1>10. \A s : m.type = "connect" /\ m.seq = s /\ ~ Carries(u, s) => LastIs(v, s)
  <2> SUFFICES ASSUME NEW s, m.type = "connect", m.seq = s, ~ Carries(u, s) PROVE LastIs(v, s)
    OBVIOUS
  <2>1. \A n \in 1 .. l : u[n].seq # s
    BY <1>3 DEF Carries
  <2>2. \A n \in 1 .. Len(v) : v[n].seq = s => n = l + 1
    BY <1>1, <1>5, <2>1
  <2>3. \A j \in 1 .. Len(v) : v[j].type = "disconnect" => j < l + 1
    BY <1>1, <1>5
  <2> QED
    BY <1>1, <2>2, <2>3 DEF LastIs
<1> QED
  BY <1>6, <1>7, <1>8, <1>9, <1>10 DEF v

\* What the handling of the head of the queue changes.
LEMMA TailQueue ==
  ASSUME NEW u \in Seq(UpMsgs), u # <<>>, NEW s
  PROVE  /\ Ended(u) /\ (Head(u).type \notin {"disconnect", "quit"} \/ HasConnect(Tail(u))) => Ended(Tail(u))
         /\ HasConnect(Tail(u)) \/ Head(u).type = "connect" => HasConnect(u)
         /\ NoDisconnect(u) => NoDisconnect(Tail(u)) /\ Head(u).type # "disconnect"
         /\ LastIs(u, s) => LastIs(Tail(u), s)
         /\ LastIs(u, s) /\ Head(u).seq = s =>
               Head(u).type = "connect" /\ NoDisconnect(Tail(u)) /\ ~ Carries(Tail(u), s)
         /\ Carries(Tail(u), s) \/ Head(u).seq = s => Carries(u, s)
<1> DEFINE t == Tail(u)  l == Len(t)
<1>1. /\ l \in Nat /\ Len(u) = l + 1 /\ Head(u) = u[1]
      /\ \A n \in 1 .. l : t[n] = u[n + 1]
  OBVIOUS
<1>2. Elems(t) \subseteq Elems(u) /\ Head(u) \in Elems(u)
  BY ElemsFacts
<1>3. Len(t) = l
  OBVIOUS
<1>4. Elems(t) = {t[n] : n \in 1 .. l}
  BY DEF Elems
<1> HIDE DEF t, l
<1>5. /\ \A n \in 1 .. l : n + 1 \in 1 .. Len(u) /\ n + 1 # 1
      /\ \A n \in 1 .. Len(u) : n = 1 \/ (n - 1 \in 1 .. l /\ t[n - 1] = u[n])
      /\ 1 \in 1 .. Len(u)
  BY <1>1
<1>6. Ended(u) /\ (Head(u).type \notin {"disconnect", "quit"} \/ HasConnect(t)) => Ended(t)
  <2> SUFFICES ASSUME Ended(u), Head(u).type \notin {"disconnect", "quit"} \/ HasConnect(t) PROVE Ended(t)
    OBVIOUS
  <2>1. PICK i \in 1 .. Len(u) : /\ u[i].type \in {"disconnect", "quit"}
                                 /\ \A j \in 1 .. Len(u) : u[j].type = "connect" => j < i
    BY DEF Ended
  <2>2. i # 1
    <3>1. CASE Head(u).type \notin {"disconnect", "quit"}
      BY <1>1, <2>1, <3>1
    <3>2. CASE HasConnect(t)
      <4>1. PICK n \in 1 .. l : t[n].type = "connect"
        BY <1>4, <3>2 DEF HasConnect
      <4>2. u[n + 1].type = "connect" /\ n + 1 \in 1 .. Len(u)
        BY <1>1, <1>5, <4>1
      <4>3. n + 1 < i
        BY <2>1, <4>2
      <4> QED
        BY <1>1, <4>3
    <3> QED
      BY <3>1, <3>2
  <2>3. i - 1 \in 1 .. l /\ t[i - 1].type \in {"disconnect", "quit"}
    BY <1>5, <2>1, <2>2
  <2>4. ASSUME NEW j \in 1 .. l, t[j].type = "connect" PROVE j < i - 1
    <3>1. j + 1 < i
      BY <1>1, <1>5, <2>1, <2>4
    <3> QED
      BY <1>1, <3>1
  <2> QED
    BY <1>3, <2>3, <2>4 DEF Ended
<1>7. /\ HasConnect(t) \/ Head(u).type = "connect" => HasConnect(u)
      /\ NoDisconnect(u) => NoDisconnect(t) /\ Head(u).type # "disconnect"
      /\ Carries(t, s) \/ Head(u).seq = s => Carries(u, s)
  BY <1>2 DEF HasConnect, NoDisconnect, Carries
<1>8. LastIs(u, s) => LastIs(t, s)
  <2> SUFFICES ASSUME LastIs(u, s), NEW i \in 1 .. l, NEW j \in 1 .. l, t[i].seq = s
               PROVE  /\ t[i].type = "connect"
                      /\ t[j].type = "disconnect" => j < i
                      /\ t[j].seq = s => j = i
    BY <1>3 DEF LastIs
  <2>1. /\ u[i + 1] = t[i] /\ u[j + 1] = t[j] /\ i + 1 \in 1 .. Len(u) /\ j + 1 \in 1 .. Len(u)
    BY <1>1, <1>5
  <2>2. /\ u[i + 1].type = "connect"
        /\ u[j + 1].type = "disconnect" => j + 1 < i + 1
        /\ u[j + 1].seq = s => j + 1 = i + 1
    BY <2>1 DEF LastIs
  <2> QED
    BY <1>1, <2>1, <2>2
<1>9. LastIs(u, s) /\ Head(u).seq = s => Head(u).type = "connect" /\ NoDisconnect(t) /\ ~ Carries(t, s)
  <2> SUFFICES ASSUME LastIs(u, s), Head(u).seq = s
               PROVE  Head(u).type = "connect" /\ NoDisconnect(t) /\ ~ Carries(t, s)
    OBVIOUS
  <2>1. \A j \in 1 .. Len(u) : /\ u[1].type = "connect"
                               /\ u[j].type = "disconnect" => j < 1
                               /\ u[j].seq = s => j = 1
    BY <1>1, <1>5 DEF LastIs
  <2>2. ASSUME NEW n \in 1 .. l PROVE t[n].type # "disconnect" /\ t[n].seq # s
    <3>1. u[n + 1] = t[n] /\ n + 1 \in 1 .. Len(u) /\ ~ (n + 1 < 1) /\ n + 1 # 1
      BY <1>1, <1>5
    <3> QED
      BY <2>1, <3>1
  <2>3. NoDisconnect(t) /\ ~ Carries(t, s)
    BY <1>4, <2>2 DEF NoDisconnect, Carries
  <2> QED
    BY <1>1, <1>5, <2>1, <2>3
<1> QED
  BY <1>6, <1>7, <1>8, <1>9 DEF t

\* What an answer at the end of the other queue, or taken from it, changes.
LEMMA AnswerQueue ==
  ASSUME NEW d \in Seq(DownMsgs), NEW s
  PROVE  /\ \A n, r : n # s =>
               /\ Carries(Append(d, [seq |-> n, ok |-> r]), s) => Carries(d, s)
               /\ Yes(Append(d, [seq |-> n, ok |-> r]), s) => Yes(d, s)
         /\ Yes(Append(d, [seq |-> s, ok |-> FALSE]), s) => Yes(d, s)
         /\ Yes(d, s) => Carries(d, s)
         /\ d # <<>> => /\ Carries(Tail(d), s) \/ Head(d).seq = s => Carries(d, s)
                        /\ Yes(Tail(d), s) \/ (Head(d).seq = s /\ Head(d).ok = TRUE) => Yes(d, s)
<1>1. \A e : Elems(Append(d, e)) = Elems(d) \cup {e}
  BY ElemsFacts
<1>2. ASSUME NEW n, NEW r, n # s
      PROVE  /\ [seq |-> n, ok |-> r].seq # s
             /\ [seq |-> n, ok |-> r] # [seq |-> s, ok |-> TRUE]
  <2>1. [seq |-> n, ok |-> r].seq = n /\ [seq |-> s, ok |-> TRUE].seq = s
    OBVIOUS
  <2> QED
    BY <1>2, <2>1
<1>3. [seq |-> s, ok |-> FALSE] # [seq |-> s, ok |-> TRUE]
  <2>1. [seq |-> s, ok |-> FALSE].ok = FALSE /\ [seq |-> s, ok |-> TRUE].ok = TRUE
    BY Zenon
  <2>2. ASSUME [seq |-> s, ok |-> FALSE] = [seq |-> s, ok |-> TRUE] PROVE FALSE
    BY <2>1, <2>2, Zenon
  <2> QED
    BY <2>2
<1>4. Yes(d, s) => Carries(d, s)
  <2>1. [seq |-> s, ok |-> TRUE].seq = s
    OBVIOUS
  <2> QED
    BY <2>1, Zenon DEF Yes, Carries
<1>5. ASSUME d # <<>>
      PROVE  /\ Carries(Tail(d), s) \/ Head(d).seq = s => Carries(d, s)
             /\ Yes(Tail(d), s) \/ (Head(d).seq = s /\ Head(d).ok = TRUE) => Yes(d, s)
  <2>1. Head(d) \in Elems(d) /\ Elems(Tail(d)) \subseteq Elems(d) /\ Head(d) \in DownMsgs
    BY <1>5, ElemsFacts
  <2>2. Carries(Tail(d), s) \/ Head(d).seq = s => Carries(d, s)
    BY <2>1 DEF Carries
  <2>3. Yes(Tail(d), s) => Yes(d, s)
    BY <2>1, Zenon DEF Yes
  <2>4. Head(d) = [seq |-> Head(d).seq, ok |-> Head(d).ok]
    BY <2>1 DEF DownMsgs
  <2>5. Head(d).seq = s /\ Head(d).ok = TRUE => Yes(d, s)
    BY <2>1, <2>4, Zenon DEF Yes
  <2> QED
    BY <2>2, <2>3, <2>5
<1>6. ASSUME NEW n, NEW r, n # s
      PROVE  /\ Carries(Append(d, [seq |-> n, ok |-> r]), s) => Carries(d, s)
             /\ Yes(Append(d, [seq |-> n, ok |-> r]), s) => Yes(d, s)
  <2>1. [seq |-> n, ok |-> r].seq # s /\ [seq |-> n, ok |-> r] # [seq |-> s, ok |-> TRUE]
    BY <1>2, <1>6
  <2>2. PICK e : e = [seq |-> n, ok |-> r]
    OBVIOUS
  <2>3. e.seq # s /\ e # [seq |-> s, ok |-> TRUE] /\ Elems(Append(d, e)) = Elems(d) \cup {e}
    BY <1>1, <2>1, <2>2
  <2>4. (Carries(Append(d, e), s) => Carries(d, s)) /\ (Yes(Append(d, e), s) => Yes(d, s))
    BY <2>3, Zenon DEF Carries, Yes
  <2> QED
    BY <2>2, <2>4
<1>7. Yes(Append(d, [seq |-> s, ok |-> FALSE]), s) => Yes(d, s)
  <2>1. Elems(Append(d, [seq |-> s, ok |-> FALSE])) = Elems(d) \cup {[seq |-> s, ok |-> FALSE]}
    BY <1>1, Zenon
  <2> QED
    BY <1>3, <2>1, Zenon DEF Yes
<1> QED
  BY <1>4, <1>5, <1>6, <1>7, Zenon


-----------------------------------------------------------------------------
(* What a step leaves of a connection.                                     *)

\* What is settled stays settled, what runs runs, and the last connect stays
\* the last one, unless the connection ends.
KeptOn(k) ==
    /\ Settled(k) => Settled(k)'
    /\ Off(k) \/ Runs(k) => (Off(k) \/ Runs(k))'
    /\ \A s \in 1 .. counter[k] : Off(k) \/ LastConnect(k, s) => (Off(k) \/ LastConnect(k, s))'

\* A step that does not touch the queues of a connection, or ends it.
LEMMA KeptSame ==
  ASSUME NEW k, Off(k) => Off(k)',
         Off(k)' \/ /\ up'[k] = up[k] /\ down'[k] = down[k] /\ box'[k] = box[k]
                    /\ Engine(k)' <=> Engine(k)
  PROVE  KeptOn(k)
<1>1. CASE Off(k)'
  BY <1>1 DEF KeptOn, Settled
<1>2. CASE ~ Off(k)'
  <2>1. up'[k] = up[k] /\ down'[k] = down[k] /\ box'[k] = box[k] /\ (Engine(k)' <=> Engine(k)) /\ ~ Off(k)
    BY <1>2
  <2>2. Runs(k) <=> Runs(k)'
    BY <2>1 DEF Runs
  <2>3. Settled(k) => Settled(k)'
    BY <2>1 DEF Settled
  <2>4. \A s : LastConnect(k, s) => LastConnect(k, s)'
    BY <2>1, <2>2 DEF LastConnect
  <2> QED
    BY <2>1, <2>2, <2>3, <2>4 DEF KeptOn
<1> QED
  BY <1>1, <1>2

\* A ping.
LEMMA KeptPing ==
  ASSUME BookInv, NEW k \in Conns, NEW m, m = [type |-> "ping", seq |-> counter[k] + 1], m \in UpMsgs,
         UNCHANGED <<peer, host, serves, eng, closed, box, down>>, up'[k] = Append(up[k], m)
  PROVE  KeptOn(k)
<1>1. up[k] \in Seq(UpMsgs) /\ counter[k] \in Nat
  BY DEF BookInv, Types, ClientTypes
<1>2. (Off(k) <=> Off(k)') /\ (Engine(k) <=> Engine(k)')
  BY DEF Off, Engine
<1>3. m.type = "ping" /\ \A s \in 1 .. counter[k] : m.seq # s
  BY <1>1
<1>4. Settled(k) => Settled(k)'
  <2>1. (Ended(up[k]) => Ended(up'[k])) /\ (HasConnect(up'[k]) => HasConnect(up[k]))
    BY <1>1, <1>3, AppendQueue
  <2> QED
    BY <1>2, <2>1 DEF Settled
<1>5. Runs(k) => Runs(k)'
  BY <1>1, <1>2, <1>3, AppendQueue DEF Runs
<1>6. ASSUME NEW s \in 1 .. counter[k], LastConnect(k, s) PROVE LastConnect(k, s)'
  <2>1. (LastIs(up[k], s) => LastIs(up'[k], s)) /\ (Carries(up'[k], s) => Carries(up[k], s))
    BY <1>1, <1>3, AppendQueue
  <2> QED
    BY <1>5, <1>6, <2>1 DEF LastConnect
<1> QED
  BY <1>2, <1>4, <1>5, <1>6 DEF KeptOn

\* The reader moves a response into the channel that waits for it.
LEMMA KeptRead ==
  ASSUME BookInv, NEW k \in Conns, Read(k)
  PROVE  KeptOn(k)
<1>1. /\ down[k] # <<>>
      /\ box' = IF Head(down[k]).seq \in pending[k]
                THEN [box EXCEPT ![k][Head(down[k]).seq] = Append(@, Head(down[k]).ok)] ELSE box
      /\ down' = [down EXCEPT ![k] = Tail(@)]
      /\ UNCHANGED <<closed, up, peer, host, serves, eng>>
  BY DEF Read, hostVars
<1>2. /\ down[k] \in Seq(DownMsgs) /\ box \in [Conns -> [Seqs -> Seq(BOOLEAN)]] /\ down'[k] = Tail(down[k])
      /\ counter[k] \in Nat
  BY <1>1 DEF BookInv, Types, ClientTypes
<1>3. Head(down[k]) \in DownMsgs
  BY <1>1, <1>2, ElemsFacts
<1>4. (Off(k) <=> Off(k)') /\ (Engine(k) <=> Engine(k)')
  BY <1>1 DEF Off, Engine
<1>5. (Settled(k) => Settled(k)') /\ (Runs(k) <=> Runs(k)')
  BY <1>1, <1>4 DEF Settled, Runs
<1>6. ASSUME NEW s \in 1 .. counter[k], LastConnect(k, s) PROVE LastConnect(k, s)'
  <2>1. /\ Carries(Tail(down[k]), s) \/ Head(down[k]).seq = s => Carries(down[k], s)
        /\ Yes(Tail(down[k]), s) \/ (Head(down[k]).seq = s /\ Head(down[k]).ok = TRUE) => Yes(down[k], s)
    BY <1>1, <1>2, AnswerQueue
  <2>2. CASE Head(down[k]).seq = s /\ s \in pending[k]
    <3>1. PICK r \in BOOLEAN : r = Head(down[k]).ok
      BY <1>3 DEF DownMsgs
    <3>2. s \in Seqs /\ box[k][s] = <<>>
      BY <1>3, <2>2 DEF BookInv, EmptyChannels, DownMsgs
    <3>3. box'[k][s] = Append(box[k][s], r)
      BY <1>1, <1>2, <2>2, <3>1, <3>2
    <3>4. box'[k][s] = <<r>>
      BY <3>2, <3>3
    <3>5. Good(box'[k][s]) => r = TRUE
      <4>1. Head(<<r>>) = r
        OBVIOUS
      <4> QED
        BY <3>1, <3>4, <4>1 DEF Good
    <3>6. Good(box'[k][s]) => Yes(down[k], s)
      BY <2>1, <2>2, <3>1, <3>5, Zenon
    <3>7. ~ Carries(up[k], s)
      BY <1>6, <2>1, <2>2 DEF LastConnect
    <3> QED
      BY <1>1, <1>2, <1>5, <1>6, <2>1, <3>6, <3>7 DEF LastConnect
  <2>3. CASE ~ (Head(down[k]).seq = s /\ s \in pending[k])
    <3>1. box'[k][s] = box[k][s]
      <4>1. CASE Head(down[k]).seq \in pending[k]
        <5>0. PICK n \in Seqs : n = Head(down[k]).seq
          BY <1>3 DEF DownMsgs
        <5>1. PICK b : box' = [box EXCEPT ![k] = [box[k] EXCEPT ![n] = b]]
          BY <1>1, <1>2, <4>1, <5>0
        <5>2. n # s
          BY <2>3, <4>1, <5>0
        <5>3. box'[k] = [box[k] EXCEPT ![n] = b]
          BY <1>2, <5>1
        <5> QED
          BY <1>2, <5>2, <5>3
      <4>2. CASE Head(down[k]).seq \notin pending[k]
        BY <1>1, <4>2
      <4> QED
        BY <4>1, <4>2
    <3> QED
      BY <1>1, <1>2, <1>5, <1>6, <2>1, <3>1 DEF LastConnect
  <2> QED
    BY <2>2, <2>3
<1> QED
  BY <1>4, <1>5, <1>6 DEF KeptOn

\* A helper handles and answers the head of its queue.
LEMMA KeptHandled ==
  ASSUME ShapeInv, NEW p \in Procs,
         (Connect(p) /\ p \in eng) \/ Connected(p) \/ Disconnect(p) \/ Ping(p)
  PROVE  \A k \in 1 .. conns : KeptOn(k)
<1>1. BookInv /\ HelperShape /\ HostTypes /\ ClientTypes /\ RunnerTypes
  BY DEF ShapeInv, BookInv, Types
<1>2. /\ host[p] \in {"serving", "starting"} /\ UNCHANGED <<path, serves, peer, closed, box>>
      /\ host' = host \/ host' = [host EXCEPT ![p] = "serving"]
  BY DEF Connect, Connected, Disconnect, Ping, HostFrame, clientVars, hostVars
<1>3. PICK k \in Conns : k = serves[p] /\ peer[k] = p
  BY <1>1, <1>2, ServesFacts
<1>4. up[k] # <<>> /\ Head(up[k]).type # "quit" /\ (Connected(p) => Head(up[k]).type = "connect")
  BY <1>1, <1>3 DEF Connect, Connected, Disconnect, Ping, HelperShape
<1>5. PICK ok \in BOOLEAN : /\ Handled(p, k, ok)
                            /\ Head(up[k]).type = "connect" /\ ok => p \in eng'
  <2>1. CASE Connect(p) /\ p \in eng
    BY <1>3, <2>1, FALSE \in BOOLEAN DEF Connect
  <2>2. CASE Connected(p)
    <3>1. PICK r \in BOOLEAN : Handled(p, k, r) /\ eng' = (IF r THEN eng \cup {p} ELSE eng)
      BY <1>3, <2>2 DEF Connected
    <3>2. r => p \in eng'
      BY <3>1
    <3> QED
      BY <3>1, <3>2
  <2>3. CASE Disconnect(p)
    <3>1. Head(up[k]).type = "disconnect"
      BY <1>3, <2>3 DEF Disconnect
    <3>2. \E r \in BOOLEAN : Handled(p, k, r)
      BY <1>3, <2>3, FALSE \in BOOLEAN, TRUE \in BOOLEAN DEF Disconnect
    <3> QED
      BY <3>1, <3>2
  <2>4. CASE Ping(p)
    BY <1>3, <2>4, TRUE \in BOOLEAN DEF Ping
  <2> QED
    BY <2>1, <2>2, <2>3, <2>4
<1>6. /\ \A j \in Conns : up'[j] = IF j = k THEN Tail(up[k]) ELSE up[j]
      /\ \A j \in Conns : \/ down'[j] = down[j]
                          \/ j = k /\ down'[k] = Append(down[k], [seq |-> Head(up[k]).seq, ok |-> ok])
  <2>1. \A j \in Conns : up'[j] = IF j = k THEN Tail(up[k]) ELSE up[j]
    <3>1. up' = [up EXCEPT ![k] = Tail(up[k])]
      BY <1>5 DEF Handled
    <3> QED
      BY <1>1, <3>1 DEF ClientTypes
  <2>2. PICK d : d = [seq |-> Head(up[k]).seq, ok |-> ok]
    OBVIOUS
  <2>3. down' = down \/ down' = [down EXCEPT ![k] = Append(down[k], d)]
    BY <1>5, <2>2 DEF Handled, Respond
  <2>4. \A j \in Conns : down'[j] = down[j] \/ (j = k /\ down'[k] = Append(down[k], d))
    BY <1>1, <2>3 DEF ClientTypes
  <2> QED
    BY <2>1, <2>2, <2>4
<1>7. /\ \A q \in Procs : q # p => (q \in eng' <=> q \in eng)
      /\ p \in eng /\ Head(up[k]).type # "disconnect" => p \in eng'
      /\ Head(up[k]).type # "connect" /\ p \in eng' => p \in eng
      /\ Head(up[k]).type = "disconnect" => p \notin eng'
  <2>1. CASE Connect(p) /\ p \in eng
    BY <1>3, <2>1 DEF Connect
  <2>2. CASE Connected(p)
    <3>1. \E r \in BOOLEAN : eng' = (IF r THEN eng \cup {p} ELSE eng)
      BY <2>2 DEF Connected
    <3>2. eng' = eng \/ eng' = eng \cup {p}
      BY <3>1
    <3> QED
      BY <1>4, <2>2, <3>2
  <2>3. CASE Disconnect(p)
    BY <1>3, <2>3 DEF Disconnect
  <2>4. CASE Ping(p)
    BY <1>3, <2>4 DEF Ping, hostVars
  <2> QED
    BY <2>1, <2>2, <2>3, <2>4
<1>8. \A j \in 1 .. conns : j \in Conns /\ peer[j] \in Procs /\ (Off(j) <=> Off(j)')
  <2>1. \A q \in Procs : host'[q] = "gone" <=> host[q] = "gone"
    BY <1>1, <1>2 DEF HostTypes
  <2>2. \A j \in 1 .. conns : j \in Conns /\ peer[j] \in Procs
    BY <1>1, HelperAssumption DEF RunnerTypes, Conns, HelperShape
  <2> QED
    BY <1>2, <2>1, <2>2 DEF Off
<1> SUFFICES ASSUME NEW j \in 1 .. conns PROVE KeptOn(j)
  OBVIOUS
<1>9. CASE j # k
  <2>1. Engine(j)' <=> Engine(j)
    <3>1. CASE peer[j] = p
      BY <1>2, <1>3, <1>9, <3>1 DEF Engine
    <3>2. CASE peer[j] # p
      BY <1>2, <1>7, <1>8, <3>2 DEF Engine
    <3> QED
      BY <3>1, <3>2
  <2>2. up'[j] = up[j] /\ down'[j] = down[j] /\ box'[j] = box[j]
    BY <1>2, <1>6, <1>8, <1>9
  <2> QED
    BY <1>8, <2>1, <2>2, KeptSame
<1>10. CASE j = k
  <2>0. up[k] \in Seq(UpMsgs) /\ down[k] \in Seq(DownMsgs) /\ counter[k] \in Nat
    BY <1>1 DEF ClientTypes
  <2>1. (Engine(k) <=> p \in eng) /\ (Engine(k)' <=> p \in eng')
    BY <1>2, <1>3 DEF Engine
  <2>2. up'[k] = Tail(up[k]) /\ box'[k] = box[k]
    BY <1>2, <1>6
  <2>3. Settled(k) => Settled(k)'
    <3>1. /\ Ended(up[k]) /\ (Head(up[k]).type \notin {"disconnect", "quit"} \/ HasConnect(Tail(up[k])))
             => Ended(Tail(up[k]))
          /\ HasConnect(Tail(up[k])) \/ Head(up[k]).type = "connect" => HasConnect(up[k])
      BY <1>4, <2>0, TailQueue
    <3> QED
      BY <1>4, <1>7, <1>8, <1>10, <2>1, <2>2, <3>1 DEF Settled
  <2>4. Runs(k) => Runs(k)'
    <3>1. NoDisconnect(up[k]) => NoDisconnect(Tail(up[k])) /\ Head(up[k]).type # "disconnect"
      BY <1>4, <2>0, TailQueue
    <3> QED
      BY <1>7, <2>1, <2>2, <3>1 DEF Runs
  <2>5. ASSUME NEW s \in 1 .. counter[k], LastConnect(k, s) PROVE LastConnect(k, s)'
    <3>1. /\ LastIs(Tail(up[k]), s)
          /\ Head(up[k]).seq = s =>
               Head(up[k]).type = "connect" /\ NoDisconnect(Tail(up[k])) /\ ~ Carries(Tail(up[k]), s)
          /\ Carries(Tail(up[k]), s) \/ Head(up[k]).seq = s => Carries(up[k], s)
      BY <1>4, <2>0, <2>5, TailQueue DEF LastConnect
    <3>2. CASE down'[k] = down[k]
      BY <2>2, <2>4, <2>5, <3>1, <3>2 DEF LastConnect
    <3>3. CASE down'[k] # down[k] /\ Head(up[k]).seq # s
      <4>1. /\ Carries(down'[k], s) => Carries(down[k], s)
            /\ Yes(down'[k], s) => Yes(down[k], s)
        <5>1. down'[k] = Append(down[k], [seq |-> Head(up[k]).seq, ok |-> ok])
          BY <1>6, <3>3, Zenon
        <5>2. PICK n : n = Head(up[k]).seq
          OBVIOUS
        <5>3. n # s /\ down[k] \in Seq(DownMsgs)
          BY <2>0, <3>3, <5>2
        <5>4. /\ Carries(Append(down[k], [seq |-> n, ok |-> ok]), s) => Carries(down[k], s)
              /\ Yes(Append(down[k], [seq |-> n, ok |-> ok]), s) => Yes(down[k], s)
          BY <5>3, AnswerQueue, Zenon
        <5> QED
          BY <5>1, <5>2, <5>4, Zenon
      <4> QED
        BY <2>2, <2>4, <2>5, <3>1, <4>1 DEF LastConnect
    <3>4. CASE down'[k] # down[k] /\ Head(up[k]).seq = s
      <4>1. ~ Carries(up'[k], s)
        BY <2>2, <3>1, <3>4
      <4>2. box[k][s] = <<>> /\ ~ Carries(down[k], s)
        BY <2>5, <3>1, <3>4 DEF LastConnect
      <4>3. ~ Yes(down[k], s) /\ ~ Good(box'[k][s])
        BY <2>0, <2>2, <4>2, AnswerQueue DEF Good
      <4>4. CASE ok
        <5>1. p \in eng'
          BY <1>5, <3>1, <3>4, <4>4
        <5>2. Runs(k)'
          BY <2>1, <2>2, <3>1, <3>4, <5>1 DEF Runs
        <5> QED
          BY <2>2, <3>1, <4>1, <5>2 DEF LastConnect
      <4>5. CASE ~ ok
        <5>1. ok = FALSE
          BY <4>5, Zenon
        <5>2. down'[k] = Append(down[k], [seq |-> s, ok |-> FALSE])
          BY <1>6, <3>4, <5>1, Zenon
        <5>3. Yes(Append(down[k], [seq |-> s, ok |-> FALSE]), s) => Yes(down[k], s)
          BY <2>0, AnswerQueue, Zenon
        <5>4. ~ Yes(down'[k], s)
          BY <4>3, <5>2, <5>3, Zenon
        <5> QED
          BY <2>2, <3>1, <4>1, <4>3, <5>4 DEF LastConnect
      <4> QED
        BY <4>4, <4>5
    <3> QED
      BY <3>2, <3>3, <3>4
  <2> QED
    BY <1>8, <1>10, <2>3, <2>4, <2>5 DEF KeptOn
<1> QED
  BY <1>9, <1>10


-----------------------------------------------------------------------------
(* The engines' lives, step by step.                                       *)

\* A step that dials nothing and sends no request of the runner.
LEMMA QuietLife ==
  ASSUME ShapeInv, LifeInv, UNCHANGED <<conns, client>>, closed \subseteq closed',
         app' = "up" => app = "up", at'[Op] = "spawned" => at[Op] = "spawned",
         \A k \in Conns : k > conns => up'[k] = up[k],
         \A k \in 1 .. conns : KeptOn(k),
         Calm' => \A k \in 1 .. conns : Settled(k),
         call' = "start" /\ InFlight(Op)' =>
            call = "start" /\ InFlight(Op) /\ on'[Op] = on[Op] /\ seq'[Op] = seq[Op],
         app' = "up" /\ Started' => Started \/ (client # 0 /\ (Off(client) \/ Runs(client)))
  PROVE  LifeInv'
<1>1. OneClient'
  BY DEF LifeInv, OneClient
<1>2. SettleInv'
  BY DEF SettleInv, KeptOn
<1>3. ASSUME call' = "start", InFlight(Op)' PROVE (Off(on[Op]) \/ LastConnect(on[Op], seq[Op]))'
  <2>1. PICK k, s : k = on[Op] /\ s = seq[Op]
    OBVIOUS
  <2>2. Op \in Threads /\ InFlight(Op) /\ call = "start" /\ on'[Op] = k /\ seq'[Op] = s
    BY <1>3, <2>1 DEF Threads
  <2>3. k \in 1 .. conns /\ s \in 1 .. counter[k]
    BY <2>1, <2>2 DEF ShapeInv, BookInv, Types, ThreadTypes, FreshNumbers, InFlight
  <2>4. Off(k) \/ LastConnect(k, s)
    BY <2>1, <2>2 DEF LifeInv, StartInv
  <2>5. (Off(k) \/ LastConnect(k, s))'
    BY <2>3, <2>4 DEF KeptOn
  <2> QED
    BY <2>2, <2>5
<1>4. ASSUME app' = "up", Started' PROVE client' # 0 /\ (Off(client) \/ Runs(client))'
  <2>1. PICK k : k = client
    OBVIOUS
  <2>2. k # 0 /\ (Off(k) \/ Runs(k))
    BY <1>4, <2>1 DEF LifeInv, StartInv
  <2>3. k \in 1 .. conns
    BY <2>1, <2>2 DEF ShapeInv, BookInv, Types, RunnerTypes
  <2>4. (Off(k) \/ Runs(k))'
    BY <2>2, <2>3 DEF KeptOn
  <2> QED
    BY <2>1, <2>2, <2>4
<1> QED
  BY <1>1, <1>2, <1>3, <1>4 DEF LifeInv, StartInv

\* The conditions of QuietLife on the runner hold when nothing of it changes.
LEMMA QuietRunner ==
  ASSUME LifeInv, UNCHANGED <<app, call, outcome, mode>>,
         at'[Op] = at[Op], on'[Op] = on[Op], seq'[Op] = seq[Op]
  PROVE  /\ app' = "up" => app = "up"
         /\ at'[Op] = "spawned" => at[Op] = "spawned"
         /\ Calm' => \A k \in 1 .. conns : Settled(k)
         /\ call' = "start" /\ InFlight(Op)' =>
               call = "start" /\ InFlight(Op) /\ on'[Op] = on[Op] /\ seq'[Op] = seq[Op]
         /\ app' = "up" /\ Started' => Started
<1>1. Calm' => Calm
  BY DEF Calm, InFlight
<1> QED
  BY <1>1 DEF InFlight, Started, LifeInv, SettleInv

\* Connections that were dialled.
LEMMA Dialled ==
  ASSUME ShapeInv
  PROVE  /\ \A k \in 1 .. conns : k \in Conns /\ peer[k] \in Procs
         /\ \A t \in Threads : at[t] \in {"send", "sent", "await"} => on[t] \in 1 .. conns
         /\ \A k \in Conns : k \in Nat /\ (k <= conns => k \in 1 .. conns)
         /\ conns \in Nat /\ Op \in Threads /\ Op \notin Conns
         /\ \A k \in 1 .. conns : ~ (k > conns)
<1>1. conns \in 0 .. MaxConns /\ MaxConns \in Nat
  BY HelperAssumption DEF ShapeInv, BookInv, Types, RunnerTypes
<1>2. \A k \in 1 .. conns : k \in Conns /\ peer[k] \in Procs
  BY <1>1 DEF ShapeInv, HelperShape, Conns
<1> QED
  BY <1>1, <1>2 DEF ShapeInv, BookInv, Types, ThreadTypes, Threads, Conns, Op

\* The helpers' steps.
LEMMA HostKeepsLife ==
  ASSUME ShapeInv, LifeInv, NEW p \in Procs, Host(p) \/ Listen(p) \/ Crash(p)
  PROVE  LifeInv'
<1>1. BookInv /\ HelperShape /\ HostTypes /\ ClientTypes /\ RunnerTypes
  BY DEF ShapeInv, BookInv, Types
<1>2. UNCHANGED <<app, ops, call, outcome, mode, client, conns, procs, at, on, seq, closed, box, peer>>
  BY DEF Host, Listen, Crash, Accept, Connect, Connected, Disconnect, Ping, Quit, HostFrame, runnerVars,
     threadVars, clientVars
<1>3. \A k \in 1 .. conns : k \in Conns /\ peer[k] \in Procs
  BY Dialled
<1>4. \A k \in 1 .. conns : KeptOn(k)
  <2>1. CASE (Connect(p) /\ p \in eng) \/ Connected(p) \/ Disconnect(p) \/ Ping(p)
    BY <2>1, KeptHandled
  <2>2. CASE Quit(p) \/ Crash(p)
    <3>1. PICK unlink \in BOOLEAN : Gone(p, unlink)
      BY <2>2, TRUE \in BOOLEAN, FALSE \in BOOLEAN DEF Quit, Crash
    <3>2. /\ \A j \in Conns : up'[j] = IF peer[j] = p THEN <<>> ELSE up[j]
          /\ \A q \in Procs : host'[q] = IF q = p THEN "gone" ELSE host[q]
          /\ serves' = serves /\ eng' = eng \ {p}
      BY <1>1, <3>1, GoneFacts
    <3>3. down' = down
      BY <2>2 DEF Quit, Crash
    <3> SUFFICES ASSUME NEW k \in 1 .. conns PROVE KeptOn(k)
      OBVIOUS
    <3>4. Off(k) => Off(k)'
      BY <1>2, <1>3, <3>2 DEF Off
    <3>5. CASE peer[k] = p
      <4>1. Off(k)'
        BY <1>2, <1>3, <3>2, <3>5 DEF Off
      <4> QED
        BY <3>4, <4>1, KeptSame
    <3>6. CASE peer[k] # p
      <4>1. Engine(k)' <=> Engine(k)
        BY <1>2, <3>2, <3>6 DEF Engine
      <4>2. up'[k] = up[k] /\ down'[k] = down[k] /\ box'[k] = box[k]
        BY <1>2, <1>3, <3>2, <3>3, <3>6
      <4> QED
        BY <3>4, <4>1, <4>2, KeptSame
    <3> QED
      BY <3>5, <3>6
  <2>3. CASE Listen(p) \/ Accept(p) \/ (Connect(p) /\ p \notin eng)
    <3>1. /\ UNCHANGED <<eng, up, down>> /\ host[p] # "gone" /\ p \notin eng
          /\ \A q \in Procs : q # p => host'[q] = host[q] /\ serves'[q] = serves[q]
      <4>1. UNCHANGED <<eng, up, down>> /\ host[p] # "gone"
        BY <2>3 DEF Listen, Accept, Connect
      <4>2. p \notin eng
        BY <1>1, <2>3 DEF Listen, Accept, HelperShape
      <4>3. \A q \in Procs : q # p => host'[q] = host[q]
        BY <1>1, <2>3 DEF Listen, Accept, Connect, HostTypes
      <4>4. \A q \in Procs : q # p => serves'[q] = serves[q]
        BY <1>1, <2>3 DEF Listen, Accept, Connect, HostTypes
      <4> QED
        BY <4>1, <4>2, <4>3, <4>4
    <3> SUFFICES ASSUME NEW k \in 1 .. conns PROVE KeptOn(k)
      OBVIOUS
    <3>2. Off(k) => Off(k)'
      BY <1>2, <1>3, <3>1 DEF Off
    <3>3. Engine(k)' <=> Engine(k)
      BY <1>2, <1>3, <3>1 DEF Engine
    <3> QED
      BY <1>2, <3>1, <3>2, <3>3, KeptSame
  <2> QED
    BY <2>1, <2>2, <2>3 DEF Host
<1>5. \A k \in Conns : k > conns => up'[k] = up[k]
  <2>1. CASE (Connect(p) /\ p \in eng) \/ Connected(p) \/ Disconnect(p) \/ Ping(p)
    <3>1. host[p] \in {"serving", "starting"} /\ up' = [up EXCEPT ![serves[p]] = Tail(@)]
      BY <2>1 DEF Connect, Connected, Disconnect, Ping, Handled
    <3>2. ~ (serves[p] > conns)
      BY <1>1, <3>1, ServesFacts, Dialled
    <3> QED
      BY <1>1, <3>1, <3>2 DEF ClientTypes
  <2>2. CASE Quit(p) \/ Crash(p)
    <3>1. up' = [k \in Conns |-> IF peer[k] = p THEN <<>> ELSE up[k]]
      BY <2>2 DEF Quit, Crash, Gone
    <3> QED
      BY <3>1 DEF LifeInv, OneClient
  <2>3. CASE Listen(p) \/ Accept(p) \/ (Connect(p) /\ p \notin eng)
    BY <2>3 DEF Listen, Accept, Connect
  <2> QED
    BY <2>1, <2>2, <2>3 DEF Host
<1>6. UNCHANGED <<app, call, outcome, mode>> /\ at'[Op] = at[Op] /\ on'[Op] = on[Op] /\ seq'[Op] = seq[Op]
  BY <1>2
<1> QED
  BY <1>2, <1>4, <1>5, <1>6, QuietRunner, QuietLife


\* A close ends its connection and leaves the others alone.
LEMMA CloseKept ==
  ASSUME ShapeInv, NEW k \in Conns, NEW q \in BOOLEAN, NEW W, CloseWith(k, q, W),
         UNCHANGED <<peer, host, serves, eng>>
  PROVE  /\ closed' = closed \cup {k}
         /\ \A j \in Conns : j # k \/ ~ q => up'[j] = up[j]
         /\ \A j \in 1 .. conns : KeptOn(j)
<1>1. ClientTypes /\ \A j \in 1 .. conns : j \in Conns
  BY Dialled DEF ShapeInv, BookInv, Types
<1>2. closed' = closed \cup {k}
  BY DEF CloseWith
<1>3. \A j \in Conns : j # k => up'[j] = up[j] /\ down'[j] = down[j] /\ box'[j] = box[j]
  <2>1. CASE k \in closed
    BY <2>1 DEF CloseWith
  <2>2. CASE k \notin closed
    <3>1. /\ \E b : box' = [box EXCEPT ![k] = b]
          /\ \E m : up' = up \/ up' = [up EXCEPT ![k] = m]
          /\ down' = [down EXCEPT ![k] = <<>>]
      BY <2>2 DEF CloseWith
    <3> QED
      BY <1>1, <3>1 DEF ClientTypes
  <2> QED
    BY <2>1, <2>2
<1>4. ~ q => up' = up
  BY DEF CloseWith
<1>5. \A j : (Engine(j)' <=> Engine(j)) /\ (Off(j) => Off(j)')
  BY <1>2 DEF Engine, Off
<1>6. ASSUME NEW j \in 1 .. conns PROVE KeptOn(j)
  <2>1. CASE j = k
    <3>1. Off(j)'
      BY <1>2, <2>1 DEF Off
    <3> QED
      BY <1>5, <3>1, KeptSame
  <2>2. CASE j # k
    BY <1>1, <1>3, <1>5, <2>2, KeptSame
  <2> QED
    BY <2>1, <2>2
<1> QED
  BY <1>2, <1>3, <1>4, <1>6

\* A step that touches no queue, no connection and no helper keeps them all.
LEMMA IdleKept ==
  ASSUME UNCHANGED <<up, down, box, closed, peer, host, serves, eng>>
  PROVE  \A k \in 1 .. conns : KeptOn(k)
<1> SUFFICES ASSUME NEW k \in 1 .. conns PROVE KeptOn(k)
  OBVIOUS
<1>1. (Engine(k)' <=> Engine(k)) /\ (Off(k) => Off(k)')
  BY DEF Engine, Off
<1> QED
  BY <1>1, KeptSame

\* The threads of a connection.
LEMMA ReaderKeepsLife ==
  ASSUME ShapeInv, LifeInv, NEW k \in Conns, Reader(k) \/ Pinger(k)
  PROVE  LifeInv'
<1>1. UNCHANGED <<app, call, outcome, mode, client, conns, on, seq, peer, host, serves, eng>>
  BY DEF Reader, Pinger, Read, ReadEnds, Tick, runnerVars, threadVars, hostVars
<1>2. at'[Op] = at[Op]
  <2>1. Op # k /\ Op \in Threads /\ at \in [Threads -> {"idle", "ensure", "spawned", "send", "sent", "await", "dead"}]
    BY Dialled DEF ShapeInv, BookInv, Types, ThreadTypes
  <2>2. at' = at \/ \E w : at' = [at EXCEPT ![k] = w]
    BY DEF Reader, Pinger, Read, ReadEnds, Tick, threadVars
  <2> QED
    BY <2>1, <2>2
<1>3. closed \subseteq closed' /\ (\A j \in Conns : up'[j] = up[j]) /\ (\A j \in 1 .. conns : KeptOn(j))
  <2>1. CASE Tick(k)
    <3>1. UNCHANGED <<up, down, box, closed, peer, host, serves, eng>>
      BY <2>1 DEF Tick, clientVars, hostVars
    <3> QED
      BY <3>1, IdleKept
  <2>2. CASE Read(k)
    <3>1. UNCHANGED <<up, closed, peer, host, serves, eng>>
      BY <2>2 DEF Read, hostVars
    <3>2. \A j \in Conns : j # k => down'[j] = down[j] /\ box'[j] = box[j]
      <4>1. /\ \E d : down' = [down EXCEPT ![k] = d]
            /\ \E b : box' = box \/ box' = [box EXCEPT ![k] = b]
        BY <2>2 DEF Read
      <4> QED
        BY <4>1 DEF ShapeInv, BookInv, Types, ClientTypes
    <3>3. \A j : (Engine(j)' <=> Engine(j)) /\ (Off(j) => Off(j)')
      BY <3>1 DEF Engine, Off
    <3>4. ASSUME NEW j \in 1 .. conns PROVE KeptOn(j)
      <4>1. CASE j = k
        BY <2>2, <4>1, KeptRead DEF ShapeInv
      <4>2. CASE j # k
        <5>1. j \in Conns
          BY Dialled
        <5> QED
          BY <3>1, <3>2, <3>3, <4>2, <5>1, KeptSame
      <4> QED
        BY <4>1, <4>2
    <3> QED
      BY <3>1, <3>4
  <2>3. CASE ReadEnds(k)
    <3>1. CloseWith(k, FALSE, pending)
      BY <2>3 DEF ReadEnds
    <3> QED
      BY <1>1, <3>1, FALSE \in BOOLEAN, CloseKept
  <2> QED
    BY <2>1, <2>2, <2>3 DEF Reader, Pinger
<1>4. UNCHANGED <<app, call, outcome, mode>> /\ on'[Op] = on[Op] /\ seq'[Op] = seq[Op]
  BY <1>1
<1> QED
  BY <1>1, <1>2, <1>3, <1>4, QuietRunner, QuietLife

\* The app's end.
LEMMA ShutdownKeepsLife ==
  ASSUME ShapeInv, LifeInv, Shutdown
  PROVE  LifeInv'
<1>1. CASE Kill
  <2>1. procs \in Procs
    BY <1>1, HelperAssumption DEF Kill, ShapeInv, BookInv, Types, RunnerTypes, Procs
  <2>2. Gone(procs, FALSE) /\ UNCHANGED <<app, call, outcome, mode, client, conns, at, on, seq, closed, box, down, peer>>
    BY <1>1 DEF Kill, runnerVars, threadVars, clientVars
  <2>3. PICK p \in Procs : p = procs
    BY <2>1
  <2>4. /\ \A j \in Conns : up'[j] = IF peer[j] = p THEN <<>> ELSE up[j]
        /\ \A q \in Procs : host'[q] = IF q = p THEN "gone" ELSE host[q]
        /\ serves' = serves /\ eng' = eng \ {p}
    BY <2>2, <2>3, FALSE \in BOOLEAN, GoneFacts DEF ShapeInv, BookInv, Types
  <2>5. ASSUME NEW k \in 1 .. conns PROVE KeptOn(k)
    <3>0. k \in Conns /\ peer[k] \in Procs
      BY Dialled
    <3>1. Off(k) => Off(k)'
      BY <2>2, <2>4, <3>0 DEF Off
    <3>2. CASE peer[k] = p
      <4>1. Off(k)'
        BY <2>2, <2>4, <3>0, <3>2 DEF Off
      <4> QED
        BY <3>1, <4>1, KeptSame
    <3>3. CASE peer[k] # p
      <4>1. Engine(k)' <=> Engine(k)
        BY <2>2, <2>4, <3>3 DEF Engine
      <4> QED
        BY <2>2, <2>4, <3>0, <3>1, <3>3, <4>1, KeptSame
    <3> QED
      BY <3>2, <3>3
  <2>6. \A k \in Conns : k > conns => up'[k] = up[k]
    BY <2>4 DEF LifeInv, OneClient
  <2>7. UNCHANGED <<app, call, outcome, mode>> /\ at'[Op] = at[Op] /\ on'[Op] = on[Op] /\ seq'[Op] = seq[Op]
    BY <2>2
  <2> QED
    BY <2>2, <2>5, <2>6, <2>7, QuietRunner, QuietLife
<1>2. CASE Exit
  <2>1. /\ app' = "gone" /\ closed' = Conns /\ call' = "none"
        /\ UNCHANGED <<outcome, mode, client, conns, at, up, peer, host>>
    BY <1>2 DEF Exit, threadVars, hostVars
  <2>2. \A k \in 1 .. conns' : k \in Conns /\ Off(k)'
    BY <2>1, Dialled DEF Off
  <2>3. OneClient'
    <3>1. client = 0 \/ client \in Conns
      BY Dialled DEF ShapeInv, BookInv, Types, RunnerTypes
    <3> QED
      BY <2>1, <2>2, <3>1 DEF LifeInv, OneClient
  <2>4. SettleInv' /\ StartInv'
    BY <2>1, <2>2 DEF SettleInv, StartInv, Settled
  <2> QED
    BY <2>3, <2>4 DEF LifeInv
<1>3. CASE CloseRunner
  <2>1. /\ app = "up" /\ call = "none" /\ app' = "closing" /\ client' = 0
        /\ UNCHANGED <<call, outcome, mode, conns, at, on, seq, peer, host, serves, eng>>
    BY <1>3 DEF CloseRunner, threadVars, hostVars
  <2>2. CASE client = 0
    <3>1. conns = 0 /\ UNCHANGED <<closed, up>>
      BY <1>3, <2>1, <2>2 DEF CloseRunner, LifeInv, OneClient
    <3>2. 1 .. conns' = {}
      BY <2>1, <3>1
    <3>3. OneClient'
      BY <2>1, <2>2, <3>1, <3>2 DEF LifeInv, OneClient
    <3> QED
      BY <2>1, <3>2, <3>3 DEF LifeInv, SettleInv, StartInv
  <2>3. CASE client # 0
    <3>1. client \in 1 .. conns /\ client \in Conns /\ ~ (client > conns)
      BY <2>3, Dialled DEF ShapeInv, BookInv, Types, RunnerTypes
    <3>2. CloseWith(client, TRUE, pending)
      BY <1>3, <2>3 DEF CloseRunner
    <3>3. closed' = closed \cup {client} /\ \A j \in Conns : j # client => up'[j] = up[j]
      BY <2>1, <3>1, <3>2, TRUE \in BOOLEAN, CloseKept
    <3>4. \A k \in 1 .. conns' : k \in closed'
      BY <2>1, <3>3 DEF LifeInv, OneClient
    <3>5. OneClient'
      BY <2>1, <3>1, <3>3, <3>4 DEF LifeInv, OneClient
    <3>6. SettleInv' /\ StartInv'
      BY <2>1, <3>4 DEF SettleInv, StartInv, Settled, Off
    <3> QED
      BY <3>5, <3>6 DEF LifeInv
  <2> QED
    BY <2>2, <2>3
<1> QED
  BY <1>1, <1>2, <1>3 DEF Shutdown


\* The runner's own steps: only a dial adds a connection, and nobody has used
\* that one yet.
LEMMA RunnerKeepsLife ==
  ASSUME ShapeInv, LifeInv, Runner \/ Ensure
  PROVE  LifeInv'
<1>1. /\ UNCHANGED <<app, seq, closed, box, up, down, serves, eng>> /\ app = "up"
  BY DEF Runner, Ensure, StartProxy, StartVPN, Stop, KeepClient, DialHelper, Spawn, EnsureFails,
     RunnerFrame, clientVars, hostVars
<1>2. /\ at \in [Threads -> {"idle", "ensure", "spawned", "send", "sent", "await", "dead"}]
      /\ Op \in Threads /\ on \in [Threads -> {0} \cup Conns] /\ CallPlaces
      /\ HostTypes /\ ClientTypes /\ HelperShape /\ RunnerTypes
  BY Dialled DEF ShapeInv, BookInv, Types, ThreadTypes
<1>3. CASE StartProxy
  <2>1. /\ UNCHANGED <<call, client, conns, at, peer, host>> /\ mode' = "proxy" /\ call = "none"
        /\ outcome \in {"none", "stopped"}
    BY <1>3 DEF StartProxy, CanStart, hostVars
  <2>2. \A k \in 1 .. conns : KeptOn(k)
    BY <1>1, <2>1, IdleKept
  <2>3. \A k \in 1 .. conns : Settled(k)
    BY <2>1 DEF LifeInv, SettleInv, Calm
  <2> QED
    BY <1>1, <2>1, <2>2, <2>3, QuietLife DEF Started, InFlight
<1>4. CASE StartVPN
  <2>1. /\ UNCHANGED <<client, conns, peer, host>> /\ call' = "start" /\ call = "none"
        /\ outcome \in {"none", "stopped"} /\ at'[Op] = "ensure"
    BY <1>2, <1>4 DEF StartVPN, CanStart, hostVars
  <2>2. \A k \in 1 .. conns : KeptOn(k)
    BY <1>1, <2>1, IdleKept
  <2>3. \A k \in 1 .. conns : Settled(k)
    BY <2>1 DEF LifeInv, SettleInv, Calm
  <2> QED
    BY <1>1, <2>1, <2>2, <2>3, QuietLife DEF Started, InFlight
<1>5. CASE Stop
  <2>1. /\ UNCHANGED <<mode, client, conns, peer, host>> /\ call = "none" /\ at[Op] = "idle"
        /\ \/ (inProc \/ client = 0) /\ outcome' = "stopped" /\ UNCHANGED <<call, at>>
           \/ call' = "stop" /\ at' = [at EXCEPT ![Op] = "send"]
    BY <1>1, <1>2, <1>5 DEF Stop, hostVars, CallPlaces
  <2>2. \A k \in 1 .. conns : KeptOn(k)
    BY <1>1, <2>1, IdleKept
  <2>3. Calm' => \A k \in 1 .. conns : Settled(k)
    <3>1. CASE inProc \/ mode = "proxy"
      <4>1. mode = "proxy"
        BY <1>2, <3>1 DEF CallPlaces
      <4> QED
        BY <4>1 DEF LifeInv, SettleInv, Calm
    <3>2. CASE client = 0
      <4>1. conns = 0
        BY <1>1, <3>2 DEF LifeInv, OneClient
      <4> QED
        BY <4>1
    <3>3. CASE ~ inProc /\ mode # "proxy" /\ client # 0
      <4>1. call' = "stop" /\ at'[Op] = "send" /\ mode' # "proxy"
        BY <1>2, <2>1, <3>3
      <4> QED
        BY <4>1 DEF Calm, InFlight
    <3> QED
      BY <3>1, <3>2, <3>3
  <2>4. at'[Op] \in {"idle", "send"} /\ (call' = "stop" \/ (call' = "none" /\ outcome' = "stopped"))
    BY <1>2, <2>1
  <2> QED
    BY <1>1, <2>1, <2>2, <2>3, <2>4, QuietLife DEF Started, InFlight
<1>6. CASE KeepClient \/ Spawn \/ EnsureFails
  <2>1. UNCHANGED <<mode, client, conns, peer>> /\ at[Op] \in {"ensure", "spawned"}
    BY <1>6 DEF KeepClient, Spawn, EnsureFails
  <2>2. call = "start" /\ mode = "vpn"
    BY <1>1, <1>2, <2>1 DEF CallPlaces, RunnerTypes
  <2>3. \A k \in 1 .. conns : KeptOn(k)
    <3>1. CASE Spawn
      <4>1. procs + 1 \in Procs /\ procs \in Nat
        BY <1>2, <3>1, HelperAssumption DEF Spawn, RunnerTypes, Procs
      <4>2. host[procs + 1] = "none" /\ host' = [host EXCEPT ![procs + 1] = "spawned"]
        BY <1>2, <3>1, <4>1 DEF HelperShape, Spawn
      <4>3. \A q \in Procs : host[q] = "gone" => host'[q] = "gone"
        BY <1>2, <4>1, <4>2 DEF HostTypes
      <4>4. ASSUME NEW k \in 1 .. conns PROVE KeptOn(k)
        <5>1. Off(k) => Off(k)'
          BY <1>1, <2>1, <4>3, Dialled DEF Off
        <5>2. Engine(k)' <=> Engine(k)
          BY <1>1, <2>1 DEF Engine
        <5> QED
          BY <1>1, <5>1, <5>2, KeptSame
      <4> QED
        BY <4>4
    <3>2. CASE KeepClient \/ EnsureFails
      <4>1. UNCHANGED host
        BY <3>2 DEF KeepClient, EnsureFails, hostVars
      <4> QED
        BY <1>1, <2>1, <4>1, IdleKept
    <3> QED
      BY <1>6, <3>1, <3>2
  <2>4. \A k \in 1 .. conns : Settled(k)
    BY <2>1, <2>2 DEF LifeInv, SettleInv, Calm
  <2>5. CASE KeepClient
    <3>1. at'[Op] = "send" /\ UNCHANGED <<call, outcome>>
      BY <1>2, <2>5 DEF KeepClient
    <3> QED
      BY <1>1, <2>1, <2>2, <2>3, <2>4, <3>1, QuietLife DEF Started, InFlight
  <2>6. CASE Spawn
    <3>1. at'[Op] = "spawned" /\ UNCHANGED <<call, outcome>> /\ (client = 0 \/ client \in closed)
      BY <1>2, <2>6 DEF Spawn
    <3>2. OneClient'
      BY <1>1, <2>1, <3>1 DEF LifeInv, OneClient
    <3>3. SettleInv'
      BY <2>1, <2>3, <2>4 DEF SettleInv, KeptOn
    <3>4. StartInv'
      BY <2>2, <3>1 DEF StartInv, Started, InFlight
    <3> QED
      BY <3>2, <3>3, <3>4 DEF LifeInv
  <2>7. CASE EnsureFails
    <3>1. at'[Op] = "idle" /\ call' = "none" /\ outcome' = "failed"
      BY <1>2, <2>2, <2>7 DEF EnsureFails, Returns
    <3> QED
      BY <1>1, <2>1, <2>3, <2>4, <3>1, QuietLife DEF Started, InFlight
  <2> QED
    BY <1>6, <2>5, <2>6, <2>7
<1>7. CASE DialHelper
  <2>1. /\ UNCHANGED <<call, outcome, mode, host>> /\ conns' = conns + 1 /\ client' = conns + 1
        /\ peer' = [peer EXCEPT ![conns + 1] = path] /\ at' = [at EXCEPT ![Op] = "send"]
        /\ conns < MaxConns /\ Alive(path) /\ at[Op] \in {"ensure", "spawned"}
    BY <1>7 DEF DialHelper, Dial, hostVars
  <2>2. conns + 1 \in Conns /\ conns \in Nat /\ path \in Procs /\ \A k \in 1 .. conns : k \in Conns
    BY <1>2, <2>1, HelperAssumption, Dialled DEF Conns, RunnerTypes, HostTypes, Alive
  <2>3. /\ \A k \in Conns : peer'[k] = IF k = conns + 1 THEN path ELSE peer[k]
        /\ \A k \in 1 .. conns' : k \in 1 .. conns \/ k = conns + 1
        /\ \A k \in 1 .. conns : k # conns + 1
        /\ \A k \in Conns : k > conns' => k > conns
    BY <1>2, <2>1, <2>2 DEF HostTypes, Conns
  <2>4. call = "start" /\ mode = "vpn" /\ at'[Op] = "send"
    BY <1>1, <1>2, <2>1 DEF CallPlaces, RunnerTypes
  <2>5. client = 0 \/ client \in closed
    BY <1>7 DEF DialHelper, LifeInv, OneClient
  <2>6. \A k \in 1 .. conns : k \in closed
    <3>1. client # 0 => client \in closed
      BY <2>5
    <3> QED
      BY <3>1 DEF LifeInv, OneClient
  <2>7. OneClient'
    <3>1. up[conns + 1] = <<>> /\ \A k \in Conns : k > conns' => up[k] = <<>>
      BY <2>2, <2>3 DEF LifeInv, OneClient
    <3>2. \A k \in 1 .. conns' : k \notin closed' => k = client'
      BY <1>1, <2>1, <2>3, <2>6
    <3> QED
      BY <1>1, <2>1, <2>2, <2>4, <3>1, <3>2 DEF OneClient
  <2>8. ASSUME NEW k \in 1 .. conns' PROVE Settled(k)'
    <3>1. CASE k \in 1 .. conns
      BY <1>1, <2>6, <3>1 DEF Settled, Off
    <3>2. CASE k = conns + 1
      <4>1. up'[k] = <<>>
        BY <1>1, <2>2, <3>2 DEF LifeInv, OneClient
      <4>2. ~ HasConnect(up'[k])
        BY <4>1 DEF HasConnect, Elems
      <4>3. ~ Engine(k)'
        <5>1. SUFFICES ASSUME path \in eng, serves[path] = k PROVE FALSE
          BY <1>1, <2>2, <2>3, <3>2 DEF Engine
        <5>2. serves[path] \in 1 .. conns
          BY <1>2, <2>2, <5>1 DEF HelperShape
        <5> QED
          BY <2>2, <3>2, <5>1, <5>2
      <4> QED
        BY <4>2, <4>3 DEF Settled
    <3> QED
      BY <2>3, <3>1, <3>2
  <2> QED
    BY <2>1, <2>4, <2>7, <2>8 DEF LifeInv, SettleInv, StartInv, Started, InFlight
<1> QED
  BY <1>3, <1>4, <1>5, <1>6, <1>7 DEF Runner, Ensure

\* A request that fails: a Stop that fails has nothing left to stop, or has sent
\* its disconnect.
LEMMA FailKeepsLife ==
  ASSUME ShapeInv, LifeInv, NEW t \in Threads, NEW W \in [Conns -> SUBSET Seqs], Failed(t, W),
         at[t] \in {"send", "sent", "await"}, at[t] = "send" => Broken(on[t]),
         UNCHANGED seq, RequestFrame, app # "gone"
  PROVE  LifeInv'
<1>1. UNCHANGED <<app, mode, client, conns, on, peer, host, serves, eng>>
  BY DEF RequestFrame, hostVars
<1>2. /\ at \in [Threads -> {"idle", "ensure", "spawned", "send", "sent", "await", "dead"}]
      /\ Op \in Threads /\ Op \notin Conns /\ CallPlaces
  BY Dialled DEF ShapeInv, BookInv, Types, ThreadTypes
<1>3. CASE t = Op
  <2>1. /\ at' = [at EXCEPT ![Op] = "idle"] /\ call' = "none" /\ UNCHANGED <<box, closed, up, down>>
        /\ outcome' = IF call = "stop" THEN "stopped" ELSE "failed"
    BY <1>3 DEF Failed, Returns
  <2>2. \A k \in 1 .. conns : KeptOn(k)
    BY <1>1, <2>1, IdleKept
  <2>3. call \in {"start", "stop"} /\ on[Op] = client /\ (call = "start" => mode = "vpn")
    BY <1>2, <1>3 DEF CallPlaces, ShapeInv, BookInv, Types, RunnerTypes
  <2>4. Calm' => \A k \in 1 .. conns : Settled(k)
    <3>1. CASE call = "start"
      BY <1>1, <2>1, <2>3, <3>1 DEF Calm, InFlight
    <3>2. CASE call = "stop" /\ at[Op] # "send"
      BY <1>3, <3>2 DEF LifeInv, SettleInv, Calm, InFlight
    <3>3. CASE at[Op] = "send"
      <4>1. Off(client)
        BY <1>3, <2>3, <3>3 DEF Broken, Off
      <4>2. \A k \in 1 .. conns : Off(k)
        BY <4>1 DEF Off, LifeInv, OneClient
      <4> QED
        BY <4>2 DEF Settled
    <3> QED
      BY <2>3, <3>1, <3>2, <3>3
  <2>5. outcome' # "started" /\ at'[Op] = "idle"
    BY <1>2, <2>1
  <2> QED
    BY <1>1, <2>1, <2>2, <2>4, <2>5, QuietLife DEF Started, InFlight
<1>4. CASE t # Op
  <2>1. /\ at' = [at EXCEPT ![t] = "dead"] /\ UNCHANGED <<call, outcome>> /\ CloseWith(t, FALSE, W)
    BY <1>4 DEF Failed
  <2>2. t \in Conns
    BY <1>4 DEF Threads
  <2>3. /\ closed' = closed \cup {t} /\ (\A j \in Conns : up'[j] = up[j])
        /\ \A j \in 1 .. conns : KeptOn(j)
    BY <1>1, <2>1, <2>2, FALSE \in BOOLEAN, CloseKept
  <2>4. /\ UNCHANGED <<app, call, outcome, mode>> /\ on'[Op] = on[Op] /\ seq'[Op] = seq[Op]
        /\ at'[Op] = at[Op]
    BY <1>1, <1>2, <1>4, <2>1
  <2> QED
    BY <1>1, <2>3, <2>4, QuietRunner, QuietLife
<1> QED
  BY <1>3, <1>4


\* A request's steps: a Stop that is on its way settles its connection, and a
\* Start's connect is the last one there.
LEMMA RequestKeepsLife ==
  ASSUME ShapeInv, LifeInv, NEW t \in Threads, Request(t)
  PROVE  LifeInv'
<1>1. app # "gone" /\ BookInv /\ RequestFrame
  BY DEF Request, ShapeInv, Send, Register, Answered, TimedOut
<1>2. UNCHANGED <<app, mode, client, conns, on, peer, host, serves, eng>>
  BY <1>1 DEF RequestFrame, hostVars
<1>3. /\ at \in [Threads -> {"idle", "ensure", "spawned", "send", "sent", "await", "dead"}]
      /\ seq \in [Threads -> {0} \cup Seqs]
      /\ Op \in Threads /\ Op \notin Conns /\ CallPlaces /\ ClientTypes /\ RunnerTypes
      /\ pending \in [Conns -> SUBSET Seqs]
  BY Dialled DEF ShapeInv, BookInv, Types, ThreadTypes, ClientTypes
<1>4. at[t] \in {"send", "sent", "await"} /\ on[t] \in 1 .. conns /\ on[t] \in Conns
  BY Dialled DEF Request, Send, Register, Answered, TimedOut
<1>5. ASSUME NEW W \in [Conns -> SUBSET Seqs], Failed(t, W), UNCHANGED seq,
             at[t] = "send" => Broken(on[t])
      PROVE  LifeInv'
  BY <1>1, <1>4, <1>5, FailKeepsLife
<1>6. CASE Register(t) \/ Answered(t) \/ TimedOut(t)
  <2>1. at[t] \in {"sent", "await"} /\ UNCHANGED seq
    BY <1>6 DEF Register, Answered, TimedOut
  <2>2. CASE \E W \in [Conns -> SUBSET Seqs] : Failed(t, W)
    BY <1>5, <2>1, <2>2
  <2>3. CASE ~ \E W \in [Conns -> SUBSET Seqs] : Failed(t, W)
    <3>1. ~ TimedOut(t)
      <4>1. [pending EXCEPT ![on[t]] = @ \ {seq[t]}] \in [Conns -> SUBSET Seqs]
        BY <1>3
      <4> QED
        BY <2>3, <4>1 DEF TimedOut
    <3>2. UNCHANGED <<box, closed, up, down>>
      BY <1>3, <1>6, <2>3, <3>1 DEF Register, Answered
    <3>3. \A k \in 1 .. conns : KeptOn(k)
      BY <1>2, <3>2, IdleKept
    <3>4. CASE t # Op
      <4>1. UNCHANGED <<call, outcome>> /\ at'[Op] = at[Op]
        <5>1. UNCHANGED <<call, outcome>> /\ \E w : at' = [at EXCEPT ![t] = w]
          BY <1>3, <1>6, <2>3, <3>1, <3>4 DEF Register, Answered
        <5> QED
          BY <1>3, <3>4, <5>1
      <4>2. /\ UNCHANGED <<app, call, outcome, mode>> /\ on'[Op] = on[Op] /\ seq'[Op] = seq[Op]
        BY <1>2, <2>1, <4>1
      <4> QED
        BY <1>2, <3>2, <3>3, <4>1, <4>2, QuietRunner, QuietLife
    <3>5. CASE t = Op /\ Register(t)
      <4>1. at'[Op] = "await" /\ UNCHANGED <<call, outcome>> /\ at[Op] = "sent"
        BY <1>3, <2>3, <3>5 DEF Register
      <4>2. Calm' => Calm
        BY <1>2, <4>1 DEF Calm, InFlight
      <4> QED
        BY <1>2, <2>1, <3>2, <3>3, <4>1, <4>2, QuietLife DEF Started, InFlight, LifeInv, SettleInv
    <3>6. CASE t = Op /\ Answered(t)
      <4>1. /\ at'[Op] = "idle" /\ call' = "none" /\ outcome' = (IF call = "stop" THEN "stopped" ELSE "started")
            /\ at[Op] = "await" /\ box[on[Op]][seq[Op]] # <<>> /\ Head(box[on[Op]][seq[Op]])
        <5>1. /\ at' = [at EXCEPT ![t] = "idle"] /\ Returns(TRUE) /\ at[Op] = "await"
              /\ box[on[Op]][seq[Op]] # <<>> /\ Head(box[on[Op]][seq[Op]])
          BY <1>3, <2>3, <3>6 DEF Answered
        <5> QED
          BY <1>3, <3>6, <5>1 DEF Returns
      <4>2. call # "none" /\ on[Op] = client /\ (call = "start" => mode = "vpn")
        BY <1>1, <1>3, <4>1 DEF CallPlaces
      <4>3. call \in {"start", "stop"}
        BY <1>3, <4>2 DEF RunnerTypes
      <4>4. CASE call = "stop"
        <5>1. \A k \in 1 .. conns : Settled(k)
          BY <4>1, <4>4 DEF LifeInv, SettleInv, Calm, InFlight
        <5> QED
          BY <1>2, <3>2, <3>3, <4>1, <4>4, <5>1, QuietLife DEF Started, InFlight
      <4>5. CASE call = "start"
        <5>1. Off(on[Op]) \/ LastConnect(on[Op], seq[Op])
          BY <4>1, <4>5 DEF LifeInv, StartInv, InFlight
        <5>2. client # 0 /\ (Off(client) \/ Runs(client))
          <6>1. Good(box[on[Op]][seq[Op]])
            BY <4>1 DEF Good
          <6>2. LastConnect(on[Op], seq[Op]) => Runs(on[Op])
            BY <6>1 DEF LastConnect
          <6>3. client # 0
            BY <1>4, <3>6, <4>2
          <6> QED
            BY <4>2, <5>1, <6>2, <6>3
        <5>3. ~ Calm'
          BY <1>2, <4>1, <4>2, <4>5 DEF Calm
        <5> QED
          BY <1>2, <3>2, <3>3, <4>1, <5>2, <5>3, QuietLife DEF InFlight
      <4> QED
        BY <4>3, <4>4, <4>5
    <3> QED
      BY <1>6, <3>1, <3>4, <3>5, <3>6
  <2> QED
    BY <2>2, <2>3
<1>7. CASE Send(t) /\ Broken(on[t])
  BY <1>3, <1>5, <1>7 DEF Send
<1>8. CASE Send(t) /\ ~ Broken(on[t])
  <2>1. PICK k \in 1 .. conns : k = on[t] /\ k \in Conns
    BY <1>4
  <2>2. PICK m : m = [type |-> Type(t), seq |-> counter[k] + 1]
    OBVIOUS
  <2>3. /\ at[t] = "send" /\ at' = [at EXCEPT ![t] = "sent"] /\ seq' = [seq EXCEPT ![t] = counter[k] + 1]
        /\ up' = [up EXCEPT ![k] = Append(up[k], m)]
        /\ UNCHANGED <<call, outcome, box, closed, down>>
    BY <1>8, <2>1, <2>2 DEF Send
  <2>4. counter[k] \in Nat /\ counter[k] + 1 \in Seqs
    BY <1>1, <2>1, <2>3, NextNumber
  <2>5. m \in UpMsgs /\ m.type = Type(t) /\ m.seq = counter[k] + 1
    BY <2>2, <2>4 DEF UpMsgs, Type
  <2>6. \A j \in Conns : up'[j] = IF j = k THEN Append(up[k], m) ELSE up[j]
    BY <1>3, <2>1, <2>3 DEF ClientTypes
  <2>7. \A j : (Engine(j)' <=> Engine(j)) /\ (Off(j)' <=> Off(j))
    BY <1>2, <2>3 DEF Engine, Off
  <2>8. \A j \in 1 .. conns : j \in Conns /\ ~ (j > conns)
    BY Dialled
  <2>9. \A j \in 1 .. conns : j # k => KeptOn(j)
    BY <2>3, <2>6, <2>7, <2>8, KeptSame
  <2>10. CASE t # Op
    <3>1. m = [type |-> "ping", seq |-> counter[k] + 1]
      BY <2>2, <2>10 DEF Type
    <3>2. KeptOn(k)
      BY <1>1, <1>2, <2>1, <2>3, <2>5, <2>6, <3>1, KeptPing
    <3>3. at'[Op] = at[Op] /\ seq'[Op] = seq[Op] /\ on'[Op] = on[Op] /\ UNCHANGED <<app, call, outcome, mode>>
      BY <1>2, <1>3, <2>3, <2>10
    <3>4. \A j \in Conns : j > conns => up'[j] = up[j]
      BY <2>6, <2>8
    <3> QED
      BY <1>2, <2>3, <2>9, <3>2, <3>3, <3>4, QuietRunner, QuietLife
  <2>11. CASE t = Op
    <3>1. call \in {"start", "stop"} /\ k = client /\ (call = "start" => mode = "vpn")
      BY <1>1, <1>3, <2>1, <2>3, <2>11 DEF CallPlaces, RunnerTypes
    <3>2. at'[Op] = "sent" /\ seq'[Op] = counter[k] + 1 /\ on'[Op] = k
      BY <1>2, <1>3, <2>1, <2>3, <2>11
    <3>3. up[k] \in Seq(UpMsgs) /\ down[k] \in Seq(DownMsgs) /\ \A j \in 1 .. conns : j # k => Off(j)
      BY <1>3, <2>1, <3>1 DEF ClientTypes, LifeInv, OneClient, Off
    <3>4. OneClient'
      BY <1>2, <2>3, <2>6, <2>8, <3>2 DEF LifeInv, OneClient
    <3>5. CASE call = "stop"
      <4>1. m.type = "disconnect"
        BY <2>5, <2>11, <3>5 DEF Type
      <4>2. Ended(up'[k])
        BY <2>1, <2>5, <2>6, <3>3, <4>1, AppendQueue
      <4>3. \A j \in 1 .. conns : Settled(j)'
        BY <2>7, <3>3, <4>2 DEF Settled
      <4> QED
        BY <1>2, <2>3, <3>4, <3>5, <4>3 DEF LifeInv, SettleInv, StartInv, Started
    <3>6. CASE call = "start"
      <4>1. PICK s : s = counter[k] + 1
        OBVIOUS
      <4>2. m.type = "connect" /\ m.seq = s /\ s \in Seqs /\ s > counter[k]
        BY <2>4, <2>5, <2>11, <3>6, <4>1 DEF Type
      <4>3. box[k][s] = <<>>
        BY <1>1, <2>1, <4>2 DEF BookInv, FreshNumbers
      <4>4. ~ Carries(up[k], s) /\ ~ Carries(down[k], s)
        <5>1. \A e \in Elems(up[k]) \cup Elems(down[k]) : e.seq <= counter[k]
          BY <1>1, <2>1 DEF BookInv, FreshNumbers
        <5> QED
          BY <2>4, <4>1, <5>1 DEF Carries
      <4>5. LastIs(up'[k], s)
        BY <2>1, <2>5, <2>6, <3>3, <4>2, <4>4, AppendQueue
      <4>6. ~ Yes(down[k], s)
        BY <3>3, <4>4, AnswerQueue
      <4>7. LastConnect(k, s)'
        BY <2>3, <4>3, <4>4, <4>5, <4>6 DEF LastConnect, Good
      <4>8. ~ Calm' /\ ~ Started'
        BY <1>2, <2>3, <3>1, <3>2, <3>6 DEF Calm, Started
      <4> QED
        BY <3>2, <3>4, <4>1, <4>7, <4>8 DEF LifeInv, SettleInv, StartInv
    <3> QED
      BY <3>1, <3>5, <3>6
  <2> QED
    BY <2>10, <2>11
<1> QED
  BY <1>6, <1>7, <1>8 DEF Request

\* Every step keeps the engines' lives in order.
LEMMA LifeStep ==
  ASSUME ShapeInv, LifeInv, [Next]_vars
  PROVE  LifeInv'
<1>1. CASE Runner \/ Ensure
  BY <1>1, RunnerKeepsLife
<1>2. CASE Shutdown
  BY <1>2, ShutdownKeepsLife
<1>3. CASE \E t \in Threads : Request(t)
  BY <1>3, RequestKeepsLife
<1>4. CASE \E k \in Conns : Reader(k) \/ Pinger(k)
  BY <1>4, ReaderKeepsLife
<1>5. CASE \E p \in Procs : Host(p) \/ Listen(p) \/ Crash(p)
  BY <1>5, HostKeepsLife
<1>6. CASE UNCHANGED vars
  <2>1. UNCHANGED <<app, call, outcome, mode, client, conns, at, on, seq, closed, box, up, down, peer, host,
                    serves, eng>>
    BY <1>6 DEF vars, runnerVars, threadVars, clientVars, hostVars
  <2>2. \A k \in 1 .. conns : KeptOn(k)
    BY <2>1, IdleKept
  <2>3. UNCHANGED <<app, call, outcome, mode>> /\ at'[Op] = at[Op] /\ on'[Op] = on[Op] /\ seq'[Op] = seq[Op]
    BY <2>1
  <2> QED
    BY <2>1, <2>2, <2>3, QuietRunner, QuietLife
<1> QED
  BY <1>1, <1>2, <1>3, <1>4, <1>5, <1>6 DEF Next

\* They are in order in every state.
THEOREM EnginesAreInOrder == Spec => [](ShapeInv /\ LifeInv)
<1>1. Init => LifeInv
  <2> SUFFICES ASSUME Init PROVE LifeInv
    OBVIOUS
  <2>1. 1 .. conns = {} /\ call = "none" /\ outcome = "none" /\ client = 0 /\ conns = 0
    BY DEF Init
  <2>2. at[Op] = "idle" /\ \A k \in Conns : up[k] = <<>>
    BY DEF Init, Threads
  <2> QED
    BY <2>1, <2>2 DEF LifeInv, OneClient, SettleInv, StartInv, Started
<1>2. ShapeInv /\ LifeInv /\ [Next]_vars => LifeInv'
  BY LifeStep
<1> QED
  BY <1>1, <1>2, BooksAreSound, PTL DEF Spec

\* After Stop no engine outlives what Stop has set in motion, whatever Stop
\* returned and whatever was late, lost or restarted before it
\* (helper_client.go Stop, helperhost Disconnect).
THEOREM StopAlwaysSettles == Spec => []StopSettles
<1>1. ShapeInv /\ LifeInv => StopSettles
  <2> SUFFICES ASSUME ShapeInv, LifeInv, outcome = "stopped", call = "none"
               PROVE  ~ inProc /\ \A p \in Procs : p \in eng \/ host[p] = "starting" => Doomed(p)
    BY DEF StopSettles
  <2>1. ~ inProc
    BY DEF ShapeInv, BookInv, CallPlaces
  <2>2. ASSUME NEW p \in Procs, p \in eng \/ host[p] = "starting" PROVE Doomed(p)
    <3>1. host[p] \in {"serving", "starting"}
      BY <2>2 DEF ShapeInv, HelperShape
    <3>2. PICK k \in 1 .. conns : k = serves[p] /\ k \in Conns /\ peer[k] = p
      BY <3>1, ServesFacts DEF ShapeInv
    <3>3. Settled(k)
      BY DEF LifeInv, SettleInv, Calm
    <3>4. CASE k \in closed
      BY <3>2, <3>4 DEF Doomed
    <3>5. CASE k \notin closed
      <4>1. ~ Off(k)
        BY <3>1, <3>2, <3>5 DEF Off
      <4>2. up[k] \in Seq(UpMsgs) /\ DOMAIN up[k] = 1 .. Len(up[k])
        BY <3>2 DEF ShapeInv, BookInv, Types, ClientTypes
      <4>3. Engine(k) \/ HasConnect(up[k])
        <5>1. CASE p \in eng
          BY <3>2, <5>1 DEF Engine
        <5>2. CASE host[p] = "starting"
          <6>1. up[k] # <<>> /\ Head(up[k]).type = "connect"
            BY <3>2, <5>2 DEF ShapeInv, HelperShape
          <6> QED
            BY <4>2, <6>1, TailQueue
        <5> QED
          BY <2>2, <5>1, <5>2
      <4>4. Ended(up[k])
        BY <3>3, <4>1, <4>3 DEF Settled
      <4> QED
        BY <3>2, <4>2, <4>4 DEF Doomed, Ended
    <3> QED
      BY <3>4, <3>5
  <2> QED
    BY <2>1, <2>2
<1> QED
  BY <1>1, EnginesAreInOrder, PTL

\* A VPN start that was reported a success has its engine up in the helper,
\* until the connection to it ends (helper_client.go Start, helperhost Connect).
THEOREM StartedEngineIsUp == Spec => []StartedIsUp
<1>1. ShapeInv /\ LifeInv => StartedIsUp
  BY DEF LifeInv, StartInv, Started, StartedIsUp, Off, Runs, Engine
<1> QED
  BY <1>1, EnginesAreInOrder, PTL
=============================================================================
