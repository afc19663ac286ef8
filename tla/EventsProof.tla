---------------------------- MODULE EventsProof ----------------------------
(***************************************************************************)
(* Proofs about what the log screen shows, for any number of writers, log  *)
(* entries, pulls and states and for any capacity of the rings, the pages  *)
(* and the screen: entries are in order and without duplicates, and what   *)
(* the user cleared stays gone.                                            *)
(***************************************************************************)
EXTENDS Events, SequenceTheorems, TLAPS

\* What was cleared is at or below the watermark and below all that is shown.
ClearedIsPassed ==
    \A n \in cleared : n <= lastSeq /\ \A i \in 1 .. Len(shown) : n < shown[i]

\* The inductive invariant.
EInv == TypeOK /\ ShownInOrder /\ ClearedIsPassed

-----------------------------------------------------------------------------
(* Messages and buffers.                                                   *)

\* A sequence over a set is one over a larger set.
LEMMA SeqGrows ==
  ASSUME NEW S, NEW T, S \subseteq T, NEW s \in Seq(S)
  PROVE  s \in Seq(T)
OBVIOUS

\* The bounds are natural numbers, and so are the numbers within them.
LEMMA Bounds ==
  ASSUME TypeOK
  PROVE  /\ StateBound \in Nat
         /\ MaxLogs \in Nat /\ seq \in Nat /\ lastSeq \in Nat
         /\ RingCap \in Nat \ {0} /\ ShowCap \in Nat \ {0}
         /\ Page \in Nat \ {0} /\ LogMax \in Nat \ {0}
BY EventsAssumption DEF TypeOK, StateBound

\* What a message carries.
LEMMA MessageFacts ==
  ASSUME NEW m \in Messages
  PROVE  /\ m.type \in States \cup Logs
         /\ m.type \in States => m.n \in 0 .. StateBound
         /\ m.type \in Logs => m.lo \in 0 .. seq /\ m.n \in 0 .. seq
BY DEF Messages, States, Logs

\* A message that keeps its type's range is one.
LEMMA MessageMade ==
  ASSUME NEW t, NEW lo, NEW n,
         \/ t \in States /\ lo = 0 /\ n \in 0 .. StateBound
         \/ t \in Logs /\ lo \in 0 .. seq /\ n \in 0 .. seq
  PROVE  Message(t, lo, n) \in Messages /\ Message(t, lo, n).type = t
BY DEF Message, Messages

\* EventRing.Push keeps the ring a sequence of messages within its capacity.
LEMMA PushFacts ==
  ASSUME NEW S, NEW r \in Seq(S), NEW e \in S, Len(r) <= RingCap, RingCap \in Nat \ {0}
  PROVE  Push(r, e) \in Seq(S) /\ Len(Push(r, e)) <= RingCap
BY DEF Push

\* An event that is published, or not, leaves the ring well formed.
LEMMA PublishKeeps ==
  ASSUME TypeOK, NEW e \in Messages, Publish(e)
  PROVE  ring' \in Seq(Messages) /\ Len(ring') <= RingCap /\ dropped' \in BOOLEAN
<1>1. ring \in Seq(Messages) /\ Len(ring) <= RingCap /\ dropped \in BOOLEAN
  BY DEF TypeOK
<1>2. CASE subscribed
  <2>1. ring' = Push(ring, e)
    BY <1>2 DEF Publish
  <2>2. dropped' \in BOOLEAN
    BY <1>2, Zenon DEF Publish
  <2> QED
    BY <1>1, <2>1, <2>2, Bounds, PushFacts
<1>3. CASE ~subscribed
  BY <1>1, <1>3 DEF Publish
<1> QED
  BY <1>2, <1>3

-----------------------------------------------------------------------------
(* What the screen shows.                                                  *)

\* The entries above a watermark, in order.
LEMMA EntriesFacts ==
  ASSUME NEW lo \in Nat, NEW hi \in Nat
  PROVE  /\ Entries(lo, hi) \in Seq((lo + 1) .. hi)
         /\ Len(Entries(lo, hi)) = IF hi > lo THEN hi - lo ELSE 0
         /\ \A i \in 1 .. Len(Entries(lo, hi)) : Entries(lo, hi)[i] = lo + i
<1> DEFINE k == IF hi > lo THEN hi - lo ELSE 0
<1>1. k \in Nat
  OBVIOUS
<1>2. Entries(lo, hi) = [i \in 1 .. k |-> lo + i]
  BY DEF Entries
<1>3. \A i \in 1 .. k : lo + i \in (lo + 1) .. hi
  OBVIOUS
<1> HIDE DEF k
<1>4. Entries(lo, hi) \in Seq((lo + 1) .. hi) /\ Len(Entries(lo, hi)) = k
  BY <1>1, <1>2, <1>3
<1> QED
  BY <1>1, <1>2, <1>4 DEF k

\* _trim keeps the newest entries, as many as the screen has room for.
LEMMA TrimFacts ==
  ASSUME NEW S, NEW s \in Seq(S), ShowCap \in Nat \ {0}
  PROVE  /\ Trim(s) \in Seq(S)
         /\ Len(Trim(s)) <= ShowCap
         /\ s # <<>> => Trim(s) # <<>> /\ Last(Trim(s)) = Last(s)
         /\ \E d \in Nat : \A i \in 1 .. Len(Trim(s)) : i + d \in 1 .. Len(s) /\ Trim(s)[i] = s[i + d]
<1>1. CASE Len(s) <= ShowCap
  <2>1. Trim(s) = s
    BY <1>1 DEF Trim
  <2>2. \A i \in 1 .. Len(s) : i + 0 \in 1 .. Len(s) /\ s[i] = s[i + 0]
    OBVIOUS
  <2> QED
    BY <1>1, <2>1, <2>2
<1>2. CASE Len(s) > ShowCap
  <2> DEFINE d == Len(s) - ShowCap
  <2>1. d \in Nat /\ Trim(s) = SubSeq(s, d + 1, Len(s))
    BY <1>2 DEF Trim
  <2>2. Len(Trim(s)) = ShowCap /\ Trim(s) \in Seq(S)
    BY <1>2, <2>1
  <2>3. \A i \in 1 .. ShowCap : i + d \in 1 .. Len(s) /\ Trim(s)[i] = s[i + d]
    BY <1>2, <2>1
  <2>4. Last(Trim(s)) = Last(s)
    <3>1. ShowCap \in 1 .. ShowCap /\ ShowCap + d = Len(s)
      OBVIOUS
    <3>2. Trim(s)[ShowCap] = s[Len(s)]
      BY <2>3, <3>1
    <3> QED
      BY <2>2, <3>2 DEF Last
  <2>6. Len(Trim(s)) <= ShowCap
    BY <2>2
  <2>7. Trim(s) # <<>>
    <3>1. Len(Trim(s)) # 0
      BY <2>2
    <3> QED
      BY <3>1
  <2>5. \E e \in Nat : \A i \in 1 .. Len(Trim(s)) : i + e \in 1 .. Len(s) /\ Trim(s)[i] = s[i + e]
    BY <2>1, <2>2, <2>3
  <2> QED
    BY <2>2, <2>4, <2>5, <2>6, <2>7, Zenon
<1> QED
  BY <1>1, <1>2

\* A page or an event is shown: order, watermark and what was cleared are kept.
LEMMA ShowKeeps ==
  ASSUME EInv, NEW lo \in 0 .. seq, NEW hi \in 0 .. seq, Show(lo, hi),
         UNCHANGED <<seq, cleared>>
  PROVE  /\ shown' \in Seq(1 .. seq') /\ Len(shown') <= ShowCap
         /\ lastSeq' \in 0 .. seq'
         /\ ShownInOrder'
         /\ ClearedIsPassed'
<1>1. /\ seq \in Nat /\ lastSeq \in 0 .. seq /\ ShowCap \in Nat \ {0}
      /\ shown \in Seq(1 .. seq) /\ Len(shown) <= ShowCap
  BY Bounds DEF EInv, TypeOK
<1>2. PICK low \in Nat : low = Larger(lo, lastSeq) /\ low >= lastSeq /\ low <= seq
  BY <1>1 DEF Larger
<1>3. PICK f \in Seq((low + 1) .. hi) :
        /\ Len(f) = IF hi > low THEN hi - low ELSE 0
        /\ \A i \in 1 .. Len(f) : f[i] = low + i
        /\ shown' = Trim(shown \o f)
        /\ lastSeq' = IF f = <<>> THEN lastSeq ELSE hi
  <2>1. hi \in Nat
    BY <1>1
  <2> QED
    BY <1>2, <2>1, EntriesFacts DEF Show
<1>4. f \in Seq(1 .. seq)
  <2>1. (low + 1) .. hi \subseteq 1 .. seq
    BY <1>1, <1>2
  <2> QED
    BY <1>3, <2>1, SeqGrows
<1>5. PICK S : S = 1 .. seq /\ S \subseteq Nat
  BY <1>1
<1>6. PICK g \in Seq(S) :
        /\ g = shown \o f
        /\ Len(g) = Len(shown) + Len(f)
        /\ \A i \in 1 .. Len(shown) + Len(f) :
             g[i] = IF i <= Len(shown) THEN shown[i] ELSE f[i - Len(shown)]
  <2>1. shown \in Seq(S) /\ f \in Seq(S)
    BY <1>1, <1>4, <1>5
  <2>2. /\ shown \o f \in Seq(S)
        /\ Len(shown \o f) = Len(shown) + Len(f)
        /\ \A i \in 1 .. Len(shown) + Len(f) :
             (shown \o f)[i] = IF i <= Len(shown) THEN shown[i] ELSE f[i - Len(shown)]
    BY <2>1, ConcatProperties, Zenon
  <2> QED
    BY <2>2, Zenon
<1>7. PICK ls \in Nat, lf \in Nat :
        /\ ls = Len(shown) /\ lf = Len(f) /\ Len(g) = ls + lf
        /\ \A i \in 1 .. ls : shown[i] \in Nat /\ g[i] = shown[i] /\ shown[i] <= lastSeq
        /\ \A i \in 1 .. ls + lf : i > ls => g[i] = low + (i - ls)
        /\ \A i, j \in 1 .. ls : i < j => shown[i] < shown[j]
  <2>1. PICK ls \in Nat, lf \in Nat : ls = Len(shown) /\ lf = Len(f)
    BY <1>1, <1>4
  <2>2. \A i \in 1 .. ls : shown[i] \in Nat
    <3>1. shown \in Seq(S)
      BY <1>1, <1>5
    <3>2. \A i \in 1 .. ls : shown[i] \in S
      BY <2>1, <3>1, LenProperties
    <3> QED
      BY <1>5, <3>2
  <2>3. /\ \A i, j \in 1 .. ls : i < j => shown[i] < shown[j]
        /\ shown # <<>> => shown[ls] = lastSeq
    BY <2>1 DEF EInv, ShownInOrder, Last
  <2>4. \A i \in 1 .. ls : shown[i] <= lastSeq
    <3> SUFFICES ASSUME NEW i \in 1 .. ls PROVE shown[i] <= lastSeq
      OBVIOUS
    <3>1. shown # <<>> /\ ls \in 1 .. ls
      BY <1>1, <2>1
    <3>2. i = ls \/ shown[i] < shown[ls]
      BY <2>1, <2>3, <3>1
    <3> QED
      BY <1>1, <2>2, <2>3, <3>1, <3>2
  <2>5. \A i \in 1 .. ls : g[i] = shown[i]
    BY <1>6, <2>1
  <2>6. \A i \in 1 .. ls + lf : i > ls => g[i] = low + (i - ls)
    BY <1>3, <1>6, <2>1
  <2>7. Len(g) = ls + lf
    BY <1>6, <2>1
  <2>8. \A i \in 1 .. ls : shown[i] \in Nat /\ g[i] = shown[i] /\ shown[i] <= lastSeq
    BY <2>2, <2>4, <2>5, Zenon
  <2>9. \A i, j \in 1 .. ls : i < j => shown[i] < shown[j]
    BY <2>3, Zenon
  <2> QED
    BY <2>1, <2>6, <2>7, <2>8, <2>9, Zenon
<1>8. \A i, j \in 1 .. ls + lf : i < j => g[i] < g[j]
  <2> SUFFICES ASSUME NEW i \in 1 .. ls + lf, NEW j \in 1 .. ls + lf, i < j
               PROVE  g[i] < g[j]
    OBVIOUS
  <2>1. CASE j <= ls
    BY <1>7, <2>1
  <2>2. CASE i <= ls /\ j > ls
    <3>1. g[i] \in Nat /\ g[i] <= lastSeq
      BY <1>7, <2>2
    <3>2. g[j] = low + (j - ls)
      BY <1>7, <2>2
    <3> QED
      BY <1>1, <1>2, <2>2, <3>1, <3>2
  <2>3. CASE i > ls
    <3>1. g[i] = low + (i - ls) /\ g[j] = low + (j - ls)
      BY <1>7, <2>3
    <3> QED
      BY <1>2, <3>1
  <2> QED
    BY <2>1, <2>2, <2>3
<1>9. g # <<>> => Last(g) = lastSeq'
  <2>1. CASE f = <<>>
    <3>1. g = shown /\ lastSeq' = lastSeq
      BY <1>1, <1>3, <1>6, <2>1
    <3> QED
      BY <3>1 DEF EInv, ShownInOrder
  <2>2. CASE f # <<>>
    <3>1. lf > 0 /\ lf = hi - low /\ lastSeq' = hi
      BY <1>2, <1>3, <1>4, <1>7, <2>2
    <3>2. ls + lf \in 1 .. ls + lf /\ ls + lf > ls
      BY <3>1
    <3>3. g[ls + lf] = low + ((ls + lf) - ls)
      BY <1>7, <3>2
    <3>4. Last(g) = g[ls + lf]
      BY <1>7 DEF Last
    <3> QED
      BY <1>2, <3>1, <3>3, <3>4
  <2> QED
    BY <2>1, <2>2
<1>10. \A n \in cleared : \A i \in 1 .. ls + lf : n < g[i]
  <2> SUFFICES ASSUME NEW n \in cleared, NEW i \in 1 .. ls + lf
               PROVE  n < g[i]
    OBVIOUS
  <2>1. n \in Nat /\ n <= lastSeq
    BY <1>1 DEF EInv, TypeOK, ClearedIsPassed
  <2>2. CASE i <= ls
    BY <1>7, <2>2 DEF EInv, ClearedIsPassed
  <2>3. CASE i > ls
    <3>1. g[i] = low + (i - ls)
      BY <1>7, <2>3
    <3> QED
      BY <1>1, <1>2, <2>1, <2>3, <3>1
  <2> QED
    BY <2>2, <2>3
<1>11. lastSeq' \in 0 .. seq /\ lastSeq' >= lastSeq
  BY <1>1, <1>2, <1>3
<1>12. PICK d \in Nat : \A i \in 1 .. Len(shown') : i + d \in 1 .. ls + lf /\ shown'[i] = g[i + d]
  <2>1. \E d \in Nat : \A i \in 1 .. Len(Trim(g)) : i + d \in 1 .. Len(g) /\ Trim(g)[i] = g[i + d]
    <3>1. g \in Seq(S) /\ ShowCap \in Nat \ {0}
      BY <1>1, <1>6
    <3> QED
      BY <3>1, TrimFacts, Zenon
  <2> QED
    BY <1>3, <1>6, <1>7, <2>1
<1>13. /\ shown' \in Seq(1 .. seq) /\ Len(shown') <= ShowCap
       /\ shown' # <<>> => Last(shown') = lastSeq'
  <2>1. /\ shown' \in Seq(S) /\ Len(shown') <= ShowCap
        /\ g # <<>> => Last(shown') = Last(g)
    BY <1>1, <1>3, <1>6, TrimFacts
  <2>2. g = <<>> => shown' = <<>>
    BY <1>1, <1>3, <1>6 DEF Trim
  <2> QED
    BY <1>5, <1>9, <2>1, <2>2
<1>14. \A i, j \in 1 .. Len(shown') : i < j => shown'[i] < shown'[j]
  <2>1. PICK n \in Nat : n = Len(shown')
    BY <1>13
  <2>2. \A i, j \in 1 .. n : i < j => i + d < j + d
    BY <1>12
  <2> QED
    BY <1>8, <1>12, <2>1, <2>2
<1>15. ShownInOrder'
  <2>1. \A i, j \in 1 .. Len(shown') : i < j => shown'[i] < shown'[j]
    BY <1>14
  <2> QED
    BY <1>13, <2>1 DEF ShownInOrder, Last
<1>16. ClearedIsPassed'
  <2>1. \A n \in cleared : n <= lastSeq'
    BY <1>1, <1>11 DEF EInv, TypeOK, ClearedIsPassed
  <2>2. \A n \in cleared : \A i \in 1 .. Len(shown') : n < shown'[i]
    BY <1>10, <1>12
  <2> QED
    BY <2>1, <2>2 DEF ClearedIsPassed
<1> QED
  BY <1>11, <1>13, <1>15, <1>16


-----------------------------------------------------------------------------
(* Steps.                                                                  *)

\* The messages there can be depend on the platform and on what was logged.
LEMMA SameMessages ==
  ASSUME UNCHANGED <<platform, seq>>
  PROVE  Messages' = Messages /\ StateBound' = StateBound
BY DEF Messages, StateBound

\* A step that leaves the screen alone keeps what is shown in order, and what
\* was cleared passed.
LEMMA ScreenKept ==
  ASSUME EInv, UNCHANGED <<lastSeq, shown, cleared>>
  PROVE  ShownInOrder' /\ ClearedIsPassed'
BY DEF EInv, ShownInOrder, ClearedIsPassed

\* The service's state changes, and is published.
LEMMA StateSteps ==
  ASSUME EInv, ChangeState \/ EmitState
  PROVE  EInv'
<1> USE DEF EInv
<1>1. UNCHANGED <<platform, seq, writing, subscribed, open, request, answer, looper, ui, lastSeq,
                  shown, pulls, cleared>>
  BY DEF ChangeState, EmitState, uiVars
<1>2. Messages' = Messages /\ StateBound' = StateBound
  BY <1>1, SameMessages
<1>3. ShownInOrder' /\ ClearedIsPassed'
  BY <1>1, ScreenKept
<1>4. state' \in 0 .. StateBound /\ emit' \in 0 .. StateBound
  BY Bounds DEF TypeOK, ChangeState, EmitState
<1>5. ring' \in Seq(Messages) /\ Len(ring') <= RingCap /\ dropped' \in BOOLEAN
  <2>1. CASE ChangeState
    BY <2>1 DEF ChangeState, TypeOK
  <2>2. CASE EmitState
    <3>1. Event("stateChanged", emit) \in Messages
      BY MessageMade DEF Event, States, TypeOK
    <3> QED
      BY <2>2, <3>1, PublishKeeps DEF EmitState
  <2> QED
    BY <2>1, <2>2
<1>6. TypeOK'
  BY <1>1, <1>2, <1>4, <1>5 DEF TypeOK
<1> QED
  BY <1>3, <1>6

\* An entry is numbered, and published.
LEMMA LogSteps ==
  ASSUME EInv, NEW w \in Writers, AppendLog(w) \/ WriteSinks(w)
  PROVE  EInv'
<1> USE DEF EInv
<1>1. UNCHANGED <<platform, state, emit, subscribed, open, request, answer, looper, ui, lastSeq,
                  shown, pulls, cleared>>
  BY DEF AppendLog, WriteSinks, uiVars
<1>2. ShownInOrder' /\ ClearedIsPassed'
  BY <1>1, ScreenKept
<1>3. CASE WriteSinks(w)
  <2>1. seq' = seq /\ writing' = [writing EXCEPT ![w] = 0] /\ Publish(Event("logAppended", writing[w]))
    BY <1>3 DEF WriteSinks
  <2>2. Messages' = Messages /\ StateBound' = StateBound
    BY <1>1, <2>1, SameMessages
  <2>3. writing[w] \in 1 .. seq
    BY <1>3, Bounds DEF WriteSinks, TypeOK
  <2>4. Event("logAppended", writing[w]) \in Messages
    <3>1. writing[w] - 1 \in 0 .. seq /\ writing[w] \in 0 .. seq
      BY <2>3, Bounds
    <3> QED
      BY <3>1, MessageMade DEF Event, Logs
  <2>5. ring' \in Seq(Messages) /\ Len(ring') <= RingCap /\ dropped' \in BOOLEAN
    BY <2>1, <2>4, PublishKeeps
  <2>6. writing' \in [Writers -> 0 .. seq]
    BY <2>1, Bounds DEF TypeOK
  <2>7. TypeOK'
    BY <1>1, <2>1, <2>2, <2>5, <2>6 DEF TypeOK
  <2> QED
    BY <1>2, <2>7
<1>4. CASE AppendLog(w)
  <2>1. /\ seq' = seq + 1 /\ seq < MaxLogs
        /\ writing' = [writing EXCEPT ![w] = seq + 1]
        /\ UNCHANGED <<ring, dropped>>
    BY <1>4 DEF AppendLog
  <2>2. 0 .. seq \subseteq 0 .. seq' /\ 1 .. seq \subseteq 1 .. seq' /\ seq' \in 0 .. MaxLogs
    BY <2>1, Bounds
  <2>3. StateBound' = StateBound /\ Messages \subseteq Messages'
    BY <1>1, <2>2 DEF StateBound, Messages
  <2>4. ring' \in Seq(Messages') /\ looper' \in Seq(Messages')
    BY <1>1, <2>1, <2>3, SeqGrows DEF TypeOK
  <2>5. shown' \in Seq(1 .. seq')
    BY <1>1, <2>2, SeqGrows DEF TypeOK
  <2>6. answer' \in [Kinds -> Messages'] /\ \A k \in Kinds : answer'[k].type = k
    BY <1>1, <2>3 DEF TypeOK
  <2>7. writing' \in [Writers -> 0 .. seq']
    <3>1. seq + 1 \in 0 .. seq'
      BY <2>1, Bounds
    <3> QED
      BY <2>1, <2>2, <3>1 DEF TypeOK
  <2>8. lastSeq' \in 0 .. seq' /\ cleared' \subseteq 1 .. seq'
    BY <1>1, <2>2 DEF TypeOK
  <2>9. TypeOK'
    BY <1>1, <2>1, <2>2, <2>3, <2>4, <2>5, <2>6, <2>7, <2>8 DEF TypeOK
  <2> QED
    BY <1>2, <2>9
<1> QED
  BY <1>3, <1>4

\* What the core answers is a message of the request's kind.
LEMMA AnswerFacts ==
  ASSUME TypeOK, NEW k \in Kinds
  PROVE  Answer(k) \in Messages /\ Answer(k).type = k
<1>1. CASE k = "subscribe"
  BY <1>1, MessageMade, Bounds DEF Answer, States
<1>2. CASE k = "getState"
  BY <1>2, MessageMade DEF Answer, States, TypeOK
<1>3. CASE k = "getLogs"
  <2>1. answer[k] \in Messages /\ answer[k].type \in Logs
    BY <1>3 DEF TypeOK, Logs
  <2>2. answer[k].lo \in 0 .. seq
    BY <2>1, MessageFacts
  <2>3. PICK lo, n : Since(answer[k].lo) = Message("getLogs", lo, n) /\ lo \in 0 .. seq /\ n \in 0 .. seq
    <3>1. PICK after \in 0 .. seq : after = answer[k].lo
      BY <2>2
    <3>2. PICK lo : lo = IF seq > after + LogMax THEN seq - LogMax ELSE after
      OBVIOUS
    <3>3. lo \in 0 .. seq
      BY <3>2, Bounds
    <3>4. PICK n : n = IF seq > lo + Page THEN lo + Page ELSE seq
      OBVIOUS
    <3>5. n \in 0 .. seq
      BY <3>3, <3>4, Bounds
    <3>6. Since(after) = Message("getLogs", lo, n)
      BY <3>2, <3>4 DEF Since
    <3> QED
      BY <3>1, <3>3, <3>5, <3>6
  <2>4. Answer(k) = Since(answer[k].lo)
    BY <1>3 DEF Answer
  <2> QED
    BY <1>3, <2>3, <2>4, MessageMade DEF Logs
<1> QED
  BY <1>1, <1>2, <1>3 DEF Kinds

\* A request is answered, or its answer posted.
LEMMA RequestSteps ==
  ASSUME EInv, NEW k \in Kinds, CallSync(k) \/ CallAsync(k) \/ PostAnswer(k)
  PROVE  EInv'
<1> USE DEF EInv
<1>1. UNCHANGED <<platform, state, emit, seq, writing, ring, open, ui, lastSeq, shown, pulls, dropped,
                  cleared>>
  BY DEF CallSync, CallAsync, PostAnswer, coreVars, uiVars
<1>2. Messages' = Messages /\ StateBound' = StateBound
  BY <1>1, SameMessages
<1>3. ShownInOrder' /\ ClearedIsPassed'
  BY <1>1, ScreenKept
<1>4. Answer(k) \in Messages /\ Answer(k).type = k
  BY AnswerFacts
<1>5. subscribed' \in BOOLEAN
  BY Zenon DEF CallSync, CallAsync, PostAnswer, coreVars, TypeOK
<1>6. request' \in [Kinds -> {"none", "sent", "done"}]
  BY DEF CallSync, CallAsync, PostAnswer, TypeOK
<1>7. answer' \in [Kinds -> Messages] /\ \A j \in Kinds : answer'[j].type = j
  <2>1. CASE answer' = answer
    BY <2>1 DEF TypeOK
  <2>2. CASE answer' = [answer EXCEPT ![k] = Answer(k)]
    BY <1>4, <2>2 DEF TypeOK
  <2> QED
    BY <2>1, <2>2 DEF CallSync, CallAsync, PostAnswer
<1>8. looper' \in Seq(Messages)
  <2>1. CASE CallSync(k)
    BY <1>4, <2>1 DEF CallSync
  <2>2. CASE CallAsync(k)
    BY <2>2 DEF CallAsync, TypeOK
  <2>3. CASE PostAnswer(k)
    BY <2>3 DEF PostAnswer, TypeOK
  <2> QED
    BY <2>1, <2>2, <2>3
<1>9. TypeOK'
  BY <1>1, <1>2, <1>5, <1>6, <1>7, <1>8 DEF TypeOK
<1> QED
  BY <1>3, <1>9

\* The ring is drained.
LEMMA PollStep ==
  ASSUME EInv, Poll
  PROVE  EInv'
<1> USE DEF EInv
<1>1. /\ UNCHANGED <<platform, state, emit, seq, writing, subscribed, request, answer, open, ui,
                     lastSeq, shown, pulls, dropped, cleared>>
      /\ ring' = <<>> /\ looper' = looper \o ring
  BY DEF Poll, coreVars, uiVars
<1>2. Messages' = Messages /\ StateBound' = StateBound
  BY <1>1, SameMessages
<1>3. ShownInOrder' /\ ClearedIsPassed'
  BY <1>1, ScreenKept
<1>4. looper' \in Seq(Messages)
  BY <1>1, ConcatProperties DEF TypeOK
<1>5. ring' \in Seq(Messages) /\ Len(ring') <= RingCap
  BY <1>1, Bounds DEF TypeOK
<1>6. TypeOK'
  BY <1>1, <1>2, <1>4, <1>5 DEF TypeOK
<1> QED
  BY <1>3, <1>6

\* The isolate handles a message.
LEMMA DeliverStep ==
  ASSUME EInv, Deliver
  PROVE  EInv'
<1> USE DEF EInv
<1>1. UNCHANGED <<platform, state, emit, seq, writing, subscribed, ring, request, answer, open, pulls,
                  dropped, cleared>>
  BY DEF Deliver, coreVars
<1>2. Messages' = Messages /\ StateBound' = StateBound
  BY <1>1, SameMessages
<1>3. PICK m \in Messages : m = Head(looper) /\ Handle(m) /\ looper' \in Seq(Messages)
  <2>1. looper \in Seq(Messages) /\ looper # <<>> /\ looper' = Tail(looper) /\ Handle(Head(looper))
    BY DEF Deliver, TypeOK
  <2>2. Head(looper) \in Messages /\ Tail(looper) \in Seq(Messages)
    BY <2>1, HeadTailProperties
  <2> QED
    BY <2>1, <2>2
<1>4. ui' \in 0 .. StateBound
  BY <1>3, MessageFacts DEF Handle, States, TypeOK
<1>5. /\ shown' \in Seq(1 .. seq') /\ Len(shown') <= ShowCap
      /\ lastSeq' \in 0 .. seq'
      /\ ShownInOrder'
      /\ ClearedIsPassed'
  <2>1. CASE m.type = "getLogs" \/ (m.type = "logAppended" /\ open)
    <3>1. Show(m.lo, m.n)
      BY <1>3, <2>1 DEF Handle
    <3>2. m.lo \in 0 .. seq /\ m.n \in 0 .. seq
      BY <2>1, MessageFacts DEF Logs
    <3> QED
      BY <1>1, <3>1, <3>2, ShowKeeps
  <2>2. CASE ~(m.type = "getLogs" \/ (m.type = "logAppended" /\ open))
    <3>1. UNCHANGED <<shown, lastSeq>>
      BY <1>3, <2>2 DEF Handle
    <3> QED
      BY <1>1, <3>1, ScreenKept DEF TypeOK
  <2> QED
    BY <2>1, <2>2
<1>6. TypeOK'
  BY <1>1, <1>2, <1>3, <1>4, <1>5 DEF TypeOK
<1> QED
  BY <1>5, <1>6

\* The user opens the log screen or refreshes it.
LEMMA PullStep ==
  ASSUME EInv, PullLogs
  PROVE  EInv'
<1> USE DEF EInv
<1>1. /\ UNCHANGED <<platform, state, emit, seq, writing, subscribed, ring, looper, ui, lastSeq, shown,
                     dropped, cleared>>
      /\ pulls' = pulls + 1 /\ pulls < MaxPulls
      /\ request' = [request EXCEPT !["getLogs"] = "sent"]
      /\ answer' = [answer EXCEPT !["getLogs"] = Message("getLogs", lastSeq, lastSeq)]
  BY DEF PullLogs, coreVars
<1>2. Messages' = Messages /\ StateBound' = StateBound
  BY <1>1, SameMessages
<1>3. ShownInOrder' /\ ClearedIsPassed'
  BY <1>1, ScreenKept
<1>4. open' \in BOOLEAN
  BY Zenon DEF PullLogs
<1>5. /\ Message("getLogs", lastSeq, lastSeq) \in Messages
      /\ Message("getLogs", lastSeq, lastSeq).type = "getLogs"
  BY MessageMade DEF Logs, TypeOK
<1>6. answer' \in [Kinds -> Messages] /\ \A j \in Kinds : answer'[j].type = j
  BY <1>1, <1>5 DEF TypeOK
<1>7. pulls' \in 0 .. MaxPulls /\ request' \in [Kinds -> {"none", "sent", "done"}]
  <2>1. MaxPulls \in Nat /\ pulls \in 0 .. MaxPulls
    BY EventsAssumption DEF TypeOK
  <2>2. pulls' \in 0 .. MaxPulls
    BY <1>1, <2>1
  <2>3. request' \in [Kinds -> {"none", "sent", "done"}]
    BY <1>1 DEF TypeOK
  <2> QED
    BY <2>2, <2>3
<1>8. TypeOK'
  BY <1>1, <1>2, <1>4, <1>6, <1>7 DEF TypeOK
<1> QED
  BY <1>3, <1>8

\* The user clears the list: the watermark is already at its last entry.
LEMMA ClearStep ==
  ASSUME EInv, Clear
  PROVE  EInv'
<1> USE DEF EInv
<1>1. /\ UNCHANGED <<platform, state, emit, seq, writing, subscribed, ring, request, answer, looper, ui,
                     open, pulls, dropped>>
      /\ shown # <<>> /\ shown' = <<>>
      /\ lastSeq' = lastSeq
      /\ cleared' = cleared \cup Range(shown)
  BY DEF Clear, coreVars, ShownInOrder
<1>2. Messages' = Messages /\ StateBound' = StateBound
  BY <1>1, SameMessages
<1>3. PICK S : S = 1 .. seq /\ S \subseteq Nat
  BY Bounds
<1>4. /\ Len(shown) \in Nat
      /\ DOMAIN shown = 1 .. Len(shown)
      /\ \A i \in 1 .. Len(shown) : shown[i] \in S
  <2>1. shown \in Seq(S)
    BY <1>3 DEF TypeOK
  <2> QED
    BY <2>1, LenProperties
<1>5. \A n \in Range(shown) : n \in S /\ n <= lastSeq
  <2> SUFFICES ASSUME NEW i \in 1 .. Len(shown) PROVE shown[i] \in S /\ shown[i] <= lastSeq
    BY <1>4 DEF Range
  <2>1. PICK len \in Nat : len = Len(shown)
    BY <1>4
  <2>2. len \in 1 .. len /\ shown[len] = lastSeq
    BY <1>1, <2>1 DEF ShownInOrder, Last
  <2>3. i = len \/ shown[i] < shown[len]
    <3>1. \A j, k \in 1 .. len : j < k => shown[j] < shown[k]
      BY <2>1 DEF ShownInOrder
    <3>2. i \in 1 .. len /\ (i = len \/ i < len)
      BY <2>1
    <3> QED
      BY <2>2, <3>1, <3>2
  <2>4. shown[i] \in Nat /\ shown[i] \in S /\ lastSeq \in Nat
    BY <1>3, <1>4, Bounds
  <2> QED
    BY <2>2, <2>3, <2>4
<1>6. cleared' \subseteq 1 .. seq
  BY <1>1, <1>3, <1>5 DEF TypeOK
<1>7. shown' \in Seq(1 .. seq) /\ Len(shown') <= ShowCap
  BY <1>1, Bounds
<1>8. TypeOK'
  BY <1>1, <1>2, <1>6, <1>7 DEF TypeOK
<1>9. ShownInOrder'
  BY <1>1 DEF ShownInOrder
<1>10. ClearedIsPassed'
  BY <1>1, <1>5 DEF ClearedIsPassed
<1> QED
  BY <1>8, <1>9, <1>10

-----------------------------------------------------------------------------
(* The theorems.                                                           *)

\* Every step keeps the invariant.
LEMMA EInvInductive == EInv /\ [Next]_vars => EInv'
<1> SUFFICES ASSUME EInv, [Next]_vars PROVE EInv'
  OBVIOUS
<1>1. CASE ChangeState \/ EmitState
  BY <1>1, StateSteps
<1>2. ASSUME NEW w \in Writers, AppendLog(w) \/ WriteSinks(w)
      PROVE  EInv'
  BY <1>2, LogSteps
<1>3. ASSUME NEW k \in Kinds, CallSync(k) \/ CallAsync(k) \/ PostAnswer(k)
      PROVE  EInv'
  BY <1>3, RequestSteps
<1>4. CASE Poll
  BY <1>4, PollStep
<1>5. CASE Deliver
  BY <1>5, DeliverStep
<1>6. CASE PullLogs
  BY <1>6, PullStep
<1>7. CASE Clear
  BY <1>7, ClearStep
<1>8. CASE UNCHANGED vars
  <2>1. Messages' = Messages /\ StateBound' = StateBound
    BY <1>8, SameMessages DEF vars
  <2>2. TypeOK'
    BY <1>8, <2>1 DEF vars, EInv, TypeOK
  <2>3. ShownInOrder' /\ ClearedIsPassed'
    BY <1>8, ScreenKept DEF vars
  <2> QED
    BY <2>2, <2>3 DEF EInv
<1> QED
  BY <1>1, <1>2, <1>3, <1>4, <1>5, <1>6, <1>7, <1>8 DEF Next

\* The initial states satisfy the invariant.
LEMMA EInvInit == Init => EInv
<1> SUFFICES ASSUME Init PROVE EInv
  OBVIOUS
<1>1. /\ platform \in Platforms /\ StateBound \in Nat /\ MaxLogs \in Nat /\ MaxPulls \in Nat
      /\ RingCap \in Nat /\ ShowCap \in Nat
  BY EventsAssumption DEF Init, StateBound
<1>2. state \in 0 .. StateBound /\ emit \in 0 .. StateBound /\ ui \in 0 .. StateBound
  BY <1>1 DEF Init
<1>3. seq \in 0 .. MaxLogs /\ seq \in Nat /\ writing \in [Writers -> 0 .. seq]
  BY <1>1 DEF Init
<1>4. subscribed \in BOOLEAN /\ open \in BOOLEAN /\ dropped \in BOOLEAN
  BY Zenon DEF Init
<1>5. /\ ring \in Seq(Messages) /\ Len(ring) <= RingCap
      /\ looper \in Seq(Messages)
      /\ shown \in Seq(1 .. seq) /\ Len(shown) <= ShowCap
      /\ lastSeq \in 0 .. seq /\ pulls \in 0 .. MaxPulls /\ cleared \subseteq 1 .. seq
  BY <1>1, <1>3 DEF Init
<1>6. request \in [Kinds -> {"none", "sent", "done"}]
  BY DEF Init
<1>7. answer \in [Kinds -> Messages] /\ \A k \in Kinds : answer[k].type = k
  <2>1. \A k \in Kinds : Message(k, 0, 0) \in Messages /\ Message(k, 0, 0).type = k
    BY <1>1, <1>3, MessageMade DEF Kinds, States, Logs
  <2> QED
    BY <2>1 DEF Init
<1>8. TypeOK
  BY <1>1, <1>2, <1>3, <1>4, <1>5, <1>6, <1>7 DEF TypeOK
<1>9. ShownInOrder /\ ClearedIsPassed
  BY DEF Init, ShownInOrder, ClearedIsPassed
<1> QED
  BY <1>8, <1>9 DEF EInv

\* LogsNotifier shows every entry at most once and in the order of their
\* numbers, with its watermark at the last one, and no buffer outgrows its
\* capacity, however pages, live events of concurrent writers and late
\* answers overlap.
THEOREM LogIsInOrder == Spec => []LogInv
<1>1. EInv => LogInv
  BY DEF EInv, LogInv
<1> QED
  BY <1>1, EInvInit, EInvInductive, PTL DEF Spec

\* What the user cleared is never shown again: not by a refresh, not by a page
\* requested before, not by an event that was still queued.
THEOREM ClearedNeverReturn == Spec => []ClearedStayGone
<1>1. EInv => ClearedStayGone
  <2> SUFFICES ASSUME EInv, NEW n \in cleared, n \in Range(shown) PROVE FALSE
    BY DEF ClearedStayGone
  <2>1. shown \in Seq(1 .. seq) /\ n \in Nat
    BY Bounds DEF EInv, TypeOK
  <2>2. PICK i \in 1 .. Len(shown) : shown[i] = n
    BY <2>1 DEF Range
  <2> QED
    BY <2>1, <2>2 DEF EInv, ClearedIsPassed
<1> QED
  BY <1>1, EInvInit, EInvInductive, PTL DEF Spec
=============================================================================
