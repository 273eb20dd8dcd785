--------------------------- MODULE MpscRingProofs ---------------------------
(***************************************************************************)
(* Proofs about MpscRing, for every size of the ring, any number of        *)
(* handlers and any events: the type invariant, that the ring implements   *)
(* BoundedQueue as long as no two pushes overlap, and that has_excp() can  *)
(* be relied on.                                                           *)
(*                                                                         *)
(* The argument is about distances on the ring: how many slots there are   *)
(* from one index forward to another.                                      *)
(***************************************************************************)
EXTENDS MpscRing, SequenceTheorems, TLAPS

\* The number of steps of next() from a to b.
dist(a, b) == IF b >= a THEN b - a ELSE CAP - a + b

\* A handler is alone in push(); nobody else moves head.
OnePusher ==
  /\ \A p, o \in Producers : ppc[p] # "idle" /\ ppc[o] # "idle" => p = o
  /\ \A p \in Producers : ppc[p] # "idle" => phead[p] = head

\* Once push() has found room there is room, and once it has written its
\* event the event stays in the slot.
PushHasRoom ==
  \A p \in Producers :
    /\ ppc[p] \in {"write", "store"} => dist(tail, head) < CAP - 1
    /\ ppc[p] = "store" => buf[head] = pval[p]

\* Only the worker moves tail.
TailIsRead == wpc # "idle" => wtail = tail

\* What the worker has read of the ring stays true.
WorkerIsRight ==
  /\ wpc \in {"pop_read", "pop_store"} => head # tail
  /\ wpc = "pop_store" => wval = buf[tail]
  /\ wpc = "clear_store" => dist(tail, whead) <= dist(tail, head)
  /\ hasExcp => head # tail

Alone == OnePusher /\ PushHasRoom /\ WorkerIsRight

Inv == TypeOK /\ TailIsRead /\ (~overlap => Alone)
-----------------------------------------------------------------------------
(***************************************************************************)
(* The indices.                                                            *)
(***************************************************************************)

\* next() goes one slot forward, around the end.
LEMMA NextValue ==
  ASSUME NEW i \in Index
  PROVE  /\ next(i) \in Index
         /\ next(i) = IF i = CAP - 1 THEN 0 ELSE i + 1
<1>1. CASE i = CAP - 1
  BY <1>1, CAPAssumption DEF Index, next
<1>2. CASE i # CAP - 1
  <2>1. i + 1 \in 0 .. CAP - 1
    BY <1>2, CAPAssumption DEF Index
  <2>2. (i + 1) % CAP = i + 1
    BY <2>1, CAPAssumption
  <2> QED
    BY <1>2, <2>1, <2>2 DEF Index, next
<1> QED
  BY <1>1, <1>2

\* len() is positive exactly between different indices, wrapped or not.
LEMMA LenValue ==
  ASSUME NEW h \in Index, NEW t \in Index
  PROVE  (len(h, t) > 0) = (h # t)
<1> USE CAPAssumption, UsizeModAssumption DEF Index
<1>1. CASE h >= t
  <2>1. (h + UsizeMod - t) % UsizeMod = h - t
    BY <1>1
  <2> QED
    BY <1>1, <2>1 DEF len
<1>2. CASE h < t
  <2>1. (h + UsizeMod - t) % UsizeMod = h + UsizeMod - t
    BY <1>2
  <2> QED
    BY <1>2, <2>1 DEF len
<1> QED
  BY <1>1, <1>2

-----------------------------------------------------------------------------
LEMMA InitInv == Init => Inv
<1> SUFFICES ASSUME Init PROVE Inv
  OBVIOUS
<1>1. 0 \in Index
  BY CAPAssumption DEF Index
<1>2. TypeOK /\ TailIsRead
  BY <1>1 DEF Init, TypeOK, TailIsRead, Slots, ProducerPc, WorkerPc
<1>3. Alone
  BY DEF Init, Alone, OnePusher, PushHasRoom, WorkerIsRight
<1> QED
  BY <1>2, <1>3 DEF Inv

LEMMA TypeStep == TypeOK /\ [Next]_vars => TypeOK'
<1> SUFFICES ASSUME TypeOK, [Next]_vars PROVE TypeOK'
  OBVIOUS
<1> USE DEF TypeOK, ring, producer, worker, ghost
<1>1. CASE WorkerStep
  <2>1. CASE PopTail \/ ClearTail \/ LenTail
    BY <2>1 DEF PopTail, ClearTail, LenTail, WorkerPc
  <2>2. CASE PopHead
    BY <2>2 DEF PopHead, WorkerPc
  <2>3. CASE PopRead
    BY <2>3 DEF PopRead, WorkerPc
  <2>4. CASE PopStore
    BY <2>4, NextValue DEF PopStore, WorkerPc
  <2>5. CASE ClearHead \/ ClearStore
    BY <2>5 DEF ClearHead, ClearStore, WorkerPc
  <2>6. CASE LenHead
    BY <2>6 DEF LenHead, WorkerPc
  <2> QED
    BY <1>1, <2>1, <2>2, <2>3, <2>4, <2>5, <2>6 DEF WorkerStep
<1>2. ASSUME NEW p \in Producers, PushStep(p) PROVE TypeOK'
  <2>1. CASE PushHead(p)
    BY <2>1 DEF PushHead, ProducerPc
  <2>2. CASE PushTail(p)
    BY <2>2 DEF PushTail, ProducerPc
  <2>3. CASE PushWrite(p)
    BY <2>3 DEF PushWrite, ProducerPc, Slots
  <2>4. CASE PushStore(p)
    BY <2>4, NextValue DEF PushStore, ProducerPc
  <2> QED
    BY <1>2, <2>1, <2>2, <2>3, <2>4 DEF PushStep
<1>3. CASE UNCHANGED vars
  BY <1>3 DEF vars
<1> QED
  BY <1>1, <1>2, <1>3 DEF Next

\* push() never moves tail, and a call of the worker begins by reading it.
LEMMA TailStep == TailIsRead /\ [Next]_vars => TailIsRead'
  BY DEF TailIsRead, Next, WorkerStep, PopTail, PopHead, PopRead, PopStore, ClearTail,
     ClearHead, ClearStore, LenTail, LenHead, PushStep, PushHead, PushTail, PushWrite,
     PushStore, vars, ring, producer, worker, ghost

-----------------------------------------------------------------------------
(***************************************************************************)
(* What the invariant says as long as pushes do not overlap.               *)
(***************************************************************************)

\* An overlap is remembered.
LEMMA OverlapStays == TypeOK /\ [Next]_vars /\ ~overlap' => ~overlap
<1> SUFFICES ASSUME TypeOK, [Next]_vars, ~overlap' PROVE ~overlap
  OBVIOUS
<1> USE DEF TypeOK, ring, producer, worker, ghost
<1>1. CASE WorkerStep
  BY <1>1 DEF WorkerStep, PopTail, PopHead, PopRead, PopStore, ClearTail, ClearHead,
     ClearStore, LenTail, LenHead
<1>2. ASSUME NEW p \in Producers, PushStep(p) PROVE ~overlap
  BY <1>2 DEF PushStep, PushHead, PushTail, PushWrite, PushStore
<1>3. CASE UNCHANGED vars
  BY <1>3 DEF vars
<1> QED
  BY <1>1, <1>2, <1>3 DEF Next

\* Moving head forward into a free slot, or tail up to an index before head.
LEMMA Distances ==
  ASSUME NEW a \in Index, NEW b \in Index
  PROVE  /\ dist(a, b) \in 0 .. CAP - 1
         /\ (dist(a, b) = 0) = (a = b)
         /\ (dist(a, b) < CAP - 1) = (next(b) # a)
         /\ next(b) # a => dist(a, next(b)) = dist(a, b) + 1
         /\ a # b => dist(next(a), b) = dist(a, b) - 1
         /\ \A m \in Index : dist(a, m) <= dist(a, b)
               => dist(m, b) = dist(a, b) - dist(a, m)
<1> USE CAPAssumption DEF Index, dist
<1>1. /\ dist(a, b) \in 0 .. CAP - 1
      /\ (dist(a, b) = 0) = (a = b)
  OBVIOUS
<1>2. /\ (dist(a, b) < CAP - 1) = (next(b) # a)
      /\ next(b) # a => dist(a, next(b)) = dist(a, b) + 1
  BY NextValue
<1>3. a # b => dist(next(a), b) = dist(a, b) - 1
  BY NextValue
<1>4. \A m \in Index : dist(a, m) <= dist(a, b)
        => dist(m, b) = dist(a, b) - dist(a, m)
  OBVIOUS
<1> QED
  BY <1>1, <1>2, <1>3, <1>4

\* push(), by a handler that nobody overtakes.
LEMMA PushAlone ==
  ASSUME TypeOK, Alone, NEW p \in Producers, PushStep(p), ~overlap'
  PROVE  Alone'
<1> USE DEF TypeOK, ring, producer, worker, ghost
<1>0. /\ UNCHANGED <<tail, wpc, wtail, whead, wval, hasExcp>>
      /\ \A o \in Producers \ {p} : /\ ppc'[o] = ppc[o]
                                    /\ phead'[o] = phead[o] /\ pval'[o] = pval[o]
  BY DEF PushStep, PushHead, PushTail, PushWrite, PushStore
<1>1. \A o \in Producers \ {p} : ppc[o] = "idle"
  <2>1. CASE PushHead(p)
    BY <2>1 DEF PushHead
  <2>2. CASE PushTail(p) \/ PushWrite(p) \/ PushStore(p)
    BY <2>2 DEF PushTail, PushWrite, PushStore, Alone, OnePusher
  <2> QED
    BY <2>1, <2>2 DEF PushStep
<1>2. CASE PushHead(p)
  <2>1. UNCHANGED <<buf, head>> /\ ppc'[p] = "tail?" /\ phead'[p] = head
    BY <1>2 DEF PushHead
  <2> QED
    BY <1>0, <1>1, <2>1 DEF Alone, OnePusher, PushHasRoom, WorkerIsRight
<1>3. CASE PushTail(p)
  <2>1. /\ UNCHANGED <<buf, head, phead, pval>> /\ phead[p] = head
        /\ ppc'[p] = IF next(head) = tail THEN "idle" ELSE "write"
    BY <1>3 DEF PushTail, Alone, OnePusher
  <2>2. next(head) # tail => dist(tail, head) < CAP - 1
    BY Distances
  <2>3. OnePusher'
    BY <1>0, <1>1, <2>1 DEF OnePusher
  <2>4. PushHasRoom'
    BY <1>0, <1>1, <2>1, <2>2 DEF PushHasRoom, dist
  <2>5. WorkerIsRight'
    BY <1>0, <2>1 DEF Alone, WorkerIsRight, dist
  <2> QED
    BY <2>3, <2>4, <2>5 DEF Alone
<1>4. CASE PushWrite(p)
  <2>1. /\ UNCHANGED <<head, phead, pval>> /\ phead[p] = head
        /\ ppc[p] = "write" /\ ppc'[p] = "store"
        /\ buf' = [buf EXCEPT ![head] = pval[p]]
    BY <1>4 DEF PushWrite, Alone, OnePusher
  <2>2. dist(tail, head) < CAP - 1 /\ buf'[head] = pval[p]
    BY <2>1 DEF Alone, PushHasRoom
  <2>3. OnePusher'
    BY <1>0, <1>1, <2>1 DEF OnePusher
  <2>4. PushHasRoom'
    BY <1>0, <1>1, <2>1, <2>2 DEF PushHasRoom, dist
  <2>5. wpc = "pop_store" => buf'[tail] = buf[tail]
    BY <2>1 DEF Alone, WorkerIsRight
  <2>6. WorkerIsRight'
    BY <1>0, <2>1, <2>5 DEF Alone, WorkerIsRight, dist
  <2> QED
    BY <2>3, <2>4, <2>6 DEF Alone
<1>5. CASE PushStore(p)
  <2>1. /\ UNCHANGED <<buf, phead, pval>> /\ phead[p] = head
        /\ ppc[p] = "store" /\ ppc'[p] = "idle" /\ head' = next(head)
    BY <1>5 DEF PushStore, Alone, OnePusher
  <2>2. next(head) # tail /\ dist(tail, head') = dist(tail, head) + 1
    BY <2>1, Distances DEF Alone, PushHasRoom
  <2>3. OnePusher' /\ PushHasRoom'
    BY <1>0, <1>1, <2>1 DEF OnePusher, PushHasRoom
  <2>4. wpc = "clear_store" => dist(tail, whead) <= dist(tail, head')
    BY <2>2, Distances DEF Alone, WorkerIsRight
  <2>5. WorkerIsRight'
    BY <1>0, <2>1, <2>2, <2>4 DEF Alone, WorkerIsRight, dist
  <2> QED
    BY <2>3, <2>5 DEF Alone
<1> QED
  BY <1>2, <1>3, <1>4, <1>5 DEF PushStep

\* The worker's calls, beside whatever push() is doing.
LEMMA WorkerAlone ==
  ASSUME TypeOK, TailIsRead, Alone, WorkerStep
  PROVE  Alone'
<1> USE DEF TypeOK, TailIsRead, ring, producer, worker, ghost
<1>1. UNCHANGED <<buf, head, ppc, phead, pval>> /\ OnePusher'
  BY DEF WorkerStep, PopTail, PopHead, PopRead, PopStore, ClearTail, ClearHead,
     ClearStore, LenTail, LenHead, Alone, OnePusher
<1>2. CASE PopTail \/ PopHead \/ PopRead \/ ClearTail \/ LenTail
  <2>1. UNCHANGED <<tail, hasExcp>>
    BY <1>2 DEF PopTail, PopHead, PopRead, ClearTail, LenTail
  <2>2. PushHasRoom'
    BY <1>1, <2>1 DEF Alone, PushHasRoom, dist
  <2>3. WorkerIsRight'
    BY <1>1, <1>2, <2>1 DEF PopTail, PopHead, PopRead, ClearTail, LenTail, Alone,
       WorkerIsRight
  <2> QED
    BY <1>1, <2>2, <2>3 DEF Alone
<1>3. CASE ClearHead \/ LenHead
  <2>1. UNCHANGED <<tail, wtail>> /\ wtail = tail
    BY <1>3 DEF ClearHead, LenHead, Alone, WorkerIsRight
  <2>2. PushHasRoom'
    BY <1>1, <2>1 DEF Alone, PushHasRoom, dist
  <2>3. CASE ClearHead
    <3>1. dist(tail', whead') <= dist(tail', head')
      BY <1>1, <2>1, <2>3, Distances DEF ClearHead
    <3> QED
      BY <1>1, <2>1, <2>2, <2>3, <3>1 DEF ClearHead, Alone, WorkerIsRight
  <2>4. CASE LenHead
    BY <1>1, <2>1, <2>2, <2>4, LenValue DEF LenHead, Alone, WorkerIsRight
  <2> QED
    BY <1>3, <2>3, <2>4
<1>4. CASE PopStore
  <2>1. tail # head /\ tail' = next(tail) /\ wpc' = "idle" /\ hasExcp' = FALSE
    BY <1>4 DEF PopStore, Alone, WorkerIsRight
  <2>2. tail' \in Index /\ dist(tail', head) = dist(tail, head) - 1
    BY <2>1, NextValue, Distances
  <2>3. dist(tail, head) \in Int
    BY Distances
  <2>4. PushHasRoom'
    BY <1>1, <2>2, <2>3, CAPAssumption DEF Alone, PushHasRoom, dist
  <2>5. WorkerIsRight'
    BY <2>1 DEF WorkerIsRight
  <2> QED
    BY <1>1, <2>4, <2>5 DEF Alone
<1>5. CASE ClearStore
  <2>1. /\ tail' = whead /\ wpc' = "idle" /\ hasExcp' = FALSE
        /\ dist(tail, whead) <= dist(tail, head)
    BY <1>5 DEF ClearStore, Alone, WorkerIsRight
  <2>2. dist(tail', head) = dist(tail, head) - dist(tail, whead)
    BY <2>1, Distances
  <2>3. dist(tail, head) \in Nat /\ dist(tail, whead) \in Nat
    BY Distances, CAPAssumption
  <2>4. PushHasRoom'
    BY <1>1, <2>2, <2>3, CAPAssumption DEF Alone, PushHasRoom, dist
  <2>5. WorkerIsRight'
    BY <2>1 DEF WorkerIsRight
  <2> QED
    BY <1>1, <2>4, <2>5 DEF Alone
<1> QED
  BY <1>2, <1>3, <1>4, <1>5 DEF WorkerStep

LEMMA NextInv == Inv /\ [Next]_vars => Inv'
<1> SUFFICES ASSUME Inv, [Next]_vars PROVE Inv'
  OBVIOUS
<1>1. /\ TypeOK /\ TypeOK'
      /\ TailIsRead /\ TailIsRead'
  BY TypeStep, TailStep DEF Inv
<1>2. ASSUME ~overlap' PROVE Alone'
  <2>1. Alone
    BY <1>1, <1>2, OverlapStays DEF Inv
  <2>2. CASE UNCHANGED vars
    BY <2>1, <2>2 DEF vars, ring, producer, worker, ghost, Alone, OnePusher, PushHasRoom,
       WorkerIsRight, dist
  <2> QED
    BY <1>1, <1>2, <2>1, <2>2, WorkerAlone, PushAlone DEF Next
<1> QED
  BY <1>1, <1>2 DEF Inv

LEMMA Invariance == Spec => []Inv
  BY InitInv, NextInv, PTL DEF Spec

\* head and tail never leave the buffer, overlapping pushes or not.
THEOREM TypeCorrectness == Spec => []TypeOK
<1>1. Inv => TypeOK
  BY DEF Inv
<1> QED
  BY <1>1, Invariance, PTL

-----------------------------------------------------------------------------
(***************************************************************************)
(* The events in the slots from t up to h, oldest first, and what a push,  *)
(* a pop and a clear do to them.                                           *)
(***************************************************************************)
slotAt(t, i) == IF t + i <= CAP THEN t + i - 1 ELSE t + i - 1 - CAP
events(b, t, h) == [i \in 1 .. dist(t, h) |-> b[slotAt(t, i)]]

LEMMA ContentsAreEvents ==
  /\ contents = events(buf, tail, head)
  /\ contents' = events(buf', tail', head')
BY DEF contents, events, Size, Slot, slotAt, dist

\* The slots on the way from t to h are in the buffer; the next one is h.
LEMMA Slots0 ==
  ASSUME NEW t \in Index, NEW h \in Index
  PROVE  /\ \A i \in 1 .. dist(t, h) : slotAt(t, i) \in Index /\ slotAt(t, i) # h
         /\ slotAt(t, dist(t, h) + 1) = h
         /\ t # h => slotAt(t, 1) = t
BY CAPAssumption DEF Index, slotAt, dist

LEMMA EventsType ==
  ASSUME NEW b \in [Index -> Slots], NEW t \in Index, NEW h \in Index
  PROVE  /\ events(b, t, h) \in Seq(Slots)
         /\ Len(events(b, t, h)) = dist(t, h)
         /\ \A i \in 1 .. dist(t, h) : events(b, t, h)[i] = b[slotAt(t, i)]
         /\ (events(b, t, h) = <<>>) = (t = h)
<1> DEFINE n == dist(t, h)
           e == events(b, t, h)
<1>1. n \in Nat /\ (n = 0) = (t = h)
  BY Distances, CAPAssumption
<1>2. e \in [1 .. n -> Slots]
  BY Slots0 DEF events
<1>3. e \in Seq(Slots) /\ Len(e) = n
  BY <1>1, <1>2
<1>4. (e = <<>>) = (n = 0)
  BY <1>3, EmptySeq
<1> QED
  BY <1>1, <1>3, <1>4 DEF events

\* e is what is in the slots from t to h.
Listed(e, b, t, h) ==
  /\ e \in Seq(Slots) /\ Len(e) = dist(t, h)
  /\ \A i \in 1 .. dist(t, h) : e[i] = b[slotAt(t, i)]

LEMMA EventsListed ==
  \A b \in [Index -> Slots] : \A t, h \in Index : Listed(events(b, t, h), b, t, h)
BY EventsType DEF Listed

\* push() writes only outside of them.
LEMMA EventsWrite ==
  ASSUME NEW b \in [Index -> Slots], NEW t \in Index, NEW h \in Index, NEW v
  PROVE  events([b EXCEPT ![h] = v], t, h) = events(b, t, h)
BY Slots0 DEF events

LEMMA EventsPush ==
  ASSUME NEW b \in [Index -> Slots], NEW t \in Index, NEW h \in Index, next(h) # t
  PROVE  events(b, t, next(h)) = Append(events(b, t, h), b[h])
<1> DEFINE e == events(b, t, h)
           f == events(b, t, next(h))
<1>1. /\ e \in Seq(Slots) /\ f \in Seq(Slots)
      /\ Len(e) = dist(t, h) /\ Len(f) = dist(t, h) + 1 /\ dist(t, h) \in Nat
      /\ \A i \in 1 .. dist(t, h) : e[i] = b[slotAt(t, i)]
      /\ \A i \in 1 .. dist(t, h) + 1 : f[i] = b[slotAt(t, i)]
  <2>1. next(h) \in Index /\ dist(t, next(h)) = dist(t, h) + 1 /\ dist(t, h) \in Nat
    BY NextValue, Distances, CAPAssumption
  <2>2. /\ e \in Seq(Slots) /\ Len(e) = dist(t, h)
        /\ \A i \in 1 .. dist(t, h) : e[i] = b[slotAt(t, i)]
    BY EventsListed, Zenon DEF Listed
  <2>3. /\ f \in Seq(Slots) /\ Len(f) = dist(t, next(h))
        /\ \A i \in 1 .. dist(t, next(h)) : f[i] = b[slotAt(t, i)]
    BY <2>1, EventsListed, Zenon DEF Listed
  <2> HIDE DEF e, f
  <2> QED
    BY <2>1, <2>2, <2>3
<1>2. b[h] \in Slots
  OBVIOUS
<1> HIDE DEF e, f
<1>3. /\ Append(e, b[h]) \in Seq(Slots) /\ Len(Append(e, b[h])) = dist(t, h) + 1
      /\ \A i \in 1 .. dist(t, h) : Append(e, b[h])[i] = e[i]
      /\ Append(e, b[h])[dist(t, h) + 1] = b[h]
  BY <1>1, <1>2, AppendProperties
<1>4. ASSUME NEW i \in 1 .. Len(f) PROVE f[i] = Append(e, b[h])[i]
  <2>1. f[i] = b[slotAt(t, i)]
    BY <1>1
  <2>2. CASE i \in 1 .. dist(t, h)
    BY <1>1, <1>3, <2>1, <2>2
  <2>3. CASE i = dist(t, h) + 1
    BY <2>1, <2>3, <1>3, Slots0
  <2> QED
    BY <1>1, <2>2, <2>3
<1>5. f = Append(e, b[h])
  BY <1>1, <1>3, <1>4, SeqEqual
<1> QED
  BY <1>5 DEF e, f

\* clear() drops the events in front of m.
LEMMA EventsDrop ==
  ASSUME NEW b \in [Index -> Slots], NEW t \in Index, NEW h \in Index,
         NEW m \in Index, dist(t, m) <= dist(t, h)
  PROVE  events(b, m, h) = SubSeq(events(b, t, h), dist(t, m) + 1, dist(t, h))
<1> DEFINE e == events(b, t, h)
           f == events(b, m, h)
           k == dist(t, m)
           n == dist(t, h)
           g == SubSeq(e, k + 1, n)
<1>1. /\ k \in Nat /\ n \in Nat /\ k <= n /\ dist(m, h) = n - k
      /\ e \in Seq(Slots) /\ Len(e) = n /\ f \in Seq(Slots) /\ Len(f) = n - k
      /\ \A i \in 1 .. n : e[i] = b[slotAt(t, i)]
      /\ \A i \in 1 .. n - k : f[i] = b[slotAt(m, i)]
  <2>1. k \in Nat /\ n \in Nat /\ dist(m, h) = n - k
    BY Distances, CAPAssumption
  <2>2. e \in Seq(Slots) /\ Len(e) = n /\ \A i \in 1 .. n : e[i] = b[slotAt(t, i)]
    BY EventsListed, Zenon DEF Listed
  <2>3. /\ f \in Seq(Slots) /\ Len(f) = dist(m, h)
        /\ \A i \in 1 .. dist(m, h) : f[i] = b[slotAt(m, i)]
    BY EventsListed, Zenon DEF Listed
  <2> HIDE DEF e, f
  <2> QED
    BY <2>1, <2>2, <2>3
<1>2. \A i \in 1 .. n - k : slotAt(m, i) = slotAt(t, k + i)
  BY CAPAssumption DEF Index, slotAt, dist
<1>3. \A i \in k + 1 .. n : e[i] \in Slots
  BY <1>1, ElementOfSeq
<1>4. /\ g \in Seq(Slots) /\ Len(g) = n - k
      /\ \A i \in 1 .. n - k : g[i] = e[k + i]
  <2> HIDE DEF e, f, k, n
  <2>1. /\ g \in Seq(Slots)
        /\ Len(g) = IF k + 1 <= n THEN n - (k + 1) + 1 ELSE 0
        /\ \A i \in 1 .. n - (k + 1) + 1 : g[i] = e[k + 1 + i - 1]
    BY <1>1, <1>3, SubSeqProperties
  <2> QED
    BY <1>1, <2>1
<1>5. ASSUME NEW i \in 1 .. n - k PROVE f[i] = g[i]
  <2> HIDE DEF e, f, k, n, g
  <2>1. k + i \in 1 .. n
    BY <1>1
  <2> QED
    BY <1>1, <1>2, <1>4, <2>1
<1> QED
  <2> HIDE DEF e, f, k, n, g
  <2>1. f = g
    BY <1>1, <1>4, <1>5, SeqEqual
  <2> QED
    BY <2>1 DEF e, f, k, n, g

LEMMA EventsPop ==
  ASSUME NEW b \in [Index -> Slots], NEW t \in Index, NEW h \in Index, t # h
  PROVE  /\ events(b, next(t), h) = Tail(events(b, t, h))
         /\ Head(events(b, t, h)) = b[t]
<1> DEFINE e == events(b, t, h)
<1>1. e \in Seq(Slots) /\ e # <<>> /\ Len(e) = dist(t, h) /\ dist(t, h) \in Nat \ {0}
  <2>1. dist(t, h) \in Nat \ {0}
    BY Distances, CAPAssumption
  <2>2. e \in Seq(Slots) /\ Len(e) = dist(t, h)
    BY EventsListed, Zenon DEF Listed
  <2> HIDE DEF e
  <2> QED
    BY <2>1, <2>2
<1>2. next(t) \in Index /\ dist(t, next(t)) = 1
  <2>1. next(t) \in Index /\ next(t) = IF t = CAP - 1 THEN 0 ELSE t + 1
    BY NextValue
  <2> QED
    BY <2>1, CAPAssumption DEF Index, dist
<1>3. events(b, next(t), h) = SubSeq(e, 2, Len(e))
  <2>1. dist(t, next(t)) <= dist(t, h)
    BY <1>1, <1>2
  <2>2. events(b, next(t), h) = SubSeq(e, dist(t, next(t)) + 1, dist(t, h))
    BY <1>2, <2>1, EventsDrop, Zenon
  <2> HIDE DEF e
  <2> QED
    BY <1>1, <1>2, <2>2
<1>4. e[1] = b[t]
  <2>1. \A i \in 1 .. dist(t, h) : e[i] = b[slotAt(t, i)]
    BY EventsListed, Zenon DEF Listed
  <2>2. slotAt(t, 1) = t
    BY Slots0
  <2> HIDE DEF e
  <2> QED
    BY <1>1, <2>1, <2>2
<1> HIDE DEF e
<1>5. Tail(e) = SubSeq(e, 2, Len(e)) /\ Head(e) = e[1]
  BY <1>1, TailIsSubSeq
<1> QED
  BY <1>3, <1>4, <1>5 DEF e

-----------------------------------------------------------------------------
(***************************************************************************)
(* The ring implements the bounded queue, and has_excp() is right.         *)
(***************************************************************************)
LEMMA QueueInit == Init => Queue!Init
<1> SUFFICES ASSUME Init PROVE contents = <<>>
  BY DEF Queue!Init
<1>1. TypeOK /\ head = tail
  BY InitInv DEF Inv, Init
<1> QED
  BY <1>1, ContentsAreEvents, EventsType DEF TypeOK

\* A step is a push, pop or clear of the queue, or none of its steps.
LEMMA QueueStep == Inv /\ [Next]_vars => [overlap' \/ Queue!Next]_(Queue!vars)
<1> SUFFICES ASSUME Inv, [Next]_vars, ~overlap'
             PROVE  Queue!Next \/ UNCHANGED <<contents, out>>
  BY DEF Queue!vars
<1> DEFINE q == events(buf, tail, head)
<1>1. TypeOK /\ TailIsRead /\ Alone
  BY OverlapStays DEF Inv
<1>2. contents = q /\ contents' = events(buf', tail', head')
  BY ContentsAreEvents
<1>3. /\ q \in Seq(Slots) /\ Len(q) = dist(tail, head) /\ (q = <<>>) = (tail = head)
      /\ dist(tail, head) \in Nat
  <2>1. buf \in [Index -> Slots] /\ tail \in Index /\ head \in Index
    BY <1>1 DEF TypeOK
  <2>2. dist(tail, head) \in Nat
    BY <2>1, Distances, CAPAssumption
  <2> QED
    BY <2>1, <2>2, EventsType
<1> USE DEF ring, producer, worker, ghost
<1>4. CASE UNCHANGED <<ring, out>>
  BY <1>2, <1>4
<1>5. ASSUME NEW p \in Producers, PushWrite(p) PROVE UNCHANGED <<contents, out>>
  <2>1. UNCHANGED <<tail, head, out>> /\ buf' = [buf EXCEPT ![head] = pval[p]]
    BY <1>1, <1>5 DEF PushWrite, Alone, OnePusher
  <2>2. events([buf EXCEPT ![head] = pval[p]], tail, head) = q
    <3>1. buf \in [Index -> Slots] /\ tail \in Index /\ head \in Index
      BY <1>1 DEF TypeOK
    <3> QED
      BY <3>1, EventsWrite, Zenon
  <2> QED
    BY <1>2, <2>1, <2>2, Zenon
<1>6. ASSUME NEW p \in Producers, PushStore(p) PROVE Queue!Push
  <2>1. UNCHANGED <<buf, tail, out>> /\ head' = next(head) /\ ppc[p] = "store"
    BY <1>1, <1>6 DEF PushStore, Alone, OnePusher
  <2>2. dist(tail, head) < CAP - 1 /\ buf[head] = pval[p] /\ pval[p] \in Value
    BY <1>1, <2>1 DEF Alone, PushHasRoom, TypeOK
  <2>3. next(head) # tail
    BY <1>1, <2>2, Distances DEF TypeOK
  <2>4. contents' = Append(contents, pval[p])
    BY <1>1, <1>2, <2>1, <2>2, <2>3, EventsPush DEF TypeOK
  <2> QED
    BY <1>2, <1>3, <2>1, <2>2, <2>4 DEF Queue!Push
<1>7. CASE PopStore
  <2>1. UNCHANGED <<buf, head>> /\ tail' = next(tail) /\ out' = buf[tail] /\ head # tail
    BY <1>1, <1>7 DEF PopStore, TailIsRead, Alone, WorkerIsRight
  <2>2. contents' = Tail(contents) /\ out' = Head(contents) /\ contents # <<>>
    BY <1>1, <1>2, <1>3, <2>1, EventsPop DEF TypeOK
  <2> QED
    BY <2>2 DEF Queue!Next, Queue!Pop
<1>8. CASE ClearStore
  <2>1. /\ UNCHANGED <<buf, head, out>> /\ tail' = whead
        /\ dist(tail, whead) <= dist(tail, head)
    BY <1>1, <1>8 DEF ClearStore, Alone, WorkerIsRight
  <2>2. /\ dist(tail, whead) \in Nat
        /\ (dist(tail, whead) = 0) = (tail = whead)
    BY <1>1, Distances, CAPAssumption DEF TypeOK
  <2>3. contents' = SubSeq(contents, dist(tail, whead) + 1, Len(contents))
    BY <1>1, <1>2, <1>3, <2>1, EventsDrop DEF TypeOK
  <2>4. CASE tail = whead
    BY <1>2, <2>1, <2>4
  <2>5. CASE tail # whead
    <3>1. dist(tail, whead) \in 1 .. Len(contents)
      BY <1>2, <1>3, <2>1, <2>2, <2>5
    <3> QED
      BY <2>1, <2>3, <3>1 DEF Queue!Next, Queue!Clear
  <2> QED
    BY <2>4, <2>5
<1>9. CASE WorkerStep
  <2>1. CASE \/ PopTail \/ PopHead \/ PopRead \/ ClearTail \/ ClearHead
             \/ LenTail \/ LenHead
    BY <1>4, <2>1 DEF PopTail, PopHead, PopRead, ClearTail, ClearHead, LenTail, LenHead
  <2> QED
    BY <1>7, <1>8, <1>9, <2>1 DEF WorkerStep
<1>10. ASSUME NEW p \in Producers, PushStep(p)
       PROVE  Queue!Next \/ UNCHANGED <<contents, out>>
  <2>1. CASE PushHead(p) \/ PushTail(p)
    BY <1>4, <2>1 DEF PushHead, PushTail
  <2> QED
    BY <1>5, <1>6, <1>10, <2>1 DEF PushStep, Queue!Next
<1>11. CASE UNCHANGED vars
  BY <1>4, <1>11 DEF vars
<1> QED
  BY <1>9, <1>10, <1>11 DEF Next

\* As long as no two handlers are in push() at once, the ring behaves as a
\* bounded queue, whatever its size, its handlers and their events.
THEOREM RingIsQueue == Spec => QueueSpec
<1>1. Spec => Queue!Init
  BY QueueInit DEF Spec
<1>2. Spec => [][overlap' \/ Queue!Next]_(Queue!vars)
  BY QueueStep, Invariance, PTL DEF Spec
<1> QED
  BY <1>1, <1>2 DEF QueueSpec

\* has_excp() says yes exactly if there is an event, and until the worker
\* takes events out there stays one.
THEOREM HasExcpTells == Spec => HasExcpIsRight
<1> DEFINE Step == /\ wpc = "len_head" /\ wpc' = "idle" => hasExcp' = (contents # <<>>)
                   /\ hasExcp' /\ ~overlap' => contents' # <<>>
<1>1. Inv /\ Inv' /\ [Next]_vars => [Step]_vars
  <2> SUFFICES ASSUME Inv, Inv', Next PROVE Step
    OBVIOUS
  <2>1. TypeOK /\ TypeOK'
    BY DEF Inv
  <2>2. (contents = <<>>) = (tail = head)
    <3>1. buf \in [Index -> Slots] /\ tail \in Index /\ head \in Index
      BY <2>1 DEF TypeOK
    <3>2. (events(buf, tail, head) = <<>>) = (tail = head)
      BY <3>1, EventsType
    <3> QED
      BY <3>2, ContentsAreEvents
  <2>3. (contents' = <<>>) = (tail' = head')
    <3>1. buf' \in [Index -> Slots] /\ tail' \in Index /\ head' \in Index
      BY <2>1 DEF TypeOK
    <3>2. (events(buf', tail', head') = <<>>) = (tail' = head')
      BY <3>1, EventsType
    <3> QED
      BY <3>2, ContentsAreEvents
  <2>4. ASSUME wpc = "len_head", wpc' = "idle" PROVE hasExcp' = (contents # <<>>)
    <3>1. LenHead
      BY <2>4 DEF Next, WorkerStep, PushStep, PopTail, PopHead, PopRead, PopStore,
         ClearTail, ClearHead, ClearStore, LenTail, PushHead, PushTail, PushWrite,
         PushStore, worker
    <3>2. wtail = tail
      BY <2>4 DEF Inv, TailIsRead
    <3> QED
      BY <2>1, <2>2, <3>1, <3>2, LenValue DEF LenHead, TypeOK
  <2>5. ASSUME hasExcp', ~overlap' PROVE contents' # <<>>
    BY <2>3, <2>5 DEF Inv, Alone, WorkerIsRight
  <2> QED
    BY <2>4, <2>5
<1>2. Spec => [][Step]_vars
  BY <1>1, Invariance, PTL DEF Spec
<1> QED
  BY <1>2 DEF HasExcpIsRight
=============================================================================
