------------------------------ MODULE MpscRing ------------------------------
(***************************************************************************)
(* The ring that carries exception events from the exception handlers to   *)
(* the gdb worker (vita-gdb/src/kernel/mpsc.rs), with its contents.        *)
(*                                                                         *)
(* push() runs in the handlers, on any core; pop(), len() and clear() in   *)
(* the worker.  Each load and store of head and tail and each access to a  *)
(* slot is a step.  push() takes no lock, so two of them may overlap; the  *)
(* ghost `overlap` remembers that it happened.  DebugSession models what   *)
(* the handlers and the worker do around these calls.                      *)
(***************************************************************************)
EXTENDS Naturals, Sequences

CONSTANTS Value,      \* the exception events
          Producers,  \* the handlers that push
          CAP,        \* the ring's size; it holds one event less
          Uninit,     \* MaybeUninit::uninit()
          UsizeMod    \* 2^w for the machine's word

ASSUME CAPAssumption == CAP \in Nat \ {0, 1}
ASSUME UninitAssumption == Uninit \notin Value
ASSUME UsizeModAssumption == UsizeMod \in Nat /\ UsizeMod > CAP

VARIABLES
  buf, head, tail,     \* MpscRing
  ppc, phead, pval,    \* push(): where it is, its locals head and s
  wpc, wtail, whead,   \* the worker: where it is, its locals tail and head
  wval,                \* pop()'s local s
  out,                 \* the event the last pop() returned
  hasExcp,             \* has_excp() said yes and nothing was taken since
  overlap              \* two pushes have been under way at once

ring     == <<buf, head, tail>>
producer == <<ppc, phead, pval>>
worker   == <<wpc, wtail, whead, wval>>
ghost    == <<out, hasExcp, overlap>>
vars     == <<ring, producer, worker, ghost>>

Index == 0 .. CAP - 1
Slots == Value \cup {Uninit}

ProducerPc == {"idle", "tail?", "write", "store"}
WorkerPc   == {"idle", "pop_head", "pop_read", "pop_store", "clear_head",
               "clear_store", "len_head"}

\* Mutant of next: the index runs past the end before it wraps.
nextLate(i) == (i + 1) % (CAP + 1)

next(i) == (i + 1) % CAP

Init ==
  /\ buf = [i \in Index |-> Uninit] /\ head = 0 /\ tail = 0
  /\ ppc = [p \in Producers |-> "idle"]
  /\ phead = [p \in Producers |-> 0]
  /\ pval \in [Producers -> Value]
  /\ wpc = "idle" /\ wtail = 0 /\ whead = 0 /\ wval = Uninit
  /\ out = Uninit /\ hasExcp = FALSE /\ overlap = FALSE

-----------------------------------------------------------------------------
(***************************************************************************)
(* push.                                                                   *)
(***************************************************************************)
PushHead(p) ==
  /\ ppc[p] = "idle"
  /\ phead' = [phead EXCEPT ![p] = head]
  /\ \E v \in Value : pval' = [pval EXCEPT ![p] = v]
  /\ ppc' = [ppc EXCEPT ![p] = "tail?"]
  /\ overlap' = (overlap \/ \E o \in Producers \ {p} : ppc[o] # "idle")
  /\ UNCHANGED <<ring, worker, out, hasExcp>>

\* Mutant of PushTail: the last free slot is used too.
PushTailUnchecked(p) ==
  /\ ppc[p] = "tail?"
  /\ ppc' = [ppc EXCEPT ![p] = "write"]
  /\ UNCHANGED <<ring, phead, pval, worker, ghost>>

\* Full: push returns false and the event is lost.
PushTail(p) ==
  /\ ppc[p] = "tail?"
  /\ ppc' = [ppc EXCEPT ![p] = IF next(phead[p]) = tail THEN "idle" ELSE "write"]
  /\ UNCHANGED <<ring, phead, pval, worker, ghost>>

PushWrite(p) ==
  /\ ppc[p] = "write"
  /\ buf' = [buf EXCEPT ![phead[p]] = pval[p]]
  /\ ppc' = [ppc EXCEPT ![p] = "store"]
  /\ UNCHANGED <<head, tail, phead, pval, worker, ghost>>

PushStore(p) ==
  /\ ppc[p] = "store"
  /\ head' = next(phead[p])
  /\ ppc' = [ppc EXCEPT ![p] = "idle"]
  /\ UNCHANGED <<buf, tail, phead, pval, worker, ghost>>

-----------------------------------------------------------------------------
(***************************************************************************)
(* pop.                                                                    *)
(***************************************************************************)
PopTail ==
  /\ wpc = "idle"
  /\ wtail' = tail
  /\ wpc' = "pop_head"
  /\ UNCHANGED <<ring, producer, whead, wval, ghost>>

PopHead ==
  /\ wpc = "pop_head"
  /\ wpc' = IF wtail = head THEN "idle" ELSE "pop_read"
  /\ UNCHANGED <<ring, producer, wtail, whead, wval, ghost>>

PopRead ==
  /\ wpc = "pop_read"
  /\ wval' = buf[wtail]
  /\ wpc' = "pop_store"
  /\ UNCHANGED <<ring, producer, wtail, whead, ghost>>

PopStore ==
  /\ wpc = "pop_store"
  /\ tail' = next(wtail)
  /\ out' = wval
  /\ hasExcp' = FALSE
  /\ wpc' = "idle"
  /\ UNCHANGED <<buf, head, producer, wtail, whead, wval, overlap>>

(***************************************************************************)
(* clear, from reset().  An event needs no destructor, so the loop over    *)
(* the slots leaves nothing behind; a push may land before the store.      *)
(***************************************************************************)
ClearTail ==
  /\ wpc = "idle"
  /\ wtail' = tail
  /\ wpc' = "clear_head"
  /\ UNCHANGED <<ring, producer, whead, wval, ghost>>

ClearHead ==
  /\ wpc = "clear_head"
  /\ whead' = head
  /\ wpc' = "clear_store"
  /\ UNCHANGED <<ring, producer, wtail, wval, ghost>>

ClearStore ==
  /\ wpc = "clear_store"
  /\ tail' = whead
  /\ hasExcp' = FALSE
  /\ wpc' = "idle"
  /\ UNCHANGED <<buf, head, producer, wtail, whead, wval, out, overlap>>

(***************************************************************************)
(* has_excp: len() > 0.  head - tail wraps in a release build.             *)
(***************************************************************************)
\* Mutant of len: a saturating difference.
lenSaturating(h, t) == IF h >= t THEN h - t ELSE 0

len(h, t) == (h + UsizeMod - t) % UsizeMod

LenTail ==
  /\ wpc = "idle"
  /\ wtail' = tail
  /\ wpc' = "len_head"
  /\ UNCHANGED <<ring, producer, whead, wval, ghost>>

LenHead ==
  /\ wpc = "len_head"
  /\ hasExcp' = (len(head, wtail) > 0)
  /\ wpc' = "idle"
  /\ UNCHANGED <<ring, producer, wtail, whead, wval, out, overlap>>

PushStep(p) == PushHead(p) \/ PushTail(p) \/ PushWrite(p) \/ PushStore(p)

WorkerStep ==
  \/ PopTail \/ PopHead \/ PopRead \/ PopStore
  \/ ClearTail \/ ClearHead \/ ClearStore
  \/ LenTail \/ LenHead

Next == WorkerStep \/ \E p \in Producers : PushStep(p)

Spec == Init /\ [][Next]_vars

-----------------------------------------------------------------------------
(***************************************************************************)
(* Properties.                                                             *)
(***************************************************************************)

\* Every variable keeps its type, overlapping pushes or not: head and tail
\* never leave the buffer.
TypeOK ==
  /\ buf \in [Index -> Slots] /\ head \in Index /\ tail \in Index
  /\ ppc \in [Producers -> ProducerPc] /\ phead \in [Producers -> Index]
  /\ pval \in [Producers -> Value]
  /\ wpc \in WorkerPc /\ wtail \in Index /\ whead \in Index
  /\ wval \in Slots /\ out \in Slots
  /\ hasExcp \in BOOLEAN /\ overlap \in BOOLEAN

\* The events in the ring: the slots from tail up to head.
Size == IF head >= tail THEN head - tail ELSE CAP - tail + head
Slot(i) == IF tail + i <= CAP THEN tail + i - 1 ELSE tail + i - 1 - CAP
contents == [i \in 1 .. Size |-> buf[Slot(i)]]

Queue == INSTANCE BoundedQueue
  WITH Value <- Value, Capacity <- CAP - 1, q <- contents, out <- out

\* As long as no two pushes overlap, the ring is a bounded queue: whatever
\* pushes, pops and clears interleave, an event accepted by push() comes out
\* of pop() once, in order and unchanged, or is dropped by clear().
QueueSpec == Queue!Init /\ [][overlap' \/ Queue!Next]_Queue!vars

\* has_excp() can be relied on although len() subtracts wrapping indices:
\* when it looks at head it says yes exactly if an event is in the ring, and
\* after it said yes the worker's next pop() finds one.
HasExcpIsRight ==
  [][/\ wpc = "len_head" /\ wpc' = "idle" => hasExcp' = (contents # <<>>)
     /\ hasExcp' /\ ~overlap' => contents' # <<>>]_vars
=============================================================================
