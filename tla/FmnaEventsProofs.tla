-------------------------- MODULE FmnaEventsProofs --------------------------
(***************************************************************************)
(* What the work queue of FmnaEvents holds after an item is submitted,     *)
(* cancelled or taken, and that no item ever waits twice: the facts the    *)
(* proofs about timers that become work items rest on.                     *)
(***************************************************************************)
EXTENDS FmnaEvents, TLAPS, SequenceTheorems

(* A work item waits at most once. *)
Once(q) == \A i, j \in 1..Len(q) : q[i] = q[j] => i = j

(* The work items of FmnaStack, FmnaMotion and FmnaGatt.  A well-formed     *)
(* workqueue: these items, each at most once.                               *)
Names ==
  {"events", "nearby", "keys", "sound_timeout", "app_timeout", "play_sound", "max_conn"}
WorkqueueOK(q) == q \in Seq(Names) /\ Once(q)

-----------------------------------------------------------------------------

(* k_work_submit() adds the item and no other, and never a second time. *)
LEMMA SubmittedOnce ==
  ASSUME NEW q, WorkqueueOK(q), NEW item \in Names
  PROVE  /\ WorkqueueOK(Submitted(q, item))
         /\ \A w : Queued(Submitted(q, item), w) <=> Queued(q, w) \/ w = item
<1>1. CASE Queued(q, item)
  BY <1>1 DEF Submitted
<1>2. CASE ~Queued(q, item)
  <2>0. q \in Seq(Names) /\ Once(q)
    BY DEF WorkqueueOK
  <2>1. Submitted(q, item) = Append(q, item)
    BY <1>2 DEF Submitted
  <2>2. /\ Append(q, item) \in Seq(Names)
        /\ Len(Append(q, item)) = Len(q) + 1
        /\ \A i \in 1..Len(q) : Append(q, item)[i] = q[i]
        /\ Append(q, item)[Len(q) + 1] = item
    BY <2>0, AppendProperties
  <2>3. Len(q) \in Nat
    BY <2>0, LenProperties
  <2>4. \A i \in 1..(Len(q) + 1) : i \in 1..Len(q) \/ i = Len(q) + 1
    BY <2>3
  <2>5. \A i \in 1..Len(q) : q[i] # item
    BY <1>2 DEF Queued
  <2>6. Once(Append(q, item))
    BY <2>0, <2>2, <2>3, <2>4, <2>5 DEF Once
  <2>7. \A w : Queued(Append(q, item), w) <=> Queued(q, w) \/ w = item
    <3>. SUFFICES ASSUME NEW w
                  PROVE  Queued(Append(q, item), w) <=> Queued(q, w) \/ w = item
      OBVIOUS
    <3>1. Len(q) + 1 \in 1..(Len(q) + 1) /\ \A i \in 1..Len(q) : i \in 1..(Len(q) + 1)
      BY <2>3
    <3>2. Queued(q, w) => Queued(Append(q, item), w)
      BY <2>2, <3>1 DEF Queued
    <3>3. w = item => Queued(Append(q, item), w)
      BY <2>2, <3>1 DEF Queued
    <3>4. Queued(Append(q, item), w) => Queued(q, w) \/ w = item
      BY <2>2, <2>4 DEF Queued
    <3>. QED  BY <3>2, <3>3, <3>4
  <2>. QED  BY <2>1, <2>2, <2>6, <2>7 DEF WorkqueueOK
<1>. QED  BY <1>1, <1>2

(* The items that wait behind the first. *)
LEMMA TailOnce ==
  ASSUME NEW q, WorkqueueOK(q), q # <<>>
  PROVE  /\ WorkqueueOK(Tail(q))
         /\ \A w : Queued(Tail(q), w) <=> Queued(q, w) /\ w # Head(q)
<1>0. q \in Seq(Names) /\ Once(q)
  BY DEF WorkqueueOK
<1>1. /\ Tail(q) \in Seq(Names)
      /\ Len(Tail(q)) = Len(q) - 1
      /\ \A i \in 1..Len(Tail(q)) : Tail(q)[i] = q[i + 1]
      /\ Head(q) = q[1]
  BY <1>0, HeadTailProperties
<1>2. Len(q) \in Nat /\ Len(q) >= 1
  BY <1>0, LenProperties, EmptySeq
<1>3. \A i \in 1..(Len(q) - 1) : i + 1 \in 1..Len(q)
  BY <1>2
<1>4. Once(Tail(q))
  BY <1>0, <1>1, <1>2, <1>3 DEF Once
<1>5. ASSUME NEW w, Queued(Tail(q), w)
      PROVE  Queued(q, w) /\ w # Head(q)
  <2>1. PICK i \in 1..(Len(q) - 1) : Tail(q)[i] = w
    BY <1>5, <1>1 DEF Queued
  <2>2. i + 1 \in 1..Len(q) /\ q[i + 1] = w /\ i + 1 # 1 /\ 1 \in 1..Len(q)
    BY <2>1, <1>1, <1>2
  <2>. QED  BY <2>2, <1>0, <1>1 DEF Queued, Once
<1>6. ASSUME NEW w, Queued(q, w), w # Head(q)
      PROVE  Queued(Tail(q), w)
  <2>1. PICK i \in 1..Len(q) : q[i] = w
    BY <1>6 DEF Queued
  <2>2. i # 1
    BY <2>1, <1>6, <1>1
  <2>3. i - 1 \in 1..Len(Tail(q)) /\ (i - 1) + 1 = i
    BY <2>2, <1>1, <1>2
  <2>4. Tail(q)[i - 1] = w
    BY <2>1, <2>3, <1>1
  <2>. QED  BY <2>3, <2>4 DEF Queued
<1>. QED  BY <1>1, <1>4, <1>5, <1>6 DEF WorkqueueOK

(* k_work_cancel() takes the item and no other out of the queue. *)
LEMMA CancelledOnce ==
  ASSUME NEW q, WorkqueueOK(q), NEW item
  PROVE  /\ WorkqueueOK(Cancelled(q, item))
         /\ \A w : Queued(Cancelled(q, item), w) <=> Queued(q, w) /\ w # item
<1>1. CASE ~Queued(q, item)
  BY <1>1 DEF Cancelled
<1>2. CASE Queued(q, item)
  <2>. DEFINE k == CHOOSE i \in 1..Len(q) : q[i] = item
              a == SubSeq(q, 1, k - 1)
              b == SubSeq(q, k + 1, Len(q))
              r == a \o b
  <2>0. q \in Seq(Names) /\ Once(q) /\ Len(q) \in Nat
    BY LenProperties DEF WorkqueueOK
  <2>1. k \in 1..Len(q) /\ q[k] = item
    BY <1>2 DEF Queued
  <2>2. Cancelled(q, item) = r
    BY <1>2 DEF Cancelled
  <2>. HIDE DEF k
  <2>3. /\ a \in Seq(Names) /\ Len(a) = k - 1
        /\ \A i \in 1..(k - 1) : a[i] = q[i]
    <3>1. \A i \in 1..(k - 1) : q[i] \in Names
      BY <2>0, <2>1, ElementOfSeq
    <3>. QED  BY <2>0, <2>1, <3>1, SubSeqProperties
  <2>4. /\ b \in Seq(Names) /\ Len(b) = Len(q) - k
        /\ \A i \in 1..(Len(q) - k) : b[i] = q[k + i]
    <3>1. \A i \in (k + 1)..Len(q) : q[i] \in Names
      BY <2>0, <2>1, ElementOfSeq
    <3>. QED  BY <2>0, <2>1, <3>1, SubSeqProperties
  <2>. HIDE DEF a, b
  <2>5. /\ r \in Seq(Names)
        /\ Len(r) = Len(q) - 1
        /\ \A i \in 1..(Len(q) - 1) : r[i] = IF i < k THEN q[i] ELSE q[i + 1]
    <3>1. /\ r \in Seq(Names)
          /\ Len(r) = Len(a) + Len(b)
          /\ \A i \in 1..(Len(a) + Len(b)) :
               r[i] = IF i <= Len(a) THEN a[i] ELSE b[i - Len(a)]
      BY <2>3, <2>4, ConcatProperties
    <3>2. Len(r) = Len(q) - 1
      BY <3>1, <2>0, <2>1, <2>3, <2>4
    <3>3. ASSUME NEW i \in 1..(Len(q) - 1)
          PROVE  r[i] = IF i < k THEN q[i] ELSE q[i + 1]
      <4>1. CASE i < k
        BY <4>1, <3>1, <2>0, <2>1, <2>3, <2>4
      <4>2. CASE ~(i < k)
        <5>1. i - (k - 1) \in 1..(Len(q) - k) /\ k + (i - (k - 1)) = i + 1
          BY <4>2, <2>0, <2>1
        <5>2. b[i - (k - 1)] = q[i + 1]
          BY <5>1, <2>4
        <5>3. r[i] = b[i - (k - 1)]
          BY <4>2, <3>1, <2>0, <2>1, <2>3, <2>4
        <5>. QED  BY <4>2, <5>2, <5>3
      <4>. QED  BY <4>1, <4>2
    <3>. QED  BY <3>1, <3>2, <3>3
  <2>. HIDE DEF r
  <2>. DEFINE at(i) == IF i < k THEN i ELSE i + 1
  <2>6. \A i \in 1..Len(r) : at(i) \in 1..Len(q) /\ at(i) # k /\ r[i] = q[at(i)]
    BY <2>0, <2>1, <2>5
  <2>7. \A i, j \in 1..Len(r) : at(i) = at(j) => i = j
    BY <2>0, <2>1, <2>5
  <2>8. \A j \in 1..Len(q) : j # k => \E i \in 1..Len(r) : at(i) = j
    <3>. SUFFICES ASSUME NEW j \in 1..Len(q), j # k
                  PROVE  \E i \in 1..Len(r) : at(i) = j
      OBVIOUS
    <3>1. CASE j < k
      <4>1. j \in 1..Len(r) /\ at(j) = j
        BY <3>1, <2>0, <2>1, <2>5
      <4>. QED  BY <4>1
    <3>2. CASE j > k
      <4>1. j - 1 \in 1..Len(r) /\ at(j - 1) = j
        BY <3>2, <2>0, <2>1, <2>5
      <4>. QED  BY <4>1
    <3>. QED  BY <3>1, <3>2, <2>0, <2>1
  <2>. HIDE DEF at
  <2>9. Once(r)
    BY <2>0, <2>6, <2>7 DEF Once
  <2>10. ASSUME NEW w PROVE Queued(r, w) <=> Queued(q, w) /\ w # item
    <3>1. Queued(r, w) => Queued(q, w) /\ w # item
      BY <2>0, <2>1, <2>6 DEF Queued, Once
    <3>2. Queued(q, w) /\ w # item => Queued(r, w)
      BY <2>1, <2>6, <2>8 DEF Queued
    <3>. QED  BY <3>1, <3>2
  <2>. QED  BY <2>2, <2>5, <2>9, <2>10 DEF WorkqueueOK
<1>. QED  BY <1>1, <1>2

(* Posting events adds the event work item and no other. *)
LEMMA PostedOnce ==
  ASSUME NEW q, WorkqueueOK(q), NEW evs, PostOn(q, evs)
  PROVE  /\ WorkqueueOK(workq')
         /\ \A w : w # "events" => (Queued(workq', w) <=> Queued(q, w))
<1>1. CASE evs = <<>>
  BY <1>1 DEF PostOn
<1>2. CASE evs # <<>>
  <2>1. workq' = Submitted(q, "events")
    BY <1>2, Zenon DEF PostOn
  <2>2. "events" \in Names
    BY DEF Names
  <2>. QED  BY <2>1, <2>2, SubmittedOnce
<1>. QED  BY <1>1, <1>2

-----------------------------------------------------------------------------
(* The events that wait, in the order in which they will be handled.  A     *)
(* step takes the first k of them away, k at most 1, and adds evs behind.   *)

Backlog == batch \o events

EventsIn(S) == batch \in Seq(S) /\ events \in Seq(S)

Flow(k, evs) ==
  /\ k <= Len(Backlog)
  /\ Len(Backlog') = Len(Backlog) - k + Len(evs)
  /\ \A i \in 1..Len(Backlog) - k : Backlog'[i] = Backlog[i + k]
  /\ \A i \in 1..Len(evs) : Backlog'[Len(Backlog) - k + i] = evs[i]

LEMMA BacklogSeq ==
  ASSUME NEW S, EventsIn(S)
  PROVE  /\ Backlog \in Seq(S)
         /\ Len(Backlog) = Len(batch) + Len(events)
         /\ Len(Backlog) \in Nat /\ Len(batch) \in Nat /\ Len(events) \in Nat
         /\ \A i \in 1..Len(batch) : Backlog[i] = batch[i]
         /\ \A i \in 1..Len(events) : Backlog[Len(batch) + i] = events[i]
         /\ \A i \in 1..Len(Backlog) :
              i \in 1..Len(batch) \/ i - Len(batch) \in 1..Len(events)
<1>1. batch \in Seq(S) /\ events \in Seq(S)
  BY DEF EventsIn
<1>2. Len(batch) \in Nat /\ Len(events) \in Nat
  BY <1>1, LenProperties
<1>3. /\ Backlog \in Seq(S)
      /\ Len(Backlog) = Len(batch) + Len(events)
      /\ \A i \in 1..Len(batch) + Len(events) :
           Backlog[i] = IF i <= Len(batch) THEN batch[i] ELSE events[i - Len(batch)]
  BY <1>1, ConcatProperties DEF Backlog
<1>4. \A i \in 1..Len(events) :
        Len(batch) + i \in 1..Len(batch) + Len(events) /\ ~(Len(batch) + i <= Len(batch))
  BY <1>2
<1>5. \A i \in 1..Len(events) : Backlog[Len(batch) + i] = events[i]
  BY <1>2, <1>3, <1>4
<1>. QED  BY <1>2, <1>3, <1>5

(* Events are taken over in their order. *)
LEMMA SeqFlowKept ==
  ASSUME NEW S, EventsIn(S), Backlog' = Backlog
  PROVE  Flow(0, <<>>)
<1>1. Len(Backlog) \in Nat
  BY BacklogSeq
<1>2. Len(<<>>) = 0
  OBVIOUS
<1>. QED  BY <1>1, <1>2 DEF Flow

LEMMA SeqFlowTaken ==
  ASSUME NEW S, EventsIn(S), TakeEvents
  PROVE  Flow(0, <<>>)
<1>1. batch = <<>> /\ batch' = events /\ events' = <<>> /\ events \in Seq(S)
  BY DEF TakeEvents, Between, EventsIn
<1>2. Backlog' = Backlog
  BY <1>1, ConcatEmptySeq DEF Backlog
<1>. QED  BY <1>2, SeqFlowKept

LEMMA SeqFlowPosted ==
  ASSUME NEW S, EventsIn(S), NEW evs \in Seq(S), events' = events \o evs, batch' = batch
  PROVE  Flow(0, evs)
<1>1. batch \in Seq(S) /\ events \in Seq(S)
  BY DEF EventsIn
<1>2. Backlog' = Backlog \o evs
  BY <1>1, ConcatAssociative DEF Backlog
<1>3. Backlog \in Seq(S) /\ Len(Backlog) \in Nat /\ Len(evs) \in Nat
  BY BacklogSeq, LenProperties
<1>4. /\ Len(Backlog') = Len(Backlog) + Len(evs)
      /\ \A i \in 1..Len(Backlog) + Len(evs) :
           Backlog'[i] = IF i <= Len(Backlog) THEN Backlog[i] ELSE evs[i - Len(Backlog)]
  BY <1>2, <1>3, ConcatProperties
<1>5. \A i \in 1..Len(evs) :
        /\ Len(Backlog) + i \in 1..Len(Backlog) + Len(evs)
        /\ ~(Len(Backlog) + i <= Len(Backlog))
        /\ (Len(Backlog) + i) - Len(Backlog) = i
  BY <1>3
<1>6. \A i \in 1..Len(evs) : Backlog'[Len(Backlog) + i] = evs[i]
  BY <1>4, <1>5
<1>7. \A i \in 1..Len(Backlog) : Backlog'[i] = Backlog[i]
  BY <1>3, <1>4
<1>8. Len(Backlog) - 0 = Len(Backlog) /\ \A i \in 1..Len(Backlog) : i + 0 = i
  BY <1>3
<1>. QED  BY <1>3, <1>4, <1>6, <1>7, <1>8 DEF Flow

LEMMA SeqFlowHandled ==
  ASSUME NEW S, EventsIn(S), NEW id, Handling(id), NEW evs \in Seq(S), events' = events \o evs
  PROVE  Flow(1, evs) /\ 1 \in 1..Len(Backlog) /\ Backlog[1] = Head(batch)
<1>1. batch \in Seq(S) /\ events \in Seq(S) /\ batch # <<>> /\ batch' = Tail(batch)
  BY DEF EventsIn, Handling
<1>2. /\ Tail(batch) \in Seq(S)
      /\ Len(Tail(batch)) = Len(batch) - 1
      /\ \A i \in 1..Len(Tail(batch)) : Tail(batch)[i] = batch[i + 1]
  BY <1>1, HeadTailProperties
<1>3. Len(batch) \in Nat \ {0} /\ Len(events) \in Nat /\ Len(evs) \in Nat
  BY <1>1, EmptySeq, LenProperties
<1>4. events \o evs \in Seq(S)
  BY <1>1, ConcatProperties
<1>5. /\ Len(events \o evs) = Len(events) + Len(evs)
      /\ \A i \in 1..Len(events) + Len(evs) :
           (events \o evs)[i] = IF i <= Len(events) THEN events[i] ELSE evs[i - Len(events)]
  BY <1>1, ConcatProperties
<1>6. /\ Len(Backlog') = Len(batch) - 1 + (Len(events) + Len(evs))
      /\ \A i \in 1..Len(batch) - 1 + (Len(events) + Len(evs)) :
           Backlog'[i] = IF i <= Len(batch) - 1 THEN batch[i + 1]
                         ELSE (events \o evs)[i - (Len(batch) - 1)]
  BY <1>1, <1>2, <1>4, <1>5, ConcatProperties DEF Backlog
<1>7. /\ Len(Backlog) = Len(batch) + Len(events)
      /\ \A i \in 1..Len(batch) : Backlog[i] = batch[i]
      /\ \A i \in 1..Len(events) : Backlog[Len(batch) + i] = events[i]
  BY BacklogSeq
<1>8. ASSUME NEW i \in 1..Len(Backlog) - 1 PROVE Backlog'[i] = Backlog[i + 1]
  <2>1. CASE i <= Len(batch) - 1
    <3>1. i \in 1..Len(batch) - 1 + (Len(events) + Len(evs)) /\ i + 1 \in 1..Len(batch)
      BY <1>3, <1>7, <2>1
    <3>2. Backlog[i + 1] = batch[i + 1]
      BY <1>7, <3>1
    <3>. QED  BY <1>6, <2>1, <3>1, <3>2
  <2>2. CASE ~(i <= Len(batch) - 1)
    <3>1. i - (Len(batch) - 1) \in 1..Len(events)
      BY <1>3, <1>7, <2>2
    <3>2. Backlog[Len(batch) + (i - (Len(batch) - 1))] = events[i - (Len(batch) - 1)]
      BY <1>7, <3>1
    <3>3. Len(batch) + (i - (Len(batch) - 1)) = i + 1
      BY <1>3
    <3>4. Backlog'[i] = (events \o evs)[i - (Len(batch) - 1)]
      BY <1>3, <1>6, <1>7, <2>2
    <3>. QED  BY <1>3, <1>5, <3>1, <3>2, <3>3, <3>4
  <2>. QED  BY <2>1, <2>2
<1>9. ASSUME NEW i \in 1..Len(evs) PROVE Backlog'[Len(Backlog) - 1 + i] = evs[i]
  <2>1. Len(events) + i \in 1..Len(events) + Len(evs) /\ ~(Len(events) + i <= Len(events))
        /\ (Len(events) + i) - Len(events) = i
    BY <1>3
  <2>2. (events \o evs)[Len(events) + i] = evs[i]
    BY <1>5, <2>1
  <2>3. /\ Len(Backlog) - 1 + i \in 1..Len(batch) - 1 + (Len(events) + Len(evs))
        /\ ~(Len(Backlog) - 1 + i <= Len(batch) - 1)
        /\ (Len(Backlog) - 1 + i) - (Len(batch) - 1) = Len(events) + i
    BY <1>3, <1>7
  <2>. QED  BY <1>6, <2>2, <2>3
<1>10. Backlog[1] = Head(batch)
  <2>1. 1 \in 1..Len(batch) /\ Head(batch) = batch[1]
    BY <1>1, <1>3, EmptySeq
  <2>. QED  BY <1>7, <2>1
<1>. QED  BY <1>3, <1>6, <1>7, <1>8, <1>9, <1>10 DEF Flow

=============================================================================
