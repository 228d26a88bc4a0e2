--------------------------- MODULE FmnaUarpProofs ---------------------------
(***************************************************************************)
(* The update service, for every value of the constants of FmnaUarp: what  *)
(* it takes for one message is the writes of one message; its buffers are  *)
(* those of the accessory, and with a controller like that of the          *)
(* repository's test the accessory is always sound, so that its assertions *)
(* hold and what it stages is whole.                                       *)
(*                                                                         *)
(* Three invariants, each resting on those before it: WholeInv, of parts   *)
(* of messages; UpdateInv, of the accessory and what is on its way to and  *)
(* from it; and TurnInv, of who has the next step: where, between the      *)
(* buffers, the link, the controller and the queue, the request is that    *)
(* keeps a transfer going, and that nothing gets in its way.               *)
(***************************************************************************)
EXTENDS FmnaUarp, FmnaUarpAssetProofs

(* A queue of anything. *)
Queue(s) == \E S : s \in Seq(S)

LEMMA EmptyQueue == Queue(<<>>) /\ Len(<<>>) = 0
<1>1. <<>> \in Seq({})
  OBVIOUS
<1>. QED  BY <1>1 DEF Queue

LEMMA QueueLen ==
  ASSUME NEW s, Queue(s)
  PROVE  Len(s) \in Nat /\ DOMAIN s = 1..Len(s) /\ (s # <<>> <=> Len(s) > 0)
<1>1. PICK S : s \in Seq(S)
  BY DEF Queue
<1>. QED  BY <1>1, EmptySeq, LenProperties

LEMMA QueueAppend ==
  ASSUME NEW s, Queue(s), NEW e
  PROVE  /\ Queue(Append(s, e))
         /\ Len(Append(s, e)) = Len(s) + 1
         /\ \A i \in 1..Len(s) : Append(s, e)[i] = s[i]
         /\ Append(s, e)[Len(s) + 1] = e
<1>1. PICK S : s \in Seq(S)
  BY DEF Queue
<1>2. s \in Seq(S \cup {e}) /\ e \in S \cup {e}
  <2>1. \A i \in 1..Len(s) : s[i] \in S
    BY <1>1, ElementOfSeq
  <2>2. Len(s) \in Nat /\ s = [i \in 1..Len(s) |-> s[i]]
    BY <1>1, LenProperties
  <2>. QED  BY <2>1, <2>2, IsASeq
<1>. QED  BY <1>2, AppendProperties DEF Queue

LEMMA QueueTail ==
  ASSUME NEW s, Queue(s), s # <<>>
  PROVE  /\ Queue(Tail(s))
         /\ Len(s) \in Nat /\ Len(s) > 0 /\ Len(Tail(s)) = Len(s) - 1
         /\ Head(s) = s[1]
         /\ \A i \in 1..Len(s) - 1 : Tail(s)[i] = s[i + 1]
<1>1. PICK S : s \in Seq(S)
  BY DEF Queue
<1>. QED  BY <1>1, HeadTailProperties, EmptySeq, LenProperties DEF Queue


-----------------------------------------------------------------------------
(* Whole messages. *)

IsWrite(e, c) == e.id = "WRITE" /\ e.conn = c

(* h[i] says whether the service will hold the first part of a message of   *)
(* the connection c when it has handled i events of q.                      *)
Halves(h, q, c) ==
  /\ h = [i \in 0..Len(q) |-> h[i]]
  /\ \A i \in 1..Len(q) :
       IF IsWrite(q[i], c)
       THEN h[i - 1] = (q[i].part = "last") /\ h[i] = (q[i].part = "first")
       ELSE h[i] = h[i - 1]

(* Of the events q, only those of the connection served, c, write parts of  *)
(* messages, and what they leave of one is known to its controller.         *)
Parts(q, c, l, buffered, half) ==
  /\ \A i \in 1..Len(q) :
       q[i].id = "WRITE" /\ q[i].part # "whole" => q[i].conn = c /\ c # None
  /\ c # None =>
       \E h : /\ Halves(h, q, c) /\ h[0] = buffered
              /\ l = c => h[Len(q)] = half

(* The events of a connection that has ended end with its disconnection.    *)
Ends(q, l, gone) ==
  /\ Queue(q)
  /\ \A i \in 1..Len(q) : q[i].id = "DISCONNECT" =>
       /\ q[i].conn # None /\ q[i].conn # l /\ q[i].conn \notin gone
       /\ \A j \in i + 1..Len(q) : ~IsWrite(q[j], q[i].conn)

(* A controller that awaits nothing is served. *)
ServedInv ==
  /\ {"greeted", "awaiting", "half"} \subseteq DOMAIN ctl
  /\ ctl.greeted \in 0..2 /\ ctl.half \in BOOLEAN
  /\ link = None => ctl.greeted = 0
  /\ ctl.half => ctl.greeted = 2 /\ ~ctl.awaiting
  /\ ctl.greeted = 2 /\ ~ctl.awaiting => link = active

WholeInv ==
  /\ Parts(fifo, active, link, rx_buf, ctl.half)
  /\ Ends(fifo, link, leaving)
  /\ link \in Slots \cup {None} /\ leaving \subseteq Slots /\ link \notin leaving
  /\ rx_buf \in BOOLEAN
  /\ ServedInv
  /\ torn = FALSE

LEMMA HalvesAppend ==
  ASSUME NEW h, NEW q, NEW c, NEW e, Queue(q), Halves(h, q, c),
         IsWrite(e, c) => h[Len(q)] = (e.part = "last")
  PROVE  \E g : /\ Halves(g, Append(q, e), c) /\ g[0] = h[0]
                /\ g[Len(q) + 1] = IF IsWrite(e, c) THEN e.part = "first" ELSE h[Len(q)]
<1>. DEFINE n == Len(q)
            r == Append(q, e)
            z == IF IsWrite(e, c) THEN e.part = "first" ELSE h[n]
            g == [i \in 0..n + 1 |-> IF i = n + 1 THEN z ELSE h[i]]
<1>1. /\ n \in Nat /\ Len(r) = n + 1
      /\ \A i \in 1..n : r[i] = q[i]
      /\ r[n + 1] = e
  BY QueueAppend, QueueLen
<1>. HIDE DEF r
<1>2. g[n + 1] = z /\ \A i \in 0..n : g[i] = h[i]
  BY <1>1
<1>3. g = [i \in 0..Len(r) |-> g[i]]
  BY <1>1
<1>4. ASSUME NEW i \in 1..Len(r)
      PROVE  IF IsWrite(r[i], c)
             THEN g[i - 1] = (r[i].part = "last") /\ g[i] = (r[i].part = "first")
             ELSE g[i] = g[i - 1]
  <2>. HIDE DEF g
  <2>1. CASE i = n + 1
    <3>1. g[i] = z /\ g[i - 1] = h[n] /\ r[i] = e
      BY <1>1, <1>2, <2>1
    <3>. HIDE DEF n
    <3>2. CASE IsWrite(e, c)
      BY <3>1, <3>2 DEF n
    <3>3. CASE ~IsWrite(e, c)
      BY <3>1, <3>3
    <3>. QED  BY <3>2, <3>3
  <2>2. CASE i # n + 1
    <3>1. i \in 1..n /\ i \in 0..n /\ i - 1 \in 0..n
      BY <1>1, <2>2
    <3>2. g[i] = h[i] /\ g[i - 1] = h[i - 1] /\ r[i] = q[i]
      BY <1>1, <1>2, <3>1
    <3>. QED  BY <3>1, <3>2 DEF Halves
  <2>. QED  BY <2>1, <2>2
<1>5. g[0] = h[0]
  BY <1>1, <1>2
<1>. HIDE DEF g
<1>. QED  BY <1>1, <1>2, <1>3, <1>4, <1>5, Zenon DEF Halves, r, n, z

LEMMA HalvesTail ==
  ASSUME NEW h, NEW q, NEW c, Queue(q), q # <<>>, Halves(h, q, c)
  PROVE  \E g : /\ Halves(g, Tail(q), c) /\ g[0] = h[1] /\ g[Len(Tail(q))] = h[Len(q)]
                /\ IF IsWrite(Head(q), c)
                   THEN h[0] = (Head(q).part = "last") /\ h[1] = (Head(q).part = "first")
                   ELSE h[1] = h[0]
<1>. DEFINE n == Len(q)
            t == Tail(q)
            g == [i \in 0..n - 1 |-> h[i + 1]]
<1>1. /\ n \in Nat /\ n > 0 /\ Len(t) = n - 1 /\ Head(q) = q[1]
      /\ \A i \in 1..n - 1 : t[i] = q[i + 1]
  BY QueueTail
<1>. HIDE DEF t
<1>2. \A i \in 0..n - 1 : g[i] = h[i + 1]
  OBVIOUS
<1>3. g = [i \in 0..Len(t) |-> g[i]]
  BY <1>1
<1>. HIDE DEF g
<1>4. ASSUME NEW i \in 1..Len(t)
      PROVE  IF IsWrite(t[i], c)
             THEN g[i - 1] = (t[i].part = "last") /\ g[i] = (t[i].part = "first")
             ELSE g[i] = g[i - 1]
  <2>1. i \in 1..n - 1 /\ i \in 0..n - 1 /\ i - 1 \in 0..n - 1 /\ i + 1 \in 1..n
        /\ i - 1 + 1 = i /\ i + 1 - 1 = i
    BY <1>1
  <2>2. g[i] = h[i + 1] /\ g[i - 1] = h[i] /\ t[i] = q[i + 1]
    BY <1>1, <1>2, <2>1
  <2>3. IF IsWrite(q[i + 1], c)
        THEN h[i + 1 - 1] = (q[i + 1].part = "last") /\ h[i + 1] = (q[i + 1].part = "first")
        ELSE h[i + 1] = h[i + 1 - 1]
    <3>. DEFINE j == i + 1
    <3>1. j \in 1..Len(q)
      BY <2>1
    <3>. HIDE DEF j
    <3>2. IF IsWrite(q[j], c)
          THEN h[j - 1] = (q[j].part = "last") /\ h[j] = (q[j].part = "first")
          ELSE h[j] = h[j - 1]
      BY <3>1 DEF Halves
    <3>. QED  BY <3>2 DEF j
  <2>. QED  BY <2>1, <2>2, <2>3
<1>5. g[0] = h[1] /\ g[n - 1] = h[n]
  <2>1. 0 \in 0..n - 1 /\ n - 1 \in 0..n - 1 /\ 0 + 1 = 1 /\ n - 1 + 1 = n
    BY <1>1
  <2>. QED  BY <1>2, <2>1
<1>6. IF IsWrite(q[1], c)
      THEN h[0] = (q[1].part = "last") /\ h[1] = (q[1].part = "first")
      ELSE h[1] = h[0]
  <2>1. 1 \in 1..Len(q) /\ 1 - 1 = 0
    BY <1>1
  <2>. QED  BY <2>1 DEF Halves
<1>. QED  BY <1>1, <1>3, <1>4, <1>5, <1>6, Zenon DEF Halves, t, n

(* An event is appended, and the first is handled. *)
LEMMA EndsAppend ==
  ASSUME NEW q, NEW l, NEW gone, NEW e, Ends(q, l, gone),
         e.id # "DISCONNECT", e.id = "WRITE" => e.conn = l
  PROVE  Ends(Append(q, e), l, gone)
<1>. DEFINE r == Append(q, e)
<1>1. /\ Queue(q) /\ Len(q) \in Nat /\ Queue(r) /\ Len(r) = Len(q) + 1
      /\ \A i \in 1..Len(q) : r[i] = q[i]
      /\ r[Len(q) + 1] = e
  BY QueueAppend, QueueLen DEF Ends
<1>. HIDE DEF r
<1>2. ASSUME NEW i \in 1..Len(r), r[i].id = "DISCONNECT"
      PROVE  /\ r[i].conn # None /\ r[i].conn # l /\ r[i].conn \notin gone
             /\ \A j \in i + 1..Len(r) : ~IsWrite(r[j], r[i].conn)
  <2>1. i \in 1..Len(q) /\ r[i] = q[i]
    BY <1>1, <1>2
  <2>2. ASSUME NEW j \in i + 1..Len(r)
        PROVE  ~IsWrite(r[j], q[i].conn)
    <3>1. CASE j \in 1..Len(q)
      <4>1. r[j] = q[j] /\ j \in i + 1..Len(q)
        BY <1>1, <2>1, <3>1
      <4>. QED  BY <1>2, <2>1, <4>1 DEF Ends
    <3>2. CASE j \notin 1..Len(q)
      <4>1. r[j] = e
        BY <1>1, <2>1, <3>2
      <4>. QED  BY <1>2, <2>1, <4>1 DEF Ends, IsWrite
    <3>. QED  BY <3>1, <3>2
  <2>. QED  BY <1>2, <2>1, <2>2 DEF Ends
<1>. QED  BY <1>1, <1>2 DEF Ends, r

LEMMA EndsTail ==
  ASSUME NEW q, NEW l, NEW gone, Ends(q, l, gone), q # <<>>
  PROVE  Ends(Tail(q), l, gone)
<1>. DEFINE r == Tail(q)
<1>1. /\ Queue(r) /\ Len(q) \in Nat /\ Len(q) > 0 /\ Len(r) = Len(q) - 1
      /\ \A i \in 1..Len(q) - 1 : r[i] = q[i + 1]
  BY QueueTail DEF Ends
<1>. HIDE DEF r
<1>2. ASSUME NEW i \in 1..Len(r), r[i].id = "DISCONNECT"
      PROVE  /\ r[i].conn # None /\ r[i].conn # l /\ r[i].conn \notin gone
             /\ \A j \in i + 1..Len(r) : ~IsWrite(r[j], r[i].conn)
  <2>. DEFINE k == i + 1
  <2>1. k \in 1..Len(q) /\ r[i] = q[k]
    BY <1>1
  <2>2. \A j \in i + 1..Len(r) : j + 1 \in k + 1..Len(q) /\ r[j] = q[j + 1]
    BY <1>1
  <2>. HIDE DEF k
  <2>. QED  BY <1>2, <2>1, <2>2 DEF Ends
<1>. QED  BY <1>1, <1>2 DEF Ends, r

(* An event that is not a write of the connection served changes nothing.   *)
LEMMA PartsAppendOther ==
  ASSUME NEW q, NEW c, NEW l, NEW b, NEW half, NEW e, Queue(q), Parts(q, c, l, b, half),
         e.id # "WRITE"
  PROVE  Parts(Append(q, e), c, l, b, half)
<1>. DEFINE r == Append(q, e)
<1>1. /\ Len(q) \in Nat /\ Len(r) = Len(q) + 1
      /\ \A i \in 1..Len(q) : r[i] = q[i]
      /\ r[Len(q) + 1] = e
  BY QueueAppend, QueueLen
<1>2. ~IsWrite(e, c)
  BY DEF IsWrite
<1>3. ASSUME c # None
      PROVE  \E h : Halves(h, r, c) /\ h[0] = b /\ (l = c => h[Len(r)] = half)
  <2>1. PICK h : Halves(h, q, c) /\ h[0] = b /\ (l = c => h[Len(q)] = half)
    BY <1>3 DEF Parts
  <2>2. PICK g : Halves(g, r, c) /\ g[0] = h[0] /\ g[Len(q) + 1] = h[Len(q)]
    BY <1>2, <2>1, HalvesAppend
  <2>. QED  BY <1>1, <2>1, <2>2
<1>. HIDE DEF r
<1>4. \A i \in 1..Len(r) : i \in 1..Len(q) \/ i = Len(q) + 1
  BY <1>1
<1>. QED  BY <1>1, <1>3, <1>4 DEF Parts, r

(* A write of the controller: only the connection served writes parts, and  *)
(* the controller knows which it has to write.                              *)
LEMMA PartsAppendWrite ==
  ASSUME NEW q, NEW c, NEW l, NEW b, NEW half, NEW e, Queue(q), Parts(q, c, l, b, half),
         IsWrite(e, l), e.part = "whole" \/ (l = c /\ c # None), l = c => half = (e.part = "last")
  PROVE  Parts(Append(q, e), c, l, b, e.part = "first")
<1>. DEFINE r == Append(q, e)
<1>1. /\ Len(q) \in Nat /\ Len(r) = Len(q) + 1
      /\ \A i \in 1..Len(q) : r[i] = q[i]
      /\ r[Len(q) + 1] = e
  BY QueueAppend, QueueLen
<1>2. IsWrite(e, c) <=> l = c
  BY DEF IsWrite
<1>3. ASSUME c # None
      PROVE  \E h : Halves(h, r, c) /\ h[0] = b /\ (l = c => h[Len(r)] = (e.part = "first"))
  <2>1. PICK h : Halves(h, q, c) /\ h[0] = b /\ (l = c => h[Len(q)] = half)
    BY <1>3 DEF Parts
  <2>2. IsWrite(e, c) => h[Len(q)] = (e.part = "last")
    BY <1>2, <2>1
  <2>3. PICK g : /\ Halves(g, r, c) /\ g[0] = h[0]
                 /\ g[Len(q) + 1] = IF IsWrite(e, c) THEN e.part = "first" ELSE h[Len(q)]
    BY <2>1, <2>2, HalvesAppend
  <2>. QED  BY <1>1, <1>2, <2>1, <2>3
<1>. HIDE DEF r
<1>4. \A i \in 1..Len(r) : i \in 1..Len(q) \/ i = Len(q) + 1
  BY <1>1
<1>5. e.id = "WRITE" /\ e.part # "whole" => e.conn = c /\ c # None
  BY DEF IsWrite
<1>. QED  BY <1>1, <1>3, <1>4, <1>5 DEF Parts, r

LEMMA PartsTailOther ==
  ASSUME NEW q, NEW c, NEW l, NEW b, NEW half, Queue(q), q # <<>>, Parts(q, c, l, b, half),
         ~IsWrite(Head(q), c)
  PROVE  Parts(Tail(q), c, l, b, half)
<1>. DEFINE r == Tail(q)
<1>1. /\ Len(q) \in Nat /\ Len(q) > 0 /\ Len(r) = Len(q) - 1
      /\ \A i \in 1..Len(q) - 1 : r[i] = q[i + 1]
  BY QueueTail
<1>2. ASSUME c # None
      PROVE  \E h : Halves(h, r, c) /\ h[0] = b /\ (l = c => h[Len(r)] = half)
  <2>1. PICK h : Halves(h, q, c) /\ h[0] = b /\ (l = c => h[Len(q)] = half)
    BY <1>2 DEF Parts
  <2>2. PICK g : Halves(g, r, c) /\ g[0] = h[1] /\ g[Len(r)] = h[Len(q)] /\ h[1] = h[0]
    BY <2>1, HalvesTail
  <2>. QED  BY <2>1, <2>2
<1>. HIDE DEF r
<1>3. \A i \in 1..Len(r) : i + 1 \in 1..Len(q) /\ r[i] = q[i + 1]
  BY <1>1
<1>. QED  BY <1>1, <1>2, <1>3 DEF Parts, r

LEMMA PartsTailMine ==
  ASSUME NEW q, NEW c, NEW l, NEW b, NEW half, Queue(q), q # <<>>, Parts(q, c, l, b, half),
         IsWrite(Head(q), c), c # None
  PROVE  b = (Head(q).part = "last") /\ Parts(Tail(q), c, l, Head(q).part = "first", half)
<1>. DEFINE r == Tail(q)
<1>1. /\ Len(q) \in Nat /\ Len(q) > 0 /\ Len(r) = Len(q) - 1
      /\ \A i \in 1..Len(q) - 1 : r[i] = q[i + 1]
  BY QueueTail
<1>2. PICK h : Halves(h, q, c) /\ h[0] = b /\ (l = c => h[Len(q)] = half)
  BY DEF Parts
<1>3. PICK g : /\ Halves(g, r, c) /\ g[0] = h[1] /\ g[Len(r)] = h[Len(q)]
               /\ h[0] = (Head(q).part = "last") /\ h[1] = (Head(q).part = "first")
  BY <1>2, HalvesTail
<1>. HIDE DEF r
<1>4. \A i \in 1..Len(r) : i + 1 \in 1..Len(q) /\ r[i] = q[i + 1]
  BY <1>1
<1>5. \E k : Halves(k, r, c) /\ k[0] = (Head(q).part = "first") /\ (l = c => k[Len(r)] = half)
  BY <1>2, <1>3
<1>. QED  BY <1>1, <1>2, <1>3, <1>4, <1>5 DEF Parts, r

(* While no connection is served, every write is of a whole message. *)
LEMMA PartsTailNew ==
  ASSUME NEW q, NEW c, NEW l, NEW b, NEW half, Queue(q), q # <<>>, Parts(q, None, l, b, half),
         IsWrite(Head(q), c), l = c => half = FALSE
  PROVE  Head(q).part = "whole" /\ Parts(Tail(q), c, l, FALSE, half)
<1>. DEFINE r == Tail(q)
            h == [i \in 0..Len(r) |-> FALSE]
<1>1. /\ Len(q) \in Nat /\ Len(q) > 0 /\ Len(r) = Len(q) - 1 /\ Head(q) = q[1]
      /\ \A i \in 1..Len(q) - 1 : r[i] = q[i + 1]
  BY QueueTail
<1>2. \A i \in 1..Len(q) : q[i].id = "WRITE" => q[i].part = "whole"
  BY DEF Parts
<1>3. Head(q).part = "whole"
  <2>1. 1 \in 1..Len(q)
    BY <1>1
  <2>. QED  BY <1>1, <1>2, <2>1 DEF IsWrite
<1>. HIDE DEF r
<1>4. \A i \in 1..Len(r) : i + 1 \in 1..Len(q) /\ r[i] = q[i + 1]
  BY <1>1
<1>5. \A i \in 1..Len(r) : r[i].id = "WRITE" => r[i].part = "whole"
  BY <1>2, <1>4
<1>6. /\ h = [i \in 0..Len(r) |-> h[i]] /\ h[0] = FALSE /\ h[Len(r)] = FALSE
      /\ \A i \in 1..Len(r) : h[i] = FALSE /\ h[i - 1] = FALSE
  <2>1. Len(r) \in Nat
    BY <1>1
  <2>2. 0 \in 0..Len(r) /\ Len(r) \in 0..Len(r)
    BY <2>1
  <2>3. \A i \in 1..Len(r) : i \in 0..Len(r) /\ i - 1 \in 0..Len(r)
    BY <2>1
  <2>4. \A i \in 0..Len(r) : h[i] = FALSE
    OBVIOUS
  <2>. QED  BY <2>2, <2>3, <2>4
<1>. HIDE DEF h
<1>7. Halves(h, r, c)
  <2>1. \A i \in 1..Len(r) : IsWrite(r[i], c) => r[i].part = "whole"
    BY <1>5 DEF IsWrite
  <2>2. \A i \in 1..Len(r) : IF IsWrite(r[i], c)
             THEN h[i - 1] = (r[i].part = "last") /\ h[i] = (r[i].part = "first")
             ELSE h[i] = h[i - 1]
    BY <1>6, <2>1
  <2>. QED  BY <1>6, <2>2, Zenon DEF Halves
<1>8. \E k : Halves(k, r, c) /\ k[0] = FALSE /\ (l = c => k[Len(r)] = half)
  BY <1>6, <1>7
<1>. QED  BY <1>3, <1>5, <1>8 DEF Parts, r

(* The connection served has ended. *)
LEMMA PartsTailEnd ==
  ASSUME NEW q, NEW c, NEW l, NEW b, NEW half, NEW gone, q # <<>>, Parts(q, c, l, b, half),
         Ends(q, l, gone), Head(q).id = "DISCONNECT", Head(q).conn = c
  PROVE  Parts(Tail(q), None, l, b, half)
<1>. DEFINE r == Tail(q)
<1>1. /\ Len(q) \in Nat /\ Len(q) > 0 /\ Len(r) = Len(q) - 1 /\ Head(q) = q[1]
      /\ \A i \in 1..Len(q) - 1 : r[i] = q[i + 1]
  BY QueueTail DEF Ends
<1>. HIDE DEF r
<1>2. \A i \in 1..Len(r) : i + 1 \in 1..Len(q) /\ i + 1 \in 1 + 1..Len(q) /\ r[i] = q[i + 1]
  BY <1>1
<1>3. \A j \in 1 + 1..Len(q) : ~IsWrite(q[j], c)
  <2>1. 1 \in 1..Len(q)
    BY <1>1
  <2>. QED  BY <1>1, <2>1 DEF Ends
<1>4. \A i \in 1..Len(r) : ~IsWrite(r[i], c)
  BY <1>2, <1>3
<1>. QED  BY <1>2, <1>4 DEF Parts, IsWrite, r
-----------------------------------------------------------------------------
(* The steps. *)

LEMMA NoSlot == None \notin Slots
BY DEF None, Slots

LEMMA WholeInit == Init => WholeInv
<1>. SUFFICES ASSUME Init PROVE WholeInv
  OBVIOUS
<1>1. Queue(fifo) /\ Len(fifo) = 0 /\ \A i \in 1..Len(fifo) : FALSE
  BY EmptyQueue DEF Init
<1>2. Ends(fifo, link, leaving) /\ Parts(fifo, active, link, rx_buf, ctl.half)
  BY <1>1 DEF Ends, Parts, Init
<1>3. ServedInv
  BY DEF Init, ServedInv, NewController
<1>. QED  BY <1>2, <1>3, NoSlot DEF WholeInv, Init

(* The rest of the controller is not read here. *)
LEMMA WholeWrite ==
  ASSUME WholeInv, NEW part, NEW m, data_cp_write(part, m), ServedInv',
         part = "whole" \/ link = active, ctl.half = (part = "last"), ctl'.half = (part = "first")
  PROVE  WholeInv'
<1>. DEFINE e == Write(part, m)
<1>1. /\ fifo' = Append(fifo, e) /\ link # None
      /\ UNCHANGED <<active, rx_buf, torn, link, leaving>>
  BY DEF data_cp_write, linkVars
<1>2. e.id = "WRITE" /\ e.conn = link /\ e.part = part
  BY DEF Write, Event
<1>. HIDE DEF e
<1>3. Ends(fifo', link, leaving)
  BY <1>1, <1>2, EndsAppend DEF WholeInv
<1>4. Parts(fifo', active, link, rx_buf, part = "first")
  <2>1. Queue(fifo) /\ Parts(fifo, active, link, rx_buf, ctl.half) /\ IsWrite(e, link)
    BY <1>2 DEF WholeInv, Ends, IsWrite
  <2>2. e.part = "whole" \/ (link = active /\ active # None)
    BY <1>1, <1>2
  <2>3. Parts(Append(fifo, e), active, link, rx_buf, e.part = "first")
    BY <1>2, <2>1, <2>2, PartsAppendWrite
  <2>. QED  BY <1>1, <1>2, <2>3
<1>5. Parts(fifo', active', link', rx_buf', ctl'.half)
  BY <1>1, <1>4
<1>. QED  BY <1>1, <1>3, <1>5 DEF WholeInv

LEMMA WholeCommand ==
  ASSUME WholeInv, NEW m, Command(m), ctl'.awaiting = TRUE,
         ctl'.greeted = ctl.greeted, ctl'.half = ctl.half, DOMAIN ctl' = DOMAIN ctl
  PROVE  WholeInv'
<1>1. data_cp_write("whole", m) /\ ctl.greeted = 2 /\ ~ctl.awaiting /\ ~ctl.half
  BY DEF Command, Idle
<1>2. ctl.half = FALSE /\ ServedInv
  BY <1>1 DEF WholeInv, ServedInv
<1>3. UNCHANGED <<link, active>> /\ link # None
  BY <1>1 DEF data_cp_write, linkVars
<1>4. ServedInv'
  BY <1>1, <1>2, <1>3 DEF ServedInv
<1>. QED  BY <1>1, <1>2, <1>4, WholeWrite

(* The queue after an event that was handled. *)
LEMMA HandledQueue ==
  ASSUME NEW b, Handled(b), NEW c, NEW l, NEW r, NEW half, NEW gone,
         Queue(Tail(fifo)), Ends(Tail(fifo), l, gone), Parts(Tail(fifo), c, l, r, half)
  PROVE  Ends(fifo', l, gone) /\ Parts(fifo', c, l, r, half)
<1>1. CASE ~b.kick
  BY <1>1 DEF Handled
<1>2. CASE b.kick
  <2>. DEFINE e == Ack(active', FALSE)
  <2>1. fifo' = Append(Tail(fifo), e)
    BY <1>2 DEF Handled
  <2>2. e.id = "ACK"
    BY DEF Ack, Event
  <2>. HIDE DEF e
  <2>. QED  BY <2>1, <2>2, EndsAppend, PartsAppendOther
<1>. QED  BY <1>1, <1>2

LEMMA ServedKept ==
  ASSUME ServedInv, ctl' = ctl, link' = link, active' = active
  PROVE  ServedInv'
BY DEF ServedInv

(* An event that is no write of the connection served leaves it as it is.   *)
LEMMA WholeOther ==
  ASSUME WholeInv, NEW b, Handled(b), fifo # <<>>, ~IsWrite(Head(fifo), active),
         UNCHANGED <<active, rx_buf, torn>>
  PROVE  WholeInv'
<1>1. UNCHANGED <<link, leaving, ctl>>
  BY DEF Handled, linkVars
<1>2. Queue(fifo) /\ Queue(Tail(fifo))
  BY QueueTail DEF WholeInv, Ends
<1>3. Ends(Tail(fifo), link, leaving) /\ Parts(Tail(fifo), active, link, rx_buf, ctl.half)
  BY <1>2, EndsTail, PartsTailOther DEF WholeInv
<1>4. Ends(fifo', link, leaving) /\ Parts(fifo', active, link, rx_buf, ctl.half)
  BY <1>2, <1>3, HandledQueue
<1>5. ServedInv'
  BY <1>1, ServedKept DEF WholeInv
<1>. QED  BY <1>1, <1>4, <1>5 DEF WholeInv

LEMMA WholeDisconnect == WholeInv /\ handle_disconnect => WholeInv'
<1>. SUFFICES ASSUME WholeInv, handle_disconnect
              PROVE  WholeInv'
  OBVIOUS
<1>1. fifo # <<>> /\ Head(fifo).id = "DISCONNECT"
  BY DEF handle_disconnect, Handles
<1>2. CASE IgnoredEvent
  <2>1. Handled(a) /\ UNCHANGED <<active, rx_buf, torn>> /\ ~IsWrite(Head(fifo), active)
    BY <1>1, <1>2 DEF IgnoredEvent, IsWrite
  <2>. QED  BY <1>1, <2>1, WholeOther
<1>3. CASE /\ Head(fifo).conn = active
           /\ active' = None
           /\ Handled(Disconnected)
           /\ UNCHANGED <<rx_buf, torn, in_flight>>
  <2>1. UNCHANGED <<link, leaving, ctl>>
    BY <1>3 DEF Handled, linkVars
  <2>2. Queue(fifo) /\ Queue(Tail(fifo))
    BY <1>1, QueueTail DEF WholeInv, Ends
  <2>3. Ends(Tail(fifo), link, leaving) /\ Parts(Tail(fifo), None, link, rx_buf, ctl.half)
    BY <1>1, <1>3, <2>2, EndsTail, PartsTailEnd DEF WholeInv
  <2>4. Ends(fifo', link, leaving) /\ Parts(fifo', None, link, rx_buf, ctl.half)
    BY <1>3, <2>2, <2>3, HandledQueue
  <2>5. active # link
    <3>1. 1 \in 1..Len(fifo) /\ Head(fifo) = fifo[1]
      BY <1>1, <2>2, QueueTail
    <3>. QED  BY <1>1, <1>3, <3>1 DEF WholeInv, Ends
  <2>6. ServedInv'
    BY <1>3, <2>1, <2>5 DEF WholeInv, ServedInv
  <2>. QED  BY <1>3, <2>1, <2>4, <2>6 DEF WholeInv
<1>. QED  BY <1>2, <1>3 DEF handle_disconnect

LEMMA WholeAck == WholeInv /\ handle_indication_ack => WholeInv'
<1>. SUFFICES ASSUME WholeInv, handle_indication_ack
              PROVE  WholeInv'
  OBVIOUS
<1>1. fifo # <<>> /\ ~IsWrite(Head(fifo), active)
  BY DEF handle_indication_ack, Handles, IsWrite
<1>2. UNCHANGED <<active, rx_buf, torn>> /\ \E b : Handled(b)
  BY Zenon DEF handle_indication_ack, IgnoredEvent
<1>. QED  BY <1>1, <1>2, WholeOther

LEMMA WholeHandled == WholeInv /\ handle_write => WholeInv'
<1>. SUFFICES ASSUME WholeInv, handle_write
              PROVE  WholeInv'
  OBVIOUS
<1>. DEFINE e == Head(fifo)
<1>1. fifo # <<>> /\ e.id = "WRITE"
  BY DEF handle_write, Handles
<1>2. Queue(fifo) /\ Queue(Tail(fifo))
  BY <1>1, QueueTail DEF WholeInv, Ends
<1>3. CASE active \notin {None, e.conn} /\ IgnoredEvent
  <2>1. Handled(a) /\ UNCHANGED <<active, rx_buf, torn>> /\ ~IsWrite(e, active)
    BY <1>1, <1>3 DEF IgnoredEvent, IsWrite
  <2>. QED  BY <1>1, <2>1, WholeOther
<1>4. CASE /\ active \in {None, e.conn} /\ active' = e.conn
           /\ rx_buf' = (e.part = "first")
           /\ torn' = (torn \/ Collected # (e.part = "last"))
           /\ \E b : Handled(b)
  <2>1. PICK b : Handled(b)
    BY <1>4
  <2>2. UNCHANGED <<link, leaving, ctl>>
    BY <2>1 DEF Handled, linkVars
  <2>3. Ends(Tail(fifo), link, leaving)
    BY <1>1, EndsTail DEF WholeInv
  <2>4. /\ Collected = (e.part = "last")
        /\ Parts(Tail(fifo), e.conn, link, rx_buf', ctl.half)
        /\ ctl.greeted = 2 /\ ~ctl.awaiting => link = e.conn
    <3>1. CASE active # None
      <4>1. active = e.conn /\ IsWrite(e, active)
        BY <1>1, <1>4, <3>1 DEF IsWrite
      <4>2. /\ rx_buf = (e.part = "last")
            /\ Parts(Tail(fifo), active, link, e.part = "first", ctl.half)
        BY <1>1, <1>2, <3>1, <4>1, PartsTailMine DEF WholeInv
      <4>3. Collected = (e.part = "last")
        BY <3>1, <4>2 DEF Collected, WholeInv
      <4>. QED  BY <1>4, <4>1, <4>2, <4>3 DEF WholeInv, ServedInv
    <3>2. CASE active = None
      <4>. DEFINE c == e.conn
      <4>1. IsWrite(e, c)
        BY <1>1 DEF IsWrite
      <4>2. ctl.half = FALSE /\ ~(ctl.greeted = 2 /\ ~ctl.awaiting)
        BY <3>2 DEF WholeInv, ServedInv
      <4>3. Parts(fifo, None, link, rx_buf, ctl.half)
        BY <3>2 DEF WholeInv
      <4>. HIDE DEF c
      <4>4. e.part = "whole" /\ Parts(Tail(fifo), c, link, FALSE, ctl.half)
        BY <1>1, <1>2, <4>1, <4>2, <4>3, PartsTailNew
      <4>5. Collected = FALSE /\ rx_buf' = FALSE
        BY <1>4, <3>2, <4>4 DEF Collected
      <4>. QED  BY <4>2, <4>4, <4>5 DEF c
    <3>. QED  BY <3>1, <3>2
  <2>5. Ends(fifo', link, leaving) /\ Parts(fifo', e.conn, link, rx_buf', ctl.half)
    BY <1>2, <2>1, <2>3, <2>4, HandledQueue
  <2>6. torn' = FALSE /\ rx_buf' \in BOOLEAN
    BY <1>4, <2>4 DEF WholeInv
  <2>7. ServedInv'
    BY <1>4, <2>2, <2>4 DEF WholeInv, ServedInv
  <2>. QED  BY <1>4, <2>2, <2>5, <2>6, <2>7 DEF WholeInv
<1>. QED  BY <1>3, <1>4, Zenon DEF handle_write

(* The other steps of the controller and of the link. *)
LEMMA WholeConnect == WholeInv /\ Connect => WholeInv'
<1>. SUFFICES ASSUME WholeInv, Connect
              PROVE  WholeInv'
  OBVIOUS
<1>1. PICK c \in Slots : /\ c \notin leaving /\ c # active
                         /\ \A i \in 1..Len(fifo) : fifo[i].conn # c
                         /\ link' = c
  BY DEF Connect
<1>2. ctl' = NewController /\ UNCHANGED <<active, fifo, rx_buf, torn, leaving>>
  BY DEF Connect, serviceVars
<1>3. Ends(fifo', link', leaving')
  BY <1>1, <1>2 DEF WholeInv, Ends
<1>4. Parts(fifo', active', link', rx_buf', ctl'.half)
  BY <1>1, <1>2 DEF WholeInv, Parts
<1>5. ServedInv'
  BY <1>2 DEF ServedInv, NewController
<1>. QED  BY <1>1, <1>2, <1>3, <1>4, <1>5 DEF WholeInv

LEMMA WholeConfirm == WholeInv /\ Confirm => WholeInv'
<1>. SUFFICES ASSUME WholeInv, Confirm
              PROVE  WholeInv'
  OBVIOUS
<1>. DEFINE e == Ack(link, FALSE)
<1>1. /\ link = active /\ ctl' = Heard(a.buf) /\ fifo' = Append(fifo, e)
      /\ UNCHANGED <<active, rx_buf, torn, link, leaving>>
  BY DEF Confirm, linkVars
<1>2. e.id = "ACK"
  BY DEF Ack, Event
<1>. HIDE DEF e
<1>3. ctl'.half = ctl.half /\ ctl'.greeted = ctl.greeted /\ DOMAIN ctl' = DOMAIN ctl
  BY <1>1 DEF Heard
<1>4. ~ctl.awaiting => ~ctl'.awaiting
  BY <1>1 DEF Heard, WholeInv, ServedInv
<1>5. Ends(fifo', link, leaving) /\ Parts(fifo', active, link, rx_buf, ctl.half)
  <2>1. Ends(fifo, link, leaving) /\ Parts(fifo, active, link, rx_buf, ctl.half) /\ Queue(fifo)
    BY DEF WholeInv, Ends
  <2>2. Ends(Append(fifo, e), link, leaving)
    BY <1>2, <2>1, EndsAppend
  <2>3. Parts(Append(fifo, e), active, link, rx_buf, ctl.half)
    BY <1>2, <2>1, PartsAppendOther
  <2>. QED  BY <1>1, <2>2, <2>3
<1>6. ServedInv'
  BY <1>1, <1>3, <1>4 DEF WholeInv, ServedInv
<1>. QED  BY <1>1, <1>3, <1>5, <1>6 DEF WholeInv

LEMMA WholeLost == WholeInv /\ LinkLost => WholeInv'
<1>. SUFFICES ASSUME WholeInv, LinkLost
              PROVE  WholeInv'
  OBVIOUS
<1>. DEFINE e == Ack(link, TRUE)
<1>1. /\ link # None /\ link' = None /\ leaving' = leaving \cup {link}
      /\ fifo' \in {fifo, Append(fifo, e)} /\ ctl' = NewController
      /\ UNCHANGED <<active, rx_buf, torn>>
  BY DEF LinkLost
<1>2. e.id = "ACK"
  BY DEF Ack, Event
<1>. HIDE DEF e
<1>3. Ends(fifo', link, leaving) /\ Parts(fifo', active, link, rx_buf, ctl.half)
  <2>1. Ends(fifo, link, leaving) /\ Parts(fifo, active, link, rx_buf, ctl.half) /\ Queue(fifo)
    BY DEF WholeInv, Ends
  <2>2. Ends(Append(fifo, e), link, leaving)
    BY <1>2, <2>1, EndsAppend
  <2>3. Parts(Append(fifo, e), active, link, rx_buf, ctl.half)
    BY <1>2, <2>1, PartsAppendOther
  <2>. QED  BY <1>1, <2>1, <2>2, <2>3
<1>4. Ends(fifo', None, leaving')
  BY <1>1, <1>3 DEF Ends
<1>5. Parts(fifo', active, None, rx_buf, ctl'.half)
  BY <1>3 DEF Parts
<1>6. ServedInv'
  BY <1>1 DEF ServedInv, NewController
<1>7. link' \in Slots \cup {None} /\ leaving' \subseteq Slots /\ link' \notin leaving'
  BY <1>1, NoSlot DEF WholeInv
<1>. QED  BY <1>1, <1>4, <1>5, <1>6, <1>7 DEF WholeInv

LEMMA WholeGone == WholeInv /\ submit_event_disconnect => WholeInv'
<1>. SUFFICES ASSUME WholeInv, submit_event_disconnect
              PROVE  WholeInv'
  OBVIOUS
<1>1. PICK c \in leaving : leaving' = leaving \ {c} /\ fifo' = Append(fifo, Disconnect(c))
  BY DEF submit_event_disconnect
<1>. DEFINE e == Disconnect(c)
<1>2. UNCHANGED <<active, rx_buf, torn, link, ctl>>
  BY DEF submit_event_disconnect
<1>3. e.id = "DISCONNECT" /\ e.conn = c
  BY DEF Disconnect, Event
<1>. HIDE DEF e
<1>4. c # None /\ c # link
  BY NoSlot DEF WholeInv
<1>5. /\ Queue(fifo) /\ Len(fifo) \in Nat /\ Queue(fifo') /\ Len(fifo') = Len(fifo) + 1
      /\ \A i \in 1..Len(fifo) : fifo'[i] = fifo[i]
      /\ fifo'[Len(fifo) + 1] = e
  BY <1>1, QueueAppend, QueueLen DEF e, WholeInv, Ends
<1>6. ASSUME NEW i \in 1..Len(fifo'), fifo'[i].id = "DISCONNECT"
      PROVE  /\ fifo'[i].conn # None /\ fifo'[i].conn # link /\ fifo'[i].conn \notin leaving'
             /\ \A j \in i + 1..Len(fifo') : ~IsWrite(fifo'[j], fifo'[i].conn)
  <2>1. CASE i = Len(fifo) + 1
    <3>1. \A j \in i + 1..Len(fifo') : FALSE
      BY <1>5, <2>1
    <3>. QED  BY <1>1, <1>3, <1>4, <1>5, <2>1, <3>1
  <2>2. CASE i # Len(fifo) + 1
    <3>1. i \in 1..Len(fifo) /\ fifo'[i] = fifo[i]
      BY <1>5, <2>2
    <3>2. \A j \in i + 1..Len(fifo') : (j \in i + 1..Len(fifo) /\ fifo'[j] = fifo[j]) \/ fifo'[j] = e
      BY <1>5, <3>1
    <3>3. ~IsWrite(e, fifo[i].conn)
      BY <1>3 DEF IsWrite
    <3>. QED  BY <1>1, <1>6, <3>1, <3>2, <3>3 DEF WholeInv, Ends
  <2>. QED  BY <2>1, <2>2
<1>7. Ends(fifo', link, leaving')
  BY <1>5, <1>6 DEF Ends
<1>8. Parts(fifo', active, link, rx_buf, ctl.half)
  BY <1>1, <1>3, <1>5, PartsAppendOther DEF WholeInv, e
<1>9. ServedInv'
  BY <1>2, ServedKept DEF WholeInv
<1>. QED  BY <1>1, <1>2, <1>7, <1>8, <1>9 DEF WholeInv

LEMMA WholeAnswer == WholeInv /\ Answer => WholeInv'
<1>. SUFFICES ASSUME WholeInv, Answer
              PROVE  WholeInv'
  OBVIOUS
<1>1. PICK m :
       \/ /\ Idle /\ data_cp_write("whole", m)
          /\ ctl' = [ctl EXCEPT !.wanted = Tail(@)]
       \/ /\ Idle /\ data_cp_write("first", m)
          /\ ctl' = [ctl EXCEPT !.half = TRUE]
       \/ /\ ctl.half /\ data_cp_write("last", m)
          /\ ctl' = [ctl EXCEPT !.half = FALSE, !.wanted = Tail(@)]
  BY Zenon DEF Answer
<1>2. UNCHANGED <<link, active>> /\ link # None
  BY <1>1 DEF data_cp_write, linkVars
<1>3. ServedInv
  BY DEF WholeInv
<1>4. link = active
  BY <1>1, <1>3 DEF Idle, ServedInv
<1>5. CASE /\ Idle /\ data_cp_write("whole", m)
           /\ ctl' = [ctl EXCEPT !.wanted = Tail(@)]
  <2>1. ctl.half = FALSE /\ ctl'.half = FALSE /\ ServedInv'
    BY <1>2, <1>3, <1>4, <1>5 DEF ServedInv, Idle
  <2>. QED  BY <1>4, <1>5, <2>1, WholeWrite
<1>6. CASE /\ Idle /\ data_cp_write("first", m)
           /\ ctl' = [ctl EXCEPT !.half = TRUE]
  <2>1. ctl.half = FALSE /\ ctl'.half = TRUE /\ ServedInv'
    BY <1>2, <1>3, <1>4, <1>6 DEF ServedInv, Idle
  <2>. QED  BY <1>4, <1>6, <2>1, WholeWrite
<1>7. CASE /\ ctl.half /\ data_cp_write("last", m)
           /\ ctl' = [ctl EXCEPT !.half = FALSE, !.wanted = Tail(@)]
  <2>1. ctl.half = TRUE /\ ctl'.half = FALSE /\ ServedInv'
    BY <1>2, <1>3, <1>4, <1>7 DEF ServedInv
  <2>. QED  BY <1>4, <1>7, <2>1, WholeWrite
<1>. QED  BY <1>1, <1>5, <1>6, <1>7

LEMMA WholeGreet == WholeInv /\ Greet => WholeInv'
<1>. SUFFICES ASSUME WholeInv, Greet
              PROVE  WholeInv'
  OBVIOUS
<1>1. PICK m : data_cp_write("whole", m)
  BY DEF Greet
<1>2. ctl.greeted < 2 /\ ctl' = [ctl EXCEPT !.greeted = @ + 1, !.awaiting = ctl.greeted = 1]
  BY DEF Greet
<1>3. UNCHANGED <<link, active>> /\ link # None
  BY <1>1 DEF data_cp_write, linkVars
<1>4. ctl.half = FALSE /\ ctl.greeted \in 0..2 /\ ctl.greeted # 2
  BY <1>2 DEF WholeInv, ServedInv
<1>5. /\ ctl'.greeted = ctl.greeted + 1 /\ ctl'.awaiting = (ctl.greeted = 1)
      /\ ctl'.half = ctl.half /\ DOMAIN ctl' = DOMAIN ctl
  BY <1>2 DEF WholeInv, ServedInv
<1>6. ctl'.greeted \in 0..2 /\ (ctl'.greeted = 2 => ctl'.awaiting = TRUE)
  <2>1. ctl.greeted + 1 \in 0..2 /\ (ctl.greeted + 1 = 2 => ctl.greeted = 1)
    BY <1>4
  <2>2. ctl.greeted = 1 => ctl'.awaiting = TRUE
    BY <1>5, Zenon
  <2>. QED  BY <1>5, <2>1, <2>2
<1>7. ServedInv'
  BY <1>3, <1>4, <1>5, <1>6 DEF WholeInv, ServedInv
<1>. QED  BY <1>1, <1>4, <1>5, <1>7, WholeWrite

LEMMA WholeOthers ==
  WholeInv /\ (Pause \/ Resume \/ RescindAsset \/ RescindAll \/ Query) => WholeInv'
<1>. SUFFICES ASSUME WholeInv, Pause \/ Resume \/ RescindAsset \/ RescindAll \/ Query
              PROVE  WholeInv'
  OBVIOUS
<1>1. \E m : Command(m)
  BY Zenon DEF Pause, Resume, RescindAsset, RescindAll, Query
<1>2. /\ ctl'.awaiting = TRUE /\ ctl'.greeted = ctl.greeted /\ ctl'.half = ctl.half
      /\ DOMAIN ctl' = DOMAIN ctl
  BY DEF WholeInv, ServedInv, Pause, Resume, RescindAsset, RescindAll, Query
<1>. QED  BY <1>1, <1>2, WholeCommand

LEMMA WholeOffer == WholeInv /\ Offer => WholeInv'
<1>. SUFFICES ASSUME WholeInv, Offer
              PROVE  WholeInv'
  OBVIOUS
<1>1. PICK v \in Versions :
        /\ Idle
        /\ data_cp_write("whole", Msg("OFFER", offers + 1, <<"VERSION", v, 0>>))
        /\ ctl' = [ctl EXCEPT !.awaiting = TRUE, !.ids = @ \cup {offers + 1}]
  BY DEF Offer
<1>2. UNCHANGED <<link, active>> /\ link # None
  BY <1>1 DEF data_cp_write, linkVars
<1>3. ctl.half = FALSE /\ ctl'.half = FALSE /\ ServedInv'
  BY <1>1, <1>2 DEF WholeInv, ServedInv, Idle
<1>. QED  BY <1>1, <1>3, WholeWrite

(* The inductive invariant of a message's parts. *)
LEMMA WholeAlways == Spec => []WholeInv
<1>1. WholeInv /\ [Next]_vars => WholeInv'
  <2>. SUFFICES ASSUME WholeInv, [Next]_vars
                PROVE  WholeInv'
    OBVIOUS
  <2>1. CASE Controller
    <3>1. CASE Connect
      BY <3>1, WholeConnect
    <3>2. CASE Greet
      BY <3>2, WholeGreet
    <3>3. CASE Pause \/ Resume \/ RescindAsset \/ RescindAll \/ Query
      BY <3>3, WholeOthers
    <3>4. CASE Offer
      BY <3>4, WholeOffer
    <3>5. CASE Answer
      BY <3>5, WholeAnswer
    <3>6. CASE Confirm
      BY <3>6, WholeConfirm
    <3>7. CASE LinkLost
      BY <3>7, WholeLost
    <3>. QED  BY <2>1, <3>1, <3>2, <3>3, <3>4, <3>5, <3>6, <3>7 DEF Controller
  <2>2. CASE Service
    <3>1. CASE submit_event_disconnect
      BY <3>1, WholeGone
    <3>2. CASE handle_disconnect
      BY <3>2, WholeDisconnect
    <3>3. CASE handle_indication_ack
      BY <3>3, WholeAck
    <3>4. CASE handle_write
      BY <3>4, WholeHandled
    <3>. QED  BY <2>2, <3>1, <3>2, <3>3, <3>4 DEF Service
  <2>3. CASE UNCHANGED vars
    BY <2>3 DEF vars, serviceVars, linkVars, countVars, WholeInv, ServedInv
  <2>. QED  BY <2>1, <2>2, <2>3 DEF Next
<1>. QED  BY <1>1, WholeInit, PTL DEF Spec

(* Every message handed to the accessory is put together of the writes of   *)
(* one message, however often the link is lost in between (handle_write()   *)
(* of fmna_uarp_service.c and its static buffer).                           *)
THEOREM MessagesAreWhole == Spec => []MessagesWhole
<1>1. WholeInv => MessagesWhole
  BY DEF WholeInv, MessagesWhole
<1>. QED  BY <1>1, WholeAlways, PTL

-----------------------------------------------------------------------------
(* Acknowledgements. *)

IsAck(e, c) == e.id = "ACK" /\ e.conn = c
NoAck(q, c) == \A i \in 1..Len(q) : ~IsAck(q[i], c)

(* What is being sent on the connection c is acknowledged once: by the      *)
(* indication under way or by an event; and those of connections that have  *)
(* ended will be told from those of the next.                               *)
Acks(q, c, l, flying, sending) ==
  /\ Queue(q)
  /\ \A i \in 1..Len(q) : q[i].conn # None
  /\ flying => l = c /\ c # None /\ sending = "sent" /\ NoAck(q, c)
  /\ \A i, j \in 1..Len(q) : IsAck(q[i], c) /\ IsAck(q[j], c) => i = j
  /\ sending = "none" => NoAck(q, c)
  /\ c = None => sending = "none"
  /\ \A i, j \in 1..Len(q) :
       q[i].id = "ACK" /\ q[i].conn # c => q[i].conn # l /\ ~IsWrite(q[j], q[i].conn)

(* What is in a queue after an event was added, and after one was taken.    *)
LEMMA Appended ==
  ASSUME NEW q, Queue(q), NEW e
  PROVE  /\ Queue(Append(q, e)) /\ Len(q) \in Nat
         /\ \A i \in 1..Len(Append(q, e)) :
              \/ i \in 1..Len(q) /\ Append(q, e)[i] = q[i]
              \/ i = Len(q) + 1 /\ Append(q, e)[i] = e
         /\ \A i \in 1..Len(q) : i # Len(q) + 1
BY QueueAppend, QueueLen

LEMMA Taken ==
  ASSUME NEW q, Queue(q), q # <<>>
  PROVE  /\ Queue(Tail(q)) /\ 1 \in 1..Len(q) /\ Head(q) = q[1]
         /\ \A i \in 1..Len(Tail(q)) :
              i + 1 \in 1..Len(q) /\ Tail(q)[i] = q[i + 1] /\ i + 1 # 1
         /\ \A i, j \in 1..Len(Tail(q)) : i + 1 = j + 1 => i = j
<1>1. /\ Queue(Tail(q)) /\ Len(q) \in Nat /\ Len(q) > 0 /\ Len(Tail(q)) = Len(q) - 1
      /\ Head(q) = q[1]
      /\ \A i \in 1..Len(q) - 1 : Tail(q)[i] = q[i + 1]
  BY QueueTail
<1>. QED  BY <1>1

(* Events that acknowledge nothing.                                         *)
LEMMA AcksAppend ==
  ASSUME NEW q, NEW c, NEW l, NEW f, NEW s, Acks(q, c, l, f, s), NEW e, e.conn # None,
         e.id # "ACK", e.id = "WRITE" => e.conn = l
  PROVE  Acks(Append(q, e), c, l, f, s)
<1>. DEFINE r == Append(q, e)
<1>1. /\ Queue(r)
      /\ \A i \in 1..Len(r) : (i \in 1..Len(q) /\ r[i] = q[i]) \/ r[i] = e
  BY Appended DEF Acks
<1>. HIDE DEF r
<1>2. \A i \in 1..Len(r) : \A d : IsAck(r[i], d) => i \in 1..Len(q) /\ r[i] = q[i] /\ IsAck(q[i], d)
  BY <1>1 DEF IsAck
<1>3. NoAck(q, c) => NoAck(r, c)
  BY <1>2 DEF NoAck
<1>4. \A i \in 1..Len(r) : r[i].conn # None
  BY <1>1 DEF Acks
<1>5. \A i, j \in 1..Len(r) : IsAck(r[i], c) /\ IsAck(r[j], c) => i = j
  BY <1>2 DEF Acks
<1>6. ASSUME NEW i \in 1..Len(r), NEW j \in 1..Len(r), r[i].id = "ACK", r[i].conn # c
      PROVE  r[i].conn # l /\ ~IsWrite(r[j], r[i].conn)
  <2>1. i \in 1..Len(q) /\ r[i] = q[i]
    BY <1>1, <1>6
  <2>2. q[i].conn # l /\ \A k \in 1..Len(q) : ~IsWrite(q[k], q[i].conn)
    BY <1>6, <2>1 DEF Acks
  <2>3. ~IsWrite(e, q[i].conn)
    BY <2>2 DEF IsWrite
  <2>. QED  BY <1>1, <2>1, <2>2, <2>3
<1>7. Acks(r, c, l, f, s)
  BY <1>1, <1>3, <1>4, <1>5, <1>6, Zenon DEF Acks
<1>. QED  BY <1>7 DEF r

(* The first event is taken; if it is the acknowledgement, none is left.    *)
LEMMA AcksTail ==
  ASSUME NEW q, NEW c, NEW l, NEW f, NEW s, Acks(q, c, l, f, s), q # <<>>
  PROVE  /\ Acks(Tail(q), c, l, f, s)
         /\ IsAck(Head(q), c) => NoAck(Tail(q), c) /\ ~f /\ c # None
<1>. DEFINE r == Tail(q)
<1>1. /\ Queue(r) /\ 1 \in 1..Len(q) /\ Head(q) = q[1]
      /\ \A i \in 1..Len(r) : i + 1 \in 1..Len(q) /\ r[i] = q[i + 1] /\ i + 1 # 1
      /\ \A i, j \in 1..Len(r) : i + 1 = j + 1 => i = j
  BY Taken DEF Acks
<1>. HIDE DEF r
<1>2. NoAck(q, c) => NoAck(r, c)
  BY <1>1 DEF NoAck
<1>3. \A i \in 1..Len(r) : r[i].conn # None
  BY <1>1 DEF Acks
<1>4. \A i, j \in 1..Len(r) : IsAck(r[i], c) /\ IsAck(r[j], c) => i = j
  BY <1>1 DEF Acks
<1>5. \A i, j \in 1..Len(r) :
        r[i].id = "ACK" /\ r[i].conn # c => r[i].conn # l /\ ~IsWrite(r[j], r[i].conn)
  BY <1>1 DEF Acks
<1>6. Acks(r, c, l, f, s)
  BY <1>1, <1>2, <1>3, <1>4, <1>5, Zenon DEF Acks
<1>7. IsAck(q[1], c) => NoAck(r, c) /\ ~f /\ c # None
  <2>. SUFFICES ASSUME IsAck(q[1], c)
                PROVE  NoAck(r, c) /\ ~f /\ c # None
    OBVIOUS
  <2>1. NoAck(r, c)
    BY <1>1 DEF Acks, NoAck
  <2>2. ~NoAck(q, c)
    BY <1>1 DEF NoAck
  <2>3. c # None
    BY <1>1 DEF Acks, IsAck
  <2>. QED  BY <2>1, <2>2, <2>3, Zenon DEF Acks
<1>. QED  BY <1>1, <1>6, <1>7 DEF r

(* An acknowledgement of what has begun to be sent. *)
LEMMA AcksSend ==
  ASSUME NEW q, NEW c, NEW l, NEW f, NEW s, Acks(q, c, l, f, s), NoAck(q, c), c # None,
         NEW t \in {"new", "sent"}, NEW e, IsAck(e, c)
  PROVE  Acks(Append(q, e), c, l, FALSE, t)
<1>. DEFINE r == Append(q, e)
<1>1. /\ Queue(r)
      /\ \A i \in 1..Len(r) : \/ i \in 1..Len(q) /\ r[i] = q[i]
                              \/ i = Len(q) + 1 /\ r[i] = e
  BY Appended DEF Acks
<1>. HIDE DEF r
<1>2. \A i \in 1..Len(r) : r[i].conn # None
  BY <1>1 DEF Acks, IsAck
<1>3. \A i \in 1..Len(r) : IsAck(r[i], c) => i = Len(q) + 1
  BY <1>1 DEF NoAck
<1>4. ASSUME NEW i \in 1..Len(r), NEW j \in 1..Len(r), r[i].id = "ACK", r[i].conn # c
      PROVE  r[i].conn # l /\ ~IsWrite(r[j], r[i].conn)
  <2>1. i \in 1..Len(q) /\ r[i] = q[i]
    BY <1>1, <1>4 DEF IsAck
  <2>2. q[i].conn # l /\ \A k \in 1..Len(q) : ~IsWrite(q[k], q[i].conn)
    BY <1>4, <2>1 DEF Acks
  <2>3. ~IsWrite(e, q[i].conn)
    BY DEF IsWrite, IsAck
  <2>. QED  BY <1>1, <2>1, <2>2, <2>3
<1>5. Acks(r, c, l, FALSE, t)
  BY <1>1, <1>2, <1>3, <1>4, Zenon DEF Acks
<1>. QED  BY <1>5 DEF r

(* The service takes up a connection, and gives one up. *)
LEMMA AcksTaken ==
  ASSUME NEW q, NEW l, NEW f, NEW s, Acks(q, None, l, f, s), q # <<>>, NEW c,
         IsWrite(Head(q), c)
  PROVE  /\ Acks(Tail(q), c, l, FALSE, "none") /\ NoAck(Tail(q), c) /\ c # None
<1>. DEFINE r == Tail(q)
<1>1. /\ 1 \in 1..Len(q) /\ Head(q) = q[1]
      /\ \A i \in 1..Len(r) : i + 1 \in 1..Len(q) /\ r[i] = q[i + 1]
  BY Taken DEF Acks
<1>2. Acks(r, None, l, f, s)
  BY AcksTail
<1>. HIDE DEF r
<1>3. c # None
  BY <1>1 DEF Acks, IsWrite
<1>4. NoAck(r, c)
  <2>. SUFFICES ASSUME NEW i \in 1..Len(r), IsAck(r[i], c)
                PROVE  FALSE
    BY DEF NoAck
  <2>1. q[i + 1].id = "ACK" /\ q[i + 1].conn = c /\ i + 1 \in 1..Len(q)
    BY <1>1 DEF IsAck
  <2>2. ~IsWrite(q[1], c)
    BY <1>1, <1>3, <2>1 DEF Acks
  <2>. QED  BY <1>1, <2>2
<1>5. \A i, j \in 1..Len(r) :
        r[i].id = "ACK" /\ r[i].conn # c => r[i].conn # l /\ ~IsWrite(r[j], r[i].conn)
  BY <1>2 DEF Acks
<1>6. Acks(r, c, l, FALSE, "none")
  BY <1>2, <1>3, <1>4, <1>5, Zenon DEF Acks, NoAck
<1>. QED  BY <1>3, <1>4, <1>6 DEF r

(* It gives one up: what acknowledgements are left are of no link.          *)
LEMMA AcksEnd ==
  ASSUME NEW q, NEW c, NEW l, NEW gone, NEW f, NEW s, Acks(q, c, l, f, s), q # <<>>,
         Ends(q, l, gone), Head(q).id = "DISCONNECT", Head(q).conn = c
  PROVE  Acks(Tail(q), None, l, FALSE, "none") /\ ~f
<1>. DEFINE r == Tail(q)
<1>1. /\ 1 \in 1..Len(q) /\ Head(q) = q[1] /\ Len(q) \in Nat
      /\ \A i \in 1..Len(r) : i + 1 \in 1..Len(q) /\ r[i] = q[i + 1] /\ i + 1 # 1
  BY Taken, QueueLen DEF Acks
<1>2. Acks(r, c, l, f, s)
  BY AcksTail
<1>. HIDE DEF r
<1>3. c # l /\ \A i \in 2..Len(q) : ~IsWrite(q[i], c)
  <2>1. 1 + 1 = 2
    OBVIOUS
  <2>. QED  BY <1>1, <2>1 DEF Ends
<1>4. \A i \in 1..Len(r) : ~IsWrite(r[i], c)
  <2>1. \A i \in 1..Len(r) : i + 1 \in 2..Len(q)
    BY <1>1
  <2>. QED  BY <1>1, <1>3, <2>1
<1>5. ~f
  BY <1>3, Zenon DEF Acks
<1>6. NoAck(r, None)
  BY <1>2 DEF Acks, NoAck, IsAck
<1>7. \A i, j \in 1..Len(r) :
        r[i].id = "ACK" /\ r[i].conn # None => r[i].conn # l /\ ~IsWrite(r[j], r[i].conn)
  BY <1>2, <1>3, <1>4 DEF Acks
<1>8. Acks(r, None, l, FALSE, "none")
  BY <1>2, <1>6, <1>7, Zenon DEF Acks, NoAck
<1>. QED  BY <1>5, <1>8 DEF r

-----------------------------------------------------------------------------
(* Messages. *)

(* The message of the event i of q fits the accessory x; offers and         *)
(* rescissions wait for nothing before them.                                *)
Carries(q, i, c, x, n) ==
  LET m == q[i].msg IN
  /\ m \in Message
  /\ m.type = "DATA" => Within(m.arg[1], m.arg[2], m.arg[3])
  /\ m.type \in {"OFFER", "RESCIND"} =>
       i = 1 /\ q[i].conn = c /\ c # None /\ q[i].part = "whole" /\ Fits(x, m)
  /\ m.type = "OFFER" => m.k \in 1..n

Messages(q, c, x, n) == \A i \in 1..Len(q) : q[i].id = "WRITE" => Carries(q, i, c, x, n)

(* Commands that ask nothing of the accessory, data of requests, and other  *)
(* events.                                                                  *)
LEMMA MessagesAppend ==
  ASSUME NEW q, Queue(q), NEW c, NEW x, NEW n, Messages(q, c, x, n), NEW e,
         e.id = "WRITE" => /\ e.msg \in Message /\ e.msg.type \notin {"OFFER", "RESCIND"}
                           /\ e.msg.type = "DATA" =>
                                Within(e.msg.arg[1], e.msg.arg[2], e.msg.arg[3])
  PROVE  Messages(Append(q, e), c, x, n)
<1>. DEFINE r == Append(q, e)
<1>1. \A i \in 1..Len(r) : (i \in 1..Len(q) /\ r[i] = q[i]) \/ r[i] = e
  BY Appended
<1>. HIDE DEF r
<1>2. Messages(r, c, x, n)
  BY <1>1 DEF Messages, Carries
<1>. QED  BY <1>2 DEF r

(* After the first event nothing depends on the accessory. *)
LEMMA MessagesTail ==
  ASSUME NEW q, Queue(q), q # <<>>, NEW c, NEW x, NEW n, Messages(q, c, x, n), NEW d, NEW y
  PROVE  Messages(Tail(q), d, y, n)
<1>. DEFINE r == Tail(q)
<1>1. \A i \in 1..Len(r) : i + 1 \in 1..Len(q) /\ r[i] = q[i + 1] /\ i + 1 # 1
  BY Taken
<1>. HIDE DEF r
<1>2. Messages(r, d, y, n)
  BY <1>1 DEF Messages, Carries
<1>. QED  BY <1>2 DEF r

-----------------------------------------------------------------------------
(* The invariant. *)

(* What a controller of the repository's test does not do. *)
UsualController ==
  Races \cap {"header_orphan", "new_offer", "rescind_denied", "rescind_applied"} = {}

Client ==
  /\ {"wanted", "ids", "paused", "half", "greeted", "awaiting"} \subseteq DOMAIN ctl
  /\ Queue(ctl.wanted)
  /\ \A i \in 1..Len(ctl.wanted) :
       LET m == ctl.wanted[i] IN m \in Message /\ m.type = "REQUEST" /\ Asks(m)
  /\ ctl.ids \subseteq 1..offers

UpdateInv ==
  /\ a \in Accessory /\ Sound(a) /\ Buffers(a) /\ ~a.kick
  /\ Messages(fifo, active, a, offers)
  /\ Listed(a) \subseteq 1..offers /\ offers \in 0..MaxOffers
  /\ Acks(fifo, active, link, in_flight, a.sending)
  /\ Client

LEMMA NewSound == Sound(NewAccessory) /\ Buffers(NewAccessory)
<1>. DEFINE x == NewAccessory
<1>1. /\ x.state = "NONE" /\ x.asset = None /\ ~x.transfer /\ ~x.reboot /\ x.fault = "none"
      /\ x.buf = NoMsg /\ x.pending = NoMsg /\ x.sending = "none"
      /\ \A k \in Offers : x.obj[k] = NoAsset
      /\ x.order = <<>>
  BY DEF NewAccessory
<1>2. Listed(x) = {}
  <2>1. Len(x.order) = 0
    BY <1>1, EmptyQueue
  <2>. QED  BY <2>1 DEF Listed
<1>3. NoAsset.req = NoRequest /\ NoRequest.left = 0
  BY DEF NoAsset, NoRequest
<1>. HIDE DEF x
<1>4. Owner(x) /\ Listing(x) /\ Requests(x)
  BY <1>1, <1>2, <1>3, NoRequestSound DEF Owner, Listing, Requests
<1>5. Rest(x) /\ Posed(x) /\ Live(x) /\ Complete(x)
  BY <1>1, <1>4 DEF Rest, Posed, Live, Complete
<1>6. Buffers(x)
  BY <1>1 DEF Buffers, Asks, NoMsg, Msg
<1>. QED  BY <1>5, <1>6 DEF Sound, Sturdy, x

(* The invariant holds at the start.                                        *)
LEMMA UpdateInit == Init => UpdateInv
<1>. SUFFICES ASSUME Init
              PROVE  UpdateInv
  OBVIOUS
<1>1. a \in Accessory /\ Sound(a) /\ Buffers(a)
  BY NewTyped, NewSound DEF Init
<1>2. ~a.kick /\ a.sending = "none" /\ a.order = <<>>
  BY DEF Init, NewAccessory
<1>3. Listed(a) = {}
  BY <1>2, EmptyQueue DEF Listed
<1>4. offers = 0 /\ 0 \in 0..MaxOffers
  BY Lengths DEF Init
<1>5. Messages(fifo, active, a, offers) /\ Acks(fifo, active, link, in_flight, a.sending)
  <2>1. fifo = <<>> /\ Queue(fifo) /\ Len(fifo) = 0 /\ in_flight = FALSE
    BY EmptyQueue DEF Init
  <2>. QED  BY <1>2, <2>1 DEF Messages, Acks, NoAck
<1>6. Client
  <2>1. ctl.wanted = <<>> /\ ctl.ids = {}
        /\ {"wanted", "ids", "paused", "half", "greeted", "awaiting"} \subseteq DOMAIN ctl
    BY DEF Init, NewController
  <2>. QED  BY <2>1, EmptyQueue DEF Client
<1>. QED  BY <1>1, <1>2, <1>3, <1>4, <1>5, <1>6 DEF UpdateInv

-----------------------------------------------------------------------------
(* The controller writes. *)

(* A write that the accessory takes in any state.                           *)
LEMMA UpdateWrite ==
  ASSUME NEW m \in Message, m.type \notin {"OFFER", "RESCIND"},
         m.type = "DATA" => Within(m.arg[1], m.arg[2], m.arg[3]),
         NEW part, UpdateInv, data_cp_write(part, m), offers' = offers, Client'
  PROVE  UpdateInv'
<1>. DEFINE e == Write(part, m)
<1>1. /\ fifo' = Append(fifo, e) /\ link # None
      /\ a' = a /\ active' = active /\ link' = link /\ in_flight' = in_flight
  BY DEF data_cp_write, serviceVars, linkVars
<1>2. e.id = "WRITE" /\ e.conn = link /\ e.msg = m
  BY DEF Write, Event
<1>. HIDE DEF e
<1>3. Messages(fifo, active, a, offers) /\ Acks(fifo, active, link, in_flight, a.sending)
  BY DEF UpdateInv
<1>4. Acks(fifo', active, link, in_flight, a.sending)
  BY <1>1, <1>2, <1>3, AcksAppend
<1>5. Messages(fifo', active, a, offers)
  <2>1. Queue(fifo)
    BY <1>3 DEF Acks
  <2>. QED  BY <1>1, <1>2, <1>3, <2>1, MessagesAppend
<1>. QED  BY <1>1, <1>4, <1>5 DEF UpdateInv

(* A command that the accessory may not expect: nothing waits before it. *)
LEMMA MessagesFirst ==
  ASSUME NEW e, e.conn # None, e.part = "whole", NEW x, NEW n, Fits(x, e.msg),
         e.msg.type = "OFFER" => e.msg.k \in 1..n
  PROVE  Messages(Append(<<>>, e), e.conn, x, n)
<1>1. \A i \in 1..Len(Append(<<>>, e)) : i = 1 /\ Append(<<>>, e)[i] = e
  BY EmptyQueue, Appended
<1>. QED  BY <1>1 DEF Messages, Carries, Fits

(* Nothing changes the accessory before such a command is handled.          *)
LEMMA UpdateFirst ==
  ASSUME NEW m, Fits(a, m), UpdateInv, WholeInv, Idle, fifo = <<>>,
         data_cp_write("whole", m), offers' \in 0..MaxOffers, offers' >= offers,
         m.type = "OFFER" => m.k \in 1..offers', Client'
  PROVE  UpdateInv'
<1>. DEFINE e == Write("whole", m)
<1>1. /\ fifo' = Append(fifo, e) /\ link # None
      /\ a' = a /\ active' = active /\ link' = link /\ in_flight' = in_flight
  BY DEF data_cp_write, serviceVars, linkVars
<1>2. e.id = "WRITE" /\ e.conn = link /\ e.msg = m /\ e.part = "whole"
  BY DEF Write, Event
<1>. HIDE DEF e
<1>3. link = active
  BY DEF WholeInv, ServedInv, Idle
<1>4. Acks(fifo', active, link, in_flight, a.sending)
  BY <1>1, <1>2, AcksAppend DEF UpdateInv
<1>5. Messages(fifo', active, a, offers')
  BY <1>1, <1>2, <1>3, MessagesFirst
<1>6. Listed(a) \subseteq 1..offers'
  BY DEF UpdateInv
<1>. QED  BY <1>1, <1>4, <1>5, <1>6 DEF UpdateInv

(* The controller's record changes, but not in what it holds of requests.   *)
LEMMA ClientKept ==
  ASSUME Client, ctl'.ids \subseteq 1..offers',
         {"wanted", "ids", "paused", "half", "greeted", "awaiting"} \subseteq DOMAIN ctl',
         ctl'.wanted \in {ctl.wanted, <<>>}
  PROVE  Client'
<1>1. CASE ctl'.wanted = ctl.wanted
  BY <1>1 DEF Client
<1>2. CASE ctl'.wanted = <<>>
  BY <1>2, EmptyQueue DEF Client
<1>. QED  BY <1>1, <1>2

LEMMA PlainMessage ==
  \A t \in Types \ {"OFFER", "RESCIND", "DATA"} :
    LET m == Msg(t, None, NoArg) IN
    m \in Message /\ m.type \notin {"OFFER", "RESCIND"} /\ m.type # "DATA"
<1>1. \A t \in Types : Msg(t, None, NoArg) \in Message
  BY NoMsgTyped, MessageTyped DEF None
<1>. QED  BY <1>1 DEF Msg

(* One lemma per action of the controller.                                  *)
LEMMA UpdateGreet == UpdateInv /\ Greet => UpdateInv'
<1>. SUFFICES ASSUME UpdateInv, Greet
              PROVE  UpdateInv'
  OBVIOUS
<1>. DEFINE t == IF ctl.greeted = 0 THEN "SYNC" ELSE "INFO"
            m == Msg(t, None, NoArg)
<1>1. t \in Types \ {"OFFER", "RESCIND", "DATA"}
  BY DEF Types
<1>2. /\ data_cp_write("whole", m) /\ offers' = offers
      /\ ctl' = [ctl EXCEPT !.greeted = @ + 1, !.awaiting = ctl.greeted = 1]
  BY DEF Greet
<1>. HIDE DEF t
<1>3. m \in Message /\ m.type \notin {"OFFER", "RESCIND"} /\ m.type # "DATA"
  BY <1>1, PlainMessage
<1>. HIDE DEF m
<1>4. Client /\ ctl'.wanted = ctl.wanted /\ ctl'.ids = ctl.ids /\ DOMAIN ctl' = DOMAIN ctl
  BY <1>2 DEF UpdateInv, Client
<1>5. Client'
  BY <1>2, <1>4, ClientKept DEF Client
<1>. QED  BY <1>2, <1>3, <1>5, UpdateWrite

LEMMA UpdatePlain ==
  ASSUME UpdateInv, NEW t \in {"PAUSE", "RESUME", "INFO", "APPLY"},
         Command(Msg(t, None, NoArg)), ctl'.ids = ctl.ids, DOMAIN ctl' = DOMAIN ctl,
         ctl'.wanted \in {ctl.wanted, <<>>}
  PROVE  UpdateInv'
<1>. DEFINE m == Msg(t, None, NoArg)
<1>1. t \in Types \ {"OFFER", "RESCIND", "DATA"}
  BY DEF Types
<1>2. m \in Message /\ m.type \notin {"OFFER", "RESCIND"} /\ m.type # "DATA"
  BY <1>1, PlainMessage
<1>3. data_cp_write("whole", m) /\ offers' = offers
  BY DEF Command
<1>. HIDE DEF m
<1>4. Client'
  BY <1>3, ClientKept DEF UpdateInv, Client
<1>. QED  BY <1>2, <1>3, <1>4, UpdateWrite

LEMMA UpdateOthers == UpdateInv /\ (Pause \/ Resume \/ Query) => UpdateInv'
<1>. SUFFICES ASSUME UpdateInv, Pause \/ Resume \/ Query
              PROVE  UpdateInv'
  OBVIOUS
<1>1. {"wanted", "ids", "paused", "half", "greeted", "awaiting"} \subseteq DOMAIN ctl
  BY DEF UpdateInv, Client
<1>2. CASE Pause
  <2>1. /\ Command(Msg("PAUSE", None, NoArg))
        /\ ctl' = [ctl EXCEPT !.awaiting = TRUE, !.paused = TRUE, !.wanted = <<>>]
    BY <1>2 DEF Pause
  <2>2. ctl'.ids = ctl.ids /\ DOMAIN ctl' = DOMAIN ctl /\ ctl'.wanted = <<>>
    BY <1>1, <2>1
  <2>. QED  BY <2>1, <2>2, UpdatePlain
<1>3. CASE Resume
  <2>1. /\ Command(Msg("RESUME", None, NoArg))
        /\ ctl' = [ctl EXCEPT !.awaiting = TRUE, !.paused = FALSE]
    BY <1>3 DEF Resume
  <2>2. ctl'.ids = ctl.ids /\ DOMAIN ctl' = DOMAIN ctl /\ ctl'.wanted = ctl.wanted
    BY <1>1, <2>1
  <2>. QED  BY <2>1, <2>2, UpdatePlain
<1>4. CASE Query
  <2>1. PICK t \in {"INFO", "APPLY"} : /\ Command(Msg(t, None, NoArg))
                                       /\ ctl' = [ctl EXCEPT !.awaiting = TRUE]
    BY <1>4 DEF Query
  <2>2. ctl'.ids = ctl.ids /\ DOMAIN ctl' = DOMAIN ctl /\ ctl'.wanted = ctl.wanted
    BY <1>1, <2>1
  <2>. QED  BY <2>1, <2>2, UpdatePlain
<1>. QED  BY <1>2, <1>3, <1>4

LEMMA UpdateRescind ==
  ASSUME UsualController, UpdateInv, WholeInv, NEW id \in Offers \cup {None},
         \A k \in Listed(a) : a.obj[k].ctrl /\ id \in {None, a.obj[k].id} => Rescindable(a.obj[k].id),
         fifo = <<>>, Command(Msg("RESCIND", id, NoArg)),
         ctl'.ids \subseteq ctl.ids, DOMAIN ctl' = DOMAIN ctl, ctl'.wanted = ctl.wanted
  PROVE  UpdateInv'
<1>. DEFINE m == Msg("RESCIND", id, NoArg)
<1>1. data_cp_write("whole", m) /\ offers' = offers /\ Idle
  BY DEF Command
<1>2. m \in Message
  <2>1. id \in Int /\ "RESCIND" \in Types /\ NoArg \in Texts \X Int \X Int
    BY NoMsgTyped DEF Offers, None, Types
  <2>. QED  BY <2>1, MessageTyped
<1>3. m.type = "RESCIND" /\ m.k = id
  BY DEF Msg
<1>4. RescindFits(a, id)
  <2>. SUFFICES ASSUME NEW k \in Listed(a), a.obj[k].ctrl, id \in {None, a.obj[k].id}
                PROVE  ~a.obj[k].marked /\ ~(k = a.asset /\ a.reboot)
    BY DEF RescindFits
  <2>1. Rescindable(a.obj[k].id) /\ k \in FoundById(a, a.obj[k].id)
    BY DEF FoundById
  <2>2. "rescind_denied" \notin Races /\ "rescind_applied" \notin Races
    BY DEF UsualController
  <2>. QED  BY <2>1, <2>2 DEF Rescindable
<1>5. Fits(a, m)
  BY <1>2, <1>3, <1>4 DEF Fits
<1>6. Client'
  BY <1>1, ClientKept DEF UpdateInv, Client
<1>7. offers' \in 0..MaxOffers /\ offers' >= offers
  BY <1>1 DEF UpdateInv
<1>. HIDE DEF m
<1>. QED  BY <1>1, <1>3, <1>5, <1>6, <1>7, UpdateFirst

LEMMA UpdateRescindOne == UsualController /\ UpdateInv /\ WholeInv /\ RescindAsset => UpdateInv'
<1>. SUFFICES ASSUME UsualController, UpdateInv, WholeInv, RescindAsset
              PROVE  UpdateInv'
  OBVIOUS
<1>1. PICK id \in ctl.ids : /\ Rescindable(id) /\ Command(Msg("RESCIND", id, NoArg))
                            /\ ctl' = [ctl EXCEPT !.awaiting = TRUE, !.ids = @ \ {id}]
  BY DEF RescindAsset
<1>2. id \in Offers /\ id # None
  <2>1. id \in 1..offers /\ offers \in 0..MaxOffers /\ MaxOffers \in Nat
    BY Lengths DEF UpdateInv, Client
  <2>. QED  BY <2>1 DEF Offers, None
<1>3. ctl'.ids \subseteq ctl.ids /\ DOMAIN ctl' = DOMAIN ctl /\ ctl'.wanted = ctl.wanted
  BY <1>1 DEF UpdateInv, Client
<1>4. fifo = <<>>
  BY <1>1 DEF Rescindable
<1>. QED  BY <1>1, <1>2, <1>3, <1>4, UpdateRescind

LEMMA UpdateRescindAll == UsualController /\ UpdateInv /\ WholeInv /\ RescindAll => UpdateInv'
<1>. SUFFICES ASSUME UsualController, UpdateInv, WholeInv, RescindAll
              PROVE  UpdateInv'
  OBVIOUS
<1>1. /\ \A id \in Offers : Rescindable(id)
      /\ Command(Msg("RESCIND", None, NoArg))
      /\ ctl' = [ctl EXCEPT !.awaiting = TRUE, !.ids = {}]
  BY DEF RescindAll
<1>2. ctl'.ids \subseteq ctl.ids /\ DOMAIN ctl' = DOMAIN ctl /\ ctl'.wanted = ctl.wanted
  BY <1>1 DEF UpdateInv, Client
<1>3. fifo = <<>>
  <2>1. 1 \in Offers
    BY Lengths DEF Offers
  <2>. QED  BY <1>1, <2>1 DEF Rescindable
<1>4. \A k \in Listed(a) : Rescindable(a.obj[k].id)
  BY <1>1 DEF UpdateInv, Sound, Sturdy, Rest, Listing
<1>. QED  BY <1>1, <1>2, <1>3, <1>4, UpdateRescind

LEMMA UpdateOffer == UsualController /\ UpdateInv /\ WholeInv /\ Offer => UpdateInv'
<1>. SUFFICES ASSUME UsualController, UpdateInv, WholeInv, Offer
              PROVE  UpdateInv'
  OBVIOUS
<1>1. PICK v \in Versions :
        /\ Idle /\ offers < MaxOffers /\ fifo = <<>> /\ a.buf = NoMsg /\ Offerable(v)
        /\ data_cp_write("whole", Msg("OFFER", offers + 1, <<"VERSION", v, 0>>))
        /\ ctl' = [ctl EXCEPT !.awaiting = TRUE, !.ids = @ \cup {offers + 1}]
        /\ offers' = offers + 1
  BY DEF Offer
<1>. DEFINE g == <<"VERSION", v, 0>>
            m == Msg("OFFER", offers + 1, g)
<1>2. offers \in Nat /\ offers + 1 \in Offers /\ offers' \in 0..MaxOffers /\ offers' >= offers
      /\ offers + 1 \in 1..offers' /\ offers + 1 \notin 1..offers /\ 1..offers \subseteq 1..offers'
  BY <1>1, Lengths DEF UpdateInv, Offers
<1>3. m \in Message /\ m.type = "OFFER" /\ m.k = offers + 1 /\ m.arg[2] = v
  <2>1. v \in Int
    BY Lengths
  <2>2. offers + 1 \in Int /\ "OFFER" \in Types /\ g \in Texts \X Int \X Int
    BY <1>2, <2>1 DEF Types, Texts
  <2>3. m \in Message
    BY <2>2, MessageTyped
  <2>. QED  BY <2>3 DEF Msg
<1>4. OfferFits(a, v)
  <2>1. "header_orphan" \notin Races /\ "new_offer" \notin Races
    BY DEF UsualController
  <2>. QED  BY <1>1, <2>1 DEF Offerable, OfferFits
<1>5. data_cp_write("whole", m)
  BY <1>1
<1>. HIDE DEF m
<1>6. Fits(a, m)
  BY <1>1, <1>2, <1>3, <1>4 DEF Fits, UpdateInv
<1>7. Client'
  <2>1. ctl'.wanted = ctl.wanted /\ ctl'.ids = ctl.ids \cup {offers + 1} /\ DOMAIN ctl' = DOMAIN ctl
    BY <1>1 DEF UpdateInv, Client
  <2>. QED  BY <1>2, <2>1, ClientKept DEF UpdateInv, Client
<1>. QED  BY <1>1, <1>2, <1>3, <1>5, <1>6, <1>7, UpdateFirst

(* The answer to a request is a unit that the accessory may have asked for. *)
LEMMA UpdateAnswer == UpdateInv /\ Answer => UpdateInv'
<1>. SUFFICES ASSUME UpdateInv, Answer
              PROVE  UpdateInv'
  OBVIOUS
<1>. DEFINE r == Head(ctl.wanted)
            m == [r EXCEPT !.type = "DATA"]
<1>1. PICK part : data_cp_write(part, m)
  BY DEF Answer
<1>2. /\ offers' = offers /\ ctl.wanted # <<>>
      /\ \/ ctl' = [ctl EXCEPT !.wanted = Tail(@)]
         \/ ctl' = [ctl EXCEPT !.half = TRUE]
         \/ ctl' = [ctl EXCEPT !.half = FALSE, !.wanted = Tail(@)]
  BY DEF Answer
<1>3. Client /\ Queue(ctl.wanted)
  BY DEF UpdateInv, Client
<1>4. /\ r = ctl.wanted[1] /\ 1 \in 1..Len(ctl.wanted) /\ Queue(Tail(ctl.wanted))
      /\ \A i \in 1..Len(Tail(ctl.wanted)) :
           i + 1 \in 1..Len(ctl.wanted) /\ Tail(ctl.wanted)[i] = ctl.wanted[i + 1]
  BY <1>2, <1>3, Taken
<1>. HIDE DEF r
<1>5. r \in Message /\ r.type = "REQUEST" /\ Asks(r)
  BY <1>3, <1>4 DEF Client
<1>6. m \in Message /\ m.type = "DATA" /\ m.arg = r.arg
  BY <1>5 DEF Message, Types
<1>7. Within(m.arg[1], m.arg[2], m.arg[3])
  BY <1>5, <1>6 DEF Asks
<1>. HIDE DEF m
<1>8. Client'
  <2>1. /\ DOMAIN ctl' = DOMAIN ctl /\ ctl'.ids = ctl.ids
        /\ ctl'.wanted = ctl.wanted \/ ctl'.wanted = Tail(ctl.wanted)
    BY <1>2, <1>3 DEF Client
  <2>2. CASE ctl'.wanted = ctl.wanted
    BY <1>2, <1>3, <2>1, <2>2, ClientKept DEF Client
  <2>3. CASE ctl'.wanted = Tail(ctl.wanted)
    BY <1>2, <1>3, <1>4, <2>1, <2>3 DEF Client
  <2>. QED  BY <2>1, <2>2, <2>3
<1>. QED  BY <1>1, <1>2, <1>6, <1>7, <1>8, UpdateWrite

-----------------------------------------------------------------------------
(* The link. *)

LEMMA NewClient == ctl' = NewController => Client'
<1>. SUFFICES ASSUME ctl' = NewController
              PROVE  Client'
  OBVIOUS
<1>1. ctl'.wanted = <<>> /\ ctl'.ids = {}
      /\ {"wanted", "ids", "paused", "half", "greeted", "awaiting"} \subseteq DOMAIN ctl'
  BY DEF NewController
<1>. QED  BY <1>1, EmptyQueue DEF Client

LEMMA UpdateConnect == UpdateInv /\ Connect => UpdateInv'
<1>. SUFFICES ASSUME UpdateInv, Connect
              PROVE  UpdateInv'
  OBVIOUS
<1>1. PICK c \in Slots : c # active /\ link' = c /\ \A i \in 1..Len(fifo) : fifo[i].conn # c
  BY DEF Connect
<1>2. /\ link = None /\ ctl' = NewController
      /\ a' = a /\ active' = active /\ fifo' = fifo /\ in_flight' = in_flight /\ offers' = offers
  BY DEF Connect, serviceVars
<1>3. Acks(fifo, active, link, in_flight, a.sending)
  BY DEF UpdateInv
<1>4. ~in_flight
  BY <1>2, <1>3, Zenon DEF Acks
<1>5. Acks(fifo, active, c, in_flight, a.sending)
  BY <1>1, <1>3, <1>4, Zenon DEF Acks
<1>6. Client'
  BY <1>2, NewClient
<1>. QED  BY <1>1, <1>2, <1>5, <1>6 DEF UpdateInv

(* An event that is no write is put into the queue. *)
LEMMA MessagesOther ==
  ASSUME UpdateInv, NEW e, e.id # "WRITE"
  PROVE  Messages(Append(fifo, e), active, a, offers)
<1>1. Messages(fifo, active, a, offers) /\ Queue(fifo)
  BY DEF UpdateInv, Acks
<1>. QED  BY <1>1, MessagesAppend

LEMMA UpdateConfirm == UpdateInv /\ Confirm => UpdateInv'
<1>. SUFFICES ASSUME UpdateInv, Confirm
              PROVE  UpdateInv'
  OBVIOUS
<1>. DEFINE e == Ack(link, FALSE)
<1>1. /\ in_flight /\ link = active /\ in_flight' = FALSE
      /\ ctl' = Heard(a.buf) /\ fifo' = Append(fifo, e)
      /\ a' = a /\ active' = active /\ link' = link /\ offers' = offers
  BY DEF Confirm, linkVars, countVars
<1>2. e.id = "ACK" /\ IsAck(e, active)
  BY <1>1 DEF Ack, Event, IsAck
<1>. HIDE DEF e
<1>3. Acks(fifo, active, link, in_flight, a.sending)
  BY DEF UpdateInv
<1>4. active # None /\ a.sending = "sent" /\ NoAck(fifo, active)
  BY <1>1, <1>3, Zenon DEF Acks
<1>5. Acks(fifo', active, link, FALSE, a.sending)
  BY <1>1, <1>2, <1>3, <1>4, AcksSend
<1>6. Messages(fifo', active, a, offers)
  BY <1>1, <1>2, MessagesOther
<1>7. Client'
  <2>1. Client /\ a.buf \in Message /\ Asks(a.buf)
    BY DEF UpdateInv, Accessory, Buffers
  <2>2. /\ DOMAIN ctl' = DOMAIN ctl /\ ctl'.ids = ctl.ids
        /\ \/ ctl'.wanted = ctl.wanted
           \/ a.buf.type = "REQUEST" /\ ctl'.wanted = Append(ctl.wanted, a.buf)
    BY <1>1, <2>1 DEF Client, Heard
  <2>3. CASE ctl'.wanted = ctl.wanted
    BY <1>1, <2>1, <2>2, <2>3, ClientKept DEF Client
  <2>4. CASE a.buf.type = "REQUEST" /\ ctl'.wanted = Append(ctl.wanted, a.buf)
    <3>. DEFINE w == Append(ctl.wanted, a.buf)
    <3>1. /\ Queue(w)
          /\ \A i \in 1..Len(w) :
               (i \in 1..Len(ctl.wanted) /\ w[i] = ctl.wanted[i]) \/ w[i] = a.buf
      BY <2>1, Appended DEF Client
    <3>2. ctl'.wanted = w
      BY <2>4
    <3>. HIDE DEF w
    <3>3. \A i \in 1..Len(w) : w[i] \in Message /\ w[i].type = "REQUEST" /\ Asks(w[i])
      BY <2>1, <2>4, <3>1 DEF Client
    <3>. QED  BY <1>1, <2>1, <2>2, <3>1, <3>2, <3>3 DEF Client
  <2>. QED  BY <2>2, <2>3, <2>4
<1>. QED  BY <1>1, <1>5, <1>6, <1>7 DEF UpdateInv

LEMMA UpdateLost == UpdateInv /\ LinkLost => UpdateInv'
<1>. SUFFICES ASSUME UpdateInv, LinkLost
              PROVE  UpdateInv'
  OBVIOUS
<1>. DEFINE e == Ack(link, TRUE)
<1>1. /\ link # None /\ link' = None /\ in_flight' = FALSE /\ ctl' = NewController
      /\ fifo' = IF in_flight THEN Append(fifo, e) ELSE fifo
      /\ a' = a /\ active' = active /\ offers' = offers
  BY DEF LinkLost, countVars
<1>2. e.id = "ACK" /\ IsAck(e, link)
  BY DEF Ack, Event, IsAck
<1>. HIDE DEF e
<1>3. Acks(fifo, active, link, in_flight, a.sending)
  BY DEF UpdateInv
<1>4. Acks(fifo', active, link, FALSE, a.sending)
  <2>1. CASE in_flight
    <3>1. link = active /\ active # None /\ a.sending = "sent" /\ NoAck(fifo, active)
      BY <1>3, <2>1, Zenon DEF Acks
    <3>2. fifo' = Append(fifo, e)
      BY <1>1, <2>1
    <3>. QED  BY <1>2, <1>3, <3>1, <3>2, AcksSend
  <2>2. CASE ~in_flight
    <3>1. fifo' = fifo
      BY <1>1, <2>2
    <3>. QED  BY <1>3, <2>2, <3>1, Zenon DEF Acks
  <2>. QED  BY <2>1, <2>2
<1>5. Acks(fifo', active, None, FALSE, a.sending)
  BY <1>4, Zenon DEF Acks
<1>6. Messages(fifo', active, a, offers)
  <2>1. fifo' = Append(fifo, e) \/ fifo' = fifo
    BY <1>1
  <2>2. Messages(fifo, active, a, offers)
    BY DEF UpdateInv
  <2>. QED  BY <1>2, <2>1, <2>2, MessagesOther
<1>7. Client'
  BY <1>1, NewClient
<1>. QED  BY <1>1, <1>5, <1>6, <1>7 DEF UpdateInv

LEMMA UpdateGone == UpdateInv /\ WholeInv /\ submit_event_disconnect => UpdateInv'
<1>. SUFFICES ASSUME UpdateInv, WholeInv, submit_event_disconnect
              PROVE  UpdateInv'
  OBVIOUS
<1>1. PICK c \in leaving : /\ fifo' = Append(fifo, Disconnect(c)) /\ a' = a /\ active' = active
                           /\ link' = link /\ in_flight' = in_flight /\ ctl' = ctl
                           /\ offers' = offers
  BY DEF submit_event_disconnect, countVars
<1>2. c # None
  BY NoSlot DEF WholeInv
<1>3. Disconnect(c).id = "DISCONNECT" /\ Disconnect(c).conn = c
  BY DEF Disconnect, Event
<1>4. Acks(fifo', active, link, in_flight, a.sending)
  BY <1>1, <1>2, <1>3, AcksAppend DEF UpdateInv
<1>5. Messages(fifo', active, a, offers)
  BY <1>1, <1>3, MessagesOther
<1>. QED  BY <1>1, <1>4, <1>5 DEF UpdateInv, Client

-----------------------------------------------------------------------------
(* The service handles an event, with the outcome x. *)

LEMMA UpdateHandled ==
  ASSUME UpdateInv, fifo # <<>>, NEW x \in Accessory, Sound(x), Buffers(x),
         Listed(x) \subseteq 1..offers, Handled(x),
         \/ ~x.kick /\ Acks(Tail(fifo), active', link, in_flight', x.sending)
         \/ /\ x.kick /\ Acks(Tail(fifo), active', link, FALSE, "none")
            /\ active' # None /\ x.sending = "new" /\ ~in_flight'
  PROVE  UpdateInv'
<1>. DEFINE e == Ack(active', FALSE)
            r == Tail(fifo)
<1>1. /\ a' = Settled(x) /\ fifo' = IF x.kick THEN Append(r, e) ELSE r
      /\ link' = link /\ ctl' = ctl /\ offers' = offers
  BY DEF Handled, Settled, linkVars, countVars
<1>2. e.id = "ACK" /\ IsAck(e, active')
  BY DEF Ack, Event, IsAck
<1>3. Queue(fifo) /\ Queue(r) /\ Messages(fifo, active, a, offers)
  BY Taken DEF UpdateInv, Acks
<1>4. Messages(r, active', a', offers)
  BY <1>3, MessagesTail
<1>. HIDE DEF e, r
<1>5. /\ a' \in Accessory /\ Sound(a') /\ Buffers(a') /\ ~a'.kick
      /\ a'.sending = x.sending /\ Listed(a') \subseteq 1..offers
  BY <1>1, SettledSound
<1>6. Messages(fifo', active', a', offers)
  BY <1>1, <1>2, <1>3, <1>4, MessagesAppend
<1>7. Acks(fifo', active', link, in_flight', x.sending)
  <2>1. CASE x.kick
    <3>1. /\ Acks(r, active', link, FALSE, "none") /\ active' # None /\ x.sending = "new"
          /\ ~in_flight' /\ fifo' = Append(r, e)
      BY <1>1, <2>1 DEF r
    <3>2. NoAck(r, active')
      BY <3>1 DEF Acks
    <3>3. Acks(fifo', active', link, FALSE, x.sending)
      BY <1>2, <3>1, <3>2, AcksSend
    <3>. QED  BY <3>1, <3>3, Zenon DEF Acks
  <2>2. CASE ~x.kick
    BY <1>1, <2>2 DEF r
  <2>. QED  BY <2>1, <2>2
<1>8. Client'
  BY <1>1 DEF UpdateInv, Client
<1>. QED  BY <1>1, <1>5, <1>6, <1>7, <1>8 DEF UpdateInv

LEMMA UpdateIgnored == UpdateInv /\ fifo # <<>> /\ IgnoredEvent => UpdateInv'
<1>. SUFFICES ASSUME UpdateInv, fifo # <<>>, IgnoredEvent
              PROVE  UpdateInv'
  OBVIOUS
<1>1. Handled(a) /\ active' = active /\ in_flight' = in_flight
  BY DEF IgnoredEvent
<1>2. Acks(Tail(fifo), active, link, in_flight, a.sending)
  BY AcksTail DEF UpdateInv
<1>. QED  BY <1>1, <1>2, UpdateHandled DEF UpdateInv

(* The disconnection of the connection served, or of another.               *)
LEMMA UpdateDisconnect == UpdateInv /\ WholeInv /\ handle_disconnect => UpdateInv'
<1>. SUFFICES ASSUME UpdateInv, WholeInv, handle_disconnect
              PROVE  UpdateInv'
  OBVIOUS
<1>1. fifo # <<>> /\ Head(fifo).id = "DISCONNECT"
  BY DEF handle_disconnect, Handles
<1>2. CASE Head(fifo).conn # active /\ IgnoredEvent
  BY <1>1, <1>2, UpdateIgnored
<1>3. CASE Head(fifo).conn = active /\ active' = None /\ Handled(Disconnected) /\ in_flight' = in_flight
  <2>. DEFINE x == Disconnected
  <2>1. /\ x \in Accessory /\ Sound(x) /\ Buffers(x) /\ Listed(x) \subseteq Listed(a)
        /\ x.sending = "none" /\ x.kick = a.kick
    BY DisconnectedSound DEF UpdateInv, Disconnected
  <2>2. Acks(fifo, active, link, in_flight, a.sending) /\ Ends(fifo, link, leaving)
    BY DEF UpdateInv, WholeInv
  <2>3. Acks(Tail(fifo), None, link, FALSE, "none") /\ ~in_flight
    BY <1>1, <1>3, <2>2, AcksEnd
  <2>. HIDE DEF x
  <2>4. in_flight' = FALSE \/ in_flight \notin BOOLEAN
    BY <1>3, <2>3
  <2>5. Acks(Tail(fifo), None, link, in_flight', x.sending)
    BY <1>3, <2>1, <2>3, Zenon DEF Acks
  <2>6. Handled(x) /\ ~x.kick /\ Listed(x) \subseteq 1..offers
    BY <1>3, <2>1 DEF UpdateInv, x
  <2>. QED  BY <1>1, <1>3, <2>1, <2>5, <2>6, UpdateHandled
<1>. QED  BY <1>2, <1>3 DEF handle_disconnect

(* An acknowledgement: the indication is started, or it is over.            *)
LEMMA UpdateAck == UpdateInv /\ handle_indication_ack => UpdateInv'
<1>. SUFFICES ASSUME UpdateInv, handle_indication_ack
              PROVE  UpdateInv'
  OBVIOUS
<1>1. fifo # <<>> /\ Head(fifo).id = "ACK"
  BY DEF handle_indication_ack, Handles
<1>2. a \in Accessory /\ Sound(a) /\ Buffers(a) /\ ~a.kick /\ Listed(a) \subseteq 1..offers
      /\ Acks(fifo, active, link, in_flight, a.sending)
  BY DEF UpdateInv
<1>3. Head(fifo).conn = active =>
        /\ Acks(Tail(fifo), active, link, in_flight, a.sending)
        /\ NoAck(Tail(fifo), active) /\ ~in_flight /\ active # None
  <2>1. Head(fifo).conn = active => IsAck(Head(fifo), active)
    BY <1>1 DEF IsAck
  <2>. QED  BY <1>1, <1>2, <2>1, AcksTail
<1>4. CASE /\ Head(fifo).conn = active /\ active' = active
           /\ Handled(send_message_complete(a)) /\ in_flight' = in_flight
  <2>. DEFINE x == send_message_complete(a)
  <2>1. /\ x \in Accessory /\ Sound(x) /\ Buffers(x) /\ Listed(x) = Listed(a)
        /\ x.sending = IF x.kick THEN "new" ELSE "none"
    BY <1>2, CompleteSound
  <2>2. Handled(x)
    BY <1>4
  <2>. HIDE DEF x
  <2>3. Acks(Tail(fifo), active, link, FALSE, "none")
    BY <1>3, <1>4, Zenon DEF Acks
  <2>4. ~in_flight'
    BY <1>3, <1>4
  <2>5. CASE x.kick
    BY <1>1, <1>2, <1>3, <1>4, <2>1, <2>2, <2>3, <2>4, <2>5, UpdateHandled
  <2>6. CASE ~x.kick
    <3>1. Acks(Tail(fifo), active', link, in_flight', x.sending)
      <4>1. x.sending = "none" /\ active' = active
        BY <1>4, <2>1, <2>6
      <4>. QED  BY <2>3, <2>4, <4>1, Zenon DEF Acks
    <3>. QED  BY <1>1, <1>2, <2>1, <2>2, <2>6, <3>1, UpdateHandled
  <2>. QED  BY <2>5, <2>6
<1>5. CASE /\ Head(fifo).conn = active /\ active' = active /\ link = active /\ a.sending = "new"
           /\ Handled([a EXCEPT !.sending = "sent"])
  <2>. DEFINE x == [a EXCEPT !.sending = "sent"]
  <2>1. /\ x \in Accessory /\ Sound(x) /\ Buffers(x) /\ Listed(x) = Listed(a)
        /\ x.sending = "sent" /\ x.kick = a.kick
    BY <1>2, <1>5, SendingSound
  <2>2. Handled(x)
    BY <1>5
  <2>. HIDE DEF x
  <2>3. Acks(Tail(fifo), active, link, in_flight', "sent")
    <3>1. /\ Acks(Tail(fifo), active, link, in_flight, a.sending)
          /\ NoAck(Tail(fifo), active) /\ active # None /\ link = active
      BY <1>3, <1>5
    <3>. QED  BY <3>1, Zenon DEF Acks
  <2>. QED  BY <1>1, <1>2, <1>5, <2>1, <2>2, <2>3, UpdateHandled
<1>6. CASE IgnoredEvent
  BY <1>1, <1>6, UpdateIgnored
<1>. QED  BY <1>4, <1>5, <1>6 DEF handle_indication_ack

(* A message, whole or in part, of the connection served or of a new one.   *)
LEMMA UpdateTaken ==
  ASSUME UpdateInv, fifo # <<>>, NEW c, IsWrite(Head(fifo), c), active \in {None, c},
         active' = c, in_flight' = in_flight,
         NEW x, Leads(a, x), Sound(x), Buffers(x), Listed(x) \subseteq 1..offers, Handled(x)
  PROVE  UpdateInv'
<1>1. a \in Accessory /\ Buffers(a) /\ ~a.kick /\ Acks(fifo, active, link, in_flight, a.sending)
  BY DEF UpdateInv
<1>2. x \in Accessory /\ Sent(a, x)
  BY DEF Leads
<1>3. c # None
  <2>1. 1 \in 1..Len(fifo) /\ Head(fifo) = fifo[1]
    BY <1>1, Taken DEF Acks
  <2>. QED  BY <1>1, <2>1 DEF Acks, IsWrite
<1>4. Acks(Tail(fifo), c, link, in_flight, a.sending)
  <2>1. CASE active = c
    BY <1>1, <2>1, AcksTail
  <2>2. CASE active = None
    <3>1. Acks(Tail(fifo), c, link, FALSE, "none") /\ ~in_flight /\ a.sending = "none"
      <4>1. Acks(fifo, None, link, in_flight, a.sending)
        BY <1>1, <2>2
      <4>2. ~in_flight /\ a.sending = "none"
        BY <4>1, Zenon DEF Acks
      <4>3. Acks(Tail(fifo), c, link, FALSE, "none")
        BY <4>1, AcksTaken
      <4>. QED  BY <4>2, <4>3
    <3>. QED  BY <3>1, Zenon DEF Acks
  <2>. QED  BY <2>1, <2>2
<1>5. CASE x.sending = a.sending /\ x.kick = a.kick
  BY <1>1, <1>2, <1>4, <1>5, UpdateHandled
<1>6. CASE a.buf = NoMsg /\ x.sending = "new" /\ x.kick = TRUE
  <2>1. a.sending = "none"
    BY <1>1, <1>6 DEF Buffers
  <2>2. ~in_flight /\ Acks(Tail(fifo), c, link, FALSE, "none")
    BY <1>4, <2>1, Zenon DEF Acks
  <2>. QED  BY <1>2, <1>3, <1>6, <2>2, UpdateHandled
<1>. QED  BY <1>2, <1>5, <1>6 DEF Sent

(* What a message relies on outlives the start of the flash.                *)
LEMMA FitsAlike ==
  ASSUME NEW x \in Accessory, Sound(x), NEW y, Alike(x, y), y.buf = x.buf, NEW m, Fits(x, m)
  PROVE  Fits(y, m)
<1>1. x.asset \in Offers \/ x.state # "ORPHANED"
  BY SoundFacts DEF Owner
<1>2. Listed(y) = Listed(x)
  BY DEF Alike, SameBut, Listed
<1>. QED  BY <1>1, <1>2, OfferKept, RescindKept DEF Fits

(* A write: of a part of a message, or of the end of one, which is then     *)
(* handed to the accessory.                                                 *)
LEMMA UpdateHandledWrite == UpdateInv /\ handle_write => UpdateInv'
<1>. SUFFICES ASSUME UpdateInv, handle_write
              PROVE  UpdateInv'
  OBVIOUS
<1>. DEFINE e == Head(fifo)
            b == IF active = None THEN controller_add(a) ELSE a
            m == e.msg
<1>1. fifo # <<>> /\ e.id = "WRITE"
  BY DEF handle_write, Handles
<1>2. a \in Accessory /\ Sound(a) /\ Buffers(a) /\ Listed(a) \subseteq 1..offers
      /\ Messages(fifo, active, a, offers) /\ Queue(fifo)
  BY DEF UpdateInv, Acks
<1>3. Resumed(a, b)
  <2>1. Resumed(a, a)
    BY <1>2, LeadsHere, AlikeHere DEF Resumed
  <2>2. Resumed(a, controller_add(a))
    BY <1>2, AddReceives
  <2>. QED  BY <2>1, <2>2
<1>4. active # None => b = a
  OBVIOUS
<1>5. CASE IgnoredEvent
  BY <1>1, <1>5, UpdateIgnored
<1>6. CASE /\ active \in {None, e.conn} /\ active' = e.conn /\ in_flight' = in_flight
           /\ Handled(b) \/ \E io \in BOOLEAN : Handled(RecvMessage([b EXCEPT !.io = io], m))
  <2>. HIDE DEF b
  <2>1. b \in Accessory /\ Sound(b) /\ Buffers(b) /\ Leads(a, b) /\ Listed(b) \subseteq 1..offers
    BY <1>2, <1>3, ReceivesAlike DEF Resumed, Receives, Leads, Alike, SameBut, Listed
  <2>2. IsWrite(e, e.conn)
    BY <1>1 DEF IsWrite
  <2>3. CASE Handled(b)
    BY <1>1, <1>6, <2>1, <2>2, <2>3, UpdateTaken
  <2>4. CASE \E io \in BOOLEAN : Handled(RecvMessage([b EXCEPT !.io = io], m))
    <3>1. PICK io \in BOOLEAN : Handled(RecvMessage([b EXCEPT !.io = io], m))
      BY <2>4
    <3>. DEFINE x == [b EXCEPT !.io = io]
                y == RecvMessage(x, m)
                S == IF m.type = "OFFER" THEN {m.k} ELSE {}
    <3>2. Leads(b, x) /\ Alike(b, x) /\ Buffers(x) /\ x.buf = b.buf
      BY <2>1, FlashSound
    <3>3. Handled(y)
      BY <3>1
    <3>. HIDE DEF x
    <3>4. x \in Accessory /\ Sound(x) /\ Listed(x) = Listed(b)
      BY <2>1, <3>2, SoundAlike DEF Leads, Alike, SameBut, Listed
    <3>5. Carries(fifo, 1, active, a, offers) /\ e = fifo[1]
      <4>1. 1 \in 1..Len(fifo) /\ e = fifo[1]
        BY <1>1, <1>2, Taken
      <4>. QED  BY <1>1, <1>2, <4>1 DEF Messages
    <3>6. Fits(x, m)
      <4>1. CASE m.type \in {"OFFER", "RESCIND"}
        <5>1. active # None /\ Fits(a, m)
          BY <3>5, <4>1 DEF Carries
        <5>2. b = a
          BY <1>4, <5>1 DEF b
        <5>. QED  BY <1>2, <3>2, <5>1, <5>2, FitsAlike
      <4>2. CASE m.type \notin {"OFFER", "RESCIND"}
        BY <3>5, <4>2 DEF Carries, Fits
      <4>. QED  BY <4>1, <4>2
    <3>7. Receives(x, S, y)
      BY <3>2, <3>4, <3>6, MessageReceives
    <3>8. S \subseteq 1..offers
      BY <3>5 DEF Carries
    <3>. HIDE DEF y, S
    <3>9. Leads(a, y) /\ Sound(y) /\ Buffers(y) /\ Listed(y) \subseteq 1..offers
      BY <2>1, <3>2, <3>4, <3>7, <3>8, LeadsTrans DEF Receives
    <3>. QED  BY <1>1, <1>6, <2>2, <3>3, <3>9, UpdateTaken
  <2>. QED  BY <1>6, <2>3, <2>4
<1>7. \/ IgnoredEvent
      \/ /\ active \in {None, e.conn} /\ active' = e.conn /\ in_flight' = in_flight
         /\ Handled(b) \/ \E io \in BOOLEAN : Handled(RecvMessage([b EXCEPT !.io = io], m))
  BY Zenon DEF handle_write
<1>. QED  BY <1>5, <1>6, <1>7

(* Every step keeps the invariant.                                          *)
LEMMA UpdateNext ==
  ASSUME UsualController, UpdateInv, WholeInv, [Next]_vars
  PROVE  UpdateInv'
<1>1. CASE Controller
  <2>1. CASE Connect
    BY <2>1, UpdateConnect
  <2>2. CASE Greet
    BY <2>2, UpdateGreet
  <2>3. CASE Pause \/ Resume \/ Query
    BY <2>3, UpdateOthers
  <2>4. CASE RescindAsset
    BY <2>4, UpdateRescindOne
  <2>5. CASE RescindAll
    BY <2>5, UpdateRescindAll
  <2>6. CASE Offer
    BY <2>6, UpdateOffer
  <2>7. CASE Answer
    BY <2>7, UpdateAnswer
  <2>8. CASE Confirm
    BY <2>8, UpdateConfirm
  <2>9. CASE LinkLost
    BY <2>9, UpdateLost
  <2>. QED  BY <1>1, <2>1, <2>2, <2>3, <2>4, <2>5, <2>6, <2>7, <2>8, <2>9 DEF Controller
<1>2. CASE Service
  <2>1. CASE submit_event_disconnect
    BY <2>1, UpdateGone
  <2>2. CASE handle_disconnect
    BY <2>2, UpdateDisconnect
  <2>3. CASE handle_indication_ack
    BY <2>3, UpdateAck
  <2>4. CASE handle_write
    BY <2>4, UpdateHandledWrite
  <2>. QED  BY <1>2, <2>1, <2>2, <2>3, <2>4 DEF Service
<1>3. CASE UNCHANGED vars
  BY <1>3 DEF vars, serviceVars, linkVars, countVars, UpdateInv, Client
<1>. QED  BY <1>1, <1>2, <1>3 DEF Next

LEMMA UpdateAlways ==
  ASSUME UsualController
  PROVE  Spec => []UpdateInv
<1>1. UpdateInv /\ WholeInv /\ [Next]_vars => UpdateInv'
  BY UpdateNext
<1>. QED  BY <1>1, UpdateInit, WholeAlways, PTL DEF Spec

(* No assertion of fmna_uarp.c fails, for any number of offers, payloads,   *)
(* units and link losses: data come only during a transfer, one transfer    *)
(* runs at a time, an asset given up has its delegate.                      *)
THEOREM AssertionsAlwaysHold ==
  ASSUME UsualController
  PROVE  Spec => []AssertionsHold
<1>1. UpdateInv => AssertionsHold
  BY SoundFacts DEF UpdateInv, AssertionsHold
<1>. QED  BY <1>1, UpdateAlways, PTL

(* What is staged, applied or booted is in the flash as a whole, in order,  *)
(* of one version, and verified (payload_data_complete() and                *)
(* apply_and_reboot()).                                                     *)
THEOREM ImagesAreWhole ==
  ASSUME UsualController
  PROVE  Spec => []AppliedWhole
<1>1. UpdateInv => AppliedWhole
  <2>. SUFFICES ASSUME UpdateInv, a.state \in {"STAGED", "APPLIED"} \/ a.reboot
                PROVE  /\ a.asset # None
                       /\ \A p \in AppPayloads \cap 1..a.obj[a.asset].index :
                            Done(a, a.obj[a.asset].v, p)
    BY DEF AppliedWhole, Done
  <2>1. a.state \in {"STAGED", "APPLIED"} /\ a.asset # None
    BY SoundFacts DEF UpdateInv, Owner
  <2>2. DoneUpTo(a, a.obj[a.asset].index)
    BY <2>1 DEF UpdateInv, Sound, Sturdy, Complete
  <2>3. a.obj[a.asset].index \in Int
    BY <2>1, OwnAsset, ObjTyped DEF UpdateInv, Asset
  <2>. QED  BY <2>1, <2>2, <2>3 DEF DoneUpTo
<1>. QED  BY <1>1, UpdateAlways, PTL

(* However often the link is lost, the flash, the hash and the asset have   *)
(* received the same of an open transfer (lengthPayloadRecvd, hash_ctx and  *)
(* the stream of the flash writer).                                         *)
THEOREM TransfersResumeInStep ==
  ASSUME UsualController
  PROVE  Spec => []ResumePoint
<1>1. UpdateInv => ResumePoint
  <2>. SUFFICES ASSUME UpdateInv, a.transfer, a.state \in {"ACTIVE", "ORPHANED"}
                PROVE  ResumePoint
    BY DEF ResumePoint
  <2>. DEFINE o == a.obj[a.asset]
  <2>1. a.asset # None /\ a.asset \in Offers
    BY SoundFacts DEF UpdateInv, Owner
  <2>2. o.req.left > 0 /\ At(a)
    BY <2>1 DEF UpdateInv, Sound, Sturdy, Live, Posed
  <2>3. o.req.type \in RequestTypes
    BY <2>1, ObjTyped DEF UpdateInv, Asset, Request
  <2>4. o.req.type = "PAYLOAD"
    BY <2>2, <2>3 DEF At, AtHeader, AtMetadata, AtPayloadHeader, AtPayloadMetadata, RequestTypes
  <2>5. InStep(a) /\ AtPayload(a, o)
    BY <2>2, <2>4 DEF UpdateInv, Sound, Live, At, AtData
  <2>. QED  BY <2>5 DEF ResumePoint, InStep, AtPayload
<1>. QED  BY <1>1, UpdateAlways, PTL

(* The service sends what the accessory has handed over and nothing else,   *)
(* whichever of them frees a buffer, and an indication is in flight only    *)
(* for it.                                                                  *)
THEOREM BuffersAlwaysAgree ==
  ASSUME UsualController
  PROVE  Spec => []BuffersAgree
<1>1. UpdateInv => BuffersAgree
  BY DEF UpdateInv, BuffersAgree, Buffers, Acks
<1>. QED  BY <1>1, UpdateAlways, PTL

-----------------------------------------------------------------------------
(* Who has the next step of a transfer. *)

Served(c, l)    == l # None /\ l = c
Delivered(x, f) == x.sending = "sent" /\ ~f
Speaks(x, f)    == x.sending # "none" /\ ~Delivered(x, f)

(* The accessory x has no response to send.                                 *)
NoAnswer(x, f) == (Speaks(x, f) => x.buf.type # "ACK") /\ x.pending.type # "ACK"

Commands        == {"INFO", "PAUSE", "RESUME", "RESCIND", "OFFER", "APPLY"}
IsCommand(e, l) == IsWrite(e, l) /\ e.msg.type \in Commands
IsData(e, l)    == IsWrite(e, l) /\ e.msg.type = "DATA" /\ e.part # "first"
Other(e, l)     == IsCommand(e, l) /\ e.msg.type # "PAUSE"

(* Before the event i of q, what has been sent is taken out of the way.     *)
Cleared(q, i, c, x, f) == Delivered(x, f) /\ \E j \in 1..i - 1 : IsAck(q[j], c)

(* Assets that are listed have identifiers that were offered, those of the  *)
(* controller one each, and the one that is received is the controller's.   *)
Distinct ==
  /\ \A j \in Listed(a) : a.obj[j].id \in 1..offers
  /\ \A j, k \in Listed(a) : a.obj[j].ctrl /\ a.obj[k].ctrl /\ a.obj[j].id = a.obj[k].id => j = k
  /\ a.state = "ACTIVE" => a.obj[a.asset].ctrl

(* What the accessory sends is confirmed some time.                         *)
Sending ==
  /\ active = None => a.state # "ACTIVE"
  /\ a.sending # "none" => in_flight \/ ~NoAck(fifo, active)
  /\ \A i \in 1..Len(fifo) : IsAck(fifo[i], link) => fifo[i].part = "ok"

(* The controller commands one thing at a time, awaits the response, and    *)
(* asks for nothing but its greeting before it is served.                   *)
Talk ==
  /\ ctl.greeted < 2 => ~ctl.awaiting
  /\ ~Served(active, link) =>
       /\ ctl.wanted = <<>> /\ ~ctl.paused /\ ~ctl.half
       /\ \A i \in 1..Len(fifo) : IsWrite(fifo[i], link) => fifo[i].msg.type \in {"SYNC", "INFO"}
  /\ \A i \in 1..Len(fifo) : IsCommand(fifo[i], link) =>
       /\ ctl.awaiting /\ fifo[i].part = "whole"
       /\ Served(active, link) => NoAnswer(a, in_flight)
       /\ \A j \in i + 1..Len(fifo) : ~IsWrite(fifo[j], link)
       /\ fifo[i].msg.type = "OFFER" => ~ctl.paused
  /\ Served(active, link) /\ ~ctl.awaiting => NoAnswer(a, in_flight)
  /\ Served(active, link) /\ Speaks(a, in_flight) /\ a.buf.type = "ACK" => a.pending.type # "ACK"

(* What is asked for, and offered, has an identifier that was given to it.  *)
Given(m, n) == m.type = "REQUEST" => m.k \in 1..n
Numbers ==
  /\ \A i \in 1..Len(ctl.wanted) : ctl.wanted[i].k \in 1..offers
  /\ Served(active, link) => Given(a.buf, offers) /\ Given(a.pending, offers)
  /\ \A i \in 1..Len(fifo) : fifo[i].id = "WRITE" /\ fifo[i].msg.type = "OFFER" =>
       /\ \A j \in Listed(a) : a.obj[j].id # fifo[i].msg.k
       /\ \A j \in 1..Len(ctl.wanted) : ctl.wanted[j].k # fifo[i].msg.k

(* A controller that has paused owes no answer; after the response nothing  *)
(* may be asked for, nor is anything left to be sent.                       *)
Paused ==
  ctl.paused =>
    /\ ctl.wanted = <<>> /\ ~ctl.half
    /\ (~ctl.awaiting \/ ~NoAnswer(a, in_flight) \/ \E i \in 1..Len(fifo) : Other(fifo[i], link)) =>
         ~a.allowed
    /\ ~ctl.awaiting \/ (\E i \in 1..Len(fifo) : Other(fifo[i], link)) =>
         a.pending = NoMsg /\ (a.buf = NoMsg \/ Delivered(a, in_flight))
    /\ Speaks(a, in_flight) /\ a.buf.type = "ACK" => a.pending = NoMsg
    /\ (\E i \in 1..Len(fifo) : IsData(fifo[i], link)) =>
         \E i \in 1..Len(fifo) : IsCommand(fifo[i], link) /\ fifo[i].msg.type = "PAUSE"

(* When the transfer is resumed nothing is in the way of the request.       *)
Resuming ==
  \A i \in 1..Len(fifo) : IsCommand(fifo[i], link) /\ fifo[i].msg.type = "RESUME" =>
    /\ Served(active, link) /\ ~a.allowed /\ a.pending = NoMsg
    /\ a.buf = NoMsg \/ Cleared(fifo, i, active, a, in_flight)
    /\ ctl.wanted = <<>> /\ ~ctl.paused /\ ~ctl.half /\ NoneRescinded(a)
    /\ \A j \in 1..Len(fifo) : ~IsData(fifo[j], link)

(* The request for the next unit of the superbinary that is received, and   *)
(* where it is not.                                                         *)
Id(x)    == x.obj[x.asset].id
Token(x) == TokenOf(x, x.asset)

NotBuf(x, f)     == ~(Speaks(x, f) /\ x.buf.type = "REQUEST" /\ x.buf.k = Id(x))
NotPending(x)    == ~(x.pending.type = "REQUEST" /\ x.pending.k = Id(x))
NotWanted(x, w)  == \A i \in 1..Len(w) : w[i].k # Id(x)
NotData(x, q, l) == \A i \in 1..Len(q) : IsData(q[i], l) => q[i].msg.k # Id(x)

(* It is to be made yet, is in one of the buffers, known to the controller, *)
(* or answered already.                                                     *)
Nowhere ==
  /\ NotBuf(a, in_flight) /\ NotPending(a) /\ NotWanted(a, ctl.wanted) /\ NotData(a, fifo, link)
  /\ ~a.allowed \/ ctl.paused
InBuf ==
  /\ Speaks(a, in_flight) /\ a.buf = Token(a)
  /\ NotPending(a) /\ NotWanted(a, ctl.wanted) /\ NotData(a, fifo, link)
InPending ==
  /\ a.pending = Token(a)
  /\ NotBuf(a, in_flight) /\ NotWanted(a, ctl.wanted) /\ NotData(a, fifo, link)
InWanted ==
  /\ NotBuf(a, in_flight) /\ NotPending(a) /\ NotData(a, fifo, link)
  /\ \E i \in 1..Len(ctl.wanted) :
       /\ ctl.wanted[i] = Token(a)
       /\ \A j \in 1..Len(ctl.wanted) : j # i => ctl.wanted[j].k # Id(a)
  /\ ~ctl.awaiting => a.pending = NoMsg \/ Delivered(a, in_flight)
InData ==
  /\ NotBuf(a, in_flight) /\ NotPending(a) /\ NotWanted(a, ctl.wanted)
  /\ \E i \in 1..Len(fifo) :
       /\ IsData(fifo[i], link) /\ fifo[i].msg.k = Id(a) /\ fifo[i].msg.arg = Token(a).arg
       /\ \A j \in 1..Len(fifo) : j # i /\ IsData(fifo[j], link) => fifo[j].msg.k # Id(a)
       /\ a.pending = NoMsg \/ Cleared(fifo, i, active, a, in_flight)

OneRequest ==
  Served(active, link) /\ a.state = "ACTIVE" => Nowhere \/ InBuf \/ InPending \/ InWanted \/ InData

TurnInv == Distinct /\ Sending /\ Talk /\ Numbers /\ Paused /\ Resuming /\ OneRequest

-----------------------------------------------------------------------------
(* What a step leaves of the queue. *)

(* r is q without its first d events, and with others that are no writes.   *)
Passed(q, r, d) ==
  /\ d \in {0, 1} /\ Len(q) \in Nat /\ Len(r) \in Nat
  /\ \A i \in 1..Len(r) : r[i].id = "WRITE" => i + d \in 1..Len(q) /\ r[i] = q[i + d]
  /\ \A i \in 1..Len(q) : i > d => i - d \in 1..Len(r) /\ r[i - d] = q[i]

(* One event may be taken and another added.                                *)
LEMMA PassedTail ==
  ASSUME NEW q, Queue(q), q # <<>>
  PROVE  Passed(q, Tail(q), 1)
<1>. DEFINE r == Tail(q)
<1>1. /\ Len(q) \in Nat /\ Len(q) > 0 /\ Len(r) = Len(q) - 1
      /\ \A i \in 1..Len(q) - 1 : r[i] = q[i + 1]
  BY QueueTail
<1>. HIDE DEF r
<1>2. \A i \in 1..Len(r) : i + 1 \in 1..Len(q) /\ r[i] = q[i + 1]
  BY <1>1
<1>3. ASSUME NEW i \in 1..Len(q), i > 1
      PROVE  i - 1 \in 1..Len(r) /\ r[i - 1] = q[i]
  <2>. DEFINE j == i - 1
  <2>1. j \in 1..Len(r) /\ j + 1 = i
    BY <1>1, <1>3
  <2>. HIDE DEF j
  <2>. QED  BY <1>2, <2>1 DEF j
<1>4. Len(r) \in Nat
  BY <1>1
<1>. QED  BY <1>1, <1>2, <1>3, <1>4 DEF Passed, r

LEMMA PassedAppend ==
  ASSUME NEW q, NEW r, NEW d, Passed(q, r, d), Queue(r), NEW e, e.id # "WRITE"
  PROVE  Passed(q, Append(r, e), d)
<1>. DEFINE s == Append(r, e)
<1>1. /\ Len(r) \in Nat /\ Len(s) = Len(r) + 1
      /\ \A i \in 1..Len(r) : s[i] = r[i]
      /\ s[Len(r) + 1] = e
  BY QueueAppend, QueueLen
<1>. HIDE DEF s
<1>2. \A i \in 1..Len(s) : i \in 1..Len(r) \/ s[i] = e
  <2>. SUFFICES ASSUME NEW i \in 1..Len(s), i \notin 1..Len(r)
                PROVE  s[i] = e
    OBVIOUS
  <2>1. i = Len(r) + 1
    BY <1>1
  <2>. QED  BY <1>1, <2>1
<1>3. \A i \in 1..Len(r) : i \in 1..Len(s)
  BY <1>1
<1>4. Len(s) \in Nat
  BY <1>1
<1>. QED  BY <1>1, <1>2, <1>3, <1>4 DEF Passed, s

LEMMA PassedHere == \A q : Queue(q) => Passed(q, q, 0)
<1>. SUFFICES ASSUME NEW q, Queue(q) PROVE Passed(q, q, 0)
  OBVIOUS
<1>1. Len(q) \in Nat
  BY QueueLen
<1>2. \A i \in 1..Len(q) : i + 0 = i /\ i - 0 = i
  BY <1>1
<1>. QED  BY <1>1, <1>2 DEF Passed

(* The service handles an event, with the outcome x.                        *)
LEMMA HandledStep ==
  ASSUME UpdateInv, fifo # <<>>, NEW x \in Accessory, Handled(x)
  PROVE  /\ Passed(fifo, fifo', 1) /\ Head(fifo) = fifo[1] /\ 1 \in 1..Len(fifo)
         /\ \A i \in 1..Len(fifo') :
              \/ i + 1 \in 1..Len(fifo) /\ fifo'[i] = fifo[i + 1]
              \/ fifo'[i] = Ack(active', FALSE)
         /\ x.kick => \E i \in 1..Len(fifo') : fifo'[i] = Ack(active', FALSE)
         /\ a'.obj = x.obj /\ a'.order = x.order /\ a'.state = x.state /\ a'.asset = x.asset
         /\ a'.allowed = x.allowed /\ a'.buf = x.buf /\ a'.pending = x.pending
         /\ a'.sending = x.sending
         /\ link' = link /\ ctl' = ctl /\ offers' = offers
<1>. DEFINE r == Tail(fifo)
            e == Ack(active', FALSE)
<1>1. Queue(fifo)
  BY DEF UpdateInv, Acks
<1>2. /\ Queue(r) /\ 1 \in 1..Len(fifo) /\ Head(fifo) = fifo[1] /\ Passed(fifo, r, 1)
      /\ \A i \in 1..Len(r) : i + 1 \in 1..Len(fifo) /\ r[i] = fifo[i + 1]
  BY <1>1, Taken, PassedTail
<1>3. fifo' = IF x.kick THEN Append(r, e) ELSE r
  BY DEF Handled
<1>4. e.id # "WRITE"
  BY DEF Ack, Event
<1>. HIDE DEF r, e
<1>5. /\ \A i \in 1..Len(Append(r, e)) : (i \in 1..Len(r) /\ Append(r, e)[i] = r[i]) \/ Append(r, e)[i] = e
      /\ Len(r) + 1 \in 1..Len(Append(r, e)) /\ Append(r, e)[Len(r) + 1] = e
  <2>1. Len(r) \in Nat /\ Len(Append(r, e)) = Len(r) + 1
    BY <1>2, QueueAppend, QueueLen
  <2>2. Len(r) + 1 \in 1..Len(Append(r, e))
    BY <2>1
  <2>. QED  BY <1>2, <2>2, Appended, QueueAppend
<1>6. Passed(fifo, fifo', 1)
  BY <1>2, <1>3, <1>4, PassedAppend
<1>7. \A i \in 1..Len(fifo') : \/ i + 1 \in 1..Len(fifo) /\ fifo'[i] = fifo[i + 1]
                               \/ fifo'[i] = e
  BY <1>2, <1>3, <1>5
<1>8. x.kick => \E i \in 1..Len(fifo') : fifo'[i] = e
  BY <1>3, <1>5
<1>9. /\ a'.obj = x.obj /\ a'.order = x.order /\ a'.state = x.state /\ a'.asset = x.asset
      /\ a'.allowed = x.allowed /\ a'.buf = x.buf /\ a'.pending = x.pending
      /\ a'.sending = x.sending
  BY DEF Handled, Accessory
<1>10. link' = link /\ ctl' = ctl /\ offers' = offers
  BY DEF Handled, linkVars, countVars
<1>. QED  BY <1>2, <1>6, <1>7, <1>8, <1>9, <1>10 DEF e

(* What is true of the queue whatever it holds.                             *)
LEMMA QueueFacts ==
  ASSUME UpdateInv
  PROVE  /\ Queue(fifo) /\ Len(fifo) \in Nat
         /\ \A i \in 1..Len(fifo) : fifo[i].conn # None
         /\ \A i \in 1..Len(fifo) : fifo[i].id = "WRITE" /\ fifo[i].msg.type = "OFFER" =>
              i = 1 /\ fifo[i].conn = active /\ active # None /\ a.buf = NoMsg
<1>1. Queue(fifo) /\ \A i \in 1..Len(fifo) : fifo[i].conn # None
  BY DEF UpdateInv, Acks
<1>2. Len(fifo) \in Nat
  BY <1>1, QueueLen
<1>3. ASSUME NEW i \in 1..Len(fifo), fifo[i].id = "WRITE", fifo[i].msg.type = "OFFER"
      PROVE  i = 1 /\ fifo[i].conn = active /\ active # None /\ a.buf = NoMsg
  <2>1. Carries(fifo, i, active, a, offers)
    BY <1>3 DEF UpdateInv, Messages
  <2>. QED  BY <1>3, <2>1 DEF Carries, Fits
<1>. QED  BY <1>1, <1>2, <1>3

-----------------------------------------------------------------------------
(* What a step leaves of the invariant, part by part. *)

(* Owners of assets are lost, not won.                                      *)
LEMMA DistinctKept ==
  ASSUME Distinct, UpdateInv, Fewer(a, a'), offers' = offers,
         a'.state = "ACTIVE" => a'.obj[a'.asset].ctrl
  PROVE  Distinct'
BY DEF Distinct, Fewer

(* No other asset is received.                                              *)
LEMMA DistinctOwned ==
  ASSUME Distinct, UpdateInv, UpdateInv', Owned(a, a'), offers' = offers
  PROVE  Distinct'
<1>1. a \in Accessory /\ a' \in Accessory /\ Sound(a') /\ SameIds(a, a')
  BY DEF UpdateInv, Owned
<1>2. Fewer(a, a')
  BY <1>1, SameFewer
<1>3. a'.state = "ACTIVE" => a'.obj[a'.asset].ctrl
  <2>. SUFFICES ASSUME a'.state = "ACTIVE" PROVE a'.obj[a'.asset].ctrl
    OBVIOUS
  <2>1. a'.asset \in Offers
    BY <1>1, ActiveAsset
  <2>2. a.state = "ACTIVE" /\ a'.asset = a.asset
    BY DEF Owned
  <2>. QED  BY <1>1, <2>1, <2>2 DEF SameIds, Distinct
<1>. QED  BY <1>2, <1>3, DistinctKept

(* The offer k has got an identifier of its own.                            *)
LEMMA DistinctOffered ==
  ASSUME Distinct, UpdateInv, UpdateInv', offers' = offers, NEW k \in 1..offers,
         \A j \in Listed(a) : a.obj[j].id # k,
         NEW b, b.obj = a.obj, b.order = a.order, b.state = a.state, b.asset = a.asset,
         Resolved(b, a', k)
  PROVE  Distinct'
<1>1. PICK t \in Offers : Renamed(b, a', k, t)
  BY DEF Resolved
<1>2. Listed(b) = Listed(a)
  BY DEF Listed
<1>3. \A j \in Listed(a') :
        \/ a'.obj[j].id = k /\ (a'.obj[j].ctrl => j = t)
        \/ /\ j # k /\ j \in Listed(a) /\ a'.obj[j].id = a.obj[j].id
           /\ a'.obj[j].ctrl => a.obj[j].ctrl
  BY <1>1, <1>2 DEF Renamed
<1>4. \A j \in Listed(a') : a'.obj[j].id \in 1..offers'
  BY <1>3 DEF Distinct
<1>5. ASSUME NEW i \in Listed(a'), NEW j \in Listed(a'), a'.obj[i].ctrl, a'.obj[j].ctrl,
             a'.obj[i].id = a'.obj[j].id
      PROVE  i = j
  <2>1. CASE a'.obj[i].id = k
    <3>1. \A h \in Listed(a') : a'.obj[h].id = k /\ a'.obj[h].ctrl => h = t
      BY <1>3
    <3>2. i = t /\ j = t
      BY <1>5, <2>1, <3>1, Zenon
    <3>. QED  BY <3>2
  <2>2. CASE a'.obj[i].id # k
    <3>1. /\ i \in Listed(a) /\ a.obj[i].id = a'.obj[i].id /\ a.obj[i].ctrl
          /\ j \in Listed(a) /\ a.obj[j].id = a'.obj[j].id /\ a.obj[j].ctrl
      BY <1>3, <1>5, <2>2
    <3>. QED  BY <1>5, <3>1 DEF Distinct
  <2>. QED  BY <2>1, <2>2
<1>6. a'.state = "ACTIVE" => a'.obj[a'.asset].ctrl
  BY DEF Resolved, Pending, Distinct
<1>. QED  BY <1>4, <1>5, <1>6 DEF Distinct

(* The service has handled an event.                                        *)
LEMMA SendingHandled ==
  ASSUME Sending, UpdateInv, fifo # <<>>, NEW x \in Accessory, Handled(x),
         active' = None => x.state # "ACTIVE",
         \/ x.sending = "none" \/ x.kick \/ in_flight'
         \/ /\ x.sending = a.sending /\ active' = active /\ in_flight' = in_flight
            /\ ~IsAck(Head(fifo), active)
  PROVE  Sending'
<1>. USE HandledStep
<1>1. active' = None => a'.state # "ACTIVE"
  OBVIOUS
<1>2. a'.sending # "none" => in_flight' \/ ~NoAck(fifo', active')
  <2>1. CASE x.sending = "none" \/ in_flight'
    BY <2>1
  <2>2. CASE x.kick
    <3>1. PICK i \in 1..Len(fifo') : fifo'[i] = Ack(active', FALSE)
      BY <2>2
    <3>2. IsAck(fifo'[i], active')
      BY <3>1 DEF Ack, Event, IsAck
    <3>. QED  BY <3>2 DEF NoAck
  <2>3. CASE /\ x.sending = a.sending /\ active' = active /\ in_flight' = in_flight
             /\ ~IsAck(Head(fifo), active) /\ x.sending # "none" /\ ~in_flight'
    <3>1. PICK i \in 1..Len(fifo) : IsAck(fifo[i], active)
      BY <2>3 DEF Sending, NoAck
    <3>2. i > 1
      BY <2>3, <3>1
    <3>3. i - 1 \in 1..Len(fifo') /\ fifo'[i - 1] = fifo[i]
      BY <3>2 DEF Passed
    <3>. QED  BY <2>3, <3>1, <3>3 DEF NoAck
  <2>. QED  BY <2>1, <2>2, <2>3
<1>3. ASSUME NEW i \in 1..Len(fifo'), IsAck(fifo'[i], link')
      PROVE  fifo'[i].part = "ok"
  <2>1. CASE i + 1 \in 1..Len(fifo) /\ fifo'[i] = fifo[i + 1]
    BY <1>3, <2>1 DEF Sending
  <2>2. CASE fifo'[i] = Ack(active', FALSE)
    BY <2>2 DEF Ack, Event
  <2>. QED  BY <2>1, <2>2
<1>. QED  BY <1>1, <1>2, <1>3 DEF Sending

(* Another event is put into the queue.                                     *)
LEMMA SendingAppended ==
  ASSUME Sending, UpdateInv, NEW e, fifo' = Append(fifo, e), a' = a, active' = active,
         IsAck(e, link') => e.part = "ok", link' \in {link, None}, link' = None => e.conn # None,
         in_flight' = in_flight \/ (~in_flight' /\ IsAck(e, active))
  PROVE  Sending'
<1>1. Queue(fifo) /\ \A i \in 1..Len(fifo) : fifo[i].conn # None
  BY QueueFacts
<1>2. /\ Len(fifo) + 1 \in 1..Len(fifo') /\ fifo'[Len(fifo) + 1] = e
      /\ \A i \in 1..Len(fifo) : i \in 1..Len(fifo') /\ fifo'[i] = fifo[i]
      /\ \A i \in 1..Len(fifo') : (i \in 1..Len(fifo) /\ fifo'[i] = fifo[i]) \/ fifo'[i] = e
  <2>1. Len(fifo) \in Nat /\ Len(fifo') = Len(fifo) + 1
    BY <1>1, QueueAppend, QueueLen
  <2>2. Len(fifo) + 1 \in 1..Len(fifo') /\ \A i \in 1..Len(fifo) : i \in 1..Len(fifo')
    BY <2>1
  <2>. QED  BY <1>1, <2>2, Appended, QueueAppend
<1>3. a'.sending # "none" => in_flight' \/ ~NoAck(fifo', active')
  <2>1. CASE ~NoAck(fifo, active)
    BY <1>2, <2>1 DEF NoAck
  <2>2. CASE in_flight' = in_flight /\ NoAck(fifo, active)
    BY <2>2 DEF Sending
  <2>3. CASE IsAck(e, active)
    BY <1>2, <2>3 DEF NoAck
  <2>. QED  BY <2>1, <2>2, <2>3
<1>4. ASSUME NEW i \in 1..Len(fifo'), IsAck(fifo'[i], link')
      PROVE  fifo'[i].part = "ok"
  <2>1. CASE i \in 1..Len(fifo) /\ fifo'[i] = fifo[i]
    BY <1>1, <1>4, <2>1 DEF Sending, IsAck
  <2>2. CASE fifo'[i] = e
    BY <1>4, <2>2
  <2>. QED  BY <1>2, <2>1, <2>2
<1>. QED  BY <1>3, <1>4 DEF Sending

(* Where the controller is not served there is little to show.              *)
LEMMA TurnUnserved ==
  ASSUME ~Served(active', link'), Distinct', Sending', Talk', Numbers'
  PROVE  TurnInv'
<1>1. Paused'
  BY DEF Talk, Paused
<1>2. Resuming'
  BY DEF Talk, Resuming, IsCommand
<1>3. OneRequest'
  BY DEF OneRequest
<1>. QED  BY <1>1, <1>2, <1>3 DEF TurnInv

(* The writes among the events of a queue that has passed.                  *)
WritesPass(q, r, d, l) ==
  /\ \A i \in 1..Len(r) :
       IsWrite(r[i], l) \/ IsCommand(r[i], l) \/ IsData(r[i], l) \/ Other(r[i], l) =>
         i + d \in 1..Len(q) /\ i + d > d /\ r[i] = q[i + d]
  /\ \A i \in 1..Len(r) : (\A j \in i + d + 1..Len(q) : ~IsWrite(q[j], l)) =>
       \A j \in i + 1..Len(r) : ~IsWrite(r[j], l)
  /\ \A i \in 1..Len(q) : i > d => i - d \in 1..Len(r) /\ r[i - d] = q[i]

LEMMA PassedWrites ==
  ASSUME NEW q, NEW r, NEW d, Passed(q, r, d), NEW l
  PROVE  WritesPass(q, r, d, l)
<1>1. \A i \in 1..Len(r) : r[i].id = "WRITE" => i + d \in 1..Len(q) /\ i + d > d /\ r[i] = q[i + d]
  BY DEF Passed
<1>2. ASSUME NEW i \in 1..Len(r), NEW j \in i + 1..Len(r), IsWrite(r[j], l),
             \A h \in i + d + 1..Len(q) : ~IsWrite(q[h], l)
      PROVE  FALSE
  <2>1. j \in 1..Len(r) /\ r[j].id = "WRITE"
    BY <1>2 DEF IsWrite, Passed
  <2>2. j + d \in 1..Len(q) /\ r[j] = q[j + d]
    BY <1>1, <2>1
  <2>3. j + d \in i + d + 1..Len(q)
    BY <2>2 DEF Passed
  <2>. QED  BY <1>2, <2>2, <2>3
<1>3. \A e : IsWrite(e, l) \/ IsCommand(e, l) \/ IsData(e, l) \/ Other(e, l) => e.id = "WRITE"
  BY DEF IsWrite, IsCommand, IsData, Other
<1>4. \A i \in 1..Len(q) : i > d => i - d \in 1..Len(r) /\ r[i - d] = q[i]
  BY DEF Passed
<1>. QED  BY <1>1, <1>2, <1>3, <1>4 DEF WritesPass

(* So for commands of the controller while nothing that it says changes.    *)
LEMMA TalkPassed ==
  ASSUME Talk, UpdateInv, NEW d, Passed(fifo, fifo', d), link' = link, ctl' = ctl,
         Served(active', link') => Served(active, link),
         ~Served(active', link') => ~Served(active, link),
         Served(active, link) => /\ NoAnswer(a, in_flight) => NoAnswer(a', in_flight')
                                 /\ Speaks(a', in_flight') /\ a'.buf.type = "ACK" => a'.pending.type # "ACK"
  PROVE  Talk'
<1>0. WritesPass(fifo, fifo', d, link)
  BY PassedWrites
<1>. USE <1>0 DEF WritesPass
<1>1. ~Served(active', link') =>
        /\ ctl'.wanted = <<>> /\ ~ctl'.paused /\ ~ctl'.half
        /\ \A i \in 1..Len(fifo') : IsWrite(fifo'[i], link') => fifo'[i].msg.type \in {"SYNC", "INFO"}
  <2>. SUFFICES ASSUME ~Served(active', link')
                PROVE  /\ ctl.wanted = <<>> /\ ~ctl.paused /\ ~ctl.half
                       /\ \A i \in 1..Len(fifo') :
                            IsWrite(fifo'[i], link) => fifo'[i].msg.type \in {"SYNC", "INFO"}
    OBVIOUS
  <2>1. /\ ctl.wanted = <<>> /\ ~ctl.paused /\ ~ctl.half
        /\ \A i \in 1..Len(fifo) : IsWrite(fifo[i], link) => fifo[i].msg.type \in {"SYNC", "INFO"}
    BY Zenon DEF Talk
  <2>2. ASSUME NEW i \in 1..Len(fifo'), IsWrite(fifo'[i], link)
        PROVE  fifo'[i].msg.type \in {"SYNC", "INFO"}
    <3>1. i + d \in 1..Len(fifo) /\ fifo'[i] = fifo[i + d]
      BY <2>2
    <3>. QED  BY <2>1, <2>2, <3>1
  <2>. QED  BY <2>1, <2>2
<1>2. ASSUME NEW i \in 1..Len(fifo'), IsCommand(fifo'[i], link')
      PROVE  /\ ctl'.awaiting /\ fifo'[i].part = "whole"
             /\ Served(active', link') => NoAnswer(a', in_flight')
             /\ \A j \in i + 1..Len(fifo') : ~IsWrite(fifo'[j], link')
             /\ fifo'[i].msg.type = "OFFER" => ~ctl'.paused
  <2>. DEFINE k == i + d
  <2>1. k \in 1..Len(fifo) /\ fifo'[i] = fifo[k] /\ IsCommand(fifo[k], link)
    BY <1>2
  <2>2. /\ ctl.awaiting /\ fifo[k].part = "whole"
        /\ Served(active, link) => NoAnswer(a, in_flight)
        /\ \A j \in k + 1..Len(fifo) : ~IsWrite(fifo[j], link)
        /\ fifo[k].msg.type = "OFFER" => ~ctl.paused
    <3>. HIDE DEF k
    <3>. QED  BY <2>1 DEF Talk
  <2>3. \A j \in i + 1..Len(fifo') : ~IsWrite(fifo'[j], link)
    BY <2>2
  <2>. HIDE DEF k
  <2>. QED  BY <2>1, <2>2, <2>3
<1>3. /\ ctl'.greeted < 2 => ~ctl'.awaiting
      /\ Served(active', link') /\ ~ctl'.awaiting => NoAnswer(a', in_flight')
      /\ Served(active', link') /\ Speaks(a', in_flight') /\ a'.buf.type = "ACK" => a'.pending.type # "ACK"
  BY DEF Talk
<1>. QED  BY <1>1, <1>2, <1>3, Zenon DEF Talk

(* For numbers: an offer is the first event, if it waits.                   *)
LEMMA NumbersPassed ==
  ASSUME Numbers, UpdateInv,
         \/ Passed(fifo, fifo', 1)
         \/ /\ Passed(fifo, fifo', 0) /\ Listed(a') \subseteq Listed(a)
            /\ \A j \in Listed(a') : a'.obj[j].id = a.obj[j].id,
         offers' = offers, ctl'.wanted = ctl.wanted,
         Served(active', link') => Given(a'.buf, offers) /\ Given(a'.pending, offers)
  PROVE  Numbers'
<1>1. ASSUME NEW i \in 1..Len(fifo'), fifo'[i].id = "WRITE", fifo'[i].msg.type = "OFFER"
      PROVE  /\ \A j \in Listed(a') : a'.obj[j].id # fifo'[i].msg.k
             /\ \A j \in 1..Len(ctl'.wanted) : ctl'.wanted[j].k # fifo'[i].msg.k
  <2>1. CASE Passed(fifo, fifo', 1)
    <3>. DEFINE k == i + 1
    <3>1. k \in 1..Len(fifo) /\ fifo'[i] = fifo[k] /\ k # 1
      BY <1>1, <2>1 DEF Passed
    <3>. HIDE DEF k
    <3>. QED  BY <1>1, <3>1, QueueFacts
  <2>2. CASE /\ Listed(a') \subseteq Listed(a) /\ Passed(fifo, fifo', 0)
             /\ \A j \in Listed(a') : a'.obj[j].id = a.obj[j].id
    <3>1. i \in 1..Len(fifo) /\ fifo'[i] = fifo[i]
      BY <1>1, <2>2 DEF Passed
    <3>. QED  BY <1>1, <2>2, <3>1 DEF Numbers
  <2>. QED  BY <2>1, <2>2
<1>. QED  BY <1>1 DEF Numbers

(* Where a request is, once a queue has passed.                             *)
LEMMA ClearedPassed ==
  ASSUME NEW q, NEW r, NEW d, Passed(q, r, d), NEW i \in 1..Len(q), NEW c, NEW x, NEW f,
         Cleared(q, i, c, x, f), NEW y, NEW g, Delivered(y, g), d = 1 => ~IsAck(q[1], c)
  PROVE  Cleared(r, i - d, c, y, g)
<1>1. PICK j \in 1..i - 1 : IsAck(q[j], c)
  BY DEF Cleared
<1>2. j \in 1..Len(q) /\ j > d
  BY <1>1 DEF Passed
<1>3. j - d \in 1..i - d - 1 /\ r[j - d] = q[j]
  BY <1>2 DEF Passed
<1>. QED  BY <1>1, <1>3 DEF Cleared

(* Data that are about no asset stay so; PAUSE and RESUME keep what they need.*)
LEMMA DataPassed ==
  ASSUME NEW q, NEW r, NEW d, Passed(q, r, d), NEW l, NEW x, NEW y, NotData(x, q, l), Id(y) = Id(x)
  PROVE  NotData(y, r, l)
<1>. SUFFICES ASSUME NEW i \in 1..Len(r), IsData(r[i], l)
              PROVE  r[i].msg.k # Id(y)
  BY DEF NotData
<1>1. WritesPass(q, r, d, l)
  BY PassedWrites
<1>2. i + d \in 1..Len(q) /\ r[i] = q[i + d]
  BY <1>1 DEF WritesPass
<1>. QED  BY <1>2 DEF NotData

LEMMA PausedPassed ==
  ASSUME Paused, NEW d, Passed(fifo, fifo', d), link' = link, ctl' = ctl,
         d = 1 => ~IsCommand(fifo[1], link), a'.allowed = a.allowed,
         NoAnswer(a, in_flight) => NoAnswer(a', in_flight'),
         a.pending = NoMsg /\ (a.buf = NoMsg \/ Delivered(a, in_flight)) =>
           a'.pending = NoMsg /\ (a'.buf = NoMsg \/ Delivered(a', in_flight')),
         ctl.paused /\ Speaks(a', in_flight') /\ a'.buf.type = "ACK" => a'.pending = NoMsg
  PROVE  Paused'
<1>. SUFFICES ASSUME ctl.paused
              PROVE  Paused'
  BY DEF Paused
<1>0. WritesPass(fifo, fifo', d, link)
  BY PassedWrites
<1>1. (\E i \in 1..Len(fifo') : Other(fifo'[i], link)) => \E i \in 1..Len(fifo) : Other(fifo[i], link)
  BY <1>0 DEF WritesPass
<1>2. (\E i \in 1..Len(fifo') : IsData(fifo'[i], link)) => \E i \in 1..Len(fifo) : IsData(fifo[i], link)
  BY <1>0 DEF WritesPass
<1>3. ASSUME NEW i \in 1..Len(fifo), IsCommand(fifo[i], link), fifo[i].msg.type = "PAUSE"
      PROVE  \E j \in 1..Len(fifo') : IsCommand(fifo'[j], link) /\ fifo'[j].msg.type = "PAUSE"
  <2>1. i > d
    BY <1>3 DEF Passed
  <2>2. i - d \in 1..Len(fifo') /\ fifo'[i - d] = fifo[i]
    BY <2>1, <1>0 DEF WritesPass
  <2>. QED  BY <1>3, <2>2
<1>. QED  BY <1>1, <1>2, <1>3 DEF Paused

LEMMA ResumingPassed ==
  ASSUME Resuming, NEW d, Passed(fifo, fifo', d), link' = link, ctl' = ctl, active' = active,
         a'.obj = a.obj, a'.allowed = a.allowed,
         a.pending = NoMsg =>
           /\ a'.pending = NoMsg
           /\ \/ a'.buf = NoMsg
              \/ /\ a'.buf = a.buf
                 /\ Delivered(a, in_flight) =>
                      Delivered(a', in_flight') /\ (d = 1 => ~IsAck(fifo[1], active))
  PROVE  Resuming'
<1>. SUFFICES ASSUME NEW i \in 1..Len(fifo'), IsCommand(fifo'[i], link), fifo'[i].msg.type = "RESUME"
              PROVE  /\ Served(active, link) /\ ~a'.allowed /\ a'.pending = NoMsg
                     /\ a'.buf = NoMsg \/ Cleared(fifo', i, active, a', in_flight')
                     /\ ctl.wanted = <<>> /\ ~ctl.paused /\ ~ctl.half /\ NoneRescinded(a')
                     /\ \A j \in 1..Len(fifo') : ~IsData(fifo'[j], link)
  BY DEF Resuming
<1>0. WritesPass(fifo, fifo', d, link)
  BY PassedWrites
<1>. DEFINE k == i + d
<1>1. k \in 1..Len(fifo) /\ fifo'[i] = fifo[k] /\ k - d = i
  <2>1. k \in 1..Len(fifo) /\ fifo'[i] = fifo[k]
    BY <1>0 DEF WritesPass
  <2>. QED  BY <2>1 DEF Passed
<1>. HIDE DEF k
<1>2. /\ Served(active, link) /\ ~a.allowed /\ a.pending = NoMsg
      /\ a.buf = NoMsg \/ Cleared(fifo, k, active, a, in_flight)
      /\ ctl.wanted = <<>> /\ ~ctl.paused /\ ~ctl.half /\ NoneRescinded(a)
      /\ \A j \in 1..Len(fifo) : ~IsData(fifo[j], link)
  BY <1>1 DEF Resuming
<1>3. \A j \in 1..Len(fifo') : ~IsData(fifo'[j], link)
  BY <1>2, <1>0 DEF WritesPass
<1>4. NoneRescinded(a')
  BY <1>2 DEF NoneRescinded
<1>5. a'.buf = NoMsg \/ Cleared(fifo', i, active, a', in_flight')
  <2>1. CASE a.buf = NoMsg
    BY <1>2, <2>1
  <2>2. CASE Cleared(fifo, k, active, a, in_flight)
    <3>1. Delivered(a, in_flight)
      BY <2>2 DEF Cleared
    <3>2. CASE Delivered(a', in_flight') /\ (d = 1 => ~IsAck(fifo[1], active))
      BY <1>1, <2>2, <3>2, ClearedPassed
    <3>. QED  BY <1>2, <3>1, <3>2
  <2>. QED  BY <1>2, <2>1, <2>2
<1>. QED  BY <1>2, <1>3, <1>4, <1>5

(* The request for the next unit stays where it is.                         *)
LEMMA InDataPassed ==
  ASSUME InData, NEW d, Passed(fifo, fifo', d), link' = link, active' = active,
         Id(a') = Id(a), Token(a') = Token(a),
         d = 1 => ~(IsData(fifo[1], link) /\ fifo[1].msg.k = Id(a) /\ fifo[1].msg.arg = Token(a).arg),
         NotBuf(a', in_flight'), NotPending(a'), NotWanted(a', ctl'.wanted),
         a.pending = NoMsg => a'.pending = NoMsg,
         a'.pending = NoMsg \/ (Delivered(a, in_flight) =>
                      Delivered(a', in_flight') /\ (d = 1 => ~IsAck(fifo[1], active)))
  PROVE  InData'
<1>0. WritesPass(fifo, fifo', d, link)
  BY PassedWrites
<1>1. PICK i \in 1..Len(fifo) :
        /\ IsData(fifo[i], link) /\ fifo[i].msg.k = Id(a) /\ fifo[i].msg.arg = Token(a).arg
        /\ \A j \in 1..Len(fifo) : j # i /\ IsData(fifo[j], link) => fifo[j].msg.k # Id(a)
        /\ a.pending = NoMsg \/ Cleared(fifo, i, active, a, in_flight)
  BY DEF InData
<1>. DEFINE k == i - d
<1>2. k \in 1..Len(fifo') /\ fifo'[k] = fifo[i] /\ k + d = i
  <2>1. i > d
    BY <1>1 DEF Passed
  <2>2. k \in 1..Len(fifo') /\ fifo'[k] = fifo[i]
    BY <2>1, <1>0 DEF WritesPass
  <2>. QED  BY <2>2 DEF Passed
<1>3. a'.pending = NoMsg \/ Cleared(fifo', k, active, a', in_flight')
  <2>1. CASE Cleared(fifo, i, active, a, in_flight) /\ a'.pending # NoMsg
    <3>1. Delivered(a, in_flight)
      BY <2>1 DEF Cleared
    <3>2. Delivered(a', in_flight') /\ (d = 1 => ~IsAck(fifo[1], active))
      BY <2>1, <3>1
    <3>. QED  BY <2>1, <3>2, ClearedPassed
  <2>. QED  BY <1>1, <2>1
<1>. HIDE DEF k
<1>4. \A j \in 1..Len(fifo') : j # k /\ IsData(fifo'[j], link) => fifo'[j].msg.k # Id(a)
  <2>. SUFFICES ASSUME NEW j \in 1..Len(fifo'), j # k, IsData(fifo'[j], link)
                PROVE  fifo'[j].msg.k # Id(a)
    OBVIOUS
  <2>. DEFINE h == j + d
  <2>1. h \in 1..Len(fifo) /\ fifo'[j] = fifo[h]
    BY <1>0 DEF WritesPass
  <2>2. h # i
    BY <1>2 DEF Passed
  <2>. HIDE DEF h
  <2>. QED  BY <1>1, <2>1, <2>2
<1>5. \E h \in 1..Len(fifo') :
        /\ IsData(fifo'[h], link) /\ fifo'[h].msg.k = Id(a') /\ fifo'[h].msg.arg = Token(a').arg
        /\ \A j \in 1..Len(fifo') : j # h /\ IsData(fifo'[j], link) => fifo'[j].msg.k # Id(a')
        /\ a'.pending = NoMsg \/ Cleared(fifo', h, active, a', in_flight')
  BY <1>1, <1>2, <1>3, <1>4
<1>. QED  BY <1>5 DEF InData

(* An event that changes nothing of what is asked for.                      *)
LEMMA TurnPassed ==
  ASSUME TurnInv, UpdateInv, UpdateInv', NEW d, Passed(fifo, fifo', d), link' = link,
         active' = active, ctl' = ctl, offers' = offers, SameCourse(a, a'),
         Speaks(a', in_flight') <=> Speaks(a, in_flight),
         Delivered(a', in_flight') <=> Delivered(a, in_flight), Sending',
         Served(active, link) /\ d = 1 =>
           /\ ~IsCommand(fifo[1], link)
           /\ IsAck(fifo[1], active) => ~Delivered(a, in_flight)
           /\ a.state = "ACTIVE" =>
                ~(IsData(fifo[1], link) /\ fifo[1].msg.k = Id(a) /\ fifo[1].msg.arg = Token(a).arg)
  PROVE  TurnInv'
<1>1. /\ a'.state = a.state /\ a'.asset = a.asset /\ a'.allowed = a.allowed
      /\ a'.order = a.order /\ a'.obj = a.obj /\ a'.buf = a.buf /\ a'.pending = a.pending
  BY DEF SameCourse
<1>2. Distinct /\ Talk /\ Numbers /\ Paused /\ Resuming /\ OneRequest
  BY DEF TurnInv
<1>3. Distinct'
  <2>1. Owned(a, a')
    BY <1>1 DEF Owned, SameIds
  <2>. QED  BY <1>2, <2>1, DistinctOwned
<1>4. NoAnswer(a', in_flight') <=> NoAnswer(a, in_flight)
  BY <1>1 DEF NoAnswer
<1>5. Talk'
  <2>1. Served(active, link) /\ Speaks(a', in_flight') /\ a'.buf.type = "ACK" => a'.pending.type # "ACK"
    BY <1>1, <1>2, Zenon DEF Talk
  <2>. QED  BY <1>2, <1>4, <2>1, TalkPassed
<1>6. Numbers'
  <2>1. d = 1 \/ d = 0
    BY DEF Passed
  <2>2. Listed(a') = Listed(a)
    BY <1>1 DEF Listed
  <2>3. Served(active', link') => Given(a'.buf, offers) /\ Given(a'.pending, offers)
    BY <1>1, <1>2 DEF Numbers
  <2>4. \/ Passed(fifo, fifo', 1)
        \/ /\ Passed(fifo, fifo', 0) /\ Listed(a') \subseteq Listed(a)
           /\ \A j \in Listed(a') : a'.obj[j].id = a.obj[j].id
    BY <1>1, <2>1, <2>2
  <2>. QED  BY <1>2, <2>3, <2>4, NumbersPassed
<1>7. CASE ~Served(active, link)
  BY <1>3, <1>5, <1>6, <1>7, TurnUnserved
<1>8. CASE Served(active, link)
  <2>1. Paused'
    <3>1. Paused =>
            (ctl.paused /\ Speaks(a', in_flight') /\ a'.buf.type = "ACK" => a'.pending = NoMsg)
      BY <1>1, Zenon DEF Paused
    <3>. QED  BY <1>1, <1>2, <1>4, <1>8, <3>1, PausedPassed
  <2>2. Resuming'
    BY <1>1, <1>2, <1>8, ResumingPassed
  <2>3. OneRequest'
    <3>. SUFFICES ASSUME a.state = "ACTIVE"
                  PROVE  (Nowhere \/ InBuf \/ InPending \/ InWanted \/ InData)'
      BY <1>1 DEF OneRequest
    <3>1. Id(a') = Id(a) /\ Token(a') = Token(a)
      BY <1>1 DEF Id, Token, TokenOf
    <3>2. /\ NotBuf(a, in_flight) => NotBuf(a', in_flight')
          /\ NotPending(a) => NotPending(a')
          /\ NotWanted(a, ctl.wanted) => NotWanted(a', ctl'.wanted)
          /\ NotData(a, fifo, link) => NotData(a', fifo', link')
      <4>1. NotBuf(a, in_flight) => NotBuf(a', in_flight')
        BY <1>1, <3>1 DEF NotBuf
      <4>2. NotPending(a) => NotPending(a')
        BY <1>1, <3>1 DEF NotPending
      <4>3. NotWanted(a, ctl.wanted) => NotWanted(a', ctl'.wanted)
        BY <3>1 DEF NotWanted
      <4>4. NotData(a, fifo, link) => NotData(a', fifo', link')
        BY <3>1, DataPassed
      <4>. QED  BY <4>1, <4>2, <4>3, <4>4
    <3>3. CASE Nowhere
      BY <1>1, <3>2, <3>3 DEF Nowhere
    <3>4. CASE InBuf
      BY <1>1, <3>1, <3>2, <3>4 DEF InBuf
    <3>5. CASE InPending
      BY <1>1, <3>1, <3>2, <3>5 DEF InPending
    <3>6. CASE InWanted
      BY <1>1, <3>1, <3>2, <3>6 DEF InWanted
    <3>7. CASE InData
      <4>1. NotBuf(a', in_flight') /\ NotPending(a') /\ NotWanted(a', ctl'.wanted)
        BY <3>2, <3>7 DEF InData
      <4>. QED  BY <1>1, <1>8, <3>1, <3>7, <4>1, InDataPassed
    <3>. QED  BY <1>2, <1>8, <3>3, <3>4, <3>5, <3>6, <3>7 DEF OneRequest
  <2>. QED  BY <1>2, <1>3, <1>5, <1>6, <2>1, <2>2, <2>3 DEF TurnInv
<1>. QED  BY <1>7, <1>8

(* An event while the controller is not served, nor is after it.            *)
LEMMA TurnAlone ==
  ASSUME TurnInv, UpdateInv, fifo # <<>>, NEW x \in Accessory, Handled(x),
         ~Served(active, link), ~Served(active', link'), Distinct', Sending'
  PROVE  TurnInv'
<1>1. Passed(fifo, fifo', 1) /\ link' = link /\ ctl' = ctl /\ offers' = offers
  BY HandledStep
<1>2. Talk'
  BY <1>1, TalkPassed DEF TurnInv
<1>3. Numbers'
  BY <1>1, NumbersPassed DEF TurnInv
<1>. QED  BY <1>2, <1>3, TurnUnserved

(* An event that is ignored: an acknowledgement of another connection, or   *)
(* of nothing, and what a connection that is not served has written.        *)
LEMMA TurnIgnored ==
  ASSUME TurnInv, UpdateInv, UpdateInv', fifo # <<>>, IgnoredEvent,
         Served(active, link) => ~IsWrite(Head(fifo), link),
         IsAck(Head(fifo), active) => a.sending = "none"
  PROVE  TurnInv'
<1>1. a \in Accessory /\ ~a.kick
  BY DEF UpdateInv
<1>2. Handled(a) /\ active' = active /\ in_flight' = in_flight
  BY DEF IgnoredEvent
<1>3. /\ Passed(fifo, fifo', 1) /\ Head(fifo) = fifo[1] /\ link' = link /\ ctl' = ctl
      /\ offers' = offers /\ SameCourse(a, a') /\ a'.sending = a.sending
  BY <1>1, <1>2, HandledStep DEF SameCourse
<1>4. Sending'
  <2>1. active' = None => a.state # "ACTIVE"
    BY <1>2 DEF TurnInv, Sending
  <2>. QED  BY <1>1, <1>2, <2>1, SendingHandled DEF TurnInv
<1>5. /\ Speaks(a', in_flight') <=> Speaks(a, in_flight)
      /\ Delivered(a', in_flight') <=> Delivered(a, in_flight)
  BY <1>2, <1>3 DEF Speaks, Delivered
<1>. QED  BY <1>2, <1>3, <1>4, <1>5, TurnPassed DEF IsCommand, IsData, Delivered

-----------------------------------------------------------------------------
(* The link comes and goes. *)

(* Nobody is served at the start.                                           *)
LEMMA TurnInit == Init => TurnInv
<1>. SUFFICES ASSUME Init PROVE TurnInv
  OBVIOUS
<1>1. /\ a = NewAccessory /\ active = None /\ fifo = <<>> /\ link = None /\ in_flight = FALSE
      /\ ctl = NewController /\ offers = 0 /\ Len(fifo) = 0
  BY EmptyQueue DEF Init
<1>2. a.state # "ACTIVE" /\ a.sending = "none" /\ Listed(a) = {}
  BY <1>1, EmptyQueue DEF NewAccessory, Listed
<1>3. ctl.greeted = 0 /\ ctl.awaiting = FALSE /\ ctl.wanted = <<>> /\ ~ctl.paused /\ ~ctl.half
      /\ Len(ctl.wanted) = 0
  BY <1>1, EmptyQueue DEF NewController
<1>4. ~Served(active, link)
  BY <1>1 DEF Served
<1>5. Distinct /\ Sending
  BY <1>1, <1>2 DEF Distinct, Sending
<1>6. Talk /\ Numbers
  BY <1>1, <1>2, <1>3, <1>4 DEF Talk, Numbers
<1>7. Paused /\ Resuming /\ OneRequest
  BY <1>1, <1>3, <1>4 DEF Paused, Resuming, OneRequest
<1>. QED  BY <1>5, <1>6, <1>7 DEF TurnInv

(* A new link is not served before its first write.                         *)
LEMMA TurnConnect == TurnInv /\ UpdateInv /\ Connect => TurnInv'
<1>. SUFFICES ASSUME TurnInv, UpdateInv, Connect PROVE TurnInv'
  OBVIOUS
<1>1. /\ link' # active /\ \A i \in 1..Len(fifo) : fifo[i].conn # link'
      /\ ctl' = NewController
      /\ a' = a /\ fifo' = fifo /\ active' = active /\ in_flight' = in_flight /\ offers' = offers
  BY DEF Connect, serviceVars
<1>2. ~Served(active', link')
  BY <1>1 DEF Served
<1>3. ctl'.greeted = 0 /\ ctl'.awaiting = FALSE /\ ctl'.wanted = <<>> /\ ~ctl'.paused /\ ~ctl'.half
      /\ Len(ctl'.wanted) = 0
  BY <1>1, EmptyQueue DEF NewController
<1>4. Distinct' /\ Sending'
  BY <1>1 DEF TurnInv, Distinct, Sending, IsAck
<1>5. Talk'
  BY <1>1, <1>2, <1>3 DEF Talk, IsWrite, IsCommand
<1>6. Numbers'
  BY <1>1, <1>2, <1>3 DEF TurnInv, Numbers
<1>. QED  BY <1>2, <1>4, <1>5, <1>6, TurnUnserved

(* The controller that was served is so no longer.                          *)
LEMMA TurnLost == TurnInv /\ UpdateInv /\ UpdateInv' /\ LinkLost => TurnInv'
<1>. SUFFICES ASSUME TurnInv, UpdateInv, UpdateInv', LinkLost PROVE TurnInv'
  OBVIOUS
<1>1. /\ link # None /\ link' = None /\ ctl' = NewController /\ in_flight' = FALSE
      /\ a' = a /\ active' = active /\ offers' = offers
      /\ fifo' = IF in_flight THEN Append(fifo, Ack(link, TRUE)) ELSE fifo
  BY DEF LinkLost, countVars
<1>2. in_flight => link = active
  BY Zenon DEF UpdateInv, Acks
<1>3. ~Served(active', link')
  BY <1>1 DEF Served
<1>4. Distinct'
  BY <1>1 DEF TurnInv, Distinct
<1>5. Sending' /\ Passed(fifo, fifo', 0)
  <2>. DEFINE e == Ack(link, TRUE)
  <2>1. e.id = "ACK" /\ e.conn = link
    BY DEF Ack, Event
  <2>. HIDE DEF e
  <2>2. Queue(fifo) /\ Passed(fifo, fifo, 0) /\ \A i \in 1..Len(fifo) : fifo[i].conn # None
    BY QueueFacts, PassedHere
  <2>3. CASE in_flight
    <3>1. fifo' = Append(fifo, e) /\ IsAck(e, active) /\ ~IsAck(e, link')
      BY <1>1, <1>2, <2>1, <2>3 DEF IsAck, e
    <3>2. Sending'
      BY <1>1, <2>1, <3>1, SendingAppended DEF TurnInv
    <3>. QED  BY <2>1, <2>2, <3>1, <3>2, PassedAppend
  <2>4. CASE ~in_flight
    <3>1. fifo' = fifo
      BY <1>1, <2>4
    <3>2. Sending'
      BY <1>1, <2>2, <2>4, <3>1 DEF TurnInv, Sending, IsAck
    <3>. QED  BY <2>2, <3>1, <3>2
  <2>. QED  BY <2>3, <2>4
<1>6. ctl'.greeted = 0 /\ ctl'.awaiting = FALSE /\ ctl'.wanted = <<>> /\ ~ctl'.paused /\ ~ctl'.half
      /\ Len(ctl'.wanted) = 0
  BY <1>1, EmptyQueue DEF NewController
<1>7. Talk'
  <2>1. \A i \in 1..Len(fifo') : fifo'[i].conn # None
    BY QueueFacts DEF UpdateInv, Acks
  <2>. QED  BY <1>1, <1>3, <1>6, <2>1 DEF Talk, IsWrite, IsCommand
<1>8. Numbers'
  <2>1. ASSUME NEW i \in 1..Len(fifo'), fifo'[i].id = "WRITE", fifo'[i].msg.type = "OFFER"
        PROVE  \A j \in Listed(a') : a'.obj[j].id # fifo'[i].msg.k
    <3>1. i \in 1..Len(fifo) /\ fifo'[i] = fifo[i]
      BY <1>5, <2>1 DEF Passed
    <3>. QED  BY <1>1, <2>1, <3>1 DEF TurnInv, Numbers
  <2>. QED  BY <1>3, <1>6, <2>1 DEF Numbers
<1>. QED  BY <1>3, <1>4, <1>5, <1>7, <1>8, TurnUnserved

(* A disconnection that waits changes nothing yet.                          *)
LEMMA TurnGone == TurnInv /\ UpdateInv /\ UpdateInv' /\ WholeInv /\ submit_event_disconnect => TurnInv'
<1>. SUFFICES ASSUME TurnInv, UpdateInv, UpdateInv', WholeInv, submit_event_disconnect PROVE TurnInv'
  OBVIOUS
<1>1. PICK c \in leaving : fifo' = Append(fifo, Disconnect(c))
  BY DEF submit_event_disconnect
<1>2. /\ a' = a /\ active' = active /\ link' = link /\ in_flight' = in_flight
      /\ ctl' = ctl /\ offers' = offers
  BY DEF submit_event_disconnect, countVars
<1>. DEFINE e == Disconnect(c)
<1>3. e.id = "DISCONNECT" /\ e.conn # None
  BY NoSlot DEF Disconnect, Event, WholeInv
<1>4. ~IsAck(e, link')
  BY <1>3 DEF IsAck
<1>5. fifo' = Append(fifo, e)
  BY <1>1
<1>. HIDE DEF e
<1>6. Sending'
  BY <1>2, <1>3, <1>4, <1>5, SendingAppended DEF TurnInv
<1>7. Passed(fifo, fifo', 0)
  BY <1>3, <1>5, PassedHere, PassedAppend, QueueFacts
<1>. QED  BY <1>2, <1>6, <1>7, TurnPassed DEF SameCourse

(* The disconnection of the connection served, or of another.               *)
LEMMA TurnDisconnect == TurnInv /\ UpdateInv /\ UpdateInv' /\ WholeInv /\ handle_disconnect => TurnInv'
<1>. SUFFICES ASSUME TurnInv, UpdateInv, UpdateInv', WholeInv, handle_disconnect PROVE TurnInv'
  OBVIOUS
<1>1. fifo # <<>> /\ Head(fifo).id = "DISCONNECT"
  BY DEF handle_disconnect, Handles
<1>2. a \in Accessory /\ Sound(a) /\ ~a.kick
  BY DEF UpdateInv
<1>3. CASE IgnoredEvent
  BY <1>1, <1>3, TurnIgnored DEF IsWrite, IsAck
<1>4. CASE /\ Head(fifo).conn = active /\ active' = None /\ Handled(Disconnected)
  <2>. DEFINE y == controller_remove(a)
              x == Disconnected
  <2>1. x \in Accessory /\ x.sending = "none" /\ ~x.kick
    BY <1>2, DisconnectedSound DEF Disconnected
  <2>2. Fewer(a, y) /\ y.state # "ACTIVE"
    BY <1>2, RemoveOwned DEF TurnInv, Distinct
  <2>3. x.obj = y.obj /\ x.order = y.order /\ x.state = y.state
    <3>1. x = [y EXCEPT !.sending = "none"]
      BY DEF Disconnected
    <3>. HIDE DEF x, y
    <3>. QED  BY <2>1, <3>1 DEF Accessory
  <2>. HIDE DEF x, y
  <2>4. Handled(x)
    BY <1>4 DEF x
  <2>5. /\ a'.obj = y.obj /\ a'.order = y.order /\ a'.state = y.state
        /\ link' = link /\ offers' = offers /\ Head(fifo) = fifo[1] /\ 1 \in 1..Len(fifo)
    BY <1>1, <2>1, <2>3, <2>4, HandledStep
  <2>6. Fewer(a, a') /\ a'.state # "ACTIVE"
    <3>1. Listed(a') = Listed(y)
      BY <2>5 DEF Listed
    <3>. QED  BY <2>2, <2>5, <3>1 DEF Fewer
  <2>7. Distinct'
    BY <2>5, <2>6, DistinctKept DEF TurnInv
  <2>8. Sending'
    BY <1>1, <2>1, <2>2, <2>3, <2>4, SendingHandled DEF TurnInv
  <2>9. ~Served(active, link) /\ ~Served(active', link')
    BY <1>1, <1>4, <2>5 DEF Served, WholeInv, Ends
  <2>. QED  BY <1>1, <2>1, <2>4, <2>7, <2>8, <2>9, TurnAlone
<1>. QED  BY <1>3, <1>4 DEF handle_disconnect

-----------------------------------------------------------------------------
(* The controller hears. *)

(* A message arrives and is confirmed: a request becomes one that is owed   *)
(* an answer, unless the controller has paused.                             *)
LEMMA TurnConfirm == TurnInv /\ UpdateInv /\ UpdateInv' /\ Confirm => TurnInv'
<1>. SUFFICES ASSUME TurnInv, UpdateInv, UpdateInv', Confirm PROVE TurnInv'
  OBVIOUS
<1>1. /\ in_flight /\ link = active /\ in_flight' = FALSE /\ ctl' = Heard(a.buf)
      /\ fifo' = Append(fifo, Ack(link, FALSE))
      /\ a' = a /\ active' = active /\ link' = link /\ offers' = offers
  BY DEF Confirm, linkVars, countVars
<1>2. active # None /\ a.sending = "sent" /\ Buffers(a) /\ Queue(ctl.wanted) /\ Client
  BY <1>1, Zenon DEF UpdateInv, Acks, Client
<1>3. a.buf # NoMsg /\ Served(active, link)
  BY <1>1, <1>2 DEF Buffers, Served
<1>4. /\ Speaks(a, in_flight) /\ ~Delivered(a, in_flight)
      /\ ~Speaks(a', in_flight') /\ Delivered(a', in_flight')
  BY <1>1, <1>2 DEF Speaks, Delivered
<1>5. /\ Distinct /\ Sending /\ Talk /\ Numbers /\ Paused /\ Resuming /\ OneRequest
  BY DEF TurnInv
<1>6. /\ ctl'.greeted = ctl.greeted /\ ctl'.paused = ctl.paused /\ ctl'.half = ctl.half
      /\ ctl'.awaiting <=> (ctl.awaiting /\ a.buf.type # "ACK")
      /\ ctl'.wanted = IF a.buf.type = "REQUEST" /\ ~ctl.paused
                       THEN Append(ctl.wanted, a.buf) ELSE ctl.wanted
  BY <1>1, <1>2 DEF Heard, Client
<1>. DEFINE e == Ack(link, FALSE)
<1>7. e.id = "ACK" /\ e.conn = link /\ e.part = "ok"
  BY DEF Ack, Event
<1>8. fifo' = Append(fifo, e)
  BY <1>1
<1>. HIDE DEF e
<1>9. Passed(fifo, fifo', 0)
  BY <1>7, <1>8, PassedHere, PassedAppend, QueueFacts
<1>10. WritesPass(fifo, fifo', 0, link)
  BY <1>9, PassedWrites
<1>11. \A i \in 1..Len(fifo') :
         IsWrite(fifo'[i], link) \/ IsCommand(fifo'[i], link) \/ IsData(fifo'[i], link) \/ Other(fifo'[i], link) =>
           i \in 1..Len(fifo) /\ fifo'[i] = fifo[i]
  BY <1>10 DEF WritesPass
<1>12. \A i \in 1..Len(fifo) : i \in 1..Len(fifo') /\ fifo'[i] = fifo[i]
  BY <1>9 DEF Passed
<1>13. Distinct'
  BY <1>1, <1>5 DEF Distinct
<1>14. Sending'
  BY <1>1, <1>2, <1>5, <1>7, <1>8, SendingAppended DEF IsAck
<1>15. Talk'
  <2>1. ctl'.greeted < 2 => ~ctl'.awaiting
    BY <1>5, <1>6, Zenon DEF Talk
  <2>2. a.pending.type # "ACK" => NoAnswer(a', in_flight')
    BY <1>1, <1>4 DEF NoAnswer
  <2>3. ASSUME NEW i \in 1..Len(fifo'), IsCommand(fifo'[i], link')
        PROVE  /\ ctl'.awaiting /\ fifo'[i].part = "whole"
               /\ Served(active', link') => NoAnswer(a', in_flight')
               /\ \A j \in i + 1..Len(fifo') : ~IsWrite(fifo'[j], link')
               /\ fifo'[i].msg.type = "OFFER" => ~ctl'.paused
    <3>1. i \in 1..Len(fifo) /\ fifo'[i] = fifo[i] /\ IsCommand(fifo[i], link)
      BY <1>1, <1>11, <2>3
    <3>2. /\ ctl.awaiting /\ fifo[i].part = "whole" /\ NoAnswer(a, in_flight)
          /\ \A j \in i + 1..Len(fifo) : ~IsWrite(fifo[j], link)
          /\ fifo[i].msg.type = "OFFER" => ~ctl.paused
      BY <1>3, <1>5, <3>1, Zenon DEF Talk
    <3>3. ctl'.awaiting /\ a.pending.type # "ACK"
      BY <1>4, <1>6, <3>2 DEF NoAnswer
    <3>4. \A j \in i + 1..Len(fifo') : ~IsWrite(fifo'[j], link)
      <4>1. \A j \in i + 0 + 1..Len(fifo) : ~IsWrite(fifo[j], link)
        BY <3>2, <3>1
      <4>. QED  BY <1>10, <4>1 DEF WritesPass
    <3>. QED  BY <1>1, <1>6, <2>2, <3>1, <3>2, <3>3, <3>4
  <2>4. ~ctl'.awaiting => NoAnswer(a', in_flight')
    <3>1. ~ctl.awaiting => NoAnswer(a, in_flight)
      BY <1>3, <1>5, Zenon DEF Talk
    <3>2. a.buf.type = "ACK" => a.pending.type # "ACK"
      BY <1>3, <1>4, <1>5, Zenon DEF Talk
    <3>. QED  BY <1>6, <2>2, <3>1, <3>2 DEF NoAnswer
  <2>5. Served(active', link')
    BY <1>1, <1>3
  <2>. QED  BY <1>4, <2>1, <2>3, <2>4, <2>5, Zenon DEF Talk
<1>16. \A i \in 1..Len(ctl'.wanted) :
         \/ i \in 1..Len(ctl.wanted) /\ ctl'.wanted[i] = ctl.wanted[i]
         \/ /\ a.buf.type = "REQUEST" /\ ~ctl.paused
            /\ i = Len(ctl.wanted) + 1 /\ ctl'.wanted[i] = a.buf
  BY <1>2, <1>6, Appended
<1>17. \A i \in 1..Len(ctl.wanted) : i \in 1..Len(ctl'.wanted) /\ ctl'.wanted[i] = ctl.wanted[i]
  <2>1. /\ Len(Append(ctl.wanted, a.buf)) = Len(ctl.wanted) + 1 /\ Len(ctl.wanted) \in Nat
        /\ \A i \in 1..Len(ctl.wanted) : Append(ctl.wanted, a.buf)[i] = ctl.wanted[i]
    BY <1>2, QueueAppend, QueueLen
  <2>. QED  BY <1>6, <2>1
<1>18. Numbers'
  <2>1. \A i \in 1..Len(ctl'.wanted) : ctl'.wanted[i].k \in 1..offers
    BY <1>3, <1>5, <1>16 DEF Numbers, Given
  <2>2. \A i \in 1..Len(fifo') : ~(fifo'[i].id = "WRITE" /\ fifo'[i].msg.type = "OFFER")
    <3>1. \A i \in 1..Len(fifo) : ~(fifo[i].id = "WRITE" /\ fifo[i].msg.type = "OFFER")
      BY <1>3, QueueFacts
    <3>2. \A i \in 1..Len(fifo') : fifo'[i].id = "WRITE" => \E j \in 1..Len(fifo) : fifo'[i] = fifo[j]
      BY <1>9 DEF Passed
    <3>. QED  BY <3>1, <3>2
  <2>3. Given(a'.buf, offers') /\ Given(a'.pending, offers')
    BY <1>1, <1>3, <1>5 DEF Numbers
  <2>. QED  BY <1>1, <2>1, <2>2, <2>3 DEF Numbers
<1>19. Paused'
  <2>. SUFFICES ASSUME ctl.paused
                PROVE  Paused'
    BY <1>6 DEF Paused
  <2>1. /\ ctl.wanted = <<>> /\ ~ctl.half
        /\ (~ctl.awaiting \/ ~NoAnswer(a, in_flight) \/ \E i \in 1..Len(fifo) : Other(fifo[i], link)) =>
             ~a.allowed
        /\ ~ctl.awaiting \/ (\E i \in 1..Len(fifo) : Other(fifo[i], link)) => a.pending = NoMsg
        /\ a.buf.type = "ACK" => a.pending = NoMsg
        /\ (\E i \in 1..Len(fifo) : IsData(fifo[i], link)) =>
             \E i \in 1..Len(fifo) : IsCommand(fifo[i], link) /\ fifo[i].msg.type = "PAUSE"
    BY <1>4, <1>5, Zenon DEF Paused
  <2>2. ~NoAnswer(a', in_flight') => ~NoAnswer(a, in_flight)
    BY <1>1, <1>4 DEF NoAnswer
  <2>3. a.buf.type = "ACK" => ~NoAnswer(a, in_flight)
    BY <1>4 DEF NoAnswer
  <2>4. (\E i \in 1..Len(fifo') : Other(fifo'[i], link')) =>
          \E i \in 1..Len(fifo) : Other(fifo[i], link)
    BY <1>1, <1>11
  <2>5. (\E i \in 1..Len(fifo') : IsData(fifo'[i], link')) =>
          \E i \in 1..Len(fifo') : IsCommand(fifo'[i], link') /\ fifo'[i].msg.type = "PAUSE"
    BY <1>1, <1>11, <1>12, <2>1
  <2>6. ctl'.wanted = <<>> /\ ~ctl'.half
    BY <1>6, <2>1
  <2>7. \/ ~ctl'.awaiting \/ ~NoAnswer(a', in_flight')
        \/ \E i \in 1..Len(fifo') : Other(fifo'[i], link')
        => ~a'.allowed
    BY <1>1, <1>6, <2>1, <2>2, <2>3, <2>4
  <2>8. ~ctl'.awaiting \/ (\E i \in 1..Len(fifo') : Other(fifo'[i], link')) => a'.pending = NoMsg
    BY <1>1, <1>6, <2>1, <2>4
  <2>. QED  BY <1>4, <2>5, <2>6, <2>7, <2>8, Zenon DEF Paused
<1>20. Resuming'
  <2>1. \A i \in 1..Len(fifo) : IsCommand(fifo[i], link) => fifo[i].msg.type # "RESUME"
    BY <1>3, <1>4, <1>5 DEF Resuming, Cleared
  <2>2. \A i \in 1..Len(fifo') : IsCommand(fifo'[i], link') => fifo'[i].msg.type # "RESUME"
    BY <1>1, <1>11, <2>1
  <2>. QED  BY <2>2 DEF Resuming
<1>21. OneRequest'
  <2>. SUFFICES ASSUME a.state = "ACTIVE"
                PROVE  (Nowhere \/ InBuf \/ InPending \/ InWanted \/ InData)'
    BY <1>1 DEF OneRequest
  <2>1. Id(a') = Id(a) /\ Token(a') = Token(a)
    BY <1>1
  <2>2. NotBuf(a', in_flight') /\ (NotPending(a) => NotPending(a'))
    BY <1>1, <1>4 DEF NotBuf
  <2>3. NotData(a, fifo, link) => NotData(a', fifo', link')
    BY <1>1, <1>9, <2>1, DataPassed
  <2>4. NotBuf(a, in_flight) => ~(a.buf.type = "REQUEST" /\ a.buf.k = Id(a))
    BY <1>4 DEF NotBuf
  <2>5. NotBuf(a, in_flight) /\ NotWanted(a, ctl.wanted) => NotWanted(a', ctl'.wanted)
    BY <1>16, <2>1, <2>4 DEF NotWanted
  <2>6. CASE Nowhere
    BY <1>1, <1>6, <2>2, <2>3, <2>5, <2>6 DEF Nowhere
  <2>7. CASE InBuf
    <3>1. a.buf = Token(a) /\ NotPending(a) /\ NotWanted(a, ctl.wanted) /\ NotData(a, fifo, link)
      BY <2>7 DEF InBuf
    <3>2. a.buf.type = "REQUEST" /\ a.buf.k = Id(a)
      BY <3>1 DEF Token, TokenOf, Msg, Id
    <3>3. CASE ctl.paused
      <4>1. ctl'.wanted = ctl.wanted
        BY <1>6, <3>3
      <4>2. NotWanted(a', ctl'.wanted)
        BY <2>1, <3>1, <4>1 DEF NotWanted
      <4>. QED  BY <1>6, <2>2, <2>3, <3>1, <3>3, <4>2 DEF Nowhere
    <3>4. CASE ~ctl.paused
      <4>. DEFINE n == Len(ctl.wanted) + 1
      <4>1. ctl'.wanted = Append(ctl.wanted, a.buf)
        BY <1>6, <3>2, <3>4
      <4>2. n \in 1..Len(ctl'.wanted) /\ ctl'.wanted[n] = a.buf
        BY <1>2, <4>1, QueueAppend, QueueLen
      <4>3. \A j \in 1..Len(ctl'.wanted) : j # n => ctl'.wanted[j].k # Id(a')
        BY <1>16, <2>1, <3>1 DEF NotWanted
      <4>. HIDE DEF n
      <4>. QED  BY <1>4, <2>1, <2>2, <2>3, <3>1, <4>2, <4>3 DEF InWanted
    <3>. QED  BY <3>3, <3>4
  <2>8. CASE InPending
    BY <1>1, <2>1, <2>2, <2>3, <2>5, <2>8 DEF InPending
  <2>9. CASE InWanted
    <3>1. PICK i \in 1..Len(ctl.wanted) :
            /\ ctl.wanted[i] = Token(a)
            /\ \A j \in 1..Len(ctl.wanted) : j # i => ctl.wanted[j].k # Id(a)
      BY <2>9 DEF InWanted
    <3>2. NotBuf(a, in_flight) /\ NotPending(a) /\ NotData(a, fifo, link)
      BY <2>9 DEF InWanted
    <3>3. i \in 1..Len(ctl'.wanted) /\ ctl'.wanted[i] = Token(a')
      BY <1>17, <2>1, <3>1
    <3>4. \A j \in 1..Len(ctl'.wanted) : j # i => ctl'.wanted[j].k # Id(a')
      BY <1>16, <2>1, <2>4, <3>1, <3>2
    <3>. QED  BY <1>4, <2>2, <2>3, <3>2, <3>3, <3>4 DEF InWanted
  <2>10. CASE InData
    <3>1. NotBuf(a, in_flight) /\ NotPending(a) /\ NotWanted(a, ctl.wanted)
      BY <2>10 DEF InData
    <3>2. NotBuf(a', in_flight') /\ NotPending(a') /\ NotWanted(a', ctl'.wanted)
      BY <2>2, <2>5, <3>1
    <3>3. a'.pending = a.pending /\ 0 # 1
      BY <1>1
    <3>4. InData'
      BY <1>1, <1>4, <1>9, <2>1, <2>10, <3>2, <3>3, InDataPassed
    <3>. QED  BY <3>4
  <2>. QED  BY <1>3, <1>5, <2>6, <2>7, <2>8, <2>9, <2>10 DEF OneRequest
<1>. QED  BY <1>5, <1>13, <1>14, <1>15, <1>18, <1>19, <1>20, <1>21 DEF TurnInv

-----------------------------------------------------------------------------
(* The controller writes. *)

(* What it writes is the last event of the queue.                           *)
LEMMA WriteStep ==
  ASSUME UpdateInv, NEW part, NEW m, data_cp_write(part, m)
  PROVE  /\ Len(fifo) \in Nat /\ Len(fifo') = Len(fifo) + 1
         /\ \A i \in 1..Len(fifo) : i \in 1..Len(fifo') /\ fifo'[i] = fifo[i]
         /\ \A i \in 1..Len(fifo') :
              (i \in 1..Len(fifo) /\ fifo'[i] = fifo[i]) \/ i = Len(fifo) + 1
         /\ Len(fifo) + 1 \in 1..Len(fifo')
         /\ LET e == fifo'[Len(fifo) + 1] IN
            e.id = "WRITE" /\ e.conn = link /\ e.part = part /\ e.msg = m
         /\ link # None
         /\ a' = a /\ active' = active /\ link' = link /\ in_flight' = in_flight
<1>. DEFINE e == Write(part, m)
<1>1. e.id = "WRITE" /\ e.conn = link /\ e.part = part /\ e.msg = m
  BY DEF Write, Event
<1>2. fifo' = Append(fifo, e)
  BY DEF data_cp_write
<1>. HIDE DEF e
<1>3. Queue(fifo) /\ Len(fifo) \in Nat
  BY QueueFacts
<1>4. /\ Len(fifo') = Len(fifo) + 1 /\ fifo'[Len(fifo) + 1] = e
      /\ \A i \in 1..Len(fifo) : fifo'[i] = fifo[i]
  BY <1>2, <1>3, QueueAppend
<1>5. \A i \in 1..Len(fifo') : i \in 1..Len(fifo) \/ i = Len(fifo) + 1
  BY <1>3, <1>4
<1>. QED  BY <1>1, <1>3, <1>4, <1>5 DEF data_cp_write, linkVars

(* Before it writes, no command of its own waits, and it has its answer.    *)
LEMMA Unanswered ==
  ASSUME Talk, ~ctl.awaiting
  PROVE  /\ \A i \in 1..Len(fifo) : ~IsCommand(fifo[i], link)
         /\ Served(active, link) => NoAnswer(a, in_flight)
BY Zenon DEF Talk

(* What it writes disturbs nothing but the place of the request.            *)
LEMMA TurnWrites ==
  ASSUME TurnInv, UpdateInv, UpdateInv', NEW part, NEW m, data_cp_write(part, m),
         ~ctl.awaiting, ctl'.awaiting <=> m.type \in Commands,
         ctl'.greeted < 2 => ~ctl'.awaiting,
         m.type \in Commands => part = "whole",
         \/ Served(active, link)
         \/ /\ m.type \in {"SYNC", "INFO"}
            /\ ctl'.wanted = ctl.wanted /\ ctl'.paused = ctl.paused /\ ctl'.half = ctl.half,
         offers' >= offers,
         m.type = "OFFER" => m.k \notin 1..offers /\ ~ctl'.paused,
         \A i \in 1..Len(ctl'.wanted) : \E j \in 1..Len(ctl.wanted) : ctl'.wanted[i] = ctl.wanted[j],
         m.type = "PAUSE" \/ (ctl'.paused => ctl.paused),
         ctl'.paused => ctl'.wanted = <<>> /\ ~ctl'.half /\ m.type # "DATA",
         m.type = "RESUME" =>
           /\ ctl.paused /\ ~ctl'.paused /\ NoneRescinded(a)
           /\ ctl'.wanted = ctl.wanted /\ ctl'.half = ctl.half
  PROVE  Distinct' /\ Sending' /\ Talk' /\ Numbers' /\ Paused' /\ Resuming'
<1>. DEFINE n == Len(fifo) + 1
<1>1. /\ Len(fifo) \in Nat /\ Len(fifo') = n
      /\ \A i \in 1..Len(fifo) : i \in 1..Len(fifo') /\ fifo'[i] = fifo[i]
      /\ \A i \in 1..Len(fifo') : (i \in 1..Len(fifo) /\ fifo'[i] = fifo[i]) \/ i = n
      /\ n \in 1..Len(fifo')
      /\ fifo'[n].id = "WRITE" /\ fifo'[n].conn = link /\ fifo'[n].part = part /\ fifo'[n].msg = m
      /\ link # None
      /\ a' = a /\ active' = active /\ link' = link /\ in_flight' = in_flight
  BY WriteStep
<1>2. \A j \in n + 1..Len(fifo') : FALSE
  BY <1>1
<1>3. \A i \in 1..Len(fifo) : i \in 1..n - 1
  BY <1>1
<1>. HIDE DEF n
<1>4. Distinct /\ Sending /\ Talk /\ Numbers /\ Paused /\ Resuming
  BY DEF TurnInv
<1>5. /\ \A i \in 1..Len(fifo) : ~IsCommand(fifo[i], link)
      /\ Served(active, link) => NoAnswer(a, in_flight)
  BY <1>4, Unanswered
<1>6. offers \in Nat /\ offers' \in Nat /\ 1..offers \subseteq 1..offers'
  BY DEF UpdateInv
<1>7. /\ IsCommand(fifo'[n], link) <=> m.type \in Commands
      /\ IsWrite(fifo'[n], link) /\ ~IsAck(fifo'[n], link')
      /\ IsData(fifo'[n], link) => m.type = "DATA"
      /\ Other(fifo'[n], link) => m.type \in Commands /\ m.type # "PAUSE"
  BY <1>1 DEF IsCommand, IsWrite, IsData, Other, IsAck
<1>8. \A i \in 1..Len(fifo') : IsCommand(fifo'[i], link) => i = n
  BY <1>1, <1>5
<1>9. Distinct'
  BY <1>1, <1>4, <1>6 DEF Distinct
<1>10. Sending'
  <2>. DEFINE e == Write(part, m)
  <2>1. e.id = "WRITE" /\ fifo' = Append(fifo, e)
    BY DEF data_cp_write, Write, Event
  <2>. HIDE DEF e
  <2>. QED  BY <1>1, <1>4, <2>1, SendingAppended DEF IsAck
<1>11. Talk'
  <2>1. ~Served(active', link') =>
          /\ ctl'.wanted = <<>> /\ ~ctl'.paused /\ ~ctl'.half
          /\ \A i \in 1..Len(fifo') :
               IsWrite(fifo'[i], link') => fifo'[i].msg.type \in {"SYNC", "INFO"}
    BY <1>1, <1>4 DEF Talk
  <2>2. ASSUME NEW i \in 1..Len(fifo'), IsCommand(fifo'[i], link')
        PROVE  /\ ctl'.awaiting /\ fifo'[i].part = "whole"
               /\ Served(active', link') => NoAnswer(a', in_flight')
               /\ \A j \in i + 1..Len(fifo') : ~IsWrite(fifo'[j], link')
               /\ fifo'[i].msg.type = "OFFER" => ~ctl'.paused
    <3>1. i = n
      BY <1>1, <1>8, <2>2
    <3>. QED  BY <1>1, <1>2, <1>5, <1>7, <2>2, <3>1
  <2>3. Served(active', link') => NoAnswer(a', in_flight')
    BY <1>1, <1>5
  <2>4. Served(active', link') /\ Speaks(a', in_flight') /\ a'.buf.type = "ACK" => a'.pending.type # "ACK"
    BY <1>1, <1>4, Zenon DEF Talk
  <2>. QED  BY <2>1, <2>2, <2>3, <2>4, Zenon DEF Talk
<1>12. Numbers'
  <2>1. \A i \in 1..Len(ctl.wanted) : ctl.wanted[i].k \in 1..offers
    BY <1>4 DEF Numbers
  <2>2. \A i \in 1..Len(ctl'.wanted) : ctl'.wanted[i].k \in 1..offers'
    BY <1>6, <2>1
  <2>3. Served(active', link') => Given(a'.buf, offers') /\ Given(a'.pending, offers')
    BY <1>1, <1>4, <1>6 DEF Numbers, Given
  <2>4. ASSUME NEW i \in 1..Len(fifo'), fifo'[i].id = "WRITE", fifo'[i].msg.type = "OFFER"
        PROVE  /\ \A j \in Listed(a') : a'.obj[j].id # fifo'[i].msg.k
               /\ \A j \in 1..Len(ctl'.wanted) : ctl'.wanted[j].k # fifo'[i].msg.k
    <3>1. CASE i \in 1..Len(fifo) /\ fifo'[i] = fifo[i]
      <4>1. /\ \A j \in Listed(a) : a.obj[j].id # fifo[i].msg.k
            /\ \A j \in 1..Len(ctl.wanted) : ctl.wanted[j].k # fifo[i].msg.k
        BY <1>4, <2>4, <3>1 DEF Numbers
      <4>. QED  BY <1>1, <3>1, <4>1
    <3>2. CASE i = n
      <4>1. fifo'[i].msg.k \notin 1..offers
        BY <1>1, <2>4, <3>2
      <4>2. \A j \in Listed(a) : a.obj[j].id \in 1..offers
        BY <1>4 DEF Distinct
      <4>3. Listed(a') = Listed(a) /\ a'.obj = a.obj
        BY <1>1
      <4>4. \A j \in Listed(a') : a'.obj[j].id # fifo'[i].msg.k
        BY <4>1, <4>2, <4>3
      <4>5. \A j \in 1..Len(ctl'.wanted) : ctl'.wanted[j].k # fifo'[i].msg.k
        BY <2>1, <4>1
      <4>. QED  BY <4>4, <4>5
    <3>. QED  BY <1>1, <3>1, <3>2
  <2>. QED  BY <2>2, <2>3, <2>4 DEF Numbers
<1>13. Paused'
  <2>. SUFFICES ASSUME ctl'.paused
                PROVE  Paused'
    BY DEF Paused
  <2>1. Served(active, link) /\ NoAnswer(a, in_flight)
    BY <1>4, <1>5, Zenon DEF Talk
  <2>2. CASE m.type = "PAUSE"
    <3>1. ctl'.awaiting
      BY <2>2 DEF Commands
    <3>2. \A i \in 1..Len(fifo') : ~Other(fifo'[i], link')
      BY <1>1, <1>7, <1>8, <2>2 DEF Other
    <3>3. Speaks(a', in_flight') => a'.buf.type # "ACK"
      BY <1>1, <2>1 DEF NoAnswer
    <3>4. \E i \in 1..Len(fifo') : IsCommand(fifo'[i], link') /\ fifo'[i].msg.type = "PAUSE"
      BY <1>1, <1>7, <2>2 DEF Commands
    <3>. QED  BY <1>1, <2>1, <3>1, <3>2, <3>3, <3>4, Zenon DEF Paused
  <2>3. CASE m.type # "PAUSE"
    <3>1. ctl.paused
      BY <2>3
    <3>2. ~a.allowed /\ a.pending = NoMsg /\ (a.buf = NoMsg \/ Delivered(a, in_flight))
      BY <1>4, <3>1, Zenon DEF Paused
    <3>3. \A i \in 1..Len(fifo) : ~IsData(fifo[i], link)
      BY <1>4, <1>5, <3>1, Zenon DEF Paused
    <3>4. \A i \in 1..Len(fifo') : ~IsData(fifo'[i], link')
      BY <1>1, <1>7, <3>3
    <3>. QED  BY <1>1, <3>2, <3>4, Zenon DEF Paused
  <2>. QED  BY <2>2, <2>3
<1>14. Resuming'
  <2>. SUFFICES ASSUME m.type = "RESUME",
                       IsCommand(fifo'[n], link')
                PROVE  /\ Served(active', link') /\ ~a'.allowed /\ a'.pending = NoMsg
                       /\ a'.buf = NoMsg \/ Cleared(fifo', n, active', a', in_flight')
                       /\ ctl'.wanted = <<>> /\ ~ctl'.paused /\ ~ctl'.half /\ NoneRescinded(a')
                       /\ \A j \in 1..Len(fifo') : ~IsData(fifo'[j], link')
    BY <1>1, <1>8 DEF Resuming
  <2>1. /\ ctl.wanted = <<>> /\ ~ctl.half /\ ~a.allowed /\ a.pending = NoMsg
        /\ a.buf = NoMsg \/ Delivered(a, in_flight)
    BY <1>4, Zenon DEF Paused
  <2>2. \A i \in 1..Len(fifo) : ~IsData(fifo[i], link)
    BY <1>4, <1>5, Zenon DEF Paused
  <2>3. \A j \in 1..Len(fifo') : ~IsData(fifo'[j], link')
    BY <1>1, <1>7, <2>2
  <2>4. Delivered(a, in_flight) => Cleared(fifo', n, active', a', in_flight')
    <3>1. Delivered(a, in_flight) => \E j \in 1..Len(fifo) : IsAck(fifo[j], active)
      BY <1>4 DEF Sending, Delivered, NoAck
    <3>. QED  BY <1>1, <1>3, <3>1 DEF Cleared
  <2>5. Served(active, link)
    BY DEF Commands
  <2>. QED  BY <1>1, <2>1, <2>3, <2>4, <2>5
<1>. QED  BY <1>9, <1>10, <1>11, <1>12, <1>13, <1>14

(* A command, a greeting or half of an answer leaves the request where it   *)
(* is, unless the controller forgets it.                                    *)
LEMMA TurnSaid ==
  ASSUME TurnInv, UpdateInv, NEW part, NEW m, data_cp_write(part, m), ~ctl.awaiting,
         part = "first" \/ m.type # "DATA",
         ctl'.wanted = ctl.wanted \/ (ctl'.wanted = <<>> /\ ctl'.paused),
         ctl.paused => ctl'.paused \/ ~a.allowed
  PROVE  OneRequest'
<1>. DEFINE n == Len(fifo) + 1
<1>1. /\ Len(fifo) \in Nat /\ Len(fifo') = n
      /\ \A i \in 1..Len(fifo) : i \in 1..Len(fifo') /\ fifo'[i] = fifo[i]
      /\ \A i \in 1..Len(fifo') : (i \in 1..Len(fifo) /\ fifo'[i] = fifo[i]) \/ i = n
      /\ fifo'[n].part = part /\ fifo'[n].msg = m
      /\ a' = a /\ active' = active /\ link' = link /\ in_flight' = in_flight
  BY WriteStep
<1>2. \A i \in 1..Len(fifo) : \A j \in 1..i - 1 : j \in 1..Len(fifo)
  BY <1>1
<1>. HIDE DEF n
<1>. SUFFICES ASSUME Served(active, link), a.state = "ACTIVE"
              PROVE  (Nowhere \/ InBuf \/ InPending \/ InWanted \/ InData)'
  BY <1>1 DEF OneRequest
<1>3. Id(a') = Id(a) /\ Token(a') = Token(a)
  BY <1>1
<1>4. \A i \in 1..Len(fifo') : IsData(fifo'[i], link') => i \in 1..Len(fifo) /\ fifo'[i] = fifo[i] /\ IsData(fifo[i], link)
  BY <1>1 DEF IsData
<1>5. NotData(a, fifo, link) => NotData(a', fifo', link')
  BY <1>3, <1>4 DEF NotData
<1>6. NotWanted(a, ctl.wanted) => NotWanted(a', ctl'.wanted)
  BY <1>3, EmptyQueue DEF NotWanted
<1>7. CASE Nowhere
  BY <1>1, <1>5, <1>6, <1>7 DEF Nowhere
<1>8. CASE InBuf
  BY <1>1, <1>5, <1>6, <1>8 DEF InBuf
<1>9. CASE InPending
  BY <1>1, <1>5, <1>6, <1>9 DEF InPending
<1>10. CASE InWanted
  <2>1. CASE ctl'.wanted = ctl.wanted
    BY <1>1, <1>5, <1>10, <2>1 DEF InWanted
  <2>2. CASE ctl'.wanted = <<>> /\ ctl'.paused
    <3>1. NotWanted(a', ctl'.wanted)
      BY <2>2, EmptyQueue DEF NotWanted
    <3>. QED  BY <1>1, <1>5, <1>10, <2>2, <3>1 DEF InWanted, Nowhere
  <2>. QED  BY <2>1, <2>2
<1>11. CASE InData
  <2>1. PICK i \in 1..Len(fifo) :
          /\ IsData(fifo[i], link) /\ fifo[i].msg.k = Id(a) /\ fifo[i].msg.arg = Token(a).arg
          /\ \A j \in 1..Len(fifo) : j # i /\ IsData(fifo[j], link) => fifo[j].msg.k # Id(a)
          /\ a.pending = NoMsg \/ Cleared(fifo, i, active, a, in_flight)
    BY <1>11 DEF InData
  <2>2. NotBuf(a, in_flight) /\ NotPending(a) /\ NotWanted(a, ctl.wanted)
    BY <1>11 DEF InData
  <2>3. /\ i \in 1..Len(fifo') /\ fifo'[i] = fifo[i]
        /\ \A j \in 1..Len(fifo') : j # i /\ IsData(fifo'[j], link') => fifo'[j].msg.k # Id(a')
    BY <1>1, <1>3, <1>4, <2>1
  <2>4. a'.pending = NoMsg \/ Cleared(fifo', i, active', a', in_flight')
    <3>1. Cleared(fifo, i, active, a, in_flight) => Cleared(fifo', i, active', a', in_flight')
      BY <1>1, <1>2 DEF Cleared
    <3>. QED  BY <1>1, <2>1, <3>1
  <2>5. NotBuf(a', in_flight') /\ NotPending(a') /\ NotWanted(a', ctl'.wanted)
    BY <1>1, <1>6, <2>2
  <2>. QED  BY <1>1, <1>3, <2>1, <2>3, <2>4, <2>5 DEF InData
<1>. QED  BY <1>7, <1>8, <1>9, <1>10, <1>11 DEF TurnInv, OneRequest

(* The answer to a request is on its way.                                   *)
LEMMA TurnAnswers ==
  ASSUME TurnInv, UpdateInv, NEW part, NEW m, data_cp_write(part, m), ~ctl.awaiting,
         ctl.wanted # <<>>, part # "first",
         m.type = "DATA", m.k = ctl.wanted[1].k, m.arg = ctl.wanted[1].arg,
         ctl'.wanted = Tail(ctl.wanted), ctl'.paused = ctl.paused
  PROVE  OneRequest'
<1>. DEFINE n == Len(fifo) + 1
<1>1. /\ Len(fifo) \in Nat /\ Len(fifo') = n
      /\ \A i \in 1..Len(fifo) : i \in 1..Len(fifo') /\ fifo'[i] = fifo[i]
      /\ \A i \in 1..Len(fifo') : (i \in 1..Len(fifo) /\ fifo'[i] = fifo[i]) \/ i = n
      /\ n \in 1..Len(fifo')
      /\ fifo'[n].id = "WRITE" /\ fifo'[n].conn = link /\ fifo'[n].part = part /\ fifo'[n].msg = m
      /\ a' = a /\ active' = active /\ link' = link /\ in_flight' = in_flight
  BY WriteStep
<1>2. /\ \A i \in 1..Len(fifo) : \A j \in 1..i - 1 : j \in 1..Len(fifo)
      /\ \A j \in 1..Len(fifo) : j \in 1..n - 1 /\ j # n
  BY <1>1
<1>. HIDE DEF n
<1>3. Client
  BY DEF UpdateInv
<1>4. /\ Len(ctl.wanted) \in Nat /\ 1 \in 1..Len(ctl.wanted)
      /\ \A i \in 1..Len(ctl'.wanted) :
           i + 1 \in 1..Len(ctl.wanted) /\ ctl'.wanted[i] = ctl.wanted[i + 1] /\ i + 1 # 1
      /\ \A i \in 1..Len(ctl.wanted) : i # 1 =>
           i - 1 \in 1..Len(ctl'.wanted) /\ ctl'.wanted[i - 1] = ctl.wanted[i]
      /\ \A i, j \in 1..Len(ctl.wanted) : i - 1 # j - 1 => i # j
  <2>1. /\ Len(ctl.wanted) \in Nat /\ Len(ctl.wanted) > 0 /\ Len(ctl'.wanted) = Len(ctl.wanted) - 1
        /\ \A i \in 1..Len(ctl.wanted) - 1 : ctl'.wanted[i] = ctl.wanted[i + 1]
    BY <1>3, QueueTail DEF Client
  <2>2. ASSUME NEW i \in 1..Len(ctl.wanted), i # 1
        PROVE  i - 1 \in 1..Len(ctl'.wanted) /\ ctl'.wanted[i - 1] = ctl.wanted[i]
    <3>1. i - 1 \in 1..Len(ctl.wanted) - 1 /\ (i - 1) + 1 = i
      BY <2>1, <2>2
    <3>. QED  BY <2>1, <3>1
  <2>. QED  BY <2>1, <2>2
<1>. SUFFICES ASSUME Served(active, link), a.state = "ACTIVE"
              PROVE  (Nowhere \/ InBuf \/ InPending \/ InWanted \/ InData)'
  BY <1>1 DEF OneRequest
<1>5. Id(a') = Id(a) /\ Token(a') = Token(a)
  BY <1>1
<1>6. IsData(fifo'[n], link')
  BY <1>1 DEF IsData, IsWrite
<1>7. NotData(a, fifo, link) /\ ctl.wanted[1].k # Id(a) => NotData(a', fifo', link')
  BY <1>1, <1>5 DEF NotData
<1>8. /\ NotWanted(a, ctl.wanted) => NotWanted(a', ctl'.wanted)
      /\ NotWanted(a, ctl.wanted) => ctl.wanted[1].k # Id(a)
  BY <1>4, <1>5 DEF NotWanted
<1>9. CASE Nowhere
  BY <1>1, <1>7, <1>8, <1>9 DEF Nowhere
<1>10. CASE InBuf
  BY <1>1, <1>7, <1>8, <1>10 DEF InBuf
<1>11. CASE InPending
  BY <1>1, <1>7, <1>8, <1>11 DEF InPending
<1>12. CASE InWanted
  <2>1. PICK i \in 1..Len(ctl.wanted) :
          /\ ctl.wanted[i] = Token(a)
          /\ \A j \in 1..Len(ctl.wanted) : j # i => ctl.wanted[j].k # Id(a)
    BY <1>12 DEF InWanted
  <2>2. /\ NotBuf(a', in_flight') /\ NotPending(a') /\ NotData(a, fifo, link)
        /\ a.pending = NoMsg \/ Delivered(a, in_flight)
    BY <1>1, <1>12 DEF InWanted
  <2>3. CASE i = 1
    <3>1. fifo'[n].msg.k = Id(a') /\ fifo'[n].msg.arg = Token(a').arg
      BY <1>1, <1>5, <2>1, <2>3 DEF Token, TokenOf, Msg, Id
    <3>2. \A j \in 1..Len(fifo') : j # n /\ IsData(fifo'[j], link') => fifo'[j].msg.k # Id(a')
      BY <1>1, <1>5, <2>2 DEF NotData
    <3>3. Delivered(a, in_flight) => Cleared(fifo', n, active', a', in_flight')
      <4>1. Delivered(a, in_flight) => \E j \in 1..Len(fifo) : IsAck(fifo[j], active)
        BY DEF TurnInv, Sending, Delivered, NoAck
      <4>. QED  BY <1>1, <1>2, <4>1 DEF Cleared
    <3>4. NotWanted(a', ctl'.wanted)
      BY <1>4, <1>5, <2>1, <2>3 DEF NotWanted
    <3>. QED  BY <1>1, <1>6, <2>2, <3>1, <3>2, <3>3, <3>4 DEF InData
  <2>4. CASE i # 1
    <3>1. NotData(a', fifo', link')
      BY <1>4, <1>7, <2>1, <2>2, <2>4
    <3>. DEFINE p == i - 1
    <3>2. p \in 1..Len(ctl'.wanted) /\ ctl'.wanted[p] = Token(a')
      BY <1>4, <1>5, <2>1, <2>4
    <3>3. \A j \in 1..Len(ctl'.wanted) : j # p => ctl'.wanted[j].k # Id(a')
      <4>1. \A j \in 1..Len(ctl'.wanted) : j # p => j + 1 # i
        BY <1>4
      <4>. QED  BY <1>4, <1>5, <2>1, <4>1
    <3>. HIDE DEF p
    <3>. QED  BY <1>1, <2>2, <3>1, <3>2, <3>3 DEF InWanted
  <2>. QED  BY <2>3, <2>4
<1>13. CASE InData
  <2>1. PICK i \in 1..Len(fifo) :
          /\ IsData(fifo[i], link) /\ fifo[i].msg.k = Id(a) /\ fifo[i].msg.arg = Token(a).arg
          /\ \A j \in 1..Len(fifo) : j # i /\ IsData(fifo[j], link) => fifo[j].msg.k # Id(a)
          /\ a.pending = NoMsg \/ Cleared(fifo, i, active, a, in_flight)
    BY <1>13 DEF InData
  <2>2. NotBuf(a', in_flight') /\ NotPending(a') /\ NotWanted(a', ctl'.wanted) /\ ctl.wanted[1].k # Id(a)
    BY <1>1, <1>8, <1>13 DEF InData
  <2>3. i \in 1..Len(fifo') /\ fifo'[i] = fifo[i]
    BY <1>1
  <2>4. \A j \in 1..Len(fifo') : j # i /\ IsData(fifo'[j], link') => fifo'[j].msg.k # Id(a')
    BY <1>1, <1>5, <2>1, <2>2
  <2>5. a'.pending = NoMsg \/ Cleared(fifo', i, active', a', in_flight')
    <3>1. Cleared(fifo, i, active, a, in_flight) => Cleared(fifo', i, active', a', in_flight')
      BY <1>1, <1>2 DEF Cleared
    <3>. QED  BY <1>1, <2>1, <3>1
  <2>. QED  BY <1>1, <1>5, <2>1, <2>2, <2>3, <2>4, <2>5 DEF InData
<1>. QED  BY <1>9, <1>10, <1>11, <1>12, <1>13 DEF TurnInv, OneRequest

(* A command, by a controller that is served.                               *)
LEMMA TurnCommand ==
  ASSUME TurnInv, UpdateInv, UpdateInv', WholeInv, NEW m, m.type \in Commands, Idle,
         data_cp_write("whole", m),
         ctl'.awaiting = TRUE, ctl'.greeted = ctl.greeted, ctl'.half = ctl.half, offers' >= offers,
         m.type = "OFFER" => m.k \notin 1..offers /\ ~ctl'.paused,
         \/ m.type # "RESUME" /\ ctl'.paused = ctl.paused /\ ctl'.wanted = ctl.wanted
         \/ m.type = "PAUSE" /\ ctl'.paused /\ ctl'.wanted = <<>>
         \/ /\ m.type = "RESUME" /\ ctl.paused /\ ~ctl'.paused /\ ctl'.wanted = ctl.wanted
            /\ NoneRescinded(a)
  PROVE  TurnInv'
<1>1. ctl.greeted = 2 /\ ~ctl.awaiting /\ ~ctl.half
  BY DEF Idle
<1>2. Served(active, link)
  BY <1>1 DEF WholeInv, ServedInv, Served, data_cp_write
<1>3. ctl.paused => ctl.wanted = <<>> /\ ~a.allowed
  BY <1>1, Zenon DEF TurnInv, Paused
<1>4. \A i \in 1..Len(ctl'.wanted) : \E j \in 1..Len(ctl.wanted) : ctl'.wanted[i] = ctl.wanted[j]
  BY EmptyQueue
<1>5. m.type # "DATA"
  BY DEF Commands
<1>6. /\ ctl'.awaiting <=> m.type \in Commands
      /\ ctl'.greeted < 2 => ~ctl'.awaiting
      /\ m.type = "PAUSE" \/ (ctl'.paused => ctl.paused)
      /\ ctl'.paused => ctl'.wanted = <<>> /\ ~ctl'.half /\ m.type # "DATA"
      /\ m.type = "RESUME" =>
           /\ ctl.paused /\ ~ctl'.paused /\ NoneRescinded(a)
           /\ ctl'.wanted = ctl.wanted /\ ctl'.half = ctl.half
  BY <1>1, <1>3, <1>5
<1>7. Distinct' /\ Sending' /\ Talk' /\ Numbers' /\ Paused' /\ Resuming'
  BY <1>1, <1>2, <1>4, <1>6, TurnWrites
<1>8. /\ ctl'.wanted = ctl.wanted \/ (ctl'.wanted = <<>> /\ ctl'.paused)
      /\ ctl.paused => ctl'.paused \/ ~a.allowed
  BY <1>3
<1>9. OneRequest'
  BY <1>1, <1>5, <1>8, TurnSaid
<1>. QED  BY <1>7, <1>9 DEF TurnInv

(* A sync asks for nothing; the version discovery is a command like others. *)
LEMMA TurnGreet == TurnInv /\ UpdateInv /\ UpdateInv' /\ WholeInv /\ Greet => TurnInv'
<1>. SUFFICES ASSUME TurnInv, UpdateInv, UpdateInv', WholeInv, Greet PROVE TurnInv'
  OBVIOUS
<1>. DEFINE m == Msg(IF ctl.greeted = 0 THEN "SYNC" ELSE "INFO", None, NoArg)
<1>1. /\ ctl.greeted \in {0, 1} /\ ~ctl.half /\ Client
  BY DEF Greet, WholeInv, ServedInv, UpdateInv
<1>2. /\ data_cp_write("whole", m) /\ offers' = offers
      /\ ctl'.greeted = ctl.greeted + 1 /\ ctl'.awaiting = (ctl.greeted = 1)
      /\ ctl'.paused = ctl.paused /\ ctl'.half = ctl.half /\ ctl'.wanted = ctl.wanted
  BY <1>1 DEF Greet, Client
<1>3. m.type = IF ctl.greeted = 0 THEN "SYNC" ELSE "INFO"
  BY DEF Msg
<1>. HIDE DEF m
<1>4. ~ctl.awaiting /\ (ctl.paused => ctl.wanted = <<>>)
  <2>1. ctl.greeted < 2
    BY <1>1
  <2>. QED  BY <2>1, Zenon DEF TurnInv, Talk, Paused
<1>5. /\ m.type \in {"SYNC", "INFO"} /\ m.type # "DATA"
      /\ m.type # "OFFER" /\ m.type # "RESUME" /\ m.type # "PAUSE"
      /\ ctl'.awaiting <=> m.type \in Commands
      /\ ctl'.greeted < 2 => ~ctl'.awaiting
      /\ offers' >= offers
  <2>1. offers' >= offers
    BY <1>2 DEF UpdateInv
  <2>2. m.type = "SYNC" \/ m.type = "INFO"
    BY <1>3
  <2>3. m.type = "INFO" <=> ctl.greeted = 1
    BY <1>1, <1>3
  <2>4. m.type \in Commands <=> m.type = "INFO"
    BY <2>2 DEF Commands
  <2>5. ctl'.awaiting <=> ctl.greeted = 1
    BY <1>2, Zenon
  <2>6. ctl'.greeted < 2 => ctl.greeted # 1
    BY <1>1, <1>2
  <2>7. ctl'.greeted < 2 => ~ctl'.awaiting
    BY <2>5, <2>6, Zenon
  <2>8. ctl'.awaiting <=> m.type \in Commands
    BY <2>3, <2>4, <2>5, Zenon
  <2>. QED  BY <2>1, <2>2, <2>7, <2>8
<1>6. \A i \in 1..Len(ctl'.wanted) : \E j \in 1..Len(ctl.wanted) : ctl'.wanted[i] = ctl.wanted[j]
  BY <1>2
<1>7. Distinct' /\ Sending' /\ Talk' /\ Numbers' /\ Paused' /\ Resuming'
  BY <1>1, <1>2, <1>4, <1>5, <1>6, TurnWrites
<1>8. OneRequest'
  BY <1>2, <1>4, <1>5, TurnSaid
<1>. QED  BY <1>7, <1>8 DEF TurnInv

(* What the controller was asked for it forgets, and it answers no more.    *)
LEMMA TurnPause == TurnInv /\ UpdateInv /\ UpdateInv' /\ WholeInv /\ Pause => TurnInv'
<1>. SUFFICES ASSUME TurnInv, UpdateInv, UpdateInv', WholeInv, Pause PROVE TurnInv'
  OBVIOUS
<1>. DEFINE m == Msg("PAUSE", None, NoArg)
<1>1. /\ Idle /\ data_cp_write("whole", m) /\ offers' = offers
      /\ ctl'.awaiting = TRUE /\ ctl'.greeted = ctl.greeted /\ ctl'.half = ctl.half
      /\ ctl'.paused /\ ctl'.wanted = <<>>
  BY DEF Pause, Command, UpdateInv, Client
<1>2. m.type = "PAUSE" /\ m.type \in Commands /\ offers' >= offers
  BY <1>1 DEF Msg, Commands, UpdateInv
<1>. HIDE DEF m
<1>. QED  BY <1>1, <1>2, TurnCommand

(* Both buffers are free, or will be when the command is handled.           *)
LEMMA TurnResume ==
  "rescind_resume" \notin Races /\ TurnInv /\ UpdateInv /\ UpdateInv' /\ WholeInv /\ Resume => TurnInv'
<1>. SUFFICES ASSUME "rescind_resume" \notin Races, TurnInv, UpdateInv, UpdateInv', WholeInv, Resume
              PROVE  TurnInv'
  OBVIOUS
<1>. DEFINE m == Msg("RESUME", None, NoArg)
<1>1. /\ Idle /\ data_cp_write("whole", m) /\ offers' = offers
      /\ ctl'.awaiting = TRUE /\ ctl'.greeted = ctl.greeted /\ ctl'.half = ctl.half
      /\ ctl.paused /\ ~ctl'.paused /\ ctl'.wanted = ctl.wanted
  BY DEF Resume, Command, UpdateInv, Client
<1>2. m.type = "RESUME" /\ m.type \in Commands /\ offers' >= offers
  BY <1>1 DEF Msg, Commands, UpdateInv
<1>3. NoneRescinded(a)
  BY DEF Resume, RescindedRequest, NoneRescinded
<1>. HIDE DEF m
<1>. QED  BY <1>1, <1>2, <1>3, TurnCommand

(* Commands that leave the transfer where it is.                            *)
LEMMA TurnOthers ==
  TurnInv /\ UpdateInv /\ UpdateInv' /\ WholeInv /\ (RescindAsset \/ RescindAll \/ Query) => TurnInv'
<1>. SUFFICES ASSUME TurnInv, UpdateInv, UpdateInv', WholeInv, RescindAsset \/ RescindAll \/ Query
              PROVE  TurnInv'
  OBVIOUS
<1>1. \E t \in {"RESCIND", "INFO", "APPLY"}, k \in Offers \cup {None} :
        Command(Msg(t, k, NoArg)) /\ \E S : ctl' = [ctl EXCEPT !.awaiting = TRUE, !.ids = S]
  <2>1. CASE RescindAsset
    <3>1. PICK k \in ctl.ids : /\ Command(Msg("RESCIND", k, NoArg))
                               /\ ctl' = [ctl EXCEPT !.awaiting = TRUE, !.ids = @ \ {k}]
      BY <2>1 DEF RescindAsset
    <3>2. ctl' = [ctl EXCEPT !.awaiting = TRUE, !.ids = ctl.ids \ {k}]
      BY <3>1
    <3>3. k \in Offers
      <4>1. k \in 1..offers /\ offers \in 0..MaxOffers
        BY DEF UpdateInv, Client
      <4>. QED  BY <4>1, UarpAssumption DEF Offers
    <3>. QED  BY <3>1, <3>2, <3>3
  <2>2. CASE RescindAll
    BY <2>2 DEF RescindAll
  <2>3. CASE Query
    <3>1. PICK t \in {"INFO", "APPLY"} : /\ Command(Msg(t, None, NoArg))
                                         /\ ctl' = [ctl EXCEPT !.awaiting = TRUE]
      BY <2>3 DEF Query
    <3>2. ctl' = [ctl EXCEPT !.awaiting = TRUE, !.ids = ctl.ids]
      BY <3>1 DEF UpdateInv, Client
    <3>. QED  BY <3>1, <3>2
  <2>. QED  BY <2>1, <2>2, <2>3
<1>2. PICK t \in {"RESCIND", "INFO", "APPLY"}, k \in Offers \cup {None} :
        Command(Msg(t, k, NoArg)) /\ \E S : ctl' = [ctl EXCEPT !.awaiting = TRUE, !.ids = S]
  BY <1>1
<1>. DEFINE m == Msg(t, k, NoArg)
<1>3. /\ Idle /\ data_cp_write("whole", m) /\ offers' = offers
      /\ ctl'.awaiting = TRUE /\ ctl'.greeted = ctl.greeted /\ ctl'.half = ctl.half
      /\ ctl'.paused = ctl.paused /\ ctl'.wanted = ctl.wanted
  BY <1>2 DEF Command, UpdateInv, Client
<1>4. m.type = t /\ m.type \in Commands /\ offers' >= offers
  BY <1>3 DEF Msg, Commands, UpdateInv
<1>. HIDE DEF m
<1>. QED  BY <1>3, <1>4, TurnCommand

(* The offer has an identifier that no asset and no request has.            *)
LEMMA TurnOffer == TurnInv /\ UpdateInv /\ UpdateInv' /\ WholeInv /\ Offer => TurnInv'
<1>. SUFFICES ASSUME TurnInv, UpdateInv, UpdateInv', WholeInv, Offer PROVE TurnInv'
  OBVIOUS
<1>1. PICK v \in Versions :
        /\ Idle /\ ~ctl.paused
        /\ data_cp_write("whole", Msg("OFFER", offers + 1, <<"VERSION", v, 0>>))
        /\ ctl' = [ctl EXCEPT !.awaiting = TRUE, !.ids = @ \cup {offers + 1}]
        /\ offers' = offers + 1
  BY DEF Offer
<1>. DEFINE m == Msg("OFFER", offers + 1, <<"VERSION", v, 0>>)
<1>2. /\ Idle /\ data_cp_write("whole", m) /\ offers' = offers + 1
      /\ ctl'.awaiting = TRUE /\ ctl'.greeted = ctl.greeted /\ ctl'.half = ctl.half
      /\ ctl'.paused = ctl.paused /\ ~ctl'.paused /\ ctl'.wanted = ctl.wanted
  BY <1>1 DEF UpdateInv, Client
<1>3. m.type = "OFFER" /\ m.type \in Commands /\ offers' >= offers /\ m.k \notin 1..offers
  BY <1>2 DEF Msg, Commands, UpdateInv
<1>. HIDE DEF m
<1>. QED  BY <1>2, <1>3, TurnCommand

(* The answer in one write, or in two.                                      *)
LEMMA TurnAnswer == TurnInv /\ UpdateInv /\ UpdateInv' /\ WholeInv /\ Answer => TurnInv'
<1>. SUFFICES ASSUME TurnInv, UpdateInv, UpdateInv', WholeInv, Answer PROVE TurnInv'
  OBVIOUS
<1>1. Client /\ Queue(ctl.wanted) /\ ctl.wanted # <<>> /\ ctl.wanted[1] \in Message /\ Head(ctl.wanted) = ctl.wanted[1]
  <2>1. Client /\ ctl.wanted # <<>>
    BY DEF Answer, UpdateInv
  <2>2. Queue(ctl.wanted) /\ 1 \in 1..Len(ctl.wanted) /\ Head(ctl.wanted) = ctl.wanted[1]
    BY <2>1, QueueTail DEF Client
  <2>. QED  BY <2>1, <2>2 DEF Client
<1>. DEFINE m == [Head(ctl.wanted) EXCEPT !.type = "DATA"]
<1>2. PICK part \in {"whole", "first", "last"} :
        /\ data_cp_write(part, m)
        /\ IF part = "last" THEN ctl.half ELSE Idle
        /\ ctl'.awaiting = ctl.awaiting /\ ctl'.greeted = ctl.greeted /\ ctl'.paused = ctl.paused
        /\ ctl'.half = IF part = "first" THEN TRUE ELSE IF part = "last" THEN FALSE ELSE ctl.half
        /\ ctl'.wanted = IF part = "first" THEN ctl.wanted ELSE Tail(ctl.wanted)
  BY <1>1 DEF Answer, Client
<1>3. m.type = "DATA" /\ m.k = ctl.wanted[1].k /\ m.arg = ctl.wanted[1].arg
  BY <1>1 DEF Message
<1>. HIDE DEF m
<1>4. ctl.greeted = 2 /\ ~ctl.awaiting
  BY <1>2, Zenon DEF Idle, WholeInv, ServedInv
<1>5. Served(active, link)
  BY <1>2, <1>4 DEF WholeInv, ServedInv, Served, data_cp_write
<1>6. ~ctl.paused
  BY <1>1, Zenon DEF TurnInv, Paused
<1>7. \A i \in 1..Len(ctl'.wanted) : \E j \in 1..Len(ctl.wanted) : ctl'.wanted[i] = ctl.wanted[j]
  BY <1>1, <1>2, Taken
<1>8. /\ m.type \notin Commands /\ m.type # "OFFER" /\ m.type # "RESUME" /\ ~ctl'.awaiting /\ ~ctl'.paused
      /\ offers' >= offers
  BY <1>2, <1>3, <1>4, <1>6 DEF Commands, Answer, UpdateInv
<1>9. Distinct' /\ Sending' /\ Talk' /\ Numbers' /\ Paused' /\ Resuming'
  BY <1>2, <1>4, <1>5, <1>7, <1>8, TurnWrites
<1>10. CASE part = "first"
  <2>1. OneRequest'
    BY <1>2, <1>4, <1>6, <1>10, TurnSaid
  <2>. QED  BY <1>9, <2>1 DEF TurnInv
<1>11. CASE part # "first"
  <2>1. OneRequest'
    BY <1>1, <1>2, <1>3, <1>4, <1>11, TurnAnswers
  <2>. QED  BY <1>9, <2>1 DEF TurnInv
<1>. QED  BY <1>10, <1>11

-----------------------------------------------------------------------------
(* The service handles an acknowledgement. *)

(* A message has been confirmed: the one that waits is sent next.           *)
LEMMA TurnComplete ==
  ASSUME TurnInv, UpdateInv, UpdateInv', fifo # <<>>, IsAck(Head(fifo), active),
         active' = active, in_flight' = in_flight, Handled(send_message_complete(a)),
         a.sending = "sent" \/ Head(fifo).part = "error" \/ link # active
  PROVE  TurnInv'
<1>. DEFINE x == send_message_complete(a)
<1>1. a \in Accessory /\ Sound(a) /\ Buffers(a) /\ ~a.kick /\ Acks(fifo, active, link, in_flight, a.sending)
  BY DEF UpdateInv
<1>2. x \in Accessory /\ x.sending = IF x.kick THEN "new" ELSE "none"
  BY <1>1, CompleteSound
<1>3. /\ x.obj = a.obj /\ x.order = a.order /\ x.state = a.state /\ x.asset = a.asset
      /\ x.allowed = a.allowed /\ x.buf = a.pending /\ x.pending = NoMsg
      /\ x.sending = IF a.pending = NoMsg THEN "none" ELSE "new"
  BY <1>1 DEF send_message_complete, Accessory
<1>4. Handled(x)
  OBVIOUS
<1>. HIDE DEF x
<1>5. ~in_flight /\ active # None
  BY <1>1, AcksTail
<1>6. /\ Passed(fifo, fifo', 1) /\ Head(fifo) = fifo[1] /\ 1 \in 1..Len(fifo)
      /\ a'.obj = a.obj /\ a'.order = a.order /\ a'.state = a.state /\ a'.asset = a.asset
      /\ a'.allowed = a.allowed /\ a'.buf = a.pending /\ a'.pending = NoMsg
      /\ a'.sending = IF a.pending = NoMsg THEN "none" ELSE "new"
      /\ link' = link /\ ctl' = ctl /\ offers' = offers
  BY <1>2, <1>3, <1>4, HandledStep
<1>7. Distinct'
  <2>1. Owned(a, a')
    BY <1>6 DEF Owned, SameIds
  <2>. QED  BY <1>6, <2>1, DistinctOwned DEF TurnInv
<1>8. Sending'
  <2>1. x.sending = "none" \/ x.kick \/ in_flight'
    BY <1>2
  <2>. QED  BY <1>2, <1>4, <1>5, <2>1, SendingHandled DEF TurnInv
<1>9. CASE ~Served(active, link)
  BY <1>2, <1>4, <1>6, <1>7, <1>8, <1>9, TurnAlone
<1>10. CASE Served(active, link)
  <2>1. link = active /\ Head(fifo).part = "ok"
    BY <1>6, <1>10 DEF Served, TurnInv, Sending
  <2>2. Delivered(a, in_flight) /\ ~Speaks(a, in_flight)
    BY <1>5, <2>1 DEF Delivered, Speaks
  <2>3. /\ ~Delivered(a', in_flight') /\ (Speaks(a', in_flight') <=> a.pending # NoMsg)
    BY <1>6 DEF Delivered, Speaks
  <2>4. NoMsg.type = "NOTHING"
    BY DEF NoMsg, Msg
  <2>5. NoAnswer(a, in_flight) => NoAnswer(a', in_flight')
    BY <1>6, <2>4 DEF NoAnswer
  <2>6. Talk'
    BY <1>6, <2>4, <2>5, TalkPassed DEF TurnInv
  <2>7. Numbers'
    <3>1. Given(a'.buf, offers) /\ Given(a'.pending, offers)
      BY <1>6, <1>10, <2>4 DEF TurnInv, Numbers, Given
    <3>. QED  BY <1>6, <3>1, NumbersPassed DEF TurnInv
  <2>8. ~IsWrite(fifo[1], link) /\ ~IsCommand(fifo[1], link) /\ ~IsData(fifo[1], link)
    BY <1>6 DEF IsWrite, IsCommand, IsData, IsAck
  <2>9. Paused'
    BY <1>6, <2>5, <2>8, PausedPassed DEF TurnInv
  <2>10. Resuming'
    BY <1>6, ResumingPassed DEF TurnInv
  <2>11. OneRequest'
    <3>. SUFFICES ASSUME a.state = "ACTIVE"
                  PROVE  (Nowhere \/ InBuf \/ InPending \/ InWanted \/ InData)'
      BY <1>6 DEF OneRequest
    <3>1. Id(a') = Id(a) /\ Token(a') = Token(a)
      BY <1>6 DEF Id, Token, TokenOf
    <3>2. NotPending(a) => NotBuf(a', in_flight')
      BY <1>6, <3>1 DEF NotPending, NotBuf
    <3>3. NotPending(a')
      BY <1>6, <2>4 DEF NotPending
    <3>4. NotWanted(a, ctl.wanted) => NotWanted(a', ctl'.wanted)
      BY <1>6, <3>1 DEF NotWanted
    <3>5. NotData(a, fifo, link) => NotData(a', fifo', link')
      BY <1>6, <3>1, DataPassed
    <3>6. CASE Nowhere
      BY <1>6, <3>2, <3>3, <3>4, <3>5, <3>6 DEF Nowhere
    <3>7. CASE InBuf
      BY <2>2, <3>7 DEF InBuf
    <3>8. CASE InPending
      <4>1. a.pending = Token(a) /\ NotWanted(a, ctl.wanted) /\ NotData(a, fifo, link)
        BY <3>8 DEF InPending
      <4>2. a.pending # NoMsg
        BY <2>4, <4>1 DEF Token, TokenOf, Msg
      <4>. QED  BY <1>6, <2>3, <3>1, <3>3, <3>4, <3>5, <4>1, <4>2 DEF InBuf
    <3>9. CASE InWanted
      BY <1>6, <3>1, <3>2, <3>3, <3>5, <3>9 DEF InWanted
    <3>10. CASE InData
      <4>1. NotBuf(a', in_flight') /\ NotPending(a') /\ NotWanted(a', ctl'.wanted)
        BY <3>2, <3>3, <3>4, <3>10 DEF InData
      <4>2. InData'
        BY <1>6, <2>8, <3>1, <3>10, <4>1, InDataPassed
      <4>. QED  BY <4>2
    <3>. QED  BY <1>10, <3>6, <3>7, <3>8, <3>9, <3>10 DEF TurnInv, OneRequest
  <2>. QED  BY <1>7, <1>8, <2>6, <2>7, <2>9, <2>10, <2>11 DEF TurnInv
<1>. QED  BY <1>9, <1>10

(* The indication is started, or is over, or nothing waits for it.          *)
LEMMA TurnAck == TurnInv /\ UpdateInv /\ UpdateInv' /\ handle_indication_ack => TurnInv'
<1>. SUFFICES ASSUME TurnInv, UpdateInv, UpdateInv', handle_indication_ack PROVE TurnInv'
  OBVIOUS
<1>1. fifo # <<>> /\ Head(fifo).id = "ACK"
  BY DEF handle_indication_ack, Handles
<1>2. a \in Accessory /\ Sound(a) /\ Buffers(a) /\ ~a.kick
  BY DEF UpdateInv
<1>3. CASE /\ Head(fifo).conn = active /\ active' = active
           /\ a.sending = "sent" \/ Head(fifo).part = "error" \/ link # active
           /\ Handled(send_message_complete(a)) /\ in_flight' = in_flight
  <2>1. IsAck(Head(fifo), active)
    BY <1>1, <1>3 DEF IsAck
  <2>. QED  BY <1>1, <1>3, <2>1, TurnComplete
<1>4. CASE /\ Head(fifo).conn = active /\ active' = active
           /\ a.sending = "new" /\ Head(fifo).part = "ok" /\ link = active
           /\ Handled([a EXCEPT !.sending = "sent"]) /\ in_flight' = TRUE
  <2>. DEFINE x == [a EXCEPT !.sending = "sent"]
  <2>1. x \in Accessory /\ x.sending = "sent" /\ x.kick = a.kick
    BY <1>2, <1>4, SendingSound
  <2>2. /\ x.obj = a.obj /\ x.order = a.order /\ x.state = a.state /\ x.asset = a.asset
        /\ x.allowed = a.allowed /\ x.buf = a.buf /\ x.pending = a.pending
    BY <1>2 DEF Accessory
  <2>3. Handled(x)
    BY <1>4
  <2>. HIDE DEF x
  <2>4. /\ Passed(fifo, fifo', 1) /\ Head(fifo) = fifo[1] /\ 1 \in 1..Len(fifo)
        /\ SameCourse(a, a') /\ a'.sending = "sent"
        /\ link' = link /\ ctl' = ctl /\ offers' = offers
    BY <1>1, <2>1, <2>2, <2>3, HandledStep DEF SameCourse
  <2>5. active' = None => x.state # "ACTIVE"
    BY <1>4, <2>2 DEF TurnInv, Sending
  <2>6. Sending'
    BY <1>1, <1>4, <2>1, <2>3, <2>5, SendingHandled DEF TurnInv
  <2>7. /\ Speaks(a', in_flight') /\ Speaks(a, in_flight)
        /\ ~Delivered(a', in_flight') /\ ~Delivered(a, in_flight)
    BY <1>4, <2>4 DEF Speaks, Delivered
  <2>8. ~IsCommand(fifo[1], link) /\ ~IsData(fifo[1], link)
    BY <1>1, <2>4 DEF IsWrite, IsCommand, IsData
  <2>. QED  BY <1>4, <2>4, <2>6, <2>7, <2>8, TurnPassed
<1>5. CASE (Head(fifo).conn # active \/ a.sending = "none") /\ IgnoredEvent
  BY <1>1, <1>5, TurnIgnored DEF IsWrite, IsAck
<1>. QED  BY <1>3, <1>4, <1>5 DEF handle_indication_ack

-----------------------------------------------------------------------------
(* The service handles a write. *)

(* The accessory, b as the event e finds it, becomes y.                     *)
Takes(b, y, e) ==
  /\ b \in Accessory /\ Sound(b) /\ Buffers(b)
  /\ IF active = None THEN Owned(a, b) /\ b.buf.type = "SYNC" /\ b.pending = NoMsg
     ELSE SameCourse(a, b) /\ b.sending = a.sending
  /\ y \in Accessory /\ Buffers(y) /\ Sent(a, y) /\ Handled(y)
  /\ active \in {None, e.conn} /\ active' = e.conn /\ e.conn # None /\ in_flight' = in_flight
  /\ IF e.part = "first" THEN y = b ELSE y = RecvMessage(b, e.msg) /\ Fits(b, e.msg)

(* A write of another connection is ignored, any other is taken.            *)
LEMMA WriteTaken ==
  ASSUME UpdateInv, handle_write
  PROVE  /\ fifo # <<>> /\ Head(fifo).id = "WRITE"
         /\ \/ IgnoredEvent /\ active \notin {None, Head(fifo).conn}
            \/ \E b, y : Takes(b, y, Head(fifo))
<1>. DEFINE e == Head(fifo)
            b == IF active = None THEN controller_add(a) ELSE a
            m == e.msg
<1>1. fifo # <<>> /\ e.id = "WRITE"
  BY DEF handle_write, Handles
<1>2. a \in Accessory /\ Sound(a) /\ Buffers(a) /\ Messages(fifo, active, a, offers) /\ Queue(fifo)
  BY DEF UpdateInv, Acks
<1>3. 1 \in 1..Len(fifo) /\ e = fifo[1]
  BY <1>1, <1>2, Taken
<1>4. e.conn # None
  BY <1>3, QueueFacts
<1>5. Resumed(a, b)
  <2>1. Resumed(a, a)
    BY <1>2, LeadsHere, AlikeHere DEF Resumed
  <2>2. Resumed(a, controller_add(a))
    BY <1>2, AddReceives
  <2>. QED  BY <2>1, <2>2
<1>6. IF active = None THEN Owned(a, b) /\ b.buf.type = "SYNC" /\ b.pending = NoMsg ELSE b = a
  <2>1. active = None => a.sending = "none"
    BY Zenon DEF UpdateInv, Acks
  <2>. QED  BY <1>2, <2>1, AddOwned
<1>. HIDE DEF b
<1>7. b \in Accessory /\ Sound(b) /\ Buffers(b) /\ Leads(a, b)
  BY <1>2, <1>5, ReceivesAlike DEF Resumed, Receives, Leads
<1>8. SameCourse(a, a)
  BY DEF SameCourse
<1>9. ASSUME active \in {None, e.conn}, active' = e.conn, in_flight' = in_flight,
             IF e.part = "first" THEN Handled(b)
             ELSE \E io \in BOOLEAN : Handled(RecvMessage([b EXCEPT !.io = io], m))
      PROVE  \E x, y : Takes(x, y, e)
  <2>1. CASE e.part = "first"
    <3>1. Handled(b) /\ Sent(a, b)
      BY <1>7, <1>9, <2>1 DEF Leads
    <3>2. Takes(b, b, e)
      BY <1>4, <1>6, <1>7, <1>8, <1>9, <2>1, <3>1 DEF Takes
    <3>. QED  BY <3>2
  <2>2. CASE e.part # "first"
    <3>1. PICK io \in BOOLEAN : Handled(RecvMessage([b EXCEPT !.io = io], m))
      BY <1>9, <2>2
    <3>. DEFINE x == [b EXCEPT !.io = io]
                y == RecvMessage(x, m)
                S == IF m.type = "OFFER" THEN {m.k} ELSE {}
    <3>2. Leads(b, x) /\ Alike(b, x) /\ Buffers(x) /\ x.buf = b.buf
      BY <1>7, FlashSound
    <3>3. SameCourse(b, x) /\ x.sending = b.sending
      BY <1>7 DEF SameCourse, Accessory
    <3>4. Handled(y)
      BY <3>1
    <3>. HIDE DEF x
    <3>5. x \in Accessory /\ Sound(x)
      BY <1>7, <3>2, SoundAlike DEF Leads
    <3>6. Fits(x, m)
      <4>1. Carries(fifo, 1, active, a, offers)
        BY <1>1, <1>2, <1>3 DEF Messages
      <4>2. CASE m.type \in {"OFFER", "RESCIND"}
        <5>1. active # None /\ Fits(a, m)
          BY <1>3, <4>1, <4>2 DEF Carries
        <5>2. b = a
          BY <1>6, <5>1
        <5>. QED  BY <1>2, <3>2, <5>1, <5>2, FitsAlike
      <4>3. CASE m.type \notin {"OFFER", "RESCIND"}
        BY <1>3, <4>1, <4>3 DEF Carries, Fits
      <4>. QED  BY <4>2, <4>3
    <3>7. Receives(x, S, y)
      BY <3>2, <3>5, <3>6, MessageReceives
    <3>. HIDE DEF y, S
    <3>8. y \in Accessory /\ Buffers(y) /\ Leads(a, y)
      BY <1>7, <3>2, <3>7, LeadsTrans DEF Receives, Leads
    <3>9. IF active = None THEN Owned(a, x) /\ x.buf.type = "SYNC" /\ x.pending = NoMsg
          ELSE SameCourse(a, x) /\ x.sending = a.sending
      BY <1>6, <3>3 DEF SameCourse, Owned, SameIds
    <3>10. Sent(a, y) /\ y = RecvMessage(x, m)
      BY <3>8 DEF Leads, y
    <3>11. Takes(x, y, e)
      BY <1>4, <1>9, <2>2, <3>2, <3>4, <3>5, <3>6, <3>8, <3>9, <3>10 DEF Takes
    <3>. QED  BY <3>11
  <2>. QED  BY <2>1, <2>2
<1>10. \/ IgnoredEvent /\ active \notin {None, e.conn}
       \/ /\ active \in {None, e.conn} /\ active' = e.conn /\ in_flight' = in_flight
          /\ IF e.part = "first" THEN Handled(b)
             ELSE \E io \in BOOLEAN : Handled(RecvMessage([b EXCEPT !.io = io], m))
  BY Zenon DEF handle_write, b
<1>. QED  BY <1>1, <1>9, <1>10

(* The first event of the queue is gone, and the accessory is what it has   *)
(* become.                                                                  *)
LEMMA TakenStep ==
  ASSUME UpdateInv, fifo # <<>>, Head(fifo).id = "WRITE", NEW b, NEW y, Takes(b, y, fifo[1])
  PROVE  /\ Passed(fifo, fifo', 1) /\ Head(fifo) = fifo[1] /\ 1 \in 1..Len(fifo)
         /\ a'.obj = y.obj /\ a'.order = y.order /\ a'.state = y.state /\ a'.asset = y.asset
         /\ a'.allowed = y.allowed /\ a'.buf = y.buf /\ a'.pending = y.pending
         /\ a'.sending = y.sending
         /\ link' = link /\ ctl' = ctl /\ offers' = offers
         /\ active' = fifo[1].conn /\ in_flight' = in_flight
         /\ \A c : ~IsAck(fifo[1], c)
<1>1. y \in Accessory /\ Handled(y) /\ active' = fifo[1].conn /\ in_flight' = in_flight
  BY DEF Takes
<1>2. Passed(fifo, fifo', 1) /\ Head(fifo) = fifo[1] /\ 1 \in 1..Len(fifo)
  BY <1>1, HandledStep
<1>3. \A c : ~IsAck(fifo[1], c)
  BY <1>2 DEF IsAck
<1>. QED  BY <1>1, <1>2, <1>3, HandledStep

(* An offer gets an identifier of its own; others leave the assets as they  *)
(* are, or have fewer.                                                      *)
LEMMA DistinctTaken ==
  ASSUME Distinct, Numbers, UpdateInv, UpdateInv', fifo # <<>>, Head(fifo).id = "WRITE",
         NEW b, NEW y, Takes(b, y, fifo[1])
  PROVE  Distinct'
<1>. DEFINE e == fifo[1]
<1>1. /\ Head(fifo) = e /\ 1 \in 1..Len(fifo) /\ offers' = offers
      /\ a'.obj = y.obj /\ a'.order = y.order /\ a'.state = y.state /\ a'.asset = y.asset
      /\ a'.allowed = y.allowed /\ a'.buf = y.buf /\ a'.pending = y.pending
  BY TakenStep
<1>2. b \in Accessory /\ Sound(b) /\ Buffers(b)
  BY DEF Takes
<1>3. Owned(a, b)
  BY DEF Takes, SameCourse, Owned, SameIds
<1>4. CASE e.part = "first" \/ e.msg.type # "OFFER"
  <2>1. Owned(b, y)
    <3>1. Owned(b, b)
      BY DEF Owned, SameIds
    <3>. QED  BY <1>2, <1>4, <3>1, MessageOwned DEF Takes
  <2>2. Owned(a, y)
    BY <1>3, <2>1, OwnedTrans
  <2>3. Owned(a, a')
    BY <1>1, <2>2 DEF Owned, SameIds
  <2>. QED  BY <1>1, <2>3, DistinctOwned
<1>5. CASE e.part # "first" /\ e.msg.type = "OFFER"
  <2>1. y = RecvMessage(b, e.msg) /\ Fits(b, e.msg)
    BY <1>5 DEF Takes
  <2>2. active # None /\ e.msg.k \in 1..offers
    <3>1. Carries(fifo, 1, active, a, offers)
      BY <1>1 DEF UpdateInv, Messages
    <3>. QED  BY <1>5, <3>1 DEF Carries
  <2>3. SameCourse(a, b)
    BY <2>2 DEF Takes
  <2>4. \A j \in Listed(a) : a.obj[j].id # e.msg.k
    BY <1>1, <1>5 DEF Numbers
  <2>5. PICK d : /\ d.obj = b.obj /\ d.order = b.order /\ d.state = b.state /\ d.asset = b.asset
                 /\ Resolved(d, y, e.msg.k)
    BY <1>2, <1>5, <2>1, OfferAnswered
  <2>6. d.obj = a.obj /\ d.order = a.order /\ d.state = a.state /\ d.asset = a.asset
    BY <2>3, <2>5 DEF SameCourse
  <2>7. Resolved(d, a', e.msg.k)
    <3>1. Listed(a') = Listed(y)
      BY <1>1 DEF Listed
    <3>2. \A t : Pending(y, t) => Pending(a', t)
      BY <1>1 DEF Pending, TokenOf
    <3>3. \A t : Renamed(d, y, e.msg.k, t) => Renamed(d, a', e.msg.k, t)
      BY <1>1, <3>1 DEF Renamed
    <3>. QED  BY <1>1, <2>5, <3>2, <3>3 DEF Resolved
  <2>. QED  BY <1>1, <2>2, <2>4, <2>6, <2>7, DistinctOffered
<1>. QED  BY <1>4, <1>5

(* What is handed over while nothing is being sent has its own event.       *)
LEMMA SendingTaken ==
  ASSUME Sending, UpdateInv, fifo # <<>>, Head(fifo).id = "WRITE", NEW b, NEW y, Takes(b, y, fifo[1])
  PROVE  Sending'
<1>1. y \in Accessory /\ Handled(y) /\ Sent(a, y) /\ active' # None /\ in_flight' = in_flight
      /\ active \in {None, active'}
  BY DEF Takes
<1>2. Head(fifo) = fifo[1] /\ ~IsAck(fifo[1], active)
  BY TakenStep
<1>3. active = None => a.sending = "none"
  BY Zenon DEF UpdateInv, Acks
<1>4. \/ y.sending = "none" \/ y.kick \/ in_flight'
      \/ /\ y.sending = a.sending /\ active' = active /\ in_flight' = in_flight
         /\ ~IsAck(Head(fifo), active)
  BY <1>1, <1>2, <1>3 DEF Sent
<1>. QED  BY <1>1, <1>4, SendingHandled

(* What has been handed over is being sent, and nothing new if something    *)
(* was.                                                                     *)
LEMMA DeliveryTaken ==
  ASSUME UpdateInv, fifo # <<>>, Head(fifo).id = "WRITE", NEW b, NEW y, Takes(b, y, fifo[1])
  PROVE  IF a.buf = NoMsg
         THEN /\ ~Speaks(a, in_flight) /\ ~Delivered(a, in_flight) /\ ~Delivered(a', in_flight')
              /\ Speaks(a', in_flight') <=> a'.buf # NoMsg
         ELSE /\ a'.buf = a.buf /\ a'.sending = a.sending
              /\ Speaks(a', in_flight') <=> Speaks(a, in_flight)
              /\ Delivered(a', in_flight') <=> Delivered(a, in_flight)
<1>1. Buffers(a) /\ Buffers(y) /\ Sent(a, y)
  BY DEF UpdateInv, Takes
<1>2. a'.buf = y.buf /\ a'.sending = y.sending /\ in_flight' = in_flight
  BY TakenStep
<1>3. in_flight => a.sending = "sent"
  BY Zenon DEF UpdateInv, Acks
<1>4. CASE a.buf = NoMsg
  <2>1. a.sending = "none" /\ ~in_flight
    BY <1>1, <1>3, <1>4 DEF Buffers
  <2>2. y.sending \in {"none", "new"} /\ (y.sending = "none" <=> y.buf = NoMsg)
    BY <1>1, <2>1 DEF Sent, Buffers
  <2>. QED  BY <1>2, <1>4, <2>1, <2>2 DEF Speaks, Delivered
<1>5. CASE a.buf # NoMsg
  <2>1. y.buf = a.buf /\ y.sending = a.sending
    BY <1>1, <1>5 DEF Sent
  <2>. QED  BY <1>2, <1>5, <2>1 DEF Speaks, Delivered
<1>. QED  BY <1>4, <1>5

(* The first write of the connection that is served from now on.            *)
LEMMA TurnTakenUp ==
  ASSUME TurnInv, UpdateInv, UpdateInv', WholeInv, fifo # <<>>, Head(fifo).id = "WRITE",
         NEW b, NEW y, Takes(b, y, fifo[1]), active = None, fifo[1].conn = link
  PROVE  TurnInv'
<1>. DEFINE e == fifo[1]
<1>1. /\ Passed(fifo, fifo', 1) /\ Head(fifo) = e /\ 1 \in 1..Len(fifo)
      /\ a'.state = y.state /\ a'.buf = y.buf /\ a'.pending = y.pending
      /\ link' = link /\ ctl' = ctl /\ offers' = offers /\ active' = link
  BY TakenStep
<1>2. link # None /\ ~Served(active, link) /\ Served(active', link')
  BY <1>1 DEF Takes, Served
<1>3. Distinct /\ Sending /\ Talk /\ Numbers
  BY DEF TurnInv
<1>4. /\ ctl.wanted = <<>> /\ ~ctl.paused /\ ~ctl.half
      /\ \A i \in 1..Len(fifo) : IsWrite(fifo[i], link) => fifo[i].msg.type \in {"SYNC", "INFO"}
  BY <1>2, <1>3, Zenon DEF Talk
<1>5. IsWrite(e, link)
  BY <1>1 DEF IsWrite
<1>6. e.part = "whole"
  <2>1. Queue(fifo) /\ Parts(fifo, None, link, rx_buf, ctl.half)
    BY QueueFacts DEF WholeInv
  <2>2. ctl.half = FALSE
    BY <1>4 DEF WholeInv, ServedInv
  <2>. QED  BY <1>1, <1>5, <2>1, <2>2, PartsTailNew
<1>7. /\ b \in Accessory /\ Sound(b) /\ b.buf.type = "SYNC" /\ b.pending = NoMsg /\ Owned(a, b)
      /\ y = RecvMessage(b, e.msg)
  BY <1>6 DEF Takes
<1>8. e.msg.type \in {"SYNC", "INFO"}
  BY <1>1, <1>4, <1>5
<1>9. NoMsg.type = "NOTHING"
  BY DEF NoMsg, Msg
<1>10. /\ a'.buf.type = "SYNC" /\ a'.pending.type \in {"NOTHING", "ACK"}
       /\ e.msg.type = "SYNC" => a'.pending.type = "NOTHING"
       /\ a'.state # "ACTIVE"
  <2>1. b.state # "ACTIVE"
    BY <1>3, <1>7 DEF Sending, Owned
  <2>2. CASE e.msg.type = "SYNC"
    <3>1. y = b
      BY <1>7, <2>2 DEF RecvMessage
    <3>. QED  BY <1>1, <1>7, <1>9, <2>1, <2>2, <3>1
  <2>3. CASE e.msg.type = "INFO"
    <3>1. y = Reply(b, "ACK", None)
      BY <1>7, <2>3 DEF RecvMessage
    <3>2. Confirmed(b, y) /\ y.state = b.state
      BY <1>7, <3>1, ReplyNoted
    <3>. QED  BY <1>1, <1>7, <1>9, <2>1, <2>3, <3>2 DEF Confirmed
  <2>. QED  BY <1>8, <2>2, <2>3
<1>11. Distinct' /\ Sending'
  BY <1>3, DistinctTaken, SendingTaken
<1>12. WritesPass(fifo, fifo', 1, link)
  BY <1>1, PassedWrites
<1>13. \A i \in 1..Len(fifo') : IsCommand(fifo'[i], link) =>
         i + 1 \in 1..Len(fifo) /\ i + 1 \in 2..Len(fifo) /\ fifo'[i] = fifo[i + 1]
  BY <1>12 DEF WritesPass
<1>14. \A i \in 1..Len(fifo') : IsCommand(fifo'[i], link) => e.msg.type = "SYNC"
  <2>1. e.msg.type # "SYNC" => \A j \in 2..Len(fifo) : ~IsWrite(fifo[j], link)
    <3>1. e.msg.type # "SYNC" => IsCommand(e, link)
      BY <1>5, <1>8 DEF IsCommand, Commands
    <3>2. IsCommand(e, link) => \A j \in 1 + 1..Len(fifo) : ~IsWrite(fifo[j], link)
      BY <1>1, <1>3 DEF Talk
    <3>. QED  BY <3>1, <3>2
  <2>. QED  BY <1>13, <2>1 DEF IsCommand
<1>15. e.msg.type = "SYNC" => NoAnswer(a', in_flight')
  BY <1>10 DEF NoAnswer
<1>16. Talk'
  <2>1. ASSUME NEW i \in 1..Len(fifo'), IsCommand(fifo'[i], link')
        PROVE  /\ ctl'.awaiting /\ fifo'[i].part = "whole"
               /\ Served(active', link') => NoAnswer(a', in_flight')
               /\ \A j \in i + 1..Len(fifo') : ~IsWrite(fifo'[j], link')
               /\ fifo'[i].msg.type = "OFFER" => ~ctl'.paused
    <3>1. i + 1 \in 1..Len(fifo) /\ fifo'[i] = fifo[i + 1] /\ NoAnswer(a', in_flight')
      BY <1>1, <1>13, <1>14, <1>15, <2>1
    <3>. DEFINE k == i + 1
    <3>2. k \in 1..Len(fifo) /\ fifo'[i] = fifo[k] /\ IsCommand(fifo[k], link)
      BY <1>1, <2>1, <3>1
    <3>. HIDE DEF k
    <3>3. /\ ctl.awaiting /\ fifo[k].part = "whole"
          /\ \A j \in k + 1..Len(fifo) : ~IsWrite(fifo[j], link)
      BY <1>3, <3>2, Zenon DEF Talk
    <3>4. \A j \in i + 1 + 1..Len(fifo) : ~IsWrite(fifo[j], link)
      BY <3>3 DEF k
    <3>5. \A j \in i + 1..Len(fifo') : ~IsWrite(fifo'[j], link)
      BY <1>12, <3>4 DEF WritesPass
    <3>. QED  BY <1>1, <1>4, <3>1, <3>2, <3>3, <3>5
  <2>2. ~ctl'.awaiting => NoAnswer(a', in_flight')
    <3>1. e.msg.type # "SYNC" => ctl.awaiting
      <4>1. e.msg.type # "SYNC" => IsCommand(e, link)
        BY <1>5, <1>8 DEF IsCommand, Commands
      <4>2. IsCommand(e, link) => ctl.awaiting
        BY <1>1, <1>3, Zenon DEF Talk
      <4>. QED  BY <4>1, <4>2
    <3>. QED  BY <1>1, <1>15, <3>1
  <2>3. ctl'.greeted < 2 => ~ctl'.awaiting
    BY <1>1, <1>3, Zenon DEF Talk
  <2>. QED  BY <1>2, <1>10, <2>1, <2>2, <2>3, Zenon DEF Talk
<1>17. Numbers'
  <2>1. Given(a'.buf, offers) /\ Given(a'.pending, offers)
    BY <1>10 DEF Given
  <2>. QED  BY <1>1, <1>3, <2>1, NumbersPassed
<1>18. Paused' /\ OneRequest'
  BY <1>1, <1>4, <1>10 DEF Paused, OneRequest
<1>19. Resuming'
  <2>1. \A i \in 1..Len(fifo') : IsCommand(fifo'[i], link') => fifo'[i].msg.type # "RESUME"
    BY <1>1, <1>4, <1>13 DEF IsCommand
  <2>. QED  BY <2>1 DEF Resuming
<1>. QED  BY <1>11, <1>16, <1>17, <1>18, <1>19 DEF TurnInv

(* A write that leaves the accessory as it was.                             *)
LEMMA TurnUnmoved ==
  ASSUME TurnInv, UpdateInv, UpdateInv', fifo # <<>>, Head(fifo).id = "WRITE",
         NEW b, NEW y, Takes(b, y, fifo[1]), Served(active, link), fifo[1].conn = link, y = b,
         ~IsCommand(fifo[1], link),
         a.state = "ACTIVE" =>
           ~(IsData(fifo[1], link) /\ fifo[1].msg.k = Id(a) /\ fifo[1].msg.arg = Token(a).arg)
  PROVE  TurnInv'
<1>1. /\ Passed(fifo, fifo', 1) /\ Head(fifo) = fifo[1] /\ 1 \in 1..Len(fifo)
      /\ a'.obj = y.obj /\ a'.order = y.order /\ a'.state = y.state /\ a'.asset = y.asset
      /\ a'.allowed = y.allowed /\ a'.buf = y.buf /\ a'.pending = y.pending
      /\ a'.sending = y.sending /\ in_flight' = in_flight
      /\ link' = link /\ ctl' = ctl /\ offers' = offers /\ active' = active
      /\ \A c : ~IsAck(fifo[1], c)
  BY TakenStep DEF Served
<1>2. SameCourse(a, b) /\ b.sending = a.sending
  BY DEF Takes, Served
<1>3. SameCourse(a, a') /\ a'.sending = a.sending
  BY <1>1, <1>2 DEF SameCourse
<1>4. /\ Speaks(a', in_flight') <=> Speaks(a, in_flight)
      /\ Delivered(a', in_flight') <=> Delivered(a, in_flight)
  BY <1>1, <1>3 DEF Speaks, Delivered
<1>5. Sending'
  BY SendingTaken DEF TurnInv
<1>. QED  BY <1>1, <1>3, <1>4, <1>5, TurnPassed

(* A unit that was asked for: the next one is asked for, or nothing is.     *)
LEMMA TurnDataAsked ==
  ASSUME TurnInv, UpdateInv, UpdateInv', fifo # <<>>, Head(fifo).id = "WRITE",
         NEW b, NEW y, Takes(b, y, fifo[1]), Served(active, link), fifo[1].conn = link,
         IsData(fifo[1], link), NEW k \in Offers, k \in Listed(a), a.asset = k,
         fifo[1].msg.k = a.obj[k].id, fifo[1].msg.arg = TokenOf(a, k).arg, Asked(b, y, k)
  PROVE  TurnInv'
<1>1. /\ Passed(fifo, fifo', 1) /\ Head(fifo) = fifo[1] /\ 1 \in 1..Len(fifo)
      /\ a'.obj = y.obj /\ a'.order = y.order /\ a'.state = y.state /\ a'.asset = y.asset
      /\ a'.allowed = y.allowed /\ a'.buf = y.buf /\ a'.pending = y.pending
      /\ link' = link /\ ctl' = ctl /\ offers' = offers /\ active' = active
  BY TakenStep DEF Served
<1>2. /\ b.obj = a.obj /\ b.state = a.state /\ b.asset = a.asset /\ b.allowed = a.allowed
      /\ b.buf = a.buf /\ b.pending = a.pending
  BY DEF Takes, Served, SameCourse
<1>3. Distinct /\ Sending /\ Talk /\ Numbers /\ Paused /\ Resuming /\ OneRequest
  BY DEF TurnInv
<1>4. Distinct' /\ Sending'
  BY <1>3, DistinctTaken, SendingTaken
<1>5. /\ a'.state = "ACTIVE" => a.state = "ACTIVE" /\ a'.asset = a.asset
      /\ a'.allowed = a.allowed /\ a'.obj[k].id = a.obj[k].id
      /\ a'.buf = a.buf \/ (a.buf = NoMsg /\ Utters(a'.buf, a.obj[k].id))
      /\ a'.pending = a.pending \/ (a.pending = NoMsg /\ Utters(a'.pending, a.obj[k].id))
  BY <1>1, <1>2 DEF Asked, Moves, SameIds, Says
<1>6. /\ a.buf = NoMsg =>
           /\ ~Speaks(a, in_flight)
           /\ Speaks(a', in_flight') <=> a'.buf # NoMsg
      /\ a.buf # NoMsg =>
           /\ a'.buf = a.buf
           /\ Speaks(a', in_flight') <=> Speaks(a, in_flight)
  BY DeliveryTaken, Zenon
<1>7. NoAnswer(a, in_flight) => NoAnswer(a', in_flight')
  <2>1. a.buf = NoMsg => a'.buf.type # "ACK"
    BY <1>5 DEF Utters, NoMsg, Msg
  <2>2. a.pending.type # "ACK" => a'.pending.type # "ACK"
    BY <1>5 DEF Utters
  <2>. QED  BY <1>6, <2>1, <2>2 DEF NoAnswer
<1>8. Speaks(a', in_flight') /\ a'.buf.type = "ACK" => a'.pending.type # "ACK"
  <2>1. a'.buf.type = "ACK" => a.buf # NoMsg /\ a'.buf = a.buf
    BY <1>5 DEF Utters, NoMsg, Msg
  <2>2. Speaks(a, in_flight) /\ a.buf.type = "ACK" => a.pending.type # "ACK"
    BY <1>3, Zenon DEF Talk
  <2>3. a.pending.type # "ACK" => a'.pending.type # "ACK"
    BY <1>5 DEF Utters
  <2>. QED  BY <1>6, <2>1, <2>2, <2>3
<1>9. Talk'
  BY <1>1, <1>3, <1>7, <1>8, TalkPassed
<1>10. Numbers'
  <2>1. a.obj[k].id \in 1..offers
    BY <1>3 DEF Distinct
  <2>2. Given(a'.buf, offers) /\ Given(a'.pending, offers)
    BY <1>3, <1>5, <2>1 DEF Numbers, Given, Utters
  <2>. QED  BY <1>1, <1>3, <2>2, NumbersPassed
<1>11. WritesPass(fifo, fifo', 1, link)
  BY <1>1, PassedWrites
<1>12. Paused'
  <2>. SUFFICES ASSUME ctl.paused
                PROVE  Paused'
    BY <1>1 DEF Paused
  <2>1. ctl.wanted = <<>> /\ ~ctl.half
        /\ \E i \in 1..Len(fifo) : IsCommand(fifo[i], link) /\ fifo[i].msg.type = "PAUSE"
    BY <1>1, <1>3, Zenon DEF Paused
  <2>2. PICK p \in 1..Len(fifo) : IsCommand(fifo[p], link) /\ fifo[p].msg.type = "PAUSE"
    BY <2>1
  <2>3. ctl.awaiting /\ NoAnswer(a, in_flight)
    BY <1>3, <2>2, Zenon DEF Talk
  <2>4. \A i \in 1..Len(fifo) : IsCommand(fifo[i], link) => i = p
    <3>1. \A i \in 1..Len(fifo) : IsCommand(fifo[i], link) =>
            \A j \in i + 1..Len(fifo) : ~IsWrite(fifo[j], link)
      BY <1>3 DEF Talk
    <3>2. \A i \in 1..Len(fifo) : IsCommand(fifo[i], link) => i \notin p + 1..Len(fifo) /\ p \notin i + 1..Len(fifo)
      BY <2>2, <3>1 DEF IsCommand
    <3>3. Len(fifo) \in Nat
      BY QueueFacts
    <3>. QED  BY <3>2, <3>3
  <2>5. \A i \in 1..Len(fifo') : ~Other(fifo'[i], link')
    <3>1. \A i \in 1..Len(fifo) : ~Other(fifo[i], link)
      BY <2>2, <2>4 DEF Other
    <3>. QED  BY <1>1, <1>11, <3>1 DEF WritesPass
  <2>6. \E i \in 1..Len(fifo') : IsCommand(fifo'[i], link') /\ fifo'[i].msg.type = "PAUSE"
    <3>1. p # 1
      BY <2>2 DEF IsData
    <3>2. p > 1
      BY <3>1
    <3>3. p - 1 \in 1..Len(fifo') /\ fifo'[p - 1] = fifo[p]
      BY <1>11, <3>2 DEF WritesPass
    <3>. QED  BY <1>1, <2>2, <3>3
  <2>7. ctl'.awaiting /\ NoAnswer(a', in_flight') /\ ctl'.wanted = <<>> /\ ~ctl'.half
    BY <1>1, <1>7, <2>1, <2>3
  <2>8. ~(Speaks(a', in_flight') /\ a'.buf.type = "ACK")
    BY <2>7 DEF NoAnswer
  <2>. QED  BY <2>5, <2>6, <2>7, <2>8, Zenon DEF Paused
<1>13. Resuming'
  <2>1. \A i \in 1..Len(fifo) : ~(IsCommand(fifo[i], link) /\ fifo[i].msg.type = "RESUME")
    BY <1>1, <1>3 DEF Resuming
  <2>2. \A i \in 1..Len(fifo') : ~(IsCommand(fifo'[i], link') /\ fifo'[i].msg.type = "RESUME")
    BY <1>1, <1>11, <2>1 DEF WritesPass
  <2>. QED  BY <2>2 DEF Resuming
<1>14. OneRequest'
  <2>. SUFFICES ASSUME a'.state = "ACTIVE"
                PROVE  (Nowhere \/ InBuf \/ InPending \/ InWanted \/ InData)'
    BY DEF OneRequest
  <2>1. a.state = "ACTIVE" /\ a'.asset = k /\ Id(a) = fifo[1].msg.k /\ Id(a') = Id(a)
    BY <1>5 DEF Id
  <2>2. InData
    <3>1. ~NotData(a, fifo, link)
      BY <1>1, <2>1 DEF NotData
    <3>. QED  BY <1>3, <2>1, <3>1 DEF OneRequest, Nowhere, InBuf, InPending, InWanted
  <2>3. NotBuf(a, in_flight) /\ NotPending(a) /\ NotWanted(a, ctl.wanted)
    BY <2>2 DEF InData
  <2>4. PICK i \in 1..Len(fifo) :
          /\ \A j \in 1..Len(fifo) : j # i /\ IsData(fifo[j], link) => fifo[j].msg.k # Id(a)
          /\ a.pending = NoMsg \/ Cleared(fifo, i, active, a, in_flight)
    BY <2>2 DEF InData
  <2>5. i = 1
    BY <1>1, <2>1, <2>4
  <2>6. a.pending = NoMsg
    BY <2>4, <2>5 DEF Cleared
  <2>7. NotWanted(a', ctl'.wanted)
    BY <1>1, <2>1, <2>3 DEF NotWanted
  <2>8. NotData(a', fifo', link')
    <3>1. \A j \in 1..Len(fifo) : j > 1 /\ IsData(fifo[j], link) => fifo[j].msg.k # Id(a)
      BY <2>4, <2>5
    <3>2. \A j \in 1..Len(fifo') : IsData(fifo'[j], link) =>
            j + 1 \in 1..Len(fifo) /\ j + 1 > 1 /\ fifo'[j] = fifo[j + 1]
      BY <1>11 DEF WritesPass
    <3>. QED  BY <1>1, <2>1, <3>1, <3>2 DEF NotData
  <2>9. Token(a') = TokenOf(y, k) /\ Token(a').type = "REQUEST"
    BY <1>1, <2>1 DEF Token, TokenOf, Msg
  <2>10. \/ Adds(b, y, TokenOf(y, k))
         \/ SameBuffers(b, y) /\ (~b.allowed \/ y.obj[k].req.left = 0)
    BY <1>1, <1>2, <2>6 DEF Asked
  <2>11. NoMsg.type = "NOTHING"
    BY DEF NoMsg, Msg
  <2>12. CASE Adds(b, y, TokenOf(y, k)) /\ a.buf = NoMsg
    <3>1. a'.buf = Token(a') /\ a'.pending = NoMsg
      BY <1>1, <1>2, <2>6, <2>9, <2>12 DEF Adds
    <3>2. Speaks(a', in_flight') /\ NotPending(a')
      BY <1>6, <2>9, <2>11, <2>12, <3>1 DEF NotPending
    <3>. QED  BY <2>7, <2>8, <3>1, <3>2 DEF InBuf
  <2>13. CASE Adds(b, y, TokenOf(y, k)) /\ a.buf # NoMsg
    <3>1. a'.buf = a.buf /\ a'.pending = Token(a')
      BY <1>1, <1>2, <2>9, <2>13 DEF Adds
    <3>2. NotBuf(a', in_flight')
      BY <1>6, <2>1, <2>3, <2>13, <3>1 DEF NotBuf
    <3>. QED  BY <2>7, <2>8, <3>1, <3>2 DEF InPending
  <2>14. CASE SameBuffers(b, y) /\ (~b.allowed \/ y.obj[k].req.left = 0)
    <3>1. a'.obj[a'.asset].req.left > 0
      BY DEF UpdateInv, Sound, Live
    <3>2. ~a'.allowed
      BY <1>1, <1>2, <1>5, <2>1, <2>14, <3>1
    <3>3. a'.buf = a.buf /\ a'.pending = NoMsg
      BY <1>1, <1>2, <2>6, <2>14 DEF SameBuffers
    <3>4. NotBuf(a', in_flight')
      BY <1>6, <2>1, <2>3, <2>11, <3>3 DEF NotBuf
    <3>5. NotPending(a')
      BY <2>11, <3>3 DEF NotPending
    <3>. QED  BY <2>7, <2>8, <3>2, <3>4, <3>5 DEF Nowhere
  <2>. QED  BY <2>10, <2>12, <2>13, <2>14
<1>. QED  BY <1>3, <1>4, <1>9, <1>10, <1>12, <1>13, <1>14 DEF TurnInv

(* A unit, asked for or not.                                                *)
LEMMA TurnData ==
  ASSUME TurnInv, UpdateInv, UpdateInv', fifo # <<>>, Head(fifo).id = "WRITE",
         NEW b, NEW y, Takes(b, y, fifo[1]), Served(active, link), fifo[1].conn = link,
         fifo[1].msg.type = "DATA", fifo[1].part # "first"
  PROVE  TurnInv'
<1>. DEFINE m == fifo[1].msg
<1>1. Head(fifo) = fifo[1]
  BY TakenStep
<1>2. /\ b.obj = a.obj /\ b.state = a.state /\ b.asset = a.asset /\ b.order = a.order
      /\ b \in Accessory /\ Sound(b) /\ y = RecvMessage(b, m) /\ Within(m.arg[1], m.arg[2], m.arg[3])
  BY DEF Takes, Served, SameCourse, Fits
<1>3. IsData(fifo[1], link) /\ ~IsCommand(fifo[1], link)
  BY <1>1 DEF IsData, IsCommand, IsWrite, Commands
<1>4. FoundById(b, m.k) = {j \in Listed(a) : a.obj[j].ctrl /\ a.obj[j].id = m.k}
  BY <1>2 DEF FoundById, Listed
<1>5. /\ \A j, k \in FoundById(b, m.k) : j = k
      /\ a.state = "ACTIVE" /\ Id(a) = m.k => a.asset \in FoundById(b, m.k)
  <2>1. a.state = "ACTIVE" => a.asset \in Listed(a)
    BY SoundFacts DEF UpdateInv, Owner
  <2>. QED  BY <1>4, <2>1 DEF TurnInv, Distinct, Id
<1>6. CASE FoundById(b, m.k) = {}
  <2>1. y = b
    BY <1>2, <1>6 DEF RecvMessage
  <2>2. a.state = "ACTIVE" => fifo[1].msg.k # Id(a)
    BY <1>5, <1>6
  <2>. QED  BY <1>3, <2>1, <2>2, TurnUnmoved
<1>7. CASE FoundById(b, m.k) # {}
  <2>. DEFINE k == CHOOSE j \in FoundById(b, m.k) : TRUE
  <2>1. k \in FoundById(b, m.k) /\ y = AssetDataResponse(b, k, m.arg)
    BY <1>2, <1>7 DEF RecvMessage
  <2>. HIDE DEF k
  <2>2. k \in Listed(a) /\ a.obj[k].ctrl /\ a.obj[k].id = m.k /\ k \in Offers
    <3>1. Listed(a) \subseteq Offers
      BY ListedTyped DEF UpdateInv
    <3>. QED  BY <1>4, <2>1, <3>1
  <2>3. \/ y = b /\ (b.state = "ACTIVE" /\ b.asset = k => m.arg # TokenOf(b, k).arg)
        \/ b.asset = k /\ m.arg = TokenOf(b, k).arg /\ Asked(b, y, k)
    BY <1>2, <2>1, <2>2, DataAnswered
  <2>4. TokenOf(b, k) = TokenOf(a, k)
    BY <1>2 DEF TokenOf
  <2>5. CASE y = b /\ (b.state = "ACTIVE" /\ b.asset = k => m.arg # TokenOf(b, k).arg)
    <3>1. a.state = "ACTIVE" /\ m.k = Id(a) => a.asset = k
      BY <1>5, <2>1
    <3>2. a.state = "ACTIVE" /\ m.k = Id(a) => m.arg # Token(a).arg
      BY <1>2, <2>4, <2>5, <3>1 DEF Token
    <3>. QED  BY <1>3, <2>5, <3>2, TurnUnmoved
  <2>6. CASE b.asset = k /\ m.arg = TokenOf(b, k).arg /\ Asked(b, y, k)
    BY <1>2, <1>3, <2>2, <2>4, <2>6, TurnDataAsked
  <2>. QED  BY <2>3, <2>5, <2>6
<1>. QED  BY <1>6, <1>7

(* A command is taken from the queue, which holds no other write of its     *)
(* controller; where the request is then depends on the command.            *)
LEMMA TurnAnswered ==
  ASSUME TurnInv, UpdateInv, UpdateInv', fifo # <<>>, Head(fifo).id = "WRITE",
         NEW b, NEW y, Takes(b, y, fifo[1]), Served(active, link), fifo[1].conn = link,
         IsCommand(fifo[1], link),
         Speaks(a', in_flight') /\ a'.buf.type = "ACK" =>
           a'.pending.type # "ACK" /\ (ctl.paused => a'.pending = NoMsg),
         Given(a'.buf, offers), Given(a'.pending, offers),
         ctl.paused /\ ~NoAnswer(a', in_flight') => ~a'.allowed,
         OneRequest'
  PROVE  TurnInv'
<1>1. /\ Passed(fifo, fifo', 1) /\ 1 \in 1..Len(fifo)
      /\ link' = link /\ ctl' = ctl /\ offers' = offers /\ active' = active
  BY TakenStep DEF Served
<1>2. Distinct /\ Sending /\ Talk /\ Numbers /\ Paused
  BY DEF TurnInv
<1>3. Distinct' /\ Sending'
  BY <1>2, DistinctTaken, SendingTaken
<1>4. ctl.awaiting /\ \A j \in 1 + 1..Len(fifo) : ~IsWrite(fifo[j], link)
  BY <1>1, <1>2 DEF Talk
<1>5. \A i \in 1..Len(fifo') : ~IsWrite(fifo'[i], link')
  <2>1. WritesPass(fifo, fifo', 1, link)
    BY <1>1, PassedWrites
  <2>2. \A i \in 1..Len(fifo') : IsWrite(fifo'[i], link) =>
          i + 1 \in 1 + 1..Len(fifo) /\ fifo'[i] = fifo[i + 1]
    BY <2>1 DEF WritesPass
  <2>. QED  BY <1>1, <1>4, <2>2
<1>6. Served(active', link')
  BY <1>1
<1>7. Talk'
  <2>1. ctl'.greeted < 2 => ~ctl'.awaiting
    BY <1>1, <1>2, Zenon DEF Talk
  <2>2. \A i \in 1..Len(fifo') : ~IsCommand(fifo'[i], link')
    BY <1>5 DEF IsCommand
  <2>. QED  BY <1>1, <1>4, <1>6, <2>1, <2>2, Zenon DEF Talk
<1>8. Numbers'
  BY <1>1, <1>2, NumbersPassed
<1>9. Paused'
  <2>1. \A i \in 1..Len(fifo') : ~Other(fifo'[i], link') /\ ~IsData(fifo'[i], link')
    BY <1>5 DEF Other, IsCommand, IsData
  <2>2. ctl.paused => ctl.wanted = <<>> /\ ~ctl.half
    BY <1>2, Zenon DEF Paused
  <2>. QED  BY <1>1, <1>4, <2>1, <2>2, Zenon DEF Paused
<1>10. Resuming'
  BY <1>5 DEF Resuming, IsCommand
<1>. QED  BY <1>3, <1>7, <1>8, <1>9, <1>10 DEF TurnInv

(* Where the request is once a command is taken, if it is not in data.      *)
LEMMA CommandFacts ==
  ASSUME TurnInv, UpdateInv, UpdateInv', fifo # <<>>, Head(fifo).id = "WRITE",
         NEW b, NEW y, Takes(b, y, fifo[1]), Served(active, link), fifo[1].conn = link,
         fifo[1].msg.type \in Commands
  PROVE  /\ IsCommand(fifo[1], link) /\ 1 \in 1..Len(fifo)
         /\ ctl'.awaiting /\ NoAnswer(a, in_flight) /\ ctl' = ctl
         /\ b \in Accessory /\ Sound(b) /\ Buffers(b)
         /\ b.obj = a.obj /\ b.state = a.state /\ b.asset = a.asset /\ b.allowed = a.allowed
         /\ b.order = a.order /\ b.buf = a.buf /\ b.pending = a.pending
         /\ y = RecvMessage(b, fifo[1].msg) /\ Fits(b, fifo[1].msg)
         /\ a'.obj = y.obj /\ a'.state = y.state /\ a'.asset = y.asset
         /\ a'.allowed = y.allowed /\ a'.buf = y.buf /\ a'.pending = y.pending
         /\ NotData(a', fifo', link') /\ ~InData
         /\ a.buf = NoMsg => a.pending = NoMsg
<1>1. /\ Passed(fifo, fifo', 1) /\ 1 \in 1..Len(fifo) /\ Head(fifo) = fifo[1]
      /\ link' = link /\ ctl' = ctl /\ active' = active
      /\ a'.obj = y.obj /\ a'.state = y.state /\ a'.asset = y.asset
      /\ a'.allowed = y.allowed /\ a'.buf = y.buf /\ a'.pending = y.pending
  BY TakenStep DEF Served
<1>2. IsCommand(fifo[1], link)
  BY <1>1 DEF IsCommand, IsWrite
<1>3. /\ ctl.awaiting /\ fifo[1].part = "whole" /\ NoAnswer(a, in_flight)
      /\ \A j \in 1 + 1..Len(fifo) : ~IsWrite(fifo[j], link)
  BY <1>1, <1>2 DEF TurnInv, Talk
<1>4. \A j \in 1..Len(fifo) : ~IsData(fifo[j], link)
  <2>1. \A j \in 1..Len(fifo) : j = 1 \/ j \in 1 + 1..Len(fifo)
    BY QueueFacts
  <2>2. ~IsData(fifo[1], link)
    BY DEF IsData, Commands
  <2>. QED  BY <1>3, <2>1, <2>2 DEF IsData
<1>5. NotData(a', fifo', link') /\ ~InData
  <2>1. \A j \in 1..Len(fifo') : ~IsData(fifo'[j], link)
    <3>1. WritesPass(fifo, fifo', 1, link)
      BY <1>1, PassedWrites
    <3>. QED  BY <1>4, <3>1 DEF WritesPass
  <2>. QED  BY <1>1, <1>4, <2>1 DEF NotData, InData
<1>6. /\ b \in Accessory /\ Sound(b) /\ Buffers(b) /\ SameCourse(a, b)
      /\ y = RecvMessage(b, fifo[1].msg) /\ Fits(b, fifo[1].msg)
  BY <1>3 DEF Takes, Served
<1>7. a.buf = NoMsg => a.pending = NoMsg
  BY DEF UpdateInv, Buffers
<1>. QED  BY <1>1, <1>2, <1>3, <1>5, <1>6, <1>7 DEF SameCourse

(* A command but an offer and the one to resume.                            *)
LEMMA TurnPlain ==
  ASSUME TurnInv, UpdateInv, UpdateInv', fifo # <<>>, Head(fifo).id = "WRITE",
         NEW b, NEW y, Takes(b, y, fifo[1]), Served(active, link), fifo[1].conn = link,
         fifo[1].msg.type \in {"INFO", "APPLY", "PAUSE", "RESCIND"}
  PROVE  TurnInv'
<1>. DEFINE m == fifo[1].msg
<1>1. m.type \in Commands
  BY DEF Commands
<1>2. /\ IsCommand(fifo[1], link) /\ 1 \in 1..Len(fifo)
      /\ ctl'.awaiting /\ NoAnswer(a, in_flight) /\ ctl' = ctl
      /\ b \in Accessory /\ Sound(b) /\ Buffers(b)
      /\ b.obj = a.obj /\ b.state = a.state /\ b.asset = a.asset /\ b.allowed = a.allowed
      /\ b.buf = a.buf /\ b.pending = a.pending
      /\ y = RecvMessage(b, m) /\ m \in Message
      /\ a'.obj = y.obj /\ a'.state = y.state /\ a'.asset = y.asset
      /\ a'.allowed = y.allowed /\ a'.buf = y.buf /\ a'.pending = y.pending
      /\ NotData(a', fifo', link') /\ ~InData
      /\ a.buf = NoMsg => a.pending = NoMsg
  BY <1>1, CommandFacts DEF Fits
<1>3. /\ Noted(b, y) /\ Confirmed(b, y)
      /\ IF m.type = "PAUSE" /\ Room(b) THEN ~y.allowed ELSE y.allowed = b.allowed
  BY <1>2, CommandNoted
<1>. HIDE DEF m
<1>4. /\ a.buf = NoMsg =>
           /\ ~Speaks(a, in_flight)
           /\ Speaks(a', in_flight') <=> a'.buf # NoMsg
      /\ a.buf # NoMsg =>
           /\ a'.buf = a.buf
           /\ Speaks(a', in_flight') <=> Speaks(a, in_flight)
           /\ Delivered(a', in_flight') <=> Delivered(a, in_flight)
  BY DeliveryTaken, Zenon
<1>5. /\ a.buf = NoMsg => a'.buf.type = "ACK" /\ a'.pending = NoMsg
      /\ a.buf # NoMsg => IF a.pending = NoMsg THEN a'.pending.type = "ACK" ELSE a'.pending = a.pending
  BY <1>2, <1>3 DEF Confirmed
<1>6. NoMsg.type = "NOTHING"
  BY DEF NoMsg, Msg
<1>7. Speaks(a', in_flight') /\ a'.buf.type = "ACK" =>
        a'.pending.type # "ACK" /\ (ctl.paused => a'.pending = NoMsg)
  BY <1>2, <1>4, <1>5, <1>6 DEF NoAnswer
<1>8. Given(a'.buf, offers) /\ Given(a'.pending, offers)
  BY <1>4, <1>5, <1>6 DEF TurnInv, Numbers, Given
<1>9. ctl.paused /\ ~NoAnswer(a', in_flight') => ~a'.allowed
  <2>. SUFFICES ASSUME ctl.paused, ~NoAnswer(a', in_flight')
                PROVE  ~a'.allowed
    OBVIOUS
  <2>1. Room(b)
    <3>1. a.buf # NoMsg /\ a.pending # NoMsg => NoAnswer(a', in_flight')
      BY <1>2, <1>4, <1>5 DEF NoAnswer
    <3>. QED  BY <1>2, <3>1 DEF Room
  <2>2. m.type # "PAUSE" => ~a.allowed
    <3>1. m.type # "PAUSE" => Other(fifo[1], link)
      BY <1>2 DEF Other, m
    <3>2. Other(fifo[1], link) => ~a.allowed
      BY <1>2 DEF TurnInv, Paused
    <3>. QED  BY <3>1, <3>2
  <2>. QED  BY <1>2, <1>3, <2>1, <2>2
<1>10. OneRequest'
  <2>. SUFFICES ASSUME a'.state = "ACTIVE"
                PROVE  (Nowhere \/ InBuf \/ InPending \/ InWanted \/ InData)'
    BY DEF OneRequest
  <2>1. a.state = "ACTIVE" /\ Id(a') = Id(a) /\ Token(a') = Token(a)
    BY <1>2, <1>3 DEF Noted, Id, Token, TokenOf
  <2>2. NotBuf(a, in_flight) => NotBuf(a', in_flight')
    BY <1>4, <1>5, <2>1 DEF NotBuf
  <2>3. NotPending(a) => NotPending(a')
    BY <1>5, <1>6, <2>1 DEF NotPending
  <2>4. NotWanted(a, ctl.wanted) => NotWanted(a', ctl'.wanted)
    BY <1>2, <2>1 DEF NotWanted
  <2>5. Token(a).type = "REQUEST"
    BY DEF Token, TokenOf, Msg
  <2>6. CASE Nowhere
    <3>1. ~a.allowed => ~a'.allowed
      BY <1>2, <1>3
    <3>. QED  BY <1>2, <2>2, <2>3, <2>4, <2>6, <3>1 DEF Nowhere
  <2>7. CASE InBuf
    BY <1>2, <1>4, <1>6, <2>1, <2>3, <2>4, <2>5, <2>7 DEF InBuf
  <2>8. CASE InPending
    BY <1>2, <1>5, <1>6, <2>1, <2>2, <2>4, <2>5, <2>8 DEF InPending
  <2>9. CASE InWanted
    BY <1>2, <2>1, <2>2, <2>3, <2>9 DEF InWanted
  <2>. QED  BY <1>2, <2>1, <2>6, <2>7, <2>8, <2>9 DEF TurnInv, OneRequest
<1>. QED  BY <1>2, <1>7, <1>8, <1>9, <1>10, TurnAnswered

(* The command to resume: the request that waited is sent again.            *)
LEMMA TurnResumed ==
  ASSUME TurnInv, UpdateInv, UpdateInv', fifo # <<>>, Head(fifo).id = "WRITE",
         NEW b, NEW y, Takes(b, y, fifo[1]), Served(active, link), fifo[1].conn = link,
         fifo[1].msg.type = "RESUME"
  PROVE  TurnInv'
<1>. DEFINE m == fifo[1].msg
<1>1. m.type \in Commands
  BY DEF Commands
<1>2. /\ IsCommand(fifo[1], link) /\ 1 \in 1..Len(fifo) /\ ctl' = ctl
      /\ b \in Accessory /\ Sound(b) /\ Buffers(b)
      /\ b.obj = a.obj /\ b.state = a.state /\ b.asset = a.asset /\ b.allowed = a.allowed
      /\ b.order = a.order /\ b.buf = a.buf /\ b.pending = a.pending
      /\ y = RecvMessage(b, m) /\ m \in Message
      /\ a'.obj = y.obj /\ a'.state = y.state /\ a'.asset = y.asset
      /\ a'.allowed = y.allowed /\ a'.buf = y.buf /\ a'.pending = y.pending
      /\ NotData(a', fifo', link') /\ ~InData
  BY <1>1, CommandFacts DEF Fits
<1>3. /\ ~a.allowed /\ a.pending = NoMsg /\ a.buf = NoMsg
      /\ ctl.wanted = <<>> /\ ~ctl.paused /\ NoneRescinded(a)
  BY <1>2 DEF TurnInv, Resuming, Cleared
<1>4. NoneRescinded(b)
  BY <1>2, <1>3 DEF NoneRescinded
<1>5. /\ y.allowed /\ y.buf.type = "ACK"
      /\ SameIds(b, y) /\ y.state = b.state /\ y.asset = b.asset
      /\ \A j \in Offers : TokenOf(y, j) = TokenOf(b, j)
      /\ y.pending = NoMsg \/ (b.asset \in Listed(b) /\ y.pending = TokenOf(b, b.asset))
      /\ b.state = "ACTIVE" /\ b.obj[b.asset].ctrl => y.pending = TokenOf(b, b.asset)
  BY <1>2, <1>3, <1>4, ResumeAnswered
<1>6. NoMsg.type = "NOTHING" /\ \A x, j : TokenOf(x, j).type = "REQUEST" /\ TokenOf(x, j).k = x.obj[j].id
  BY DEF NoMsg, TokenOf, Msg
<1>7. a'.pending.type # "ACK" /\ a'.buf.type = "ACK"
  BY <1>2, <1>5, <1>6
<1>8. Given(a'.buf, offers) /\ Given(a'.pending, offers)
  <2>1. b.asset \in Listed(b) => b.obj[b.asset].id \in 1..offers
    BY <1>2 DEF TurnInv, Distinct, Listed
  <2>. QED  BY <1>2, <1>5, <1>6, <1>7, <2>1 DEF Given
<1>9. OneRequest'
  <2>. SUFFICES ASSUME a'.state = "ACTIVE"
                PROVE  InPending'
    BY DEF OneRequest
  <2>1. a.state = "ACTIVE" /\ a'.asset = a.asset /\ a.obj[a.asset].ctrl
    BY <1>2, <1>5 DEF TurnInv, Distinct
  <2>2. a.asset \in Offers
    BY <1>2, <2>1, ActiveAsset
  <2>3. Token(a') = TokenOf(y, y.asset)
    BY <1>2 DEF Token, TokenOf
  <2>4. a'.pending = Token(a')
    BY <1>2, <1>5, <2>1, <2>2, <2>3
  <2>5. NotBuf(a', in_flight')
    BY <1>7 DEF NotBuf
  <2>6. NotWanted(a', ctl'.wanted)
    BY <1>2, <1>3, EmptyQueue DEF NotWanted
  <2>. QED  BY <1>2, <2>4, <2>5, <2>6 DEF InPending
<1>. QED  BY <1>2, <1>3, <1>7, <1>8, <1>9, TurnAnswered

(* An offer: what is received after it is asked for, or was before.         *)
LEMMA TurnOffered ==
  ASSUME TurnInv, UpdateInv, UpdateInv', fifo # <<>>, Head(fifo).id = "WRITE",
         NEW b, NEW y, Takes(b, y, fifo[1]), Served(active, link), fifo[1].conn = link,
         fifo[1].msg.type = "OFFER"
  PROVE  TurnInv'
<1>. DEFINE m == fifo[1].msg
<1>1. m.type \in Commands
  BY DEF Commands
<1>2. /\ IsCommand(fifo[1], link) /\ 1 \in 1..Len(fifo) /\ ctl' = ctl /\ ctl'.awaiting
      /\ b \in Accessory /\ Sound(b) /\ Buffers(b)
      /\ b.obj = a.obj /\ b.state = a.state /\ b.asset = a.asset /\ b.allowed = a.allowed
      /\ b.buf = a.buf /\ b.pending = a.pending
      /\ y = RecvMessage(b, m) /\ Fits(b, m)
      /\ a'.obj = y.obj /\ a'.state = y.state /\ a'.asset = y.asset
      /\ a'.allowed = y.allowed /\ a'.buf = y.buf /\ a'.pending = y.pending
      /\ NotData(a', fifo', link') /\ ~InData
      /\ a.buf = NoMsg => a.pending = NoMsg
  BY <1>1, CommandFacts
<1>3. a.buf = NoMsg /\ a.pending = NoMsg /\ ~ctl.paused /\ ~Speaks(a, in_flight)
  <2>1. fifo[1].id = "WRITE"
    BY <1>2 DEF IsCommand, IsWrite
  <2>2. a.buf = NoMsg
    BY <1>2, <2>1, QueueFacts
  <2>3. ~ctl.paused
    BY <1>2 DEF TurnInv, Talk
  <2>4. ~Speaks(a, in_flight)
    BY <2>2, DeliveryTaken
  <2>. QED  BY <1>2, <2>2, <2>3, <2>4
<1>4. m.k \in 1..offers /\ \A j \in 1..Len(ctl.wanted) : ctl.wanted[j].k # m.k
  <2>1. Carries(fifo, 1, active, a, offers)
    BY <1>2 DEF UpdateInv, Messages, IsCommand, IsWrite
  <2>2. \A j \in 1..Len(ctl.wanted) : ctl.wanted[j].k # m.k
    BY <1>2 DEF TurnInv, Numbers, IsCommand, IsWrite
  <2>. QED  BY <2>1, <2>2 DEF Carries
<1>5. PICK d : /\ d.obj = b.obj /\ d.state = b.state /\ d.asset = b.asset
               /\ d.allowed = b.allowed /\ d.buf.type = "ACK" /\ Resolved(d, y, m.k)
  BY <1>2, OfferAnswered
<1>6. /\ a'.allowed = a.allowed /\ a'.buf.type = "ACK"
      /\ a'.pending = NoMsg \/ Utters(a'.pending, m.k)
      /\ a'.state = "ACTIVE" =>
           \/ /\ a.state = "ACTIVE" /\ a'.asset = a.asset /\ a'.obj[a.asset] = a.obj[a.asset]
              /\ a'.pending.type = "NOTIFICATION"
           \/ Pending(y, y.asset) /\ y.obj[y.asset].id = m.k
  BY <1>2, <1>5 DEF Resolved
<1>. HIDE DEF m
<1>7. NoMsg.type = "NOTHING"
  BY DEF NoMsg, Msg
<1>8. a'.pending.type # "ACK"
  BY <1>6, <1>7 DEF Utters
<1>9. Given(a'.buf, offers) /\ Given(a'.pending, offers)
  BY <1>4, <1>6, <1>7 DEF Given, Utters
<1>10. OneRequest'
  <2>. SUFFICES ASSUME a'.state = "ACTIVE"
                PROVE  (Nowhere \/ InBuf \/ InPending \/ InWanted \/ InData)'
    BY DEF OneRequest
  <2>1. NotBuf(a', in_flight')
    BY <1>6 DEF NotBuf
  <2>2. CASE /\ a.state = "ACTIVE" /\ a'.asset = a.asset /\ a'.obj[a.asset] = a.obj[a.asset]
             /\ a'.pending.type = "NOTIFICATION"
    <3>1. Id(a') = Id(a) /\ Token(a') = Token(a) /\ Token(a).type = "REQUEST"
      BY <2>2 DEF Id, Token, TokenOf, Msg
    <3>2. NotPending(a')
      BY <2>2 DEF NotPending
    <3>3. NotWanted(a, ctl.wanted) => NotWanted(a', ctl'.wanted)
      BY <1>2, <3>1 DEF NotWanted
    <3>4. CASE Nowhere
      BY <1>2, <1>6, <2>1, <3>2, <3>3, <3>4 DEF Nowhere
    <3>5. CASE InWanted
      BY <1>2, <2>1, <3>1, <3>2, <3>5 DEF InWanted
    <3>6. ~InBuf /\ ~InPending
      BY <1>3, <1>7, <3>1 DEF InBuf, InPending
    <3>. QED  BY <1>2, <2>2, <3>4, <3>5, <3>6 DEF TurnInv, OneRequest
  <2>3. CASE Pending(y, y.asset) /\ y.obj[y.asset].id = m.k
    <3>1. Id(a') = m.k /\ Token(a') = TokenOf(y, y.asset)
      BY <1>2, <2>3 DEF Id, Token, TokenOf
    <3>2. NotWanted(a', ctl'.wanted)
      BY <1>2, <1>4, <3>1 DEF NotWanted
    <3>3. a'.pending = Token(a') \/ (a'.pending = NoMsg /\ ~a'.allowed)
      BY <1>2, <2>3, <3>1 DEF Pending
    <3>4. a'.pending = NoMsg => NotPending(a')
      BY <1>7 DEF NotPending
    <3>. QED  BY <1>2, <2>1, <3>2, <3>3, <3>4 DEF InPending, Nowhere
  <2>. QED  BY <1>6, <2>2, <2>3
<1>. QED  BY <1>2, <1>3, <1>8, <1>9, <1>10, TurnAnswered

(* The write is one of the connection that is served, and was before.       *)
LEMMA TurnServedWrite ==
  ASSUME TurnInv, UpdateInv, UpdateInv', fifo # <<>>, Head(fifo).id = "WRITE",
         NEW b, NEW y, Takes(b, y, fifo[1]), Served(active, link), fifo[1].conn = link
  PROVE  TurnInv'
<1>. DEFINE e == fifo[1]
<1>1. /\ Head(fifo) = e /\ 1 \in 1..Len(fifo)
      /\ IF e.part = "first" THEN y = b ELSE y = RecvMessage(b, e.msg)
  BY TakenStep DEF Takes
<1>2. IsCommand(e, link) => e.part = "whole"
  BY <1>1 DEF TurnInv, Talk
<1>3. IsCommand(e, link) <=> e.msg.type \in Commands
  BY <1>1 DEF IsCommand, IsWrite
<1>4. IsData(e, link) => e.msg.type = "DATA" /\ e.part # "first"
  BY DEF IsData
<1>. HIDE DEF e
<1>5. CASE e.msg.type \in {"INFO", "APPLY", "PAUSE", "RESCIND"}
  BY <1>5, TurnPlain DEF e
<1>6. CASE e.msg.type = "RESUME"
  BY <1>6, TurnResumed DEF e
<1>7. CASE e.msg.type = "OFFER"
  BY <1>7, TurnOffered DEF e
<1>8. CASE e.msg.type = "DATA" /\ e.part # "first"
  BY <1>8, TurnData DEF e
<1>9. CASE e.msg.type \notin Commands /\ ~(e.msg.type = "DATA" /\ e.part # "first")
  <2>1. y = b
    <3>1. e.part # "first" => e.msg.type \notin Commands \cup {"DATA"}
      BY <1>9
    <3>2. e.part # "first" => RecvMessage(b, e.msg) = b
      BY <3>1 DEF RecvMessage, Commands
    <3>. QED  BY <1>1, <3>2
  <2>2. ~IsCommand(e, link) /\ ~IsData(e, link)
    BY <1>3, <1>4, <1>9
  <2>. QED  BY <2>1, <2>2, TurnUnmoved DEF e
<1>. QED  BY <1>5, <1>6, <1>7, <1>8, <1>9 DEF Commands

(* A write: ignored, of a link that has gone, the first one, or another.    *)
LEMMA TurnWrite == TurnInv /\ UpdateInv /\ UpdateInv' /\ WholeInv /\ handle_write => TurnInv'
<1>. SUFFICES ASSUME TurnInv, UpdateInv, UpdateInv', WholeInv, handle_write PROVE TurnInv'
  OBVIOUS
<1>. DEFINE e == Head(fifo)
<1>1. /\ fifo # <<>> /\ e.id = "WRITE"
      /\ \/ IgnoredEvent /\ active \notin {None, e.conn}
         \/ \E b, y : Takes(b, y, e)
  BY WriteTaken
<1>2. e = fifo[1]
  BY <1>1, QueueFacts, Taken
<1>3. CASE IgnoredEvent /\ active \notin {None, e.conn}
  <2>1. Served(active, link) => ~IsWrite(e, link)
    BY <1>3 DEF Served, IsWrite
  <2>2. ~IsAck(e, active)
    BY <1>3 DEF IsAck
  <2>. QED  BY <1>1, <1>3, <2>1, <2>2, TurnIgnored
<1>4. CASE \E b, y : Takes(b, y, e)
  <2>1. PICK b, y : Takes(b, y, fifo[1])
    BY <1>2, <1>4
  <2>2. /\ active \in {None, fifo[1].conn} /\ active' = fifo[1].conn /\ fifo[1].conn # None
        /\ y \in Accessory /\ Handled(y)
    BY <2>1 DEF Takes
  <2>3. link' = link
    BY <2>2 DEF Handled, linkVars
  <2>4. CASE fifo[1].conn # link
    <3>1. ~Served(active, link) /\ ~Served(active', link')
      BY <2>2, <2>3, <2>4 DEF Served
    <3>2. Distinct'
      BY <1>1, <2>1, DistinctTaken DEF TurnInv
    <3>3. Sending'
      BY <1>1, <2>1, SendingTaken DEF TurnInv
    <3>. QED  BY <1>1, <2>2, <3>1, <3>2, <3>3, TurnAlone
  <2>5. CASE fifo[1].conn = link /\ active = None
    BY <1>1, <2>1, <2>5, TurnTakenUp
  <2>6. CASE fifo[1].conn = link /\ active = link
    <3>1. Served(active, link)
      BY <2>2, <2>6 DEF Served
    <3>. QED  BY <1>1, <2>1, <2>6, <3>1, TurnServedWrite
  <2>. QED  BY <2>2, <2>4, <2>5, <2>6
<1>. QED  BY <1>1, <1>3, <1>4

-----------------------------------------------------------------------------
(* Every step keeps the invariant, of a controller that does not resume     *)
(* with a request open for an asset it has rescinded.                       *)
LEMMA TurnNext ==
  ASSUME "rescind_resume" \notin Races, TurnInv, UpdateInv, UpdateInv', WholeInv, [Next]_vars
  PROVE  TurnInv'
<1>1. CASE Controller
  <2>1. CASE Connect
    BY <2>1, TurnConnect
  <2>2. CASE Greet
    BY <2>2, TurnGreet
  <2>3. CASE Pause
    BY <2>3, TurnPause
  <2>4. CASE Resume
    BY <2>4, TurnResume
  <2>5. CASE RescindAsset \/ RescindAll \/ Query
    BY <2>5, TurnOthers
  <2>6. CASE Offer
    BY <2>6, TurnOffer
  <2>7. CASE Answer
    BY <2>7, TurnAnswer
  <2>8. CASE Confirm
    BY <2>8, TurnConfirm
  <2>9. CASE LinkLost
    BY <2>9, TurnLost
  <2>. QED  BY <1>1, <2>1, <2>2, <2>3, <2>4, <2>5, <2>6, <2>7, <2>8, <2>9 DEF Controller
<1>2. CASE Service
  <2>1. CASE submit_event_disconnect
    BY <2>1, TurnGone
  <2>2. CASE handle_disconnect
    BY <2>2, TurnDisconnect
  <2>3. CASE handle_indication_ack
    BY <2>3, TurnAck
  <2>4. CASE handle_write
    BY <2>4, TurnWrite
  <2>. QED  BY <1>2, <2>1, <2>2, <2>3, <2>4 DEF Service
<1>3. CASE UNCHANGED vars
  <2>1. /\ a' = a /\ active' = active /\ fifo' = fifo /\ link' = link /\ in_flight' = in_flight
        /\ ctl' = ctl /\ offers' = offers
    BY <1>3 DEF vars, serviceVars, linkVars, countVars
  <2>2. Distinct' /\ Sending' /\ Talk' /\ Numbers'
    BY <2>1 DEF TurnInv, Distinct, Sending, Talk, Numbers
  <2>3. Paused' /\ Resuming'
    BY <2>1 DEF TurnInv, Paused, Resuming
  <2>4. OneRequest'
    BY <2>1 DEF TurnInv, OneRequest, Nowhere, InBuf, InPending, InWanted, InData
  <2>. QED  BY <2>2, <2>3, <2>4 DEF TurnInv
<1>. QED  BY <1>1, <1>2, <1>3 DEF Next

LEMMA TurnAlways ==
  ASSUME UsualController, "rescind_resume" \notin Races
  PROVE  Spec => []TurnInv
<1>1. TurnInv /\ UpdateInv /\ UpdateInv' /\ WholeInv /\ [Next]_vars => TurnInv'
  BY TurnNext
<1>. QED  BY <1>1, TurnInit, UpdateAlways, WholeAlways, PTL DEF Spec

(* A transfer that is allowed is never forgotten, whatever is lost, paused, *)
(* resumed, rescinded or offered meanwhile: while the controller is served, *)
(* an event waits, an indication is on its way, or the controller owes an   *)
(* answer or has paused.  RequestDataContinue, DataTransferResume and       *)
(* SuperBinaryMerge of CoreUARPPlatformAccessory.c request each unit once,  *)
(* and send_message() of fmna_uarp.c has a buffer for the request whenever  *)
(* it is made.                                                              *)
THEOREM TransfersAreNotStuck ==
  ASSUME UsualController, "rescind_resume" \notin Races
  PROVE  Spec => []TransferNotStuck
<1>1. TurnInv /\ UpdateInv => TransferNotStuck
  <2>. SUFFICES ASSUME TurnInv, UpdateInv, a.state = "ACTIVE", a.allowed, link # None, link = active,
                       fifo = <<>>, ~in_flight, ctl.wanted = <<>>, ~ctl.paused
                PROVE  FALSE
    BY DEF TransferNotStuck
  <2>1. Len(fifo) = 0 /\ Len(ctl.wanted) = 0
    BY EmptyQueue
  <2>2. 1..Len(fifo) = {} /\ 1..Len(ctl.wanted) = {}
    BY <2>1
  <2>3. a.sending = "none"
    BY <2>2 DEF TurnInv, Sending, NoAck
  <2>4. a.buf = NoMsg /\ a.pending = NoMsg /\ ~Speaks(a, in_flight)
    BY <2>3 DEF UpdateInv, Buffers, Speaks
  <2>5. a.pending # Token(a)
    BY <2>4 DEF Token, TokenOf, Msg, NoMsg
  <2>6. ~InBuf /\ ~InPending /\ ~InWanted /\ ~InData
    BY <2>2, <2>4, <2>5 DEF InBuf, InPending, InWanted, InData
  <2>7. Nowhere
    BY <2>6 DEF TurnInv, OneRequest, Served
  <2>. QED  BY <2>7 DEF Nowhere
<1>. QED  BY <1>1, TurnAlways, UpdateAlways, PTL

=============================================================================
