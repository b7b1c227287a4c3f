-------------------------- MODULE RuntimeEventsProofs ---------------------------
(***************************************************************************)
(* Proofs about the ring buffers: a ring holds whole events between head   *)
(* and tail, a poll reads all that was written when it began, and a ring   *)
(* with its cursor implements the log that loses only its oldest events.   *)
(***************************************************************************)
EXTENDS RuntimeEvents, TLAPS

--------------------------------------------------------------------------------
(* The inductive invariant.                                                *)

Paddings == {Padding(n) : n \in 1..MaxLen}
Logged == Written \cup Paddings
Word == [at : Nat, event : Logged \cup {NoEvent}, word : Nat]

WriterTypes ==
  /\ head \in [Rings -> Nat]
  /\ tail \in [Rings -> Nat]
  /\ data \in [Rings -> [0..Size - 1 -> Word]]
  /\ w \in [Rings -> [pc : {"idle", "active", "head", "pad", "words"},
                      event : Written \cup {NoEvent}, word : Nat]]
  /\ log \in [Rings -> SUBSET [at : Nat, event : Logged]]
  /\ \A d \in Rings : w[d].pc # "idle" => w[d].event \in Written

\* Where an event ends.
End(e) == e.at + e.event.len

\* The events of the log follow each other from 0 to tail, each without a gap
\* after the one before, and none runs across the end of the ring.
LogOK(d) ==
  /\ \A e \in log[d] : End(e) <= tail[d] /\ (e.at % Size) + e.event.len <= Size
  /\ \A e, f \in log[d] : (e.at < f.at => End(e) <= f.at) /\ (e.at = f.at => e = f)
  /\ \A p \in 0..tail[d] - 1 : \E e \in log[d] : e.at <= p /\ p < End(e)

\* An event begins at p, or the next one will.
Boundary(d, p) == p = tail[d] \/ \E e \in log[d] : e.at = p

\* What the event being written still needs of the ring.
Needed(d) ==
  CASE w[d].pc = "pad" -> w[d].event.len + DistanceToEnd(d)
    [] w[d].pc = "words" -> w[d].event.len
    [] OTHER -> 0

HeadOK(d) ==
  /\ head[d] <= tail[d] /\ Boundary(d, head[d])
  /\ tail[d] + Needed(d) < head[d] + Size

\* The words of an event that are written.
Stored(event) == 0..(IF IsPadding(event) THEN 0 ELSE event.len - 1)

DataOK(d) ==
  \A e \in log[d] : e.at >= head[d] =>
    \A k \in Stored(e.event) :
      data[d][(e.at + k) % Size] = [at |-> e.at, event |-> e.event, word |-> k]

\* The event being written, whose first words are stored behind tail.
ProgressOK(d) ==
  /\ w[d].pc \in {"active", "head", "pad"} => w[d].word = 0
  /\ w[d].pc = "pad" =>
       /\ DistanceToEnd(d) < w[d].event.len
       /\ data[d][tail[d] % Size] =
            [at |-> tail[d], event |-> Padding(DistanceToEnd(d)), word |-> 0]
  /\ w[d].pc = "words" =>
       /\ (tail[d] % Size) + w[d].event.len <= Size
       /\ w[d].word <= w[d].event.len
       /\ \A k \in 0..w[d].word - 1 :
            data[d][(tail[d] + k) % Size] =
              [at |-> tail[d], event |-> w[d].event, word |-> k]

RingOK(d) == LogOK(d) /\ HeadOK(d) /\ DataOK(d) /\ ProgressOK(d)

WInv == WriterTypes /\ \A d \in Rings : RingOK(d)

\* The state of the cursor while it polls.
Bufs == UNION {[S -> Word] : S \in SUBSET Nat}
Copies == [header : Word, msg_length : Nat, buf : Bufs]
Polling ==
  [pc : {"head", "tail", "header", "copy", "callback", "return"}, i : Rings, start : Rings,
   option : MaxOptions, consumed : Nat, events : Nat, early_exit : BOOLEAN,
   tails : [Rings -> Nat], ring_head : Nat, ring_tail : Nat, copy : Copies]

CursorTypes ==
  /\ pos \in [Rings -> Nat]
  /\ next_read_domain \in Rings
  /\ r \in {[pc |-> "idle"]} \cup Polling

\* The cursor is between two events.
PosInv == \A d \in Rings : pos[d] <= tail[d] /\ Boundary(d, pos[d])

\* What has been copied is the event e.
CopyOf(e) ==
  /\ r.copy.header = [at |-> e.at, event |-> e.event, word |-> 0]
  /\ r.copy.msg_length = e.event.len
  /\ DOMAIN r.copy.buf \subseteq 1..e.event.len - 1
  /\ ~IsPadding(e.event) =>
       \A k \in DOMAIN r.copy.buf :
         r.copy.buf[k] = [at |-> e.at, event |-> e.event, word |-> k]

\* What the cursor has loaded was so, and still is unless head has passed.
LoadInv ==
  /\ r.pc = "tail" => /\ r.ring_head <= head[Domain] /\ Boundary(Domain, r.ring_head)
  /\ r.pc \in {"header", "copy", "callback"} =>
       Here < r.ring_tail /\ r.ring_tail <= tail[Domain]
  /\ r.pc = "copy" /\ head[Domain] <= Here =>
       \E e \in log[Domain] : e.at = Here /\ CopyOf(e)
  /\ r.pc = "callback" => \E e \in log[Domain] : e.at = Here /\ CopyOf(e) /\ Copied

\* The rings that the poll has dealt with.
Passed ==
  {(r.start + j) % max_domains : j \in IF r.pc = "return" THEN Rings ELSE 0..r.i - 1}

DrainInv ==
  r.pc # "idle" =>
    /\ \A d \in Rings : r.tails[d] <= tail[d]
    /\ r.early_exit => r.pc = "return"
    /\ r.pc \in {"header", "copy", "callback"} => r.tails[Domain] <= r.ring_tail
    /\ r.option = None /\ ~r.early_exit =>
         \A d \in Passed : pos[d] >= r.tails[d]

RInv == CursorTypes /\ PosInv /\ LoadInv /\ DrainInv

IInv == WInv /\ RInv

--------------------------------------------------------------------------------
(* Positions and indices.                                                  *)

LEMMA ModRange ==
  ASSUME NEW a \in Nat, NEW n \in Nat \ {0}
  PROVE  a % n \in 0..n - 1
OBVIOUS

LEMMA DivMod ==
  ASSUME NEW a \in Nat, NEW n \in Nat \ {0}
  PROVE  a \div n \in Int /\ a = (n * (a \div n)) + (a % n)
OBVIOUS

\* A difference of two multiples of n is 0 or at least n.
LEMMA Multiples ==
  ASSUME NEW n \in Nat \ {0}, NEW x \in Int, NEW y \in Int
  PROVE  \/ x = y
         \/ (n * x) - (n * y) >= n
         \/ (n * y) - (n * x) >= n
<1>1. (n * x) - (n * y) = n * (x - y) /\ (n * y) - (n * x) = n * (y - x)
  OBVIOUS
<1>2. \A z \in Int : z >= 1 => n * z >= n
  OBVIOUS
<1>3. x - y \in Int /\ y - x \in Int /\ (x = y \/ x - y >= 1 \/ y - x >= 1)
  OBVIOUS
<1> QED
  BY <1>1, <1>2, <1>3

\* Positions less than a ring apart have different indices.
LEMMA Apart ==
  ASSUME NEW n \in Nat \ {0}, NEW p \in Nat, NEW q \in Nat, p < q, q < p + n
  PROVE  (p % n) # (q % n)
<1> DEFINE a == p \div n
           b == q \div n
           c == p % n
           e == q % n
<1>1. a \in Int /\ p = (n * a) + c /\ c \in 0..n - 1
  BY DivMod, ModRange
<1>2. b \in Int /\ q = (n * b) + e /\ e \in 0..n - 1
  BY DivMod, ModRange
<1> HIDE DEF a, b, c, e
<1>3. c # e
  <2>1. SUFFICES ASSUME c = e PROVE FALSE
    OBVIOUS
  <2>2. a = b \/ (n * a) - (n * b) >= n \/ (n * b) - (n * a) >= n
    BY <1>1, <1>2, Multiples
  <2>3. q - p = (n * b) - (n * a) /\ n * a \in Int /\ n * b \in Int
    BY <1>1, <1>2, <2>1
  <2> HIDE DEF c, e
  <2> QED
    BY <2>2, <2>3
<1> QED
  BY <1>3 DEF c, e

\* Division leaves one remainder.
LEMMA Remainder ==
  ASSUME NEW n \in Nat \ {0}, NEW a \in Int, NEW c \in 0..n - 1, n * a + c \in Nat
  PROVE  (n * a + c) % n = c
<1> DEFINE q == n * a + c
           b == q \div n
           e == q % n
<1>1. b \in Int /\ q = (n * b) + e /\ e \in 0..n - 1
  BY DivMod, ModRange
<1>2. q = (n * a) + c
  OBVIOUS
<1> HIDE DEF q, b, e
<1>3. e = c
  <2>1. a = b \/ (n * a) - (n * b) >= n \/ (n * b) - (n * a) >= n
    BY <1>1, Multiples
  <2>2. n * a \in Int /\ n * b \in Int /\ (n * a) - (n * b) = e - c
    BY <1>1, <1>2
  <2>3. CASE a = b
    BY <2>2, <2>3, <1>1
  <2> QED
    BY <2>1, <2>2, <2>3, <1>1
<1> QED
  BY <1>3 DEF e, q

\* The index of a word of an event that does not run across the end.
LEMMA ModSum ==
  ASSUME NEW n \in Nat \ {0}, NEW p \in Nat, NEW k \in Nat, (p % n) + k < n
  PROVE  (p + k) % n = (p % n) + k
<1> DEFINE a == p \div n
           c == p % n
<1>1. a \in Int /\ p = (n * a) + c /\ c \in 0..n - 1
  BY DivMod, ModRange
<1>2. c + k \in 0..n - 1
  BY <1>1
<1> HIDE DEF a, c
<1>3. p + k = n * a + (c + k)
  BY <1>1
<1>4. (n * a + (c + k)) % n = c + k
  BY <1>1, <1>2, <1>3, Remainder
<1>5. (p + k) % n = c + k
  BY <1>3, <1>4
<1> QED
  BY <1>5 DEF c

\* Padding goes to the end of the ring.
LEMMA ModEnd ==
  ASSUME NEW n \in Nat \ {0}, NEW p \in Nat
  PROVE  (p + (n - (p % n))) % n = 0
<1> DEFINE a == p \div n
           c == p % n
<1>1. a \in Int /\ p = (n * a) + c /\ c \in 0..n - 1
  BY DivMod, ModRange
<1> HIDE DEF a, c
<1>2. n * (a + 1) = (n * a) + n
  BY <1>1
<1>3. p + (n - c) = n * (a + 1) + 0 /\ p + (n - c) \in Nat
  BY <1>1, <1>2
<1>4. (n * (a + 1) + 0) % n = 0
  BY <1>1, <1>3, Remainder
<1>5. (p + (n - c)) % n = 0
  BY <1>3, <1>4
<1> QED
  BY <1>5 DEF c

\* What the assumption says of lengths.
LEMMA Lens ==
  /\ Size \in Nat \ {0} /\ MaxLen \in Nat /\ Size >= 2 * MaxLen
  /\ \A k \in Written : k.len \in Nat /\ k.len >= 2 /\ k.len <= MaxLen
  /\ \A e \in Logged : e.len \in Nat /\ e.len >= 1 /\ e.len <= MaxLen
  /\ NoEvent.len = 0 /\ IsPadding(NoEvent)
  /\ \A n \in Nat : Padding(n).len = n /\ IsPadding(Padding(n))
<1>1. \A k \in Written : k.len \in Nat /\ k.len >= 2
  BY RuntimeEventsAssumption DEF Written, Lifecycle
<1>2. \E n \in {k.len : k \in Written} : \A k \in Written : k.len <= n
  BY RuntimeEventsAssumption
<1>3. MaxLen \in {k.len : k \in Written} /\ \A k \in Written : k.len <= MaxLen
  BY <1>2 DEF MaxLen
<1>4. Lifecycle \in Written /\ MaxLen \in Nat /\ MaxLen >= 2
  BY <1>1, <1>3 DEF Written
<1>5. \A n \in Nat : Padding(n).len = n /\ IsPadding(Padding(n))
  BY DEF Padding, IsPadding
<1>6. \A e \in Paddings : e.len \in Nat /\ e.len >= 1 /\ e.len <= MaxLen
  BY <1>4, <1>5 DEF Paddings
<1> QED
  BY <1>1, <1>3, <1>4, <1>5, <1>6, RuntimeEventsAssumption DEF Logged, NoEvent

--------------------------------------------------------------------------------
(* The domain.                                                             *)

LEMMA WriterInit == Init => WInv
<1> SUFFICES ASSUME Init PROVE WInv
  OBVIOUS
<1>1. WriterTypes
  <2>1. Blank \in Word /\ NoEvent \in Logged \cup {NoEvent}
    BY DEF Blank, Word, NoEvent
  <2>2. Lifecycle \in Written
    BY DEF Written
  <2>3. data \in [Rings -> [0..Size - 1 -> Word]]
    BY <2>1 DEF Init
  <2> QED
    BY <2>2, <2>3 DEF Init, WriterTypes
<1>2. ASSUME NEW d \in Rings PROVE RingOK(d)
  <2>1. head[d] = 0 /\ tail[d] = 0 /\ log[d] = {} /\ w[d].word = 0
        /\ w[d].pc \in {"active", "idle"}
    BY DEF Init
  <2>2. LogOK(d) /\ DataOK(d)
    BY <2>1 DEF LogOK, DataOK
  <2>3. HeadOK(d)
    BY <2>1, Lens DEF HeadOK, Needed, Boundary
  <2>4. ProgressOK(d)
    BY <2>1 DEF ProgressOK
  <2> QED
    BY <2>2, <2>3, <2>4 DEF RingOK
<1> QED
  BY <1>1, <1>2 DEF WInv

\* A ring that nobody writes to stays as it is.
LEMMA Frame ==
  ASSUME NEW q \in Rings, RingOK(q),
         head'[q] = head[q], tail'[q] = tail[q], data'[q] = data[q],
         log'[q] = log[q], w'[q] = w[q]
  PROVE  RingOK(q)'
<1>1. LogOK(q)' /\ DataOK(q)'
  BY DEF RingOK, LogOK, DataOK, End
<1>2. HeadOK(q)'
  BY DEF RingOK, HeadOK, Boundary, Needed, DistanceToEnd
<1>3. ProgressOK(q)'
  BY DEF RingOK, ProgressOK, DistanceToEnd
<1> QED
  BY <1>1, <1>2, <1>3 DEF RingOK

\* It is enough to look at the ring that is written to.
LEMMA OneRing ==
  ASSUME WInv, NEW d \in Rings, WriterTypes', RingOK(d)',
         \A q \in Rings \ {d} : /\ head'[q] = head[q] /\ tail'[q] = tail[q]
                                /\ data'[q] = data[q] /\ log'[q] = log[q]
                                /\ w'[q] = w[q]
  PROVE  WInv'
BY Frame DEF WInv

\* A call, and ring_is_active.
LEMMA WriterCalls ==
  ASSUME WInv, NEW d \in Writers, NEW pc \in {"idle", "active", "head"},
         NEW ev \in Written \cup {NoEvent}, pc # "idle" => ev \in Written,
         w[d].pc \in {"idle", "active"},
         w' = [w EXCEPT ![d] = [pc |-> pc, event |-> ev, word |-> 0]],
         UNCHANGED <<head, tail, data, log>>
  PROVE  WInv'
<1>1. d \in Rings /\ RingOK(d)
  BY RuntimeEventsAssumption DEF WInv
<1>2. WriterTypes'
  BY <1>1 DEF WInv, WriterTypes
<1>3. w'[d] = [pc |-> pc, event |-> ev, word |-> 0]
  BY <1>1 DEF WInv, WriterTypes
<1>4. LogOK(d)' /\ DataOK(d)'
  BY <1>1 DEF RingOK, LogOK, DataOK, End
<1>5. HeadOK(d)'
  BY <1>1, <1>3 DEF RingOK, HeadOK, Boundary, Needed
<1>6. ProgressOK(d)'
  BY <1>3 DEF ProgressOK
<1>7. RingOK(d)'
  BY <1>4, <1>5, <1>6 DEF RingOK
<1>8. \A q \in Rings \ {d} : w'[q] = w[q]
  BY DEF WInv, WriterTypes
<1> QED
  BY <1>1, <1>2, <1>7, <1>8, OneRing

LEMMA Distance ==
  ASSUME WriterTypes, NEW d \in Rings
  PROVE  /\ tail[d] \in Nat /\ head[d] \in Nat /\ tail[d] % Size \in 0..Size - 1
         /\ DistanceToEnd(d) \in 1..Size
<1>1. tail[d] \in Nat /\ head[d] \in Nat
  BY DEF WriterTypes
<1>2. tail[d] % Size \in 0..Size - 1
  BY <1>1, Lens, ModRange
<1> QED
  BY <1>1, <1>2, Lens DEF DistanceToEnd

\* Where an event ends, the next one begins.
LEMMA EndIsBoundary ==
  ASSUME WInv, NEW q \in Rings, NEW e \in log[q]
  PROVE  End(e) \in Nat /\ End(e) <= tail[q] /\ Boundary(q, End(e)) /\ e.at < End(e)
<1>1. WriterTypes /\ LogOK(q) /\ tail[q] \in Nat
  BY Distance DEF WInv, RingOK
<1>2. \A f \in log[q] : f.at \in Nat /\ f.event.len \in Nat /\ f.event.len >= 1
                        /\ End(f) \in Nat /\ f.at < End(f)
  BY <1>1, Lens DEF WriterTypes, End
<1>3. End(e) <= tail[q]
  BY <1>1 DEF LogOK
<1>4. CASE End(e) = tail[q]
  BY <1>2, <1>3, <1>4 DEF Boundary
<1>5. CASE End(e) < tail[q]
  <2>1. PICK f \in log[q] : f.at <= End(e) /\ End(e) < End(f)
    BY <1>1, <1>2, <1>5 DEF LogOK
  <2>2. ~(f.at < e.at) /\ f.at # e.at
    BY <1>1, <1>2, <2>1 DEF LogOK
  <2>3. f.at = End(e)
    BY <1>1, <1>2, <2>1, <2>2 DEF LogOK
  <2> QED
    BY <1>2, <1>3, <2>1, <2>3 DEF Boundary
<1> QED
  BY <1>1, <1>2, <1>3, <1>4, <1>5

LEMMA WriterAdvances ==
  ASSUME WInv, NEW d \in Writers, AdvanceHead(d)
  PROVE  WInv' /\ \E e \in log[d] : e.at = head[d] /\ head' = [head EXCEPT ![d] = End(e)]
<1>1. d \in Rings /\ RingOK(d) /\ WriterTypes
  BY RuntimeEventsAssumption DEF WInv
<1>2. w[d].pc = "head" /\ w[d].event \in Written /\ w[d].event.len \in Nat
      /\ w[d].event.len <= MaxLen
  BY <1>1, Lens DEF AdvanceHead, WriterTypes
<1>3. DistanceToEnd(d) \in Nat /\ tail[d] \in Nat /\ head[d] \in Nat /\ head[d] <= tail[d]
  BY <1>1, Distance DEF RingOK, HeadOK
<1>4. head[d] # tail[d]
  BY <1>2, <1>3, Lens DEF AdvanceHead, Overfull, PaddingRequired
<1>5. PICK e \in log[d] : e.at = head[d]
  BY <1>1, <1>4 DEF RingOK, HeadOK, Boundary
<1>6. e.event \in Logged /\ e.event.len \in Nat /\ e.event.len >= 1 /\ e.at \in Nat
  BY <1>1, <1>5, Lens DEF WriterTypes
<1>7. data[d][head[d] % Size].event = e.event
  <2>1. 0 \in Stored(e.event)
    BY <1>6 DEF Stored
  <2>2. data[d][(e.at + 0) % Size] = [at |-> e.at, event |-> e.event, word |-> 0]
    BY <1>1, <1>3, <1>5, <2>1 DEF RingOK, DataOK
  <2>3. e.at + 0 = head[d]
    BY <1>5, <1>6
  <2> QED
    BY <2>2, <2>3
<1>8. head' = [head EXCEPT ![d] = End(e)] /\ head'[d] = End(e) /\ End(e) \in Nat
      /\ End(e) > head[d]
  BY <1>1, <1>3, <1>5, <1>6, <1>7 DEF AdvanceHead, End, WriterTypes
<1>9. WriterTypes'
  BY <1>1, <1>8 DEF WriterTypes, AdvanceHead
<1>10. UNCHANGED <<tail, data, w, log>>
  BY DEF AdvanceHead
<1>11. LogOK(d)'
  BY <1>1, <1>10 DEF RingOK, LogOK, End
<1>12. DataOK(d)'
  <2> SUFFICES ASSUME NEW f \in log[d], f.at >= End(e), NEW k \in Stored(f.event)
               PROVE  data[d][(f.at + k) % Size] = [at |-> f.at, event |-> f.event, word |-> k]
    BY <1>8, <1>10 DEF DataOK
  <2>1. f.at >= head[d]
    BY <1>1, <1>3, <1>8 DEF WriterTypes
  <2> QED
    BY <1>1, <2>1 DEF RingOK, DataOK
<1>13. HeadOK(d)'
  <2>1. End(e) <= tail[d] /\ Boundary(d, End(e))
    BY <1>1, EndIsBoundary
  <2>2. Needed(d) = 0 /\ Needed(d)' = 0
    BY <1>2, <1>10 DEF Needed
  <2>3. (head[d] <= tail[d])' /\ Boundary(d, head[d])'
    BY <1>8, <1>10, <2>1 DEF Boundary
  <2>4. (tail[d] + Needed(d) < head[d] + Size)'
    BY <1>1, <1>3, <1>8, <1>10, <2>2, Lens DEF RingOK, HeadOK
  <2> QED
    BY <2>3, <2>4 DEF HeadOK
<1>14. ProgressOK(d)'
  BY <1>1, <1>10 DEF RingOK, ProgressOK, DistanceToEnd
<1>15. RingOK(d)'
  BY <1>11, <1>12, <1>13, <1>14 DEF RingOK
<1>16. \A q \in Rings \ {d} : head'[q] = head[q]
  BY <1>8, <1>1 DEF WriterTypes
<1>17. WInv'
  BY <1>1, <1>9, <1>10, <1>15, <1>16, OneRing
<1> QED
  BY <1>5, <1>8, <1>17

\* A word stored behind tail is in nobody's way.
LEMMA Store ==
  ASSUME WInv, NEW d \in Rings, NEW k \in Nat, tail[d] + k < head[d] + Size,
         NEW word \in Word,
         data' = [data EXCEPT ![d][(tail[d] + k) % Size] = word],
         head' = head, log' = log
  PROVE  /\ data' \in [Rings -> [0..Size - 1 -> Word]]
         /\ data'[d][(tail[d] + k) % Size] = word
         /\ \A p \in Nat : p < tail[d] + k /\ tail[d] + k < p + Size
              => data'[d][p % Size] = data[d][p % Size]
         /\ \A q \in Rings \ {d} : data'[q] = data[q]
         /\ DataOK(d)'
<1>1. WriterTypes /\ RingOK(d) /\ tail[d] \in Nat /\ head[d] \in Nat
  BY Distance DEF WInv
<1>2. (tail[d] + k) % Size \in 0..Size - 1
  BY <1>1, Lens, ModRange
<1>3. data \in [Rings -> [0..Size - 1 -> Word]]
  BY <1>1 DEF WriterTypes
<1> DEFINE x == (tail[d] + k) % Size
<1> HIDE DEF x
<1>4. x \in 0..Size - 1 /\ data' = [data EXCEPT ![d][x] = word]
  BY <1>2 DEF x
<1>5. /\ data' \in [Rings -> [0..Size - 1 -> Word]]
      /\ data'[d][x] = word
      /\ \A y \in 0..Size - 1 : y # x => data'[d][y] = data[d][y]
      /\ \A q \in Rings \ {d} : data'[q] = data[q]
  <2> DEFINE F == [0..Size - 1 -> Word]
  <2>1. data[d] \in F
    BY <1>3
  <2>2. [data[d] EXCEPT ![x] = word] \in F
    BY <1>4, <2>1
  <2>3. [data[d] EXCEPT ![x] = word][x] = word
    BY <1>4, <2>1
  <2>4. \A y \in 0..Size - 1 : y # x => [data[d] EXCEPT ![x] = word][y] = data[d][y]
    BY <1>4, <2>1
  <2>5. data' = [data EXCEPT ![d] = [data[d] EXCEPT ![x] = word]]
    BY <1>4
  <2> HIDE DEF F
  <2>6. data' \in [Rings -> F] /\ data'[d] = [data[d] EXCEPT ![x] = word]
        /\ \A q \in Rings \ {d} : data'[q] = data[q]
    BY <1>3, <2>2, <2>5 DEF F
  <2> QED
    BY <2>3, <2>4, <2>6 DEF F
<1>6. ASSUME NEW p \in Nat, p < tail[d] + k, tail[d] + k < p + Size
      PROVE  data'[d][p % Size] = data[d][p % Size]
  <2>1. tail[d] + k \in Nat
    BY <1>1
  <2>2. (p % Size) # x
    BY <1>6, <2>1, Lens, Apart DEF x
  <2>3. p % Size \in 0..Size - 1
    BY Lens, ModRange
  <2> QED
    BY <1>5, <2>2, <2>3
<1>7. DataOK(d)'
  <2> SUFFICES ASSUME NEW e \in log[d], e.at >= head[d], NEW j \in Stored(e.event)
               PROVE  data'[d][(e.at + j) % Size]
                        = [at |-> e.at, event |-> e.event, word |-> j]
    BY DEF DataOK
  <2>1. e.at \in Nat /\ e.event.len \in Nat /\ e.event.len >= 1
    BY <1>1, Lens DEF WriterTypes
  <2>2. j \in Nat /\ j < e.event.len
    BY <2>1 DEF Stored
  <2>3. e.at + e.event.len <= tail[d]
    BY <1>1 DEF RingOK, LogOK, End
  <2>4. e.at + j \in Nat /\ e.at + j < tail[d] + k /\ tail[d] + k < (e.at + j) + Size
    BY <1>1, <2>1, <2>2, <2>3, Lens
  <2>5. data'[d][(e.at + j) % Size] = data[d][(e.at + j) % Size]
    BY <1>6, <2>4
  <2> QED
    BY <1>1, <2>5 DEF RingOK, DataOK
<1> QED
  BY <1>5, <1>6, <1>7 DEF x

\* An event that is stored whole joins the log.
LEMMA Publish ==
  ASSUME WInv, NEW d \in Rings, NEW ev \in Logged, StoreTail(d, ev),
         (tail[d] % Size) + ev.len <= Size,
         \A k \in Stored(ev) : data[d][(tail[d] + k) % Size]
                                 = [at |-> tail[d], event |-> ev, word |-> k],
         head' = head, data' = data
  PROVE  /\ tail' \in [Rings -> Nat] /\ tail'[d] = tail[d] + ev.len
         /\ log' \in [Rings -> SUBSET [at : Nat, event : Logged]]
         /\ LogOK(d)' /\ DataOK(d)' /\ (head[d] <= tail[d])' /\ Boundary(d, head[d])'
         /\ \A q \in Rings \ {d} : tail'[q] = tail[q] /\ log'[q] = log[q]
<1>1. WriterTypes /\ RingOK(d) /\ tail[d] \in Nat /\ head[d] \in Nat
  BY Distance DEF WInv
<1>2. ev.len \in Nat /\ ev.len >= 1
  BY Lens
<1> DEFINE new == [at |-> tail[d], event |-> ev]
<1>3. new \in [at : Nat, event : Logged] /\ new.at = tail[d] /\ new.event = ev
  BY <1>1
<1>4. /\ tail' = [tail EXCEPT ![d] = tail[d] + ev.len]
      /\ log' = [log EXCEPT ![d] = log[d] \cup {new}]
  BY DEF StoreTail
<1> HIDE DEF new
<1>5. /\ tail' \in [Rings -> Nat] /\ tail'[d] = tail[d] + ev.len
      /\ log' \in [Rings -> SUBSET [at : Nat, event : Logged]]
      /\ log'[d] = log[d] \cup {new}
      /\ \A q \in Rings \ {d} : tail'[q] = tail[q] /\ log'[q] = log[q]
  BY <1>1, <1>2, <1>3, <1>4 DEF WriterTypes
<1>6. \A e \in log[d] : /\ e.at \in Nat /\ e.event.len \in Nat /\ e.event.len >= 1
                        /\ End(e) <= tail[d] /\ e.at < tail[d]
  BY <1>1, Lens DEF WriterTypes, RingOK, LogOK, End
<1>7. End(new) = tail[d] + ev.len /\ End(new) \in Nat
  BY <1>1, <1>2, <1>3 DEF End
<1>8. LogOK(d)'
  <2>1. \A e \in log'[d] : End(e) <= tail'[d] /\ (e.at % Size) + e.event.len <= Size
    <3>1. \A e \in log[d] : End(e) <= tail'[d] /\ (e.at % Size) + e.event.len <= Size
      BY <1>1, <1>2, <1>5, <1>6 DEF RingOK, LogOK, End
    <3>2. End(new) <= tail'[d] /\ (new.at % Size) + new.event.len <= Size
      BY <1>3, <1>5, <1>7
    <3> QED
      BY <1>5, <3>1, <3>2
  <2>2. ASSUME NEW e \in log'[d], NEW f \in log'[d]
        PROVE  (e.at < f.at => End(e) <= f.at) /\ (e.at = f.at => e = f)
    <3>1. CASE e \in log[d] /\ f \in log[d]
      BY <1>1, <3>1 DEF RingOK, LogOK
    <3>2. CASE e \in log[d] /\ f = new
      BY <1>3, <1>6, <3>2
    <3>3. CASE e = new /\ f \in log[d]
      BY <1>1, <1>3, <1>6, <3>3
    <3> QED
      BY <1>1, <1>3, <1>5, <2>2, <3>1, <3>2, <3>3
  <2>3. ASSUME NEW p \in 0..tail'[d] - 1
        PROVE  \E e \in log'[d] : e.at <= p /\ p < End(e)
    <3>1. CASE p < tail[d]
      BY <1>1, <1>5, <2>3, <3>1 DEF RingOK, LogOK
    <3>2. CASE p >= tail[d]
      BY <1>1, <1>2, <1>3, <1>5, <1>7, <2>3, <3>2
    <3> QED
      BY <1>1, <2>3, <3>1, <3>2
  <2> QED
    BY <2>1, <2>2, <2>3 DEF LogOK, End
<1>9. DataOK(d)'
  <2>1. ASSUME NEW e \in log'[d], e.at >= head[d], NEW k \in Stored(e.event)
        PROVE  data[d][(e.at + k) % Size] = [at |-> e.at, event |-> e.event, word |-> k]
    <3>1. CASE e \in log[d]
      BY <1>1, <2>1, <3>1 DEF RingOK, DataOK
    <3>2. CASE e = new
      BY <1>3, <2>1, <3>2
    <3> QED
      BY <1>5, <2>1, <3>1, <3>2
  <2> QED
    BY <2>1 DEF DataOK
<1>10. (head[d] <= tail[d])'
  BY <1>1, <1>2, <1>5 DEF RingOK, HeadOK
<1>11. Boundary(d, head[d])'
  BY <1>1, <1>3, <1>5 DEF RingOK, HeadOK, Boundary
<1> QED
  BY <1>5, <1>8, <1>9, <1>10, <1>11

LEMMA WriterPads ==
  ASSUME WInv, NEW d \in Writers, WritePadding(d)
  PROVE  WInv'
<1>1. d \in Rings /\ RingOK(d) /\ WriterTypes
  BY RuntimeEventsAssumption DEF WInv
<1>2. w[d].pc = "head" /\ w[d].event \in Written /\ w[d].event.len \in Nat
      /\ w[d].event.len <= MaxLen /\ w[d].word = 0
  BY <1>1, Lens DEF WritePadding, WriterTypes, RingOK, ProgressOK
<1>3. tail[d] \in Nat /\ head[d] \in Nat /\ DistanceToEnd(d) \in 1..Size
      /\ head[d] <= tail[d]
  BY <1>1, Distance DEF RingOK, HeadOK
<1>4. DistanceToEnd(d) < w[d].event.len /\ DistanceToEnd(d) \in Nat
      /\ tail[d] + w[d].event.len + DistanceToEnd(d) < head[d] + Size
  BY <1>2, <1>3, Lens DEF WritePadding, Overfull, PaddingRequired
<1> DEFINE word == [at |-> tail[d], event |-> Padding(DistanceToEnd(d)), word |-> 0]
<1>5. word \in Word
  <2>1. Padding(DistanceToEnd(d)) \in Logged
    BY <1>2, <1>3, <1>4, Lens DEF Logged, Paddings
  <2> QED
    BY <1>3, <2>1 DEF Word
<1>6. data' = [data EXCEPT ![d][(tail[d] + 0) % Size] = word]
  BY DEF WritePadding, StoreWord
<1>7. w' = [w EXCEPT ![d].pc = "pad"] /\ UNCHANGED <<head, tail, log>>
  BY DEF WritePadding
<1> HIDE DEF word
<1>8. 0 \in Nat /\ tail[d] + 0 < head[d] + Size
  BY <1>2, <1>3, <1>4, Lens
<1>9. /\ data' \in [Rings -> [0..Size - 1 -> Word]]
      /\ data'[d][(tail[d] + 0) % Size] = word
      /\ \A q \in Rings \ {d} : data'[q] = data[q]
      /\ DataOK(d)'
  BY <1>1, <1>5, <1>6, <1>7, <1>8, Store
<1>10. tail[d] + 0 = tail[d]
  BY <1>3
<1>11. w'[d].pc = "pad" /\ w'[d].event = w[d].event /\ w'[d].word = 0
       /\ \A q \in Rings \ {d} : w'[q] = w[q]
  BY <1>1, <1>2, <1>7 DEF WriterTypes
<1>12. WriterTypes'
  <2>1. w' \in [Rings -> [pc : {"idle", "active", "head", "pad", "words"},
                          event : Written \cup {NoEvent}, word : Nat]]
    BY <1>1, <1>7 DEF WriterTypes
  <2>2. \A q \in Rings : w'[q].pc # "idle" => w'[q].event \in Written
    BY <1>1, <1>2, <1>11 DEF WriterTypes
  <2> QED
    BY <1>1, <1>7, <1>9, <2>1, <2>2 DEF WriterTypes
<1>13. LogOK(d)'
  BY <1>1, <1>7 DEF RingOK, LogOK, End
<1>14. HeadOK(d)'
  <2>1. Needed(d)' = w[d].event.len + DistanceToEnd(d)
    BY <1>7, <1>11 DEF Needed, DistanceToEnd
  <2>2. (tail[d] + Needed(d) < head[d] + Size)'
    BY <1>2, <1>3, <1>4, <1>7, <2>1, Lens
  <2>3. (head[d] <= tail[d])' /\ Boundary(d, head[d])'
    BY <1>1, <1>7 DEF RingOK, HeadOK, Boundary
  <2> QED
    BY <2>2, <2>3 DEF HeadOK
<1>15. ProgressOK(d)'
  <2>1. DistanceToEnd(d)' = DistanceToEnd(d)
    BY <1>7 DEF DistanceToEnd
  <2>2. data'[d][tail'[d] % Size]
          = [at |-> tail'[d], event |-> Padding(DistanceToEnd(d)'), word |-> 0]
    BY <1>7, <1>9, <1>10, <2>1 DEF word
  <2> QED
    BY <1>4, <1>11, <2>1, <2>2 DEF ProgressOK
<1>16. RingOK(d)'
  BY <1>9, <1>13, <1>14, <1>15 DEF RingOK
<1> QED
  BY <1>1, <1>7, <1>9, <1>11, <1>12, <1>16, OneRing

\* The padding that is about to be published.
LEMMA PaddingLogged ==
  ASSUME WInv, NEW d \in Rings, w[d].pc = "pad"
  PROVE  Padding(DistanceToEnd(d)) \in Paddings /\ DistanceToEnd(d) \in Nat
<1>1. RingOK(d) /\ WriterTypes /\ DistanceToEnd(d) \in 1..Size
  BY Distance DEF WInv
<1>2. w[d].event.len \in Nat /\ w[d].event.len <= MaxLen
  BY <1>1, Lens DEF WriterTypes
<1>3. DistanceToEnd(d) < w[d].event.len
  BY <1>1 DEF RingOK, ProgressOK
<1> QED
  BY <1>1, <1>2, <1>3, Lens DEF Paddings

LEMMA WriterPublishesPadding ==
  ASSUME WInv, NEW d \in Writers, PublishPadding(d)
  PROVE  WInv'
<1>1. d \in Rings /\ RingOK(d) /\ WriterTypes
  BY RuntimeEventsAssumption DEF WInv
<1>2. w[d].pc = "pad" /\ w[d].event \in Written /\ w[d].event.len \in Nat
      /\ w[d].event.len <= MaxLen /\ w[d].word = 0
  BY <1>1, Lens DEF PublishPadding, WriterTypes, RingOK, ProgressOK
<1>3. tail[d] \in Nat /\ head[d] \in Nat /\ tail[d] % Size \in 0..Size - 1
  BY <1>1, Distance
<1> DEFINE n == DistanceToEnd(d)
<1>4. n = Size - (tail[d] % Size) /\ n \in Nat
  BY <1>3, Lens DEF DistanceToEnd
<1>5. /\ data[d][tail[d] % Size] = [at |-> tail[d], event |-> Padding(n), word |-> 0]
      /\ tail[d] + (w[d].event.len + n) < head[d] + Size
  BY <1>1, <1>2 DEF RingOK, ProgressOK, HeadOK, Needed
<1>6. /\ StoreTail(d, Padding(n))
      /\ w' = [w EXCEPT ![d].pc = "words"]
      /\ UNCHANGED <<head, data>>
  BY DEF PublishPadding
<1>7. Padding(n) \in Logged
  BY <1>1, <1>2, PaddingLogged DEF Logged
<1> HIDE DEF n
<1>8. Padding(n).len = n /\ (tail[d] % Size) + Padding(n).len <= Size
  BY <1>3, <1>4, Lens
<1>9. \A k \in Stored(Padding(n)) :
        data[d][(tail[d] + k) % Size] = [at |-> tail[d], event |-> Padding(n), word |-> k]
  <2>1. Stored(Padding(n)) = {0}
    BY <1>4, Lens DEF Stored
  <2>2. tail[d] + 0 = tail[d]
    BY <1>3
  <2> QED
    BY <1>5, <2>1, <2>2
<1>10. /\ tail' \in [Rings -> Nat] /\ tail'[d] = tail[d] + n
       /\ log' \in [Rings -> SUBSET [at : Nat, event : Logged]]
       /\ LogOK(d)' /\ DataOK(d)' /\ (head[d] <= tail[d])' /\ Boundary(d, head[d])'
       /\ \A q \in Rings \ {d} : tail'[q] = tail[q] /\ log'[q] = log[q]
  BY <1>1, <1>6, <1>7, <1>8, <1>9, Publish
<1>11. w'[d].pc = "words" /\ w'[d].event = w[d].event /\ w'[d].word = 0
       /\ \A q \in Rings \ {d} : w'[q] = w[q]
  BY <1>1, <1>2, <1>6 DEF WriterTypes
<1>12. WriterTypes'
  <2>1. w' \in [Rings -> [pc : {"idle", "active", "head", "pad", "words"},
                          event : Written \cup {NoEvent}, word : Nat]]
    BY <1>1, <1>6 DEF WriterTypes
  <2>2. \A q \in Rings : w'[q].pc # "idle" => w'[q].event \in Written
    BY <1>1, <1>2, <1>11 DEF WriterTypes
  <2> QED
    BY <1>1, <1>6, <1>10, <2>1, <2>2 DEF WriterTypes
<1>13. HeadOK(d)'
  <2>1. Needed(d)' = w[d].event.len
    BY <1>11 DEF Needed
  <2>2. (tail[d] + Needed(d) < head[d] + Size)'
    BY <1>2, <1>3, <1>4, <1>5, <1>6, <1>10, <2>1, Lens
  <2> QED
    BY <1>10, <2>2 DEF HeadOK
<1>14. ProgressOK(d)'
  <2>1. tail'[d] % Size = 0
    BY <1>3, <1>4, <1>10, Lens, ModEnd
  <2>2. (tail'[d] % Size) + w[d].event.len <= Size
    BY <1>2, <2>1, Lens
  <2>3. w'[d].word <= w'[d].event.len
    BY <1>2, <1>11
  <2>4. \A k \in 0..w'[d].word - 1 : FALSE
    BY <1>11
  <2> QED
    BY <1>11, <2>2, <2>3, <2>4 DEF ProgressOK
<1>15. RingOK(d)'
  BY <1>10, <1>13, <1>14 DEF RingOK
<1> QED
  BY <1>1, <1>6, <1>10, <1>11, <1>12, <1>15, OneRing

\* The next word of an event for which there is room.
LEMMA WriterStores ==
  ASSUME WInv, NEW d \in Rings, w[d].pc \in {"head", "words"},
         w[d].word < w[d].event.len,
         (tail[d] % Size) + w[d].event.len <= Size,
         tail[d] + w[d].event.len < head[d] + Size,
         \A k \in 0..w[d].word - 1 :
           data[d][(tail[d] + k) % Size] = [at |-> tail[d], event |-> w[d].event, word |-> k],
         StoreWord(d, tail[d], w[d].event, w[d].word),
         w' \in [Rings -> [pc : {"idle", "active", "head", "pad", "words"},
                           event : Written \cup {NoEvent}, word : Nat]],
         w'[d].pc = "words", w'[d].event = w[d].event, w'[d].word = w[d].word + 1,
         \A q \in Rings \ {d} : w'[q] = w[q],
         UNCHANGED <<head, tail, log>>
  PROVE  WInv'
<1>1. RingOK(d) /\ WriterTypes /\ tail[d] \in Nat /\ head[d] \in Nat
  BY Distance DEF WInv
<1>2. w[d].event \in Written /\ w[d].event.len \in Nat /\ w[d].word \in Nat
      /\ w[d].event.len <= MaxLen
  BY <1>1, Lens DEF WriterTypes
<1> DEFINE n == w[d].word
           word == [at |-> tail[d], event |-> w[d].event, word |-> n]
<1>3. word \in Word
  BY <1>1, <1>2 DEF Word, Logged
<1>4. n \in Nat /\ tail[d] + n < head[d] + Size
  BY <1>1, <1>2, Lens
<1>5. data' = [data EXCEPT ![d][(tail[d] + n) % Size] = word]
  BY DEF StoreWord
<1>6. w'[d].pc = "words" /\ w'[d].event = w[d].event /\ w'[d].word = n + 1
  OBVIOUS
<1> HIDE DEF word
<1>7. /\ data' \in [Rings -> [0..Size - 1 -> Word]]
      /\ data'[d][(tail[d] + n) % Size] = word
      /\ \A p \in Nat : p < tail[d] + n /\ tail[d] + n < p + Size
           => data'[d][p % Size] = data[d][p % Size]
      /\ \A q \in Rings \ {d} : data'[q] = data[q]
      /\ DataOK(d)'
  BY <1>3, <1>4, <1>5, Store
<1>8. WriterTypes'
  <2>1. \A q \in Rings : w'[q].pc # "idle" => w'[q].event \in Written
    BY <1>1, <1>2, <1>6 DEF WriterTypes
  <2> QED
    BY <1>1, <1>7, <2>1 DEF WriterTypes
<1>9. LogOK(d)'
  BY <1>1 DEF RingOK, LogOK, End
<1>10. HeadOK(d)'
  <2>1. Needed(d)' = w[d].event.len
    BY <1>6 DEF Needed
  <2>2. (head[d] <= tail[d])' /\ Boundary(d, head[d])'
    BY <1>1 DEF RingOK, HeadOK, Boundary
  <2> QED
    BY <2>1, <2>2 DEF HeadOK
<1>11. ProgressOK(d)'
  <2>1. ASSUME NEW k \in 0..n
        PROVE  data'[d][(tail[d] + k) % Size]
                 = [at |-> tail[d], event |-> w[d].event, word |-> k]
    <3>1. CASE k = n
      BY <1>7, <3>1 DEF word
    <3>2. CASE k < n
      <4>1. tail[d] + k \in Nat /\ tail[d] + k < tail[d] + n
            /\ tail[d] + n < (tail[d] + k) + Size
        BY <1>1, <1>2, <2>1, <3>2, Lens
      <4>2. k \in 0..n - 1
        BY <1>4, <2>1, <3>2
      <4>3. data'[d][(tail[d] + k) % Size] = data[d][(tail[d] + k) % Size]
        BY <1>7, <4>1
      <4> QED
        BY <4>2, <4>3
    <3> QED
      BY <1>4, <2>1, <3>1, <3>2
  <2>2. n + 1 <= w[d].event.len /\ (n + 1) - 1 = n
    BY <1>2
  <2> QED
    BY <1>6, <2>1, <2>2 DEF ProgressOK
<1>12. RingOK(d)'
  BY <1>7, <1>9, <1>10, <1>11 DEF RingOK
<1> QED
  BY <1>7, <1>8, <1>12, OneRing

LEMMA WriterStoresFirst ==
  ASSUME WInv, NEW d \in Writers, NoPadding(d)
  PROVE  WInv'
<1>1. d \in Rings /\ RingOK(d) /\ WriterTypes
  BY RuntimeEventsAssumption DEF WInv
<1>2. w[d].pc = "head" /\ w[d].event.len \in Nat /\ w[d].event.len >= 2 /\ w[d].word = 0
  BY <1>1, Lens DEF NoPadding, WriterTypes, RingOK, ProgressOK
<1>3. tail[d] \in Nat /\ head[d] \in Nat /\ tail[d] % Size \in 0..Size - 1
      /\ DistanceToEnd(d) \in 1..Size
  BY <1>1, Distance
<1>4. ~(DistanceToEnd(d) < w[d].event.len) /\ PaddingRequired(d) = 0
  BY <1>2, <1>3 DEF NoPadding, PaddingRequired
<1>5. (tail[d] % Size) + w[d].event.len <= Size
  BY <1>2, <1>3, <1>4, Lens DEF DistanceToEnd
<1>6. tail[d] + w[d].event.len < head[d] + Size
  BY <1>2, <1>3, <1>4, Lens DEF NoPadding, Overfull
<1>7. /\ w' \in [Rings -> [pc : {"idle", "active", "head", "pad", "words"},
                           event : Written \cup {NoEvent}, word : Nat]]
      /\ w'[d].pc = "words" /\ w'[d].event = w[d].event /\ w'[d].word = w[d].word + 1
      /\ \A q \in Rings \ {d} : w'[q] = w[q]
  <2> DEFINE W == [pc : {"idle", "active", "head", "pad", "words"},
                   event : Written \cup {NoEvent}, word : Nat]
             u == [[w[d] EXCEPT !.pc = "words"] EXCEPT !.word = 1]
  <2>1. w \in [Rings -> W] /\ w[d] \in W
    BY <1>1 DEF WriterTypes
  <2>2. u \in W /\ u.pc = "words" /\ u.event = w[d].event /\ u.word = 1
    BY <2>1
  <2>3. w' = [w EXCEPT ![d] = u]
    BY <1>1, <2>1 DEF NoPadding
  <2> HIDE DEF W, u
  <2>4. w' \in [Rings -> W] /\ w'[d] = u /\ \A q \in Rings \ {d} : w'[q] = w[q]
    BY <1>1, <2>1, <2>2, <2>3
  <2> QED
    BY <1>2, <2>2, <2>4 DEF W
<1>8. StoreWord(d, tail[d], w[d].event, w[d].word) /\ UNCHANGED <<head, tail, log>>
  BY <1>2 DEF NoPadding
<1>9. \A k \in 0..w[d].word - 1 : FALSE
  BY <1>2
<1> QED
  BY <1>1, <1>2, <1>5, <1>6, <1>7, <1>8, <1>9, WriterStores

LEMMA WriterStoresNext ==
  ASSUME WInv, NEW d \in Writers, WriteWord(d)
  PROVE  WInv'
<1>1. d \in Rings /\ RingOK(d) /\ WriterTypes
  BY RuntimeEventsAssumption DEF WInv
<1>2. w[d].pc = "words" /\ w[d].word < w[d].event.len
  BY DEF WriteWord
<1>3. /\ w' \in [Rings -> [pc : {"idle", "active", "head", "pad", "words"},
                           event : Written \cup {NoEvent}, word : Nat]]
      /\ w'[d].pc = "words" /\ w'[d].event = w[d].event /\ w'[d].word = w[d].word + 1
      /\ \A q \in Rings \ {d} : w'[q] = w[q]
  <2> DEFINE W == [pc : {"idle", "active", "head", "pad", "words"},
                   event : Written \cup {NoEvent}, word : Nat]
             u == [w[d] EXCEPT !.word = w[d].word + 1]
  <2>1. w \in [Rings -> W] /\ w[d] \in W
    BY <1>1 DEF WriterTypes
  <2>2. u \in W /\ u.pc = "words" /\ u.event = w[d].event /\ u.word = w[d].word + 1
    BY <1>2, <2>1
  <2>3. w' = [w EXCEPT ![d] = u]
    BY <1>1, <2>1 DEF WriteWord
  <2> HIDE DEF W, u
  <2>4. w' \in [Rings -> W] /\ w'[d] = u /\ \A q \in Rings \ {d} : w'[q] = w[q]
    BY <1>1, <2>1, <2>2, <2>3
  <2> QED
    BY <2>2, <2>4 DEF W
<1>4. StoreWord(d, tail[d], w[d].event, w[d].word) /\ UNCHANGED <<head, tail, log>>
  BY DEF WriteWord
<1>5. tail[d] + w[d].event.len < head[d] + Size
  BY <1>1, <1>2 DEF RingOK, HeadOK, Needed
<1>6. /\ (tail[d] % Size) + w[d].event.len <= Size
      /\ \A k \in 0..w[d].word - 1 :
           data[d][(tail[d] + k) % Size] = [at |-> tail[d], event |-> w[d].event, word |-> k]
  BY <1>1, <1>2 DEF RingOK, ProgressOK
<1> QED
  BY <1>1, <1>2, <1>3, <1>4, <1>5, <1>6, WriterStores

LEMMA WriterPublishes ==
  ASSUME WInv, NEW d \in Writers, PublishEvent(d)
  PROVE  WInv'
<1>1. d \in Rings /\ RingOK(d) /\ WriterTypes
  BY RuntimeEventsAssumption DEF WInv
<1> DEFINE ev == w[d].event
<1>2. w[d].pc = "words" /\ w[d].word = ev.len /\ ev \in Written /\ ev \in Logged
      /\ ev.len \in Nat /\ ev.len >= 2
  BY <1>1, Lens DEF PublishEvent, WriterTypes, Logged
<1>3. tail[d] \in Nat /\ head[d] \in Nat
  BY <1>1, Distance
<1>4. tail[d] + ev.len < head[d] + Size
  BY <1>1, <1>2 DEF RingOK, HeadOK, Needed
<1>5. /\ (tail[d] % Size) + ev.len <= Size
      /\ \A k \in 0..ev.len - 1 :
           data[d][(tail[d] + k) % Size] = [at |-> tail[d], event |-> ev, word |-> k]
  BY <1>1, <1>2 DEF RingOK, ProgressOK
<1>6. StoreTail(d, ev) /\ UNCHANGED <<head, data>>
      /\ w' = [w EXCEPT ![d] = [pc |-> "idle", event |-> NoEvent, word |-> 0]]
  BY DEF PublishEvent
<1>7. Stored(ev) \subseteq 0..ev.len - 1
  BY <1>2 DEF Stored
<1>8. /\ tail' \in [Rings -> Nat] /\ tail'[d] = tail[d] + ev.len
      /\ log' \in [Rings -> SUBSET [at : Nat, event : Logged]]
      /\ LogOK(d)' /\ DataOK(d)' /\ (head[d] <= tail[d])' /\ Boundary(d, head[d])'
      /\ \A q \in Rings \ {d} : tail'[q] = tail[q] /\ log'[q] = log[q]
  BY <1>1, <1>2, <1>5, <1>6, <1>7, Publish
<1>9. w'[d] = [pc |-> "idle", event |-> NoEvent, word |-> 0]
      /\ \A q \in Rings \ {d} : w'[q] = w[q]
  BY <1>1, <1>6 DEF WriterTypes
<1>10. WriterTypes'
  <2>1. w' \in [Rings -> [pc : {"idle", "active", "head", "pad", "words"},
                          event : Written \cup {NoEvent}, word : Nat]]
    BY <1>1, <1>6 DEF WriterTypes
  <2>2. \A q \in Rings : w'[q].pc # "idle" => w'[q].event \in Written
    <3>1. w'[d].pc = "idle"
      BY <1>9
    <3> QED
      BY <1>1, <1>9, <3>1 DEF WriterTypes
  <2> QED
    BY <1>1, <1>6, <1>8, <2>1, <2>2 DEF WriterTypes
<1>11. HeadOK(d)'
  <2>1. Needed(d)' = 0
    BY <1>9 DEF Needed
  <2>2. (tail[d] + Needed(d) < head[d] + Size)'
    BY <1>2, <1>3, <1>4, <1>6, <1>8, <2>1, Lens
  <2> QED
    BY <1>8, <2>2 DEF HeadOK
<1>12. ProgressOK(d)'
  BY <1>9 DEF ProgressOK
<1>13. RingOK(d)'
  BY <1>8, <1>11, <1>12 DEF RingOK
<1> QED
  BY <1>1, <1>6, <1>8, <1>9, <1>10, <1>13, OneRing

\* What a domain does, as the log sees it.
Writing(d) ==
  \/ RuntimeEvent(d) \/ caml_runtime_events_user_write(d)
  \/ caml_runtime_events_pause(d) \/ caml_runtime_events_resume(d)
  \/ RingIsActive(d) \/ write_to_ring(d)

LEMMA WriterStep ==
  ASSUME WInv, NEW d \in Writers, Writing(d)
  PROVE  /\ WInv' /\ UNCHANGED <<cursor, given>>
         /\ Log!Write(d) \/ Log!Drop(d) \/ UNCHANGED Log!vars
<1>1. d \in Rings /\ WriterTypes
  BY RuntimeEventsAssumption DEF WInv
<1>2. ASSUME NEW ev \in Written, w[d].pc = "idle", Call(d, ev),
             UNCHANGED <<head, tail, data, cursor, log, given>>
      PROVE  WInv' /\ UNCHANGED <<cursor, given>> /\ UNCHANGED Log!vars
  <2>1. w' = [w EXCEPT ![d] = [pc |-> "active", event |-> ev, word |-> 0]]
    BY <1>2 DEF Call
  <2>2. WInv'
    BY <1>2, <2>1, WriterCalls
  <2> QED
    BY <1>2, <2>2 DEF Log!vars, cursor
<1>3. CASE RuntimeEvent(d)
  BY <1>2, <1>3 DEF RuntimeEvent, Written, shared, cursor
<1>4. CASE caml_runtime_events_user_write(d)
  BY <1>2, <1>4 DEF caml_runtime_events_user_write, UserKinds, Written, shared, cursor
<1>5. CASE caml_runtime_events_pause(d)
  BY <1>2, <1>5 DEF caml_runtime_events_pause, Written, cursor
<1>6. CASE caml_runtime_events_resume(d)
  BY <1>2, <1>6 DEF caml_runtime_events_resume, Written, cursor
<1>7. CASE RingIsActive(d)
  <2> DEFINE pc == IF paused THEN "idle" ELSE "head"
  <2>1. w[d].pc = "active" /\ w[d].word = 0 /\ w[d].event \in Written
    BY <1>1, <1>7 DEF RingIsActive, WInv, WriterTypes, RingOK, ProgressOK
  <2>2. w[d] = [pc |-> "active", event |-> w[d].event, word |-> 0]
    BY <1>1, <2>1 DEF WriterTypes
  <2>3. w' = [w EXCEPT ![d] = [pc |-> pc, event |-> w[d].event, word |-> 0]]
    <3>1. w' = [w EXCEPT ![d] = [w[d] EXCEPT !.pc = pc]]
      BY <1>1, <1>7 DEF RingIsActive, WriterTypes
    <3>2. [w[d] EXCEPT !.pc = pc] = [pc |-> pc, event |-> w[d].event, word |-> 0]
      <4> DEFINE ev == w[d].event
      <4>1. w[d] = [pc |-> "active", event |-> ev, word |-> 0]
        BY <2>2
      <4> HIDE DEF ev, pc
      <4>2. [[pc |-> "active", event |-> ev, word |-> 0] EXCEPT !.pc = pc]
              = [pc |-> pc, event |-> ev, word |-> 0]
        OBVIOUS
      <4> QED
        BY <4>1, <4>2 DEF ev
    <3> QED
      BY <3>1, <3>2
  <2>4. UNCHANGED <<head, tail, data, log, cursor, given>>
    BY <1>7 DEF RingIsActive, shared, cursor
  <2>5. WInv'
    BY <2>1, <2>3, <2>4, WriterCalls
  <2> QED
    BY <2>4, <2>5 DEF Log!vars, cursor
<1>8. CASE AdvanceHead(d)
  <2>1. UNCHANGED <<tail, log, pos, given, cursor>>
    BY <1>8 DEF AdvanceHead, cursor
  <2>2. WInv' /\ \E e \in log[d] : e.at = head[d] /\ head' = [head EXCEPT ![d] = End(e)]
    BY <1>8, WriterAdvances
  <2>3. Log!Drop(d)
    BY <2>1, <2>2 DEF Log!Drop, End
  <2> QED
    BY <2>1, <2>2, <2>3
<1>9. CASE WritePadding(d)
  BY <1>9, WriterPads DEF WritePadding, cursor, Log!vars
<1>10. CASE PublishPadding(d)
  <2>1. Padding(DistanceToEnd(d)) \in Paddings
    BY <1>1, <1>10, PaddingLogged DEF PublishPadding
  <2>2. StoreTail(d, Padding(DistanceToEnd(d))) /\ UNCHANGED <<head, pos, given, cursor>>
    BY <1>10 DEF PublishPadding, cursor
  <2>3. Log!Write(d)
    BY <2>1, <2>2 DEF Log!Write, StoreTail, Paddings
  <2> QED
    BY <1>10, <2>2, <2>3, WriterPublishesPadding
<1>11. CASE NoPadding(d)
  BY <1>11, WriterStoresFirst DEF NoPadding, cursor, Log!vars
<1>12. CASE WriteWord(d)
  BY <1>12, WriterStoresNext DEF WriteWord, cursor, Log!vars
<1>13. CASE PublishEvent(d)
  <2>1. w[d].event \in Written
    BY <1>1, <1>13 DEF PublishEvent, WriterTypes
  <2>2. StoreTail(d, w[d].event) /\ UNCHANGED <<head, pos, given, cursor>>
    BY <1>13 DEF PublishEvent, cursor
  <2>3. Log!Write(d)
    BY <2>1, <2>2 DEF Log!Write, StoreTail
  <2> QED
    BY <1>13, <2>2, <2>3, WriterPublishes
<1> QED
  BY <1>3, <1>4, <1>5, <1>6, <1>7, <1>8, <1>9, <1>10, <1>11, <1>12, <1>13
  DEF Writing, write_to_ring

--------------------------------------------------------------------------------
(* The cursor.                                                             *)

\* What other steps may do to the rings under the cursor.
Grows ==
  \A q \in Rings :
    /\ head[q] <= head'[q] /\ tail[q] <= tail'[q] /\ log[q] \subseteq log'[q]
    /\ tail'[q] = tail[q] \/ \E e \in log'[q] : e.at = tail[q]

LEMMA RingsGrow ==
  ASSUME WInv, NEW d \in Rings, Log!Write(d) \/ Log!Drop(d) \/ UNCHANGED Log!vars
  PROVE  Grows
<1>1. head \in [Rings -> Nat] /\ tail \in [Rings -> Nat]
      /\ log \in [Rings -> SUBSET [at : Nat, event : Logged]]
  BY DEF WInv, WriterTypes
<1>2. CASE Log!Write(d)
  <2>1. PICK ev \in Logged :
          /\ log' = [log EXCEPT ![d] = @ \cup {[at |-> tail[d], event |-> ev]}]
          /\ tail' = [tail EXCEPT ![d] = @ + ev.len]
    BY <1>2 DEF Log!Write, Logged, Paddings
  <2>2. head' = head
    BY <1>2 DEF Log!Write
  <2>3. ev.len \in Nat
    BY Lens
  <2>4. [at |-> tail[d], event |-> ev] \in log'[d] /\ log[d] \subseteq log'[d]
        /\ tail'[d] = tail[d] + ev.len
    BY <1>1, <2>1
  <2>5. [at |-> tail[d], event |-> ev].at = tail[d]
    OBVIOUS
  <2>6. tail[d] <= tail'[d]
    BY <1>1, <2>3, <2>4
  <2>7. \A q \in Rings \ {d} : tail'[q] = tail[q] /\ log'[q] = log[q]
    BY <1>1, <2>1
  <2>8. \A q \in Rings : tail[q] \in Nat /\ head[q] \in Nat
    BY <1>1
  <2> QED
    BY <2>2, <2>4, <2>5, <2>6, <2>7, <2>8 DEF Grows
<1>3. CASE Log!Drop(d)
  <2>1. PICK e \in log[d] : e.at = head[d] /\ head' = [head EXCEPT ![d] = e.at + e.event.len]
    BY <1>3 DEF Log!Drop
  <2>2. tail' = tail /\ log' = log
    BY <1>3 DEF Log!Drop
  <2>3. e.event.len \in Nat
    BY <1>1, Lens
  <2>4. \A q \in Rings : tail[q] \in Nat /\ head[q] \in Nat
    BY <1>1
  <2>5. head[d] <= head'[d] /\ \A q \in Rings \ {d} : head'[q] = head[q]
    BY <1>1, <2>1, <2>3
  <2> QED
    BY <2>2, <2>4, <2>5 DEF Grows
<1>4. CASE UNCHANGED Log!vars
  BY <1>1, <1>4 DEF Log!vars, Grows
<1> QED
  BY <1>2, <1>3, <1>4

LEMMA DomainIsRing ==
  ASSUME CursorTypes, r.pc # "idle"
  PROVE  r \in Polling /\ Domain \in Rings /\ Here \in Nat
<1>1. r \in Polling
  BY DEF CursorTypes
<1>2. r.start + r.i \in Nat /\ max_domains \in Nat \ {0}
  BY <1>1, RuntimeEventsAssumption DEF Polling, Rings
<1>3. Domain \in 0..max_domains - 1
  BY <1>2, ModRange DEF Domain
<1> QED
  BY <1>1, <1>3 DEF Rings, Here, CursorTypes

LEMMA ReaderFrame ==
  ASSUME WInv, RInv, Grows, UNCHANGED cursor, WInv'
  PROVE  RInv'
<1>1. UNCHANGED <<pos, next_read_domain, r>> /\ CursorTypes
  BY DEF cursor, RInv
<1>2. \A q \in Rings : /\ head[q] \in Nat /\ tail[q] \in Nat
                       /\ head'[q] \in Nat /\ tail'[q] \in Nat
  BY DEF WInv, WriterTypes
<1>3. ASSUME NEW q \in Rings, NEW p, Boundary(q, p)
      PROVE  Boundary(q, p)'
  BY <1>3 DEF Grows, Boundary
<1>4. CursorTypes'
  BY <1>1 DEF CursorTypes
<1>5. PosInv'
  <2>1. ASSUME NEW q \in Rings PROVE pos[q] <= tail'[q] /\ Boundary(q, pos[q])'
    <3>1. Boundary(q, pos[q]) /\ pos[q] <= tail[q] /\ pos[q] \in Nat /\ tail[q] <= tail'[q]
      BY <1>1 DEF RInv, PosInv, CursorTypes, Grows
    <3> DEFINE p == pos[q]
    <3>2. Boundary(q, p)'
      BY <1>1, <1>3, <3>1 DEF Boundary
    <3> QED
      BY <1>2, <3>1, <3>2
  <2> QED
    BY <1>1, <2>1 DEF PosInv
<1>6. Domain' = Domain /\ Here' = Here /\ Passed' = Passed
  BY <1>1 DEF Domain, Here, Passed
<1>7. CASE r.pc = "idle"
  BY <1>1, <1>4, <1>5, <1>7 DEF RInv, LoadInv, DrainInv
<1>8. CASE r.pc # "idle"
  <2>1. r \in Polling /\ Domain \in Rings /\ Here \in Nat
    BY <1>1, <1>8, DomainIsRing
  <2>2. r.ring_head \in Nat /\ r.ring_tail \in Nat /\ r.tails \in [Rings -> Nat]
    BY <2>1 DEF Polling
  <2> DEFINE q == Domain
  <2>3. /\ head[q] \in Nat /\ tail[q] \in Nat /\ head'[q] \in Nat /\ tail'[q] \in Nat
        /\ head[q] <= head'[q] /\ tail[q] <= tail'[q] /\ log[q] \subseteq log'[q]
    BY <1>2, <2>1 DEF Grows
  <2>4. \A e : CopyOf(e) => CopyOf(e)'
    BY <1>1 DEF CopyOf
  <2>5. Copied' <=> Copied
    BY <1>1 DEF Copied
  <2>6. LoadInv'
    <3>1. r.pc = "tail" => r.ring_head <= head'[q] /\ Boundary(q, r.ring_head)'
      <4> SUFFICES ASSUME r.pc = "tail" PROVE r.ring_head <= head'[q] /\ Boundary(q, r.ring_head)'
        OBVIOUS
      <4>1. r.ring_head <= head[q] /\ Boundary(q, r.ring_head)
        BY DEF RInv, LoadInv
      <4> DEFINE p == r.ring_head
      <4>2. p <= head'[q]
        BY <2>2, <2>3, <4>1
      <4>3. p = tail'[q] \/ \E e \in log'[q] : e.at = p
        BY <2>1, <4>1 DEF Boundary, Grows
      <4> QED
        BY <1>1, <1>6, <4>2, <4>3 DEF Boundary
    <3>2. r.pc \in {"header", "copy", "callback"} => Here < r.ring_tail /\ r.ring_tail <= tail'[q]
      BY <2>1, <2>2, <2>3 DEF RInv, LoadInv
    <3>3. r.pc = "copy" /\ head'[q] <= Here => \E e \in log'[q] : e.at = Here /\ CopyOf(e)'
      BY <2>1, <2>3, <2>4 DEF RInv, LoadInv
    <3>4. r.pc = "callback" => \E e \in log'[q] : e.at = Here /\ CopyOf(e)' /\ Copied'
      BY <2>1, <2>3, <2>4, <2>5 DEF RInv, LoadInv
    <3> QED
      BY <1>1, <1>6, <3>1, <3>2, <3>3, <3>4 DEF LoadInv, Boundary
  <2>7. DrainInv'
    <3>1. \A d \in Rings : r.tails[d] <= tail'[d]
      <4>1. ASSUME NEW d \in Rings PROVE r.tails[d] <= tail'[d]
        <5>1. r.tails[d] <= tail[d] /\ tail[d] <= tail'[d] /\ r.tails[d] \in Nat
          BY <1>8, <2>2 DEF RInv, DrainInv, Grows
        <5> QED
          BY <1>2, <5>1
      <4> QED
        BY <4>1
    <3> QED
      BY <1>1, <1>6, <1>8, <3>1 DEF RInv, DrainInv
  <2> QED
    BY <1>4, <1>5, <2>6, <2>7 DEF RInv
<1> QED
  BY <1>7, <1>8

\* Before a boundary an event ends.
LEMMA BoundaryIsEnd ==
  ASSUME WInv, NEW q \in Rings, NEW p \in Nat, 0 < p, p <= tail[q], Boundary(q, p)
  PROVE  \E e \in log[q] : End(e) = p
<1>1. WriterTypes /\ LogOK(q) /\ tail[q] \in Nat
  BY Distance DEF WInv, RingOK
<1>2. \A f \in log[q] : f.at \in Nat /\ End(f) \in Nat /\ f.at < End(f) /\ End(f) <= tail[q]
  BY <1>1, EndIsBoundary DEF WriterTypes
<1>3. p - 1 \in 0..tail[q] - 1
  BY <1>1
<1>4. PICK e \in log[q] : e.at <= p - 1 /\ p - 1 < End(e)
  BY <1>1, <1>3 DEF LogOK
<1>5. e.at < p /\ p <= End(e)
  BY <1>2, <1>4
<1>6. CASE p = tail[q]
  BY <1>2, <1>5, <1>6
<1>7. CASE \E f \in log[q] : f.at = p
  BY <1>1, <1>2, <1>5, <1>7 DEF LogOK
<1> QED
  BY <1>6, <1>7 DEF Boundary

\* A step of the cursor leaves the rings alone.
LEMMA ReaderLeaves ==
  ASSUME WInv, UNCHANGED <<shared, w, log>>
  PROVE  WInv'
<1>1. UNCHANGED <<head, tail, data, w, log>>
  BY DEF shared
<1>2. WriterTypes'
  BY <1>1 DEF WInv, WriterTypes
<1>3. \A q \in Rings : RingOK(q)'
  BY <1>1, Frame DEF WInv
<1> QED
  BY <1>2, <1>3 DEF WInv

\* Moving forward over what has been given up is a loss.
LEMMA MoveIsLoss ==
  ASSUME WInv, CursorTypes, NEW q \in Rings, NEW p \in Nat, pos[q] <= p,
         p = pos[q] \/ p <= head[q], Boundary(q, p),
         pos' = [pos EXCEPT ![q] = p], UNCHANGED <<log, tail, head, given>>
  PROVE  Log!Lose(q) \/ UNCHANGED Log!vars
<1>1. pos \in [Rings -> Nat] /\ head[q] <= tail[q] /\ head[q] \in Nat /\ tail[q] \in Nat
  BY Distance DEF CursorTypes, WInv, RingOK, HeadOK
<1>2. CASE p = pos[q]
  <2>1. pos' = pos
    BY <1>1, <1>2
  <2> QED
    BY <2>1 DEF Log!vars
<1>3. CASE p # pos[q]
  <2>1. 0 < p /\ p <= tail[q] /\ pos[q] < p /\ p <= head[q]
    BY <1>1, <1>3
  <2>2. PICK e \in log[q] : End(e) = p
    BY <2>1, BoundaryIsEnd
  <2>3. pos[q] < e.at + e.event.len /\ e.at + e.event.len <= head[q]
        /\ pos' = [pos EXCEPT ![q] = e.at + e.event.len]
    BY <2>1, <2>2 DEF End
  <2>4. Log!Lose(q)
    BY <2>3 DEF Log!Lose
  <2> QED
    BY <2>4
<1> QED
  BY <1>2, <1>3

\* The body of the loop ends at p, which is not before the event it began at.
LEMMA BodyEnds ==
  ASSUME WInv, RInv, r.pc \notin {"idle", "return"},
         NEW x \in Polling, NEW p \in Nat, NEW again \in BOOLEAN,
         x.i = r.i, x.start = r.start, x.option = r.option, x.tails = r.tails,
         Here <= p, p <= tail[Domain], Boundary(Domain, p),
         x.early_exit \/ x.ring_tail >= r.tails[Domain],
         again \/ x.early_exit \/ p >= x.ring_tail,
         EndBody(x, p, again), UNCHANGED <<shared, w, log>>
  PROVE  RInv' /\ pos' = [pos EXCEPT ![Domain] = p]
<1>1. CursorTypes /\ r \in Polling /\ Domain \in Rings /\ Here \in Nat
  BY DomainIsRing DEF RInv
<1>2. pos' = [pos EXCEPT ![Domain] = p]
  BY DEF EndBody
<1>3. UNCHANGED <<head, tail, data, w, log>>
  BY DEF shared
<1>4. max_domains \in Nat \ {0}
  BY RuntimeEventsAssumption
<1> DEFINE y == Forget(x)
<1>5. /\ y \in Polling /\ y.i = r.i /\ y.start = r.start /\ y.option = r.option
      /\ y.tails = r.tails /\ y.early_exit = x.early_exit
  <2>1. Blank \in Word
    BY DEF Blank, Word, NoEvent
  <2>2. <<>> \in Bufs
    <3>1. <<>> \in [{} -> Word]
      OBVIOUS
    <3> QED
      BY <3>1 DEF Bufs
  <2>3. NoCopy \in Copies
    BY <2>1, <2>2 DEF NoCopy, Copies
  <2> QED
    BY <2>3 DEF Forget, Polling
<1> HIDE DEF y
<1>6. \/ /\ r' = [y EXCEPT !.pc = "head"] /\ ~x.early_exit
         /\ next_read_domain' = next_read_domain
      \/ /\ next_read_domain' = (Domain + 1) % max_domains
         /\ ~(/\ again /\ ~x.early_exit /\ p < x.ring_tail
              /\ Limit(x.option) = 0 \/ x.consumed < Limit(x.option))
         /\ \/ r' = [y EXCEPT !.pc = "return"] /\ (x.early_exit \/ r.i + 1 = max_domains)
            \/ /\ r' = [y EXCEPT !.pc = "head", !.i = y.i + 1]
               /\ ~x.early_exit /\ r.i + 1 # max_domains
  BY DEF EndBody, y
<1>7. /\ r' \in Polling /\ r'.start = r.start /\ r'.option = r.option /\ r'.tails = r.tails
      /\ r'.early_exit = x.early_exit
      /\ \/ r'.pc = "head" /\ r'.i = r.i /\ ~x.early_exit
         \/ r'.pc = "return" /\ r'.i = r.i /\ (x.early_exit \/ r.i + 1 = max_domains)
         \/ r'.pc = "head" /\ r'.i = r.i + 1 /\ ~x.early_exit
  <2>1. CASE r' = [y EXCEPT !.pc = "head"] /\ ~x.early_exit
    BY <1>5, <2>1 DEF Polling
  <2>2. CASE r' = [y EXCEPT !.pc = "return"] /\ (x.early_exit \/ r.i + 1 = max_domains)
    BY <1>5, <2>2 DEF Polling
  <2>3. CASE /\ r' = [y EXCEPT !.pc = "head", !.i = y.i + 1]
             /\ ~x.early_exit /\ r.i + 1 # max_domains
    <3>1. r.i + 1 \in Rings /\ y.i + 1 = r.i + 1
      <4>1. r.i \in Rings
        BY <1>1 DEF Polling
      <4>2. r.i \in 0..max_domains - 1 /\ r.i + 1 # max_domains
        BY <2>3, <4>1 DEF Rings
      <4>3. r.i + 1 \in Rings
        BY <1>4, <4>2 DEF Rings
      <4> QED
        BY <1>5, <4>3
    <3> QED
      BY <1>5, <2>3, <3>1 DEF Polling
  <2> QED
    BY <1>6, <2>1, <2>2, <2>3
<1>8. CursorTypes'
  <2>1. Domain + 1 \in Nat
    BY <1>1 DEF Rings
  <2>2. (Domain + 1) % max_domains \in Rings
    BY <1>4, <2>1, ModRange DEF Rings
  <2>3. next_read_domain' \in Rings
    BY <1>1, <1>6, <2>2 DEF CursorTypes
  <2> QED
    BY <1>1, <1>2, <1>7, <2>3 DEF CursorTypes
<1>9. pos'[Domain] = p /\ (\A q \in Rings \ {Domain} : pos'[q] = pos[q])
      /\ \A q \in Rings : pos[q] \in Nat /\ pos'[q] \in Nat /\ pos[q] <= pos'[q]
  BY <1>1, <1>2 DEF CursorTypes, Here
<1>10. PosInv'
  <2>1. ASSUME NEW q \in Rings PROVE pos'[q] <= tail[q] /\ Boundary(q, pos'[q])
    BY <1>1, <1>9 DEF RInv, PosInv
  <2> QED
    BY <1>3, <2>1 DEF PosInv, Boundary
<1>11. LoadInv'
  BY <1>7 DEF LoadInv
<1>12. DrainInv'
  <2>1. \A q \in Rings : r'.tails[q] <= tail'[q]
    BY <1>3, <1>7 DEF RInv, DrainInv
  <2>2. r'.early_exit => r'.pc = "return"
    BY <1>7
  <2>3. ASSUME r.option = None, ~x.early_exit, NEW q \in Passed'
        PROVE  pos'[q] >= r.tails[q]
    <3>1. ~r.early_exit
      BY DEF RInv, DrainInv
    <3>2. \A u \in Passed : pos[u] >= r.tails[u]
      BY <2>3, <3>1 DEF RInv, DrainInv
    <3>3. Passed = {(r.start + j) % max_domains : j \in 0..r.i - 1}
      BY DEF Passed
    <3>4. r.start \in Rings /\ r.i \in Rings /\ r.tails \in [Rings -> Nat]
      BY <1>1 DEF Polling
    <3>5. PICK j \in 0..r.i : q = (r.start + j) % max_domains
                              /\ (r'.pc = "head" /\ r'.i = r.i => j \in 0..r.i - 1)
      <4>1. CASE r'.pc = "head" /\ r'.i = r.i
        <5>1. Passed' = {(r.start + j) % max_domains : j \in 0..r.i - 1}
          BY <1>7, <4>1 DEF Passed
        <5> QED
          BY <2>3, <3>4, <5>1 DEF Rings
      <4>2. CASE r'.pc = "return" /\ r.i + 1 = max_domains
        <5>1. Passed' = {(r.start + j) % max_domains : j \in Rings}
          BY <1>7, <4>2 DEF Passed
        <5>2. Rings = 0..r.i
          BY <1>4, <3>4, <4>2 DEF Rings
        <5> QED
          BY <2>3, <4>2, <5>1, <5>2
      <4>3. CASE r'.pc = "head" /\ r'.i = r.i + 1
        <5>1. Passed' = {(r.start + j) % max_domains : j \in 0..(r.i + 1) - 1}
          BY <1>7, <4>3 DEF Passed
        <5>2. (r.i + 1) - 1 = r.i /\ r.i + 1 # r.i
          BY <3>4 DEF Rings
        <5> QED
          BY <2>3, <4>3, <5>1, <5>2
      <4> QED
        BY <1>7, <2>3, <4>1, <4>2, <4>3
    <3>6. q \in Rings
      <4>1. r.start + j \in Nat
        BY <3>4, <3>5 DEF Rings
      <4> QED
        BY <1>4, <3>5, <4>1, ModRange DEF Rings
    <3>7. CASE j \in 0..r.i - 1
      <4>1. q \in Passed
        BY <3>3, <3>5, <3>7
      <4> QED
        BY <1>9, <3>2, <3>4, <3>6, <4>1
    <3>8. CASE j = r.i /\ ~(r'.pc = "head" /\ r'.i = r.i)
      <4>1. q = Domain
        BY <3>5, <3>8 DEF Domain
      <4>2. Limit(x.option) = 0
        BY <2>3 DEF Limit
      <4>3. ~(again /\ p < x.ring_tail)
        <5>1. ~(r' = [y EXCEPT !.pc = "head"])
          BY <1>5, <3>8 DEF Polling
        <5> QED
          BY <1>6, <2>3, <4>2, <5>1
      <4>4. p >= x.ring_tail /\ x.ring_tail \in Nat
        BY <2>3, <4>3 DEF Polling
      <4> QED
        BY <1>1, <1>9, <2>3, <3>4, <4>1, <4>4
    <3> QED
      BY <3>4, <3>5, <3>7, <3>8 DEF Rings
  <2> QED
    BY <1>7, <2>1, <2>2, <2>3 DEF DrainInv
<1> QED
  BY <1>2, <1>8, <1>10, <1>11, <1>12 DEF RInv

LEMMA ReaderPolls ==
  ASSUME WInv, RInv, Poll
  PROVE  RInv' /\ UNCHANGED Log!vars
<1>1. PICK option \in MaxOptions :
        r' = [pc |-> "head", i |-> 0, start |-> next_read_domain, option |-> option,
              consumed |-> 0, events |-> 0, early_exit |-> FALSE, tails |-> tail,
              ring_head |-> 0, ring_tail |-> 0, copy |-> NoCopy]
  BY DEF Poll
<1>2. UNCHANGED <<head, tail, log, pos, next_read_domain, given>>
  BY DEF Poll, shared
<1>3. tail \in [Rings -> Nat] /\ next_read_domain \in Rings /\ 0 \in Rings
  BY RuntimeEventsAssumption DEF WInv, WriterTypes, RInv, CursorTypes, Rings
<1>4. NoCopy \in Copies
  <2>1. Blank \in Word
    BY DEF Blank, Word, NoEvent
  <2>2. <<>> \in [{} -> Word]
    OBVIOUS
  <2>3. <<>> \in Bufs
    BY <2>2 DEF Bufs
  <2> QED
    BY <2>1, <2>3 DEF NoCopy, Copies
<1>5. r' \in Polling
  BY <1>1, <1>3, <1>4 DEF Polling
<1>6. r'.pc = "head" /\ r'.i = 0 /\ ~r'.early_exit /\ r'.tails = tail
  BY <1>1
<1>7. CursorTypes'
  BY <1>2, <1>5 DEF RInv, CursorTypes
<1>8. PosInv'
  BY <1>2 DEF RInv, PosInv, Boundary
<1>9. LoadInv'
  BY <1>6 DEF LoadInv
<1>10. DrainInv'
  <2>1. \A d \in Rings : r'.tails[d] <= tail'[d]
    BY <1>2, <1>3, <1>6
  <2>2. Passed' = {}
    BY <1>6 DEF Passed
  <2> QED
    BY <1>6, <2>1, <2>2 DEF DrainInv
<1> QED
  BY <1>2, <1>7, <1>8, <1>9, <1>10 DEF RInv, Log!vars

LEMMA ReaderLoadsHead ==
  ASSUME WInv, RInv, LoadHead
  PROVE  RInv' /\ UNCHANGED Log!vars
<1>1. r' = [r EXCEPT !.pc = "tail", !.ring_head = head[Domain]] /\ r.pc = "head"
  BY DEF LoadHead
<1>2. UNCHANGED <<head, tail, log, pos, next_read_domain, given>>
  BY DEF LoadHead, shared
<1>3. r \in Polling /\ Domain \in Rings /\ CursorTypes
  BY <1>1, DomainIsRing DEF RInv
<1>4. head[Domain] \in Nat /\ Boundary(Domain, head[Domain])
  BY <1>3 DEF WInv, WriterTypes, RingOK, HeadOK
<1>5. /\ r' \in Polling /\ r'.pc = "tail" /\ r'.ring_head = head[Domain]
      /\ r'.i = r.i /\ r'.start = r.start /\ r'.tails = r.tails
      /\ r'.early_exit = r.early_exit /\ r'.option = r.option
  BY <1>1, <1>3, <1>4 DEF Polling
<1>6. Domain' = Domain
  BY <1>5 DEF Domain
<1>7. CursorTypes'
  BY <1>2, <1>3, <1>5 DEF CursorTypes
<1>8. PosInv'
  BY <1>2 DEF RInv, PosInv, Boundary
<1>9. LoadInv'
  BY <1>2, <1>4, <1>5, <1>6 DEF LoadInv, Boundary
<1>10. DrainInv'
  <2>1. Passed' = Passed
    BY <1>1, <1>5 DEF Passed
  <2> QED
    BY <1>1, <1>2, <1>5, <2>1 DEF RInv, DrainInv
<1> QED
  BY <1>2, <1>7, <1>8, <1>9, <1>10 DEF RInv, Log!vars

LEMMA ReaderLoadsTail ==
  ASSUME WInv, RInv, NEW ok \in BOOLEAN, LoadTail(ok)
  PROVE  RInv' /\ \E q \in Rings : Log!Lose(q) \/ UNCHANGED Log!vars
<1>1. r.pc = "tail"
  BY DEF LoadTail
<1>2. UNCHANGED <<shared, w, log, given>> /\ UNCHANGED <<head, tail>>
  BY DEF LoadTail, shared
<1>3. r \in Polling /\ Domain \in Rings /\ Here \in Nat /\ CursorTypes
  BY <1>1, DomainIsRing DEF RInv
<1>4. tail[Domain] \in Nat /\ head[Domain] \in Nat /\ head[Domain] <= tail[Domain]
  BY <1>3 DEF WInv, WriterTypes, RingOK, HeadOK
<1>5. r.ring_head \in Nat /\ r.ring_head <= head[Domain] /\ Boundary(Domain, r.ring_head)
  BY <1>1, <1>3 DEF RInv, LoadInv, Polling
<1>6. Here <= tail[Domain] /\ Boundary(Domain, Here)
  BY <1>3 DEF RInv, PosInv, Here
<1>7. r.tails[Domain] <= tail[Domain] /\ ~r.early_exit
  BY <1>1, <1>3 DEF RInv, DrainInv
<1> DEFINE x == [r EXCEPT !.ring_tail = tail[Domain]]
           p == IF r.ring_head > Here THEN r.ring_head ELSE Here
<1>8. /\ x \in Polling /\ x.ring_tail = tail[Domain] /\ x.early_exit = r.early_exit
      /\ x.i = r.i /\ x.start = r.start /\ x.option = r.option /\ x.tails = r.tails
      /\ x.consumed = r.consumed
  BY <1>3, <1>4 DEF Polling
<1>9. p \in Nat /\ Here <= p /\ p <= tail[Domain] /\ Boundary(Domain, p)
      /\ (p = Here \/ p <= head[Domain])
  BY <1>3, <1>4, <1>5, <1>6
<1>10. \/ ~ok /\ EndBody([x EXCEPT !.early_exit = TRUE], Here, TRUE)
       \/ ok /\ p >= x.ring_tail /\ EndBody(x, p, FALSE)
       \/ /\ ok /\ ~(p >= x.ring_tail)
          /\ pos' = [pos EXCEPT ![Domain] = p]
          /\ r' = [x EXCEPT !.pc = "header"]
          /\ next_read_domain' = next_read_domain
  BY DEF LoadTail
<1> HIDE DEF x, p
<1>11. CASE ~ok /\ EndBody([x EXCEPT !.early_exit = TRUE], Here, TRUE)
  <2> DEFINE y == [x EXCEPT !.early_exit = TRUE]
  <2>1. /\ y \in Polling /\ y.early_exit
        /\ y.i = r.i /\ y.start = r.start /\ y.option = r.option /\ y.tails = r.tails
    BY <1>8 DEF Polling
  <2> HIDE DEF y
  <2>2. EndBody(y, Here, TRUE)
    BY <1>11 DEF y
  <2>3. Here <= Here
    BY <1>3
  <2>4. RInv' /\ pos' = [pos EXCEPT ![Domain] = Here]
    BY <1>1, <1>2, <1>3, <1>6, <2>1, <2>2, <2>3, BodyEnds
  <2>5. pos[Domain] <= Here /\ Here = pos[Domain]
    BY <1>3 DEF Here
  <2>6. Log!Lose(Domain) \/ UNCHANGED Log!vars
    BY <1>2, <1>3, <1>6, <2>4, <2>5, MoveIsLoss
  <2> QED
    BY <1>3, <2>4, <2>6
<1>12. pos[Domain] <= p /\ (p = pos[Domain] \/ p <= head[Domain])
  BY <1>9 DEF Here
<1>13. CASE ok /\ p >= x.ring_tail /\ EndBody(x, p, FALSE)
  <2>1. x.ring_tail >= r.tails[Domain]
    BY <1>3, <1>4, <1>7, <1>8 DEF Polling
  <2>2. RInv' /\ pos' = [pos EXCEPT ![Domain] = p]
    BY <1>1, <1>2, <1>8, <1>9, <1>13, <2>1, BodyEnds
  <2>3. Log!Lose(Domain) \/ UNCHANGED Log!vars
    BY <1>2, <1>3, <1>9, <1>12, <2>2, MoveIsLoss
  <2> QED
    BY <1>3, <2>2, <2>3
<1>14. CASE /\ ok /\ ~(p >= x.ring_tail)
            /\ pos' = [pos EXCEPT ![Domain] = p]
            /\ r' = [x EXCEPT !.pc = "header"]
            /\ next_read_domain' = next_read_domain
  <2>1. /\ r' \in Polling /\ r'.pc = "header" /\ r'.ring_tail = tail[Domain]
        /\ r'.i = r.i /\ r'.start = r.start /\ r'.option = r.option /\ r'.tails = r.tails
        /\ r'.early_exit = r.early_exit
    BY <1>8, <1>14 DEF Polling
  <2>2. pos'[Domain] = p /\ (\A q \in Rings \ {Domain} : pos'[q] = pos[q])
        /\ \A q \in Rings : pos[q] \in Nat /\ pos'[q] \in Nat /\ pos[q] <= pos'[q]
    BY <1>3, <1>9, <1>12, <1>14 DEF CursorTypes
  <2>3. Domain' = Domain
    BY <2>1 DEF Domain
  <2>4. Here' = p
    BY <2>2, <2>3 DEF Here
  <2>5. CursorTypes'
    BY <1>3, <1>9, <1>14, <2>1 DEF CursorTypes
  <2>6. PosInv'
    <3>1. ASSUME NEW q \in Rings PROVE pos'[q] <= tail[q] /\ Boundary(q, pos'[q])
      BY <1>3, <1>9, <2>2 DEF RInv, PosInv
    <3> QED
      BY <1>2, <3>1 DEF PosInv, Boundary
  <2>7. LoadInv'
    <3>1. p < tail[Domain] /\ tail[Domain] <= tail[Domain]
      BY <1>4, <1>8, <1>9, <1>14
    <3> QED
      BY <1>2, <2>1, <2>3, <2>4, <3>1 DEF LoadInv
  <2>8. DrainInv'
    <3>1. Passed' = Passed
      BY <1>1, <2>1 DEF Passed
    <3>2. r.start \in Nat /\ r.i \in Nat /\ r.tails \in [Rings -> Nat]
      BY <1>3 DEF Polling, Rings
    <3>3. Passed \subseteq Rings
      <4>1. ASSUME NEW j \in 0..r.i - 1 PROVE (r.start + j) % max_domains \in Rings
        <5>1. r.start + j \in Nat
          BY <3>2
        <5> QED
          BY <5>1, RuntimeEventsAssumption, ModRange DEF Rings
      <4> QED
        BY <1>1, <4>1 DEF Passed
    <3>4. r.option = None => \A d \in Passed : pos'[d] >= r.tails[d]
      <4>1. ASSUME r.option = None, NEW d \in Passed PROVE pos'[d] >= r.tails[d]
        <5>1. pos[d] >= r.tails[d]
          BY <1>1, <1>7, <4>1 DEF RInv, DrainInv
        <5> QED
          BY <2>2, <3>2, <3>3, <4>1, <5>1
      <4> QED
        BY <4>1
    <3>5. \A d \in Rings : r.tails[d] <= tail'[d]
      BY <1>1, <1>2 DEF RInv, DrainInv
    <3> QED
      BY <1>7, <2>1, <2>3, <3>1, <3>4, <3>5 DEF DrainInv
  <2>9. Log!Lose(Domain) \/ UNCHANGED Log!vars
    BY <1>2, <1>3, <1>9, <1>12, <1>14, MoveIsLoss
  <2> QED
    BY <1>3, <2>5, <2>6, <2>7, <2>8, <2>9 DEF RInv
<1> QED
  BY <1>10, <1>11, <1>13, <1>14

\* A cursor before tail is at an event, which head has not passed perhaps.
LEMMA EventHere ==
  ASSUME WInv, RInv, r.pc \in {"header", "copy", "callback"}
  PROVE  \E e \in log[Domain] : e.at = Here
<1>1. Domain \in Rings /\ Here \in Nat /\ CursorTypes /\ r \in Polling
  BY DomainIsRing DEF RInv
<1>2. Here < r.ring_tail /\ r.ring_tail <= tail[Domain] /\ r.ring_tail \in Nat
  BY <1>1 DEF RInv, LoadInv, Polling
<1>3. tail[Domain] \in Nat
  BY <1>1, Distance DEF WInv
<1>4. Here # tail[Domain]
  BY <1>1, <1>2, <1>3
<1> QED
  BY <1>1, <1>4 DEF RInv, PosInv, Boundary, Here

\* A step that only copies.
LEMMA ReaderCopies ==
  ASSUME WInv, RInv, r.pc \in {"header", "copy"},
         NEW copy \in Copies, NEW pc \in {"copy", "callback"},
         r' = [[r EXCEPT !.pc = pc] EXCEPT !.copy = copy],
         UNCHANGED <<shared, w, pos, next_read_domain, log, given>>,
         (head[Domain] <= Here \/ pc = "callback") =>
            \E e \in log[Domain] :
              /\ e.at = Here
              /\ copy.header = [at |-> e.at, event |-> e.event, word |-> 0]
              /\ copy.msg_length = e.event.len
              /\ DOMAIN copy.buf \subseteq 1..e.event.len - 1
              /\ ~IsPadding(e.event) =>
                   \A k \in DOMAIN copy.buf :
                     copy.buf[k] = [at |-> e.at, event |-> e.event, word |-> k]
              /\ pc = "callback" => 1..copy.msg_length - 1 \subseteq DOMAIN copy.buf
  PROVE  RInv' /\ UNCHANGED Log!vars
<1>1. r \in Polling /\ Domain \in Rings /\ CursorTypes
  BY DomainIsRing DEF RInv
<1>2. UNCHANGED <<head, tail, log, pos, next_read_domain, given>>
  BY DEF shared
<1>3. /\ r' \in Polling /\ r'.pc = pc /\ r'.copy = copy /\ r'.ring_tail = r.ring_tail
      /\ r'.i = r.i /\ r'.start = r.start /\ r'.option = r.option /\ r'.tails = r.tails
      /\ r'.early_exit = r.early_exit
  BY <1>1 DEF Polling
<1>4. Domain' = Domain
  BY <1>3 DEF Domain
<1>5. Here' = Here
  BY <1>2, <1>4 DEF Here
<1>6. CursorTypes'
  BY <1>1, <1>2, <1>3 DEF CursorTypes
<1>7. PosInv'
  BY <1>2 DEF RInv, PosInv, Boundary
<1>8. LoadInv'
  <2>1. Here < r'.ring_tail /\ r'.ring_tail <= tail'[Domain]
    BY <1>2, <1>3 DEF RInv, LoadInv
  <2>2. head[Domain] <= Here \/ pc = "callback" =>
          \E e \in log[Domain] : e.at = Here /\ CopyOf(e)' /\ (pc = "callback" => Copied')
    BY <1>3 DEF CopyOf, Copied
  <2>3. r'.pc = "copy" /\ head'[Domain] <= Here => \E e \in log'[Domain] : e.at = Here /\ CopyOf(e)'
    BY <1>2, <1>3, <2>2
  <2>4. r'.pc = "callback" => \E e \in log'[Domain] : e.at = Here /\ CopyOf(e)' /\ Copied'
    BY <1>2, <1>3, <2>2
  <2>5. r'.pc # "tail"
    BY <1>3
  <2> QED
    BY <1>4, <1>5, <2>1, <2>3, <2>4, <2>5 DEF LoadInv
<1>9. DrainInv'
  <2>1. Passed' = Passed
    BY <1>3 DEF Passed
  <2>2. r.pc \notin {"idle", "return"} /\ r'.pc \notin {"idle", "return"}
    BY <1>3
  <2>3. r'.tails[Domain] <= r'.ring_tail
    <3>1. CASE r.pc = "header" \/ r.pc = "copy"
      BY <1>3, <3>1 DEF RInv, DrainInv
    <3> QED
      BY <3>1
  <2> QED
    BY <1>2, <1>3, <1>4, <2>1, <2>2, <2>3 DEF RInv, DrainInv
<1> QED
  BY <1>2, <1>6, <1>7, <1>8, <1>9 DEF RInv, Log!vars

LEMMA ReaderReadsHeader ==
  ASSUME WInv, RInv, ReadHeader
  PROVE  RInv' /\ UNCHANGED Log!vars
<1>1. r.pc = "header" /\ UNCHANGED <<shared, w, pos, next_read_domain, log, given>>
  BY DEF ReadHeader
<1>2. r \in Polling /\ Domain \in Rings /\ Here \in Nat /\ CursorTypes
  BY <1>1, DomainIsRing DEF RInv
<1> DEFINE word == data[Domain][Here % Size]
<1>3. PICK n \in Lengths(word) :
        r' = [r EXCEPT !.pc = "copy",
                       !.copy = [header |-> word, msg_length |-> n, buf |-> <<>>]]
  BY DEF ReadHeader
<1>4. word \in Word
  <2>1. Here % Size \in 0..Size - 1
    BY <1>2, Lens, ModRange
  <2> QED
    BY <1>2, <2>1 DEF WInv, WriterTypes
<1>5. head[Domain] <= Here =>
        \E e \in log[Domain] :
          e.at = Here /\ word = [at |-> e.at, event |-> e.event, word |-> 0]
  <2> SUFFICES ASSUME head[Domain] <= Here
               PROVE  \E e \in log[Domain] :
                        e.at = Here /\ word = [at |-> e.at, event |-> e.event, word |-> 0]
    OBVIOUS
  <2>1. PICK e \in log[Domain] : e.at = Here
    BY <1>1, EventHere
  <2>2. e.event.len \in Nat /\ e.event.len >= 1
    BY <1>2, Lens DEF WInv, WriterTypes
  <2>3. 0 \in Stored(e.event) /\ e.at + 0 = Here
    BY <1>2, <2>1, <2>2 DEF Stored
  <2>4. e.at >= head[Domain]
    BY <1>2, <2>1 DEF WInv, WriterTypes
  <2>5. data[Domain][(e.at + 0) % Size] = [at |-> e.at, event |-> e.event, word |-> 0]
    BY <1>2, <2>3, <2>4 DEF WInv, RingOK, DataOK
  <2> QED
    BY <2>1, <2>3, <2>5
<1> HIDE DEF word
<1>6. n \in Nat
  <2>1. word.event \in Logged \cup {NoEvent}
    BY <1>4 DEF Word
  <2>2. word.event.len \in Nat
    BY <2>1, Lens
  <2> QED
    BY <1>3, <2>2, Lens DEF Lengths
<1> DEFINE copy == [header |-> word, msg_length |-> n, buf |-> <<>>]
<1>7. copy \in Copies /\ copy.header = word /\ copy.msg_length = n /\ copy.buf = <<>>
  <2>1. <<>> \in [{} -> Word]
    OBVIOUS
  <2>2. <<>> \in Bufs
    BY <2>1 DEF Bufs
  <2> QED
    BY <1>4, <1>6, <2>2 DEF Copies
<1>8. r' = [[r EXCEPT !.pc = "copy"] EXCEPT !.copy = copy]
  BY <1>2, <1>3 DEF Polling
<1>9. DOMAIN <<>> = {}
  OBVIOUS
<1> HIDE DEF copy
<1>10. head[Domain] <= Here =>
         \E e \in log[Domain] :
           /\ e.at = Here
           /\ copy.header = [at |-> e.at, event |-> e.event, word |-> 0]
           /\ copy.msg_length = e.event.len
           /\ DOMAIN copy.buf = {}
  <2> SUFFICES ASSUME head[Domain] <= Here
               PROVE  \E e \in log[Domain] :
                         /\ e.at = Here
                         /\ copy.header = [at |-> e.at, event |-> e.event, word |-> 0]
                         /\ copy.msg_length = e.event.len
                         /\ DOMAIN copy.buf = {}
    OBVIOUS
  <2>1. PICK e \in log[Domain] :
          e.at = Here /\ word = [at |-> e.at, event |-> e.event, word |-> 0]
    BY <1>5
  <2>2. word.word = 0 /\ word.event = e.event
    BY <2>1
  <2>3. n = e.event.len
    BY <1>3, <2>2 DEF Lengths
  <2> QED
    BY <1>7, <1>9, <2>1, <2>3
<1> QED
  BY <1>1, <1>7, <1>8, <1>10, ReaderCopies

LEMMA ReaderCopiesWord ==
  ASSUME WInv, RInv, CopyWord
  PROVE  RInv' /\ UNCHANGED Log!vars
<1>1. r.pc = "copy" /\ UNCHANGED <<shared, w, pos, next_read_domain, log, given>>
  BY DEF CopyWord
<1>2. r \in Polling /\ Domain \in Rings /\ Here \in Nat /\ CursorTypes
  BY <1>1, DomainIsRing DEF RInv
<1> DEFINE i(k) == (Here % Size) + k
           word(k) == IF i(k) < Size THEN data[Domain][i(k)] ELSE Blank
           buf == r.copy.buf
<1>3. PICK k \in (1..r.copy.msg_length - 1) \ DOMAIN buf :
        r' = [r EXCEPT !.copy.buf = With(buf, k, word(k))]
  BY DEF CopyWord
<1>4. r.copy \in Copies /\ r.copy.header \in Word /\ r.copy.msg_length \in Nat /\ buf \in Bufs
  BY <1>2 DEF Polling, Copies
<1>5. k \in Nat /\ k >= 1 /\ k < r.copy.msg_length /\ Here % Size \in 0..Size - 1
  BY <1>2, <1>3, <1>4, Lens, ModRange
<1>6. word(k) \in Word
  <2>1. i(k) \in Nat
    BY <1>5
  <2>2. Blank \in Word
    BY DEF Blank, Word, NoEvent
  <2>3. i(k) < Size => i(k) \in 0..Size - 1
    BY <2>1, Lens
  <2>4. data[Domain] \in [0..Size - 1 -> Word]
    BY <1>2 DEF WInv, WriterTypes
  <2> HIDE DEF i
  <2> QED
    BY <2>2, <2>3, <2>4
<1> DEFINE new == With(buf, k, word(k))
           copy == [header |-> r.copy.header, msg_length |-> r.copy.msg_length, buf |-> new]
<1>7. /\ new \in Bufs /\ DOMAIN new = DOMAIN buf \cup {k} /\ new[k] = word(k)
      /\ \A j \in DOMAIN buf : j # k => new[j] = buf[j]
  <2> HIDE DEF word, buf
  <2>1. PICK S \in SUBSET Nat : buf \in [S -> Word]
    BY <1>4 DEF Bufs
  <2>2. new \in [S \cup {k} -> Word]
    BY <1>6, <2>1 DEF With
  <2>3. S \cup {k} \in SUBSET Nat
    BY <1>5, <2>1
  <2>4. new \in Bufs
    BY <2>2, <2>3 DEF Bufs
  <2> QED
    BY <2>4 DEF With
<1> HIDE DEF new
<1>8. copy \in Copies /\ copy.header = r.copy.header
      /\ copy.msg_length = r.copy.msg_length /\ copy.buf = new
  BY <1>4, <1>7 DEF Copies
<1>9. r' = [[r EXCEPT !.pc = "copy"] EXCEPT !.copy = copy]
  <2>1. [r EXCEPT !.pc = "copy"] = r
    BY <1>1, <1>2 DEF Polling
  <2>2. [r.copy EXCEPT !.buf = new] = copy
    BY <1>4 DEF Copies
  <2>3. r' = [r EXCEPT !.copy = [r.copy EXCEPT !.buf = new]]
    BY <1>2, <1>3 DEF Polling, new
  <2> HIDE DEF copy
  <2> QED
    BY <2>1, <2>2, <2>3
<1> HIDE DEF copy
<1>10. head[Domain] <= Here =>
         \E e \in log[Domain] :
           /\ e.at = Here
           /\ copy.header = [at |-> e.at, event |-> e.event, word |-> 0]
           /\ copy.msg_length = e.event.len
           /\ DOMAIN copy.buf \subseteq 1..e.event.len - 1
           /\ ~IsPadding(e.event) =>
                \A j \in DOMAIN copy.buf :
                  copy.buf[j] = [at |-> e.at, event |-> e.event, word |-> j]
  <2> SUFFICES ASSUME head[Domain] <= Here
               PROVE  \E e \in log[Domain] :
                         /\ e.at = Here
                         /\ copy.header = [at |-> e.at, event |-> e.event, word |-> 0]
                         /\ copy.msg_length = e.event.len
                         /\ DOMAIN copy.buf \subseteq 1..e.event.len - 1
                         /\ ~IsPadding(e.event) =>
                              \A j \in DOMAIN copy.buf :
                                copy.buf[j] = [at |-> e.at, event |-> e.event, word |-> j]
    OBVIOUS
  <2>1. PICK e \in log[Domain] : e.at = Here /\ CopyOf(e)
    BY <1>1 DEF RInv, LoadInv
  <2>2. r.copy.header = [at |-> e.at, event |-> e.event, word |-> 0]
        /\ r.copy.msg_length = e.event.len /\ DOMAIN buf \subseteq 1..e.event.len - 1
    BY <2>1 DEF CopyOf
  <2>3. k \in 1..e.event.len - 1
    BY <1>3, <2>2
  <2>4. ASSUME ~IsPadding(e.event)
        PROVE  word(k) = [at |-> e.at, event |-> e.event, word |-> k]
    <3>1. (Here % Size) + e.event.len <= Size /\ e.event.len \in Nat
      BY <1>2, <2>1, Lens DEF WInv, WriterTypes, RingOK, LogOK
    <3>2. (Here % Size) + k < Size
      BY <1>5, <2>2, <3>1, Lens
    <3>3. (Here + k) % Size = (Here % Size) + k
      BY <1>2, <1>5, <3>2, Lens, ModSum
    <3>4. k \in Stored(e.event)
      BY <1>5, <2>2, <2>4, <3>1 DEF Stored
    <3>5. e.at >= head[Domain]
      BY <1>2, <2>1 DEF WInv, WriterTypes
    <3>6. data[Domain][(e.at + k) % Size] = [at |-> e.at, event |-> e.event, word |-> k]
      BY <1>2, <3>4, <3>5 DEF WInv, RingOK, DataOK
    <3> QED
      BY <2>1, <3>2, <3>3, <3>6
  <2>5. ASSUME ~IsPadding(e.event), NEW j \in DOMAIN new
        PROVE  new[j] = [at |-> e.at, event |-> e.event, word |-> j]
    <3>1. CASE j = k
      BY <1>7, <2>4, <2>5, <3>1
    <3>2. CASE j # k
      BY <1>7, <2>1, <2>5, <3>2 DEF CopyOf
    <3> QED
      BY <3>1, <3>2
  <2>6. DOMAIN new \subseteq 1..e.event.len - 1
    BY <1>7, <2>2, <2>3
  <2> QED
    BY <1>8, <2>1, <2>2, <2>5, <2>6
<1> QED
  BY <1>1, <1>8, <1>9, <1>10, ReaderCopies

LEMMA ReaderRechecks ==
  ASSUME WInv, RInv, NEW ok \in BOOLEAN, Recheck(ok)
  PROVE  RInv' /\ \E q \in Rings : Log!Lose(q) \/ UNCHANGED Log!vars
<1>1. r.pc = "copy" /\ Copied /\ UNCHANGED <<shared, w, log, given>>
      /\ UNCHANGED <<head, tail>>
  BY DEF Recheck, shared
<1>2. r \in Polling /\ Domain \in Rings /\ Here \in Nat /\ CursorTypes
  BY <1>1, DomainIsRing DEF RInv
<1>3. /\ tail[Domain] \in Nat /\ head[Domain] \in Nat
      /\ head[Domain] <= tail[Domain] /\ Boundary(Domain, head[Domain])
  BY <1>2, Distance DEF WInv, RingOK, HeadOK
<1>4. CASE head[Domain] > Here
  <2> DEFINE x == [r EXCEPT !.early_exit = ~ok]
  <2>1. /\ x \in Polling /\ x.ring_tail = r.ring_tail
        /\ x.i = r.i /\ x.start = r.start /\ x.option = r.option /\ x.tails = r.tails
    BY <1>2 DEF Polling
  <2>2. EndBody(x, head[Domain], TRUE)
    BY <1>4 DEF Recheck
  <2> HIDE DEF x
  <2>3. r.tails[Domain] <= r.ring_tail /\ r.tails[Domain] \in Nat /\ r.ring_tail \in Nat
    BY <1>1, <1>2 DEF RInv, DrainInv, Polling
  <2>4. x.ring_tail >= r.tails[Domain] /\ Here <= head[Domain]
    BY <1>2, <1>3, <1>4, <2>1, <2>3
  <2>5. RInv' /\ pos' = [pos EXCEPT ![Domain] = head[Domain]]
    BY <1>1, <1>3, <2>1, <2>2, <2>4, BodyEnds
  <2>6. pos[Domain] <= head[Domain] /\ head[Domain] <= head[Domain]
    BY <1>3, <2>4 DEF Here
  <2>7. Log!Lose(Domain) \/ UNCHANGED Log!vars
    BY <1>1, <1>2, <1>3, <2>5, <2>6, MoveIsLoss
  <2> QED
    BY <1>2, <2>5, <2>7
<1>5. CASE ~(head[Domain] > Here)
  <2>1. r' = [r EXCEPT !.pc = "callback"] /\ UNCHANGED <<pos, next_read_domain>>
    BY <1>5 DEF Recheck
  <2>2. head[Domain] <= Here
    BY <1>2, <1>3, <1>5
  <2>3. PICK e \in log[Domain] : e.at = Here /\ CopyOf(e)
    BY <1>1, <2>2 DEF RInv, LoadInv
  <2>4. r.copy \in Copies
    BY <1>2 DEF Polling
  <2>5. r' = [[r EXCEPT !.pc = "callback"] EXCEPT !.copy = r.copy]
    BY <1>2, <2>1 DEF Polling
  <2>6. RInv' /\ UNCHANGED Log!vars
    BY <1>1, <2>1, <2>3, <2>4, <2>5, ReaderCopies DEF CopyOf, Copied
  <2> QED
    BY <1>2, <2>6
<1> QED
  BY <1>4, <1>5

LEMMA ReaderGives ==
  ASSUME WInv, RInv, NEW ok \in BOOLEAN, Callback(ok)
  PROVE  RInv' /\ Log!Give(Domain)
<1>1. r.pc = "callback" /\ UNCHANGED <<shared, w, log>> /\ UNCHANGED <<head, tail>>
  BY DEF Callback, shared
<1>2. r \in Polling /\ Domain \in Rings /\ Here \in Nat /\ CursorTypes
  BY <1>1, DomainIsRing DEF RInv
<1>3. PICK e \in log[Domain] : e.at = Here /\ CopyOf(e) /\ Copied
  BY <1>1 DEF RInv, LoadInv
<1>4. /\ End(e) \in Nat /\ End(e) <= tail[Domain] /\ Boundary(Domain, End(e))
      /\ e.at < End(e) /\ Here < End(e)
  BY <1>2, <1>3, EndIsBoundary
<1>5. e.event.len \in Nat /\ e.event.len >= 1 /\ Here + e.event.len = End(e)
  BY <1>2, <1>3, Lens DEF WInv, WriterTypes, End
<1>6. r.copy.header = [at |-> e.at, event |-> e.event, word |-> 0]
      /\ r.copy.msg_length = e.event.len /\ r.copy.header.event = e.event
  BY <1>3 DEF CopyOf
<1>7. given' = IF IsPadding(e.event) THEN given ELSE Log!Words(e)
  <2>1. CASE IsPadding(e.event)
    BY <1>6, <2>1 DEF Callback
  <2>2. CASE ~IsPadding(e.event)
    <3>1. given' = With(r.copy.buf, 0, r.copy.header)
      BY <1>6, <2>2 DEF Callback
    <3>2. DOMAIN r.copy.buf = 1..e.event.len - 1
      BY <1>3, <1>6 DEF CopyOf, Copied
    <3>3. DOMAIN r.copy.buf \cup {0} = 0..e.event.len - 1
      BY <1>5, <3>2
    <3>4. \A k \in DOMAIN r.copy.buf :
            r.copy.buf[k] = [at |-> e.at, event |-> e.event, word |-> k]
      BY <1>3, <2>2 DEF CopyOf
    <3>5. \A k \in 0..e.event.len - 1 :
            (IF k = 0 THEN r.copy.header ELSE r.copy.buf[k])
              = [at |-> e.at, event |-> e.event, word |-> k]
      BY <1>6, <3>3, <3>4
    <3>6. With(r.copy.buf, 0, r.copy.header) = Log!Words(e)
      BY <3>3, <3>5 DEF With, Log!Words
    <3> QED
      BY <2>2, <3>1, <3>6
  <2> QED
    BY <2>1, <2>2
<1>8. r.tails[Domain] <= r.ring_tail /\ r.tails[Domain] \in Nat /\ r.ring_tail \in Nat
  BY <1>1, <1>2 DEF RInv, DrainInv, Polling
<1>9. CASE ok
  <2> DEFINE c == IF IsInternal(e.event) THEN r.consumed ELSE r.consumed + 1
             n == IF IsPadding(e.event) THEN r.events ELSE r.events + 1
             x == [r EXCEPT !.consumed = c, !.events = n]
  <2>1. EndBody(x, End(e), TRUE)
    BY <1>5, <1>6, <1>9 DEF Callback
  <2>2. c \in Nat /\ n \in Nat
    BY <1>2 DEF Polling
  <2> HIDE DEF c, n
  <2>3. /\ x \in Polling /\ x.ring_tail = r.ring_tail
        /\ x.i = r.i /\ x.start = r.start /\ x.option = r.option /\ x.tails = r.tails
    BY <1>2, <2>2 DEF Polling
  <2> HIDE DEF x
  <2>4. x.ring_tail >= r.tails[Domain] /\ Here <= End(e)
    BY <1>2, <1>4, <1>8, <2>3
  <2>5. RInv' /\ pos' = [pos EXCEPT ![Domain] = End(e)]
    BY <1>1, <1>4, <2>1, <2>3, <2>4, BodyEnds
  <2>6. Log!Give(Domain)
    BY <1>1, <1>3, <1>7, <2>5 DEF Log!Give, End, IsPadding, Here
  <2> QED
    BY <2>5, <2>6
<1>10. CASE ~ok
  <2> DEFINE x == [r EXCEPT !.early_exit = TRUE]
  <2>1. EndBody(x, Here, TRUE)
    BY <1>10 DEF Callback
  <2>2. /\ x \in Polling /\ x.early_exit
        /\ x.i = r.i /\ x.start = r.start /\ x.option = r.option /\ x.tails = r.tails
    BY <1>2 DEF Polling
  <2> HIDE DEF x
  <2>3. Here <= Here /\ Here <= tail[Domain] /\ Boundary(Domain, Here)
    BY <1>2 DEF RInv, PosInv, Here
  <2>4. RInv' /\ pos' = [pos EXCEPT ![Domain] = Here]
    BY <1>1, <1>2, <2>1, <2>2, <2>3, BodyEnds
  <2>5. pos' = pos
    BY <1>2, <2>4 DEF Here, CursorTypes
  <2>6. Log!Give(Domain)
    BY <1>1, <1>3, <1>7, <2>5 DEF Log!Give, IsPadding, Here
  <2> QED
    BY <2>4, <2>6
<1> QED
  BY <1>9, <1>10

LEMMA ReaderReturns ==
  ASSUME WInv, RInv, Return
  PROVE  RInv' /\ UNCHANGED Log!vars
<1>1. r' = [pc |-> "idle"] /\ r'.pc = "idle"
  BY DEF Return
<1>2. UNCHANGED <<head, tail, log, pos, next_read_domain, given>>
  BY DEF Return, shared
<1>3. CursorTypes' /\ PosInv'
  BY <1>1, <1>2 DEF RInv, CursorTypes, PosInv, Boundary
<1> QED
  BY <1>1, <1>2, <1>3 DEF RInv, LoadInv, DrainInv, Log!vars

LEMMA ReaderStep ==
  ASSUME WInv, RInv, caml_runtime_events_read_poll
  PROVE  /\ WInv' /\ RInv'
         /\ (\E q \in Rings : Log!Give(q) \/ Log!Lose(q)) \/ UNCHANGED Log!vars
<1>1. UNCHANGED <<shared, w, log>>
  BY DEF caml_runtime_events_read_poll, Poll, LoadHead, LoadTail, ReadHeader, CopyWord,
         Recheck, Callback, Return
<1>2. WInv'
  BY <1>1, ReaderLeaves
<1>3. CASE Poll \/ LoadHead \/ ReadHeader \/ CopyWord \/ Return
  BY <1>2, <1>3, ReaderPolls, ReaderLoadsHead, ReaderReadsHeader, ReaderCopiesWord,
     ReaderReturns
<1>4. ASSUME NEW ok \in BOOLEAN, LoadTail(ok) \/ Recheck(ok)
      PROVE  RInv' /\ ((\E q \in Rings : Log!Give(q) \/ Log!Lose(q)) \/ UNCHANGED Log!vars)
  BY <1>4, ReaderLoadsTail, ReaderRechecks
<1>5. ASSUME NEW ok \in BOOLEAN, Callback(ok)
      PROVE  RInv' /\ \E q \in Rings : Log!Give(q)
  <2>1. RInv' /\ Log!Give(Domain)
    BY <1>5, ReaderGives
  <2>2. Domain \in Rings
    BY <1>5, DomainIsRing DEF RInv, Callback
  <2> QED
    BY <2>1, <2>2
<1> QED
  BY <1>2, <1>3, <1>4, <1>5 DEF caml_runtime_events_read_poll, Outcomes

LEMMA ReaderInit == Init => RInv
<1> SUFFICES ASSUME Init PROVE RInv
  OBVIOUS
<1>1. r = [pc |-> "idle"] /\ r.pc = "idle"
  BY DEF Init
<1>2. 0 \in Rings
  BY RuntimeEventsAssumption DEF Rings
<1>3. CursorTypes
  BY <1>1, <1>2 DEF Init, CursorTypes
<1>4. PosInv
  BY DEF Init, PosInv, Boundary
<1> QED
  BY <1>1, <1>3, <1>4 DEF RInv, LoadInv, DrainInv

--------------------------------------------------------------------------------
(* The theorems.                                                           *)

\* Every step keeps the invariant, and is a step of the abstract log.
LEMMA Inductive ==
  ASSUME IInv, [Next]_vars
  PROVE  IInv' /\ [Log!Next]_(Log!vars)
<1>1. CASE caml_runtime_events_read_poll
  BY <1>1, ReaderStep DEF IInv, Log!Next
<1>2. ASSUME NEW d \in Writers, Writing(d)
      PROVE  IInv' /\ [Log!Next]_(Log!vars)
  <2>1. d \in Rings
    BY RuntimeEventsAssumption
  <2>2. /\ WInv' /\ UNCHANGED <<cursor, given>>
        /\ Log!Write(d) \/ Log!Drop(d) \/ UNCHANGED Log!vars
    BY <1>2, WriterStep DEF IInv
  <2>3. RInv'
    BY <2>1, <2>2, RingsGrow, ReaderFrame DEF IInv
  <2> QED
    BY <2>1, <2>2, <2>3 DEF IInv, Log!Next
<1>3. CASE UNCHANGED vars
  <2>1. UNCHANGED <<shared, w, log>> /\ UNCHANGED cursor /\ UNCHANGED Log!vars
    BY <1>3 DEF vars, shared, cursor, Log!vars
  <2>2. WInv'
    BY <2>1, ReaderLeaves DEF IInv
  <2>3. 0 \in Rings
    BY RuntimeEventsAssumption DEF Rings
  <2>4. RInv'
    BY <2>1, <2>2, <2>3, RingsGrow, ReaderFrame DEF IInv
  <2> QED
    BY <2>1, <2>2, <2>4 DEF IInv
<1> QED
  BY <1>1, <1>2, <1>3 DEF Next, Writing

LEMMA Invariance == Spec => []IInv
<1>1. Init => IInv
  BY WriterInit, ReaderInit DEF IInv
<1>2. IInv /\ [Next]_vars => IInv'
  BY Inductive
<1> QED
  BY <1>1, <1>2, PTL DEF Spec

\* Every ring is that of a domain the poll goes through.
LEMMA AllRings ==
  ASSUME NEW s \in Rings, NEW d \in Rings
  PROVE  \E j \in Rings : d = (s + j) % max_domains
<1>1. max_domains \in Nat \ {0} /\ s \in 0..max_domains - 1 /\ d \in 0..max_domains - 1
  BY RuntimeEventsAssumption DEF Rings
<1>2. \A a \in 0..max_domains - 1 : a % max_domains = a
  <2>1. ASSUME NEW a \in 0..max_domains - 1 PROVE a % max_domains = a
    <3>1. max_domains * 0 + a = a /\ a \in Nat
      BY <1>1
    <3>2. (max_domains * 0 + a) % max_domains = a
      BY <1>1, <3>1, Remainder
    <3> QED
      BY <3>1, <3>2
  <2> QED
    BY <2>1
<1>3. CASE s <= d
  <2>1. d - s \in Rings /\ s + (d - s) = d
    BY <1>1, <1>3 DEF Rings
  <2> QED
    BY <1>1, <1>2, <2>1
<1>4. CASE d < s
  <2> DEFINE j == (d + max_domains) - s
  <2>1. j \in Rings /\ s + j = max_domains * 1 + d /\ max_domains * 1 + d \in Nat
    BY <1>1, <1>4 DEF Rings
  <2>2. (max_domains * 1 + d) % max_domains = d
    BY <1>1, <2>1, Remainder
  <2> HIDE DEF j
  <2> QED
    BY <2>1, <2>2
<1> QED
  BY <1>1, <1>3, <1>4

\* What the invariant says of a ring between head and tail.
LEMMA Intact ==
  ASSUME WInv
  PROVE  RingIntact
<1> SUFFICES ASSUME NEW d \in Rings
             PROVE  /\ head[d] <= tail[d] /\ tail[d] < head[d] + Size
                    /\ \A e \in log[d] : e.at >= head[d] =>
                         \A k \in Stored(e.event) :
                           data[d][(e.at + k) % Size]
                             = [at |-> e.at, event |-> e.event, word |-> k]
                    /\ \A p \in head[d]..tail[d] - 1 :
                         \E e \in log[d] : head[d] <= e.at /\ e.at <= p
                                           /\ p < e.at + e.event.len
  BY DEF RingIntact, Stored
<1>1. WriterTypes /\ RingOK(d) /\ tail[d] \in Nat /\ head[d] \in Nat /\ DistanceToEnd(d) \in Nat
  BY Distance DEF WInv
<1>2. Needed(d) \in Nat
  <2>1. w[d].event.len \in Nat
    BY <1>1, Lens DEF WriterTypes
  <2> QED
    BY <1>1, <2>1 DEF Needed
<1>3. head[d] <= tail[d] /\ tail[d] < head[d] + Size
  BY <1>1, <1>2, Lens DEF RingOK, HeadOK
<1>4. ASSUME NEW p \in head[d]..tail[d] - 1
      PROVE  \E e \in log[d] : head[d] <= e.at /\ e.at <= p /\ p < e.at + e.event.len
  <2>1. p \in 0..tail[d] - 1 /\ head[d] # tail[d] /\ head[d] <= p
    BY <1>1, <1>4
  <2>2. PICK e \in log[d] : e.at <= p /\ p < End(e)
    BY <1>1, <2>1 DEF RingOK, LogOK
  <2>3. PICK f \in log[d] : f.at = head[d]
    BY <1>1, <2>1 DEF RingOK, HeadOK, Boundary
  <2>4. e.at \in Nat /\ End(e) \in Nat
    BY <1>1, EndIsBoundary DEF WriterTypes
  <2>5. ~(e.at < head[d])
    <3>1. e.at < f.at => End(e) <= f.at
      BY <1>1 DEF RingOK, LogOK
    <3> QED
      BY <1>1, <2>1, <2>2, <2>3, <2>4, <3>1
  <2> QED
    BY <1>1, <2>2, <2>4, <2>5 DEF End
<1> QED
  BY <1>1, <1>3, <1>4 DEF RingOK, DataOK

(***************************************************************************)
(* For any number of rings, any size of a ring that holds two of its       *)
(* events, any events and any speed of domain and cursor: between          *)
(* ring_head and ring_tail lie whole events with all their words           *)
(* (write_to_ring), and a poll that nothing stops has read or reported     *)
(* lost all that was written when it began (caml_runtime_events_read_poll).*)
(***************************************************************************)
THEOREM EventsStayInReach == Spec => []EventsInReach
<1>1. IInv => EventsInReach
  <2> SUFFICES ASSUME IInv PROVE EventsInReach
    OBVIOUS
  <2>1. RingIntact
    BY Intact DEF IInv
  <2>2. PollDrains
    <3> SUFFICES ASSUME r.pc = "return", r.option = None, ~r.early_exit, NEW d \in Rings
                 PROVE  pos[d] >= r.tails[d]
      BY DEF PollDrains
    <3>1. r.start \in Rings
      BY DomainIsRing DEF IInv, RInv, Polling
    <3>2. d \in Passed
      BY <3>1, AllRings DEF Passed
    <3> QED
      BY <3>2 DEF IInv, RInv, DrainInv
  <2> QED
    BY <2>1, <2>2 DEF EventsInReach
<1> QED
  BY <1>1, Invariance, PTL

(***************************************************************************)
(* A ring with its cursor implements a log that loses only its oldest      *)
(* events: what a callback is given is an event as it was written, however *)
(* the domain overwrites the ring while the cursor copies from it, because *)
(* ring_head is read again after the copy.                                 *)
(***************************************************************************)
THEOREM ImplementsLossyLog == Spec => RefinesLossyLog
<1>1. Init => Log!Init
  BY DEF Init, Log!Init
<1>2. IInv /\ [Next]_vars => [Log!Next]_(Log!vars)
  BY Inductive
<1> QED
  BY <1>1, <1>2, Invariance, PTL DEF Spec, RefinesLossyLog, Log!Spec
================================================================================
