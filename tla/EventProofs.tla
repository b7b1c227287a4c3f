------------------------------ MODULE EventProofs ------------------------------
(***************************************************************************)
(* Nobody is left waiting in Event.sync, and a rendez-vous is complete.    *)
(*                                                                         *)
(* The heart is [UnmatchedInv]: an event for which a thread has looked for *)
(* a partner does not fit one that another suspended thread offers.  It    *)
(* survives the failure of a poll because every offer that can still be    *)
(* taken is in its queue ([QueueInv]), and it survives an offer because    *)
(* the thread that makes it has kept masterlock since it looked            *)
(* ([ThreadInv]).  That the queues keep the live offers is a lemma about   *)
(* cleanup_queue, by induction on the length of the queue.                 *)
(***************************************************************************)
EXTENDS Event, WellFoundedInduction, SequenceTheorems, TLAPS

(***************************************************************************)
(* Induction over the numbers in terms of sets.                            *)
(***************************************************************************)
\* A set of numbers that is not empty has a least member.
LEMMA LeastNat ==
  ASSUME NEW T \in SUBSET Nat, T # {}
  PROVE  \E m \in T : \A k \in T : m <= k
<1> DEFINE R == OpToRel(<, Nat)
<1>1. IsWellFoundedOn(R, Nat)
  BY NatLessThanWellFounded
<1>2. \E m \in T : \A k \in T : ~(<<k, m>> \in R)
  <2> HIDE DEF R
  <2> QED BY <1>1, WFMin
<1>3. \A k, m \in Nat : <<k, m>> \in R <=> k < m
  BY DEF OpToRel
<1> HIDE DEF R
<1>4. PICK m \in T : \A k \in T : ~(<<k, m>> \in R)
  BY <1>2
<1>5. ASSUME NEW k \in T PROVE m <= k
  <2>1. k \in Nat /\ m \in Nat
    OBVIOUS
  <2>2. ~(k < m)
    BY <1>3, <1>4, <1>5, <2>1
  <2> QED
    BY <2>1, <2>2
<1> QED
  BY <1>5

\* A set that has 0, and n + 1 with every n, has all the numbers.
LEMMA NatInd ==
  ASSUME NEW S, 0 \in S, \A n \in Nat : n \in S => n + 1 \in S
  PROVE  Nat \subseteq S
<1> SUFFICES ASSUME Nat \ S # {} PROVE FALSE
  OBVIOUS
<1>1. PICK m \in Nat \ S : \A k \in Nat \ S : m <= k
  BY LeastNat
<1>2. m # 0 /\ m - 1 \in Nat
  BY <1>1
<1>3. m - 1 \in S
  BY <1>1, <1>2
<1>4. (m - 1) + 1 \in S
  BY <1>2, <1>3
<1> QED BY <1>1, <1>4

(***************************************************************************)
(* The inductive invariant.                                                *)
(***************************************************************************)
Kinds == {"send", "receive"}

\* Masterlock is locked.
Inside == {"sync", "poll", "suspend", "waited", "cancel", "unlock"}

Offer == [sync : Syncs, event : Nat \ {0}]

Members(q) == {q[n] : n \in 1..Len(q)}

TypeOK ==
  /\ owner \in Threads \cup {NoThread}
  /\ waiting \in [Syncs -> SUBSET Threads]
  /\ woken \in SUBSET Threads
  /\ calls \in 0..MaxSyncs
  /\ self \in [Threads -> 0..MaxSyncs]
  /\ pc \in [Threads -> Inside \cup {"idle", "wait"}]
  /\ i \in [Threads -> Nat \ {0}]
  /\ menu \in [Syncs -> Seq(Basic)]
  /\ performed \in [Syncs -> Int]
  /\ data = [x \in Syncs |-> data[x]]
  /\ \A x \in Syncs : data[x] \in [DOMAIN menu[x] -> Syncs \cup {None}]
  /\ pending \in [Kinds -> [Channels -> Seq(Offer)]]
  /\ partner \in [Syncs -> Syncs \cup {None}]

\* Whoever is inside has masterlock, and every thread has a sync of its own.
ThreadInv ==
  /\ \A t \in Threads : pc[t] \in Inside <=> owner = t
  /\ \A t \in Threads : self[t] <= calls
  /\ \A t \in Threads : pc[t] # "idle" => self[t] # 0
  /\ \A t, u \in Threads : self[t] = self[u] /\ self[t] # 0 => t = u
  /\ \A t \in Threads : pc[t] \in {"idle", "wait", "waited"} => i[t] = 1

\* Who waits is on the condition variable of its own sync or woken up, and woken
\* up when its event is performed.
WaitInv ==
  /\ \A x \in Syncs : \A t \in waiting[x] : self[t] = x /\ pc[t] = "wait"
  /\ \A t \in woken : pc[t] = "wait" /\ \A x \in Syncs : t \notin waiting[x]
  /\ \A t \in Threads : pc[t] = "wait" => t \in woken \/ t \in waiting[self[t]]
  /\ PerformedIsWoken

\* Which syncs have performed an event, and which of them have a partner.
PerformedInv ==
  /\ \A x \in Syncs : x > calls => performed[x] = -1
  /\ \A x \in Syncs : performed[x] \in -1..Len(menu[x])
  /\ \A x \in Syncs : partner[x] # None => performed[x] > 0
  /\ \A x \in Syncs : performed[x] > 0 /\ Chosen(x).kind # "always" => partner[x] # None
  /\ \A t \in Threads :
       pc[t] \in {"sync", "poll", "suspend", "cancel"} => performed[self[t]] = -1
  /\ \A t \in Threads : pc[t] = "unlock" => performed[self[t]] >= 0

\* What is sent is the sender's, and what was received is there.
DataInv ==
  /\ \A x \in Syncs : \A j \in DOMAIN menu[x] : menu[x][j].kind = "send" => data[x][j] = x
  /\ \A x \in Syncs : partner[x] # None => data[x][performed[x]] # None

\* An offer is in the queue of its event, and its sync no longer looks for partners.
OfferInv ==
  \A k \in Kinds : \A c \in Channels : \A o \in Members(pending[k][c]) :
    /\ o.sync <= calls
    /\ o.event \in DOMAIN menu[o.sync]
    /\ menu[o.sync][o.event] = [kind |-> k, channel |-> c]
    /\ \A t \in Threads : self[t] = o.sync => pc[t] \notin {"sync", "poll"}

\* The events of its choice for which the thread has made an offer,
Offered(t) ==
  IF pc[t] \in {"wait", "waited"} THEN DOMAIN menu[self[t]]
  ELSE IF pc[t] = "suspend" THEN {j \in DOMAIN menu[self[t]] : j < i[t]}
  ELSE {}

\* and those for which it has looked for a partner.
Considered(t) ==
  IF pc[t] \in {"wait", "waited", "suspend"} THEN DOMAIN menu[self[t]]
  ELSE IF pc[t] = "sync" THEN {j \in DOMAIN menu[self[t]] : j < i[t]}
  ELSE {}

Queue(e) == pending[e.kind][e.channel]

\* Every offer that has been made and can still be taken is in its queue.
QueueInv ==
  \A t \in Threads : pc[t] # "idle" /\ performed[self[t]] = -1 =>
    \A j \in Offered(t) :
      LET e == menu[self[t]][j]
      IN  e.kind # "always" => [sync |-> self[t], event |-> j] \in Members(Queue(e))

Fits(e, f) ==
  /\ e.kind \in Kinds
  /\ f.kind = Opposite[e.kind]
  /\ e.channel = f.channel

\* Nobody has looked for a partner in vain while the offer was there.
UnmatchedInv ==
  \A t, u \in Threads :
    /\ t # u
    /\ pc[t] # "idle" /\ performed[self[t]] = -1
    /\ pc[u] # "idle" /\ performed[self[u]] = -1
    => \A j \in Considered(t), k \in Offered(u) :
         ~Fits(menu[self[t]][j], menu[self[u]][k])

IInv ==
  /\ TypeOK
  /\ ThreadInv
  /\ WaitInv
  /\ PerformedInv
  /\ DataInv
  /\ RendezvousMatched
  /\ OfferInv
  /\ QueueInv
  /\ UnmatchedInv

(***************************************************************************)
(* What the operations on the queues leave in them.                        *)
(***************************************************************************)
\* FirstLive is the index of the first offer that can be taken, or 0.
LEMMA FirstLiveIs ==
  ASSUME NEW q, Len(q) \in Nat
  PROVE  \/ FirstLive(q) = 0 /\ \A j \in 1..Len(q) : ~Live(q[j])
         \/ /\ FirstLive(q) \in 1..Len(q)
            /\ Live(q[FirstLive(q)])
            /\ \A j \in 1..Len(q) : j < FirstLive(q) => ~Live(q[j])
<1> DEFINE I == {j \in 1..Len(q) : Live(q[j])}
<1>1. FirstLive(q) = IF I # {} THEN Min(I) ELSE 0
  BY DEF FirstLive, SelectInSeq
<1>2. CASE I = {}
  BY <1>1, <1>2
<1>3. CASE I # {}
  <2>0. I \in SUBSET Nat
    OBVIOUS
  <2>1. \E m \in I : \A k \in I : m <= k
    <3> HIDE DEF I
    <3> QED BY <1>3, <2>0, LeastNat
  <2>2. Min(I) \in I /\ \A k \in I : Min(I) <= k
    <3> HIDE DEF I
    <3> QED BY <2>1 DEF Min
  <2> DEFINE f == FirstLive(q)
  <2>3. f \in I /\ \A k \in I : f <= k
    <3> HIDE DEF I
    <3> QED BY <1>1, <1>3, <2>2
  <2>4. f \in 1..Len(q) /\ Live(q[f])
    BY <2>3
  <2>5. ASSUME NEW j \in 1..Len(q), j < f PROVE ~Live(q[j])
    <3> HIDE DEF f
    <3>1. j \in I => f <= j
      <4> HIDE DEF I
      <4> QED BY <2>3
    <3>2. j \notin I
      BY <3>1, <2>4, <2>5
    <3> QED
      BY <3>2
  <2> QED
    BY <2>4, <2>5
<1> QED
  BY <1>2, <1>3

\* What is in a queue after an offer is added,
LEMMA AppendMembers ==
  ASSUME NEW S, NEW q \in Seq(S), NEW e \in S
  PROVE  \A o : o \in Members(Append(q, e)) <=> o \in Members(q) \/ o = e
<1>1. /\ Len(Append(q, e)) = Len(q) + 1
      /\ \A n \in 1..Len(q) : Append(q, e)[n] = q[n]
      /\ Append(q, e)[Len(q) + 1] = e
  OBVIOUS
<1>2. Len(q) \in Nat /\ \A n : n \in 1..(Len(q) + 1) <=> n \in 1..Len(q) \/ n = Len(q) + 1
  OBVIOUS
<1> QED
  BY <1>1, <1>2 DEF Members

\* after the first offers are dropped,
LEMMA SubSeqMembers ==
  ASSUME NEW S, NEW q \in Seq(S), NEW j \in 1..Len(q)
  PROVE  /\ SubSeq(q, j + 1, Len(q)) \in Seq(S)
         /\ \A o \in Members(SubSeq(q, j + 1, Len(q))) : o \in Members(q)
         /\ \A n \in 1..Len(q) : n > j => q[n] \in Members(SubSeq(q, j + 1, Len(q)))
<1> DEFINE s == SubSeq(q, j + 1, Len(q))
<1>1. s \in Seq(S) /\ Len(s) = Len(q) - j /\ \A n \in 1..Len(s) : s[n] = q[j + n]
  OBVIOUS
<1>2. \A n \in 1..Len(q) : n > j => n - j \in 1..Len(s) /\ q[n] = s[n - j]
  BY <1>1
<1>3. \A n \in 1..Len(s) : j + n \in 1..Len(q)
  BY <1>1
<1> HIDE DEF s
<1>4. \A n \in 1..Len(q) : n > j => q[n] \in Members(s)
  BY <1>2 DEF Members
<1>5. \A o \in Members(s) : o \in Members(q)
  BY <1>1, <1>3 DEF Members
<1> QED
  BY <1>1, <1>4, <1>5 DEF s

\* and after cleanup_queue: the offers that can still be taken.
LEMMA CleanupIs ==
  ASSUME NEW S, NEW q \in Seq(S)
  PROVE  /\ cleanup_queue(q) \in Seq(S)
         /\ \A o : o \in Members(cleanup_queue(q)) <=> o \in Members(q) /\ Live(o)
<1> DEFINE step(s, n) == IF Live(q[n]) THEN Append(s, q[n]) ELSE s
           Keeps(g, n) == g = [m \in 0..n |-> IF m = 0 THEN <<>> ELSE step(g[m - 1], m)]
           T == {n \in Nat : \E g : Keeps(g, n)}
<1>1. 0 \in T
  <2> DEFINE g == [m \in 0..0 |-> <<>>]
  <2>1. Keeps(g, 0)
    OBVIOUS
  <2> QED
    BY <2>1
<1>2. ASSUME NEW n \in Nat, n \in T PROVE n + 1 \in T
  <2>1. PICK g : Keeps(g, n)
    BY <1>2
  <2> HIDE DEF step
  <2> DEFINE h == [m \in 0..(n + 1) |-> IF m <= n THEN g[m] ELSE step(g[n], n + 1)]
             r == [m \in 0..(n + 1) |-> IF m = 0 THEN <<>> ELSE step(h[m - 1], m)]
  <2>2. ASSUME NEW m \in 0..(n + 1) PROVE h[m] = r[m]
    <3>1. CASE m = 0
      BY <2>1, <3>1
    <3>2. CASE m # 0 /\ m <= n
      <4>1. m \in 0..n /\ m - 1 \in 0..(n + 1) /\ m - 1 <= n
        BY <3>2
      <4>2. h[m] = g[m] /\ h[m - 1] = g[m - 1]
        BY <3>2, <4>1
      <4>3. g[m] = step(g[m - 1], m)
        BY <2>1, <3>2, <4>1
      <4> QED
        BY <3>2, <4>2, <4>3
    <3>3. CASE m = n + 1
      <4>1. h[m - 1] = g[n] /\ h[m] = step(g[n], m) /\ m # 0
        BY <3>3
      <4> QED
        BY <4>1
    <3> QED
      BY <3>1, <3>2, <3>3
  <2>3. h = r
    <3>1. DOMAIN h = DOMAIN r /\ h = [m \in DOMAIN h |-> h[m]] /\ r = [m \in DOMAIN r |-> r[m]]
      OBVIOUS
    <3>2. \A m \in DOMAIN h : h[m] = r[m]
      <4>1. DOMAIN h = 0..(n + 1)
        OBVIOUS
      <4> HIDE DEF h, r
      <4> QED BY <2>2, <4>1
    <3> HIDE DEF h, r
    <3> QED
      BY <3>1, <3>2
  <2>4. Keeps(h, n + 1)
    <3> HIDE DEF h
    <3> QED BY <2>3
  <2> HIDE DEF Keeps
  <2> QED
    BY <2>4
<1>3. Len(q) \in T
  <2>1. Nat \subseteq T
    <3> HIDE DEF T
    <3> QED BY <1>1, <1>2, NatInd
  <2>2. Len(q) \in Nat
    OBVIOUS
  <2> HIDE DEF T
  <2> QED
    BY <2>1, <2>2
<1> DEFINE kept == CHOOSE g : Keeps(g, Len(q))
<1>4. Keeps(kept, Len(q))
  <2>1. \E g : Keeps(g, Len(q))
    BY <1>3
  <2> HIDE DEF Keeps
  <2> QED BY <2>1
<1>5. cleanup_queue(q) = kept[Len(q)]
  BY DEF cleanup_queue
<1> HIDE DEF kept, T
<1> DEFINE Good(n) == /\ kept[n] \in Seq(S)
                      /\ \A o : o \in Members(kept[n]) <=>
                                  \E j \in 1..n : o = q[j] /\ Live(o)
           G == {n \in Nat : n <= Len(q) => Good(n)}
<1>6. 0 \in G
  <2>1. kept[0] = <<>>
    BY <1>4
  <2>2. <<>> \in Seq(S) /\ \A o : o \notin Members(<<>>)
    BY DEF Members
  <2>3. Good(0)
    <3> HIDE DEF Keeps
    <3> QED BY <2>1, <2>2
  <2> HIDE DEF Good
  <2> QED
    BY <2>3
<1>7. ASSUME NEW n \in Nat, n \in G PROVE n + 1 \in G
  <2> SUFFICES ASSUME n + 1 <= Len(q) PROVE Good(n + 1)
    OBVIOUS
  <2>1. n + 1 \in 0..Len(q) /\ n + 1 \in 1..Len(q) /\ n <= Len(q)
    OBVIOUS
  <2>2. Good(n)
    BY <1>7, <2>1
  <2>3. kept[n + 1] = step(kept[n], n + 1)
    <3> HIDE DEF step
    <3>1. kept[n + 1] = step(kept[(n + 1) - 1], n + 1)
      BY <1>4, <2>1
    <3> QED BY <3>1
  <2>4. q[n + 1] \in S
    BY <2>1
  <2>5. \A j : j \in 1..(n + 1) <=> j \in 1..n \/ j = n + 1
    OBVIOUS
  <2> HIDE DEF Keeps
  <2>6. CASE ~Live(q[n + 1])
    BY <2>2, <2>3, <2>5, <2>6
  <2>7. CASE Live(q[n + 1])
    <3>1. kept[n + 1] = Append(kept[n], q[n + 1])
      BY <2>3, <2>7
    <3>2. \A o : o \in Members(Append(kept[n], q[n + 1])) <=> o \in Members(kept[n]) \/ o = q[n + 1]
      BY <2>2, <2>4, AppendMembers
    <3>3. kept[n + 1] \in Seq(S)
      BY <3>1, <2>2, <2>4
    <3> QED
      BY <2>2, <2>5, <2>7, <3>1, <3>2, <3>3
  <2> QED
    BY <2>6, <2>7
<1>8. Good(Len(q))
  <2>1. Nat \subseteq G
    <3> HIDE DEF G
    <3> QED BY <1>6, <1>7, NatInd
  <2>2. Len(q) \in Nat
    OBVIOUS
  <2>3. Len(q) \in G
    <3> HIDE DEF G
    <3> QED BY <2>1, <2>2
  <2> HIDE DEF Good
  <2> QED
    BY <2>2, <2>3
<1> QED
  BY <1>5, <1>8 DEF Members

(***************************************************************************)
(* The basic events and the thread that is at one.                         *)
(***************************************************************************)
\* Send and receive are each the opposite of the other.
LEMMA KindsAreOpposite ==
  /\ \A k \in Kinds : Opposite[k] \in Kinds /\ Opposite[k] # k /\ Opposite[Opposite[k]] = k
  /\ "always" \notin Kinds
<1>1. Opposite["send"] = "receive" /\ Opposite["receive"] = "send"
  BY DEF Opposite
<1> QED
  BY <1>1 DEF Kinds

\* An event is always, or to send or receive on a channel.
LEMMA BasicIs ==
  ASSUME NEW e \in Basic
  PROVE  \/ e.kind = "always"
         \/ /\ e.kind \in Kinds
            /\ e.channel \in Channels
            /\ e = [kind |-> e.kind, channel |-> e.channel]
BY DEF Basic, Sends, Receives, Always, Kinds

\* A thread in a call has a sync, with a choice of events,
LEMMA SelfIs ==
  ASSUME TypeOK, ThreadInv, NEW t \in Threads, pc[t] # "idle"
  PROVE  /\ self[t] \in Syncs
         /\ self[t] <= calls
         /\ menu[self[t]] \in Seq(Basic)
         /\ DOMAIN menu[self[t]] = 1..Len(menu[self[t]])
         /\ Len(menu[self[t]]) \in Nat
<1>1. self[t] \in Syncs /\ self[t] <= calls
  BY EventAssumption DEF TypeOK, ThreadInv, Syncs
<1> QED
  BY <1>1 DEF TypeOK

\* and is at one of them.
LEMMA EvIs ==
  ASSUME TypeOK, ThreadInv, NEW t \in Threads, pc[t] # "idle", i[t] \in DOMAIN menu[self[t]]
  PROVE  /\ Ev(t) = menu[self[t]][i[t]]
         /\ Ev(t) \in Basic
         /\ Ev(t).kind # "always" => /\ Ev(t).kind \in Kinds
                                     /\ Ev(t).channel \in Channels
                                     /\ Ev(t) = [kind |-> Ev(t).kind, channel |-> Ev(t).channel]
<1>1. Ev(t) \in Basic /\ Ev(t) = menu[self[t]][i[t]]
  BY SelfIs DEF Ev
<1> QED
  BY <1>1, BasicIs

\* Rendez-vous that are over are not disturbed.
LEMMA CommsKept ==
  ASSUME TypeOK, RendezvousMatched, DataInv, UNCHANGED <<menu, data, partner>>,
         \A y \in Syncs : partner[y] # None => performed'[y] = performed[y]
  PROVE  RendezvousMatched' /\ DataInv'
<1>1. ASSUME NEW x \in Syncs, partner[x] # None
      PROVE  LET y == partner[x]
             IN  /\ partner[y] = x
                 /\ Chosen(x)'.channel = Chosen(y)'.channel
                 /\ Chosen(x)'.kind = Opposite[Chosen(y)'.kind]
                 /\ data[x][performed'[x]] = data[y][performed'[y]]
  <2> DEFINE y == partner[x]
  <2>1. y \in Syncs /\ partner[y] = x
    <3>1. y \in Syncs
      BY <1>1 DEF TypeOK
    <3>2. partner[y] = x
      BY <1>1 DEF RendezvousMatched
    <3> QED
      BY <3>1, <3>2
  <2>2. x # None
    BY EventAssumption
  <2>3. performed'[x] = performed[x] /\ performed'[y] = performed[y]
    BY <1>1, <2>1, <2>2
  <2>4. Chosen(x)' = Chosen(x) /\ Chosen(y)' = Chosen(y)
    BY <2>3 DEF Chosen
  <2> QED
    BY <1>1, <2>1, <2>3, <2>4 DEF RendezvousMatched
<1>2. RendezvousMatched'
  BY <1>1 DEF RendezvousMatched, Chosen
<1>3. DataInv'
  BY DEF DataInv
<1> QED
  BY <1>2, <1>3

\* Offers stay right while none is added.
LEMMA OffersKept ==
  ASSUME OfferInv, UNCHANGED <<calls, self, menu>>,
         \A k \in Kinds : \A c \in Channels :
           \A o \in Members(pending'[k][c]) : o \in Members(pending[k][c]),
         \A u \in Threads : pc'[u] \in {"sync", "poll"} => pc[u] \in {"sync", "poll"}
  PROVE  OfferInv'
<1>1. ASSUME NEW k \in Kinds, NEW c \in Channels, NEW o \in Members(pending'[k][c])
      PROVE  /\ o.sync <= calls'
             /\ o.event \in DOMAIN menu'[o.sync]
             /\ menu'[o.sync][o.event] = [kind |-> k, channel |-> c]
             /\ \A t \in Threads : self'[t] = o.sync => pc'[t] \notin {"sync", "poll"}
  <2>1. UNCHANGED <<calls, self, menu>>
    OBVIOUS
  <2>2. o \in Members(pending[k][c])
    BY <1>1
  <2>3. /\ o.sync <= calls
        /\ o.event \in DOMAIN menu[o.sync]
        /\ menu[o.sync][o.event] = [kind |-> k, channel |-> c]
        /\ \A t \in Threads : self[t] = o.sync => pc[t] \notin {"sync", "poll"}
    BY <2>2 DEF OfferInv
  <2> QED
    BY <2>1, <2>3
<1> QED
  BY <1>1 DEF OfferInv

\* No offer of a sync that is not performed is lost.
Unlost ==
  \A k \in Kinds : \A c \in Channels : \A o \in Members(pending[k][c]) :
    performed'[o.sync] = -1 => o \in Members(pending'[k][c])

\* The offers of the suspended stay in the queues when none of them is lost.
LEMMA QueuesKept ==
  ASSUME TypeOK, ThreadInv, QueueInv, Unlost, UNCHANGED <<self, menu>>,
         \A u \in Threads : pc'[u] # "idle" /\ performed'[self[u]] = -1 =>
           /\ pc[u] # "idle" /\ performed[self[u]] = -1
           /\ \A j \in Offered(u)' :
                \/ j \in Offered(u)
                \/ menu[self[u]][j].kind = "always"
                \/ [sync |-> self[u], event |-> j] \in Members(Queue(menu[self[u]][j])')
  PROVE  QueueInv'
<1>1. ASSUME NEW u \in Threads, pc'[u] # "idle", performed'[self'[u]] = -1,
             NEW j \in Offered(u)', menu'[self'[u]][j].kind # "always"
      PROVE  [sync |-> self'[u], event |-> j] \in Members(Queue(menu[self[u]][j])')
  <2> DEFINE o == [sync |-> self[u], event |-> j]
             e == menu[self[u]][j]
  <2>1. UNCHANGED <<self, menu>>
    OBVIOUS
  <2>2. SUFFICES ASSUME j \in Offered(u) PROVE o \in Members(Queue(e)')
    BY <1>1, <2>1
  <2>3. o \in Members(Queue(e))
    BY <1>1, <2>1, <2>2 DEF QueueInv
  <2>4. e \in Basic
    BY <1>1, <2>2, SelfIs DEF Offered
  <2>5. e.kind \in Kinds /\ e.channel \in Channels
    BY <1>1, <2>1, <2>4, BasicIs
  <2>6. o.sync = self[u] /\ performed'[self[u]] = -1
    BY <1>1, <2>1
  <2> HIDE DEF o, e
  <2>7. o \in Members(pending[e.kind][e.channel])
    BY <2>3 DEF Queue
  <2>8. o \in Members(pending'[e.kind][e.channel])
    BY <2>5, <2>6, <2>7 DEF Unlost
  <2> QED
    BY <2>1, <2>8 DEF Queue, e
<1> QED
  BY <1>1 DEF QueueInv

\* Nothing is lost when the queues do not change.
LEMMA SamePending == ASSUME UNCHANGED pending PROVE Unlost
BY DEF Unlost

\* The suspended stay unmatched while nothing is offered or looked for.
LEMMA UnmatchedKept ==
  ASSUME UnmatchedInv, UNCHANGED <<self, menu>>,
         \A u \in Threads : pc'[u] # "idle" /\ performed'[self[u]] = -1 =>
           /\ pc[u] # "idle" /\ performed[self[u]] = -1
           /\ \A j \in Offered(u)' : j \in Offered(u)
           /\ \A j \in Considered(u)' : j \in Considered(u)
  PROVE  UnmatchedInv'
<1>1. UNCHANGED <<self, menu>>
  OBVIOUS
<1> QED
  BY <1>1 DEF UnmatchedInv

\* The invariant holds initially.
LEMMA InitInv == ASSUME Init PROVE IInv
<1> USE DEF Init, Monitor!Init
<1>1. TypeOK
  <2>1. <<>> \in Seq(Basic) /\ <<>> \in Seq(Offer) /\ <<>> \in Seq(Syncs \cup {None}) /\ Len(<<>>) = 0
    OBVIOUS
  <2>2. \A x \in Syncs : data[x] \in [DOMAIN menu[x] -> Syncs \cup {None}]
    BY <2>1
  <2>3. pending \in [Kinds -> [Channels -> Seq(Offer)]]
    BY <2>1 DEF Kinds
  <2> QED
    BY <2>1, <2>2, <2>3, EventAssumption DEF TypeOK, Conditions, Inside
<1>2. ThreadInv
  BY EventAssumption DEF ThreadInv, Inside
<1>3. WaitInv
  BY DEF WaitInv, PerformedIsWoken, Conditions
<1>4. PerformedInv
  BY DEF PerformedInv
<1>5. DataInv
  BY DEF DataInv
<1>6. RendezvousMatched
  BY DEF RendezvousMatched
<1>7. OfferInv
  <2>1. \A k \in Kinds : \A c \in Channels : Members(pending[k][c]) = {}
    BY DEF Kinds, Members
  <2> QED
    BY <2>1 DEF OfferInv
<1>8. QueueInv
  BY DEF QueueInv
<1>9. UnmatchedInv
  BY DEF UnmatchedInv
<1> QED
  BY <1>1, <1>2, <1>3, <1>4, <1>5, <1>6, <1>7, <1>8, <1>9 DEF IInv

(***************************************************************************)
(* The steps that neither make nor take an offer.                          *)
(***************************************************************************)
\* Every event has been looked for.
LEMMA PollEndsStep ==
  ASSUME IInv, NEW t \in Threads, PollEnds(t)
  PROVE  IInv'
<1> USE DEF PollEnds, Goto, comms, monitor
<1>0. /\ TypeOK /\ ThreadInv /\ WaitInv /\ PerformedInv /\ DataInv /\ RendezvousMatched
      /\ OfferInv /\ QueueInv /\ UnmatchedInv
  BY DEF IInv
<1>s. self[t] \in Syncs
  BY <1>0, SelfIs DEF TypeOK
<1>1. TypeOK'
  BY <1>0, <1>s DEF TypeOK, Inside
<1>2. ThreadInv'
  BY <1>0, <1>s, EventAssumption DEF TypeOK, ThreadInv, Inside
<1>3. WaitInv'
  BY <1>0, <1>s DEF TypeOK, ThreadInv, WaitInv, PerformedIsWoken, PerformedInv, Inside
<1>4. PerformedInv'
  BY <1>0, <1>s DEF TypeOK, PerformedInv, Chosen
<1>5. DataInv' /\ RendezvousMatched'
  BY <1>0, CommsKept
<1>6. OfferInv'
  <2>1. \A u \in Threads : pc'[u] \in {"sync", "poll"} => pc[u] \in {"sync", "poll"}
    BY <1>0 DEF TypeOK
  <2> QED
    BY <1>0, <2>1, OffersKept
<1>7. QueueInv'
  BY <1>0, <1>s DEF TypeOK, QueueInv, Offered, Queue, ThreadInv
<1>8. UnmatchedInv'
  <2>1. pc[t] = "sync" => Considered(t) = DOMAIN menu[self[t]]
    <3>1. i[t] \in Nat \ {0} /\ Len(menu[self[t]]) \in Nat
          /\ DOMAIN menu[self[t]] = 1..Len(menu[self[t]])
      BY <1>0, SelfIs DEF TypeOK
    <3>2. i[t] > Len(menu[self[t]])
      BY <3>1
    <3> QED
      BY <3>1, <3>2 DEF Considered
  <2>2. ASSUME NEW u \in Threads
        PROVE  /\ u # t => Considered(u)' = Considered(u) /\ Offered(u)' = Offered(u)
               /\ \A j \in Considered(u)' : j \in Considered(u)
               /\ \A j \in Offered(u)' : j \in Offered(u)
    <3>1. CASE u # t
      <4>1. pc'[u] = pc[u] /\ i'[u] = i[u]
        BY <1>0, <3>1 DEF TypeOK
      <4> QED
        BY <3>1, <4>1 DEF Considered, Offered
    <3>2. CASE u = t
      <4>1. (pc[t] = "sync" /\ pc'[t] = "suspend" /\ i'[t] = 1) \/ pc'[t] = "cancel"
        BY <1>0 DEF TypeOK
      <4>2. \A j \in DOMAIN menu[self[t]] : ~(j < 1)
        BY <1>0, SelfIs
      <4> QED
        BY <3>2, <4>1, <4>2, <2>1 DEF Considered, Offered
    <3> QED
      BY <3>1, <3>2
  <2>3. \A u \in Threads : pc'[u] # "idle" => pc[u] # "idle"
    BY <1>0 DEF TypeOK
  <2>4. UNCHANGED <<menu, self, performed>>
    OBVIOUS
  <2> QED
    BY <1>0, <2>2, <2>3, <2>4 DEF UnmatchedInv
<1> QED
  BY <1>1, <1>2, <1>3, <1>4, <1>5, <1>6, <1>7, <1>8 DEF IInv

\* Every event has been offered.
LEMMA WaitFirstStep ==
  ASSUME IInv, NEW t \in Threads, WaitFirst(t)
  PROVE  IInv'
<1> USE DEF WaitFirst, Goto, comms, Monitor!Wait, Monitor!Awake
<1>0. /\ TypeOK /\ ThreadInv /\ WaitInv /\ PerformedInv /\ DataInv /\ RendezvousMatched
      /\ OfferInv /\ QueueInv /\ UnmatchedInv
  BY DEF IInv
<1>s. self[t] \in Syncs
  BY <1>0, SelfIs DEF TypeOK
<1>1. TypeOK'
  BY <1>0, <1>s DEF TypeOK, Inside
<1>2. ThreadInv'
  BY <1>0, <1>s, EventAssumption DEF TypeOK, ThreadInv, Inside
<1>3. WaitInv'
  BY <1>0, <1>s DEF TypeOK, ThreadInv, WaitInv, PerformedIsWoken, PerformedInv, Inside
<1>4. PerformedInv'
  BY <1>0, <1>s DEF TypeOK, PerformedInv, Chosen
<1>5. DataInv' /\ RendezvousMatched'
  BY <1>0, CommsKept
<1>6. OfferInv'
  <2>1. \A u \in Threads : pc'[u] \in {"sync", "poll"} => pc[u] \in {"sync", "poll"}
    BY <1>0 DEF TypeOK
  <2> QED
    BY <1>0, <2>1, OffersKept
<1>7. QueueInv'
  <2>1. \A j \in DOMAIN menu[self[t]] : j < i[t]
    <3>1. i[t] \in Nat \ {0} /\ Len(menu[self[t]]) \in Nat
          /\ DOMAIN menu[self[t]] = 1..Len(menu[self[t]])
      BY <1>0, SelfIs DEF TypeOK
    <3> QED
      BY <3>1
  <2>2. ASSUME NEW u \in Threads, pc'[u] # "idle"
        PROVE  pc[u] # "idle" /\ \A j \in Offered(u)' : j \in Offered(u)
    <3>1. CASE u = t
      <4>1. pc[t] = "suspend" /\ pc'[t] = "wait"
        BY <1>0 DEF TypeOK
      <4> QED
        BY <3>1, <4>1, <2>1 DEF Offered
    <3>2. CASE u # t
      BY <1>0, <2>2, <3>2 DEF Offered, TypeOK
    <3> QED
      BY <3>1, <3>2
  <2> QED
    BY <1>0, <2>2, SamePending, QueuesKept
<1>8. UnmatchedInv'
  BY <1>0, <1>s DEF TypeOK, UnmatchedInv, Offered, Considered, ThreadInv
<1> QED
  BY <1>1, <1>2, <1>3, <1>4, <1>5, <1>6, <1>7, <1>8 DEF IInv

\* The waiting thread wakes up,
LEMMA WaitReturnsStep ==
  ASSUME IInv, NEW t \in Threads, WaitReturns(t)
  PROVE  IInv'
<1> USE DEF WaitReturns, Goto, comms, Monitor!Relock
<1>0. /\ TypeOK /\ ThreadInv /\ WaitInv /\ PerformedInv /\ DataInv /\ RendezvousMatched
      /\ OfferInv /\ QueueInv /\ UnmatchedInv
  BY DEF IInv
<1>s. self[t] \in Syncs
  BY <1>0, SelfIs DEF TypeOK
<1>1. TypeOK'
  BY <1>0, <1>s DEF TypeOK, Inside
<1>2. ThreadInv'
  BY <1>0, <1>s, EventAssumption DEF TypeOK, ThreadInv, Inside
<1>3. WaitInv'
  BY <1>0, <1>s DEF TypeOK, ThreadInv, WaitInv, PerformedIsWoken, PerformedInv, Inside
<1>4. PerformedInv'
  BY <1>0, <1>s DEF TypeOK, PerformedInv, Chosen
<1>5. DataInv' /\ RendezvousMatched'
  BY <1>0, CommsKept
<1>6. OfferInv'
  <2>1. \A u \in Threads : pc'[u] \in {"sync", "poll"} => pc[u] \in {"sync", "poll"}
    BY <1>0 DEF TypeOK
  <2> QED
    BY <1>0, <2>1, OffersKept
<1>7. QueueInv'
  BY <1>0, <1>s DEF TypeOK, QueueInv, Offered, Queue, ThreadInv
<1>8. UnmatchedInv'
  BY <1>0, <1>s DEF TypeOK, UnmatchedInv, Offered, Considered, ThreadInv
<1> QED
  BY <1>1, <1>2, <1>3, <1>4, <1>5, <1>6, <1>7, <1>8 DEF IInv

\* waits again,
LEMMA WaitAgainStep ==
  ASSUME IInv, NEW t \in Threads, WaitAgain(t)
  PROVE  IInv'
<1> USE DEF WaitAgain, Goto, comms, Monitor!Wait, Monitor!Awake
<1>0. /\ TypeOK /\ ThreadInv /\ WaitInv /\ PerformedInv /\ DataInv /\ RendezvousMatched
      /\ OfferInv /\ QueueInv /\ UnmatchedInv
  BY DEF IInv
<1>s. self[t] \in Syncs
  BY <1>0, SelfIs DEF TypeOK
<1>1. TypeOK'
  BY <1>0, <1>s DEF TypeOK, Inside
<1>2. ThreadInv'
  BY <1>0, <1>s, EventAssumption DEF TypeOK, ThreadInv, Inside
<1>3. WaitInv'
  BY <1>0, <1>s DEF TypeOK, ThreadInv, WaitInv, PerformedIsWoken, PerformedInv, Inside
<1>4. PerformedInv'
  BY <1>0, <1>s DEF TypeOK, PerformedInv, Chosen
<1>5. DataInv' /\ RendezvousMatched'
  BY <1>0, CommsKept
<1>6. OfferInv'
  <2>1. \A u \in Threads : pc'[u] \in {"sync", "poll"} => pc[u] \in {"sync", "poll"}
    BY <1>0 DEF TypeOK
  <2> QED
    BY <1>0, <2>1, OffersKept
<1>7. QueueInv'
  BY <1>0, <1>s DEF TypeOK, QueueInv, Offered, Queue, ThreadInv
<1>8. UnmatchedInv'
  BY <1>0, <1>s DEF TypeOK, UnmatchedInv, Offered, Considered, ThreadInv
<1> QED
  BY <1>1, <1>2, <1>3, <1>4, <1>5, <1>6, <1>7, <1>8 DEF IInv

\* or finds its event performed.
LEMMA WaitDoneStep ==
  ASSUME IInv, NEW t \in Threads, WaitDone(t)
  PROVE  IInv'
<1> USE DEF WaitDone, Goto, comms, monitor
<1>0. /\ TypeOK /\ ThreadInv /\ WaitInv /\ PerformedInv /\ DataInv /\ RendezvousMatched
      /\ OfferInv /\ QueueInv /\ UnmatchedInv
  BY DEF IInv
<1>s. self[t] \in Syncs
  BY <1>0, SelfIs DEF TypeOK
<1>1. TypeOK'
  BY <1>0, <1>s DEF TypeOK, Inside
<1>2. ThreadInv'
  BY <1>0, <1>s, EventAssumption DEF TypeOK, ThreadInv, Inside
<1>3. WaitInv'
  BY <1>0, <1>s DEF TypeOK, ThreadInv, WaitInv, PerformedIsWoken, PerformedInv, Inside
<1>4. PerformedInv'
  BY <1>0, <1>s DEF TypeOK, PerformedInv, Chosen
<1>5. DataInv' /\ RendezvousMatched'
  BY <1>0, CommsKept
<1>6. OfferInv'
  <2>1. \A u \in Threads : pc'[u] \in {"sync", "poll"} => pc[u] \in {"sync", "poll"}
    BY <1>0 DEF TypeOK
  <2> QED
    BY <1>0, <2>1, OffersKept
<1>7. QueueInv'
  BY <1>0, <1>s DEF TypeOK, QueueInv, Offered, Queue, ThreadInv
<1>8. UnmatchedInv'
  BY <1>0, <1>s DEF TypeOK, UnmatchedInv, Offered, Considered, ThreadInv
<1> QED
  BY <1>1, <1>2, <1>3, <1>4, <1>5, <1>6, <1>7, <1>8 DEF IInv

\* The call is over.
LEMMA UnlockStep ==
  ASSUME IInv, NEW t \in Threads, Unlock(t)
  PROVE  IInv'
<1> USE DEF Unlock, Goto, comms, Monitor!Unlock, Monitor!Awake
<1>0. /\ TypeOK /\ ThreadInv /\ WaitInv /\ PerformedInv /\ DataInv /\ RendezvousMatched
      /\ OfferInv /\ QueueInv /\ UnmatchedInv
  BY DEF IInv
<1>s. self[t] \in Syncs
  BY <1>0, SelfIs DEF TypeOK
<1>1. TypeOK'
  BY <1>0, <1>s DEF TypeOK, Inside
<1>2. ThreadInv'
  BY <1>0, <1>s, EventAssumption DEF TypeOK, ThreadInv, Inside
<1>3. WaitInv'
  BY <1>0, <1>s DEF TypeOK, ThreadInv, WaitInv, PerformedIsWoken, PerformedInv, Inside
<1>4. PerformedInv'
  BY <1>0, <1>s DEF TypeOK, PerformedInv, Chosen
<1>5. DataInv' /\ RendezvousMatched'
  BY <1>0, CommsKept
<1>6. OfferInv'
  <2>1. \A u \in Threads : pc'[u] \in {"sync", "poll"} => pc[u] \in {"sync", "poll"}
    BY <1>0 DEF TypeOK
  <2> QED
    BY <1>0, <2>1, OffersKept
<1>7. QueueInv'
  BY <1>0, <1>s DEF TypeOK, QueueInv, Offered, Queue, ThreadInv
<1>8. UnmatchedInv'
  BY <1>0, <1>s DEF TypeOK, UnmatchedInv, Offered, Considered, ThreadInv
<1> QED
  BY <1>1, <1>2, <1>3, <1>4, <1>5, <1>6, <1>7, <1>8 DEF IInv

\* Somebody is woken up for no reason.
LEMMA SpuriousStep ==
  ASSUME IInv, Spurious
  PROVE  IInv'
<1> USE DEF Spurious, comms, Monitor!Wake
<1>0. /\ TypeOK /\ ThreadInv /\ WaitInv /\ PerformedInv /\ DataInv /\ RendezvousMatched
      /\ OfferInv /\ QueueInv /\ UnmatchedInv
  BY DEF IInv
<1>1. TypeOK'
  BY <1>0 DEF TypeOK
<1>2. ThreadInv'
  BY <1>0 DEF ThreadInv
<1>3. WaitInv'
  BY <1>0 DEF TypeOK, ThreadInv, WaitInv, PerformedIsWoken
<1>4. PerformedInv'
  BY <1>0 DEF PerformedInv, Chosen
<1>5. DataInv' /\ RendezvousMatched'
  BY <1>0, CommsKept
<1>6. OfferInv'
  BY <1>0, OffersKept
<1>7. QueueInv'
  BY <1>0, SamePending, QueuesKept DEF Offered
<1>8. UnmatchedInv'
  BY <1>0, UnmatchedKept DEF Offered, Considered
<1> QED
  BY <1>1, <1>2, <1>3, <1>4, <1>5, <1>6, <1>7, <1>8 DEF IInv

\* A sync performs an event by itself, or gives up.
LEMMA AloneStep ==
  ASSUME IInv, NEW t \in Threads, PollAlways(t) \/ Cancel(t)
  PROVE  IInv'
<1> DEFINE x == self[t]
           e == performed'[x]
<1>0. /\ TypeOK /\ ThreadInv /\ WaitInv /\ PerformedInv /\ DataInv /\ RendezvousMatched
      /\ OfferInv /\ QueueInv /\ UnmatchedInv
  BY DEF IInv
<1>a. /\ pc[t] \in {"sync", "poll", "cancel"} /\ pc' = [pc EXCEPT ![t] = "unlock"]
      /\ UNCHANGED <<owner, waiting, woken, calls, self, i, menu, data, pending, partner>>
  BY DEF PollAlways, Cancel, Polling, Goto, monitor
<1>b. x \in Syncs /\ x <= calls /\ performed[x] = -1 /\ Len(menu[x]) \in Nat
      /\ DOMAIN menu[x] = 1..Len(menu[x]) /\ partner[x] = None
  BY <1>0, <1>a, SelfIs DEF PerformedInv
<1>c. /\ e \in 0..Len(menu[x])
      /\ performed' = [performed EXCEPT ![x] = e]
      /\ e > 0 => menu[x][e].kind = "always"
  BY <1>0, <1>b DEF TypeOK, PollAlways, Cancel, Polling, Ev
<1>d. /\ performed'[x] = e /\ e \in Int /\ e >= 0
      /\ \A y \in Syncs : y # x => performed'[y] = performed[y]
  BY <1>0, <1>b, <1>c DEF TypeOK
<1> HIDE DEF x, e
<1>e. x = self[t]
  BY DEF x
<1>1. TypeOK'
  BY <1>0, <1>a, <1>c, <1>d DEF TypeOK, Inside
<1>2. ThreadInv'
  BY <1>0, <1>a DEF TypeOK, ThreadInv, Inside
<1>3. WaitInv'
  BY <1>0, <1>a, <1>b, <1>d, <1>e DEF TypeOK, ThreadInv, WaitInv, PerformedIsWoken, Syncs
<1>4. PerformedInv'
  BY <1>0, <1>a, <1>b, <1>c, <1>d, <1>e DEF TypeOK, ThreadInv, PerformedInv, Chosen, Syncs
<1>5. DataInv' /\ RendezvousMatched'
  BY <1>0, <1>a, <1>b, <1>d, CommsKept
<1>6. OfferInv'
  <2>1. \A u \in Threads : pc'[u] \in {"sync", "poll"} => pc[u] \in {"sync", "poll"}
    BY <1>0, <1>a DEF TypeOK
  <2> QED
    BY <1>0, <1>a, <2>1, OffersKept
<1>7. ASSUME NEW u \in Threads, pc'[u] # "idle", performed'[self[u]] = -1
      PROVE  /\ pc[u] # "idle" /\ performed[self[u]] = -1
             /\ \A j \in Offered(u)' : j \in Offered(u)
             /\ \A j \in Considered(u)' : j \in Considered(u)
  <2>1. u # t
    BY <1>7, <1>d, <1>e
  <2>2. pc'[u] = pc[u]
    BY <1>0, <1>a, <2>1 DEF TypeOK
  <2>3. self[u] # self[t] /\ self[u] \in Syncs
    BY <1>0, <1>7, <1>b, <1>e, <2>1, <2>2, SelfIs DEF ThreadInv, Syncs
  <2>4. Offered(u)' = Offered(u) /\ Considered(u)' = Considered(u)
    BY <1>a, <2>2 DEF Offered, Considered
  <2> QED
    BY <1>7, <1>d, <1>e, <2>2, <2>3, <2>4
<1>8. QueueInv'
  BY <1>0, <1>7, <1>a, SamePending, QueuesKept
<1>9. UnmatchedInv'
  BY <1>0, <1>7, <1>a, UnmatchedKept
<1> QED
  BY <1>1, <1>2, <1>3, <1>4, <1>5, <1>6, <1>8, <1>9 DEF IInv

\* A poll that fails has looked at every offer that could be taken.
LEMMA PollFailsStep ==
  ASSUME IInv, NEW t \in Threads, PollFails(t)
  PROVE  IInv'
<1> DEFINE x == self[t]
           e == Ev(t)
           ko == Opposite[e.kind]
           q == pending[ko][e.channel]
<1>0. /\ TypeOK /\ ThreadInv /\ WaitInv /\ PerformedInv /\ DataInv /\ RendezvousMatched
      /\ OfferInv /\ QueueInv /\ UnmatchedInv
  BY DEF IInv
<1>a. /\ pc[t] \in {"sync", "poll"} /\ i[t] \in DOMAIN menu[x] /\ e.kind # "always"
      /\ FirstLive(q) = 0
      /\ pending' = [pending EXCEPT ![ko][e.channel] = <<>>]
      /\ i' = [i EXCEPT ![t] = @ + 1]
      /\ UNCHANGED <<owner, waiting, woken, calls, self, pc, menu, performed, data, partner>>
  BY DEF PollFails, Polling, Partners, SetPartners, monitor
<1>b. /\ x \in Syncs /\ e \in Basic /\ e = menu[x][i[t]]
      /\ e.kind \in Kinds /\ e.channel \in Channels /\ ko \in Kinds
  BY <1>0, <1>a, SelfIs, EvIs, KindsAreOpposite
<1>c. \A o \in Members(q) : ~Live(o)
  <2>1. q \in Seq(Offer)
    BY <1>0, <1>b DEF TypeOK
  <2> HIDE DEF q
  <2>2. Len(q) \in Nat
    BY <2>1
  <2> QED
    BY <1>a, <2>2, FirstLiveIs DEF Members
<1> HIDE DEF x, e, ko
<1>d. /\ pending' \in [Kinds -> [Channels -> Seq(Offer)]]
      /\ \A k \in Kinds : \A c \in Channels :
           pending'[k][c] = IF k = ko /\ c = e.channel THEN <<>> ELSE pending[k][c]
  <2>1. <<>> \in Seq(Offer)
    OBVIOUS
  <2>2. pending \in [Kinds -> [Channels -> Seq(Offer)]]
    BY <1>0 DEF TypeOK
  <2> HIDE DEF q
  <2> QED
    BY <1>a, <1>b, <2>1, <2>2
<1>e. Members(<<>>) = {}
  BY DEF Members
<1>1. TypeOK'
  BY <1>0, <1>a, <1>d DEF TypeOK
<1>2. ThreadInv'
  BY <1>0, <1>a DEF TypeOK, ThreadInv
<1>3. WaitInv'
  BY <1>0, <1>a DEF WaitInv, PerformedIsWoken
<1>4. PerformedInv'
  BY <1>0, <1>a DEF PerformedInv, Chosen
<1>5. DataInv' /\ RendezvousMatched'
  BY <1>0, <1>a, CommsKept
<1>6. OfferInv'
  <2>1. \A k \in Kinds : \A c \in Channels :
          \A o \in Members(pending'[k][c]) : o \in Members(pending[k][c])
    BY <1>d, <1>e
  <2> QED
    BY <1>0, <1>a, <2>1, OffersKept
<1>7. QueueInv'
  <2>1. Unlost
    <3>1. ASSUME NEW k \in Kinds, NEW c \in Channels, NEW o \in Members(pending[k][c]),
                 performed'[o.sync] = -1
          PROVE  o \in Members(pending'[k][c])
      <4>1. Live(o)
        BY <1>a, <3>1 DEF Live
      <4>2. ~(k = ko /\ c = e.channel)
        BY <1>c, <3>1, <4>1
      <4> QED
        BY <1>d, <3>1, <4>2
    <3> QED
      BY <3>1 DEF Unlost
  <2>2. \A u \in Threads : Offered(u)' = Offered(u)
    BY <1>0, <1>a DEF Offered, TypeOK
  <2> QED
    BY <1>0, <1>a, <2>1, <2>2, QueuesKept
<1>8. UnmatchedInv'
  <2>1. ASSUME NEW u \in Threads PROVE Offered(u)' = Offered(u)
    BY <1>0, <1>a DEF Offered, TypeOK
  <2>2. ASSUME NEW u \in Threads, NEW j \in Considered(u)'
        PROVE  j \in Considered(u) \/ (u = t /\ j = i[t])
    <3>1. CASE u = t
      <4>1. i'[t] = i[t] + 1 /\ i[t] \in Nat
        BY <1>0, <1>a DEF TypeOK
      <4>2. pc[t] = "sync" /\ j \in DOMAIN menu[self[t]] /\ j < i[t] + 1
        BY <1>a, <2>2, <3>1, <4>1 DEF Considered
      <4>3. j \in Nat
        BY <1>0, <1>a, <4>2, SelfIs
      <4> QED
        BY <3>1, <4>1, <4>2, <4>3 DEF Considered
    <3>2. CASE u # t
      BY <1>0, <1>a, <2>2, <3>2 DEF Considered, TypeOK
    <3> QED
      BY <3>1, <3>2
  <2>3. ASSUME NEW u \in Threads, u # t, pc[u] # "idle", performed[self[u]] = -1,
               NEW k \in Offered(u)
        PROVE  ~Fits(menu[x][i[t]], menu[self[u]][k])
    <3> DEFINE f == menu[self[u]][k]
               o == [sync |-> self[u], event |-> k]
    <3> SUFFICES ASSUME Fits(e, f) PROVE FALSE
      BY <1>b
    <3>1. f.kind = ko /\ f.channel = e.channel
      BY DEF Fits, ko
    <3>2. f.kind # "always"
      BY <1>b, <3>1, KindsAreOpposite
    <3>3. o \in Members(q)
      BY <1>0, <2>3, <3>1, <3>2 DEF QueueInv, Queue
    <3>4. Live(o)
      BY <2>3 DEF Live
    <3> QED
      BY <1>c, <3>3, <3>4
  <2>4. UNCHANGED <<pc, self, menu, performed>>
    BY <1>a
  <2>5. ASSUME NEW v \in Threads, NEW u \in Threads, v # u,
               pc[v] # "idle", performed[self[v]] = -1,
               pc[u] # "idle", performed[self[u]] = -1,
               NEW j \in Considered(v)', NEW k \in Offered(u)'
        PROVE  ~Fits(menu[self[v]][j], menu[self[u]][k])
    <3>1. k \in Offered(u)
      BY <2>1, <2>5
    <3>2. CASE j \in Considered(v)
      BY <1>0, <2>5, <3>1, <3>2 DEF UnmatchedInv
    <3>3. CASE v = t /\ j = i[t]
      BY <2>3, <2>5, <3>1, <3>3 DEF x
    <3> QED
      BY <2>2, <2>5, <3>2, <3>3
  <2> QED
    BY <2>4, <2>5 DEF UnmatchedInv
<1> QED
  BY <1>1, <1>2, <1>3, <1>4, <1>5, <1>6, <1>7, <1>8 DEF IInv

\* An offer is made.
LEMMA SuspendStep ==
  ASSUME IInv, NEW t \in Threads, Suspend(t)
  PROVE  IInv'
<1> DEFINE x == self[t]
           e == Ev(t)
           q == pending[e.kind][e.channel]
           offer == [sync |-> x, event |-> i[t]]
<1>0. /\ TypeOK /\ ThreadInv /\ WaitInv /\ PerformedInv /\ DataInv /\ RendezvousMatched
      /\ OfferInv /\ QueueInv /\ UnmatchedInv
  BY DEF IInv
<1>a. /\ pc[t] = "suspend" /\ i[t] \in DOMAIN menu[x]
      /\ i' = [i EXCEPT ![t] = @ + 1]
      /\ UNCHANGED <<owner, waiting, woken, calls, self, pc, menu, performed, data, partner>>
  BY DEF Suspend, monitor
<1>b. /\ x \in Syncs /\ e \in Basic /\ e = menu[x][i[t]] /\ x <= calls
      /\ e.kind # "always" => /\ e.kind \in Kinds /\ e.channel \in Channels
                              /\ e = [kind |-> e.kind, channel |-> e.channel]
  BY <1>0, <1>a, SelfIs, EvIs
<1>c. offer \in Offer /\ offer.sync = x /\ offer.event = i[t]
  BY <1>0, <1>b DEF TypeOK, Offer
<1>d. /\ pending' \in [Kinds -> [Channels -> Seq(Offer)]]
      /\ \A k \in Kinds : \A c \in Channels : \A o \in Members(pending'[k][c]) :
           \/ o \in Members(pending[k][c])
           \/ o = offer /\ e = [kind |-> k, channel |-> c]
      /\ \A k \in Kinds : \A c \in Channels : \A o \in Members(pending[k][c]) :
           Live(o) => o \in Members(pending'[k][c])
      /\ e.kind # "always" => offer \in Members(pending'[e.kind][e.channel])
  <2>0. pending \in [Kinds -> [Channels -> Seq(Offer)]]
    BY <1>0 DEF TypeOK
  <2>1. CASE e.kind = "always"
    <3>1. pending' = pending
      BY <2>1 DEF Suspend
    <3> QED
      BY <2>0, <2>1, <3>1
  <2>2. CASE e.kind # "always"
    <3> DEFINE r == Append(cleanup_queue(q), offer)
    <3>1. q \in Seq(Offer)
      BY <1>b, <2>0, <2>2
    <3>2. pending' = [pending EXCEPT ![e.kind][e.channel] = r]
      BY <2>2 DEF Suspend
    <3> HIDE DEF q, offer, e, x
    <3>3. /\ cleanup_queue(q) \in Seq(Offer)
          /\ \A o : o \in Members(cleanup_queue(q)) <=> o \in Members(q) /\ Live(o)
      BY <3>1, CleanupIs
    <3>4. /\ r \in Seq(Offer)
          /\ \A o : o \in Members(r) <=> (o \in Members(q) /\ Live(o)) \/ o = offer
      <4>1. \A o : o \in Members(r) <=> o \in Members(cleanup_queue(q)) \/ o = offer
        BY <1>c, <3>3, AppendMembers
      <4> QED
        BY <1>c, <3>3, <4>1
    <3> HIDE DEF r
    <3>5. /\ pending' \in [Kinds -> [Channels -> Seq(Offer)]]
          /\ \A k \in Kinds : \A c \in Channels :
               pending'[k][c] = IF k = e.kind /\ c = e.channel THEN r ELSE pending[k][c]
      BY <1>b, <2>0, <2>2, <3>2, <3>4
    <3>6. q = pending[e.kind][e.channel]
      BY DEF q
    <3>7. ASSUME NEW k \in Kinds, NEW c \in Channels, NEW o \in Members(pending'[k][c])
          PROVE  o \in Members(pending[k][c]) \/ (o = offer /\ e = [kind |-> k, channel |-> c])
      BY <1>b, <2>2, <3>4, <3>5, <3>6, <3>7
    <3>8. ASSUME NEW k \in Kinds, NEW c \in Channels, NEW o \in Members(pending[k][c]), Live(o)
          PROVE  o \in Members(pending'[k][c])
      BY <3>4, <3>5, <3>6, <3>8
    <3>9. offer \in Members(pending'[e.kind][e.channel])
      BY <1>b, <2>2, <3>4, <3>5
    <3> QED
      BY <3>5, <3>7, <3>8, <3>9
  <2> QED
    BY <2>1, <2>2
<1>i. i'[t] = i[t] + 1 /\ i[t] \in Nat /\ \A u \in Threads : u # t => i'[u] = i[u]
  BY <1>0, <1>a DEF TypeOK
<1>u. ASSUME NEW u \in Threads, u # t PROVE pc[u] \in {"idle", "wait"}
  BY <1>0, <1>a, <1>u DEF TypeOK, ThreadInv, Inside
<1>x. x = self[t]
  OBVIOUS
<1>o. offer = [sync |-> x, event |-> i[t]]
  OBVIOUS
<1> HIDE DEF x, e, offer, q
<1>1. TypeOK'
  BY <1>0, <1>a, <1>d DEF TypeOK
<1>2. ThreadInv'
  BY <1>0, <1>a, <1>i DEF TypeOK, ThreadInv
<1>3. WaitInv'
  BY <1>0, <1>a DEF WaitInv, PerformedIsWoken
<1>4. PerformedInv'
  BY <1>0, <1>a DEF PerformedInv, Chosen
<1>5. DataInv' /\ RendezvousMatched'
  BY <1>0, <1>a, CommsKept
<1>6. OfferInv'
  <2>1. ASSUME NEW k \in Kinds, NEW c \in Channels, NEW o \in Members(pending'[k][c])
        PROVE  /\ o.sync <= calls
               /\ o.event \in DOMAIN menu[o.sync]
               /\ menu[o.sync][o.event] = [kind |-> k, channel |-> c]
               /\ \A u \in Threads : self[u] = o.sync => pc[u] \notin {"sync", "poll"}
    <3>1. CASE o \in Members(pending[k][c])
      BY <1>0, <3>1 DEF OfferInv
    <3>2. CASE o = offer /\ e = [kind |-> k, channel |-> c]
      <4>1. \A u \in Threads : pc[u] \notin {"sync", "poll"}
        BY <1>a, <1>u
      <4> QED
        BY <1>a, <1>b, <1>c, <3>2, <4>1
    <3> QED
      BY <1>d, <2>1, <3>1, <3>2
  <2>2. UNCHANGED <<calls, self, menu, pc>>
    BY <1>a
  <2>3. ASSUME NEW k \in Kinds, NEW c \in Channels, NEW o \in Members(pending'[k][c])
        PROVE  /\ o.sync <= calls'
               /\ o.event \in DOMAIN menu'[o.sync]
               /\ menu'[o.sync][o.event] = [kind |-> k, channel |-> c]
               /\ \A u \in Threads : self'[u] = o.sync => pc'[u] \notin {"sync", "poll"}
    BY <2>1, <2>2, <2>3
  <2> QED
    BY <2>3 DEF OfferInv
<1>f. ASSUME NEW u \in Threads, NEW j \in Offered(u)'
      PROVE  j \in Offered(u) \/ (u = t /\ j = i[t])
  <2>1. CASE u = t
    <3>1. j \in DOMAIN menu[self[t]] /\ j < i[t] + 1
      BY <1>a, <1>f, <1>i, <2>1 DEF Offered
    <3>2. j \in Nat
      BY <1>0, <1>a, <3>1, SelfIs
    <3> QED
      BY <1>a, <1>i, <2>1, <3>1, <3>2 DEF Offered
  <2>2. CASE u # t
    BY <1>a, <1>f, <1>i, <2>2 DEF Offered
  <2> QED
    BY <2>1, <2>2
<1>7. QueueInv'
  <2>1. Unlost
    <3>1. ASSUME NEW k \in Kinds, NEW c \in Channels, NEW o \in Members(pending[k][c]),
                 performed'[o.sync] = -1
          PROVE  o \in Members(pending'[k][c])
      <4>1. Live(o)
        BY <1>a, <3>1 DEF Live
      <4> QED
        BY <1>d, <3>1, <4>1
    <3> QED
      BY <3>1 DEF Unlost
  <2>2. ASSUME NEW u \in Threads, NEW j \in Offered(u)'
        PROVE  \/ j \in Offered(u)
               \/ menu[self[u]][j].kind = "always"
               \/ [sync |-> self[u], event |-> j] \in Members(Queue(menu[self[u]][j])')
    <3>1. CASE j \in Offered(u)
      BY <3>1
    <3>2. CASE u = t /\ j = i[t]
      <4>1. menu[self[u]][j] = e /\ [sync |-> self[u], event |-> j] = offer
        BY <1>b, <1>x, <1>o, <3>2
      <4>2. e.kind # "always" => offer \in Members(Queue(menu[self[u]][j])')
        BY <1>a, <1>d, <4>1 DEF Queue
      <4> QED
        BY <4>1, <4>2
    <3> QED
      BY <1>f, <2>2, <3>1, <3>2
  <2>3. UNCHANGED <<self, menu, pc, performed>>
    BY <1>a
  <2> QED
    BY <1>0, <2>1, <2>2, <2>3, QueuesKept
<1>8. UnmatchedInv'
  <2>1. ASSUME NEW u \in Threads PROVE Considered(u)' = Considered(u)
    BY <1>a, <1>i DEF Considered
  <2>2. ASSUME NEW v \in Threads, v # t, pc[v] # "idle", performed[self[v]] = -1,
               NEW j \in Considered(v)
        PROVE  ~Fits(menu[self[v]][j], menu[x][i[t]])
    <3>1. pc[v] = "wait"
      BY <1>u, <2>2
    <3>2. j \in Offered(v)
      BY <2>2, <3>1 DEF Considered, Offered
    <3>3. i[t] \in Considered(t) /\ pc[t] # "idle"
      BY <1>a, <1>x DEF Considered
    <3>4. performed[x] = -1
      BY <1>0, <1>a, <1>x DEF PerformedInv
    <3>5. ~Fits(menu[x][i[t]], menu[self[v]][j])
      BY <1>0, <1>x, <2>2, <3>2, <3>3, <3>4 DEF UnmatchedInv
    <3> QED
      BY <3>5, KindsAreOpposite DEF Fits
  <2>3. UNCHANGED <<pc, self, menu, performed>>
    BY <1>a
  <2>4. ASSUME NEW v \in Threads, NEW u \in Threads, v # u,
               pc[v] # "idle", performed[self[v]] = -1,
               pc[u] # "idle", performed[self[u]] = -1,
               NEW j \in Considered(v)', NEW k \in Offered(u)'
        PROVE  ~Fits(menu[self[v]][j], menu[self[u]][k])
    <3>1. j \in Considered(v)
      BY <2>1, <2>4
    <3>2. CASE k \in Offered(u)
      BY <1>0, <2>4, <3>1, <3>2 DEF UnmatchedInv
    <3>3. CASE u = t /\ k = i[t]
      BY <1>x, <2>2, <2>4, <3>1, <3>3
    <3> QED
      BY <1>f, <2>4, <3>2, <3>3
  <2> QED
    BY <2>3, <2>4 DEF UnmatchedInv
<1> QED
  BY <1>1, <1>2, <1>3, <1>4, <1>5, <1>6, <1>7, <1>8 DEF IInv

\* A new sync disturbs nobody.
LEMMA CallStep ==
  ASSUME IInv, NEW t \in Threads, NEW p \in {"sync", "poll"}, NEW events \in Menus,
         Call(t, p, events)
  PROVE  IInv'
<1> DEFINE x == calls + 1
           d == [j \in DOMAIN events |-> IF events[j].kind = "send" THEN x ELSE None]
<1>0. /\ TypeOK /\ ThreadInv /\ WaitInv /\ PerformedInv /\ DataInv /\ RendezvousMatched
      /\ OfferInv /\ QueueInv /\ UnmatchedInv
  BY DEF IInv
<1>a. /\ pc[t] = "idle" /\ x \in Syncs /\ owner = NoThread /\ owner' = t /\ calls' = x
      /\ self' = [self EXCEPT ![t] = x]
      /\ menu' = [menu EXCEPT ![x] = events]
      /\ data' = [data EXCEPT ![x] = d]
      /\ pc' = [pc EXCEPT ![t] = p]
      /\ UNCHANGED <<waiting, woken, i, performed, pending, partner>>
  BY DEF Call, Goto, Monitor!Lock
<1>b. /\ events \in Seq(Basic) /\ d \in [DOMAIN events -> Syncs \cup {None}]
      /\ \A j \in DOMAIN events : events[j].kind = "send" => d[j] = x
      /\ DOMAIN events = 1..Len(events) /\ Len(events) \in Nat
  BY <1>a, EventAssumption
<1> HIDE DEF d
<1>c. x \in Nat /\ calls \in Nat /\ calls < x /\ \A n \in Int : n <= calls => n <= x /\ n # x
  BY <1>0, EventAssumption DEF TypeOK
<1>x. x = calls + 1
  OBVIOUS
<1> HIDE DEF x
<1>d. /\ menu'[x] = events /\ data'[x] = d /\ self'[t] = x /\ pc'[t] = p
      /\ \A y \in Syncs : y # x => menu'[y] = menu[y] /\ data'[y] = data[y]
      /\ \A u \in Threads : u # t => self'[u] = self[u] /\ pc'[u] = pc[u]
      /\ \A u \in Threads : self[u] \in Int /\ self[u] <= calls /\ self[u] # x
  <2>1. \A u \in Threads : self[u] \in Int /\ self[u] <= calls
    BY <1>0, EventAssumption DEF TypeOK, ThreadInv
  <2> QED
    BY <1>0, <1>a, <1>c, <2>1 DEF TypeOK
<1>e. performed[x] = -1 /\ partner[x] = None
  BY <1>0, <1>a, <1>c DEF PerformedInv
<1>1. TypeOK'
  <2>1. \A y \in Syncs : data'[y] \in [DOMAIN menu'[y] -> Syncs \cup {None}]
    <3> SUFFICES ASSUME NEW y \in Syncs PROVE data'[y] \in [DOMAIN menu'[y] -> Syncs \cup {None}]
      OBVIOUS
    <3>1. CASE y = x
      BY <1>b, <1>d, <3>1
    <3>2. CASE y # x
      BY <1>0, <1>d, <3>2 DEF TypeOK
    <3> QED
      BY <3>1, <3>2
  <2>2. data' = [y \in Syncs |-> data'[y]]
    BY <1>0, <1>a DEF TypeOK
  <2>3. x \in 0..MaxSyncs
    BY <1>a, EventAssumption DEF Syncs
  <2>4. self' \in [Threads -> 0..MaxSyncs] /\ calls' \in 0..MaxSyncs
    BY <1>0, <1>a, <2>3 DEF TypeOK
  <2>5. menu' \in [Syncs -> Seq(Basic)]
    BY <1>0, <1>a, <1>b DEF TypeOK
  <2>6. pc' \in [Threads -> Inside \cup {"idle", "wait"}]
    BY <1>0, <1>a DEF TypeOK, Inside
  <2> QED
    BY <1>0, <1>a, <2>1, <2>2, <2>4, <2>5, <2>6 DEF TypeOK
<1>2. ThreadInv'
  <2>1. \A u \in Threads : pc'[u] \in Inside <=> owner' = u
    BY <1>0, <1>a, <1>d, EventAssumption DEF TypeOK, ThreadInv, Inside
  <2>2. \A u \in Threads : self'[u] <= calls'
    BY <1>a, <1>c, <1>d
  <2>3. \A u \in Threads : pc'[u] # "idle" => self'[u] # 0
    BY <1>0, <1>a, <1>c, <1>d DEF ThreadInv
  <2>4. \A u, v \in Threads : self'[u] = self'[v] /\ self'[u] # 0 => u = v
    BY <1>0, <1>d DEF ThreadInv
  <2>5. \A u \in Threads : pc'[u] \in {"idle", "wait", "waited"} => i'[u] = 1
    BY <1>0, <1>a, <1>d DEF ThreadInv
  <2> QED
    BY <2>1, <2>2, <2>3, <2>4, <2>5 DEF ThreadInv
<1>3. WaitInv'
  <2>1. \A y \in Syncs : \A u \in waiting[y] : u \in Threads /\ u # t
    BY <1>0, <1>a DEF WaitInv, TypeOK
  <2>2. \A u \in woken : u \in Threads /\ u # t
    BY <1>0, <1>a DEF WaitInv, TypeOK
  <2> QED
    BY <1>0, <1>a, <1>d, <2>1, <2>2 DEF WaitInv, PerformedIsWoken
<1>4. PerformedInv'
  <2>1. \A y \in Syncs : y > calls' => performed[y] = -1
    BY <1>0, <1>a, <1>c, EventAssumption DEF PerformedInv, Syncs
  <2>2. \A y \in Syncs : performed[y] \in -1..Len(menu'[y])
    BY <1>0, <1>b, <1>d, <1>e DEF PerformedInv
  <2>3. \A y \in Syncs : performed[y] > 0 /\ menu'[y][performed[y]].kind # "always" => partner[y] # None
    BY <1>0, <1>d, <1>e DEF PerformedInv, Chosen
  <2>4. \A u \in Threads :
          pc'[u] \in {"sync", "poll", "suspend", "cancel"} => performed[self'[u]] = -1
    BY <1>0, <1>d, <1>e DEF PerformedInv
  <2>5. \A u \in Threads : pc'[u] = "unlock" => performed[self'[u]] >= 0
    BY <1>0, <1>d DEF PerformedInv
  <2> QED
    BY <1>0, <1>a, <2>1, <2>2, <2>3, <2>4, <2>5 DEF PerformedInv, Chosen
<1>5. DataInv'
  BY <1>0, <1>a, <1>b, <1>d, <1>e DEF DataInv
<1>6. RendezvousMatched'
  <2>1. ASSUME NEW y \in Syncs, partner[y] # None
        PROVE  y # x /\ partner[y] # x /\ partner[y] \in Syncs
    <3>1. partner[y] \in Syncs
      BY <1>0, <2>1 DEF TypeOK
    <3>2. partner[partner[y]] = y /\ y # None
      BY <1>0, <2>1, EventAssumption DEF RendezvousMatched
    <3> QED
      BY <1>e, <2>1, <3>1, <3>2
  <2>2. ASSUME NEW y \in Syncs, y # x
        PROVE  Chosen(y)' = Chosen(y) /\ data'[y] = data[y]
    BY <1>a, <1>d, <2>2 DEF Chosen
  <2>3. UNCHANGED <<partner, performed>>
    BY <1>a
  <2> QED
    BY <1>0, <2>1, <2>2, <2>3 DEF RendezvousMatched
<1>7. OfferInv'
  <2>1. ASSUME NEW k \in Kinds, NEW c \in Channels, NEW o \in Members(pending[k][c])
        PROVE  /\ o.sync <= calls'
               /\ o.event \in DOMAIN menu'[o.sync]
               /\ menu'[o.sync][o.event] = [kind |-> k, channel |-> c]
               /\ \A u \in Threads : self'[u] = o.sync => pc'[u] \notin {"sync", "poll"}
    <3>1. o \in Offer
      BY <1>0, <2>1 DEF TypeOK, Members
    <3>2. o.sync \in Syncs /\ o.sync \in Int
      BY <3>1, EventAssumption DEF Offer, Syncs
    <3>3. /\ o.sync <= calls
          /\ o.event \in DOMAIN menu[o.sync]
          /\ menu[o.sync][o.event] = [kind |-> k, channel |-> c]
          /\ \A u \in Threads : self[u] = o.sync => pc[u] \notin {"sync", "poll"}
      BY <1>0, <2>1 DEF OfferInv
    <3>4. o.sync # x /\ o.sync <= calls'
      BY <1>a, <1>c, <3>2, <3>3
    <3> QED
      BY <1>d, <3>2, <3>3, <3>4
  <2> QED
    BY <1>a, <2>1 DEF OfferInv
<1>f. Offered(t)' = {} /\ Considered(t)' = {}
  <2>1. i'[t] = 1
    BY <1>0, <1>a DEF ThreadInv
  <2>2. \A j \in DOMAIN events : ~(j < 1)
    BY <1>b
  <2> QED
    BY <1>a, <1>d, <2>1, <2>2 DEF Offered, Considered
<1>g. ASSUME NEW u \in Threads, u # t, pc'[u] # "idle"
      PROVE  /\ pc[u] # "idle" /\ self'[u] = self[u] /\ menu'[self[u]] = menu[self[u]]
             /\ Offered(u)' = Offered(u) /\ Considered(u)' = Considered(u)
  <2>1. pc'[u] = pc[u] /\ self'[u] = self[u] /\ i'[u] = i[u]
    BY <1>a, <1>d, <1>g
  <2>2. self[u] \in Syncs /\ self[u] # x
    BY <1>0, <1>d, <1>g, <2>1, SelfIs
  <2>3. menu'[self[u]] = menu[self[u]]
    BY <1>d, <2>2
  <2> QED
    BY <1>g, <2>1, <2>3 DEF Offered, Considered
<1>8. QueueInv'
  <2>1. ASSUME NEW u \in Threads, pc'[u] # "idle", performed'[self'[u]] = -1, NEW j \in Offered(u)',
               menu'[self'[u]][j].kind # "always"
        PROVE  [sync |-> self'[u], event |-> j] \in Members(Queue(menu[self[u]][j])')
    <3>1. u # t
      BY <1>f, <2>1
    <3>2. /\ pc[u] # "idle" /\ self'[u] = self[u] /\ menu'[self[u]] = menu[self[u]]
          /\ Offered(u)' = Offered(u)
      BY <1>g, <2>1, <3>1
    <3>3. performed' = performed /\ pending' = pending
      BY <1>a
    <3>4. [sync |-> self[u], event |-> j] \in Members(Queue(menu[self[u]][j]))
      BY <1>0, <2>1, <3>2, <3>3 DEF QueueInv
    <3> QED
      BY <3>2, <3>3, <3>4 DEF Queue
  <2> QED
    BY <2>1 DEF QueueInv
<1>9. UnmatchedInv'
  <2>1. ASSUME NEW v \in Threads, NEW u \in Threads, v # u,
               pc'[v] # "idle", performed'[self'[v]] = -1,
               pc'[u] # "idle", performed'[self'[u]] = -1,
               NEW j \in Considered(v)', NEW k \in Offered(u)'
        PROVE  ~Fits(menu'[self'[v]][j], menu'[self'[u]][k])
    <3>1. u # t /\ v # t
      BY <1>f, <2>1
    <3>2. /\ pc[u] # "idle" /\ self'[u] = self[u] /\ menu'[self[u]] = menu[self[u]]
          /\ Offered(u)' = Offered(u)
      BY <1>g, <2>1, <3>1
    <3>3. /\ pc[v] # "idle" /\ self'[v] = self[v] /\ menu'[self[v]] = menu[self[v]]
          /\ Considered(v)' = Considered(v)
      BY <1>g, <2>1, <3>1
    <3>4. performed' = performed
      BY <1>a
    <3>5. ~Fits(menu[self[v]][j], menu[self[u]][k])
      BY <1>0, <2>1, <3>2, <3>3, <3>4 DEF UnmatchedInv
    <3> QED
      BY <3>2, <3>3, <3>5
  <2> QED
    BY <2>1 DEF UnmatchedInv
<1> QED
  BY <1>1, <1>2, <1>3, <1>4, <1>5, <1>6, <1>7, <1>8, <1>9 DEF IInv

(***************************************************************************)
(* The rendez-vous.                                                        *)
(***************************************************************************)
\* The thread and the first offer that can be taken communicate.
LEMMA PollMeetsStep ==
  ASSUME IInv, NEW t \in Threads, PollMeets(t)
  PROVE  IInv'
<1> DEFINE x == self[t]
           a == i[t]
           e == Ev(t)
           ko == Opposite[e.kind]
           q == pending[ko][e.channel]
           n == FirstLive(q)
           o == q[n]
           y == o.sync
           z == o.event
           rest == SubSeq(q, n + 1, Len(q))
<1>0. /\ TypeOK /\ ThreadInv /\ WaitInv /\ PerformedInv /\ DataInv /\ RendezvousMatched
      /\ OfferInv /\ QueueInv /\ UnmatchedInv
  BY DEF IInv
<1>a. /\ pc[t] \in {"sync", "poll"} /\ a \in DOMAIN menu[x] /\ e.kind # "always"
      /\ n # 0
      /\ pending' = [pending EXCEPT ![ko][e.channel] = rest]
      /\ Communicate(x, a, o)
      /\ pc' = [pc EXCEPT ![t] = "unlock"]
      /\ UNCHANGED <<calls, self, i, menu>>
  BY DEF PollMeets, Polling, Partners, SetPartners, Goto
<1>b. /\ x \in Syncs /\ e \in Basic /\ e = menu[x][a] /\ x <= calls
      /\ e.kind \in Kinds /\ e.channel \in Channels /\ ko \in Kinds
  BY <1>0, <1>a, SelfIs, EvIs, KindsAreOpposite
<1>c. performed[x] = -1
  BY <1>0, <1>a DEF PerformedInv
<1>q. q \in Seq(Offer) /\ Len(q) \in Nat
  <2>1. q \in Seq(Offer)
    BY <1>0, <1>b DEF TypeOK
  <2> HIDE DEF q
  <2> QED
    BY <2>1
<1>d. n \in 1..Len(q) /\ Live(o) /\ \A j \in 1..Len(q) : j < n => ~Live(q[j])
  <2> HIDE DEF q
  <2> QED
    BY <1>a, <1>q, FirstLiveIs
<1>e. o \in Offer /\ o \in Members(q) /\ y \in Syncs /\ z \in Nat \ {0}
  <2> HIDE DEF q, n
  <2>1. o \in Offer
    BY <1>q, <1>d
  <2> QED
    BY <1>d, <2>1 DEF Members, Offer
<1>f. /\ y <= calls /\ z \in DOMAIN menu[y]
      /\ menu[y][z].kind = ko /\ menu[y][z].channel = e.channel
      /\ \A u \in Threads : self[u] = y => pc[u] \notin {"sync", "poll"}
  <2> HIDE DEF o, ko
  <2>1. /\ y <= calls /\ z \in DOMAIN menu[y]
        /\ menu[y][z] = [kind |-> ko, channel |-> e.channel]
        /\ \A u \in Threads : self[u] = y => pc[u] \notin {"sync", "poll"}
    BY <1>0, <1>b, <1>e DEF OfferInv
  <2> QED
    BY <2>1
<1>g. x # y
  BY <1>a, <1>f
<1>h. performed[y] = -1
  <2> HIDE DEF o
  <2>1. performed[y] < 0
    BY <1>d DEF Live
  <2>2. performed[y] \in -1..Len(menu[y]) /\ menu[y] \in Seq(Basic)
    BY <1>0, <1>e DEF PerformedInv, TypeOK
  <2> QED
    BY <2>1, <2>2
<1>i. partner[x] = None /\ partner[y] = None
  <2>1. \A w \in Syncs : performed[w] = -1 => partner[w] = None
    BY <1>0 DEF PerformedInv
  <2>2. x \in Syncs /\ y \in Syncs
    BY <1>b, <1>e
  <2> HIDE DEF x, y
  <2> QED
    BY <1>c, <1>h, <2>1, <2>2
<1>j. a \in 1..Len(menu[x]) /\ z \in 1..Len(menu[y]) /\ a \in Nat /\ a > 0 /\ z > 0
      /\ Len(menu[x]) \in Nat /\ Len(menu[y]) \in Nat
  <2> HIDE DEF x, o
  <2>1. menu[x] \in Seq(Basic) /\ menu[y] \in Seq(Basic)
    BY <1>0, <1>b, <1>e DEF TypeOK
  <2> HIDE DEF a, y, z
  <2> QED
    BY <1>a, <1>f, <2>1
\* What changes.
<1> DEFINE dx == IF e.kind = "send" THEN data[x] ELSE [data[x] EXCEPT ![a] = data[y][z]]
           dy == IF e.kind = "send" THEN [data[y] EXCEPT ![z] = data[x][a]] ELSE data[y]
<1>k. /\ performed' = [performed EXCEPT ![x] = a, ![y] = z]
      /\ partner' = [partner EXCEPT ![x] = y, ![y] = x]
      /\ data' = IF e.kind = "send" THEN [data EXCEPT ![y][z] = data[x][a]]
                 ELSE [data EXCEPT ![x][a] = data[y][z]]
      /\ Monitor!Signal(y)
  BY <1>a, <1>b DEF Communicate
<1> HIDE DEF x, a, o, y, z, e, ko, n
<1>l. /\ performed'[x] = a /\ performed'[y] = z
      /\ \A w \in Syncs : w # x /\ w # y => performed'[w] = performed[w]
      /\ performed' \in [Syncs -> Int]
  BY <1>0, <1>b, <1>e, <1>g, <1>j, <1>k DEF TypeOK
<1>m. /\ partner'[x] = y /\ partner'[y] = x
      /\ \A w \in Syncs : w # x /\ w # y => partner'[w] = partner[w]
      /\ partner' \in [Syncs -> Syncs \cup {None}]
  BY <1>0, <1>b, <1>e, <1>g, <1>k DEF TypeOK
<1>n. /\ data'[x] = dx /\ data'[y] = dy
      /\ \A w \in Syncs : w # x /\ w # y => data'[w] = data[w]
      /\ data' = [w \in Syncs |-> data'[w]]
  <2>1. data = [w \in Syncs |-> data[w]]
    BY <1>0 DEF TypeOK
  <2> QED
    BY <1>b, <1>e, <1>g, <1>k, <2>1
<1>o. /\ dx \in [DOMAIN menu[x] -> Syncs \cup {None}]
      /\ dy \in [DOMAIN menu[y] -> Syncs \cup {None}]
      /\ dx[a] = dy[z] /\ dx[a] # None /\ dy[z] # None
      /\ \A j \in DOMAIN menu[x] : menu[x][j].kind = "send" => dx[j] = x
      /\ \A j \in DOMAIN menu[y] : menu[y][j].kind = "send" => dy[j] = y
  <2>1. /\ data[x] \in [DOMAIN menu[x] -> Syncs \cup {None}]
        /\ data[y] \in [DOMAIN menu[y] -> Syncs \cup {None}]
    BY <1>0, <1>b, <1>e DEF TypeOK
  <2>2. a \in DOMAIN menu[x] /\ z \in DOMAIN menu[y]
    BY <1>a, <1>f
  <2>3. x # None /\ y # None
    BY <1>b, <1>e, EventAssumption
  <2>4. /\ \A j \in DOMAIN menu[x] : menu[x][j].kind = "send" => data[x][j] = x
        /\ \A j \in DOMAIN menu[y] : menu[y][j].kind = "send" => data[y][j] = y
    BY <1>0, <1>b, <1>e DEF DataInv
  <2>5. CASE e.kind = "send"
    <3>1. menu[x][a].kind = "send" /\ menu[y][z].kind # "send"
      BY <1>b, <1>f, <2>5, KindsAreOpposite DEF ko
    <3>2. data[x][a] = x
      BY <2>2, <2>4, <3>1
    <3> QED
      BY <1>b, <2>1, <2>2, <2>3, <2>4, <2>5, <3>1, <3>2
  <2>6. CASE e.kind # "send"
    <3>0. e.kind = "receive" /\ ko = "send"
      BY <1>b, <2>6 DEF Kinds, Opposite, ko
    <3>1. menu[x][a].kind # "send" /\ menu[y][z].kind = "send"
      BY <1>b, <1>f, <3>0
    <3>2. data[y][z] = y
      BY <2>2, <2>4, <3>1
    <3> QED
      BY <1>e, <2>1, <2>2, <2>3, <2>4, <2>6, <3>1, <3>2
  <2> QED
    BY <2>5, <2>6
<1> HIDE DEF dx, dy
<1>p. /\ rest \in Seq(Offer)
      /\ \A r \in Members(rest) : r \in Members(q)
      /\ \A j \in 1..Len(q) : j > n => q[j] \in Members(rest)
  <2> HIDE DEF q
  <2> QED
    BY <1>d, <1>q, SubSeqMembers
<1> HIDE DEF rest
<1>r. /\ pending' \in [Kinds -> [Channels -> Seq(Offer)]]
      /\ \A k \in Kinds : \A c \in Channels :
           pending'[k][c] = IF k = ko /\ c = e.channel THEN rest ELSE pending[k][c]
  <2>1. pending \in [Kinds -> [Channels -> Seq(Offer)]]
    BY <1>0 DEF TypeOK
  <2> HIDE DEF q
  <2> QED
    BY <1>a, <1>b, <1>p, <2>1
<1>s. /\ pc'[t] = "unlock" /\ \A u \in Threads : u # t => pc'[u] = pc[u]
      /\ UNCHANGED <<calls, self, i, menu>>
  BY <1>0, <1>a DEF TypeOK
<1>t. ASSUME NEW u \in Threads, u # t PROVE pc[u] \in {"idle", "wait"}
  BY <1>0, <1>a, <1>t DEF TypeOK, ThreadInv, Inside
<1>v. x = self[t] /\ \A u \in Threads : u # t => self[u] # x
  <2>1. self[t] # 0
    BY <1>0, <1>a DEF ThreadInv
  <2> QED
    BY <1>0, <2>1 DEF x, ThreadInv
<1>w. /\ owner' = owner
      /\ waiting' \in [Syncs -> SUBSET Threads]
      /\ woken' \in SUBSET Threads
      /\ \E S \in SUBSET waiting[y] :
           /\ S = {} => waiting[y] = {}
           /\ waiting' = [waiting EXCEPT ![y] = @ \ S]
           /\ woken' = woken \cup S
  <2>1. Monitor!Signal(y) /\ y \in Syncs
    BY <1>e, <1>k
  <2>2. waiting \in [Syncs -> SUBSET Threads] /\ woken \in SUBSET Threads
    BY <1>0 DEF TypeOK
  <2>3. PICK S \in SUBSET waiting[y] : (S = {} => waiting[y] = {}) /\ Monitor!Wake(y, S)
    BY <2>1 DEF Monitor!Signal
  <2>4. /\ waiting' = [waiting EXCEPT ![y] = @ \ S]
        /\ woken' = woken \cup S
        /\ owner' = owner
    BY <2>3 DEF Monitor!Wake
  <2>5. waiting' \in [Syncs -> SUBSET Threads] /\ woken' \in SUBSET Threads
    BY <2>1, <2>2, <2>4
  <2> QED
    BY <2>3, <2>4, <2>5
<1>1. TypeOK'
  <2>1. \A w \in Syncs : data'[w] \in [DOMAIN menu'[w] -> Syncs \cup {None}]
    <3> SUFFICES ASSUME NEW w \in Syncs PROVE data'[w] \in [DOMAIN menu[w] -> Syncs \cup {None}]
      BY <1>s
    <3>1. CASE w # x /\ w # y
      BY <1>0, <1>n, <3>1 DEF TypeOK
    <3> QED
      BY <1>n, <1>o, <3>1
  <2>2. pc' \in [Threads -> Inside \cup {"idle", "wait"}]
    BY <1>0, <1>a DEF TypeOK, Inside
  <2> QED
    BY <1>0, <1>l, <1>m, <1>n, <1>r, <1>s, <1>w, <2>1, <2>2 DEF TypeOK
<1>2. ThreadInv'
  BY <1>0, <1>a, <1>s, <1>w DEF ThreadInv, Inside
<1>3. WaitInv'
  <2>1. PICK S \in SUBSET waiting[y] : /\ S = {} => waiting[y] = {}
                                       /\ waiting' = [waiting EXCEPT ![y] = @ \ S]
                                       /\ woken' = woken \cup S
    BY <1>w
  <2>2. waiting \in [Syncs -> SUBSET Threads]
    BY <1>0 DEF TypeOK
  <2>3. /\ waiting'[y] = waiting[y] \ S
        /\ \A w \in Syncs : w # y => waiting'[w] = waiting[w]
    BY <1>e, <2>1, <2>2
  <2>4. \A w \in Syncs : \A u \in waiting[w] : u \in Threads /\ u # t /\ self[u] = w /\ pc[u] = "wait"
    BY <1>0, <1>a, <2>2 DEF WaitInv
  <2>5. S = waiting[y]
    <3>1. \A u, v \in waiting[y] : u = v
      <4>1. y # 0
        BY <1>e DEF Syncs
      <4> QED
        BY <1>0, <1>e, <2>4, <4>1 DEF ThreadInv
    <3> QED
      BY <2>1, <3>1
  <2>6. waiting'[y] = {} /\ woken' = woken \cup waiting[y]
    BY <2>1, <2>3, <2>5
  <2>7. \A w \in Syncs : \A u \in waiting'[w] : self[u] = w /\ pc'[u] = "wait"
    BY <1>s, <2>3, <2>4, <2>6
  <2>8. \A u \in woken' : pc'[u] = "wait" /\ \A w \in Syncs : u \notin waiting'[w]
    <3> SUFFICES ASSUME NEW u \in woken'
                 PROVE  pc'[u] = "wait" /\ \A w \in Syncs : u \notin waiting'[w]
      OBVIOUS
    <3>1. CASE u \in woken
      <4>1. u \in Threads /\ pc[u] = "wait" /\ \A w \in Syncs : u \notin waiting[w]
        BY <1>0, <3>1 DEF WaitInv, TypeOK
      <4>2. u # t
        BY <1>a, <4>1
      <4> QED
        BY <1>s, <2>3, <4>1, <4>2
    <3>2. CASE u \in waiting[y]
      BY <1>e, <1>s, <2>3, <2>4, <2>6, <3>2
    <3> QED
      BY <2>6, <3>1, <3>2
  <2>9. ASSUME NEW u \in Threads, pc'[u] = "wait"
        PROVE  /\ u \in woken' \/ u \in waiting'[self[u]]
               /\ performed'[self[u]] >= 0 => u \in woken'
    <3>1. u # t /\ pc[u] = "wait"
      BY <1>s, <2>9
    <3>2. self[u] # x /\ self[u] \in Syncs
      BY <1>0, <1>v, <3>1, SelfIs
    <3>3. u \in woken \/ u \in waiting[self[u]]
      BY <1>0, <3>1 DEF WaitInv
    <3>4. CASE self[u] = y
      BY <2>6, <3>3, <3>4
    <3>5. CASE self[u] # y
      <4>1. performed'[self[u]] = performed[self[u]] /\ waiting'[self[u]] = waiting[self[u]]
        BY <1>l, <2>3, <3>2, <3>5
      <4>2. performed[self[u]] >= 0 => u \in woken
        BY <1>0, <3>1 DEF WaitInv, PerformedIsWoken
      <4> QED
        BY <2>6, <3>3, <4>1, <4>2
    <3> QED
      BY <3>4, <3>5
  <2> QED
    BY <1>s, <2>7, <2>8, <2>9 DEF WaitInv, PerformedIsWoken
<1>4. PerformedInv'
  <2>1. \A w \in Syncs : w > calls => performed'[w] = -1
    <3> SUFFICES ASSUME NEW w \in Syncs, w > calls PROVE performed'[w] = -1
      OBVIOUS
    <3>0. calls \in Int /\ w \in Int
      BY <1>0, EventAssumption DEF TypeOK, Syncs
    <3>1. w # x /\ w # y
      BY <1>b, <1>f, <3>0
    <3> QED
      BY <1>0, <1>l, <3>1 DEF PerformedInv
  <2>2. ASSUME NEW w \in Syncs
        PROVE  /\ performed'[w] \in -1..Len(menu[w])
               /\ partner'[w] # None => performed'[w] > 0
               /\ performed'[w] > 0 /\ menu[w][performed'[w]].kind # "always" => partner'[w] # None
    <3>1. x # None /\ y # None
      BY <1>b, <1>e, EventAssumption
    <3>2. CASE w = x
      BY <1>j, <1>l, <1>m, <3>1, <3>2
    <3>3. CASE w = y
      BY <1>j, <1>l, <1>m, <3>1, <3>3
    <3>4. CASE w # x /\ w # y
      BY <1>0, <1>l, <1>m, <3>4 DEF PerformedInv, Chosen
    <3> QED
      BY <3>2, <3>3, <3>4
  <2>3. \A u \in Threads : pc'[u] \in {"sync", "poll", "suspend", "cancel"} => FALSE
    BY <1>s, <1>t
  <2>4. \A u \in Threads : pc'[u] = "unlock" => performed'[self[u]] >= 0
    BY <1>j, <1>l, <1>s, <1>t, <1>v
  <2> QED
    BY <1>s, <2>1, <2>2, <2>3, <2>4 DEF PerformedInv, Chosen
<1>5. DataInv'
  <2>1. ASSUME NEW w \in Syncs
        PROVE  /\ \A j \in DOMAIN menu[w] : menu[w][j].kind = "send" => data'[w][j] = w
               /\ partner'[w] # None => data'[w][performed'[w]] # None
    <3>1. CASE w = x
      BY <1>l, <1>n, <1>o, <3>1
    <3>2. CASE w = y
      BY <1>l, <1>n, <1>o, <3>2
    <3>3. CASE w # x /\ w # y
      BY <1>0, <1>l, <1>m, <1>n, <3>3 DEF DataInv
    <3> QED
      BY <3>1, <3>2, <3>3
  <2> QED
    BY <1>s, <2>1 DEF DataInv
<1>6. RendezvousMatched'
  <2>1. menu'[x][performed'[x]] = e /\ menu'[y][performed'[y]] = menu[y][z]
    BY <1>b, <1>l, <1>s
  <2>2. ko = Opposite[e.kind] /\ e.kind = Opposite[ko]
    BY <1>b, KindsAreOpposite DEF ko
  <2>3. ASSUME NEW w \in Syncs, partner'[w] # None
        PROVE  LET v == partner'[w]
               IN  /\ partner'[v] = w
                   /\ menu'[w][performed'[w]].channel = menu'[v][performed'[v]].channel
                   /\ menu'[w][performed'[w]].kind = Opposite[menu'[v][performed'[v]].kind]
                   /\ data'[w][performed'[w]] = data'[v][performed'[v]]
    <3>1. CASE w = x
      BY <1>f, <1>l, <1>m, <1>n, <1>o, <2>1, <2>2, <3>1
    <3>2. CASE w = y
      BY <1>f, <1>l, <1>m, <1>n, <1>o, <2>1, <2>2, <3>2
    <3>3. CASE w # x /\ w # y
      <4> DEFINE v == partner[w]
      <4>1. partner'[w] = v /\ v # None /\ v \in Syncs
        BY <1>0, <1>m, <2>3, <3>3 DEF TypeOK
      <4>2. /\ partner[v] = w
            /\ menu[w][performed[w]].channel = menu[v][performed[v]].channel
            /\ menu[w][performed[w]].kind = Opposite[menu[v][performed[v]].kind]
            /\ data[w][performed[w]] = data[v][performed[v]]
        BY <1>0, <4>1 DEF RendezvousMatched, Chosen
      <4>3. v # x /\ v # y
        BY <1>i, <4>2, EventAssumption
      <4> HIDE DEF v
      <4>4. performed'[w] = performed[w] /\ performed'[v] = performed[v] /\ menu' = menu
        BY <1>l, <1>s, <3>3, <4>1, <4>3
      <4>5. partner'[v] = partner[v] /\ data'[w] = data[w] /\ data'[v] = data[v]
        BY <1>m, <1>n, <3>3, <4>1, <4>3
      <4> QED
        BY <4>1, <4>2, <4>4, <4>5
    <3> QED
      BY <3>1, <3>2, <3>3
  <2> QED
    BY <2>3 DEF RendezvousMatched, Chosen
<1>7. OfferInv'
  <2>1. \A k \in Kinds : \A c \in Channels :
          \A r \in Members(pending'[k][c]) : r \in Members(pending[k][c])
    BY <1>p, <1>r
  <2>2. \A u \in Threads : pc'[u] \in {"sync", "poll"} => pc[u] \in {"sync", "poll"}
    BY <1>s
  <2> QED
    BY <1>0, <1>s, <2>1, <2>2, OffersKept
<1>8. Unlost
  <2>1. ASSUME NEW k \in Kinds, NEW c \in Channels, NEW r \in Members(pending[k][c]),
               performed'[r.sync] = -1
        PROVE  r \in Members(pending'[k][c])
    <3>1. CASE k = ko /\ c = e.channel
      <4>1. PICK j \in 1..Len(q) : r = q[j]
        BY <2>1, <3>1 DEF Members
      <4>2. r \in Offer
        BY <1>q, <4>1
      <4>3. r.sync \in Syncs
        BY <4>2 DEF Offer
      <4>4. r.sync # x /\ r.sync # y
        BY <1>j, <1>l, <2>1
      <4>5. Live(r)
        BY <1>l, <2>1, <4>3, <4>4 DEF Live
      <4>6. ~(j < n)
        BY <1>d, <4>1, <4>5
      <4>7. j # n
        BY <4>1, <4>4 DEF o, y
      <4>8. j > n
        BY <1>d, <4>6, <4>7
      <4>9. q[j] \in Members(rest)
        BY <1>p, <4>8
      <4> QED
        BY <1>r, <3>1, <4>1, <4>9
    <3>2. CASE ~(k = ko /\ c = e.channel)
      BY <1>r, <2>1, <3>2
    <3> QED
      BY <3>1, <3>2
  <2> QED
    BY <2>1 DEF Unlost
<1>9. ASSUME NEW u \in Threads, pc'[u] # "idle", performed'[self[u]] = -1
      PROVE  /\ pc[u] # "idle" /\ performed[self[u]] = -1
             /\ \A j \in Offered(u)' : j \in Offered(u)
             /\ \A j \in Considered(u)' : j \in Considered(u)
  <2>1. u # t /\ self[u] # y
    BY <1>9, <1>j, <1>l, <1>v
  <2>2. pc'[u] = pc[u] /\ self[u] # x
    BY <1>s, <1>v, <2>1
  <2>3. self[u] \in Syncs
    BY <1>0, <1>9, <2>2, SelfIs
  <2>4. Offered(u)' = Offered(u) /\ Considered(u)' = Considered(u)
    BY <1>s, <2>2 DEF Offered, Considered
  <2> QED
    BY <1>9, <1>l, <2>1, <2>2, <2>3, <2>4
<1>10. QueueInv'
  BY <1>0, <1>8, <1>9, <1>s, QueuesKept
<1>11. UnmatchedInv'
  BY <1>0, <1>9, <1>s, UnmatchedKept
<1> QED
  BY <1>1, <1>2, <1>3, <1>4, <1>5, <1>6, <1>7, <1>10, <1>11 DEF IInv

(***************************************************************************)
(* The theorems.                                                           *)
(***************************************************************************)
\* Every step preserves the invariant.
LEMMA NextInv == ASSUME IInv, [Next]_vars PROVE IInv'
<1>1. CASE UNCHANGED vars
  <2>0. /\ TypeOK /\ ThreadInv /\ WaitInv /\ PerformedInv /\ DataInv /\ RendezvousMatched
        /\ OfferInv /\ QueueInv /\ UnmatchedInv
    BY DEF IInv
  <2>1. /\ UNCHANGED <<owner, waiting, woken, calls, self, pc, i, menu, performed, data>>
        /\ UNCHANGED <<pending, partner>>
    BY <1>1 DEF vars, monitor, comms
  <2>2. TypeOK' /\ ThreadInv' /\ WaitInv' /\ PerformedInv'
    BY <2>0, <2>1 DEF TypeOK, ThreadInv, WaitInv, PerformedIsWoken, PerformedInv, Chosen
  <2>3. DataInv' /\ RendezvousMatched'
    BY <2>0, <2>1, CommsKept
  <2>4. OfferInv'
    BY <2>0, <2>1, OffersKept
  <2>5. QueueInv'
    BY <2>0, <2>1, SamePending, QueuesKept DEF Offered
  <2>6. UnmatchedInv'
    BY <2>0, <2>1, UnmatchedKept DEF Offered, Considered
  <2> QED
    BY <2>2, <2>3, <2>4, <2>5, <2>6 DEF IInv
<1>2. ASSUME NEW t \in Threads, NEW events \in Menus,
             Call(t, "sync", events) \/ Call(t, "poll", events)
      PROVE  IInv'
  BY <1>2, CallStep
<1>3. ASSUME NEW t \in Threads, Proceed(t) PROVE IInv'
  BY <1>3, AloneStep, PollFailsStep, PollMeetsStep, PollEndsStep, SuspendStep, WaitFirstStep,
     WaitReturnsStep, WaitAgainStep, WaitDoneStep, UnlockStep DEF Proceed, Polls, Waits
<1>4. CASE Spurious
  BY <1>4, SpuriousStep
<1> QED
  BY <1>1, <1>2, <1>3, <1>4 DEF Next

\* The inductive invariant holds.
LEMMA Invariant == Spec => []IInv
BY InitInv, NextInv, PTL DEF Spec

\* Nobody waits for what is there: two threads never sleep in Event.sync while one
\* offers to send and the other to receive on the same channel, and whoever has
\* been met by a partner is woken up.
THEOREM NobodyIsLeftWaiting == Spec => []NobodyLeftWaiting
<1>1. ASSUME IInv PROVE PerformedIsWoken
  BY <1>1 DEF IInv, WaitInv
<1>2. ASSUME IInv PROVE NoMissedRendezvous
  <2> SUFFICES ASSUME NEW x \in Syncs, NEW y \in Syncs, Suspended(x), Suspended(y), x # y,
                      NEW c \in Channels, Sends(c) \in Offers(x), Receives(c) \in Offers(y)
               PROVE  FALSE
    BY DEF NoMissedRendezvous
  <2>1. PICK t \in Threads : self[t] = x /\ pc[t] = "wait"
    BY DEF Suspended
  <2>2. PICK u \in Threads : self[u] = y /\ pc[u] = "wait"
    BY DEF Suspended
  <2>3. PICK j \in DOMAIN menu[x] : menu[x][j] = Sends(c)
    BY DEF Offers
  <2>4. PICK k \in DOMAIN menu[y] : menu[y][k] = Receives(c)
    BY DEF Offers
  <2>5. j \in Considered(t) /\ k \in Offered(u)
    BY <2>1, <2>2, <2>3, <2>4 DEF Considered, Offered
  <2>6. performed[x] = -1 /\ performed[y] = -1 /\ t # u
    BY <2>1, <2>2 DEF Suspended
  <2>7. ~Fits(Sends(c), Receives(c))
    BY <1>2, <2>1, <2>2, <2>3, <2>4, <2>5, <2>6 DEF IInv, UnmatchedInv
  <2>8. Fits(Sends(c), Receives(c))
    BY DEF Fits, Sends, Receives, Opposite, Kinds
  <2> QED
    BY <2>7, <2>8
<1>3. ASSUME IInv PROVE NobodyLeftWaiting
  BY <1>1, <1>2, <1>3 DEF NobodyLeftWaiting
<1> QED
  BY <1>3, Invariant, PTL

\* A call of Event.sync or poll that is over has communicated with exactly one
\* other, over matching events of their choices, and both have the same datum.
THEOREM RendezvousIsComplete == Spec => []RendezvousComplete
<1>1. ASSUME IInv PROVE ResultExists
  <2> SUFFICES ASSUME NEW t \in Threads, pc[t] = "unlock"
               PROVE  /\ performed[self[t]] >= 0
                      /\ performed[self[t]] > 0 /\ Chosen(self[t]).kind # "always" =>
                           data[self[t]][performed[self[t]]] # None
    BY DEF ResultExists
  <2>1. self[t] \in Syncs
    BY <1>1, SelfIs DEF IInv
  <2> QED
    BY <1>1, <2>1 DEF IInv, PerformedInv, DataInv
<1>2. ASSUME IInv PROVE RendezvousComplete
  BY <1>1, <1>2 DEF IInv, RendezvousComplete
<1> QED
  BY <1>2, Invariant, PTL

================================================================================
