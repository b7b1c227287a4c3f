--------------------------------- MODULE Event ---------------------------------
(***************************************************************************)
(* First class synchronous communication (otherlibs/systhreads/event.ml):  *)
(* sync and poll on a choice of send, receive and always.  Every call is   *)
(* a sync, numbered in the order in which they get masterlock; it has its  *)
(* own performed reference and condition variable, and offers of it stay   *)
(* in the queues when it is over.  The datum of a send is its sync.        *)
(*                                                                         *)
(* The order of the events in a choice is random (scramble_array), and     *)
(* wrap, guard and wrap_abort are left out.  The mutex and the conditions  *)
(* are those of [Monitor].                                                 *)
(***************************************************************************)
EXTENDS Integers, SequencesExt

CONSTANTS
  Threads, NoThread,
  Channels,
  Menus,      \* the choices that are tried: sequences of basic events
  MaxSyncs,   \* bound: calls of sync and poll
  None

Sends(c) == [kind |-> "send", channel |-> c]
Receives(c) == [kind |-> "receive", channel |-> c]
Always == [kind |-> "always", channel |-> None]

Syncs == 1..MaxSyncs
Conditions == Syncs

Basic ==
  {Sends(c) : c \in Channels} \cup {Receives(c) : c \in Channels} \cup {Always}

ASSUME EventAssumption ==
  /\ NoThread \notin Threads
  /\ MaxSyncs \in Nat
  /\ None \notin Syncs
  /\ Menus \subseteq Seq(Basic)

VARIABLES
  owner, waiting, woken,  \* masterlock and the conditions
  calls,           \* how many calls there have been
  self,            \* the last sync of each thread
  pc,              \* where each thread is
  i,               \* the event of its choice that it is at
  menu,            \* the events of each sync
  performed,       \* the event performed, or -1
  data,            \* for each event of a sync, the data sent or received
  pending,         \* pending.send is writes_pending, pending.receive reads_pending
  partner          \* history: the sync that each one has communicated with

monitor == <<owner, waiting, woken>>
comms == <<menu, performed, data, pending, partner>>
vars == <<monitor, calls, self, pc, i, comms>>

Monitor == INSTANCE Monitor

Init ==
  /\ Monitor!Init
  /\ calls = 0
  /\ self = [t \in Threads |-> 0]
  /\ pc = [t \in Threads |-> "idle"]
  /\ i = [t \in Threads |-> 1]
  /\ menu = [x \in Syncs |-> <<>>]
  /\ performed = [x \in Syncs |-> -1]
  /\ data = [x \in Syncs |-> <<>>]
  /\ pending = [k \in {"send", "receive"} |-> [c \in Channels |-> <<>>]]
  /\ partner = [x \in Syncs |-> None]

Goto(t, p) == pc' = [pc EXCEPT ![t] = p]

\* basic_sync or basic_poll: create the events of the choice, which nobody else
\* sees, and lock masterlock.
Call(t, p, events) ==
  LET x == calls + 1
  IN  /\ pc[t] = "idle"
      /\ x \in Syncs
      /\ Monitor!Lock(t)
      /\ calls' = x
      /\ self' = [self EXCEPT ![t] = x]
      /\ menu' = [menu EXCEPT ![x] = events]
      /\ data' = [data EXCEPT ![x] =
                   [j \in DOMAIN events |-> IF events[j].kind = "send" THEN x ELSE None]]
      /\ Goto(t, p)
      /\ UNCHANGED <<i, performed, pending, partner>>

(***************************************************************************)
(* poll_events: the first event that can take place is performed.  Offers  *)
(* that have been performed already are dropped on the way.                *)
(***************************************************************************)
Polling(t) == pc[t] \in {"sync", "poll"} /\ i[t] \in DOMAIN menu[self[t]]

Ev(t) == menu[self[t]][i[t]]

Opposite == [send |-> "receive", receive |-> "send"]

\* The queue that the event looks at.
Partners(t) == pending[Opposite[Ev(t).kind]][Ev(t).channel]

SetPartners(t, q) ==
  pending' = [pending EXCEPT ![Opposite[Ev(t).kind]][Ev(t).channel] = q]

Live(offer) == performed[offer.sync] < 0

FirstLive(q) == SelectInSeq(q, Live)

PollAlways(t) ==
  /\ Polling(t)
  /\ Ev(t).kind = "always"
  /\ performed' = [performed EXCEPT ![self[t]] = i[t]]
  /\ Goto(t, "unlock")
  /\ UNCHANGED <<monitor, calls, self, i, menu, data, pending, partner>>

\* Queue.Empty
PollFails(t) ==
  /\ Polling(t)
  /\ Ev(t).kind # "always"
  /\ FirstLive(Partners(t)) = 0
  /\ SetPartners(t, <<>>)
  /\ i' = [i EXCEPT ![t] = @ + 1]
  /\ UNCHANGED <<monitor, calls, self, pc, menu, performed, data, partner>>

\* Sync x, at event e, and the offer communicate, and the waiting one is signalled.
Communicate(x, e, offer) ==
  /\ performed' = [performed EXCEPT ![x] = e, ![offer.sync] = offer.event]
  /\ data' = IF menu[x][e].kind = "send"
             THEN [data EXCEPT ![offer.sync][offer.event] = data[x][e]]
             ELSE [data EXCEPT ![x][e] = data[offer.sync][offer.event]]
  /\ partner' = [partner EXCEPT ![x] = offer.sync, ![offer.sync] = x]
  /\ Monitor!Signal(offer.sync)

\* Mutant: the first offer is taken even when it is performed already.
PollMeetsStale(t) ==
  /\ Polling(t)
  /\ Ev(t).kind # "always"
  /\ Partners(t) # <<>>
  /\ SetPartners(t, Tail(Partners(t)))
  /\ Communicate(self[t], i[t], Head(Partners(t)))
  /\ Goto(t, "unlock")
  /\ UNCHANGED <<calls, self, i, menu>>

PollMeets(t) ==
  /\ Polling(t)
  /\ Ev(t).kind # "always"
  /\ LET q == Partners(t)
         j == FirstLive(q)
     IN  /\ j # 0
         /\ SetPartners(t, SubSeq(q, j + 1, Len(q)))
         /\ Communicate(self[t], i[t], q[j])
  /\ Goto(t, "unlock")
  /\ UNCHANGED <<calls, self, i, menu>>

PollEnds(t) ==
  /\ pc[t] \in {"sync", "poll"}
  /\ i[t] \notin DOMAIN menu[self[t]]
  /\ i' = [i EXCEPT ![t] = 1]
  /\ Goto(t, IF pc[t] = "sync" THEN "suspend" ELSE "cancel")
  /\ UNCHANGED <<monitor, calls, self, comms>>

(***************************************************************************)
(* Nothing can take place: sync offers every event and waits, poll gives   *)
(* up.                                                                     *)
(***************************************************************************)
\* Mutant: the test of cleanup_queue is inverted.
cleanup_queue_inverted(q) == SelectSeq(q, LAMBDA offer : ~Live(offer))

cleanup_queue(q) ==
  LET kept[n \in 0..Len(q)] ==
        IF n = 0 THEN <<>>
        ELSE IF Live(q[n]) THEN Append(kept[n - 1], q[n]) ELSE kept[n - 1]
  IN  kept[Len(q)]

Suspend(t) ==
  /\ pc[t] = "suspend"
  /\ i[t] \in DOMAIN menu[self[t]]
  /\ IF Ev(t).kind = "always"
     THEN UNCHANGED pending
     ELSE pending' = [pending EXCEPT ![Ev(t).kind][Ev(t).channel] =
            Append(cleanup_queue(@), [sync |-> self[t], event |-> i[t]])]
  /\ i' = [i EXCEPT ![t] = @ + 1]
  /\ UNCHANGED <<monitor, calls, self, pc, menu, performed, data, partner>>

WaitFirst(t) ==
  /\ pc[t] = "suspend"
  /\ i[t] \notin DOMAIN menu[self[t]]
  /\ Monitor!Wait(t, self[t])
  /\ i' = [i EXCEPT ![t] = 1]
  /\ Goto(t, "wait")
  /\ UNCHANGED <<calls, self, comms>>

\* Condition.wait returns with masterlock, because of a signal or for no reason.
WaitReturns(t) ==
  /\ pc[t] = "wait"
  /\ Monitor!Relock(t)
  /\ Goto(t, "waited")
  /\ UNCHANGED <<calls, self, i, comms>>

\* PR#7013: protect against spurious wake-up.
WaitAgain(t) ==
  /\ pc[t] = "waited"
  /\ performed[self[t]] < 0
  /\ Monitor!Wait(t, self[t])
  /\ Goto(t, "wait")
  /\ UNCHANGED <<calls, self, i, comms>>

WaitDone(t) ==
  /\ pc[t] = "waited"
  /\ performed[self[t]] >= 0
  /\ Goto(t, "unlock")
  /\ UNCHANGED <<monitor, calls, self, i, comms>>

Cancel(t) ==
  /\ pc[t] = "cancel"
  /\ performed' = [performed EXCEPT ![self[t]] = 0]
  /\ Goto(t, "unlock")
  /\ UNCHANGED <<monitor, calls, self, i, menu, data, pending, partner>>

\* Mutex.unlock, and the result is extracted.
Unlock(t) ==
  /\ pc[t] = "unlock"
  /\ Monitor!Unlock(t)
  /\ i' = [i EXCEPT ![t] = 1]
  /\ Goto(t, "idle")
  /\ UNCHANGED <<calls, self, comms>>

Spurious ==
  /\ \E x \in Syncs : waiting[x] # {} /\ Monitor!Wake(x, waiting[x])
  /\ UNCHANGED <<calls, self, pc, i, comms>>

(***************************************************************************)
(* The specification.                                                      *)
(***************************************************************************)
Polls(t) == PollAlways(t) \/ PollFails(t) \/ PollMeets(t) \/ PollEnds(t) \/ Cancel(t)

Waits(t) ==
  Suspend(t) \/ WaitFirst(t) \/ WaitReturns(t) \/ WaitAgain(t) \/ WaitDone(t)

Proceed(t) == Polls(t) \/ Waits(t) \/ Unlock(t)

Next ==
  \/ \E t \in Threads :
       \/ \E events \in Menus : Call(t, "sync", events) \/ Call(t, "poll", events)
       \/ Proceed(t)
  \/ Spurious

Spec == Init /\ [][Next]_vars

--------------------------------------------------------------------------------
(***************************************************************************)
(* Properties.                                                             *)
(***************************************************************************)

\* The syncs that are suspended on all their events.
Suspended(x) ==
  performed[x] = -1 /\ \E t \in Threads : self[t] = x /\ pc[t] = "wait"

Offers(x) == {menu[x][j] : j \in DOMAIN menu[x]}

\* No rendez-vous is missed: when nobody has masterlock, no two threads are
\* suspended of which one offers to send on a channel and the other to receive
\* from it, whatever offers of earlier syncs are still in the queues.
NoMissedRendezvous ==
  owner = NoThread =>
    \A x, y \in Syncs :
      Suspended(x) /\ Suspended(y) /\ x # y =>
        \A c \in Channels : ~(Sends(c) \in Offers(x) /\ Receives(c) \in Offers(y))

Chosen(x) == menu[x][performed[x]]

\* Communication is one to one: whoever has sent has exactly one receiver, which
\* received that datum over that channel, and conversely; a choice performs one
\* of its events only.
RendezvousMatched ==
  \A x \in Syncs : partner[x] # None =>
    LET y == partner[x]
    IN  /\ partner[y] = x
        /\ Chosen(x).channel = Chosen(y).channel
        /\ Chosen(x).kind = Opposite[Chosen(y).kind]
        /\ data[x][performed[x]] = data[y][performed[y]]

\* When a call is over its event is performed: the result exists (no invalid_arg
\* "Event.receive", no index -1), unless a poll gave up.
ResultExists ==
  \A t \in Threads :
    LET x == self[t]
    IN  pc[t] = "unlock" =>
          /\ performed[x] >= 0
          /\ performed[x] > 0 /\ Chosen(x).kind # "always" => data[x][performed[x]] # None

\* A thread whose rendez-vous has taken place does not sleep on: the signal comes
\* before it waits again, or wakes it.
PerformedIsWoken ==
  \A t \in Threads :
    pc[t] = "wait" /\ performed[self[t]] >= 0 => t \in woken

\* Nobody waits for what is there: neither for a partner that waits as well, nor
\* for the end of a rendez-vous that has taken place.
NobodyLeftWaiting == NoMissedRendezvous /\ PerformedIsWoken

\* A call that is over has communicated with exactly one other, over one of its
\* events, and has the datum.
RendezvousComplete == RendezvousMatched /\ ResultExists
================================================================================
