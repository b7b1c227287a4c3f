----------------------------- MODULE RuntimeEvents -----------------------------
(***************************************************************************)
(* The ring buffers of runtime_events (runtime/runtime_events.c) and the   *)
(* cursor that reads them from outside the runtime                         *)
(* (otherlibs/runtime_events/runtime_events_consumer.c).  The two share    *)
(* memory and no lock: a domain overwrites its oldest events when its ring *)
(* is full, and the cursor finds out by reading ring_head again after it   *)
(* has copied an event.                                                    *)
(*                                                                         *)
(* A step accesses one word of shared memory; on amd64 the stores of a     *)
(* domain become visible in program order, and domains never read what a   *)
(* consumer writes.  Positions count words since the ring was created; the *)
(* word at position p is at index p % Size.                                *)
(***************************************************************************)
EXTENDS Integers

CONSTANTS
  max_domains,  \* the number of rings
  Writers,      \* the domains that run, a subset of the rings
  Size,         \* ring_size_elements
  Kinds,        \* the events the runtime writes: records [type, len]
  MaxOptions,   \* the limits read_poll is called with
  MaxPos        \* bound: positions stay below

Rings == 0..max_domains - 1
None == -1

Lifecycle == [type |-> "lifecycle", len |-> 3]
Padding(n) == [type |-> "padding", len |-> n]

UserKinds == {k \in Kinds : k.type \in {"unit", "int", "span", "custom"}}
Written == Kinds \cup {Lifecycle}
MaxLen == CHOOSE n \in {k.len : k \in Written} : \A k \in Written : k.len <= n

(***************************************************************************)
(* An event and the padding before it fit in the ring.  The code relies on *)
(* it without a test: with a smaller ring (OCAMLRUNPARAM e) the head would *)
(* pass the tail.                                                          *)
(***************************************************************************)
ASSUME RuntimeEventsAssumption ==
  /\ max_domains \in Nat \ {0}
  /\ Writers \subseteq Rings
  /\ \A k \in Kinds : k.len \in Nat /\ k.len >= 2
  /\ \E longest \in Written : \A k \in Written : k.len <= longest.len
  /\ Size \in Nat /\ Size >= 2 * MaxLen
  /\ MaxOptions \subseteq Nat \cup {None}
  /\ MaxPos \in Nat

VARIABLES
  head, tail,  \* ring_head and ring_tail of each ring
  data,        \* the words of each ring
  paused,      \* runtime_events_paused
  w,           \* each domain in write_to_ring
  pos,         \* current_positions of the cursor
  next_read_domain,
  r,           \* the cursor in read_poll
  log,         \* history: the events written to each ring
  given        \* history: the words last given to a callback

shared == <<head, tail, data, paused>>
cursor == <<pos, next_read_domain, r>>
vars == <<shared, w, cursor, log, given>>

Blank == [at |-> 0, event |-> Padding(0), word |-> 0]
NoEvent == Padding(0)

\* The rings are new, and a domain is about to write EV_RING_START.
Init ==
  /\ head = [d \in Rings |-> 0]
  /\ tail = [d \in Rings |-> 0]
  /\ data = [d \in Rings |-> [i \in 0..Size - 1 |-> Blank]]
  /\ paused = FALSE
  /\ \E s \in Writers :
       w = [d \in Rings |-> IF d = s THEN [pc |-> "active", event |-> Lifecycle, word |-> 0]
                                     ELSE [pc |-> "idle", event |-> NoEvent, word |-> 0]]
  /\ pos = [d \in Rings |-> 0]
  /\ next_read_domain = 0
  /\ r = [pc |-> "idle"]
  /\ log = [d \in Rings |-> {}]
  /\ given = <<>>

--------------------------------------------------------------------------------
(***************************************************************************)
(* The domain.  w[d].pc: "active" is before ring_is_active, "head" in the  *)
(* loop that makes room, "pad" before ring_tail passes the padding, and    *)
(* "words" while the event is stored, from w[d].word on.                   *)
(***************************************************************************)
Call(d, ev) ==
  /\ tail[d] + 2 * MaxLen <= MaxPos
  /\ w' = [w EXCEPT ![d] = [pc |-> "active", event |-> ev, word |-> 0]]

\* caml_ev_begin, caml_ev_end, caml_ev_counter, caml_ev_alloc_flush.
RuntimeEvent(d) ==
  /\ w[d].pc = "idle"
  /\ \E ev \in Kinds \ UserKinds : Call(d, ev)
  /\ UNCHANGED <<shared, cursor, log, given>>

caml_runtime_events_user_write(d) ==
  /\ w[d].pc = "idle"
  /\ \E ev \in UserKinds : Call(d, ev)
  /\ UNCHANGED <<shared, cursor, log, given>>

\* A pause that is not the first, or a resume without one, writes nothing.
caml_runtime_events_pause(d) ==
  /\ w[d].pc = "idle" /\ ~paused
  /\ paused' = TRUE
  /\ Call(d, Lifecycle)
  /\ UNCHANGED <<head, tail, data, cursor, log, given>>

caml_runtime_events_resume(d) ==
  /\ w[d].pc = "idle" /\ paused
  /\ paused' = FALSE
  /\ Call(d, Lifecycle)
  /\ UNCHANGED <<head, tail, data, cursor, log, given>>

RingIsActive(d) ==
  /\ w[d].pc = "active"
  /\ w' = [w EXCEPT ![d].pc = IF paused THEN "idle" ELSE "head"]
  /\ UNCHANGED <<shared, cursor, log, given>>

DistanceToEnd(d) == Size - (tail[d] % Size)

PaddingRequired(d) ==
  IF DistanceToEnd(d) < w[d].event.len THEN DistanceToEnd(d) ELSE 0

Overfull(d) == tail[d] + w[d].event.len + PaddingRequired(d) - head[d] >= Size

\* The oldest event is given up, before any word of it is overwritten.
AdvanceHead(d) ==
  /\ w[d].pc = "head" /\ Overfull(d)
  /\ head' = [head EXCEPT ![d] = @ + data[d][head[d] % Size].event.len]
  /\ UNCHANGED <<tail, data, paused, w, cursor, log, given>>

\* Word k of event ev at position p.
StoreWord(d, p, ev, k) ==
  data' = [data EXCEPT ![d][(p + k) % Size] = [at |-> p, event |-> ev, word |-> k]]

\* ring_tail passes the event ev, which is now in the log.
StoreTail(d, ev) ==
  /\ tail' = [tail EXCEPT ![d] = @ + ev.len]
  /\ log' = [log EXCEPT ![d] = @ \cup {[at |-> tail[d], event |-> ev]}]

\* Padding is a header: the words behind it are not written.
WritePadding(d) ==
  /\ w[d].pc = "head" /\ ~Overfull(d) /\ PaddingRequired(d) > 0
  /\ StoreWord(d, tail[d], Padding(DistanceToEnd(d)), 0)
  /\ w' = [w EXCEPT ![d].pc = "pad"]
  /\ UNCHANGED <<head, tail, paused, cursor, log, given>>

PublishPadding(d) ==
  /\ w[d].pc = "pad"
  /\ StoreTail(d, Padding(DistanceToEnd(d)))
  /\ w' = [w EXCEPT ![d].pc = "words"]
  /\ UNCHANGED <<head, data, paused, cursor, given>>

NoPadding(d) ==
  /\ w[d].pc = "head" /\ ~Overfull(d) /\ PaddingRequired(d) = 0
  /\ StoreWord(d, tail[d], w[d].event, 0)
  /\ w' = [w EXCEPT ![d].pc = "words", ![d].word = 1]
  /\ UNCHANGED <<head, tail, paused, cursor, log, given>>

\* The header, the timestamp, then the content.
WriteWord(d) ==
  /\ w[d].pc = "words" /\ w[d].word < w[d].event.len
  /\ StoreWord(d, tail[d], w[d].event, w[d].word)
  /\ w' = [w EXCEPT ![d].word = @ + 1]
  /\ UNCHANGED <<head, tail, paused, cursor, log, given>>

PublishEvent(d) ==
  /\ w[d].pc = "words" /\ w[d].word = w[d].event.len
  /\ StoreTail(d, w[d].event)
  /\ w' = [w EXCEPT ![d] = [pc |-> "idle", event |-> NoEvent, word |-> 0]]
  /\ UNCHANGED <<head, data, paused, cursor, given>>

write_to_ring(d) ==
  \/ AdvanceHead(d)
  \/ WritePadding(d)
  \/ PublishPadding(d)
  \/ NoPadding(d)
  \/ WriteWord(d)
  \/ PublishEvent(d)

--------------------------------------------------------------------------------
(***************************************************************************)
(* The cursor.  r.pc: "head" and "tail" before ring_head and ring_tail are *)
(* read, "header" and "copy" while the event at pos is copied, "recheck"   *)
(* before ring_head is read again, "callback" before the event is given    *)
(* away, "return" at the end.  r.option is what the caller gave as a      *)
(* limit; r.events and r.tails are history, the events given away and the  *)
(* tails when the poll began.                                              *)
(***************************************************************************)
Domain == (r.start + r.i) % max_domains
Here == pos[Domain]

(***************************************************************************)
(* caml_ml_runtime_events_read_poll passes the tagged integer on, so that  *)
(* Some n becomes the limit 2n + 1; None is 0, no limit.                   *)
(***************************************************************************)
Limit(option) == IF option = None THEN 0 ELSE 2 * option + 1

\* What the body of the do loop keeps about an event.
NoCopy == [header |-> Blank, msg_length |-> 0, buf |-> <<>>]

\* cursor_in_poll keeps other polls, of callbacks too, out until "return".
Poll ==
  /\ r.pc = "idle"
  /\ \E option \in MaxOptions :
       r' = [pc |-> "head", i |-> 0, start |-> next_read_domain, option |-> option,
             consumed |-> 0, events |-> 0, early_exit |-> FALSE, tails |-> tail,
             ring_head |-> 0, ring_tail |-> 0, copy |-> NoCopy]
  /\ UNCHANGED <<shared, w, pos, next_read_domain, log, given>>

\* What the loop's next round does not read is forgotten.
Forget(x) == [x EXCEPT !.ring_head = 0, !.ring_tail = 0, !.copy = NoCopy]

(***************************************************************************)
(* The end of the do loop's body for the position p: once more, or the     *)
(* next domain, or the end.  x is r as the body left it; again is FALSE    *)
(* after break.                                                            *)
(***************************************************************************)
EndBody(x, p, again) ==
  /\ pos' = [pos EXCEPT ![Domain] = p]
  /\ IF /\ again /\ ~x.early_exit
        /\ p < x.ring_tail
        /\ Limit(x.option) = 0 \/ x.consumed < Limit(x.option)
     THEN /\ r' = [Forget(x) EXCEPT !.pc = "head"]
          /\ UNCHANGED next_read_domain
     ELSE /\ next_read_domain' = (Domain + 1) % max_domains
          /\ r' = IF x.early_exit \/ r.i + 1 = max_domains
                  THEN [Forget(x) EXCEPT !.pc = "return"]
                  ELSE [Forget(x) EXCEPT !.pc = "head", !.i = @ + 1]

LoadHead ==
  /\ r.pc = "head"
  /\ r' = [r EXCEPT !.pc = "tail", !.ring_head = head[Domain]]
  /\ UNCHANGED <<shared, w, pos, next_read_domain, log, given>>

\* Words lost since the last poll are reported, before pos moves, to a
\* callback that may fail; ok says whether it succeeds.
LoadTail(ok) ==
  LET x == [r EXCEPT !.ring_tail = tail[Domain]]
      lost == r.ring_head > Here
      p == IF lost THEN r.ring_head ELSE Here
  IN /\ r.pc = "tail"
     /\ ok \/ lost
     /\ CASE ~ok -> EndBody([x EXCEPT !.early_exit = TRUE], Here, TRUE)
          [] ok /\ p >= x.ring_tail -> EndBody(x, p, FALSE)
          [] OTHER -> /\ pos' = [pos EXCEPT ![Domain] = p]
                      /\ r' = [x EXCEPT !.pc = "header"]
                      /\ UNCHANGED next_read_domain
     /\ UNCHANGED <<shared, w, log, given>>

\* A word that is not a header, read as one, has any length.
Lengths(word) == IF word.word = 0 THEN {word.event.len} ELSE 0..MaxLen

ReadHeader ==
  /\ r.pc = "header"
  /\ LET word == data[Domain][Here % Size] IN
     \E n \in Lengths(word) :
       r' = [r EXCEPT !.pc = "copy",
                      !.copy = [header |-> word, msg_length |-> n, buf |-> <<>>]]
  /\ UNCHANGED <<shared, w, pos, next_read_domain, log, given>>

\* What has been copied, and one word more.
With(buf, k, word) == [j \in DOMAIN buf \cup {k} |-> IF j = k THEN word ELSE buf[j]]

\* memcpy, in any order; it runs on behind the end of the ring.
CopyWord ==
  /\ r.pc = "copy"
  /\ \E k \in (1..r.copy.msg_length - 1) \ DOMAIN r.copy.buf :
       LET i == (Here % Size) + k
           word == IF i < Size THEN data[Domain][i] ELSE Blank
       IN r' = [r EXCEPT !.copy.buf = With(r.copy.buf, k, word)]
  /\ UNCHANGED <<shared, w, pos, next_read_domain, log, given>>

Copied == 1..r.copy.msg_length - 1 \subseteq DOMAIN r.copy.buf

\* Mutant: ring_head is not read again.
RecheckSkipped(ok) ==
  /\ r.pc = "copy" /\ Copied
  /\ r' = [r EXCEPT !.pc = "callback"]
  /\ UNCHANGED <<shared, w, pos, next_read_domain, log, given>>

\* Mutant: a loss ends the poll of the ring.
RecheckGivesUp(ok) ==
  /\ r.pc = "copy" /\ Copied
  /\ IF head[Domain] > Here
     THEN EndBody([r EXCEPT !.early_exit = ~ok], head[Domain], FALSE)
     ELSE /\ ok
          /\ r' = [r EXCEPT !.pc = "callback"]
          /\ UNCHANGED <<pos, next_read_domain>>
  /\ UNCHANGED <<shared, w, log, given>>

\* The event was overwritten, perhaps: pos moves, then the loss is reported.
Recheck(ok) ==
  /\ r.pc = "copy" /\ Copied
  /\ IF head[Domain] > Here
     THEN EndBody([r EXCEPT !.early_exit = ~ok], head[Domain], TRUE)
     ELSE /\ ok
          /\ r' = [r EXCEPT !.pc = "callback"]
          /\ UNCHANGED <<pos, next_read_domain>>
  /\ UNCHANGED <<shared, w, log, given>>

\* Padding is given to no callback, and shares its type with events of unit.
IsPadding(event) == event.type = "padding"
IsInternal(event) == event.type \in {"padding", "unit"}

\* An event that its callback fails on stays where it is.
Callback(ok) ==
  LET event == r.copy.header.event
      x == [r EXCEPT !.consumed = IF IsInternal(event) THEN @ ELSE @ + 1,
                     !.events = IF IsPadding(event) THEN @ ELSE @ + 1]
  IN /\ r.pc = "callback"
     /\ ok \/ ~IsPadding(event)
     /\ IF ok
        THEN EndBody(x, Here + r.copy.msg_length, TRUE)
        ELSE EndBody([r EXCEPT !.early_exit = TRUE], Here, TRUE)
     /\ given' = IF IsPadding(event) THEN given ELSE With(r.copy.buf, 0, r.copy.header)
     /\ UNCHANGED <<shared, w, log>>

Return ==
  /\ r.pc = "return"
  /\ r' = [pc |-> "idle"]
  /\ UNCHANGED <<shared, w, pos, next_read_domain, log, given>>

\* A callback that raises an exception returns 0 to the poll.
Outcomes == BOOLEAN

caml_runtime_events_read_poll ==
  \/ Poll
  \/ LoadHead
  \/ \E ok \in Outcomes : LoadTail(ok) \/ Recheck(ok) \/ Callback(ok)
  \/ ReadHeader
  \/ CopyWord
  \/ Return

Next ==
  \/ \E d \in Writers :
       \/ RuntimeEvent(d)
       \/ caml_runtime_events_user_write(d)
       \/ caml_runtime_events_pause(d)
       \/ caml_runtime_events_resume(d)
       \/ RingIsActive(d)
       \/ write_to_ring(d)
  \/ caml_runtime_events_read_poll

Spec == Init /\ [][Next]_vars

--------------------------------------------------------------------------------
(***************************************************************************)
(* Between head and tail a ring holds whole events, one after the other:   *)
(* each word belongs to an event that lies between the two, and is the one *)
(* its position says.  A consumer that starts at the head finds headers    *)
(* where it expects them.                                                  *)
(***************************************************************************)
RingIntact ==
  \A d \in Rings :
    /\ head[d] <= tail[d] /\ tail[d] < head[d] + Size
    /\ \A e \in log[d] : e.at >= head[d] =>
         \A k \in 0..(IF IsPadding(e.event) THEN 0 ELSE e.event.len - 1) :
           data[d][(e.at + k) % Size] = [at |-> e.at, event |-> e.event, word |-> k]
    /\ \A p \in head[d]..tail[d] - 1 :
         \E e \in log[d] : head[d] <= e.at /\ e.at <= p /\ p < e.at + e.event.len

(***************************************************************************)
(* A poll without a limit that no callback stops has read, in every ring,  *)
(* all that had been written when it began, or has reported it lost.       *)
(***************************************************************************)
PollDrains ==
  r.pc = "return" /\ r.option = None /\ ~r.early_exit =>
    \A d \in Rings : pos[d] >= r.tails[d]

(***************************************************************************)
(* Whatever is written is in the reach of a poll until it is given up: it  *)
(* lies whole between head and tail, and a poll goes as far as it.         *)
(***************************************************************************)
EventsInReach == RingIntact /\ PollDrains

\* "calls the corresponding functions on callbacks for up to max_option events"
PollWithinMax ==
  r.pc = "return" /\ r.option # None => r.events <= r.option

Log == INSTANCE LossyLog
         WITH Events <- Written \cup {Padding(n) : n \in 1..MaxLen},
              oldest <- head, next <- pos

(***************************************************************************)
(* The ring is a log that loses old events only: what reaches a callback   *)
(* is an event as it was written, in order and never torn, and what is     *)
(* skipped had been dropped.                                               *)
(***************************************************************************)
RefinesLossyLog == Log!Spec
================================================================================
