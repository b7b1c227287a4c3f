----------------------------- MODULE MCSignals -----------------------------
(* Signals for TLC: two threads and two signals. *)
EXTENDS Signals
CONSTANTS t1, t2
Threads == {t1, t2}
Sigs == 1 .. 2
Profile(handled, urgent, raises, nest, c, e) ==
    [handled |-> handled, urgent |-> urgent, raises |-> raises,
     nest |-> nest, calls |-> c, events |-> e]

(* Handlers that run in handlers; calls that handlers interrupt; handlers *)
(* that are installed and removed; C code and yields that disturb the others. *)
Programs ==
    {Profile(Sigs, FALSE, FALSE, 2, 0, 3),
     Profile(Sigs, FALSE, FALSE, 3, 1, 2),
     Profile({}, FALSE, FALSE, 2, 2, 1),
     Profile(Sigs, TRUE, TRUE, 2, 1, 1)}

(* A call of caml_check_urgent_gc. *)
UrgentPrograms == {Profile(Sigs, TRUE, FALSE, 2, 1, 1)}
(* A handler that raises in a yield. *)
RaisingPrograms == {Profile(Sigs, FALSE, TRUE, 2, 0, 3)}
=============================================================================
