----------------------------- MODULE PrintQueue -----------------------------
(***************************************************************************)
(* What the screen console promises its callers: messages are shown one by *)
(* one, once each, in the order in which they were taken.                  *)
(* ScreenConsole implements this.                                          *)
(***************************************************************************)
EXTENDS Sequences

CONSTANT Messages

VARIABLES queue,    \* what has been taken and not yet shown
          shown     \* what has been shown

Init == queue = <<>> /\ shown = <<>>

Take(m) == queue' = Append(queue, m) /\ UNCHANGED shown

Show ==
    /\ queue # <<>>
    /\ shown' = Append(shown, Head(queue))
    /\ queue' = Tail(queue)

Next == Show \/ \E m \in Messages : Take(m)

Spec == Init /\ [][Next]_<<queue, shown>>
=============================================================================
