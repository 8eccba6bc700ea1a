-------------------------------- MODULE Fifo --------------------------------
(***************************************************************************)
(* What one message queue promises: messages come out in the order they    *)
(* went in, each once.  SkynetMq relies on this; MqRing implements it.     *)
(***************************************************************************)
EXTENDS Sequences

CONSTANT Msg

VARIABLES
    items,   \* the messages in the queue, oldest first
    message  \* what the last successful pop returned

vars == <<items, message>>

Init == items = <<>>

Push(m) ==
    /\ items' = Append(items, m)
    /\ UNCHANGED message

Pop ==
    /\ items # <<>>
    /\ message' = Head(items)
    /\ items' = Tail(items)

Next == Pop \/ \E m \in Msg : Push(m)

Spec == Init /\ [][Next]_vars
=============================================================================
