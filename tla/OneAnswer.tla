------------------------------ MODULE OneAnswer ------------------------------
(***************************************************************************)
(* What the asynchronous operations of Porla promise their callers: an      *)
(* operation that was started is answered once, or dropped with the plugin  *)
(* that owns its callback, and it is pending until then.  CurlMulti and     *)
(* TcpClient implement it.                                                  *)
(***************************************************************************)

CONSTANTS
    Ops,    \* the operations
    Owned   \* those whose callback is a plugin's

VARIABLE status

Init == status = [o \in Ops |-> "new"]

\* Operation o goes from one status to another, and no other operation changes.
Moves(o, from, to) ==
    /\ status[o] = from /\ status'[o] = to
    /\ \A p \in Ops \ {o} : status'[p] = status[p]

Start(o) == Moves(o, "new", "pending")

Answer(o) == Moves(o, "pending", "answered")

\* The plugin goes with every callback it has.
Drop ==
    \A o \in Ops : status'[o] = IF o \in Owned /\ status[o] # "answered" THEN "dropped" ELSE status[o]

Next == Drop \/ \E o \in Ops : Start(o) \/ Answer(o)

Spec == Init /\ [][Next]_status
=============================================================================
