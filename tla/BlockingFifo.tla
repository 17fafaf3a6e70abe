---------------------------- MODULE BlockingFifo ----------------------------
(***************************************************************************)
(* What the job queue promises its clients, with every call one step: an   *)
(* unbounded first-in first-out buffer that can be closed.  Anybody may    *)
(* put at any time, also after the queue was closed; every item is taken   *)
(* at most once and in the order in which the items were put; a consumer   *)
(* gives up for good only when the queue has been closed.                  *)
(*                                                                         *)
(* QuitableQueue (quitablequeue.h, with its mutex and its condition        *)
(* variable) is shown to implement this module.                            *)
(***************************************************************************)
EXTENDS Naturals, Sequences

CONSTANTS Items, Consumers

VARIABLES
    items,  \* the queued items, oldest first
    taken,  \* all items taken so far, in the order of the takes
    open,   \* FALSE once the queue was closed
    left    \* the consumers that gave up

vars == <<items, taken, open, left>>

Init ==
    /\ items = <<>>
    /\ taken = <<>>
    /\ open = TRUE
    /\ left = {}

Put(i) ==
    /\ \A n \in 1 .. Len(items) : items[n] # i
    /\ \A n \in 1 .. Len(taken) : taken[n] # i
    /\ items' = Append(items, i)
    /\ UNCHANGED <<taken, open, left>>

Take ==
    /\ left # Consumers
    /\ items # <<>>
    /\ items' = Tail(items)
    /\ taken' = Append(taken, Head(items))
    /\ UNCHANGED <<open, left>>

Close ==
    /\ open' = FALSE
    /\ UNCHANGED <<items, taken, left>>

Leave(c) ==
    /\ ~ open
    /\ c \notin left
    /\ left' = left \cup {c}
    /\ UNCHANGED <<items, taken, open>>

Next ==
    \/ \E i \in Items : Put(i)
    \/ Take
    \/ Close
    \/ \E c \in Consumers : Leave(c)

Spec == Init /\ [][Next]_vars

=============================================================================
