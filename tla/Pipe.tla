---------------------------------- MODULE Pipe ----------------------------------
(***************************************************************************)
(* What a tunnel promises for one direction of its connections, without    *)
(* channels, loops or WebSockets: the chunks one end has written arrive at *)
(* the other in the order in which they were written, each at most once    *)
(* and none that comes after one that does not.  A connection may stop     *)
(* carrying at any time.                                                   *)
(***************************************************************************)
EXTENDS Naturals, Sequences

CONSTANTS Ends     \* the connections

VARIABLES
  sent,   \* how many chunks were written into each
  got     \* the numbers of the chunks that came out of each

Init == sent = [c \in Ends |-> 0] /\ got = [c \in Ends |-> <<>>]

Write(c) == sent' = [sent EXCEPT ![c] = @ + 1] /\ UNCHANGED got

Deliver(c) ==
  /\ Len(got[c]) < sent[c]
  /\ got' = [got EXCEPT ![c] = Append(@, Len(@) + 1)]
  /\ UNCHANGED sent

Next == \E c \in Ends : Write(c) \/ Deliver(c)

Spec == Init /\ [][Next]_<<sent, got>>
===============================================================================
