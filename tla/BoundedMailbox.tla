--------------------------- MODULE BoundedMailbox ---------------------------
(***************************************************************************)
(* What the buffer promises, without its map, its FIFO of keys and its     *)
(* counter: a priority lane and a bounded queue of messages, at most one   *)
(* per key.  A newcomer takes the place of the message of its key or joins *)
(* the end of the queue; room is made only by dropping the front of a full *)
(* queue; the priority lane is served first.                               *)
(***************************************************************************)
EXTENDS Messages, Sequences

CONSTANTS Limit,     \* the most messages the queue holds
          Arrivals   \* the messages that may arrive

VARIABLES lane, queue, out

mailbox == <<lane, queue, out>>

Init ==
  /\ lane = <<>>
  /\ queue = <<>>
  /\ out = <<>>

AcceptPriority(m) ==
  /\ IsPriority(m)
  /\ lane' = Append(lane, m)
  /\ UNCHANGED <<queue, out>>

\* A newcomer to the queue that is left once the first n messages are dropped.
Join(m, n) ==
  LET rest == SubSeq(queue, n + 1, Len(queue)) IN
  \/ \E i \in 1 .. Len(rest) :
       /\ Key(rest[i]) = Key(m)
       /\ queue' = [rest EXCEPT ![i] = m]
  \/ /\ \A i \in 1 .. Len(rest) : Key(rest[i]) # Key(m)
     /\ Len(rest) < Limit
     /\ queue' = Append(rest, m)

Accept(m) ==
  /\ ~IsPriority(m)
  /\ \E n \in 0 .. Len(queue) : (n > 0 => Len(queue) = Limit) /\ Join(m, n)
  /\ UNCHANGED <<lane, out>>

ServePriority ==
  /\ lane # <<>>
  /\ out' = Append(out, Head(lane))
  /\ lane' = Tail(lane)
  /\ UNCHANGED queue

Serve ==
  /\ lane = <<>> /\ queue # <<>>
  /\ out' = Append(out, Head(queue))
  /\ queue' = Tail(queue)
  /\ UNCHANGED lane

Discard ==
  /\ lane' = <<>>
  /\ queue' = <<>>
  /\ UNCHANGED out

Next ==
  \/ \E m \in Arrivals : AcceptPriority(m) \/ Accept(m)
  \/ ServePriority
  \/ Serve
  \/ Discard

Spec == Init /\ [][Next]_mailbox

=============================================================================
