---------------------------- MODULE CommandPath -----------------------------
(***************************************************************************)
(* What the SDK promises about commands: a bounded queue between the       *)
(* client, which appends to it until it is dropped, and the engine, which  *)
(* takes from it in order and ends only when the client is gone and        *)
(* nothing is left.  ConnectionManager implements this promise, and Client *)
(* relies on it.                                                           *)
(***************************************************************************)
EXTENDS Integers, Sequences

CONSTANTS Command,  \* the commands a client may send
          Capacity  \* size of the command channel

VARIABLES
  queue,   \* the commands the engine has not taken yet
  open,    \* the client, and with it the sender, still exists
  running  \* the engine has not returned

path == <<queue, open, running>>

PathInit == queue = <<>> /\ open = TRUE /\ running = TRUE

\* Slip: the channel is unbounded.
SlipUnbounded(c) ==
  /\ open
  /\ queue' = Append(queue, c)
  /\ UNCHANGED <<open, running>>

\* The channel accepts a command: send answers Ok.
Accept(c) ==
  /\ open /\ Len(queue) < Capacity
  /\ queue' = Append(queue, c)
  /\ UNCHANGED <<open, running>>

Close ==
  /\ open
  /\ open' = FALSE
  /\ UNCHANGED <<queue, running>>

Take ==
  /\ running /\ queue # <<>>
  /\ queue' = Tail(queue)
  /\ UNCHANGED <<open, running>>

\* recv answers None only when the senders are gone and the queue is empty.
End ==
  /\ running /\ ~open /\ queue = <<>>
  /\ running' = FALSE
  /\ UNCHANGED <<queue, open>>

PathNext == (\E c \in Command : Accept(c)) \/ Close \/ Take \/ End

PathSpec == PathInit /\ [][PathNext]_path

=============================================================================
