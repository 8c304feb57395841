------------------------------- MODULE Mailbox -------------------------------
(***************************************************************************)
(* What sending to a client promises: the events of one sender reach the   *)
(* client in the order they were sent and none of them twice.  Some may    *)
(* never arrive.                                                           *)
(***************************************************************************)
EXTENDS Naturals

CONSTANTS Clients, Senders

VARIABLES sent,  \* the number of events each sender has sent so far
          last   \* the number of the last event of each sender a client got

Init ==
  /\ sent = [s \in Senders |-> 0]
  /\ last = [c \in Clients |-> [s \in Senders |-> 0]]

Send(s) ==
  /\ sent' = [sent EXCEPT ![s] = @ + 1]
  /\ UNCHANGED last

(* Events between the last one and this one are lost for the client. *)
Receive(c, s, n) ==
  /\ last[c][s] < n
  /\ n <= sent[s]
  /\ last' = [last EXCEPT ![c][s] = n]
  /\ UNCHANGED sent

Next ==
  \E s \in Senders :
    \/ Send(s)
    \/ \E c \in Clients, n \in 1 .. sent[s] : Receive(c, s, n)

Spec == Init /\ [][Next]_<<sent, last>>
=============================================================================
