------------------------------ MODULE Broadcast ------------------------------
(***************************************************************************)
(* What MessageQueue promises: one writer, several readers, every reader    *)
(* gets every message once and in order, and the writer is never more than  *)
(* a fixed number of messages ahead of the slowest reader.                  *)
(***************************************************************************)
EXTENDS Naturals, Sequences

CONSTANTS Reader, Message, Capacity

VARIABLES sent,    \* all messages, in order
          got      \* what each reader has received

Init == sent = <<>> /\ got = [r \in Reader |-> <<>>]

Send(m) ==
    /\ \A r \in Reader : Len(sent) < Len(got[r]) + Capacity
    /\ sent' = Append(sent, m)
    /\ UNCHANGED got

Receive(r) ==
    /\ Len(got[r]) < Len(sent)
    /\ got' = [got EXCEPT ![r] = Append(@, sent[Len(@) + 1])]
    /\ UNCHANGED sent

Next == (\E m \in Message : Send(m)) \/ (\E r \in Reader : Receive(r))

Spec == Init /\ [][Next]_<<sent, got>>
=============================================================================
