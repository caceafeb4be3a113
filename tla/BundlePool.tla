------------------------------ MODULE BundlePool ------------------------------
(***************************************************************************)
(* What the DSA shared pool promises its two clients, the latent and the    *)
(* indexer KV cache groups: every physical bundle is free or belongs to one *)
(* owner, an owner is given only free bundles, and only an owner gives its  *)
(* bundles back.  DSASharedPool implements this specification.              *)
(***************************************************************************)
CONSTANTS Bundle,   \* the physical bundles that can be handed out
          Owner,    \* the clients
          NoOwner   \* the owner of a free bundle

VARIABLE owners     \* owners[b]: the client that holds bundle b, or NoOwner

Init == owners = [b \in Bundle |-> NoOwner]

Acquire(o, S) ==
    /\ \A b \in S : owners[b] = NoOwner
    /\ owners' = [b \in Bundle |-> IF b \in S THEN o ELSE owners[b]]

Release(o, S) ==
    /\ \A b \in S : owners[b] = o
    /\ owners' = [b \in Bundle |-> IF b \in S THEN NoOwner ELSE owners[b]]

Next == \E o \in Owner, S \in SUBSET Bundle : Acquire(o, S) \/ Release(o, S)

Spec == Init /\ [][Next]_owners
===============================================================================
