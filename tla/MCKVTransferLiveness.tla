------------------------ MODULE MCKVTransferLiveness ------------------------
EXTENDS KVTransferLifecycle

CONSTANTS w1, w2, r2

VARIABLE spread   \* the reports of two workers are put together in this behaviour

\* One request, whose transfers end on two workers, in the same step or not.
Spread == INSTANCE KVTransferLifecycle WITH Worker <- {w1, w2}

\* A behaviour belongs to one of the two deployments from its first state on.
BothInit == spread \in BOOLEAN /\ IF spread THEN Spread!Init ELSE Init
BothNext == \/ ~spread /\ UNCHANGED spread /\ Next
            \/ spread /\ UNCHANGED spread /\ Spread!Next /\ status'[r2] = status[r2]

\* With the fairness of FairSpec.
BothSpec ==
    /\ BothInit /\ [][BothNext]_<<vars, spread>>
    /\ WF_vars(IF spread THEN Spread!schedule ELSE schedule)
    /\ WF_vars(IF spread THEN Spread!execute_model ELSE execute_model)
    /\ WF_vars(IF spread THEN Spread!update_from_output ELSE update_from_output)
    /\ \A w \in {w1, w2}, r \in Req :
          /\ WF_vars(IF spread THEN Spread!RecvDone(w, r) ELSE w \in Worker /\ RecvDone(w, r))
          /\ WF_vars(IF spread THEN Spread!SendDone(w, r) ELSE w \in Worker /\ SendDone(w, r))
=============================================================================
