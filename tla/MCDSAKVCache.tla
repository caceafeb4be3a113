---------------------------- MODULE MCDSAKVCache ----------------------------
EXTENDS DSAKVCache, TLC

VARIABLE deployment   \* the deployment this behaviour is about

\* A long prompt that can be loaded, and a short one that competes with it.
MCPromptLen == [r \in Req |-> IF r = 1 THEN 9 ELSE 3]

\* A deployment without external hits: one scratch block and a small window.
Dense == INSTANCE DSAKVCache WITH Scratch <- 1, Window <- 2, Hits <- {}

\* Prompts of one token: a full hit leaves nothing computed, so that a request
\* that has been loaded is looked up and loaded again.
Reloaded == INSTANCE DSAKVCache WITH PromptLen <- [r \in Req |-> 1], MaxTokens <- 8, Hits <- {1, 2}

\* A behaviour belongs to one of the deployments from its first state on.
AllInit ==
    \/ deployment = "paged" /\ Init
    \/ deployment = "dense" /\ Dense!Init
    \/ deployment = "reloaded" /\ Reloaded!Init
AllNext ==
    /\ UNCHANGED deployment
    /\ \/ deployment = "paged" /\ Next
       \/ deployment = "dense" /\ Dense!Next
       \/ deployment = "reloaded" /\ Reloaded!Next
AllSpec == AllInit /\ [][AllNext]_<<vars, deployment>>
=============================================================================
