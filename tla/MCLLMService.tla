----------------------------- MODULE MCLLMService -----------------------------
(* LLMService on calls for one thing, which share its cache entry: they    *)
(* begin with one provider and ask the same, and at most one entry, which  *)
(* no longer fits, is left from before.                                    *)
EXTENDS LLMService

MCInit ==
    /\ Init
    /\ \A c, d \in Calls : provider[c] = provider[d] /\ prompt[c] = prompt[d]
    /\ \A p \in Providers, q \in Prompts : cache[p][q] # "wellformed"
    /\ Cardinality({ k \in Providers \X Prompts : cache[k[1]][k[2]] # None }) <= 1
    /\ keys \in {{"groq"}, Providers}

MCSpec == MCInit /\ [][Next]_vars /\ Fairness
=============================================================================
