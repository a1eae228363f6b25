---------------------------- MODULE MCOrchestrator ----------------------------
EXTENDS Orchestrator

\* b needs a; c may discover e and d, which needs e; x and y need each other.
Graph == [a |-> {}, b |-> {"a"}, c |-> {}, d |-> {"e"}, e |-> {}, x |-> {"y"}, y |-> {"x"}]
SomePlans == {<<"b", "a", "c">>, <<"x", "y", "c">>}
Discoveries == [t \in DOMAIN Graph |-> IF t = "c" THEN <<"d", "e">> ELSE <<>>]

\* c may discover d, which needs the planned a: the instance of a disagreement
\* in the README.
FeedGraph == [a |-> {}, c |-> {}, d |-> {"a"}]
FeedPlans == {<<"a", "c">>}
FeedDiscoveries == [t \in DOMAIN FeedGraph |-> IF t = "c" THEN <<"d">> ELSE <<>>]
=============================================================================
