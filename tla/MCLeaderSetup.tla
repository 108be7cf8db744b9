---------------------------- MODULE MCLeaderSetup ----------------------------
EXTENDS LeaderSetup, TLC

CONSTANTS storage, content, f1, f2, f3, f4

MCGroups == {storage, content}

\* Two storage setups and two content setups, as scenarios run them in
\* parallel jobs.
MCFlows == {f1, f2, f3, f4}
MCFlowGroup == (f1 :> storage) @@ (f2 :> content) @@ (f3 :> content) @@ (f4 :> storage)

=============================================================================
