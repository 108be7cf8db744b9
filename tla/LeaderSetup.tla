----------------------------- MODULE LeaderSetup -----------------------------
(***************************************************************************)
(* The network-tests flow leaderSetup(api, env, db, group)                *)
(* (src/tests/network-tests/src/flows/leaderSetup.ts).  Scenarios call it  *)
(* for several working groups, possibly in parallel jobs, sharing one      *)
(* DbService.  It returns at once if the db records a leader, otherwise    *)
(* it runs LeaderHiringHappyCaseFixture for the group (sudo opens a lead   *)
(* opening and fills it; the fixture expects success) and records the new  *)
(* leader in the db.  The chain refuses to hire a lead for a group that    *)
(* has one, which makes the fixture, and the flow, fail.                   *)
(***************************************************************************)
EXTENDS FiniteSets

CONSTANTS
    Groups,         \* working groups
    StorageGroup,   \* WorkingGroups.StorageWorkingGroup
    Flows,          \* leaderSetup calls
    FlowGroup       \* the group argument of each call

ASSUME StorageGroup \in Groups /\ FlowGroup \in [Flows -> Groups]

VARIABLES
    dbLeaders,      \* DbService: groups with a recorded leader
    chainLeads,     \* chain: groups with a hired lead
    pc              \* per call: "ready", "hiring", "hired", "returned", "failed"

vars == <<dbLeaders, chainLeads, pc>>

Init ==
    /\ dbLeaders = {}
    /\ chainLeads = {}
    /\ pc = [f \in Flows |-> "ready"]

\* Lines 14-16: the early return tests the storage group's leader,
\* whatever group the call is for.
CheckLeader(f) ==
    /\ pc[f] = "ready"
    /\ pc' = [pc EXCEPT ![f] = IF StorageGroup \in dbLeaders THEN "returned" ELSE "hiring"]
    /\ UNCHANGED <<dbLeaders, chainLeads>>

\* Lines 18-46: the hiring fixture runs with expectFailure = false.
RunHiringFixture(f) ==
    LET g == FlowGroup[f] IN
    /\ pc[f] = "hiring"
    /\ \/ /\ g \notin chainLeads
          /\ chainLeads' = chainLeads \cup {g}
          /\ pc' = [pc EXCEPT ![f] = "hired"]
       \/ /\ g \in chainLeads
          /\ pc' = [pc EXCEPT ![f] = "failed"]
          /\ UNCHANGED chainLeads
    /\ UNCHANGED dbLeaders

\* Line 48: the leader is recorded for the call's group.
SetLeader(f) ==
    /\ pc[f] = "hired"
    /\ dbLeaders' = dbLeaders \cup {FlowGroup[f]}
    /\ pc' = [pc EXCEPT ![f] = "returned"]
    /\ UNCHANGED chainLeads

Done ==
    /\ \A f \in Flows : pc[f] \in {"returned", "failed"}
    /\ UNCHANGED vars

Next ==
    \/ \E f \in Flows : CheckLeader(f) \/ RunHiringFixture(f) \/ SetLeader(f)
    \/ Done

Spec == Init /\ [][Next]_vars

-----------------------------------------------------------------------------

TypeOK ==
    /\ dbLeaders \subseteq Groups /\ chainLeads \subseteq Groups
    /\ pc \in [Flows -> {"ready", "hiring", "hired", "returned", "failed"}]

(***************************************************************************)
(* When leaderSetup returns normally, the db records a leader for the      *)
(* group it was called for, which is what the flows after it rely on.      *)
(***************************************************************************)
LeaderAfterSetup ==
    \A f \in Flows : pc[f] = "returned" => FlowGroup[f] \in dbLeaders

=============================================================================
