-------------------------- MODULE MCContentService --------------------------
(***************************************************************************)
(* Model-checking instance of ContentService: two objects whose sizes do   *)
(* not fit the storage limit together, so every download of the second    *)
(* object has to evict the first, and two concurrent requests.             *)
(***************************************************************************)
EXTENDS ContentService

CONSTANTS o1, o2, o3, r1, r2, r3

MCObjs == {o1, o2}
MCObjSize == (o1 :> 2) @@ (o2 :> 1)
MCReqs == {r1, r2}

\* Three objects and three requests: o2 and o3 fit together, o1 needs both
\* evicted, and three downloads can be in flight at once.
MCObjs3 == {o1, o2, o3}
MCObjSize3 == (o1 :> 2) @@ (o2 :> 1) @@ (o3 :> 1)
MCReqs3 == {r1, r2, r3}

\* The node restarts with an index that lists every file it finds: the
\* state a clean shutdown, which saves the index, leaves behind.
MCInitIndexCoversDisk ==
    /\ Init
    /\ DOMAIN disk \subseteq index.cached

MCSpecIndexCoversDisk == MCInitIndexCoversDisk /\ [][Next]_vars /\ Fairness

MCSymmetry == Permutations(Reqs)
=============================================================================
