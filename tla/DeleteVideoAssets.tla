-------------------------- MODULE DeleteVideoAssets --------------------------
(***************************************************************************)
(* The CLI command content:deleteVideoAssetsAsModerator                   *)
(* (src/cli/src/commands/content/deleteVideoAssetsAsModerator.ts).  It    *)
(* reads the video's data objects from the query node, checks that every   *)
(* --assetIds value belongs to the video, shows the sum of their state     *)
(* bloat bonds, asks for confirmation and sends the extrinsic with the ids *)
(* as a BTreeSet<u64>.  The chain (not in this repository) removes the     *)
(* objects and pays their bonds to the curator when they all still belong  *)
(* to the video; the query node follows the chain with a delay.            *)
(***************************************************************************)
EXTENDS Naturals, SequencesExt, Functions

CONSTANTS
    Objs,       \* data object ids
    Bond,       \* the state bloat bond of each object
    MaxAssets,  \* the longest --assetIds list
    Repeats     \* TRUE: the same id may be given more than once

ASSUME Bond \in [Objs -> Nat] /\ MaxAssets \in Nat \ {0} /\ Repeats \in BOOLEAN

VARIABLES
    videoObjs,  \* chain: the objects of the video
    qnObjs,     \* query node: the objects it associates with the video
    assetIds,   \* the --assetIds flag values, in order, repeats allowed
    pc,         \* "start", "confirm", "sent", then "done", "exited" or "txFailed"
    shownBond,  \* the stateBloatBond printed before the confirmation
    paidBond    \* the bond the chain paid to the curator

vars == <<videoObjs, qnObjs, assetIds, pc, shownBond, paidBond>>

\* The sum the command computes: one bond per --assetIds value (line 57).
SeqBondSum(ids) == SumFunction([i \in DOMAIN ids |-> Bond[ids[i]]])

\* What the chain pays for a set of deleted objects.
SetBondSum(S) == SumFunctionOnSet(Bond, S)

Init ==
    /\ videoObjs \in SUBSET Objs
    /\ qnObjs = videoObjs
    /\ assetIds \in {s \in SeqOf(Objs, MaxAssets) \ {<<>>} : Repeats \/ IsInjective(s)}
    /\ pc = "start"
    /\ shownBond = 0
    /\ paidBond = 0

(***************************************************************************)
(* run() up to the confirmation prompt (lines 49-66): getDataObjectsInfo   *)
(* (lines 34-47) exits with InvalidInput at the first id the query node    *)
(* does not list for the video; otherwise the bonds are summed and shown.  *)
(***************************************************************************)
GetDataObjectsInfo ==
    /\ pc = "start"
    /\ \/ /\ ToSet(assetIds) \subseteq qnObjs
          /\ shownBond' = SeqBondSum(assetIds)
          /\ pc' = "confirm"
       \/ /\ ~(ToSet(assetIds) \subseteq qnObjs)
          /\ pc' = "exited"
          /\ UNCHANGED shownBond
    /\ UNCHANGED <<videoObjs, qnObjs, assetIds, paidBond>>

\* requireConfirmation (lines 64-66): the user accepts, and the extrinsic
\* is sent (lines 68-76), or declines and the command exits.
Confirm ==
    /\ pc = "confirm"
    /\ \E yes \in BOOLEAN : pc' = IF yes THEN "sent" ELSE "exited"
    /\ UNCHANGED <<videoObjs, qnObjs, assetIds, shownBond, paidBond>>

\* The chain executes deleteVideoAssetsAsModerator with the BTreeSet of ids.
ApplyTx ==
    LET ids == ToSet(assetIds) IN
    /\ pc = "sent"
    /\ \/ /\ ids \subseteq videoObjs
          /\ videoObjs' = videoObjs \ ids
          /\ paidBond' = SetBondSum(ids)
          /\ pc' = "done"
       \/ /\ ~(ids \subseteq videoObjs)
          /\ pc' = "txFailed"
          /\ UNCHANGED <<videoObjs, paidBond>>
    /\ UNCHANGED <<qnObjs, assetIds, shownBond>>

\* Meanwhile the video's owner or another curator adds or removes an asset.
OtherAssetChange ==
    /\ \E o \in Objs : videoObjs' = IF o \in videoObjs THEN videoObjs \ {o} ELSE videoObjs \cup {o}
    /\ UNCHANGED <<qnObjs, assetIds, pc, shownBond, paidBond>>

\* The query node processes the chain's events.
QueryNodeSync ==
    /\ qnObjs # videoObjs
    /\ qnObjs' = videoObjs
    /\ UNCHANGED <<videoObjs, assetIds, pc, shownBond, paidBond>>

Next ==
    \/ GetDataObjectsInfo
    \/ Confirm
    \/ ApplyTx
    \/ OtherAssetChange
    \/ QueryNodeSync

Spec == Init /\ [][Next]_vars

-----------------------------------------------------------------------------

TypeOK ==
    /\ videoObjs \subseteq Objs /\ qnObjs \subseteq Objs
    /\ assetIds \in SeqOf(Objs, MaxAssets)
    /\ pc \in {"start", "confirm", "sent", "done", "exited", "txFailed"}
    /\ shownBond \in Nat /\ paidBond \in Nat

(***************************************************************************)
(* The bond the command announces before the confirmation is the bond the *)
(* chain pays once the extrinsic succeeds (the message at lines 58-62     *)
(* promises that transfer).                                                *)
(***************************************************************************)
ShownBondIsPaid ==
    pc = "done" => paidBond = shownBond

=============================================================================
