---------------------------- MODULE ContentCache ----------------------------
(***************************************************************************)
(* What the content cache manager promises its callers (spec sections 3,   *)
(* 4 and 8), with no streams, files or index: a set of stored objects,    *)
(* the committed ones among them that may be evicted, the objects holding  *)
(* a reservation, and the used-space counter, which is always the size of  *)
(* the stored objects plus the reservations and never passes the limit    *)
(* when a reservation is made.  ContentService implements this module     *)
(* under the refinement mapping of ContentService!Abstract.                *)
(***************************************************************************)
EXTENDS Naturals, FiniteSets, Functions

CONSTANTS Objs, ObjSize, Limit

VARIABLES
    loaded,     \* startup reconciliation has run
    stored,     \* objects whose complete content is stored and counted
    evictable,  \* committed cache entries: the objects eviction may remove
    reserved,   \* objects with an in-flight ingestion holding a reservation
    used        \* the used-space counter

vars == <<loaded, stored, evictable, reserved, used>>

Size(S) == SumFunctionOnSet(ObjSize, S)

Init ==
    /\ loaded = FALSE
    /\ stored = {} /\ evictable = {} /\ reserved = {}
    /\ used = 0

\* Reconciliation keeps a set of stored objects, some of them committed.
Load(K, E) ==
    /\ ~loaded
    /\ loaded' = TRUE
    /\ stored' = K /\ evictable' = E
    /\ used' = Size(K)
    /\ UNCHANGED reserved

\* Committed entries are removed (eviction, cleanup): their bytes are freed.
Remove(X) ==
    /\ loaded
    /\ X # {} /\ X \subseteq evictable
    /\ stored' = stored \ X /\ evictable' = evictable \ X
    /\ used' = used - Size(X)
    /\ UNCHANGED <<loaded, reserved>>

\* An ingestion of o reserves its size, after removing X to make room; the
\* counter stays within the limit.
Reserve(o, X) ==
    /\ loaded
    /\ o \notin stored \cup reserved
    /\ X \subseteq evictable
    /\ stored' = stored \ X /\ evictable' = evictable \ X
    /\ reserved' = reserved \cup {o}
    /\ used' = used - Size(X) + ObjSize[o]
    /\ used' <= Limit
    /\ UNCHANGED loaded

\* A verified ingestion becomes a committed entry; its reservation is now
\* the object's size.
Complete(o) ==
    /\ o \in reserved
    /\ reserved' = reserved \ {o}
    /\ stored' = stored \cup {o} /\ evictable' = evictable \cup {o}
    /\ UNCHANGED <<loaded, used>>

\* A failed ingestion releases its reservation.
Abort(o) ==
    /\ o \in reserved
    /\ reserved' = reserved \ {o}
    /\ used' = used - ObjSize[o]
    /\ UNCHANGED <<loaded, stored, evictable>>

\* The process stops: nothing is loaded or reserved until reconciliation
\* runs again; only the stored content survives, for the next Load.
Crash ==
    /\ loaded' = FALSE
    /\ stored' = {} /\ evictable' = {} /\ reserved' = {}
    /\ used' = 0

Next ==
    \/ Crash
    \/ \E K \in SUBSET Objs : \E E \in SUBSET K : Load(K, E)
    \/ \E X \in SUBSET Objs : Remove(X)
    \/ \E o \in Objs, X \in SUBSET Objs : Reserve(o, X)
    \/ \E o \in Objs : Complete(o) \/ Abort(o)

Spec == Init /\ [][Next]_vars

=============================================================================
