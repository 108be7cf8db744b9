----------------------------- MODULE CacheIndex -----------------------------
(***************************************************************************)
(* The cache-index collaborator (StateCacheService) as ContentService      *)
(* uses it.  Its source is not part of this repository, so the operators   *)
(* below follow the interface of spec section 6: the index keeps the ids   *)
(* of committed cache entries (the LRU groups), the ids with a pending      *)
(* download, and the ids whose content (MIME) type is known.  The          *)
(* eviction policy is abstracted to "any committed, non-pending entry";   *)
(* the manager only ever asks for one candidate at a time.                 *)
(*                                                                         *)
(* Every operator maps an index value to a new index value, so that one    *)
(* action of the manager can compose several index calls the way a        *)
(* synchronous stretch of JavaScript does.                                 *)
(***************************************************************************)
EXTENDS FiniteSets

CONSTANT Objs   \* object identifiers

IndexType == [cached : SUBSET Objs, pending : SUBSET Objs, mime : SUBSET Objs]

\* The indexes StateCacheService may load when the node starts: any cache
\* entries and content types, no pending download.
LoadedIndexes == {[cached |-> C, pending |-> {}, mime |-> M] : C, M \in SUBSET Objs}

\* getCachedObjectsIds()
GetCachedObjectsIds(idx) == idx.cached

\* The ids getCacheEvictCandidateObjectId() may return: committed entries
\* that are not in-flight downloads.
EvictCandidates(idx) == idx.cached \ idx.pending

\* dropById(id) for every id of S: the entry and its content type go.
DropById(idx, S) ==
    [idx EXCEPT !.cached = @ \ S, !.mime = @ \ S]

\* newPendingDownload(id), done by the caller before handleNewContent.
NewPendingDownload(idx, o) == [idx EXCEPT !.pending = @ \cup {o}]

\* dropPendingDownload(id)
DropPendingDownload(idx, o) == [idx EXCEPT !.pending = @ \ {o}]

\* newContent(id, size): the object becomes a committed cache entry.
NewContent(idx, o) == [idx EXCEPT !.cached = @ \cup {o}]

\* setContentMimeType(id, type) for every id of S.
SetContentMimeType(idx, S) == [idx EXCEPT !.mime = @ \cup S]

=============================================================================
