------------------------------- MODULE ChatPages -------------------------------
(***************************************************************************)
(* The stored chat completions of the OpenAI server (stored-completions.ts *)
(* and the chat half of response-store.ts): rows are inserted, given new   *)
(* metadata and deleted while a client walks through the pages of a list.  *)
(*                                                                         *)
(* A row's body is left out.  "created" is the time the request began, so  *)
(* that rows are not inserted in its order, and two rows may have the same *)
(* one; ids are random and are ordered like any strings.  A metadata is    *)
(* abstracted to the one value a query may filter on.                      *)
(***************************************************************************)
EXTENDS Naturals, SequencesExt

CONSTANTS
    Ids,            \* of the rows: numbers, for their order (0 is no cursor)
    MaxTime,        \* bound: of "created"
    Models,
    Tags,           \* values of a metadata key
    NoTag,          \* the key is not there
    DefaultLimit,   \* LIST_DEFAULT_LIMIT = 20
    MaxLimit,       \* LIST_MAX_LIMIT = 100
    MaxChanges      \* bound: of the changes of metadata

ASSUME PagesAssumption ==
    /\ Ids \subseteq Nat \ {0} /\ NoTag \notin Tags
    /\ MaxLimit \in Nat \ {0} /\ DefaultLimit \in 1 .. MaxLimit
    /\ MaxTime \in Nat /\ MaxChanges \in Nat

VARIABLES
    rows,       \* the table: rows by their ids
    used,       \* the ids ever given to a row
    changes,
    query,      \* of the walk
    walk,       \* "idle", "walking", "done" or "refused"
    after,      \* the cursor of its next request: an id, or 0 at first
    seen,       \* history: the ids of the pages so far
    steady      \* history: the ids that have matched since the walk began

pageVars == <<rows, used, changes, query, walk, after, seen, steady>>

Row == [created : 1 .. MaxTime, model : Models, tag : Tags \union {NoTag}]
Whatever == "any"
Queries == [order : {"asc", "desc"}, limit : 0 .. MaxLimit + 1,
            model : Models \union {Whatever}, tag : Tags \union {Whatever}]

PagesTypeOK ==
    /\ DOMAIN rows \subseteq used /\ used \subseteq Ids
    /\ \A id \in DOMAIN rows : rows[id] \in Row
    /\ query \in Queries
    /\ walk \in {"idle", "walking", "done", "refused"}
    /\ after \in used \union {0}
    /\ seen \in Seq(used) /\ steady \subseteq DOMAIN rows

PagesInit ==
    /\ rows = <<>> /\ used = {} /\ changes = 0
    /\ query = [order |-> "asc", limit |-> DefaultLimit, model |-> Whatever, tag |-> Whatever]
    /\ walk = "idle" /\ after = 0 /\ seen = <<>> /\ steady = {}

-----------------------------------------------------------------------------
(* The statement of buildListChatCompletionsSql.                           *)

Matches(q, row) == q.model \in {Whatever, row.model} /\ q.tag \in {Whatever, row.tag}

Matching(q) == {id \in DOMAIN rows : Matches(q, rows[id])}

\* created > ? OR (created = ? AND id > ?)
Later(a, b) ==
    \/ rows[a].created < rows[b].created
    \/ rows[a].created = rows[b].created /\ a < b

Precedes(q, a, b) == IF q.order = "asc" THEN Later(a, b) ELSE Later(b, a)

\* MUTANT: the cursor is a time only.
FoundByTime(q, cursor) ==
    {id \in Matching(q) :
        cursor = 0 \/ (Precedes(q, cursor, id) /\ rows[id].created # rows[cursor].created)}

\* WHERE: what matches, after the cursor.
Found(q, cursor) == {id \in Matching(q) : cursor = 0 \/ Precedes(q, cursor, id)}

\* ORDER BY and slice: the first rows of those found, in order, as many as a
\* page takes.
IsPage(q, found, page) ==
    /\ \A i, j \in DOMAIN page : i < j => Precedes(q, page[i], page[j])
    /\ \A i \in DOMAIN page : \A id \in found \ ToSet(page) : Precedes(q, page[i], id)
    /\ Len(page) = q.limit \/ ToSet(page) = found

Pages(q, found) == {page \in UNION {[1 .. n -> found] : n \in 0 .. q.limit} : IsPage(q, found, page)}

-----------------------------------------------------------------------------
(* The store's operations.                                                 *)

Without(id) == [other \in DOMAIN rows \ {id} |-> rows[other]]

\* insertChat, after the run of a request that began at some earlier time.
Insert(id, row) ==
    /\ id \notin used /\ used' = used \union {id}
    /\ rows' = [other \in DOMAIN rows \union {id} |-> IF other = id THEN row ELSE rows[other]]
    /\ UNCHANGED <<changes, query, walk, after, seen, steady>>

\* A body without metadata reads the row, an unknown id is a 404: both change
\* nothing.
UpdateMetadata(id, tag) ==
    /\ id \in DOMAIN rows /\ changes < MaxChanges
    /\ changes' = changes + 1
    /\ rows' = [rows EXCEPT ![id].tag = tag]
    /\ steady' = {other \in steady : Matches(query, rows'[other])}
    /\ UNCHANGED <<used, query, walk, after, seen>>

Delete(id) ==
    /\ id \in DOMAIN rows
    /\ rows' = Without(id)
    /\ steady' = steady \ {id}
    /\ UNCHANGED <<used, changes, query, walk, after, seen>>

StartWalk(q) ==
    /\ walk = "idle" /\ query' = q
    /\ walk' = IF q.limit \in 1 .. MaxLimit THEN "walking" ELSE "refused"
    /\ steady' = IF walk' = "walking" THEN Matching(q) ELSE {}
    /\ UNCHANGED <<rows, used, changes, after, seen>>

\* listChat: a cursor that is gone is refused, also one that the client got
\* from the page before.
NextPage ==
    /\ walk = "walking"
    /\ IF after # 0 /\ after \notin DOMAIN rows THEN
          walk' = "refused" /\ UNCHANGED <<after, seen>>
       ELSE LET found == Found(query, after)
            IN  \E page \in Pages(query, found) :
                   /\ seen' = seen \o page
                   /\ IF ToSet(page) # found THEN after' = Last(page) /\ UNCHANGED walk
                      ELSE walk' = "done" /\ UNCHANGED after
    /\ UNCHANGED <<rows, used, changes, query, steady>>

PagesNext ==
    \/ \E id \in Ids : Delete(id) \/ (\E row \in Row : Insert(id, row))
    \/ \E id \in Ids, tag \in Tags \union {NoTag} : UpdateMetadata(id, tag)
    \/ \E q \in Queries : StartWalk(q)
    \/ NextPage

PagesSpec == PagesInit /\ [][PagesNext]_pageVars

-----------------------------------------------------------------------------
(* Properties.                                                             *)

\* A client that follows last_id while has_more gets every row that was there
\* and matched all the time, no row twice and, of the rows that are there still,
\* each in its place, whatever is inserted, changed and deleted between its
\* pages (response-store.ts 226-268).
WalkComplete ==
    /\ \A i, j \in DOMAIN seen : i < j =>
          /\ seen[i] # seen[j]
          /\ {seen[i], seen[j]} \subseteq DOMAIN rows => Precedes(query, seen[i], seen[j])
    /\ walk = "done" => steady \subseteq ToSet(seen)
=============================================================================
