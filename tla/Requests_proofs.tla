---------------------------- MODULE Requests_proofs ----------------------------
(***************************************************************************)
(* Proofs about the requests around a run.                                 *)
(*                                                                         *)
(* Pages: a client that walks the pages of the stored completions gets all *)
(* of them, whatever happens meanwhile.                                    *)
(*                                                                         *)
(* Histories: every part of a conversation carries a mark, and the marks   *)
(* rise with the conversation.  A mapping of a conversation to a turn's    *)
(* history therefore loses, repeats or reorders nothing when what it says  *)
(* is made of the parts it may take, in their order: that is proved for    *)
(* chat completions, OpenCode and Pi, and for the chain of responses that  *)
(* tells the same conversation one turn at a time.                         *)
(***************************************************************************)
EXTENDS ChatPages, Conversation, WellFoundedInduction, SequenceTheorems, TLAPS

-----------------------------------------------------------------------------
(* The order of the rows.                                                  *)

LEMMA RowTyped ==
    ASSUME PagesTypeOK, NEW id \in DOMAIN rows
    PROVE  id \in Nat /\ id # 0 /\ rows[id].created \in Nat /\ id \in used
<1>1. id \in used /\ id \in Ids /\ rows[id] \in Row
  BY DEF PagesTypeOK
<1>2. rows[id].created \in 1 .. MaxTime
  BY <1>1 DEF Row
<1> QED
  BY <1>1, <1>2, PagesAssumption

LEMMA NeverItself ==
    ASSUME PagesTypeOK, NEW q, NEW a \in DOMAIN rows
    PROVE  ~Precedes(q, a, a)
  BY RowTyped DEF Precedes, Later

LEMMA PrecedesOn ==
    ASSUME PagesTypeOK, NEW q, NEW a \in DOMAIN rows, NEW b \in DOMAIN rows, NEW c \in DOMAIN rows,
           Precedes(q, a, b), Precedes(q, b, c)
    PROVE  Precedes(q, a, c)
<1>1. /\ a \in Nat /\ b \in Nat /\ c \in Nat
      /\ rows[a].created \in Nat /\ rows[b].created \in Nat /\ rows[c].created \in Nat
  BY RowTyped
<1>2. CASE q.order = "asc"
  BY <1>1, <1>2 DEF Precedes, Later
<1>3. CASE q.order # "asc"
  BY <1>1, <1>3 DEF Precedes, Later
<1> QED
  BY <1>2, <1>3

-----------------------------------------------------------------------------
(* The invariant.                                                          *)

\* What has been seen lies up to the cursor, while the cursor is there,
UpTo == \A i \in DOMAIN seen :
    walk = "walking" /\ after \in DOMAIN rows /\ seen[i] \in DOMAIN rows =>
        seen[i] = after \/ Precedes(query, seen[i], after)

\* and what has matched all the time is seen or comes behind it.
Behind == \A id \in steady :
    walk = "walking" /\ after \in DOMAIN rows =>
        id \in ToSet(seen) \/ Precedes(query, after, id)

Walking ==
    /\ walk = "idle" => after = 0 /\ seen = <<>>
    /\ walk = "walking" => query.limit \in 1 .. MaxLimit /\ (after = 0 => seen = <<>>)
    /\ steady \subseteq Matching(query)

WalkInv == PagesTypeOK /\ Walking /\ UpTo /\ Behind /\ WalkComplete

-----------------------------------------------------------------------------
(* The table changes under the walk.                                       *)

\* What the walk knows of a row does not change while the row is there.
LEMMA TableChanges ==
    ASSUME WalkInv, PagesTypeOK', UNCHANGED <<query, walk, after, seen>>,
           \A id \in DOMAIN rows' : id \in ToSet(seen) \union steady' \union {after} =>
               id \in DOMAIN rows /\ rows'[id].created = rows[id].created,
           steady' \subseteq steady, steady' \subseteq Matching(query)'
    PROVE  WalkInv'
<1>1. \A a, b \in DOMAIN rows' :
         {a, b} \subseteq ToSet(seen) \union steady' \union {after} =>
             {a, b} \subseteq DOMAIN rows /\ (Precedes(query, a, b)' <=> Precedes(query, a, b))
  BY DEF Precedes, Later
<1>2. \A i \in DOMAIN seen : seen[i] \in ToSet(seen)
  BY DEF ToSet
<1>3. Walking'
  BY DEF WalkInv, Walking
<1>4. UpTo'
  BY <1>1, <1>2 DEF WalkInv, UpTo
<1>5. Behind'
  <2> SUFFICES ASSUME NEW id \in steady', walk = "walking", after \in DOMAIN rows', id \notin ToSet(seen)
               PROVE  Precedes(query, after, id)'
    BY DEF Behind
  <2>1. id \in DOMAIN rows' /\ id \in steady
    BY DEF PagesTypeOK
  <2>2. after \in DOMAIN rows
    BY <2>1
  <2> QED
    BY <1>1, <2>1, <2>2 DEF WalkInv, Behind
<1>6. WalkComplete'
  <2>1. walk' = "done" => steady' \subseteq ToSet(seen')
    BY DEF WalkInv, WalkComplete
  <2>2. ASSUME NEW i \in DOMAIN seen, NEW j \in DOMAIN seen, i < j
        PROVE  /\ seen[i] # seen[j]
               /\ {seen[i], seen[j]} \subseteq DOMAIN rows' => Precedes(query, seen[i], seen[j])'
    BY <1>1, <1>2, <2>2 DEF WalkInv, WalkComplete
  <2> QED
    BY <2>1, <2>2 DEF WalkComplete
<1> QED
  BY <1>3, <1>4, <1>5, <1>6 DEF WalkInv

LEMMA InsertKeeps ==
    ASSUME WalkInv, NEW id \in Ids, NEW row \in Row, Insert(id, row)
    PROVE  WalkInv'
<1>1. PagesTypeOK
  BY DEF WalkInv
<1>2. id \notin used /\ id \notin DOMAIN rows /\ id # 0
  BY <1>1, PagesAssumption DEF Insert, PagesTypeOK
<1>3. DOMAIN rows' = DOMAIN rows \union {id} /\ rows'[id] = row
      /\ \A other \in DOMAIN rows : rows'[other] = rows[other]
  BY <1>2 DEF Insert
<1>4. seen \in Seq(used) /\ seen \in Seq(used')
  BY <1>1 DEF PagesTypeOK, Insert
<1>5. PagesTypeOK'
  BY <1>1, <1>3, <1>4 DEF PagesTypeOK, Insert
<1>6. ToSet(seen) \union steady' \union {after} \subseteq used \union {0}
  BY <1>1, <1>4 DEF PagesTypeOK, Insert, ToSet
<1>7. steady' \subseteq Matching(query)'
  BY <1>3 DEF WalkInv, Walking, Matching, Insert
<1> QED
  BY <1>2, <1>3, <1>5, <1>6, <1>7, TableChanges DEF Insert

LEMMA UpdateMetadataKeeps ==
    ASSUME WalkInv, NEW id \in Ids, NEW tag \in Tags \union {NoTag}, UpdateMetadata(id, tag)
    PROVE  WalkInv'
<1>1. PagesTypeOK
  BY DEF WalkInv
<1>2. rows[id] \in Row
  BY <1>1 DEF UpdateMetadata, PagesTypeOK
<1>3. /\ DOMAIN rows' = DOMAIN rows
      /\ rows'[id] \in Row /\ rows'[id].created = rows[id].created
      /\ \A other \in DOMAIN rows \ {id} : rows'[other] = rows[other]
  BY <1>2 DEF UpdateMetadata, Row
<1>4. steady' \subseteq steady
  BY DEF UpdateMetadata
<1>5. PagesTypeOK'
  BY <1>1, <1>3, <1>4 DEF PagesTypeOK, UpdateMetadata
<1>6. steady' \subseteq Matching(query)'
  BY <1>1, <1>3 DEF PagesTypeOK, Matching, UpdateMetadata
<1> QED
  BY <1>3, <1>4, <1>5, <1>6, TableChanges DEF UpdateMetadata

LEMMA DeleteKeeps ==
    ASSUME WalkInv, NEW id \in Ids, Delete(id)
    PROVE  WalkInv'
<1>1. DOMAIN rows' = DOMAIN rows \ {id} /\ \A other \in DOMAIN rows' : rows'[other] = rows[other]
  BY DEF Delete, Without
<1>2. PagesTypeOK'
  BY <1>1 DEF WalkInv, PagesTypeOK, Delete
<1>3. steady' \subseteq Matching(query)'
  BY <1>1 DEF WalkInv, Walking, Matching, Delete
<1> QED
  BY <1>1, <1>2, <1>3, TableChanges DEF Delete

-----------------------------------------------------------------------------
(* The walk.                                                               *)

LEMMA StartWalkKeeps ==
    ASSUME WalkInv, NEW q \in Queries, StartWalk(q)
    PROVE  WalkInv'
<1>1. after = 0 /\ seen = <<>> /\ after' = 0 /\ seen' = <<>> /\ rows' = rows /\ query' = q
  BY DEF WalkInv, Walking, StartWalk
<1>2. PagesTypeOK'
  <2>1. steady' \subseteq DOMAIN rows
    BY DEF StartWalk, Matching
  <2>2. walk' \in {"walking", "refused"}
    BY DEF StartWalk
  <2> QED
    BY <1>1, <2>1, <2>2 DEF WalkInv, PagesTypeOK, StartWalk
<1>3. Walking'
  BY <1>1 DEF StartWalk, Walking, Matching
<1>4. 0 \notin DOMAIN rows
  BY PagesAssumption DEF WalkInv, PagesTypeOK
<1>5. UpTo' /\ Behind'
  BY <1>1, <1>4 DEF UpTo, Behind
<1>6. WalkComplete'
  BY <1>1 DEF WalkComplete, StartWalk
<1> QED
  BY <1>2, <1>3, <1>5, <1>6 DEF WalkInv

\* A page is a sequence of different rows behind the cursor.
LEMMA PageRows ==
    ASSUME WalkInv, NEW page \in Pages(query, Found(query, after)),
           walk = "walking", after = 0 \/ after \in DOMAIN rows
    PROVE  /\ page \in Seq(DOMAIN rows) /\ page \in Seq(used)
           /\ IsPage(query, Found(query, after), page)
           /\ \A i \in DOMAIN page : after = 0 \/ Precedes(query, after, page[i])
<1>1. PICK n \in 0 .. query.limit : page \in [1 .. n -> Found(query, after)]
  BY DEF Pages
<1>2. n \in Nat
  BY DEF WalkInv, Walking
<1>3. Found(query, after) \subseteq DOMAIN rows
  BY DEF Found, Matching
<1>4. page \in Seq(Found(query, after))
  BY <1>1, <1>2, SeqDef
<1>5. page \in Seq(DOMAIN rows)
  BY <1>3, <1>4, SeqDef
<1>6. page \in Seq(used)
  BY <1>5, SeqDef DEF WalkInv, PagesTypeOK
<1>7. IsPage(query, Found(query, after), page)
  BY DEF Pages
<1>8. \A i \in DOMAIN page : after = 0 \/ Precedes(query, after, page[i])
  BY <1>1 DEF Found
<1> QED
  BY <1>5, <1>6, <1>7, <1>8

\* They lie behind all that has been seen.
LEMMA PageBehind ==
    ASSUME WalkInv, NEW page \in Pages(query, Found(query, after)),
           walk = "walking", after = 0 \/ after \in DOMAIN rows,
           NEW i \in DOMAIN seen, NEW j \in DOMAIN page
    PROVE  seen[i] # page[j] /\ (seen[i] \in DOMAIN rows => Precedes(query, seen[i], page[j]))
<1>1. PagesTypeOK
  BY DEF WalkInv
<1>2. page[j] \in DOMAIN rows
  BY PageRows, ElementOfSeq
<1>3. after \in DOMAIN rows
  BY DEF WalkInv, Walking
<1>4. Precedes(query, after, page[j])
  BY <1>1, <1>3, PageRows, RowTyped
<1>5. seen[i] \in DOMAIN rows => Precedes(query, seen[i], page[j])
  <2>1. SUFFICES ASSUME seen[i] \in DOMAIN rows PROVE Precedes(query, seen[i], page[j])
    OBVIOUS
  <2>2. seen[i] = after \/ Precedes(query, seen[i], after)
    BY <1>3, <2>1 DEF WalkInv, UpTo
  <2> QED
    BY <1>1, <1>2, <1>3, <1>4, <2>1, <2>2, PrecedesOn
<1> QED
  BY <1>1, <1>2, <1>5, NeverItself

LEMMA NextPageKeeps ==
    ASSUME WalkInv, NextPage
    PROVE  WalkInv'
<1>1. /\ PagesTypeOK /\ Walking /\ walk = "walking"
      /\ query.limit \in 1 .. MaxLimit /\ (after = 0 => seen = <<>>)
      /\ rows' = rows /\ used' = used /\ query' = query /\ steady' = steady
  BY DEF WalkInv, NextPage, Walking
<1>2. CASE after # 0 /\ after \notin DOMAIN rows
  <2>1. walk' = "refused" /\ after' = after /\ seen' = seen
    BY <1>2 DEF NextPage
  <2>2. PagesTypeOK'
    BY <1>1, <2>1 DEF PagesTypeOK
  <2>3. Walking' /\ UpTo' /\ Behind'
    BY <1>1, <2>1 DEF Walking, UpTo, Behind, Matching
  <2>4. WalkComplete'
    BY <1>1, <2>1 DEF WalkInv, WalkComplete, Precedes, Later
  <2> QED
    BY <2>2, <2>3, <2>4 DEF WalkInv
<1>3. CASE after = 0 \/ after \in DOMAIN rows
  <2> DEFINE found == Found(query, after)
  <2>1. PICK page \in Pages(query, found) :
           /\ seen' = seen \o page
           /\ IF ToSet(page) # found THEN after' = Last(page) /\ UNCHANGED walk
              ELSE walk' = "done" /\ UNCHANGED after
    BY <1>3 DEF NextPage
  <2>2. /\ page \in Seq(DOMAIN rows) /\ page \in Seq(used)
        /\ IsPage(query, found, page)
    BY <1>1, <1>3, <2>1, PageRows
  <2>3. /\ seen \in Seq(used) /\ seen' \in Seq(used)
        /\ Len(seen) \in Nat /\ Len(page) \in Nat
        /\ DOMAIN seen = 1 .. Len(seen) /\ DOMAIN page = 1 .. Len(page)
        /\ DOMAIN seen' = 1 .. Len(seen) + Len(page) /\ Len(seen') = Len(seen) + Len(page)
        /\ \A i \in 1 .. Len(seen) + Len(page) :
              seen'[i] = IF i <= Len(seen) THEN seen[i] ELSE page[i - Len(seen)]
    <3>1. seen \in Seq(used)
      BY <1>1 DEF PagesTypeOK
    <3> QED
      BY <2>1, <2>2, <3>1, ConcatProperties, ElementOfSeq
  <2>4. ToSet(seen') = ToSet(seen) \union ToSet(page)
    <3>1. ASSUME NEW k \in DOMAIN seen' PROVE seen'[k] \in ToSet(seen) \union ToSet(page)
      <4>1. CASE k <= Len(seen)
        BY <2>3, <4>1 DEF ToSet
      <4>2. CASE ~(k <= Len(seen))
        <5>1. k - Len(seen) \in DOMAIN page /\ seen'[k] = page[k - Len(seen)]
          BY <2>3, <4>2
        <5> QED
          BY <5>1 DEF ToSet
      <4> QED
        BY <4>1, <4>2
    <3>2. ASSUME NEW i \in DOMAIN seen PROVE seen[i] \in ToSet(seen')
      BY <2>3 DEF ToSet
    <3>3. ASSUME NEW j \in DOMAIN page PROVE page[j] \in ToSet(seen')
      <4>1. Len(seen) + j \in DOMAIN seen' /\ seen'[Len(seen) + j] = page[j]
        BY <2>3
      <4> QED
        BY <4>1 DEF ToSet
    <3> QED
      BY <3>1, <3>2, <3>3 DEF ToSet
  <2>5. \A i, j \in DOMAIN seen' : i < j =>
           /\ seen'[i] # seen'[j]
           /\ {seen'[i], seen'[j]} \subseteq DOMAIN rows => Precedes(query, seen'[i], seen'[j])
    <3> SUFFICES ASSUME NEW i \in DOMAIN seen', NEW j \in DOMAIN seen', i < j
                 PROVE  /\ seen'[i] # seen'[j]
                        /\ {seen'[i], seen'[j]} \subseteq DOMAIN rows =>
                              Precedes(query, seen'[i], seen'[j])
      OBVIOUS
    <3>1. CASE j <= Len(seen)
      <4>1. i \in DOMAIN seen /\ j \in DOMAIN seen /\ seen'[i] = seen[i] /\ seen'[j] = seen[j]
        BY <2>3, <3>1
      <4> QED
        BY <4>1 DEF WalkInv, WalkComplete
    <3>2. CASE i <= Len(seen) /\ ~(j <= Len(seen))
      <4>1. /\ i \in DOMAIN seen /\ j - Len(seen) \in DOMAIN page
            /\ seen'[i] = seen[i] /\ seen'[j] = page[j - Len(seen)]
        BY <2>3, <3>2
      <4> QED
        BY <1>1, <1>3, <2>1, <4>1, PageBehind
    <3>3. CASE ~(i <= Len(seen))
      <4>1. /\ i - Len(seen) \in DOMAIN page /\ j - Len(seen) \in DOMAIN page
            /\ i - Len(seen) < j - Len(seen)
            /\ seen'[i] = page[i - Len(seen)] /\ seen'[j] = page[j - Len(seen)]
        BY <2>3, <3>3
      <4>2. Precedes(query, seen'[i], seen'[j])
        BY <2>2, <4>1 DEF IsPage
      <4>3. seen'[i] \in DOMAIN rows
        BY <2>2, <4>1, ElementOfSeq
      <4> QED
        BY <1>1, <4>2, <4>3, NeverItself
    <3> QED
      BY <2>3, <3>1, <3>2, <3>3
  <2>6. \A id \in steady : id \in ToSet(seen) \/ id \in found
    BY <1>1, <1>3 DEF WalkInv, Walking, Behind, Found
  <2>7. walk' \in {"walking", "done"}
    BY <1>1, <2>1
  <2>8. CASE ToSet(page) = found
    <3>1. walk' = "done" /\ after' = after
      BY <2>1, <2>8
    <3>2. PagesTypeOK'
      BY <1>1, <2>3, <3>1 DEF PagesTypeOK
    <3>3. Walking' /\ UpTo' /\ Behind'
      BY <1>1, <3>1 DEF Walking, UpTo, Behind, Matching
    <3>4. WalkComplete'
      <4>1. steady' \subseteq ToSet(seen')
        BY <1>1, <2>4, <2>6, <2>8
      <4> QED
        BY <1>1, <2>5, <4>1 DEF WalkComplete, Precedes, Later
    <3> QED
      BY <3>2, <3>3, <3>4 DEF WalkInv
  <2>9. CASE ToSet(page) # found
    <3>1. walk' = walk /\ after' = Last(page)
      BY <2>1, <2>9
    <3>2. Len(page) >= 1
      BY <1>1, <2>2, <2>9, PagesAssumption DEF IsPage
    <3>3. after' = page[Len(page)] /\ Len(page) \in DOMAIN page
      BY <2>3, <3>1, <3>2 DEF Last
    <3>4. after' \in DOMAIN rows /\ after' # 0 /\ after' \in used
      BY <1>1, <2>2, <3>3, ElementOfSeq, RowTyped
    <3>5. Len(seen') \in DOMAIN seen' /\ seen'[Len(seen')] = after'
      BY <2>3, <3>2, <3>3
    <3>6. PagesTypeOK'
      BY <1>1, <2>3, <3>1, <3>4 DEF PagesTypeOK
    <3>7. Walking'
      BY <1>1, <3>1, <3>4 DEF Walking, Matching
    <3>8. UpTo'
      <4> SUFFICES ASSUME NEW i \in DOMAIN seen', seen'[i] \in DOMAIN rows, seen'[i] # after'
                   PROVE  Precedes(query, seen'[i], after')
        BY <1>1 DEF UpTo, Precedes, Later
      <4>1. i < Len(seen')
        BY <2>3, <3>5
      <4> QED
        BY <2>5, <3>4, <3>5, <4>1
    <3>9. Behind'
      <4> SUFFICES ASSUME NEW id \in steady, id \notin ToSet(seen')
                   PROVE  Precedes(query, after', id)
        BY <1>1 DEF Behind, Precedes, Later
      <4>1. id \in found \ ToSet(page)
        BY <2>4, <2>6
      <4> QED
        BY <2>2, <3>3, <4>1 DEF IsPage
    <3>10. WalkComplete'
      BY <1>1, <2>5, <3>1 DEF WalkComplete, Precedes, Later
    <3> QED
      BY <3>6, <3>7, <3>8, <3>9, <3>10 DEF WalkInv
  <2> QED
    BY <2>8, <2>9
<1> QED
  BY <1>2, <1>3

-----------------------------------------------------------------------------
(* The theorems.                                                           *)

\* Whatever is inserted, changed and deleted, a walk is at its cursor: all that it
\* has seen lies up to it, and all that has matched and is not seen lies behind
\* it (response-store.ts 226-268).
THEOREM PagesInvariance == PagesSpec => []WalkInv
<1>1. PagesInit => WalkInv
  <2> SUFFICES ASSUME PagesInit PROVE WalkInv
    OBVIOUS
  <2>1. PagesTypeOK
    <3>1. DefaultLimit \in 0 .. MaxLimit + 1
      BY PagesAssumption
    <3>2. <<>> \in Seq(used)
      OBVIOUS
    <3> QED
      BY <3>1, <3>2 DEF PagesInit, PagesTypeOK, Queries
  <2>2. Walking /\ UpTo /\ Behind /\ WalkComplete
    BY DEF PagesInit, Walking, UpTo, Behind, WalkComplete
  <2> QED
    BY <2>1, <2>2 DEF WalkInv
<1>2. WalkInv /\ [PagesNext]_pageVars => WalkInv'
  <2> SUFFICES ASSUME WalkInv, [PagesNext]_pageVars PROVE WalkInv'
    OBVIOUS
  <2>1. CASE PagesNext
    BY <2>1, InsertKeeps, UpdateMetadataKeeps, DeleteKeeps, StartWalkKeeps, NextPageKeeps
       DEF PagesNext
  <2>2. CASE UNCHANGED pageVars
    BY <2>2 DEF pageVars, WalkInv, PagesTypeOK, Walking, UpTo, Behind, WalkComplete,
                Matching, Precedes, Later
  <2> QED
    BY <2>1, <2>2
<1> QED
  BY <1>1, <1>2, PTL DEF PagesSpec

\* The table and the walk keep their types: a cursor is an id that was a row's
\* once (stored-completions.ts, response-store.ts).
THEOREM PagesTypeCorrect == PagesSpec => []PagesTypeOK
<1>1. WalkInv => PagesTypeOK
  BY DEF WalkInv
<1> QED
  BY <1>1, PagesInvariance, PTL

\* A client that follows last_id while has_more gets every row that was there and
\* matched all the time, none twice, and each in its place (response-store.ts
\* 226-268).
THEOREM WalkCompleteHolds == PagesSpec => []WalkComplete
<1>1. WalkInv => WalkComplete
  BY DEF WalkInv
<1> QED
  BY <1>1, PagesInvariance, PTL

-----------------------------------------------------------------------------
(* A set of numbers has a least one.                                       *)

LEMMA NaturalOrder == \E R : /\ IsWellFoundedOn(R, Nat)
                             /\ \A x, y \in Nat : x < y => <<x, y>> \in R
<1>1. IsWellFoundedOn(OpToRel(<, Nat), Nat) BY NatLessThanWellFounded
<1>2. \A x, y \in Nat : x < y => <<x, y>> \in OpToRel(<, Nat) BY SMT DEF OpToRel
<1>. QED BY <1>1, <1>2, Zenon

\* Every set of numbers that is not empty has a least one.
LEMMA Least ==
    ASSUME NEW T, T \subseteq Nat, T # {}
    PROVE  \E n \in T : \A m \in T : n <= m
<1>1. PICK R : /\ IsWellFoundedOn(R, Nat)
               /\ \A x, y \in Nat : x < y => <<x, y>> \in R BY NaturalOrder
<1>2. IsWellFoundedOn(R, Nat) BY <1>1
<1>3. \E x \in T : \A y \in T : ~ (<<y, x>> \in R) BY <1>2, WFMin, Zenon
<1>4. PICK n \in T : \A y \in T : ~ (<<y, n>> \in R) BY <1>3
<1>5. \A m \in T : ~ (m < n) BY <1>1, <1>4
<1>. QED BY <1>5

-----------------------------------------------------------------------------
(* A sequence of sequences put one after another.                          *)

\* The function that FlattenSeq is defined with, up to one of the sequences.
Flattens(seqs, n, F) ==
    F = [i \in 1 .. n |-> IF i = 1 THEN seqs[i] ELSE F[i-1] \o seqs[i]]

\* That function exists, for any number of sequences.
LEMMA FlattensExists ==
    ASSUME NEW seqs, NEW n \in Nat
    PROVE  \E F : Flattens(seqs, n, F)
<1> DEFINE Missing == {k \in Nat : ~\E F : Flattens(seqs, k, F)}
<1>1. ASSUME Missing # {} PROVE FALSE
  <2>1. PICK k \in Missing : \A m \in Missing : k <= m
    BY <1>1, Least
  <2>2. k # 0
    <3>1. Flattens(seqs, 0, [i \in 1 .. 0 |-> <<>>])
      BY DEF Flattens
    <3> QED
      BY <3>1
  <2>3. k - 1 \in Nat /\ k - 1 \notin Missing
    BY <2>1, <2>2
  <2>4. PICK F : Flattens(seqs, k - 1, F)
    BY <2>3
  <2> DEFINE G == [i \in 1 .. k |-> IF i < k THEN F[i]
                                    ELSE IF i = 1 THEN seqs[i] ELSE F[i-1] \o seqs[i]]
  <2>5. \A i \in 1 .. k : i < k => F[i] = IF i = 1 THEN seqs[i] ELSE F[i-1] \o seqs[i]
    <3>1. \A i \in 1 .. k - 1 : F[i] = IF i = 1 THEN seqs[i] ELSE F[i-1] \o seqs[i]
      BY <2>4 DEF Flattens
    <3> QED
      BY <2>1, <3>1
  <2>6. \A i \in 1 .. k : G[i] = IF i = 1 THEN seqs[i] ELSE G[i-1] \o seqs[i]
    <3> SUFFICES ASSUME NEW i \in 1 .. k
                 PROVE  G[i] = IF i = 1 THEN seqs[i] ELSE G[i-1] \o seqs[i]
      OBVIOUS
    <3>1. i # 1 => i - 1 \in 1 .. k /\ i - 1 < k
      BY <2>1
    <3>2. i # 1 => G[i-1] = F[i-1]
      BY <3>1
    <3>3. G[i] = IF i = 1 THEN seqs[i] ELSE F[i-1] \o seqs[i]
      BY <2>5
    <3> QED
      BY <3>2, <3>3
  <2>7. Flattens(seqs, k, G)
    <3> HIDE DEF G
    <3>1. G = [i \in 1 .. k |-> G[i]]
      BY DEF G
    <3> QED
      BY <2>6, <3>1 DEF Flattens
  <2> QED
    BY <2>1, <2>7
<1> QED
  BY <1>1

\* FlattenSeq is its last value.
LEMMA FlattenFunction ==
    ASSUME NEW seqs, Len(seqs) \in Nat
    PROVE  \E F : /\ Flattens(seqs, Len(seqs), F)
                  /\ FlattenSeq(seqs) = IF Len(seqs) = 0 THEN seqs ELSE F[Len(seqs)]
<1> DEFINE F == CHOOSE G : Flattens(seqs, Len(seqs), G)
<1>1. Flattens(seqs, Len(seqs), F)
  <2>1. \E G : Flattens(seqs, Len(seqs), G)
    BY FlattensExists
  <2> QED
    BY <2>1, Zenon
<1>2. FlattenSeq(seqs) = IF Len(seqs) = 0 THEN seqs ELSE F[Len(seqs)]
  BY Zenon DEF FlattenSeq, Flattens
<1> QED
  BY <1>1, <1>2, Zenon

\* Where the elements of a flattened sequence are from: row after row, and in
\* each from left to right.
Placed(flat, seqs, n, row, col) ==
    /\ row \in [1 .. Len(flat) -> 1 .. n] /\ col \in [1 .. Len(flat) -> Nat]
    /\ \A k \in 1 .. Len(flat) :
          col[k] \in 1 .. Len(seqs[row[k]]) /\ flat[k] = seqs[row[k]][col[k]]
    /\ \A k, l \in 1 .. Len(flat) : k < l =>
          row[k] < row[l] \/ (row[k] = row[l] /\ col[k] < col[l])
    /\ \A i \in 1 .. n : \A j \in 1 .. Len(seqs[i]) :
          \E k \in 1 .. Len(flat) : row[k] = i /\ col[k] = j

\* One more sequence at the end keeps the places.
LEMMA PlacedStep ==
    ASSUME NEW S, NEW seqs \in Seq(Seq(S)), NEW n \in Nat, n < Len(seqs),
           NEW flat \in Seq(S), NEW row, NEW col, Placed(flat, seqs, n, row, col)
    PROVE  \E r, c : Placed(flat \o seqs[n+1], seqs, n + 1, r, c)
<1> DEFINE new == seqs[n+1]
           a == Len(flat)
           all == flat \o new
           r == [k \in 1 .. Len(all) |-> IF k <= a THEN row[k] ELSE n + 1]
           c == [k \in 1 .. Len(all) |-> IF k <= a THEN col[k] ELSE k - a]
<1>1. n + 1 \in 1 .. Len(seqs) /\ new \in Seq(S)
  BY ElementOfSeq, LenProperties
<1>2. /\ a \in Nat /\ Len(new) \in Nat /\ Len(all) = a + Len(new)
      /\ \A k \in 1 .. Len(all) : all[k] = IF k <= a THEN flat[k] ELSE new[k - a]
  BY <1>1, ConcatProperties, LenProperties
<1> HIDE DEF all
<1>3. \A k \in 1 .. Len(all) :
         /\ k <= a => k \in 1 .. a /\ r[k] = row[k] /\ c[k] = col[k] /\ all[k] = flat[k]
         /\ ~(k <= a) => k - a \in 1 .. Len(new) /\ r[k] = n + 1 /\ c[k] = k - a /\ all[k] = new[k - a]
  BY <1>2
<1>4. \A k \in 1 .. a : /\ row[k] \in 1 .. n /\ col[k] \in Nat
                        /\ col[k] \in 1 .. Len(seqs[row[k]]) /\ flat[k] = seqs[row[k]][col[k]]
  BY DEF Placed
<1>5. \A k \in 1 .. Len(all) : r[k] \in 1 .. n + 1 /\ c[k] \in Nat
  BY <1>2, <1>3, <1>4
<1>6. r \in [1 .. Len(all) -> 1 .. n + 1] /\ c \in [1 .. Len(all) -> Nat]
  BY <1>5
<1>7. ASSUME NEW k \in 1 .. Len(all)
      PROVE  c[k] \in 1 .. Len(seqs[r[k]]) /\ all[k] = seqs[r[k]][c[k]]
  <2> HIDE DEF r, c
  <2>1. CASE k <= a
    BY <1>3, <1>4, <2>1
  <2>2. CASE ~(k <= a)
    BY <1>3, <2>2
  <2> QED
    BY <2>1, <2>2
<1>8. ASSUME NEW k \in 1 .. Len(all), NEW l \in 1 .. Len(all), k < l
      PROVE  r[k] < r[l] \/ (r[k] = r[l] /\ c[k] < c[l])
  <2> HIDE DEF r, c, new
  <2>1. CASE l <= a
    <3>1. k \in 1 .. a /\ l \in 1 .. a
      BY <1>2, <1>8, <2>1
    <3>2. row[k] < row[l] \/ (row[k] = row[l] /\ col[k] < col[l])
      BY <1>8, <3>1 DEF Placed
    <3> QED
      BY <1>3, <3>1, <3>2, <2>1
  <2>2. CASE k <= a /\ ~(l <= a)
    <3>1. row[k] \in 1 .. n
      BY <1>3, <1>4, <2>2
    <3> QED
      BY <1>3, <2>2, <3>1
  <2>3. CASE ~(k <= a)
    BY <1>2, <1>3, <1>8, <2>3
  <2> QED
    BY <1>2, <2>1, <2>2, <2>3
<1>9. ASSUME NEW i \in 1 .. n + 1, NEW j \in 1 .. Len(seqs[i])
      PROVE  \E k \in 1 .. Len(all) : r[k] = i /\ c[k] = j
  <2>1. CASE i <= n
    <3>1. PICK k \in 1 .. a : row[k] = i /\ col[k] = j
      <4>1. i \in 1 .. n /\ j \in 1 .. Len(seqs[i])
        BY <2>1
      <4> QED
        BY <4>1 DEF Placed
    <3>2. k \in 1 .. Len(all) /\ k <= a
      BY <1>2
    <3> QED
      BY <1>3, <3>1, <3>2
  <2>2. CASE ~(i <= n)
    <3>1. i = n + 1 /\ j \in 1 .. Len(new)
      BY <2>2
    <3>2. a + j \in 1 .. Len(all) /\ ~(a + j <= a) /\ (a + j) - a = j
      BY <1>2, <3>1
    <3> QED
      BY <1>3, <3>1, <3>2
  <2> QED
    BY <2>1, <2>2
<1> QED
  <2>1. Placed(all, seqs, n + 1, r, c)
    <3> HIDE DEF r, c
    <3> QED
      BY <1>6, <1>7, <1>8, <1>9 DEF Placed
  <2> QED
    BY <2>1 DEF all

\* Every element of a flattened sequence has its place in one of the sequences,
\* every place its element, and the places come in order.
LEMMA FlattenPlaces ==
    ASSUME NEW S, NEW seqs \in Seq(Seq(S))
    PROVE  /\ FlattenSeq(seqs) \in Seq(S)
           /\ \E row, col : Placed(FlattenSeq(seqs), seqs, Len(seqs), row, col)
<1> DEFINE n == Len(seqs)
<1>1. n \in Nat /\ \A i \in 1 .. n : seqs[i] \in Seq(S)
  BY LenProperties, ElementOfSeq
<1>2. PICK F : /\ Flattens(seqs, n, F)
               /\ FlattenSeq(seqs) = IF n = 0 THEN seqs ELSE F[n]
  BY <1>1, FlattenFunction
<1>3. <<>> \in Seq(S) /\ Placed(<<>>, seqs, 0, [k \in 1 .. 0 |-> 0], [k \in 1 .. 0 |-> 0])
  <2>1. <<>> \in Seq(S) /\ Len(<<>>) = 0
    BY EmptySeq
  <2>2. 1 .. 0 = {}
    OBVIOUS
  <2> QED
    BY <2>1, <2>2 DEF Placed
<1>4. CASE n = 0
  <2>1. seqs = <<>>
    BY <1>4, EmptySeq
  <2> QED
    BY <1>2, <1>3, <1>4, <2>1
<1>5. CASE n # 0
  <2> DEFINE Good(k) == F[k] \in Seq(S) /\ \E row, col : Placed(F[k], seqs, k, row, col)
             Bad == {k \in 1 .. n : ~Good(k)}
  <2>1. \A k \in 1 .. n : F[k] = IF k = 1 THEN seqs[k] ELSE F[k-1] \o seqs[k]
    BY <1>2 DEF Flattens
  <2>2. Good(1)
    <3>1. 1 \in 1 .. n /\ seqs[1] \in Seq(S)
      BY <1>1, <1>5
    <3>2. <<>> \o seqs[0+1] = F[1]
      BY <2>1, <3>1, ConcatEmptySeq
    <3>3. 0 \in Nat /\ 0 < Len(seqs)
      BY <1>1, <1>5
    <3>4. \E r, c : Placed(<<>> \o seqs[0+1], seqs, 0 + 1, r, c)
      <4> HIDE DEF n
      <4> QED
        BY <1>3, <3>3, PlacedStep
    <3> QED
      BY <2>1, <3>1, <3>2, <3>4
  <2>3. ASSUME NEW k \in 1 .. n, k # 1, Good(k-1) PROVE Good(k)
    <3>1. /\ k - 1 \in Nat /\ k - 1 < n /\ (k - 1) + 1 = k
          /\ F[k-1] \in Seq(S) /\ seqs[k] \in Seq(S)
      BY <1>1, <2>3
    <3>2. PICK row, col : Placed(F[k-1], seqs, k - 1, row, col)
      BY <2>3
    <3>3. \E r, c : Placed(F[k-1] \o seqs[(k-1)+1], seqs, (k - 1) + 1, r, c)
      BY <3>1, <3>2, PlacedStep
    <3>4. F[k] = F[k-1] \o seqs[k] /\ F[k-1] \o seqs[k] \in Seq(S)
      BY <2>1, <2>3, <3>1, ConcatProperties
    <3> QED
      BY <3>1, <3>3, <3>4
  <2> HIDE DEF Good
  <2>4. ASSUME Bad # {} PROVE FALSE
    <3>1. PICK k \in Bad : \A m \in Bad : k <= m
      <4>1. Bad \subseteq Nat
        BY <1>1
      <4> QED
        BY <2>4, <4>1, Least
    <3>2. k # 1
      BY <2>2, <3>1
    <3>3. k - 1 \in 1 .. n /\ ~(k <= k - 1)
      BY <1>1, <3>1, <3>2
    <3>4. k - 1 \notin Bad
      BY <3>1, <3>3
    <3>5. Good(k-1)
      BY <3>3, <3>4
    <3> QED
      BY <2>3, <3>1, <3>2, <3>5
  <2>5. Good(n)
    <3>1. n \in 1 .. n
      BY <1>1, <1>5
    <3>2. n \notin Bad
      BY <2>4
    <3> HIDE DEF n
    <3> QED
      BY <3>1, <3>2
  <2> QED
    BY <1>2, <1>5, <2>5 DEF Good
<1> QED
  BY <1>4, <1>5

\* A sequence cut into pairs is what the pairs give when flattened.
LEMMA FlattenPairs ==
    ASSUME NEW T, NEW whole \in Seq(T), NEW n \in Nat, Len(whole) = 2 * n,
           NEW seqs \in Seq(Seq(T)), Len(seqs) = n,
           \A i \in 1 .. n : seqs[i] = << whole[2 * i - 1], whole[2 * i] >>
    PROVE  FlattenSeq(seqs) = whole
<1>1. PICK F : /\ Flattens(seqs, n, F)
               /\ FlattenSeq(seqs) = IF n = 0 THEN seqs ELSE F[n]
  BY FlattenFunction
<1>2. CASE n = 0
  <2>1. seqs = <<>> /\ whole = <<>>
    BY <1>2, EmptySeq
  <2> QED
    BY <1>1, <1>2, <2>1
<1>3. CASE n # 0
  <2> DEFINE Good(k) == /\ F[k] \in Seq(T) /\ Len(F[k]) = 2 * k
                        /\ \A j \in 1 .. 2 * k : F[k][j] = whole[j]
             Bad == {k \in 1 .. n : ~Good(k)}
  <2>1. \A k \in 1 .. n : F[k] = IF k = 1 THEN seqs[k] ELSE F[k-1] \o seqs[k]
    BY <1>1 DEF Flattens
  <2>2. \A k \in 1 .. n : /\ seqs[k] \in Seq(T) /\ Len(seqs[k]) = 2
                          /\ seqs[k][1] = whole[2 * k - 1] /\ seqs[k][2] = whole[2 * k]
    <3> SUFFICES ASSUME NEW k \in 1 .. n
                 PROVE  /\ seqs[k] \in Seq(T) /\ Len(seqs[k]) = 2
                        /\ seqs[k][1] = whole[2 * k - 1] /\ seqs[k][2] = whole[2 * k]
      OBVIOUS
    <3>1. seqs[k] \in Seq(T)
      BY ElementOfSeq
    <3>2. seqs[k] = << whole[2 * k - 1], whole[2 * k] >>
      OBVIOUS
    <3> QED
      BY <3>1, <3>2
  <2>3. Good(1)
    <3>1. 1 \in 1 .. n
      BY <1>3
    <3>2. F[1] = seqs[1]
      BY <2>1, <3>1
    <3>3. \A j \in 1 .. 2 * 1 : j = 1 \/ j = 2
      OBVIOUS
    <3> QED
      BY <2>2, <3>1, <3>2, <3>3
  <2>4. ASSUME NEW k \in 1 .. n, k # 1, Good(k-1) PROVE Good(k)
    <3>1. k - 1 \in 1 .. n
      BY <2>4
    <3>2. /\ F[k-1] \in Seq(T) /\ Len(F[k-1]) = 2 * (k - 1)
          /\ \A j \in 1 .. 2 * (k - 1) : F[k-1][j] = whole[j]
      BY <2>4
    <3>3. F[k] = F[k-1] \o seqs[k]
      BY <2>1, <2>4
    <3> DEFINE a == F[k-1]
               b == seqs[k]
               m == 2 * (k - 1)
    <3>4. /\ a \in Seq(T) /\ Len(a) = m /\ \A j \in 1 .. m : a[j] = whole[j]
          /\ b \in Seq(T) /\ Len(b) = 2 /\ b[1] = whole[2 * k - 1] /\ b[2] = whole[2 * k]
          /\ F[k] = a \o b /\ m \in Nat /\ 2 * k = m + 2
      BY <2>2, <3>2, <3>3
    <3> HIDE DEF a, b, m
    <3>5. /\ F[k] \in Seq(T) /\ Len(F[k]) = m + 2
          /\ \A j \in 1 .. m + 2 : F[k][j] = IF j <= m THEN a[j] ELSE b[j - m]
      <4>1. /\ a \o b \in Seq(T) /\ Len(a \o b) = Len(a) + Len(b)
            /\ \A j \in 1 .. Len(a) + Len(b) :
                  (a \o b)[j] = IF j <= Len(a) THEN a[j] ELSE b[j - Len(a)]
        BY <3>4, ConcatProperties
      <4> QED
        BY <3>4, <4>1
    <3>6. ASSUME NEW j \in 1 .. m + 2 PROVE F[k][j] = whole[j]
      <4>1. CASE j <= m
        BY <3>4, <3>5, <4>1
      <4>2. CASE j = m + 1
        <5>1. ~(j <= m) /\ j - m = 1 /\ j = 2 * k - 1
          BY <3>4, <4>2
        <5> QED
          BY <3>4, <3>5, <5>1
      <4>3. CASE j = m + 2
        <5>1. ~(j <= m) /\ j - m = 2 /\ j = 2 * k
          BY <3>4, <4>3
        <5> QED
          BY <3>4, <3>5, <5>1
      <4>4. j <= m \/ j = m + 1 \/ j = m + 2
        BY <3>4
      <4> QED
        BY <4>1, <4>2, <4>3, <4>4
    <3> QED
      BY <3>4, <3>5, <3>6
  <2>5. ASSUME Bad # {} PROVE FALSE
    <3> HIDE DEF Good
    <3>1. PICK k \in Bad : \A m \in Bad : k <= m
      <4>1. Bad \subseteq Nat
        OBVIOUS
      <4> QED
        BY <2>5, <4>1, Least
    <3>2. k # 1
      BY <2>3, <3>1
    <3>3. k - 1 \in 1 .. n /\ ~(k <= k - 1)
      BY <3>1, <3>2
    <3>4. k - 1 \notin Bad
      BY <3>1, <3>3
    <3>5. Good(k-1)
      BY <3>3, <3>4
    <3> QED
      BY <2>4, <3>1, <3>2, <3>5
  <2>6. Good(n)
    <3> HIDE DEF Good
    <3>1. n \in 1 .. n
      BY <1>3
    <3>2. n \notin Bad
      BY <2>5
    <3> QED
      BY <3>1, <3>2
  <2>7. F[n] = whole
    BY <2>6, SeqEqual
  <2> QED
    BY <1>1, <1>3, <2>7
<1> QED
  BY <1>2, <1>3

-----------------------------------------------------------------------------
(* A part of a list.                                                       *)

\* Where the elements kept are from.
Chosen(list, wanted, kept, from) ==
    /\ from \in [1 .. Len(kept) -> 1 .. Len(list)]
    /\ \A k \in 1 .. Len(kept) : kept[k] = list[from[k]] /\ list[from[k]] \in wanted
    /\ \A k, l \in 1 .. Len(kept) : k < l => from[k] < from[l]
    /\ \A i \in 1 .. Len(list) : list[i] \in wanted =>
          \E k \in 1 .. Len(kept) : from[k] = i

\* What Only keeps are the wanted elements, all of them, in the order of the list.
LEMMA OnlyChosen ==
    ASSUME NEW T, NEW list \in Seq(T), NEW wanted
    PROVE  /\ Only(list, wanted) \in Seq(T)
           /\ \E from : Chosen(list, wanted, Only(list, wanted), from)
<1> DEFINE seqs == [i \in 1 .. Len(list) |-> IF list[i] \in wanted THEN << list[i] >> ELSE <<>>]
           kept == Only(list, wanted)
<1>1. Len(list) \in Nat /\ \A i \in 1 .. Len(list) : list[i] \in T
  BY LenProperties, ElementOfSeq
<1>2. \A i \in 1 .. Len(list) : seqs[i] \in Seq(T)
  <2> SUFFICES ASSUME NEW i \in 1 .. Len(list) PROVE seqs[i] \in Seq(T)
    OBVIOUS
  <2>1. << list[i] >> \in Seq(T) /\ <<>> \in Seq(T)
    BY <1>1, EmptySeq
  <2> QED
    BY <2>1
<1>3. seqs \in Seq(Seq(T)) /\ Len(seqs) = Len(list)
  BY <1>1, <1>2
<1>4. kept = FlattenSeq(seqs)
  BY DEF Only
<1>5. kept \in Seq(T)
  BY <1>3, <1>4, FlattenPlaces
<1>6. PICK row, col : Placed(kept, seqs, Len(seqs), row, col)
  BY <1>3, <1>4, FlattenPlaces
<1>7. \A i \in 1 .. Len(list) :
         /\ list[i] \in wanted => Len(seqs[i]) = 1 /\ seqs[i][1] = list[i]
         /\ list[i] \notin wanted => Len(seqs[i]) = 0
  OBVIOUS
<1> HIDE DEF seqs, kept
<1>8. Len(kept) \in Nat
  BY <1>5, LenProperties
<1>9. /\ row \in [1 .. Len(kept) -> 1 .. Len(list)]
      /\ \A k \in 1 .. Len(kept) :
            col[k] \in 1 .. Len(seqs[row[k]]) /\ kept[k] = seqs[row[k]][col[k]]
  BY <1>3, <1>6 DEF Placed
<1>10. \A k \in 1 .. Len(kept) :
          /\ row[k] \in 1 .. Len(list) /\ list[row[k]] \in wanted
          /\ col[k] = 1 /\ kept[k] = list[row[k]]
  <2> SUFFICES ASSUME NEW k \in 1 .. Len(kept)
               PROVE  /\ row[k] \in 1 .. Len(list) /\ list[row[k]] \in wanted
                      /\ col[k] = 1 /\ kept[k] = list[row[k]]
    OBVIOUS
  <2>1. row[k] \in 1 .. Len(list) /\ col[k] \in 1 .. Len(seqs[row[k]])
    BY <1>9
  <2>2. list[row[k]] \in wanted
    BY <1>7, <2>1
  <2>3. col[k] = 1
    <3>1. Len(seqs[row[k]]) = 1
      BY <1>7, <2>1, <2>2
    <3> QED
      BY <2>1, <3>1
  <2> QED
    BY <1>7, <1>9, <2>1, <2>2, <2>3
<1>11. \A k, l \in 1 .. Len(kept) : k < l => row[k] < row[l]
  <2>1. \A k, l \in 1 .. Len(kept) : k < l =>
           row[k] < row[l] \/ (row[k] = row[l] /\ col[k] < col[l])
    BY <1>6 DEF Placed
  <2> QED
    BY <1>10, <2>1
<1>12. ASSUME NEW i \in 1 .. Len(list), list[i] \in wanted
       PROVE  \E k \in 1 .. Len(kept) : row[k] = i
  <2>1. i \in 1 .. Len(seqs) /\ 1 \in 1 .. Len(seqs[i])
    BY <1>3, <1>7, <1>12
  <2> QED
    BY <1>6, <2>1 DEF Placed
<1>13. Chosen(list, wanted, kept, row)
  BY <1>9, <1>10, <1>11, <1>12 DEF Chosen
<1> QED
  BY <1>5, <1>13 DEF kept

\* Two kept elements come from two places.
LEMMA OnlyInjective ==
    ASSUME NEW list, NEW wanted, NEW kept, NEW from, Chosen(list, wanted, kept, from),
           Len(list) \in Nat, Len(kept) \in Nat,
           NEW k \in 1 .. Len(kept), NEW l \in 1 .. Len(kept), from[k] = from[l]
    PROVE  k = l
<1>1. from[k] \in Nat
  BY DEF Chosen
<1>2. ~(k < l) /\ ~(l < k)
  BY <1>1 DEF Chosen
<1> QED
  BY <1>2

\* A concatenation holds what its parts hold,
LEMMA SetOfConcat ==
    ASSUME NEW S, NEW s \in Seq(S), NEW t \in Seq(S)
    PROVE  /\ s \o t \in Seq(S)
           /\ ToSet(s \o t) = ToSet(s) \union ToSet(t)
<1> DEFINE both == s \o t
<1>1. /\ both \in Seq(S) /\ Len(both) = Len(s) + Len(t)
      /\ \A i \in 1 .. Len(s) + Len(t) : both[i] = IF i <= Len(s) THEN s[i] ELSE t[i - Len(s)]
      /\ Len(s) \in Nat /\ Len(t) \in Nat
      /\ DOMAIN both = 1 .. Len(both) /\ DOMAIN s = 1 .. Len(s) /\ DOMAIN t = 1 .. Len(t)
  BY ConcatProperties, LenProperties
<1> HIDE DEF both
<1>2. ASSUME NEW i \in DOMAIN both PROVE both[i] \in ToSet(s) \union ToSet(t)
  <2>1. CASE i <= Len(s)
    BY <1>1, <2>1 DEF ToSet
  <2>2. CASE ~(i <= Len(s))
    <3>1. i - Len(s) \in DOMAIN t /\ both[i] = t[i - Len(s)]
      BY <1>1, <2>2
    <3> QED
      BY <3>1 DEF ToSet
  <2> QED
    BY <2>1, <2>2
<1>3. ASSUME NEW i \in DOMAIN s PROVE s[i] \in ToSet(both)
  <2>1. i \in DOMAIN both /\ both[i] = s[i]
    BY <1>1
  <2> QED
    BY <2>1 DEF ToSet
<1>4. ASSUME NEW i \in DOMAIN t PROVE t[i] \in ToSet(both)
  <2>1. /\ Len(s) + i \in DOMAIN both /\ Len(s) + i \in 1 .. Len(s) + Len(t)
        /\ ~(Len(s) + i <= Len(s)) /\ (Len(s) + i) - Len(s) = i
    BY <1>1
  <2>2. both[Len(s) + i] = t[i]
    BY <1>1, <2>1
  <2> QED
    BY <2>1, <2>2 DEF ToSet
<1>5. ToSet(both) = ToSet(s) \union ToSet(t)
  BY <1>2, <1>3, <1>4 DEF ToSet
<1> QED
  BY <1>1, <1>5 DEF both

\* and repeats nothing when they have nothing in common.
LEMMA ConcatInjective ==
    ASSUME NEW S, NEW s \in Seq(S), NEW t \in Seq(S),
           IsInjective(s), IsInjective(t), ToSet(s) \intersect ToSet(t) = {}
    PROVE  IsInjective(s \o t)
<1> DEFINE both == s \o t
<1>1. /\ Len(both) = Len(s) + Len(t)
      /\ \A i \in 1 .. Len(s) + Len(t) : both[i] = IF i <= Len(s) THEN s[i] ELSE t[i - Len(s)]
      /\ Len(s) \in Nat /\ Len(t) \in Nat
      /\ DOMAIN both = 1 .. Len(both) /\ DOMAIN s = 1 .. Len(s) /\ DOMAIN t = 1 .. Len(t)
  BY ConcatProperties, LenProperties
<1> HIDE DEF both
<1>2. \A i \in DOMAIN both :
         \/ i <= Len(s) /\ i \in DOMAIN s /\ both[i] = s[i]
         \/ i - Len(s) \in DOMAIN t /\ both[i] = t[i - Len(s)]
  BY <1>1
<1>3. \A i \in DOMAIN s, j \in DOMAIN t : s[i] # t[j]
  BY DEF ToSet
<1>4. ASSUME NEW i \in DOMAIN both, NEW j \in DOMAIN both, both[i] = both[j] PROVE i = j
  <2>1. CASE i \in DOMAIN s /\ both[i] = s[i] /\ j \in DOMAIN s /\ both[j] = s[j]
    BY <1>4, <2>1 DEF IsInjective
  <2>2. CASE /\ i - Len(s) \in DOMAIN t /\ both[i] = t[i - Len(s)]
             /\ j - Len(s) \in DOMAIN t /\ both[j] = t[j - Len(s)]
    <3>1. i - Len(s) = j - Len(s)
      BY <1>4, <2>2 DEF IsInjective
    <3> QED
      BY <1>1, <3>1
  <2> QED
    BY <1>2, <1>3, <1>4, <2>1, <2>2
<1> QED
  BY <1>4 DEF IsInjective, both

\* Numbers that rise along a sequence.
Ascends(s) == \A i, j \in 1 .. Len(s) : i < j => s[i] < s[j]

\* A rising sequence repeats nothing.
LEMMA AscendsInjective ==
    ASSUME NEW s \in Seq(Nat), Ascends(s)
    PROVE  IsInjective(s)
<1>1. DOMAIN s = 1 .. Len(s) /\ Len(s) \in Nat /\ \A i \in 1 .. Len(s) : s[i] \in Nat
  BY LenProperties, ElementOfSeq
<1>2. ASSUME NEW i \in DOMAIN s, NEW j \in DOMAIN s, s[i] = s[j] PROVE i = j
  <2>1. ~(i < j) /\ ~(j < i)
    BY <1>1, <1>2 DEF Ascends
  <2> QED
    BY <1>1, <2>1
<1> QED
  BY <1>2 DEF IsInjective

-----------------------------------------------------------------------------
(* The marks of a message's parts.                                         *)

PartType == [kind : Kinds, mark : Nat, of : Nat]
MessageType == [role : Roles, parts : Seq(PartType)]

\* The marks given rise, the empty texts between them are 0.
Rising(parts) == \A i, j \in 1 .. Len(parts) :
    i < j /\ parts[i].mark # 0 /\ parts[j].mark # 0 => parts[i].mark < parts[j].mark

MarksOf(parts, kinds) == {p.mark : p \in {q \in ToSet(parts) : q.kind \in kinds /\ q.mark # 0}}

\* The fields of a part.
LEMMA PartTyped ==
    ASSUME NEW parts \in Seq(PartType), NEW i \in 1 .. Len(parts)
    PROVE  /\ parts[i] \in PartType /\ parts[i].mark \in Nat /\ parts[i].kind \in Kinds
           /\ parts[i].of \in Nat
<1>1. parts[i] \in PartType
  BY ElementOfSeq
<1> QED
  BY <1>1 DEF PartType

\* The same, without the set of parts.
LEMMA InMarksOf ==
    ASSUME NEW parts \in Seq(PartType), NEW kinds
    PROVE  /\ \A i \in 1 .. Len(parts) :
                 parts[i].kind \in kinds /\ parts[i].mark # 0 => parts[i].mark \in MarksOf(parts, kinds)
           /\ \A a \in MarksOf(parts, kinds) : \E i \in 1 .. Len(parts) :
                 a = parts[i].mark /\ parts[i].kind \in kinds /\ a # 0
<1>1. DOMAIN parts = 1 .. Len(parts)
  BY LenProperties
<1> QED
  BY <1>1 DEF MarksOf, ToSet

\* The marks of chosen parts rise, and none is left out.
LEMMA MarksChosen ==
    ASSUME NEW parts \in Seq(PartType), Rising(parts),
           NEW wanted, \A p \in wanted : p.mark # 0
    PROVE  /\ Marks(Only(parts, wanted)) \in Seq(Nat) /\ Ascends(Marks(Only(parts, wanted)))
           /\ ToSet(Marks(Only(parts, wanted))) = {p.mark : p \in ToSet(parts) \intersect wanted}
<1> DEFINE kept == Only(parts, wanted)
           r == Marks(kept)
<1>1. kept \in Seq(PartType) /\ \E from : Chosen(parts, wanted, kept, from)
  BY OnlyChosen
<1>2. PICK from : Chosen(parts, wanted, kept, from)
  BY <1>1
<1> HIDE DEF kept
<1>3. Len(kept) \in Nat /\ DOMAIN parts = 1 .. Len(parts)
  BY <1>1, LenProperties
<1>4. \A i \in 1 .. Len(kept) : kept[i].mark \in Nat
  BY <1>1, PartTyped
<1>5. r \in Seq(Nat) /\ Len(r) = Len(kept) /\ DOMAIN r = 1 .. Len(kept)
      /\ \A i \in 1 .. Len(kept) : r[i] = kept[i].mark
  BY <1>3, <1>4 DEF Marks
<1> HIDE DEF r
<1>6. \A k \in 1 .. Len(kept) :
         /\ from[k] \in 1 .. Len(parts) /\ parts[from[k]] \in wanted
         /\ r[k] = parts[from[k]].mark /\ parts[from[k]].mark # 0
  BY <1>2, <1>5 DEF Chosen
<1>7. Ascends(r)
  <2> SUFFICES ASSUME NEW k \in 1 .. Len(kept), NEW l \in 1 .. Len(kept), k < l
               PROVE  r[k] < r[l]
    BY <1>5 DEF Ascends
  <2>1. from[k] < from[l]
    BY <1>2 DEF Chosen
  <2> QED
    BY <1>6, <2>1 DEF Rising
<1>8. ASSUME NEW k \in 1 .. Len(kept) PROVE r[k] \in {p.mark : p \in ToSet(parts) \intersect wanted}
  <2>1. parts[from[k]] \in ToSet(parts)
    BY <1>3, <1>6 DEF ToSet
  <2> QED
    BY <1>6, <2>1
<1>9. ASSUME NEW p \in ToSet(parts) \intersect wanted PROVE p.mark \in ToSet(r)
  <2>1. PICK i \in 1 .. Len(parts) : p = parts[i]
    BY <1>3 DEF ToSet
  <2>2. PICK k \in 1 .. Len(kept) : from[k] = i
    BY <1>2, <2>1 DEF Chosen
  <2>3. r[k] = p.mark
    BY <1>6, <2>1, <2>2
  <2> QED
    BY <1>5, <2>3 DEF ToSet
<1>10. ToSet(r) = {p.mark : p \in ToSet(parts) \intersect wanted}
  <2>1. \A a \in ToSet(r) : \E k \in 1 .. Len(kept) : a = r[k]
    BY <1>5 DEF ToSet
  <2> QED
    BY <2>1, <1>8, <1>9
<1> QED
  BY <1>5, <1>7, <1>10 DEF r, kept

\* So do the marks of the parts of one kind.
LEMMA JoinedMarks ==
    ASSUME NEW parts \in Seq(PartType), Rising(parts), NEW kind
    PROVE  /\ Joined(parts, kind) \in Seq(Nat) /\ Ascends(Joined(parts, kind))
           /\ ToSet(Joined(parts, kind)) = MarksOf(parts, {kind})
           /\ IsInjective(Joined(parts, kind))
<1> DEFINE wanted == {p \in ToSet(parts) : p.kind = kind /\ p.mark # 0}
<1>1. /\ Joined(parts, kind) \in Seq(Nat) /\ Ascends(Joined(parts, kind))
      /\ ToSet(Joined(parts, kind)) = {p.mark : p \in ToSet(parts) \intersect wanted}
  <2>1. \A p \in wanted : p.mark # 0
    OBVIOUS
  <2> HIDE DEF wanted
  <2>2. /\ Marks(Only(parts, wanted)) \in Seq(Nat) /\ Ascends(Marks(Only(parts, wanted)))
        /\ ToSet(Marks(Only(parts, wanted))) = {p.mark : p \in ToSet(parts) \intersect wanted}
    BY <2>1, MarksChosen
  <2> QED
    BY <2>2 DEF Joined, wanted
<1>2. {p.mark : p \in ToSet(parts) \intersect wanted} = MarksOf(parts, {kind})
  BY DEF MarksOf
<1> QED
  BY <1>1, <1>2, AscendsInjective

\* Parts of different kinds share no mark.
LEMMA MarksApart ==
    ASSUME NEW parts \in Seq(PartType), Rising(parts), NEW some, NEW others,
           some \intersect others = {}
    PROVE  MarksOf(parts, some) \intersect MarksOf(parts, others) = {}
<1> SUFFICES ASSUME NEW a \in MarksOf(parts, some), a \in MarksOf(parts, others)
             PROVE  FALSE
  OBVIOUS
<1>1. PICK i \in 1 .. Len(parts) : a = parts[i].mark /\ parts[i].kind \in some /\ a # 0
  BY InMarksOf
<1>2. PICK j \in 1 .. Len(parts) : a = parts[j].mark /\ parts[j].kind \in others /\ a # 0
  BY InMarksOf
<1>3. i # j
  BY <1>1, <1>2
<1>4. i < j \/ j < i
  BY <1>3
<1>5. parts[i].mark < parts[j].mark \/ parts[j].mark < parts[i].mark
  BY <1>1, <1>2, <1>4 DEF Rising
<1> QED
  BY <1>1, <1>2, <1>5, PartTyped

\* What a turn is turned into: each of its pieces once.
LEMMA ContentMarks ==
    ASSUME NEW parts \in Seq(PartType), Rising(parts), NEW role,
           \A i \in 1 .. Len(parts) : parts[i].kind # "result"
    PROVE  /\ Content(Turn(role, parts)) \in Seq(Nat)
           /\ IsInjective(Content(Turn(role, parts)))
           /\ ToSet(Content(Turn(role, parts))) = MarksOf(parts, Kinds)
<1> DEFINE a == Joined(parts, "reasoning")
           b == Joined(parts, "text")
           c == Joined(parts, "call")
<1>1. Content(Turn(role, parts)) = (a \o b) \o c
  BY DEF Content, Turn
<1>2. /\ a \in Seq(Nat) /\ b \in Seq(Nat) /\ c \in Seq(Nat)
      /\ IsInjective(a) /\ IsInjective(b) /\ IsInjective(c)
      /\ ToSet(a) = MarksOf(parts, {"reasoning"})
      /\ ToSet(b) = MarksOf(parts, {"text"})
      /\ ToSet(c) = MarksOf(parts, {"call"})
  BY JoinedMarks
<1> HIDE DEF a, b, c
<1>3. /\ MarksOf(parts, {"reasoning"}) \intersect MarksOf(parts, {"text"}) = {}
      /\ MarksOf(parts, {"reasoning"}) \intersect MarksOf(parts, {"call"}) = {}
      /\ MarksOf(parts, {"text"}) \intersect MarksOf(parts, {"call"}) = {}
  <2>1. /\ {"reasoning"} \intersect {"text"} = {}
        /\ {"reasoning"} \intersect {"call"} = {} /\ {"text"} \intersect {"call"} = {}
    OBVIOUS
  <2> QED
    BY <2>1, MarksApart
<1>4. /\ a \o b \in Seq(Nat) /\ IsInjective(a \o b)
      /\ ToSet(a \o b) = ToSet(a) \union ToSet(b)
  BY <1>2, <1>3, SetOfConcat, ConcatInjective
<1>5. ToSet(a \o b) \intersect ToSet(c) = {}
  BY <1>2, <1>3, <1>4
<1>6. /\ (a \o b) \o c \in Seq(Nat) /\ IsInjective((a \o b) \o c)
      /\ ToSet((a \o b) \o c) = ToSet(a \o b) \union ToSet(c)
  <2> DEFINE ab == a \o b
  <2> HIDE DEF ab
  <2>1. ab \in Seq(Nat) /\ IsInjective(ab) /\ ToSet(ab) \intersect ToSet(c) = {}
    BY <1>4, <1>5 DEF ab
  <2>2. ab \o c \in Seq(Nat) /\ IsInjective(ab \o c) /\ ToSet(ab \o c) = ToSet(ab) \union ToSet(c)
    BY <1>2, <2>1, SetOfConcat, ConcatInjective
  <2> QED
    BY <2>2 DEF ab
<1>7. MarksOf(parts, Kinds) =
         (MarksOf(parts, {"reasoning"}) \union MarksOf(parts, {"text"})) \union MarksOf(parts, {"call"})
  <2>1. DOMAIN parts = 1 .. Len(parts)
    BY LenProperties
  <2>2. \A p \in ToSet(parts) : (p.kind \in Kinds) <=>
           (p.kind \in {"reasoning"} \/ p.kind \in {"text"} \/ p.kind \in {"call"})
    BY <2>1 DEF ToSet, Kinds
  <2> QED
    BY <2>2 DEF MarksOf
<1> QED
  BY <1>1, <1>2, <1>4, <1>6, <1>7

-----------------------------------------------------------------------------
(* The conversation: marks are given in its order.                         *)

\* The kinds of parts that a role writes; only a text may be empty.
Fits(role, parts) == \A i \in 1 .. Len(parts) :
    /\ role \in {"system", "user"} => parts[i].kind = "text"
    /\ role = "tool" => parts[i].kind = "result"
    /\ role = "assistant" => parts[i].kind # "result"
    /\ parts[i].kind # "text" => parts[i].mark # 0

\* All marks of a message are before those of a later one.
InOrder(list) ==
    \A i, j \in 1 .. Len(list) : i < j =>
        \A a \in 1 .. Len(list[i].parts), b \in 1 .. Len(list[j].parts) :
            list[i].parts[a].mark # 0 /\ list[j].parts[b].mark # 0 =>
                list[i].parts[a].mark < list[j].parts[b].mark

UpToNow == \A i \in 1 .. Len(messages) : \A a \in 1 .. Len(messages[i].parts) :
    messages[i].parts[a].mark <= marks /\ messages[i].parts[a].of <= marks

ConversationInv ==
    /\ marks \in Nat /\ messages \in Seq(MessageType)
    /\ UpToNow
    /\ \A i \in 1 .. Len(messages) :
          Fits(messages[i].role, messages[i].parts) /\ Rising(messages[i].parts)
    /\ InOrder(messages)

\* The fields of a message.
LEMMA MessageTyped ==
    ASSUME NEW list \in Seq(MessageType), NEW i \in 1 .. Len(list)
    PROVE  list[i] \in MessageType /\ list[i].role \in Roles /\ list[i].parts \in Seq(PartType)
<1>1. list[i] \in MessageType
  BY ElementOfSeq
<1> QED
  BY <1>1 DEF MessageType

\* The parts a role may write.
LEMMA ShapeTyped ==
    ASSUME NEW role \in Roles, NEW shape \in Shapes(role)
    PROVE  /\ Len(shape) \in Nat
           /\ \A i \in 1 .. Len(shape) :
                 /\ shape[i] \in Kinds \union {"empty"}
                 /\ role \in {"system", "user"} => shape[i] \in {"text", "empty"}
                 /\ role = "tool" => shape[i] = "result"
                 /\ role # "tool" => shape[i] # "result"
<1>1. CASE role = "system"
  BY <1>1 DEF Shapes, Kinds
<1>2. CASE role = "user"
  BY <1>2 DEF Shapes, Kinds
<1>3. CASE role = "tool"
  BY <1>3 DEF Shapes, Kinds
<1>4. CASE role = "assistant"
  <2>1. shape \in {<<>>, <<"text">>, <<"reasoning", "text">>, <<"reasoning">>,
                   <<"text", "call", "text">>, <<"call", "call">>}
    BY <1>4 DEF Shapes
  <2>2. \A i \in 1 .. 3 : i = 1 \/ i = 2 \/ i = 3
    OBVIOUS
  <2>3. CASE shape = <<>>
    BY <1>4, <2>3 DEF Kinds
  <2>4. CASE shape = <<"text">> \/ shape = <<"reasoning">>
    BY <1>4, <2>4 DEF Kinds
  <2>5. CASE shape = <<"reasoning", "text">> \/ shape = <<"call", "call">>
    BY <1>4, <2>5 DEF Kinds
  <2>6. CASE shape = <<"text", "call", "text">>
    BY <1>4, <2>2, <2>6 DEF Kinds
  <2> QED
    BY <2>1, <2>3, <2>4, <2>5, <2>6
<1> QED
  BY <1>1, <1>2, <1>3, <1>4 DEF Roles

\* The calls without a result are marks of the conversation.
LEMMA UnansweredTyped ==
    ASSUME ConversationInv
    PROVE  /\ Len(Unanswered) \in Nat
           /\ \A i \in 1 .. Len(Unanswered) : Unanswered[i] \in Nat /\ Unanswered[i] <= marks
<1> DEFINE lists == [i \in 1 .. Len(messages) |-> messages[i].parts]
           parts == FlattenSeq(lists)
           calls == {p \in ToSet(parts) :
                        p.kind = "call" /\ ~\E q \in ToSet(parts) : q.of = p.mark}
           kept == Only(parts, calls)
<1>1. Len(messages) \in Nat /\ \A i \in 1 .. Len(messages) : messages[i].parts \in Seq(PartType)
  BY MessageTyped, LenProperties DEF ConversationInv
<1>2. lists \in Seq(Seq(PartType)) /\ Len(lists) = Len(messages)
      /\ \A i \in 1 .. Len(messages) : lists[i] = messages[i].parts
  BY <1>1
<1> HIDE DEF lists
<1>3. parts \in Seq(PartType) /\ \E row, col : Placed(parts, lists, Len(lists), row, col)
  BY <1>2, FlattenPlaces
<1>4. PICK row, col : Placed(parts, lists, Len(lists), row, col)
  BY <1>3
<1> HIDE DEF parts
<1>5. \A k \in 1 .. Len(parts) : parts[k].mark \in Nat /\ parts[k].mark <= marks
  <2> SUFFICES ASSUME NEW k \in 1 .. Len(parts)
               PROVE  parts[k].mark \in Nat /\ parts[k].mark <= marks
    OBVIOUS
  <2>1. /\ row[k] \in 1 .. Len(messages) /\ col[k] \in 1 .. Len(lists[row[k]])
        /\ parts[k] = lists[row[k]][col[k]]
    BY <1>2, <1>4 DEF Placed
  <2>2. col[k] \in 1 .. Len(messages[row[k]].parts) /\ parts[k] = messages[row[k]].parts[col[k]]
    BY <1>2, <2>1
  <2> QED
    BY <1>1, <2>1, <2>2, PartTyped DEF ConversationInv, UpToNow
<1>6. PICK from : kept \in Seq(PartType) /\ Chosen(parts, calls, kept, from)
  BY <1>3, OnlyChosen
<1>7. Unanswered = Marks(kept)
  BY DEF Unanswered, parts, lists
<1> HIDE DEF kept, calls
<1>8. Len(kept) \in Nat /\ \A k \in 1 .. Len(kept) : kept[k].mark \in Nat /\ kept[k].mark <= marks
  <2>1. Len(kept) \in Nat
    BY <1>6, LenProperties
  <2>2. \A k \in 1 .. Len(kept) : from[k] \in 1 .. Len(parts) /\ kept[k] = parts[from[k]]
    BY <1>6 DEF Chosen
  <2> QED
    BY <1>5, <2>1, <2>2
<1> QED
  BY <1>7, <1>8 DEF Marks

\* What is written is typed, of its role, and marked after everything there was.
LEMMA WrittenParts ==
    ASSUME marks \in Nat, NEW role \in Roles, NEW shape \in Shapes(role), NEW called,
           role = "tool" => Len(called) >= Len(shape), Len(called) \in Nat,
           \A i \in 1 .. Len(called) : called[i] \in Nat /\ called[i] <= marks
    PROVE  /\ Written(shape, called) \in Seq(PartType) /\ Len(Written(shape, called)) = Len(shape)
           /\ \A i \in 1 .. Len(shape) :
                 /\ Written(shape, called)[i].mark \in {0, marks + i}
                 /\ Written(shape, called)[i].of <= marks
           /\ Fits(role, Written(shape, called))
<1> DEFINE w == Written(shape, called)
<1>1. /\ Len(shape) \in Nat
      /\ \A i \in 1 .. Len(shape) :
            /\ shape[i] \in Kinds \union {"empty"}
            /\ role \in {"system", "user"} => shape[i] \in {"text", "empty"}
            /\ role = "tool" => shape[i] = "result"
            /\ role # "tool" => shape[i] # "result"
  BY ShapeTyped
<1>2. w = [i \in 1 .. Len(shape) |->
              [kind |-> IF shape[i] = "empty" THEN "text" ELSE shape[i],
               mark |-> IF shape[i] = "empty" THEN 0 ELSE marks + i,
               of |-> IF shape[i] = "result" THEN called[i] ELSE 0]]
  BY DEF Written
<1>3. \A i \in 1 .. Len(shape) : shape[i] = "result" => called[i] \in Nat /\ called[i] <= marks
  BY <1>1
<1>4. \A i \in 1 .. Len(shape) :
         /\ w[i].kind = (IF shape[i] = "empty" THEN "text" ELSE shape[i])
         /\ w[i].mark = (IF shape[i] = "empty" THEN 0 ELSE marks + i)
         /\ w[i].of = (IF shape[i] = "result" THEN called[i] ELSE 0)
         /\ w[i] = [kind |-> w[i].kind, mark |-> w[i].mark, of |-> w[i].of]
  BY <1>2
<1>5. Len(w) = Len(shape) /\ w = [i \in 1 .. Len(shape) |-> w[i]]
  BY <1>1, <1>2
<1> HIDE DEF w
<1>6. \A i \in 1 .. Len(shape) :
         /\ w[i].kind \in Kinds /\ w[i].mark \in Nat /\ w[i].of \in Nat
         /\ w[i].mark \in {0, marks + i} /\ w[i].of <= marks
  <2> SUFFICES ASSUME NEW i \in 1 .. Len(shape)
               PROVE  /\ w[i].kind \in Kinds /\ w[i].mark \in Nat /\ w[i].of \in Nat
                      /\ w[i].mark \in {0, marks + i} /\ w[i].of <= marks
    OBVIOUS
  <2>1. marks + i \in Nat /\ 0 \in Nat /\ 0 <= marks
    BY <1>1
  <2>2. w[i].kind \in Kinds
    <3>1. shape[i] \in Kinds \union {"empty"} /\ "text" \in Kinds
      BY <1>1 DEF Kinds
    <3> QED
      BY <1>4, <3>1
  <2>3. w[i].mark \in {0, marks + i}
    BY <1>4
  <2>4. w[i].of \in Nat /\ w[i].of <= marks
    BY <1>3, <1>4, <2>1
  <2> QED
    BY <2>1, <2>2, <2>3, <2>4
<1>7. \A i \in 1 .. Len(shape) : w[i] \in PartType
  <2> SUFFICES ASSUME NEW i \in 1 .. Len(shape) PROVE w[i] \in PartType
    OBVIOUS
  <2>1. w[i] = [kind |-> w[i].kind, mark |-> w[i].mark, of |-> w[i].of]
    BY <1>4
  <2>2. w[i].kind \in Kinds /\ w[i].mark \in Nat /\ w[i].of \in Nat
    BY <1>6
  <2> QED
    BY <2>1, <2>2 DEF PartType
<1>8. w \in Seq(PartType)
  BY <1>1, <1>5, <1>7
<1>9. Fits(role, w)
  <2> SUFFICES ASSUME NEW i \in 1 .. Len(shape)
               PROVE  /\ role \in {"system", "user"} => w[i].kind = "text"
                      /\ role = "tool" => w[i].kind = "result"
                      /\ role = "assistant" => w[i].kind # "result"
                      /\ w[i].kind # "text" => w[i].mark # 0
    BY <1>5 DEF Fits
  <2>1. marks + i # 0
    BY <1>1
  <2>2. /\ w[i].kind = (IF shape[i] = "empty" THEN "text" ELSE shape[i])
        /\ w[i].mark = (IF shape[i] = "empty" THEN 0 ELSE marks + i)
    BY <1>4
  <2>3. /\ role \in {"system", "user"} => shape[i] \in {"text", "empty"}
        /\ role = "tool" => shape[i] = "result"
        /\ role # "tool" => shape[i] # "result"
    BY <1>1
  <2> QED
    BY <2>1, <2>2, <2>3
<1> QED
  BY <1>5, <1>6, <1>8, <1>9 DEF w

\* A message written at the end keeps the invariant.
LEMMA WriteKeeps ==
    ASSUME ConversationInv, NEW role \in Roles, NEW shape \in Shapes(role), Write(role, shape)
    PROVE  ConversationInv'
<1> DEFINE w == Written(shape, Unanswered)
           n == Len(messages)
<1>1. /\ w \in Seq(PartType) /\ Len(w) = Len(shape) /\ Len(shape) \in Nat /\ Fits(role, w)
      /\ \A i \in 1 .. Len(shape) : w[i].mark \in {0, marks + i} /\ w[i].of <= marks
      /\ marks \in Nat
  <2>1. /\ Len(Unanswered) \in Nat
        /\ \A i \in 1 .. Len(Unanswered) : Unanswered[i] \in Nat /\ Unanswered[i] <= marks
    BY UnansweredTyped
  <2>2. marks \in Nat /\ Len(shape) \in Nat /\ (role = "tool" => Len(Unanswered) >= Len(shape))
    BY ShapeTyped DEF ConversationInv, Write
  <2> DEFINE called == Unanswered
  <2>3. /\ Written(shape, called) \in Seq(PartType) /\ Len(Written(shape, called)) = Len(shape)
        /\ \A i \in 1 .. Len(shape) :
              /\ Written(shape, called)[i].mark \in {0, marks + i}
              /\ Written(shape, called)[i].of <= marks
        /\ Fits(role, Written(shape, called))
    <3>1. /\ Len(called) \in Nat /\ (role = "tool" => Len(called) >= Len(shape))
          /\ \A i \in 1 .. Len(called) : called[i] \in Nat /\ called[i] <= marks
      BY <2>1, <2>2
    <3> HIDE DEF called
    <3> QED
      BY <2>2, <3>1, WrittenParts
  <2> QED
    BY <2>2, <2>3
<1>2. /\ messages' = Append(messages, [role |-> role, parts |-> w])
      /\ marks' = marks + Len(shape)
  BY DEF Write
<1> HIDE DEF w
<1> DEFINE new == [role |-> role, parts |-> w]
<1>3. new \in MessageType /\ new.role = role /\ new.parts = w
  BY <1>1 DEF MessageType
<1> HIDE DEF new
<1>4. n \in Nat /\ messages \in Seq(MessageType)
  BY LenProperties DEF ConversationInv
<1>5. /\ messages' \in Seq(MessageType) /\ Len(messages') = n + 1
      /\ \A i \in 1 .. n : messages'[i] = messages[i]
      /\ messages'[n + 1].role = role /\ messages'[n + 1].parts = w
  <2>1. messages' = Append(messages, new)
    BY <1>2 DEF new
  <2> QED
    BY <1>3, <1>4, <2>1, AppendProperties
<1>6. \A i \in 1 .. n + 1 : i \in 1 .. n \/ i = n + 1
  BY <1>4
<1>7. \A i \in 1 .. n : messages[i].parts \in Seq(PartType)
  BY <1>4, MessageTyped
<1> HIDE DEF n
<1>8. \A a \in 1 .. Len(w) : w[a].mark \in Nat /\ w[a].of \in Nat
  BY <1>1, PartTyped
<1>9. marks' \in Nat /\ marks <= marks'
  BY <1>1, <1>2
<1>10. \A i \in 1 .. n : \A a \in 1 .. Len(messages[i].parts) :
          /\ messages[i].parts[a].mark \in Nat /\ messages[i].parts[a].of \in Nat
          /\ messages[i].parts[a].mark <= marks /\ messages[i].parts[a].of <= marks
  <2> SUFFICES ASSUME NEW i \in 1 .. n, NEW a \in 1 .. Len(messages[i].parts)
               PROVE  /\ messages[i].parts[a].mark \in Nat /\ messages[i].parts[a].of \in Nat
                      /\ messages[i].parts[a].mark <= marks /\ messages[i].parts[a].of <= marks
    OBVIOUS
  <2>1. messages[i].parts[a].mark <= marks /\ messages[i].parts[a].of <= marks
    BY DEF ConversationInv, UpToNow, n
  <2> QED
    BY <1>7, <2>1, PartTyped
<1>11. UpToNow'
  <2> SUFFICES ASSUME NEW i \in 1 .. n + 1, NEW a \in 1 .. Len(messages'[i].parts)
               PROVE  messages'[i].parts[a].mark <= marks' /\ messages'[i].parts[a].of <= marks'
    BY <1>5 DEF UpToNow
  <2>1. CASE i \in 1 .. n
    <3>1. messages'[i] = messages[i] /\ a \in 1 .. Len(messages[i].parts)
      BY <1>5, <2>1
    <3> QED
      BY <1>1, <1>9, <1>10, <2>1, <3>1
  <2>2. CASE i = n + 1
    <3>1. messages'[i].parts = w /\ a \in 1 .. Len(shape)
      BY <1>1, <1>5, <2>2
    <3>2. w[a].mark \in {0, marks + a} /\ w[a].of <= marks
      BY <1>1, <3>1
    <3>3. w[a].mark <= marks + Len(shape) /\ w[a].of <= marks + Len(shape)
      <4>1. w[a].mark \in Nat /\ w[a].of \in Nat
        BY <1>1, <1>8, <3>1
      <4> QED
        BY <1>1, <3>1, <3>2, <4>1
    <3> QED
      BY <1>2, <3>1, <3>3
  <2> QED
    BY <1>6, <2>1, <2>2
<1>12. Rising(w)
  <2> SUFFICES ASSUME NEW a \in 1 .. Len(w), NEW b \in 1 .. Len(w), a < b,
                      w[a].mark # 0, w[b].mark # 0
               PROVE  w[a].mark < w[b].mark
    BY DEF Rising
  <2>1. w[a].mark = marks + a /\ w[b].mark = marks + b
    BY <1>1
  <2> QED
    BY <1>1, <2>1
<1>13. ASSUME NEW i \in 1 .. n + 1
       PROVE  Fits(messages'[i].role, messages'[i].parts) /\ Rising(messages'[i].parts)
  <2>1. CASE i \in 1 .. n
    <3>1. Fits(messages[i].role, messages[i].parts) /\ Rising(messages[i].parts)
      BY <2>1 DEF ConversationInv, n
    <3> QED
      BY <1>5, <2>1, <3>1
  <2>2. CASE i = n + 1
    BY <1>1, <1>5, <1>12, <2>2
  <2> QED
    BY <1>6, <2>1, <2>2
<1>14. InOrder(messages')
  <2> SUFFICES ASSUME NEW i \in 1 .. n + 1, NEW j \in 1 .. n + 1, i < j,
                      NEW a \in 1 .. Len(messages'[i].parts), NEW b \in 1 .. Len(messages'[j].parts),
                      messages'[i].parts[a].mark # 0, messages'[j].parts[b].mark # 0
               PROVE  messages'[i].parts[a].mark < messages'[j].parts[b].mark
    BY <1>5 DEF InOrder
  <2>1. i \in 1 .. n /\ messages'[i] = messages[i]
    BY <1>4, <1>5 DEF n
  <2>2. CASE j \in 1 .. n
    <3>1. messages'[j] = messages[j]
      BY <1>5, <2>2
    <3>2. InOrder(messages)
      BY DEF ConversationInv
    <3> QED
      BY <2>1, <2>2, <3>1, <3>2 DEF InOrder, n
  <2>3. CASE j = n + 1
    <3>1. messages'[j].parts = w /\ b \in 1 .. Len(shape) /\ w[b].mark = marks + b
      BY <1>1, <1>5, <2>3
    <3>2. messages'[i].parts[a].mark \in Nat /\ messages'[i].parts[a].mark <= marks
      BY <1>10, <2>1
    <3>3. messages'[j].parts[b].mark = marks + b /\ b \in Nat \ {0} /\ marks \in Nat
      BY <1>1, <3>1
    <3> DEFINE earlier == messages'[i].parts[a].mark
    <3>4. earlier \in Nat /\ earlier <= marks
      BY <3>2
    <3> HIDE DEF earlier
    <3>5. earlier < marks + b
      BY <3>3, <3>4
    <3> QED
      BY <3>3, <3>5 DEF earlier
  <2> QED
    BY <1>6, <2>2, <2>3
<1> QED
  BY <1>5, <1>9, <1>11, <1>13, <1>14 DEF ConversationInv

\* The marks of a conversation are in its order, whatever is written.
THEOREM ConversationInvariance == ConversationSpec => []ConversationInv
<1>1. ConversationInit => ConversationInv
  <2> SUFFICES ASSUME ConversationInit PROVE ConversationInv
    OBVIOUS
  <2>1. messages = <<>> /\ marks = 0
    BY DEF ConversationInit
  <2>2. messages \in Seq(MessageType) /\ Len(messages) = 0
    BY <2>1, EmptySeq
  <2>3. 1 .. 0 = {}
    OBVIOUS
  <2> QED
    BY <2>1, <2>2, <2>3 DEF ConversationInv, UpToNow, InOrder
<1>2. ConversationInv /\ [ConversationNext]_conversationVars => ConversationInv'
  <2> SUFFICES ASSUME ConversationInv, [ConversationNext]_conversationVars
               PROVE  ConversationInv'
    OBVIOUS
  <2>1. ASSUME NEW role \in Roles, NEW shape \in Shapes(role), Write(role, shape)
        PROVE  ConversationInv'
    BY <2>1, WriteKeeps
  <2>2. CASE UNCHANGED conversationVars
    BY <2>2 DEF conversationVars, ConversationInv, UpToNow
  <2> QED
    BY <2>1, <2>2 DEF ConversationNext
<1> QED
  BY <1>1, <1>2, PTL DEF ConversationSpec

\* The messages of a conversation are typed.
THEOREM ConversationTypeCorrect == ConversationSpec => []ConversationTypeOK
<1>1. ConversationInv => ConversationTypeOK
  <2> SUFFICES ASSUME ConversationInv PROVE ConversationTypeOK
    OBVIOUS
  <2> DEFINE Part == [kind : Kinds, mark : 0 .. marks, of : 0 .. marks]
             Message == [role : Roles, parts : Seq(Part)]
  <2>1. marks \in Nat /\ messages \in Seq(MessageType)
    BY DEF ConversationInv
  <2>2. ASSUME NEW i \in 1 .. Len(messages), NEW a \in 1 .. Len(messages[i].parts)
        PROVE  messages[i].parts[a] \in Part
    <3>1. messages[i].parts \in Seq(PartType)
      BY <2>1, MessageTyped
    <3>2. messages[i].parts[a] \in PartType
      BY <3>1, ElementOfSeq
    <3>3. messages[i].parts[a].mark <= marks /\ messages[i].parts[a].of <= marks
      BY DEF ConversationInv, UpToNow
    <3> QED
      BY <2>1, <3>2, <3>3 DEF PartType
  <2>3. ASSUME NEW i \in 1 .. Len(messages) PROVE messages[i] \in Message
    <3>1. messages[i] \in MessageType /\ messages[i].parts \in Seq(PartType)
      BY <2>1, MessageTyped
    <3> HIDE DEF Part
    <3>2. /\ Len(messages[i].parts) \in Nat
          /\ messages[i].parts = [a \in 1 .. Len(messages[i].parts) |-> messages[i].parts[a]]
      BY <3>1
    <3>3. messages[i].parts \in Seq(Part)
      BY <2>2, <3>2
    <3> QED
      BY <3>1, <3>3 DEF MessageType
  <2>4. messages \in Seq(Message)
    <3> HIDE DEF Message
    <3>1. Len(messages) \in Nat /\ messages = [i \in 1 .. Len(messages) |-> messages[i]]
      BY <2>1
    <3> QED
      BY <2>3, <3>1
  <2> QED
    BY <2>1, <2>4 DEF ConversationTypeOK
<1> QED
  BY <1>1, ConversationInvariance, PTL

-----------------------------------------------------------------------------
(* What the mappings are to carry.                                         *)

LEMMA Conversed ==
    ASSUME ConversationInv, NEW i \in 1 .. Len(messages)
    PROVE  /\ messages[i] \in MessageType /\ messages[i].role \in Roles
           /\ messages[i].parts \in Seq(PartType)
           /\ Fits(messages[i].role, messages[i].parts) /\ Rising(messages[i].parts)
           /\ messages[i] \in ToSet(messages)
<1>1. messages \in Seq(MessageType)
  BY DEF ConversationInv
<1>2. DOMAIN messages = 1 .. Len(messages)
  BY <1>1, LenProperties
<1> QED
  BY <1>1, <1>2, MessageTyped DEF ConversationInv, ToSet

\* A later message has later marks, whatever the parts.
LEMMA MarksAfter ==
    ASSUME ConversationInv, NEW i \in 1 .. Len(messages), NEW j \in 1 .. Len(messages), i < j,
           NEW some, NEW others,
           NEW a \in MarksOf(messages[i].parts, some), NEW b \in MarksOf(messages[j].parts, others)
    PROVE  a < b
<1>1. PICK k \in 1 .. Len(messages[i].parts) : a = messages[i].parts[k].mark /\ a # 0
  <2>1. messages[i].parts \in Seq(PartType)
    BY Conversed
  <2> QED
    BY <2>1, InMarksOf
<1>2. PICK l \in 1 .. Len(messages[j].parts) : b = messages[j].parts[l].mark /\ b # 0
  <2>1. messages[j].parts \in Seq(PartType)
    BY Conversed
  <2> QED
    BY <2>1, InMarksOf
<1>3. InOrder(messages)
  BY DEF ConversationInv
<1> QED
  BY <1>1, <1>2, <1>3 DEF InOrder

\* Marks are numbers.
LEMMA MarksNat ==
    ASSUME NEW parts \in Seq(PartType), NEW kinds
    PROVE  MarksOf(parts, kinds) \subseteq Nat
BY InMarksOf, PartTyped

\* What the roles said is what their messages hold.
LEMMA SaidMarks ==
    ASSUME ConversationInv, NEW roles, NEW but
    PROVE  /\ \A i \in 1 .. Len(messages) : messages[i].role \in roles =>
                 MarksOf(messages[i].parts, Kinds \ {but}) \subseteq Said(roles, but)
           /\ \A a \in Said(roles, but) : \E i \in 1 .. Len(messages) :
                 messages[i].role \in roles /\ a \in MarksOf(messages[i].parts, Kinds \ {but})
<1> DEFINE Of(m) == {p.mark : p \in {q \in ToSet(m.parts) : q.kind # but /\ q.mark # 0}}
<1>1. \A i \in 1 .. Len(messages) : Of(messages[i]) = MarksOf(messages[i].parts, Kinds \ {but})
  <2> SUFFICES ASSUME NEW i \in 1 .. Len(messages)
               PROVE  Of(messages[i]) = MarksOf(messages[i].parts, Kinds \ {but})
    OBVIOUS
  <2>1. \A q \in ToSet(messages[i].parts) : q.kind \in Kinds
    <3>1. messages[i].parts \in Seq(PartType)
      BY Conversed
    <3>2. DOMAIN messages[i].parts = 1 .. Len(messages[i].parts)
      BY <3>1, LenProperties
    <3> QED
      BY <3>1, <3>2, PartTyped DEF ToSet
  <2> QED
    BY <2>1 DEF MarksOf
<1>2. Said(roles, but) = UNION {Of(m) : m \in {n \in ToSet(messages) : n.role \in roles}}
  BY DEF Said
<1> HIDE DEF Of
<1>3. ASSUME NEW i \in 1 .. Len(messages), messages[i].role \in roles
      PROVE  Of(messages[i]) \subseteq Said(roles, but)
  <2>1. messages[i] \in {n \in ToSet(messages) : n.role \in roles}
    BY <1>3, Conversed
  <2> QED
    BY <1>2, <2>1
<1>4. ASSUME NEW a \in Said(roles, but)
      PROVE  \E i \in 1 .. Len(messages) : messages[i].role \in roles /\ a \in Of(messages[i])
  <2>1. PICK m \in ToSet(messages) : m.role \in roles /\ a \in Of(m)
    BY <1>2
  <2>2. DOMAIN messages = 1 .. Len(messages)
    BY LenProperties DEF ConversationInv
  <2> QED
    BY <2>1, <2>2 DEF ToSet
<1> QED
  BY <1>1, <1>3, <1>4

\* Of a message of texts, the texts are everything.
LEMMA TextOnly ==
    ASSUME NEW parts \in Seq(PartType), \A i \in 1 .. Len(parts) : parts[i].kind = "text"
    PROVE  MarksOf(parts, {"text"}) = MarksOf(parts, Kinds)
<1>1. "text" \in Kinds
  BY DEF Kinds
<1>2. ASSUME NEW a \in MarksOf(parts, {"text"}) PROVE a \in MarksOf(parts, Kinds)
  BY <1>1, InMarksOf
<1>3. ASSUME NEW a \in MarksOf(parts, Kinds) PROVE a \in MarksOf(parts, {"text"})
  <2>1. PICK i \in 1 .. Len(parts) : a = parts[i].mark /\ a # 0
    BY InMarksOf
  <2> QED
    BY <2>1, InMarksOf
<1> QED
  BY <1>2, <1>3

\* A history whose contents are those of messages, one after another.
LEMMA CarriesMessages ==
    ASSUME ConversationInv, NEW history, DOMAIN history = 1 .. Len(history),
           NEW from \in [1 .. Len(history) -> 1 .. Len(messages)],
           \A k, l \in 1 .. Len(history) : k < l => from[k] < from[l],
           \A k \in 1 .. Len(history) :
               /\ IsInjective(history[k])
               /\ ToSet(history[k]) = MarksOf(messages[from[k]].parts, Kinds),
           NEW expected,
           \A k \in 1 .. Len(history) : MarksOf(messages[from[k]].parts, Kinds) \subseteq expected,
           \A a \in expected : \E k \in 1 .. Len(history) :
               a \in MarksOf(messages[from[k]].parts, Kinds)
    PROVE  Carries(history, expected)
<1>1. UNION {ToSet(history[i]) : i \in DOMAIN history} = expected
  OBVIOUS
<1>2. ASSUME NEW i \in DOMAIN history, NEW j \in DOMAIN history, i < j,
             NEW a \in ToSet(history[i]), NEW b \in ToSet(history[j])
      PROVE  a < b
  <2>1. /\ from[i] \in 1 .. Len(messages) /\ from[j] \in 1 .. Len(messages) /\ from[i] < from[j]
        /\ a \in MarksOf(messages[from[i]].parts, Kinds)
        /\ b \in MarksOf(messages[from[j]].parts, Kinds)
    BY <1>2
  <2> QED
    BY <2>1, MarksAfter
<1> QED
  BY <1>1, <1>2 DEF Carries

\* The messages of some roles, and where they are from.
RolesChosen(roles, list, from) ==
    /\ from \in [1 .. Len(list) -> 1 .. Len(messages)]
    /\ \A k \in 1 .. Len(list) : list[k] = messages[from[k]] /\ messages[from[k]].role \in roles
    /\ \A k, l \in 1 .. Len(list) : k < l => from[k] < from[l]
    /\ \A i \in 1 .. Len(messages) : messages[i].role \in roles =>
          \E k \in 1 .. Len(list) : from[k] = i

\* The messages of some roles, with the places they come from.
LEMMA OfRoleChosen ==
    ASSUME ConversationInv, NEW roles
    PROVE  /\ OfRole(roles) \in Seq(MessageType)
           /\ \E from : RolesChosen(roles, OfRole(roles), from)
<1> DEFINE wanted == {m \in ToSet(messages) : m.role \in roles}
           kept == OfRole(roles)
<1>1. kept = Only(messages, wanted)
  BY DEF OfRole
<1>2. \A i \in 1 .. Len(messages) : messages[i] \in wanted <=> messages[i].role \in roles
  BY Conversed
<1> HIDE DEF wanted, kept
<1>3. messages \in Seq(MessageType)
  BY DEF ConversationInv
<1>4. PICK from : kept \in Seq(MessageType) /\ Chosen(messages, wanted, kept, from)
  BY <1>1, <1>3, OnlyChosen
<1>5. RolesChosen(roles, kept, from)
  BY <1>2, <1>4 DEF Chosen, RolesChosen
<1> QED
  BY <1>4, <1>5 DEF kept

\* The system text is all that the system messages say.
LEMMA SystemMarks ==
    ASSUME ConversationInv
    PROVE  SystemText \in Seq(Nat) /\ ToSet(SystemText) = Said({"system"}, "none")
<1> DEFINE systems == OfRole({"system"})
           seqs == [i \in 1 .. Len(systems) |-> Joined(systems[i].parts, "text")]
<1>1. SystemText = FlattenSeq(seqs)
  BY DEF SystemText
<1>2. PICK from : RolesChosen({"system"}, systems, from)
  BY OfRoleChosen
<1>3. Len(systems) \in Nat
  BY OfRoleChosen, LenProperties
<1> HIDE DEF systems
<1>4. /\ from \in [1 .. Len(systems) -> 1 .. Len(messages)]
      /\ \A k \in 1 .. Len(systems) :
            systems[k] = messages[from[k]] /\ messages[from[k]].role \in {"system"}
      /\ \A i \in 1 .. Len(messages) : messages[i].role \in {"system"} =>
            \E k \in 1 .. Len(systems) : from[k] = i
  BY <1>2 DEF RolesChosen
<1>5. \A k \in 1 .. Len(systems) :
         /\ seqs[k] \in Seq(Nat)
         /\ ToSet(seqs[k]) = MarksOf(messages[from[k]].parts, Kinds)
  <2> SUFFICES ASSUME NEW k \in 1 .. Len(systems)
               PROVE  /\ seqs[k] \in Seq(Nat)
                      /\ ToSet(seqs[k]) = MarksOf(messages[from[k]].parts, Kinds)
    OBVIOUS
  <2> DEFINE parts == messages[from[k]].parts
  <2>1. from[k] \in 1 .. Len(messages) /\ messages[from[k]].role = "system"
    BY <1>4
  <2>2. parts \in Seq(PartType) /\ Rising(parts) /\ \A i \in 1 .. Len(parts) : parts[i].kind = "text"
    BY <2>1, Conversed DEF Fits
  <2>3. seqs[k] = Joined(parts, "text")
    BY <1>4
  <2> HIDE DEF parts, seqs
  <2>4. seqs[k] \in Seq(Nat) /\ ToSet(seqs[k]) = MarksOf(parts, Kinds)
    BY <2>2, <2>3, JoinedMarks, TextOnly
  <2> QED
    BY <2>4 DEF parts
<1>6. seqs \in Seq(Seq(Nat)) /\ Len(seqs) = Len(systems)
  BY <1>3, <1>5
<1> HIDE DEF seqs
<1>7. SystemText \in Seq(Nat) /\ \E row, col : Placed(SystemText, seqs, Len(seqs), row, col)
  BY <1>1, <1>6, FlattenPlaces
<1>8. PICK row, col : Placed(SystemText, seqs, Len(seqs), row, col)
  BY <1>7
<1>9. DOMAIN SystemText = 1 .. Len(SystemText)
      /\ \A k \in 1 .. Len(systems) : DOMAIN seqs[k] = 1 .. Len(seqs[k])
  <2>1. DOMAIN SystemText = 1 .. Len(SystemText)
    BY <1>7, LenProperties
  <2>2. ASSUME NEW k \in 1 .. Len(systems) PROVE DOMAIN seqs[k] = 1 .. Len(seqs[k])
    <3>1. seqs[k] \in Seq(Nat)
      BY <1>5
    <3> QED
      BY <3>1, LenProperties
  <2> QED
    BY <2>1, <2>2
<1>10. "none" \notin Kinds /\ Kinds \ {"none"} = Kinds
  BY DEF Kinds
<1>11. ASSUME NEW k \in 1 .. Len(SystemText) PROVE SystemText[k] \in Said({"system"}, "none")
  <2>1. /\ row[k] \in 1 .. Len(systems) /\ col[k] \in DOMAIN seqs[row[k]]
        /\ SystemText[k] = seqs[row[k]][col[k]]
    <3>1. /\ row[k] \in 1 .. Len(seqs) /\ col[k] \in 1 .. Len(seqs[row[k]])
          /\ SystemText[k] = seqs[row[k]][col[k]]
      BY <1>8 DEF Placed
    <3>2. row[k] \in 1 .. Len(systems)
      BY <1>6, <3>1
    <3> QED
      BY <1>9, <3>1, <3>2
  <2>2. SystemText[k] \in MarksOf(messages[from[row[k]]].parts, Kinds)
    BY <1>5, <2>1 DEF ToSet
  <2>3. from[row[k]] \in 1 .. Len(messages) /\ messages[from[row[k]]].role \in {"system"}
    BY <1>4, <2>1
  <2> QED
    BY <1>10, <2>2, <2>3, SaidMarks
<1>12. ASSUME NEW a \in Said({"system"}, "none") PROVE \E k \in 1 .. Len(SystemText) : a = SystemText[k]
  <2>1. PICK i \in 1 .. Len(messages) :
           messages[i].role \in {"system"} /\ a \in MarksOf(messages[i].parts, Kinds)
    BY <1>10, SaidMarks
  <2>2. PICK j \in 1 .. Len(systems) : from[j] = i
    BY <1>4, <2>1
  <2>3. a \in ToSet(seqs[j])
    BY <1>5, <2>1, <2>2
  <2>4. PICK l \in 1 .. Len(seqs[j]) : a = seqs[j][l]
    BY <1>9, <2>3 DEF ToSet
  <2>5. PICK k \in 1 .. Len(SystemText) : row[k] = j /\ col[k] = l
    BY <1>6, <1>8, <2>4 DEF Placed
  <2>6. SystemText[k] = seqs[j][l]
    BY <1>8, <2>5 DEF Placed
  <2> QED
    BY <2>4, <2>6
<1> QED
  BY <1>7, <1>9, <1>11, <1>12 DEF ToSet

-----------------------------------------------------------------------------
(* Chat completions.                                                       *)

\* The turns of a conversation of texts.
LEMMA ChatTurnsChosen ==
    ASSUME ConversationInv, Chattable
    PROVE  /\ Len(ChatTurns) \in Nat \ {0} /\ DOMAIN ChatTurns = 1 .. Len(ChatTurns)
           /\ \E from \in [1 .. Len(ChatTurns) -> 1 .. Len(messages)] :
                 /\ \A k \in 1 .. Len(ChatTurns) :
                       /\ ChatTurns[k] = Turn(messages[from[k]].role, messages[from[k]].parts)
                       /\ ChatTurns[k].role = messages[from[k]].role
                       /\ messages[from[k]].role \in {"user", "assistant"}
                       /\ messages[from[k]].parts \in Seq(PartType) /\ Rising(messages[from[k]].parts)
                       /\ \A i \in 1 .. Len(messages[from[k]].parts) :
                             messages[from[k]].parts[i].kind = "text"
                 /\ \A k, l \in 1 .. Len(ChatTurns) : k < l => from[k] < from[l]
                 /\ \A i \in 1 .. Len(messages) : messages[i].role \in Turned =>
                       \E k \in 1 .. Len(ChatTurns) : from[k] = i
<1> DEFINE roles == {"user", "assistant"}
           list == OfRole(roles)
<1>1. ChatTurns = [i \in 1 .. Len(list) |-> Turn(list[i].role, list[i].parts)]
  BY DEF ChatTurns, Turns
<1>2. \A m \in ToSet(messages) :
         m.role # "tool" /\ \A p \in ToSet(m.parts) : p.kind = "text"
  BY DEF Chattable
<1>3. ChatTurns # <<>>
  BY DEF Chattable
<1>4. \A i \in 1 .. Len(messages) : messages[i].role \in Turned => messages[i].role \in roles
  <2> SUFFICES ASSUME NEW i \in 1 .. Len(messages), messages[i].role \in Turned
               PROVE  messages[i].role \in roles
    OBVIOUS
  <2>1. messages[i].role # "tool"
    BY <1>2, Conversed
  <2> QED
    BY <2>1 DEF Turned
<1> HIDE DEF roles
<1>5. list \in Seq(MessageType) /\ Len(list) \in Nat
  BY OfRoleChosen, LenProperties
<1>6. PICK from : RolesChosen(roles, list, from)
  BY OfRoleChosen
<1> HIDE DEF list
<1>7. /\ from \in [1 .. Len(list) -> 1 .. Len(messages)]
      /\ \A k \in 1 .. Len(list) :
            list[k] = messages[from[k]] /\ messages[from[k]].role \in roles
      /\ \A k, l \in 1 .. Len(list) : k < l => from[k] < from[l]
      /\ \A i \in 1 .. Len(messages) : messages[i].role \in roles =>
            \E k \in 1 .. Len(list) : from[k] = i
  BY <1>6 DEF RolesChosen
<1>8. Len(ChatTurns) = Len(list) /\ DOMAIN ChatTurns = 1 .. Len(list)
      /\ \A k \in 1 .. Len(list) :
            ChatTurns[k] = Turn(messages[from[k]].role, messages[from[k]].parts)
  BY <1>1, <1>5, <1>7
<1>9. Len(list) # 0
  <2> SUFFICES ASSUME Len(list) = 0 PROVE FALSE
    OBVIOUS
  <2>1. list = <<>>
    BY <1>5, EmptySeq
  <2> QED
    BY <1>1, <1>3, <1>5, <2>1
<1>10. ASSUME NEW k \in 1 .. Len(list)
       PROVE  /\ ChatTurns[k].role = messages[from[k]].role
              /\ messages[from[k]].role \in {"user", "assistant"}
              /\ messages[from[k]].parts \in Seq(PartType) /\ Rising(messages[from[k]].parts)
              /\ \A i \in 1 .. Len(messages[from[k]].parts) :
                    messages[from[k]].parts[i].kind = "text"
  <2>1. from[k] \in 1 .. Len(messages) /\ messages[from[k]].role \in roles
    BY <1>7
  <2>2. messages[from[k]].parts \in Seq(PartType) /\ Rising(messages[from[k]].parts)
        /\ messages[from[k]] \in ToSet(messages)
    BY <2>1, Conversed
  <2>3. DOMAIN messages[from[k]].parts = 1 .. Len(messages[from[k]].parts)
    BY <2>2, LenProperties
  <2>4. \A i \in 1 .. Len(messages[from[k]].parts) : messages[from[k]].parts[i].kind = "text"
    BY <1>2, <2>2, <2>3 DEF ToSet
  <2>5. ChatTurns[k].role = messages[from[k]].role
    BY <1>8 DEF Turn
  <2> QED
    BY <2>1, <2>2, <2>4, <2>5 DEF roles
<1>11. /\ from \in [1 .. Len(ChatTurns) -> 1 .. Len(messages)]
       /\ \A k \in 1 .. Len(ChatTurns) :
             /\ ChatTurns[k] = Turn(messages[from[k]].role, messages[from[k]].parts)
             /\ ChatTurns[k].role = messages[from[k]].role
             /\ messages[from[k]].role \in {"user", "assistant"}
             /\ messages[from[k]].parts \in Seq(PartType) /\ Rising(messages[from[k]].parts)
             /\ \A i \in 1 .. Len(messages[from[k]].parts) :
                   messages[from[k]].parts[i].kind = "text"
       /\ \A k, l \in 1 .. Len(ChatTurns) : k < l => from[k] < from[l]
  <2>1. Len(ChatTurns) = Len(list)
    BY <1>8
  <2>2. ASSUME NEW k \in 1 .. Len(list)
        PROVE  ChatTurns[k] = Turn(messages[from[k]].role, messages[from[k]].parts)
    BY <1>8
  <2> QED
    BY <1>7, <1>10, <2>1, <2>2
<1>12. ASSUME NEW i \in 1 .. Len(messages), messages[i].role \in Turned
       PROVE  \E k \in 1 .. Len(ChatTurns) : from[k] = i
  BY <1>4, <1>7, <1>8, <1>12
<1>13. Len(ChatTurns) \in Nat \ {0} /\ DOMAIN ChatTurns = 1 .. Len(ChatTurns)
  BY <1>5, <1>8, <1>9
<1> QED
  BY <1>11, <1>12, <1>13, Zenon

\* The elements before the last one.
LEMMA FrontOf ==
    ASSUME NEW s, Len(s) \in Nat \ {0}, DOMAIN s = 1 .. Len(s)
    PROVE  /\ Len(Front(s)) = Len(s) - 1 /\ DOMAIN Front(s) = 1 .. Len(s) - 1
           /\ \A i \in 1 .. Len(s) - 1 : Front(s)[i] = s[i]
<1> DEFINE S == {s[i] : i \in 1 .. Len(s)}
           m == Len(s) - 1
<1>1. m \in Nat /\ \A i \in 1 .. m : s[i] \in S
  OBVIOUS
<1> HIDE DEF S
<1>2. /\ SubSeq(s, 1, m) \in Seq(S)
      /\ Len(SubSeq(s, 1, m)) = (IF 1 <= m THEN m - 1 + 1 ELSE 0)
      /\ \A i \in 1 .. m - 1 + 1 : SubSeq(s, 1, m)[i] = s[1 + i - 1]
  BY <1>1, SubSeqProperties
<1>3. DOMAIN SubSeq(s, 1, m) = 1 .. Len(SubSeq(s, 1, m))
  BY <1>2, LenProperties
<1>4. Front(s) = SubSeq(s, 1, m)
  BY DEF Front
<1> HIDE DEF m
<1>5. /\ Len(Front(s)) = m /\ DOMAIN Front(s) = 1 .. m
      /\ \A i \in 1 .. m : Front(s)[i] = s[i]
  <2>1. Len(SubSeq(s, 1, m)) = m
    BY <1>1, <1>2
  <2>2. \A i \in 1 .. m : i \in 1 .. m - 1 + 1 /\ 1 + i - 1 = i
    BY <1>1
  <2> QED
    BY <1>2, <1>3, <1>4, <2>1, <2>2
<1> QED
  BY <1>5 DEF m

\* Chat completions: every turn has the marks of its message, and the last one goes
\* to the prompt with the system text.
LEMMA ChatIsFaithful ==
    ASSUME ConversationInv
    PROVE  ChatFaithful
<1> SUFFICES ASSUME Chattable
             PROVE  LET asked == ToSet(Last(ChatTurns).text)
                    IN  /\ Carries(Chat.history, Said(Turned, "none") \ asked)
                        /\ ToSet(Chat.prompt) = Said({"system"}, "none") \union asked
  BY DEF ChatFaithful
<1> DEFINE asked == ToSet(Last(ChatTurns).text)
           n == Len(ChatTurns)
           history == Chat.history
           expected == Said(Turned, "none") \ asked
           Of(i) == MarksOf(messages[i].parts, Kinds)
<1>1. n \in Nat \ {0} /\ DOMAIN ChatTurns = 1 .. n
  BY ChatTurnsChosen
<1>2. PICK from \in [1 .. n -> 1 .. Len(messages)] :
         /\ \A k \in 1 .. n :
               /\ ChatTurns[k] = Turn(messages[from[k]].role, messages[from[k]].parts)
               /\ ChatTurns[k].role = messages[from[k]].role
               /\ messages[from[k]].role \in {"user", "assistant"}
               /\ messages[from[k]].parts \in Seq(PartType) /\ Rising(messages[from[k]].parts)
               /\ \A i \in 1 .. Len(messages[from[k]].parts) :
                     messages[from[k]].parts[i].kind = "text"
         /\ \A k, l \in 1 .. n : k < l => from[k] < from[l]
         /\ \A i \in 1 .. Len(messages) : messages[i].role \in Turned =>
               \E k \in 1 .. n : from[k] = i
  BY ChatTurnsChosen
<1>3. Last(ChatTurns) = ChatTurns[n] /\ n \in 1 .. n
  BY <1>1 DEF Last
<1>4. Last(ChatTurns).text \in Seq(Nat) /\ asked = Of(from[n])
  <2> DEFINE parts == messages[from[n]].parts
  <2>1. Last(ChatTurns).text = Joined(parts, "text")
    <3>1. Last(ChatTurns) = Turn(messages[from[n]].role, parts)
      BY <1>2, <1>3
    <3> QED
      BY <3>1 DEF Turn
  <2>2. parts \in Seq(PartType) /\ Rising(parts) /\ \A i \in 1 .. Len(parts) : parts[i].kind = "text"
    BY <1>2, <1>3
  <2> HIDE DEF parts
  <2>3. Joined(parts, "text") \in Seq(Nat) /\ ToSet(Joined(parts, "text")) = MarksOf(parts, Kinds)
    BY <2>2, JoinedMarks, TextOnly
  <2> QED
    BY <2>1, <2>3 DEF parts
<1>5. /\ Len(history) = n - 1 /\ DOMAIN history = 1 .. n - 1
      /\ \A k \in 1 .. n - 1 : history[k] = Content(ChatTurns[k])
  <2>1. /\ Len(Front(ChatTurns)) = n - 1
        /\ \A i \in 1 .. n - 1 : Front(ChatTurns)[i] = ChatTurns[i]
    BY <1>1, FrontOf
  <2>2. history = [i \in 1 .. Len(Front(ChatTurns)) |-> Content(Front(ChatTurns)[i])]
    BY DEF Chat, Mapped, History
  <2> HIDE DEF n, history
  <2>3. history = [i \in 1 .. n - 1 |-> Content(ChatTurns[i])] /\ n - 1 \in Nat
    BY <1>1, <2>1, <2>2
  <2> QED
    BY <2>3
<1> HIDE DEF n, history, asked
<1>6. ASSUME NEW k \in 1 .. n - 1
      PROVE  /\ IsInjective(history[k]) /\ ToSet(history[k]) = Of(from[k])
             /\ k \in 1 .. n
  <2> DEFINE parts == messages[from[k]].parts
             role == messages[from[k]].role
  <2>1. k \in 1 .. n
    BY <1>1
  <2>2. parts \in Seq(PartType) /\ Rising(parts) /\ \A i \in 1 .. Len(parts) : parts[i].kind # "result"
    BY <1>2, <2>1
  <2>3. history[k] = Content(Turn(role, parts))
    BY <1>2, <1>5, <2>1
  <2> HIDE DEF parts, role
  <2>4. /\ IsInjective(Content(Turn(role, parts)))
        /\ ToSet(Content(Turn(role, parts))) = MarksOf(parts, Kinds)
    BY <2>2, ContentMarks
  <2> QED
    BY <2>1, <2>3, <2>4 DEF parts
<1>7. Kinds \ {"none"} = Kinds /\ {"user", "assistant"} \subseteq Turned
  BY DEF Kinds, Turned
<1>8. ASSUME NEW k \in 1 .. n - 1 PROVE Of(from[k]) \subseteq expected
  <2>1. k \in 1 .. n /\ k < n /\ from[k] \in 1 .. Len(messages) /\ from[n] \in 1 .. Len(messages)
        /\ from[k] < from[n]
    BY <1>1, <1>2, <1>3
  <2>2. Of(from[k]) \subseteq Said(Turned, "none")
    <3>1. messages[from[k]].role \in Turned
      BY <1>2, <1>7, <2>1
    <3> QED
      BY <1>7, <2>1, <3>1, SaidMarks
  <2>3. ASSUME NEW a \in Of(from[k]), a \in Of(from[n]) PROVE FALSE
    <3>1. a < a
      BY <2>1, <2>3, MarksAfter
    <3>2. a \in Nat
      <4>1. messages[from[k]].parts \in Seq(PartType)
        BY <1>2, <2>1
      <4> QED
        BY <4>1, MarksNat
    <3> QED
      BY <3>1, <3>2
  <2> QED
    BY <1>4, <2>2, <2>3
<1>9. ASSUME NEW a \in expected PROVE \E k \in 1 .. n - 1 : a \in Of(from[k])
  <2>1. PICK i \in 1 .. Len(messages) : messages[i].role \in Turned /\ a \in Of(i)
    BY <1>7, SaidMarks
  <2>2. PICK k \in 1 .. n : from[k] = i
    BY <1>2, <2>1
  <2>3. k # n
    BY <1>4, <2>1, <2>2
  <2> QED
    BY <1>1, <2>1, <2>2, <2>3
<1>10. Carries(history, expected)
  <2> DEFINE f == [k \in 1 .. n - 1 |-> from[k]]
  <2>1. f \in [1 .. Len(history) -> 1 .. Len(messages)]
    BY <1>1, <1>2, <1>5
  <2>2. \A k \in 1 .. Len(history) : f[k] = from[k] /\ k \in 1 .. n
    BY <1>1, <1>5
  <2> HIDE DEF f, expected
  <2>3. \A k, l \in 1 .. Len(history) : k < l => f[k] < f[l]
    BY <1>2, <2>2
  <2>4. DOMAIN history = 1 .. Len(history)
    BY <1>5
  <2>5. \A k \in 1 .. Len(history) :
           /\ IsInjective(history[k])
           /\ ToSet(history[k]) = MarksOf(messages[f[k]].parts, Kinds)
    BY <1>5, <1>6, <2>2
  <2>6. \A k \in 1 .. Len(history) : MarksOf(messages[f[k]].parts, Kinds) \subseteq expected
    BY <1>5, <1>8, <2>2
  <2>7. \A a \in expected : \E k \in 1 .. Len(history) :
           a \in MarksOf(messages[f[k]].parts, Kinds)
    BY <1>5, <1>9, <2>2
  <2> QED
    BY <2>1, <2>3, <2>4, <2>5, <2>6, <2>7, CarriesMessages
<1>11. ToSet(Chat.prompt) = Said({"system"}, "none") \union asked
  <2>1. Chat.prompt = SystemText \o Last(ChatTurns).text
    BY DEF Chat, Mapped
  <2>2. ToSet(SystemText \o Last(ChatTurns).text) = ToSet(SystemText) \union ToSet(Last(ChatTurns).text)
    BY <1>4, SystemMarks, SetOfConcat
  <2> QED
    BY <2>1, <2>2, SystemMarks DEF asked
<1> QED
  BY <1>10, <1>11 DEF asked, history

-----------------------------------------------------------------------------
(* Pi.                                                                     *)

LEMMA PiContentMarks ==
    ASSUME ConversationInv, NEW i \in 1 .. Len(messages)
    PROVE  /\ IsInjective(PiContent(messages[i]))
           /\ ToSet(PiContent(messages[i])) = MarksOf(messages[i].parts, Kinds)
<1> DEFINE parts == messages[i].parts
           role == messages[i].role
<1>1. parts \in Seq(PartType) /\ Rising(parts) /\ Fits(role, parts) /\ role \in Roles
  BY Conversed
<1>2. CASE role = "tool"
  <2>1. PiContent(messages[i]) = Marks(parts)
    BY <1>2 DEF PiContent
  <2> HIDE DEF parts, role
  <2>2. Len(parts) \in Nat /\ \A j \in 1 .. Len(parts) :
           parts[j].mark \in Nat /\ parts[j].mark # 0 /\ parts[j].kind \in Kinds
    <3>1. Len(parts) \in Nat /\ \A j \in 1 .. Len(parts) : parts[j].mark \in Nat /\ parts[j].kind \in Kinds
      BY <1>1, LenProperties, PartTyped
    <3>2. \A j \in 1 .. Len(parts) : parts[j].kind = "result" /\ (parts[j].kind # "text" => parts[j].mark # 0)
      BY <1>1, <1>2 DEF Fits
    <3> QED
      BY <3>1, <3>2
  <2> DEFINE r == Marks(parts)
  <2>3. r \in Seq(Nat) /\ Len(r) = Len(parts) /\ DOMAIN r = 1 .. Len(parts)
        /\ \A j \in 1 .. Len(parts) : r[j] = parts[j].mark
    BY <2>2 DEF Marks
  <2> HIDE DEF r
  <2>4. Ascends(r)
    BY <1>1, <2>2, <2>3 DEF Ascends, Rising
  <2>5. ToSet(r) = MarksOf(parts, Kinds)
    <3>1. ASSUME NEW a \in ToSet(r) PROVE a \in MarksOf(parts, Kinds)
      <4>1. PICK j \in 1 .. Len(parts) : a = parts[j].mark
        BY <2>3 DEF ToSet
      <4> QED
        BY <1>1, <2>2, <4>1, InMarksOf
    <3>2. ASSUME NEW a \in MarksOf(parts, Kinds) PROVE a \in ToSet(r)
      <4>1. PICK j \in 1 .. Len(parts) : a = parts[j].mark
        BY <1>1, InMarksOf
      <4> QED
        BY <2>3, <4>1 DEF ToSet
    <3> QED
      BY <3>1, <3>2
  <2> QED
    BY <2>1, <2>3, <2>4, <2>5, AscendsInjective DEF r, parts
<1>3. CASE role # "tool"
  <2>1. PiContent(messages[i]) = Content(Turn(role, parts))
    BY <1>3 DEF PiContent
  <2> HIDE DEF parts, role
  <2>2. \A j \in 1 .. Len(parts) : parts[j].kind # "result"
    BY <1>1, <1>3 DEF Fits, Roles
  <2>3. /\ IsInjective(Content(Turn(role, parts)))
        /\ ToSet(Content(Turn(role, parts))) = MarksOf(parts, Kinds)
    BY <1>1, <2>2, ContentMarks
  <2> QED
    BY <2>1, <2>3 DEF parts
<1> QED
  BY <1>2, <1>3

\* The latest user message is one.
LEMMA LastUserIs ==
    ASSUME ConversationInv
    PROVE  LastUser = 0 \/ (LastUser \in 1 .. Len(messages) /\ messages[LastUser].role = "user")
<1> SUFFICES ASSUME UserIndices # {}
             PROVE  LastUser \in 1 .. Len(messages) /\ messages[LastUser].role = "user"
  BY DEF LastUser
<1>1. Len(messages) \in Nat
  BY LenProperties DEF ConversationInv
<1> DEFINE BehindLast == {Len(messages) - i : i \in UserIndices}
<1>2. BehindLast \subseteq Nat /\ BehindLast # {}
  BY <1>1 DEF UserIndices
<1>3. PICK b \in BehindLast : \A c \in BehindLast : b <= c
  <2> HIDE DEF BehindLast
  <2> QED
    BY <1>2, Least
<1>4. PICK i \in UserIndices : b = Len(messages) - i
  BY <1>3
<1>5. ASSUME NEW j \in UserIndices PROVE j <= i
  <2>1. b <= Len(messages) - j
    BY <1>3
  <2>2. i \in Nat /\ j \in Nat
    BY DEF UserIndices
  <2> QED
    BY <1>1, <1>4, <2>1, <2>2
<1>6. LastUser \in UserIndices
  BY <1>4, <1>5 DEF LastUser
<1> QED
  BY <1>6 DEF UserIndices

\* Pi: every message but the latest question is in the history, in its order.
LEMMA PiIsFaithful ==
    ASSUME ConversationInv
    PROVE  PiFaithful
<1> DEFINE n == Len(messages)
           kept == {i \in 1 .. n : i # LastUser /\ messages[i].role # "system"}
           all == [i \in 1 .. n |-> i]
           others == Only(all, kept)
           history == Pi.history
           asked == ToSet(Pi.prompt)
           expected == Said(Turned, "none") \ asked
           Of(i) == MarksOf(messages[i].parts, Kinds)
<1>1. n \in Nat /\ all \in Seq(Nat) /\ Len(all) = n /\ \A i \in 1 .. n : all[i] = i
  <2>1. n \in Nat
    BY LenProperties DEF ConversationInv
  <2> QED
    BY <2>1
<1>2. history = [i \in 1 .. Len(others) |-> PiContent(messages[others[i]])]
  BY DEF Pi, PiHistory
<1> HIDE DEF all, kept
<1>3. others \in Seq(Nat) /\ \E from : Chosen(all, kept, others, from)
  BY <1>1, OnlyChosen
<1> HIDE DEF others
<1>4. PICK from : Chosen(all, kept, others, from)
  BY <1>3
<1>5. Len(others) \in Nat
  BY <1>3, LenProperties
<1>6. /\ from \in [1 .. Len(others) -> 1 .. n]
      /\ \A k \in 1 .. Len(others) : others[k] = from[k] /\ from[k] \in kept
      /\ \A k, l \in 1 .. Len(others) : k < l => from[k] < from[l]
      /\ \A i \in kept : \E k \in 1 .. Len(others) : from[k] = i
  BY <1>1, <1>4 DEF Chosen, kept
<1>7. Len(history) = Len(others) /\ DOMAIN history = 1 .. Len(others)
      /\ \A k \in 1 .. Len(others) : history[k] = PiContent(messages[from[k]])
  BY <1>2, <1>5, <1>6
<1> HIDE DEF history
<1>8. Kinds \ {"none"} = Kinds
  BY DEF Kinds
<1>9. LastUser # 0 => /\ LastUser \in 1 .. n /\ asked = Of(LastUser)
  <2> SUFFICES ASSUME LastUser # 0 PROVE LastUser \in 1 .. n /\ asked = Of(LastUser)
    OBVIOUS
  <2> DEFINE parts == messages[LastUser].parts
  <2>1. LastUser \in 1 .. n /\ messages[LastUser].role = "user"
    BY LastUserIs
  <2>2. parts \in Seq(PartType) /\ Rising(parts) /\ \A i \in 1 .. Len(parts) : parts[i].kind = "text"
    BY <2>1, Conversed DEF Fits
  <2>3. Pi.prompt = Joined(parts, "text")
    BY DEF Pi
  <2> HIDE DEF parts
  <2>4. ToSet(Pi.prompt) = MarksOf(parts, Kinds)
    BY <2>2, <2>3, JoinedMarks, TextOnly
  <2> QED
    BY <2>1, <2>4 DEF parts
<1>10. LastUser = 0 => asked = {}
  BY DEF Pi, ToSet
<1> HIDE DEF asked
<1>11. ASSUME NEW i \in 1 .. n, NEW j \in 1 .. n, i # j, NEW a \in Of(i), a \in Of(j) PROVE FALSE
  <2>1. i < j \/ j < i
    BY <1>11
  <2>2. a < a
    BY <1>11, <2>1, MarksAfter
  <2>3. a \in Nat
    <3>1. messages[i].parts \in Seq(PartType)
      BY Conversed
    <3> QED
      BY <3>1, MarksNat
  <2> QED
    BY <2>2, <2>3
<1>12. ASSUME NEW k \in 1 .. Len(others)
       PROVE  from[k] \in 1 .. n /\ Of(from[k]) \subseteq expected
  <2>1. from[k] \in 1 .. n /\ from[k] # LastUser /\ messages[from[k]].role # "system"
    BY <1>6 DEF kept
  <2>2. messages[from[k]].role \in Turned
    BY <2>1, Conversed DEF Roles, Turned
  <2>3. Of(from[k]) \subseteq Said(Turned, "none")
    BY <1>8, <2>1, <2>2, SaidMarks
  <2>4. ASSUME NEW a \in Of(from[k]), a \in asked PROVE FALSE
    <3>1. LastUser # 0
      BY <1>10, <2>4
    <3> QED
      BY <1>9, <1>11, <2>1, <2>4, <3>1
  <2> QED
    BY <2>1, <2>3, <2>4
<1>13. ASSUME NEW a \in expected PROVE \E k \in 1 .. Len(others) : a \in Of(from[k])
  <2>1. PICK i \in 1 .. n : messages[i].role \in Turned /\ a \in Of(i)
    BY <1>8, SaidMarks
  <2>2. i # LastUser
    BY <1>9, <1>13, <2>1
  <2>3. i \in kept
    BY <2>1, <2>2 DEF kept, Turned
  <2> QED
    BY <1>6, <2>1, <2>3
<1>14. Carries(history, expected)
  <2> HIDE DEF expected
  <2>1. from \in [1 .. Len(history) -> 1 .. Len(messages)]
    BY <1>6, <1>7
  <2>2. \A k \in 1 .. Len(history) :
           /\ IsInjective(history[k])
           /\ ToSet(history[k]) = MarksOf(messages[from[k]].parts, Kinds)
    BY <1>7, <1>12, PiContentMarks
  <2>3. /\ DOMAIN history = 1 .. Len(history)
        /\ \A k, l \in 1 .. Len(history) : k < l => from[k] < from[l]
        /\ \A k \in 1 .. Len(history) : MarksOf(messages[from[k]].parts, Kinds) \subseteq expected
        /\ \A a \in expected : \E k \in 1 .. Len(history) :
              a \in MarksOf(messages[from[k]].parts, Kinds)
    BY <1>6, <1>7, <1>12, <1>13
  <2> QED
    BY <2>1, <2>2, <2>3, CarriesMessages
<1> QED
  BY <1>14 DEF PiFaithful, history, asked

-----------------------------------------------------------------------------
(* OpenCode.                                                               *)

ItemType == {"user", "assistant", "tool"} \X Seq(PartType)

ItemMarks(item) == MarksOf(item[2], Kinds)

\* What the parts of an item may be.
Well(item) ==
    /\ item[1] \in {"user", "assistant", "tool"} /\ item[2] \in Seq(PartType) /\ Rising(item[2])
    /\ item[1] = "user" => \A i \in 1 .. Len(item[2]) : item[2][i].kind = "text"
    /\ item[1] = "assistant" => \A i \in 1 .. Len(item[2]) : item[2][i].kind \in {"text", "call"}
    /\ item[1] = "tool" => Len(item[2]) = 1 /\ item[2][1].mark # 0 /\ item[2][1].kind = "result"

\* Items one after another.
InLine(items) ==
    /\ items \in Seq(ItemType)
    /\ \A k \in 1 .. Len(items) : Well(items[k])
    /\ \A k, l \in 1 .. Len(items) : k < l =>
          \A a \in ItemMarks(items[k]), b \in ItemMarks(items[l]) : a < b

MarksOfAll(items) == UNION {ItemMarks(items[k]) : k \in 1 .. Len(items)}

\* A single item is in line.
LEMMA OneItem ==
    ASSUME NEW item \in ItemType, Well(item)
    PROVE  InLine(<< item >>) /\ MarksOfAll(<< item >>) = ItemMarks(item)
<1> DEFINE items == << item >>
<1>1. items \in Seq(ItemType) /\ Len(items) = 1 /\ items[1] = item
  OBVIOUS
<1> HIDE DEF items
<1>2. \A k \in 1 .. Len(items) : k = 1
  BY <1>1
<1>3. InLine(items)
  BY <1>1, <1>2 DEF InLine
<1>4. MarksOfAll(items) = ItemMarks(item)
  <2>1. 1 \in 1 .. Len(items)
    BY <1>1
  <2> QED
    BY <1>1, <1>2, <2>1 DEF MarksOfAll
<1> QED
  BY <1>3, <1>4 DEF items

\* No item at all.
LEMMA NoItem == InLine(<<>>) /\ MarksOfAll(<<>>) = {}
<1>1. <<>> \in Seq(ItemType) /\ Len(<<>>) = 0 /\ 1 .. 0 = {}
  BY EmptySeq
<1> QED
  BY <1>1 DEF InLine, MarksOfAll

\* When every marked part is of some kinds, these kinds are everything.
LEMMA MarksWithin ==
    ASSUME NEW parts \in Seq(PartType), NEW kinds,
           \A i \in 1 .. Len(parts) : parts[i].mark # 0 => parts[i].kind \in kinds
    PROVE  MarksOf(parts, kinds) = MarksOf(parts, Kinds)
<1>1. ASSUME NEW a \in MarksOf(parts, kinds) PROVE a \in MarksOf(parts, Kinds)
  <2>1. PICK i \in 1 .. Len(parts) : a = parts[i].mark /\ a # 0
    BY InMarksOf
  <2> QED
    BY <2>1, InMarksOf, PartTyped
<1>2. ASSUME NEW a \in MarksOf(parts, Kinds) PROVE a \in MarksOf(parts, kinds)
  <2>1. PICK i \in 1 .. Len(parts) : a = parts[i].mark /\ a # 0
    BY InMarksOf
  <2> QED
    BY <2>1, InMarksOf
<1> QED
  BY <1>1, <1>2

\* A message that is not the system's becomes items with its marks, its
\* reasoning left out.
LEMMA UserItems ==
    ASSUME ConversationInv, NEW i \in 1 .. Len(messages), messages[i].role = "user"
    PROVE  /\ InLine(Items(messages[i]))
           /\ MarksOfAll(Items(messages[i])) = MarksOf(messages[i].parts, Kinds \ {"reasoning"})
<1> DEFINE parts == messages[i].parts
           item == <<"user", parts>>
<1>1. Items(messages[i]) = << item >>
  BY DEF Items
<1>2. parts \in Seq(PartType) /\ Rising(parts) /\ \A j \in 1 .. Len(parts) : parts[j].kind = "text"
  BY Conversed DEF Fits
<1> HIDE DEF parts
<1>3. item \in ItemType /\ item[1] = "user" /\ item[2] = parts
  BY <1>2 DEF ItemType
<1> HIDE DEF item
<1>4. Well(item)
  BY <1>2, <1>3 DEF Well
<1>5. "text" \in Kinds \ {"reasoning"}
  BY DEF Kinds
<1>6. MarksOf(parts, Kinds \ {"reasoning"}) = MarksOf(parts, Kinds)
  BY <1>2, <1>5, MarksWithin
<1>7. InLine(<< item >>) /\ MarksOfAll(<< item >>) = ItemMarks(item)
  BY <1>3, <1>4, OneItem
<1> QED
  BY <1>1, <1>3, <1>6, <1>7 DEF ItemMarks, parts

\* A tool message gives one item for each result,
LEMMA ToolItems ==
    ASSUME ConversationInv, NEW i \in 1 .. Len(messages), messages[i].role = "tool"
    PROVE  /\ InLine(Items(messages[i]))
           /\ MarksOfAll(Items(messages[i])) = MarksOf(messages[i].parts, Kinds \ {"reasoning"})
<1> DEFINE parts == messages[i].parts
           items == [j \in 1 .. Len(parts) |-> <<"tool", << parts[j] >> >>]
<1>1. Items(messages[i]) = items
  BY DEF Items
<1>2. /\ parts \in Seq(PartType) /\ Rising(parts) /\ Len(parts) \in Nat
      /\ \A j \in 1 .. Len(parts) : /\ parts[j] \in PartType /\ parts[j].mark \in Nat
                                    /\ parts[j].kind = "result" /\ parts[j].mark # 0
  <2>1. parts \in Seq(PartType) /\ Rising(parts) /\ Fits("tool", parts)
    BY Conversed
  <2> HIDE DEF parts
  <2>2. \A j \in 1 .. Len(parts) : parts[j].kind = "result" /\ (parts[j].kind # "text" => parts[j].mark # 0)
    BY <2>1 DEF Fits
  <2>3. Len(parts) \in Nat /\ \A j \in 1 .. Len(parts) : parts[j] \in PartType /\ parts[j].mark \in Nat
    BY <2>1, LenProperties, PartTyped
  <2> QED
    BY <2>1, <2>2, <2>3
<1> HIDE DEF parts
<1>3. ASSUME NEW j \in 1 .. Len(parts)
      PROVE  /\ items[j] \in ItemType /\ items[j][1] = "tool"
             /\ items[j][2] \in Seq(PartType) /\ Len(items[j][2]) = 1 /\ items[j][2][1] = parts[j]
  <2> DEFINE one == << parts[j] >>
  <2>1. one \in Seq(PartType) /\ Len(one) = 1 /\ one[1] = parts[j]
    BY <1>2
  <2>2. items[j] = <<"tool", one>>
    OBVIOUS
  <2> HIDE DEF one, items
  <2>3. items[j] \in ItemType /\ items[j][1] = "tool" /\ items[j][2] = one
    BY <2>1, <2>2 DEF ItemType
  <2> QED
    BY <2>1, <2>3
<1>4. items \in Seq(ItemType) /\ Len(items) = Len(parts)
  <2> DEFINE value(j) == <<"tool", << parts[j] >> >>
  <2>1. \A j \in 1 .. Len(parts) : value(j) \in ItemType
    BY <1>3
  <2>2. items = [j \in 1 .. Len(parts) |-> value(j)]
    OBVIOUS
  <2> HIDE DEF value, items
  <2> QED
    BY <1>2, <2>1, <2>2
<1> HIDE DEF items
<1>5. ASSUME NEW j \in 1 .. Len(parts) PROVE Well(items[j]) /\ ItemMarks(items[j]) = {parts[j].mark}
  <2> DEFINE one == items[j][2]
  <2>1. one \in Seq(PartType) /\ Len(one) = 1 /\ one[1] = parts[j] /\ items[j][1] = "tool"
    BY <1>3
  <2> HIDE DEF one
  <2>2. \A k \in 1 .. Len(one) : k = 1
    BY <2>1
  <2>3. Rising(one)
    BY <2>1, <2>2 DEF Rising
  <2>4. Well(items[j])
    BY <1>2, <2>1, <2>3 DEF Well, one
  <2>5. parts[j].kind \in Kinds /\ parts[j].mark # 0
    BY <1>2 DEF Kinds
  <2>6. MarksOf(one, Kinds) = {parts[j].mark}
    <3>1. 1 \in 1 .. Len(one)
      BY <2>1
    <3>2. parts[j].mark \in MarksOf(one, Kinds)
      BY <2>1, <2>5, <3>1, InMarksOf
    <3>3. \A a \in MarksOf(one, Kinds) : a = parts[j].mark
      BY <2>1, <2>2, InMarksOf
    <3> QED
      BY <3>2, <3>3
  <2> QED
    BY <2>4, <2>6 DEF ItemMarks, one
<1>6. InLine(items)
  <2>1. ASSUME NEW k \in 1 .. Len(items), NEW l \in 1 .. Len(items), k < l,
               NEW a \in ItemMarks(items[k]), NEW b \in ItemMarks(items[l])
        PROVE  a < b
    <3>1. a = parts[k].mark /\ b = parts[l].mark
      BY <1>4, <1>5
    <3>2. k \in 1 .. Len(parts) /\ l \in 1 .. Len(parts)
      BY <1>4
    <3> QED
      BY <1>2, <2>1, <3>1, <3>2 DEF Rising
  <2> QED
    BY <1>4, <1>5, <2>1 DEF InLine
<1>7. "result" \in Kinds \ {"reasoning"}
  BY DEF Kinds
<1>8. MarksOfAll(items) = MarksOf(parts, Kinds \ {"reasoning"})
  <2>1. ASSUME NEW a \in MarksOfAll(items) PROVE a \in MarksOf(parts, Kinds \ {"reasoning"})
    <3>1. PICK k \in 1 .. Len(items) : a \in ItemMarks(items[k])
      BY DEF MarksOfAll
    <3>2. k \in 1 .. Len(parts) /\ a = parts[k].mark
      BY <1>4, <1>5, <3>1
    <3> QED
      BY <1>2, <1>7, <3>2, InMarksOf
  <2>2. ASSUME NEW a \in MarksOf(parts, Kinds \ {"reasoning"}) PROVE a \in MarksOfAll(items)
    <3>1. PICK k \in 1 .. Len(parts) : a = parts[k].mark
      BY <1>2, InMarksOf
    <3>2. k \in 1 .. Len(items) /\ a \in ItemMarks(items[k])
      BY <1>4, <1>5, <3>1
    <3> QED
      BY <3>2 DEF MarksOfAll
  <2> QED
    BY <2>1, <2>2
<1> QED
  BY <1>1, <1>6, <1>8 DEF parts

\* an assistant message one item without its reasoning.
LEMMA AssistantItems ==
    ASSUME ConversationInv, NEW i \in 1 .. Len(messages), messages[i].role = "assistant"
    PROVE  /\ InLine(Items(messages[i]))
           /\ MarksOfAll(Items(messages[i])) = MarksOf(messages[i].parts, Kinds \ {"reasoning"})
<1> DEFINE parts == messages[i].parts
           wanted == {p \in ToSet(parts) : p.kind # "reasoning" /\ p.mark # 0}
           kept == Only(parts, wanted)
           item == <<"assistant", kept>>
<1>1. Items(messages[i]) = IF kept = <<>> THEN <<>> ELSE << item >>
  BY DEF Items
<1>2. parts \in Seq(PartType) /\ Rising(parts) /\ Fits("assistant", parts)
  BY Conversed
<1> HIDE DEF parts
<1>3. \A j \in 1 .. Len(parts) :
         /\ parts[j] \in wanted <=> parts[j].kind # "reasoning" /\ parts[j].mark # 0
         /\ parts[j].kind \in Kinds /\ parts[j].kind # "result" /\ parts[j].mark \in Nat
  <2>1. DOMAIN parts = 1 .. Len(parts)
    BY <1>2, LenProperties
  <2>2. \A j \in 1 .. Len(parts) : parts[j] \in wanted <=> parts[j].kind # "reasoning" /\ parts[j].mark # 0
    BY <2>1 DEF ToSet
  <2>3. \A j \in 1 .. Len(parts) :
           parts[j].kind \in Kinds /\ parts[j].kind # "result" /\ parts[j].mark \in Nat
    BY <1>2, PartTyped DEF Fits
  <2> QED
    BY <2>2, <2>3
<1> HIDE DEF wanted
<1>4. kept \in Seq(PartType) /\ \E from : Chosen(parts, wanted, kept, from)
  BY <1>2, OnlyChosen
<1> HIDE DEF kept
<1>5. PICK from : Chosen(parts, wanted, kept, from)
  BY <1>4
<1>6. \A k \in 1 .. Len(kept) :
         /\ from[k] \in 1 .. Len(parts) /\ kept[k] = parts[from[k]]
         /\ kept[k].kind \in {"text", "call"} /\ kept[k].mark # 0
  <2> SUFFICES ASSUME NEW k \in 1 .. Len(kept)
               PROVE  /\ from[k] \in 1 .. Len(parts) /\ kept[k] = parts[from[k]]
                      /\ kept[k].kind \in {"text", "call"} /\ kept[k].mark # 0
    OBVIOUS
  <2>1. from[k] \in 1 .. Len(parts) /\ kept[k] = parts[from[k]] /\ parts[from[k]] \in wanted
    BY <1>5 DEF Chosen
  <2> QED
    BY <1>3, <2>1 DEF Kinds
<1>7. Rising(kept)
  <2> SUFFICES ASSUME NEW k \in 1 .. Len(kept), NEW l \in 1 .. Len(kept), k < l
               PROVE  kept[k].mark < kept[l].mark
    BY DEF Rising
  <2>1. from[k] < from[l]
    BY <1>5 DEF Chosen
  <2> QED
    BY <1>2, <1>6, <2>1 DEF Rising
<1>8. MarksOf(kept, Kinds) = MarksOf(parts, Kinds \ {"reasoning"})
  <2>1. ASSUME NEW a \in MarksOf(kept, Kinds) PROVE a \in MarksOf(parts, Kinds \ {"reasoning"})
    <3>1. PICK k \in 1 .. Len(kept) : a = kept[k].mark /\ a # 0
      BY <1>4, InMarksOf
    <3>2. parts[from[k]].kind \in Kinds \ {"reasoning"} /\ a = parts[from[k]].mark
      BY <1>6, <3>1 DEF Kinds
    <3> QED
      BY <1>2, <1>6, <3>1, <3>2, InMarksOf
  <2>2. ASSUME NEW a \in MarksOf(parts, Kinds \ {"reasoning"}) PROVE a \in MarksOf(kept, Kinds)
    <3>1. PICK j \in 1 .. Len(parts) :
             a = parts[j].mark /\ parts[j].kind \in Kinds \ {"reasoning"} /\ a # 0
      BY <1>2, InMarksOf
    <3>2. parts[j] \in wanted
      BY <1>3, <3>1
    <3>3. PICK k \in 1 .. Len(kept) : from[k] = j
      BY <1>5, <3>2 DEF Chosen
    <3>4. kept[k].mark = a /\ kept[k].kind \in Kinds
      BY <1>6, <3>1, <3>3
    <3> QED
      BY <1>4, <3>1, <3>4, InMarksOf
  <2> QED
    BY <2>1, <2>2
<1>9. CASE kept = <<>>
  <2>1. MarksOf(kept, Kinds) = {}
    <3>1. Len(kept) = 0
      BY <1>9
    <3>2. \A a \in MarksOf(kept, Kinds) : \E k \in 1 .. Len(kept) : a = kept[k].mark
      BY <1>4, InMarksOf
    <3> QED
      BY <3>1, <3>2
  <2> QED
    BY <1>1, <1>8, <1>9, <2>1, NoItem DEF parts
<1>10. CASE kept # <<>>
  <2>1. item \in ItemType /\ item[1] = "assistant" /\ item[2] = kept
    BY <1>4 DEF ItemType
  <2> HIDE DEF item
  <2>2. Well(item)
    BY <1>4, <1>6, <1>7, <2>1 DEF Well
  <2>3. InLine(<< item >>) /\ MarksOfAll(<< item >>) = ItemMarks(item)
    BY <2>1, <2>2, OneItem
  <2> QED
    BY <1>1, <1>8, <1>10, <2>1, <2>3 DEF ItemMarks, parts
<1> QED
  BY <1>9, <1>10

\* In either case, and for users and systems, the items of a message hold what it says.
LEMMA ItemsOfMessage ==
    ASSUME ConversationInv, NEW i \in 1 .. Len(messages)
    PROVE  /\ InLine(Items(messages[i]))
           /\ MarksOfAll(Items(messages[i])) =
                 IF messages[i].role \in Turned THEN MarksOf(messages[i].parts, Kinds \ {"reasoning"})
                 ELSE {}
<1>1. messages[i].role \in Roles
  BY Conversed
<1>2. CASE messages[i].role = "system"
  <2>1. Items(messages[i]) = <<>>
    BY <1>2 DEF Items
  <2> QED
    BY <1>2, <2>1, NoItem DEF Turned
<1>3. CASE messages[i].role \in Turned
  BY <1>3, UserItems, ToolItems, AssistantItems DEF Turned
<1> QED
  BY <1>1, <1>2, <1>3 DEF Roles, Turned

\* The parts of an item.
LEMMA ItemTyped ==
    ASSUME NEW items, InLine(items), NEW k \in 1 .. Len(items)
    PROVE  /\ items[k] \in ItemType /\ items[k][2] \in Seq(PartType) /\ Well(items[k])
           /\ ItemMarks(items[k]) \subseteq Nat
<1>1. items[k] \in ItemType /\ Well(items[k])
  BY ElementOfSeq DEF InLine
<1>2. items[k][2] \in Seq(PartType)
  BY <1>1 DEF Well
<1> QED
  BY <1>1, <1>2, MarksNat DEF ItemMarks

\* The items of a conversation are in its order and hold all it says.
LEMMA OpenCodeItemsInLine ==
    ASSUME ConversationInv
    PROVE  InLine(OpenCodeItems) /\ MarksOfAll(OpenCodeItems) = Said(Turned, "reasoning")
<1> DEFINE seqs == [i \in 1 .. Len(messages) |-> Items(messages[i])]
           items == OpenCodeItems
           Of(i) == MarksOf(messages[i].parts, Kinds \ {"reasoning"})
<1>1. items = FlattenSeq(seqs)
  BY DEF OpenCodeItems
<1>2. Len(messages) \in Nat
  BY LenProperties DEF ConversationInv
<1>3. \A i \in 1 .. Len(messages) :
         /\ seqs[i] \in Seq(ItemType) /\ InLine(seqs[i])
         /\ MarksOfAll(seqs[i]) = IF messages[i].role \in Turned THEN Of(i) ELSE {}
  BY ItemsOfMessage DEF InLine
<1>4. seqs \in Seq(Seq(ItemType)) /\ Len(seqs) = Len(messages)
  BY <1>2, <1>3
<1> HIDE DEF seqs, items
<1>5. items \in Seq(ItemType) /\ \E row, col : Placed(items, seqs, Len(seqs), row, col)
  BY <1>1, <1>4, FlattenPlaces
<1>6. PICK row, col : Placed(items, seqs, Len(seqs), row, col)
  BY <1>5
<1>7. ASSUME NEW k \in 1 .. Len(items)
      PROVE  /\ row[k] \in 1 .. Len(messages) /\ col[k] \in 1 .. Len(seqs[row[k]])
             /\ items[k] = seqs[row[k]][col[k]]
  BY <1>4, <1>6 DEF Placed
<1>8. ASSUME NEW k \in 1 .. Len(items)
      PROVE  /\ Well(items[k]) /\ ItemMarks(items[k]) \subseteq Of(row[k])
             /\ messages[row[k]].role \in Turned
             /\ ItemMarks(items[k]) \subseteq MarksOfAll(seqs[row[k]])
  <2>1. /\ row[k] \in 1 .. Len(messages) /\ col[k] \in 1 .. Len(seqs[row[k]])
        /\ items[k] = seqs[row[k]][col[k]]
    BY <1>7
  <2>2. InLine(seqs[row[k]])
    BY <1>3, <2>1
  <2>3. Well(items[k])
    BY <2>1, <2>2 DEF InLine
  <2>4. ItemMarks(items[k]) \subseteq MarksOfAll(seqs[row[k]])
    BY <2>1 DEF MarksOfAll
  <2>5. messages[row[k]].role \in Turned
    <3>1. CASE messages[row[k]].role = "system"
      <4>1. seqs[row[k]] = <<>>
        BY <2>1, <3>1 DEF Items, seqs
      <4>2. Len(seqs[row[k]]) = 0
        BY <4>1
      <4> QED
        BY <2>1, <4>2
    <3>2. messages[row[k]].role \in Roles
      BY <2>1, Conversed
    <3> QED
      BY <3>1, <3>2 DEF Roles, Turned
  <2>6. MarksOfAll(seqs[row[k]]) = Of(row[k])
    BY <1>3, <2>1, <2>5
  <2> QED
    BY <2>3, <2>4, <2>5, <2>6
<1>9. ASSUME NEW k \in 1 .. Len(items), NEW l \in 1 .. Len(items), k < l,
             NEW a \in ItemMarks(items[k]), NEW b \in ItemMarks(items[l])
      PROVE  a < b
  <2>1. row[k] < row[l] \/ (row[k] = row[l] /\ col[k] < col[l])
    BY <1>6, <1>9 DEF Placed
  <2>2. CASE row[k] < row[l]
    <3>1. a \in Of(row[k]) /\ b \in Of(row[l])
      BY <1>8
    <3>2. row[k] \in 1 .. Len(messages) /\ row[l] \in 1 .. Len(messages)
      BY <1>7
    <3> QED
      BY <2>2, <3>1, <3>2, MarksAfter
  <2>3. CASE row[k] = row[l] /\ col[k] < col[l]
    <3>1. InLine(seqs[row[k]])
      BY <1>3, <1>7
    <3>2. /\ col[k] \in 1 .. Len(seqs[row[k]]) /\ items[k] = seqs[row[k]][col[k]]
          /\ col[l] \in 1 .. Len(seqs[row[k]]) /\ items[l] = seqs[row[k]][col[l]]
      BY <1>7, <2>3
    <3> QED
      BY <2>3, <3>1, <3>2 DEF InLine
  <2> QED
    BY <2>1, <2>2, <2>3
<1>10. InLine(items)
  BY <1>5, <1>8, <1>9 DEF InLine
<1>11. ASSUME NEW a \in MarksOfAll(items) PROVE a \in Said(Turned, "reasoning")
  <2>1. PICK k \in 1 .. Len(items) : a \in ItemMarks(items[k])
    BY DEF MarksOfAll
  <2>2. a \in Of(row[k]) /\ row[k] \in 1 .. Len(messages) /\ messages[row[k]].role \in Turned
    BY <1>7, <1>8, <2>1
  <2> QED
    BY <2>2, SaidMarks
<1>12. ASSUME NEW a \in Said(Turned, "reasoning") PROVE a \in MarksOfAll(items)
  <2>1. PICK i \in 1 .. Len(messages) : messages[i].role \in Turned /\ a \in Of(i)
    BY SaidMarks
  <2>2. a \in MarksOfAll(seqs[i])
    BY <1>3, <2>1
  <2>3. PICK j \in 1 .. Len(seqs[i]) : a \in ItemMarks(seqs[i][j])
    BY <2>2 DEF MarksOfAll
  <2>4. PICK k \in 1 .. Len(items) : row[k] = i /\ col[k] = j
    BY <1>4, <1>6, <2>3 DEF Placed
  <2>5. a \in ItemMarks(items[k])
    BY <1>7, <2>3, <2>4
  <2> QED
    BY <2>5 DEF MarksOfAll
<1> QED
  BY <1>10, <1>11, <1>12 DEF items

\* A user item is its text.
LEMMA ItemText ==
    ASSUME NEW item \in ItemType, Well(item), item[1] = "user"
    PROVE  /\ Joined(item[2], "text") \in Seq(Nat) /\ Ascends(Joined(item[2], "text"))
           /\ ToSet(Joined(item[2], "text")) = ItemMarks(item)
<1> DEFINE parts == item[2]
<1>1. parts \in Seq(PartType) /\ Rising(parts) /\ \A i \in 1 .. Len(parts) : parts[i].kind = "text"
  BY DEF Well
<1>2. ItemMarks(item) = MarksOf(parts, Kinds)
  BY DEF ItemMarks
<1> HIDE DEF parts
<1>3. /\ Joined(parts, "text") \in Seq(Nat) /\ Ascends(Joined(parts, "text"))
      /\ ToSet(Joined(parts, "text")) = MarksOf(parts, Kinds)
  BY <1>1, JoinedMarks, TextOnly
<1> QED
  BY <1>2, <1>3 DEF parts

\* Dropping users without text drops no mark.
LEMMA SpokenInLine ==
    ASSUME NEW items, InLine(items)
    PROVE  InLine(Spoken(items)) /\ MarksOfAll(Spoken(items)) = MarksOfAll(items)
<1> DEFINE wanted == {item \in ToSet(items) : item[1] = "user" => Joined(item[2], "text") # <<>>}
           kept == Spoken(items)
<1>1. kept = Only(items, wanted)
  BY DEF Spoken
<1>2. items \in Seq(ItemType)
  BY DEF InLine
<1>3. \A k \in 1 .. Len(items) : items[k] \in wanted <=>
         (items[k][1] = "user" => Joined(items[k][2], "text") # <<>>)
  <2>1. DOMAIN items = 1 .. Len(items)
    BY <1>2, LenProperties
  <2> QED
    BY <2>1 DEF ToSet
<1> HIDE DEF wanted, kept
<1>4. PICK from : kept \in Seq(ItemType) /\ Chosen(items, wanted, kept, from)
  BY <1>1, <1>2, OnlyChosen
<1>5. \A k \in 1 .. Len(kept) : from[k] \in 1 .. Len(items) /\ kept[k] = items[from[k]]
  BY <1>4 DEF Chosen
<1>6. InLine(kept)
  <2>1. \A k \in 1 .. Len(kept) : Well(kept[k])
    BY <1>5 DEF InLine
  <2>2. ASSUME NEW k \in 1 .. Len(kept), NEW l \in 1 .. Len(kept), k < l,
               NEW a \in ItemMarks(kept[k]), NEW b \in ItemMarks(kept[l])
        PROVE  a < b
    <3>1. from[k] < from[l]
      BY <1>4, <2>2 DEF Chosen
    <3>2. a \in ItemMarks(items[from[k]]) /\ b \in ItemMarks(items[from[l]])
      BY <1>5
    <3> QED
      BY <1>5, <3>1, <3>2 DEF InLine
  <2> QED
    BY <1>4, <2>1, <2>2 DEF InLine
<1>7. ASSUME NEW k \in 1 .. Len(items), items[k] \notin wanted PROVE ItemMarks(items[k]) = {}
  <2>1. items[k] \in ItemType /\ Well(items[k])
    BY ItemTyped
  <2>2. items[k][1] = "user" /\ Joined(items[k][2], "text") = <<>>
    BY <1>3, <1>7
  <2>3. ItemMarks(items[k]) = ToSet(Joined(items[k][2], "text"))
    BY <2>1, <2>2, ItemText
  <2> QED
    BY <2>2, <2>3 DEF ToSet
<1>8. ASSUME NEW a \in MarksOfAll(kept) PROVE a \in MarksOfAll(items)
  <2>1. PICK k \in 1 .. Len(kept) : a \in ItemMarks(kept[k])
    BY DEF MarksOfAll
  <2> QED
    BY <1>5, <2>1 DEF MarksOfAll
<1>9. ASSUME NEW a \in MarksOfAll(items) PROVE a \in MarksOfAll(kept)
  <2>1. PICK i \in 1 .. Len(items) : a \in ItemMarks(items[i])
    BY DEF MarksOfAll
  <2>2. items[i] \in wanted
    BY <1>7, <2>1
  <2>3. PICK k \in 1 .. Len(kept) : from[k] = i
    BY <1>4, <2>2 DEF Chosen
  <2>4. a \in ItemMarks(kept[k])
    BY <1>5, <2>1, <2>3
  <2> QED
    BY <2>4 DEF MarksOfAll
<1> QED
  BY <1>6, <1>8, <1>9 DEF kept

\* The content of an item is made of its parts, without repeats.
LEMMA ItemContentMarks ==
    ASSUME NEW item \in ItemType, Well(item)
    PROVE  IsInjective(ItemContent(item)) /\ ToSet(ItemContent(item)) = ItemMarks(item)
<1> DEFINE parts == item[2]
<1>1. parts \in Seq(PartType) /\ Rising(parts) /\ ItemMarks(item) = MarksOf(parts, Kinds)
  BY DEF Well, ItemMarks
<1>2. CASE item[1] = "tool"
  <2> DEFINE r == << parts[1].mark >>
  <2>1. ItemContent(item) = r
    BY <1>2 DEF ItemContent
  <2>2. Len(parts) = 1 /\ parts[1].mark # 0 /\ parts[1].kind = "result"
    BY <1>2 DEF Well
  <2> HIDE DEF parts
  <2>3. DOMAIN r = {1} /\ r[1] = parts[1].mark
    OBVIOUS
  <2> HIDE DEF r
  <2>4. IsInjective(r)
    BY <2>3 DEF IsInjective
  <2>5. ToSet(r) = {parts[1].mark}
    BY <2>3 DEF ToSet
  <2>6. parts[1].mark \in MarksOf(parts, Kinds)
    <3>1. 1 \in 1 .. Len(parts) /\ parts[1].kind \in Kinds
      BY <2>2 DEF Kinds
    <3> QED
      BY <1>1, <2>2, <3>1, InMarksOf
  <2>7. ASSUME NEW a \in MarksOf(parts, Kinds) PROVE a = parts[1].mark
    <3>1. PICK i \in 1 .. Len(parts) : a = parts[i].mark
      BY <1>1, InMarksOf
    <3>2. i = 1
      BY <2>2, <3>1
    <3> QED
      BY <3>1, <3>2
  <2> QED
    BY <1>1, <2>1, <2>4, <2>5, <2>6, <2>7
<1>3. CASE item[1] # "tool"
  <2> DEFINE a == Joined(parts, "text")
             b == Joined(parts, "call")
  <2>1. ItemContent(item) = a \o b
    BY <1>3 DEF ItemContent
  <2>2. \A i \in 1 .. Len(parts) : parts[i].kind \in {"text", "call"}
    BY <1>3 DEF Well
  <2> HIDE DEF parts
  <2>3. /\ a \in Seq(Nat) /\ b \in Seq(Nat) /\ IsInjective(a) /\ IsInjective(b)
        /\ ToSet(a) = MarksOf(parts, {"text"}) /\ ToSet(b) = MarksOf(parts, {"call"})
    BY <1>1, JoinedMarks
  <2> HIDE DEF a, b
  <2>4. MarksOf(parts, {"text"}) \intersect MarksOf(parts, {"call"}) = {}
    <3>1. {"text"} \intersect {"call"} = {}
      OBVIOUS
    <3> QED
      BY <1>1, <3>1, MarksApart
  <2>5. IsInjective(a \o b) /\ ToSet(a \o b) = ToSet(a) \union ToSet(b)
    BY <2>3, <2>4, SetOfConcat, ConcatInjective
  <2>6. MarksOf(parts, {"text", "call"}) = MarksOf(parts, Kinds)
    BY <1>1, <2>2, MarksWithin
  <2>7. MarksOf(parts, {"text", "call"}) = MarksOf(parts, {"text"}) \union MarksOf(parts, {"call"})
    BY DEF MarksOf
  <2> QED
    BY <1>1, <2>1, <2>3, <2>5, <2>6, <2>7
<1> QED
  BY <1>2, <1>3

\* The contents of items in line carry all they hold.
LEMMA ItemsCarried ==
    ASSUME NEW items, InLine(items)
    PROVE  Carries([i \in 1 .. Len(items) |-> ItemContent(items[i])], MarksOfAll(items))
<1> DEFINE history == [i \in 1 .. Len(items) |-> ItemContent(items[i])]
<1>1. DOMAIN history = 1 .. Len(items) /\ \A i \in 1 .. Len(items) : history[i] = ItemContent(items[i])
  OBVIOUS
<1> HIDE DEF history
<1>2. \A i \in 1 .. Len(items) :
         IsInjective(history[i]) /\ ToSet(history[i]) = ItemMarks(items[i])
  BY <1>1, ItemTyped, ItemContentMarks
<1>3. UNION {ToSet(history[i]) : i \in DOMAIN history} = MarksOfAll(items)
  BY <1>1, <1>2 DEF MarksOfAll
<1>4. \A i, j \in DOMAIN history : i < j =>
         \A a \in ToSet(history[i]), b \in ToSet(history[j]) : a < b
  BY <1>1, <1>2 DEF InLine
<1>5. Carries(history, MarksOfAll(items))
  BY <1>1, <1>2, <1>3, <1>4 DEF Carries
<1> QED
  BY <1>5 DEF history

\* The transcript says what the history says, in its order.
LEMMA TranscriptMarks ==
    ASSUME InLine(HistoryItems)
    PROVE  /\ Transcript \in Seq(Nat) /\ Ascends(Transcript)
           /\ ToSet(Transcript) = MarksOfAll(HistoryItems)
<1> DEFINE items == HistoryItems
           seqs == [i \in 1 .. Len(items) |-> items[i][2]]
           parts == FlattenSeq(seqs)
           wanted == {p \in ToSet(parts) : p.mark # 0}
<1>1. Transcript = Marks(Only(parts, wanted))
  BY DEF Transcript
<1> HIDE DEF items
<1>2. InLine(items) /\ items \in Seq(ItemType)
  BY DEF InLine, items
<1>3. Len(items) \in Nat
  BY <1>2, LenProperties
<1>4. \A i \in 1 .. Len(items) :
         seqs[i] = items[i][2] /\ seqs[i] \in Seq(PartType) /\ ItemMarks(items[i]) = MarksOf(seqs[i], Kinds)
         /\ Rising(seqs[i])
  BY <1>2, ItemTyped DEF ItemMarks, Well
<1>5. seqs \in Seq(Seq(PartType)) /\ Len(seqs) = Len(items)
  BY <1>3, <1>4
<1> HIDE DEF seqs
<1>6. parts \in Seq(PartType) /\ \E row, col : Placed(parts, seqs, Len(seqs), row, col)
  BY <1>5, FlattenPlaces
<1> HIDE DEF parts
<1>7. PICK row, col : Placed(parts, seqs, Len(seqs), row, col)
  BY <1>6
<1>8. ASSUME NEW k \in 1 .. Len(parts)
      PROVE  /\ row[k] \in 1 .. Len(items) /\ col[k] \in 1 .. Len(seqs[row[k]])
             /\ parts[k] = seqs[row[k]][col[k]]
             /\ parts[k].mark # 0 => parts[k].mark \in ItemMarks(items[row[k]])
  <2>1. /\ row[k] \in 1 .. Len(items) /\ col[k] \in 1 .. Len(seqs[row[k]])
        /\ parts[k] = seqs[row[k]][col[k]]
    BY <1>5, <1>7 DEF Placed
  <2>2. seqs[row[k]] \in Seq(PartType) /\ ItemMarks(items[row[k]]) = MarksOf(seqs[row[k]], Kinds)
    BY <1>4, <2>1
  <2> QED
    BY <2>1, <2>2, InMarksOf, PartTyped
<1>9. Rising(parts)
  <2> SUFFICES ASSUME NEW k \in 1 .. Len(parts), NEW l \in 1 .. Len(parts), k < l,
                      parts[k].mark # 0, parts[l].mark # 0
               PROVE  parts[k].mark < parts[l].mark
    BY DEF Rising
  <2>1. row[k] < row[l] \/ (row[k] = row[l] /\ col[k] < col[l])
    BY <1>7 DEF Placed
  <2>2. CASE row[k] < row[l]
    <3>1. /\ row[k] \in 1 .. Len(items) /\ row[l] \in 1 .. Len(items)
          /\ parts[k].mark \in ItemMarks(items[row[k]]) /\ parts[l].mark \in ItemMarks(items[row[l]])
      BY <1>8
    <3> QED
      BY <1>2, <2>2, <3>1 DEF InLine
  <2>3. CASE row[k] = row[l] /\ col[k] < col[l]
    <3>1. /\ col[k] \in 1 .. Len(seqs[row[k]]) /\ parts[k] = seqs[row[k]][col[k]]
          /\ col[l] \in 1 .. Len(seqs[row[k]]) /\ parts[l] = seqs[row[k]][col[l]]
          /\ row[k] \in 1 .. Len(items)
      BY <1>8, <2>3
    <3>2. Rising(seqs[row[k]])
      BY <1>4, <3>1
    <3> QED
      BY <2>3, <3>1, <3>2 DEF Rising
  <2> QED
    BY <2>1, <2>2, <2>3
<1>10. DOMAIN parts = 1 .. Len(parts)
  BY <1>6, LenProperties
<1>11. /\ Marks(Only(parts, wanted)) \in Seq(Nat) /\ Ascends(Marks(Only(parts, wanted)))
       /\ ToSet(Marks(Only(parts, wanted))) = {p.mark : p \in ToSet(parts) \intersect wanted}
  <2>1. \A p \in wanted : p.mark # 0
    OBVIOUS
  <2> HIDE DEF wanted
  <2> QED
    BY <1>6, <1>9, <2>1, MarksChosen
<1>12. ASSUME NEW p \in ToSet(parts) \intersect wanted PROVE p.mark \in MarksOfAll(items)
  <2>1. PICK k \in 1 .. Len(parts) : p = parts[k]
    BY <1>10 DEF ToSet
  <2>2. row[k] \in 1 .. Len(items) /\ p.mark \in ItemMarks(items[row[k]])
    BY <1>8, <2>1
  <2> QED
    BY <2>2 DEF MarksOfAll
<1>13. ASSUME NEW a \in MarksOfAll(items) PROVE \E p \in ToSet(parts) \intersect wanted : a = p.mark
  <2>1. PICK i \in 1 .. Len(items) : a \in ItemMarks(items[i])
    BY DEF MarksOfAll
  <2>2. PICK j \in 1 .. Len(seqs[i]) : a = seqs[i][j].mark /\ a # 0
    BY <1>4, <2>1, InMarksOf
  <2>3. PICK k \in 1 .. Len(parts) : row[k] = i /\ col[k] = j
    BY <1>5, <1>7, <2>2 DEF Placed
  <2>4. parts[k] = seqs[i][j] /\ parts[k] \in ToSet(parts)
    BY <1>8, <1>10, <2>3 DEF ToSet
  <2> QED
    BY <2>2, <2>4
<1>14. {p.mark : p \in ToSet(parts) \intersect wanted} = MarksOfAll(items)
  <2> HIDE DEF wanted
  <2> QED
    BY <1>12, <1>13
<1> QED
  BY <1>1, <1>11, <1>14 DEF items

\* What was appended is the tail.
LEMMA TailOfConcat ==
    ASSUME NEW S, NEW s \in Seq(S), NEW t \in Seq(S)
    PROVE  SubSeq(s \o t, Len(s) + 1, Len(s \o t)) = t
<1> DEFINE both == s \o t
           m == Len(s) + 1
           n == Len(s) + Len(t)
<1>1. /\ both \in Seq(S) /\ Len(both) = n
      /\ \A i \in 1 .. Len(s) + Len(t) : both[i] = IF i <= Len(s) THEN s[i] ELSE t[i - Len(s)]
      /\ Len(s) \in Nat /\ Len(t) \in Nat
  BY ConcatProperties, LenProperties
<1> HIDE DEF both
<1>2. \A i \in m .. n : both[i] \in S
  <2>1. \A i \in m .. n : i \in 1 .. Len(both)
    BY <1>1
  <2> QED
    BY <1>1, <2>1, ElementOfSeq
<1>3. m \in Int /\ n \in Int /\ (m <= n <=> Len(t) > 0) /\ n - m + 1 = Len(t)
  BY <1>1
<1> DEFINE sub == SubSeq(both, m, n)
<1>4. /\ sub \in Seq(S) /\ Len(sub) = (IF m <= n THEN n - m + 1 ELSE 0)
      /\ \A i \in 1 .. n - m + 1 : sub[i] = both[m + i - 1]
  <2> HIDE DEF m, n
  <2> QED
    BY <1>2, <1>3, SubSeqProperties
<1> HIDE DEF sub
<1>5. Len(sub) = Len(t)
  BY <1>1, <1>3, <1>4
<1>6. ASSUME NEW i \in 1 .. Len(sub) PROVE sub[i] = t[i]
  <2>1. /\ i \in 1 .. n - m + 1 /\ m + i - 1 = Len(s) + i /\ Len(s) + i \in 1 .. Len(s) + Len(t)
        /\ ~(Len(s) + i <= Len(s)) /\ (Len(s) + i) - Len(s) = i
    BY <1>1, <1>5
  <2>2. sub[i] = both[Len(s) + i]
    BY <1>4, <2>1
  <2> QED
    BY <1>1, <2>1, <2>2
<1>7. sub = t
  BY <1>4, <1>5, <1>6, SeqEqual
<1> QED
  BY <1>1, <1>7 DEF sub, both

\* Without its last item, the line is still one and holds the rest.
LEMMA FrontInLine ==
    ASSUME NEW items, InLine(items), items # <<>>
    PROVE  /\ InLine(Front(items)) /\ Last(items) \in ItemType /\ Well(Last(items))
           /\ MarksOfAll(Front(items)) = MarksOfAll(items) \ ItemMarks(Last(items))
<1> DEFINE n == Len(items)
           front == Front(items)
<1>1. items \in Seq(ItemType) /\ n \in Nat \ {0} /\ DOMAIN items = 1 .. n
  BY EmptySeq, LenProperties DEF InLine
<1>2. /\ Len(front) = n - 1 /\ DOMAIN front = 1 .. n - 1
      /\ \A i \in 1 .. n - 1 : front[i] = items[i]
  BY <1>1, FrontOf
<1>3. front \in Seq(ItemType)
  <2>1. front = SubSeq(items, 1, n - 1)
    BY DEF Front
  <2>2. n - 1 \in Int /\ 1 \in Int /\ \A i \in 1 .. n - 1 : items[i] \in ItemType
    BY <1>1, ElementOfSeq
  <2> HIDE DEF n, front
  <2> QED
    BY <2>1, <2>2, SubSeqProperties
<1> HIDE DEF front
<1>4. n \in 1 .. n /\ Last(items) = items[n]
  BY <1>1 DEF Last
<1>5. Last(items) \in ItemType /\ Well(Last(items)) /\ ItemMarks(items[n]) \subseteq Nat
  BY <1>4, ItemTyped
<1>6. \A i \in 1 .. n - 1 : i \in 1 .. n /\ i < n
  BY <1>1
<1>7. InLine(front)
  BY <1>2, <1>3, <1>6 DEF InLine
<1>8. ASSUME NEW a \in MarksOfAll(front) PROVE a \in MarksOfAll(items) /\ a \notin ItemMarks(items[n])
  <2>1. PICK i \in 1 .. n - 1 : a \in ItemMarks(items[i])
    BY <1>2 DEF MarksOfAll
  <2>2. ASSUME a \in ItemMarks(items[n]) PROVE FALSE
    <3>1. a < a
      BY <1>4, <1>6, <2>1, <2>2 DEF InLine
    <3>2. a \in Nat
      BY <1>5, <2>2
    <3> QED
      BY <3>1, <3>2
  <2> QED
    BY <1>6, <2>1, <2>2 DEF MarksOfAll
<1>9. ASSUME NEW a \in MarksOfAll(items), a \notin ItemMarks(items[n]) PROVE a \in MarksOfAll(front)
  <2>1. PICK i \in 1 .. n : a \in ItemMarks(items[i])
    BY DEF MarksOfAll
  <2>2. i \in 1 .. n - 1
    <3>1. i # n
      BY <1>9, <2>1
    <3> HIDE DEF n
    <3> QED
      BY <1>1, <3>1
  <2> QED
    BY <1>2, <2>1, <2>2 DEF MarksOfAll
<1> QED
  BY <1>4, <1>5, <1>7, <1>8, <1>9 DEF front

\* OpenCode: the items before the question are carried, and the question with the system
\* text is the prompt; after a tool result the transcript is.
LEMMA OpenCodeIsFaithful ==
    ASSUME ConversationInv
    PROVE  OpenCodeFaithful
<1> DEFINE items == OpenCodeItems
           carried == Said(Turned, "reasoning")
           added == IF LastIsUser THEN Joined(Last(items)[2], "text") ELSE Transcript
           prompt == OpenCode.prompt
           new == SubSeq(prompt, Len(SystemText) + 1, Len(prompt))
           base == IF LastIsUser THEN Front(items) ELSE items
<1>1. InLine(items) /\ MarksOfAll(items) = carried
  BY OpenCodeItemsInLine
<1>2. prompt = SystemText \o added
  BY DEF OpenCode
<1>3. HistoryItems = Spoken(base)
  BY DEF HistoryItems
<1>4. OpenCode.history = [i \in 1 .. Len(HistoryItems) |-> ItemContent(HistoryItems[i])]
  BY DEF OpenCode
<1>5. LastIsUser => items # <<>> /\ Last(items)[1] = "user"
  BY DEF LastIsUser
<1>6. OpenCodeFaithful <=>
         /\ Carries(OpenCode.history, IF LastIsUser THEN carried \ ToSet(new) ELSE carried)
         /\ ~LastIsUser => ToSet(new) = carried
         /\ \A i, j \in 1 .. Len(new) : i < j => new[i] < new[j]
  BY DEF OpenCodeFaithful
<1> HIDE DEF items, carried, prompt
<1>7. LastIsUser => /\ InLine(Front(items)) /\ Last(items) \in ItemType /\ Well(Last(items))
                    /\ MarksOfAll(Front(items)) = carried \ ItemMarks(Last(items))
  BY <1>1, <1>5, FrontInLine
<1>8. InLine(base)
  BY <1>1, <1>7
<1> HIDE DEF base
<1>9. InLine(HistoryItems) /\ MarksOfAll(HistoryItems) = MarksOfAll(base)
  BY <1>3, <1>8, SpokenInLine
<1>10. Carries(OpenCode.history, MarksOfAll(base))
  <2> DEFINE list == HistoryItems
  <2>1. InLine(list) /\ MarksOfAll(list) = MarksOfAll(base)
    BY <1>9
  <2>2. OpenCode.history = [i \in 1 .. Len(list) |-> ItemContent(list[i])]
    BY <1>4
  <2> HIDE DEF list
  <2>3. Carries([i \in 1 .. Len(list) |-> ItemContent(list[i])], MarksOfAll(list))
    BY <2>1, ItemsCarried
  <2> QED
    BY <2>1, <2>2, <2>3
<1>11. added \in Seq(Nat) /\ Ascends(added)
       /\ ToSet(added) = IF LastIsUser THEN ItemMarks(Last(items)) ELSE carried
  <2>1. CASE LastIsUser
    <3> DEFINE last == Last(items)
    <3>1. last \in ItemType /\ Well(last) /\ last[1] = "user"
      BY <1>5, <1>7, <2>1
    <3>2. added = Joined(last[2], "text")
      BY <2>1
    <3> HIDE DEF last, added
    <3>3. added \in Seq(Nat) /\ Ascends(added) /\ ToSet(added) = ItemMarks(last)
      BY <3>1, <3>2, ItemText
    <3> QED
      BY <2>1, <3>3 DEF last
  <2>2. CASE ~LastIsUser
    <3>1. MarksOfAll(HistoryItems) = carried
      BY <1>1, <1>9, <2>2 DEF base
    <3> QED
      BY <1>9, <2>2, <3>1, TranscriptMarks
  <2> QED
    BY <2>1, <2>2
<1> HIDE DEF added
<1>12. new = added
  <2>1. SystemText \in Seq(Nat)
    BY SystemMarks
  <2> QED
    BY <1>2, <1>11, <2>1, TailOfConcat
<1> HIDE DEF new
<1>13. MarksOfAll(base) = IF LastIsUser THEN carried \ ToSet(new) ELSE carried
  BY <1>1, <1>7, <1>11, <1>12 DEF base
<1>14. \A i, j \in 1 .. Len(new) : i < j => new[i] < new[j]
  BY <1>11, <1>12 DEF Ascends
<1>15. ~LastIsUser => ToSet(new) = carried
  BY <1>11, <1>12
<1> QED
  BY <1>6, <1>10, <1>13, <1>14, <1>15

-----------------------------------------------------------------------------
(* Chains of responses.                                                    *)

Ranked(s, rank) == \A i, j \in 1 .. Len(s) : i < j => rank[s[i]] < rank[s[j]]

\* Two lists of the same elements in the same order are the same.
LEMMA SortedWithin ==
    ASSUME NEW S, NEW s \in Seq(S), NEW t \in Seq(S), NEW rank \in [S -> Nat],
           Ranked(s, rank), Ranked(t, rank), ToSet(s) = ToSet(t)
    PROVE  \A i \in 1 .. Len(s) : i \in 1 .. Len(t) /\ s[i] = t[i]
<1> DEFINE Apart == {i \in 1 .. Len(s) : ~(i \in 1 .. Len(t) /\ s[i] = t[i])}
<1>1. Len(s) \in Nat /\ Len(t) \in Nat
      /\ (\A i \in 1 .. Len(s) : rank[s[i]] \in Nat) /\ (\A i \in 1 .. Len(t) : rank[t[i]] \in Nat)
      /\ DOMAIN s = 1 .. Len(s) /\ DOMAIN t = 1 .. Len(t)
  BY LenProperties, ElementOfSeq
<1>2. ASSUME Apart # {} PROVE FALSE
  <2>1. PICK k \in Apart : \A m \in Apart : k <= m
    <3>1. Apart \subseteq Nat
      OBVIOUS
    <3> HIDE DEF Apart
    <3> QED
      BY <1>2, <3>1, Least
  <2>2. k \in 1 .. Len(s)
    BY <2>1
  <2>3. \A i \in 1 .. Len(s) : i < k => i \in 1 .. Len(t) /\ s[i] = t[i]
    <3> SUFFICES ASSUME NEW i \in 1 .. Len(s), i < k PROVE i \notin Apart
      OBVIOUS
    <3>1. ~(k <= i)
      BY <2>2
    <3> HIDE DEF Apart
    <3> QED
      BY <2>1, <3>1
  <2>4. PICK j \in 1 .. Len(t) : s[k] = t[j]
    BY <1>1, <2>2 DEF ToSet
  <2>5. ~(j < k)
    <3> SUFFICES ASSUME j < k PROVE FALSE
      OBVIOUS
    <3>1. j \in 1 .. Len(s)
      BY <1>1, <2>2
    <3>2. s[j] = t[j] /\ rank[s[j]] < rank[s[k]]
      BY <2>2, <2>3, <3>1 DEF Ranked
    <3>3. s[j] = s[k] /\ rank[s[k]] \in Nat
      BY <1>1, <2>2, <2>4, <3>2
    <3> QED
      BY <3>2, <3>3
  <2>6. k \in 1 .. Len(t) /\ k # j
    <3>1. k \in 1 .. Len(t)
      BY <1>1, <2>2, <2>5
    <3>2. ~(s[k] = t[k])
      BY <2>1, <3>1
    <3> QED
      BY <2>4, <3>1, <3>2
  <2>7. k < j
    BY <2>2, <2>5, <2>6
  <2>8. PICK i \in 1 .. Len(s) : t[k] = s[i]
    BY <1>1, <2>6 DEF ToSet
  <2>9. i # k
    BY <2>1, <2>6, <2>8
  <2>10. CASE i < k
    <3>1. i \in 1 .. Len(t) /\ s[i] = t[i]
      BY <2>3, <2>10
    <3>2. rank[t[i]] < rank[t[k]]
      BY <2>6, <2>10, <3>1 DEF Ranked
    <3>3. t[i] = t[k] /\ rank[t[k]] \in Nat
      BY <1>1, <2>6, <2>8, <3>1
    <3> QED
      BY <3>2, <3>3
  <2>11. CASE k < i
    <3>1. rank[s[k]] < rank[s[i]] /\ rank[t[k]] < rank[t[j]]
      BY <2>2, <2>6, <2>7, <2>11 DEF Ranked
    <3>2. /\ rank[s[k]] \in Nat /\ rank[t[k]] \in Nat
          /\ s[i] = t[k] /\ t[j] = s[k]
      BY <1>1, <2>2, <2>4, <2>6, <2>8
    <3> QED
      BY <3>1, <3>2
  <2> QED
    BY <2>2, <2>9, <2>10, <2>11
<1> QED
  BY <1>2

TextsInOrder(texts) == \A i, j \in 1 .. Len(texts) : i < j =>
    \A a \in ToSet(texts[i]), b \in ToSet(texts[j]) : a < b

\* What is spoken of a list of texts in order does not depend on the empty
\* ones.
LEMMA SameSpoken ==
    ASSUME NEW texts \in Seq(Seq(Nat)),
           TextsInOrder(texts),
           NEW list \in Seq(Seq(Nat)), NEW src \in [1 .. Len(list) -> 1 .. Len(texts)],
           \A k \in 1 .. Len(list) : list[k] = texts[src[k]],
           \A k, l \in 1 .. Len(list) : k < l => src[k] < src[l],
           \A i \in 1 .. Len(texts) : texts[i] # <<>> => \E k \in 1 .. Len(list) : src[k] = i
    PROVE  Only(list, ToSet(list) \ {<<>>}) = Only(texts, ToSet(texts) \ {<<>>})
<1> DEFINE T == Seq(Nat)
           s == Only(list, ToSet(list) \ {<<>>})
           t == Only(texts, ToSet(texts) \ {<<>>})
           rank == [x \in T |-> IF x = <<>> THEN 0 ELSE x[1]]
<1>1. \A x \in T : x # <<>> => x[1] \in Nat /\ x[1] \in ToSet(x)
  <2> SUFFICES ASSUME NEW x \in T, x # <<>> PROVE x[1] \in Nat /\ x[1] \in ToSet(x)
    OBVIOUS
  <2>1. Len(x) \in Nat \ {0} /\ DOMAIN x = 1 .. Len(x)
    BY EmptySeq, LenProperties
  <2>2. 1 \in 1 .. Len(x)
    BY <2>1
  <2> QED
    BY <2>1, <2>2, ElementOfSeq DEF ToSet
<1>2. rank \in [T -> Nat] /\ \A x \in T : x # <<>> => rank[x] = x[1]
  BY <1>1
<1> HIDE DEF rank
<1>3. PICK f : s \in Seq(T) /\ Chosen(list, ToSet(list) \ {<<>>}, s, f)
  <2> DEFINE wanted == ToSet(list) \ {<<>>}
  <2> HIDE DEF wanted
  <2>1. Only(list, wanted) \in Seq(T) /\ \E from : Chosen(list, wanted, Only(list, wanted), from)
    BY OnlyChosen
  <2> QED
    BY <2>1 DEF wanted
<1>4. PICK g : t \in Seq(T) /\ Chosen(texts, ToSet(texts) \ {<<>>}, t, g)
  <2> DEFINE wanted == ToSet(texts) \ {<<>>}
  <2> HIDE DEF wanted
  <2>1. Only(texts, wanted) \in Seq(T) /\ \E from : Chosen(texts, wanted, Only(texts, wanted), from)
    BY OnlyChosen
  <2> QED
    BY <2>1 DEF wanted
<1> HIDE DEF s, t
<1>5. DOMAIN list = 1 .. Len(list) /\ DOMAIN texts = 1 .. Len(texts)
      /\ \A i \in 1 .. Len(texts) : texts[i] \in T
  BY LenProperties, ElementOfSeq
<1>6. \A i, j \in 1 .. Len(texts) : i < j /\ texts[i] # <<>> /\ texts[j] # <<>> =>
         rank[texts[i]] < rank[texts[j]]
  <2> SUFFICES ASSUME NEW i \in 1 .. Len(texts), NEW j \in 1 .. Len(texts), i < j,
                      texts[i] # <<>>, texts[j] # <<>>
               PROVE  rank[texts[i]] < rank[texts[j]]
    OBVIOUS
  <2>1. /\ rank[texts[i]] = texts[i][1] /\ texts[i][1] \in ToSet(texts[i])
        /\ rank[texts[j]] = texts[j][1] /\ texts[j][1] \in ToSet(texts[j])
    BY <1>1, <1>2, <1>5
  <2> QED
    BY <2>1 DEF TextsInOrder
<1> HIDE DEF T
<1>7. \A k \in 1 .. Len(s) :
         /\ f[k] \in 1 .. Len(list) /\ src[f[k]] \in 1 .. Len(texts)
         /\ s[k] = texts[src[f[k]]] /\ s[k] # <<>>
  <2> SUFFICES ASSUME NEW k \in 1 .. Len(s)
               PROVE  /\ f[k] \in 1 .. Len(list) /\ src[f[k]] \in 1 .. Len(texts)
                      /\ s[k] = texts[src[f[k]]] /\ s[k] # <<>>
    OBVIOUS
  <2>1. f[k] \in 1 .. Len(list) /\ s[k] = list[f[k]] /\ list[f[k]] # <<>>
    BY <1>3 DEF Chosen
  <2> QED
    BY <2>1
<1>8. \A k \in 1 .. Len(t) :
         g[k] \in 1 .. Len(texts) /\ t[k] = texts[g[k]] /\ t[k] # <<>>
  BY <1>4 DEF Chosen
<1>9. ASSUME NEW k \in 1 .. Len(s), NEW l \in 1 .. Len(s), k < l PROVE rank[s[k]] < rank[s[l]]
  <2>1. f[k] < f[l]
    BY <1>3, <1>9 DEF Chosen
  <2>2. src[f[k]] < src[f[l]]
    BY <1>7, <2>1
  <2> DEFINE i == src[f[k]]
             j == src[f[l]]
  <2>3. /\ i \in 1 .. Len(texts) /\ s[k] = texts[i] /\ texts[i] # <<>>
        /\ j \in 1 .. Len(texts) /\ s[l] = texts[j] /\ texts[j] # <<>> /\ i < j
    BY <1>7, <2>2
  <2> HIDE DEF i, j
  <2>4. rank[texts[i]] < rank[texts[j]]
    BY <1>6, <2>3
  <2> QED
    BY <2>3, <2>4
<1>10. ASSUME NEW k \in 1 .. Len(t), NEW l \in 1 .. Len(t), k < l PROVE rank[t[k]] < rank[t[l]]
  <2>1. g[k] < g[l]
    BY <1>4, <1>10 DEF Chosen
  <2> DEFINE i == g[k]
             j == g[l]
  <2>2. /\ i \in 1 .. Len(texts) /\ t[k] = texts[i] /\ texts[i] # <<>>
        /\ j \in 1 .. Len(texts) /\ t[l] = texts[j] /\ texts[j] # <<>> /\ i < j
    BY <1>8, <2>1
  <2> HIDE DEF i, j
  <2>3. rank[texts[i]] < rank[texts[j]]
    BY <1>6, <2>2
  <2> QED
    BY <2>2, <2>3
<1>11. ASSUME NEW k \in 1 .. Len(s) PROVE s[k] \in ToSet(t)
  <2> DEFINE i == src[f[k]]
  <2>1. i \in 1 .. Len(texts) /\ s[k] = texts[i] /\ texts[i] # <<>>
    BY <1>7
  <2>2. texts[i] \in ToSet(texts) \ {<<>>}
    BY <1>5, <2>1 DEF ToSet
  <2> HIDE DEF i
  <2>3. PICK l \in 1 .. Len(t) : g[l] = i
    BY <1>4, <2>1, <2>2 DEF Chosen
  <2>4. t[l] = s[k]
    BY <1>8, <2>1, <2>3
  <2>5. l \in DOMAIN t
    BY <1>4, <2>3, LenProperties
  <2> QED
    BY <2>4, <2>5 DEF ToSet
<1>12. ASSUME NEW l \in 1 .. Len(t) PROVE t[l] \in ToSet(s)
  <2>1. g[l] \in 1 .. Len(texts) /\ t[l] = texts[g[l]] /\ texts[g[l]] # <<>>
    BY <1>8
  <2>2. PICK i \in 1 .. Len(list) : src[i] = g[l]
    <3> DEFINE spoken == g[l]
    <3>1. spoken \in 1 .. Len(texts) /\ texts[spoken] # <<>>
      BY <2>1
    <3> HIDE DEF spoken
    <3>2. \E i \in 1 .. Len(list) : src[i] = spoken
      BY <3>1
    <3> QED
      BY <3>2 DEF spoken
  <2>3. list[i] = texts[g[l]] /\ list[i] \in ToSet(list) \ {<<>>}
    BY <1>5, <2>1, <2>2 DEF ToSet
  <2>4. PICK k \in 1 .. Len(s) : f[k] = i
    BY <1>3, <2>3 DEF Chosen
  <2>5. s[k] = t[l]
    BY <1>7, <2>1, <2>2, <2>4
  <2>6. k \in DOMAIN s
    BY <1>3, <2>4, LenProperties
  <2> QED
    BY <2>5, <2>6 DEF ToSet
<1>13. (\A i \in 1 .. Len(s) : i \in 1 .. Len(t) /\ s[i] = t[i])
       /\ (\A i \in 1 .. Len(t) : i \in 1 .. Len(s) /\ t[i] = s[i])
  <2>1. s \in Seq(T) /\ t \in Seq(T) /\ rank \in [T -> Nat]
    BY <1>2, <1>3, <1>4
  <2>2. Ranked(s, rank) /\ Ranked(t, rank)
    BY <1>9, <1>10 DEF Ranked
  <2>3. DOMAIN s = 1 .. Len(s) /\ DOMAIN t = 1 .. Len(t)
    BY <1>3, <1>4, LenProperties
  <2>4. ToSet(s) = ToSet(t)
    <3>1. \A x \in ToSet(s) : x \in ToSet(t)
      BY <1>11, <2>3 DEF ToSet
    <3>2. \A x \in ToSet(t) : x \in ToSet(s)
      BY <1>12, <2>3 DEF ToSet
    <3> QED
      BY <3>1, <3>2
  <2> QED
    BY <2>1, <2>2, <2>3, <2>4, SortedWithin
<1>14. Len(s) = Len(t)
  <2>1. Len(s) \in Nat /\ Len(t) \in Nat
    BY <1>3, <1>4, LenProperties
  <2>2. CASE Len(s) < Len(t)
    <3>1. Len(t) \in 1 .. Len(t)
      BY <2>1, <2>2
    <3>2. Len(t) \in 1 .. Len(s)
      BY <1>13, <3>1
    <3> QED
      BY <2>1, <2>2, <3>2
  <2>3. CASE Len(t) < Len(s)
    <3>1. Len(s) \in 1 .. Len(s)
      BY <2>1, <2>3
    <3>2. Len(s) \in 1 .. Len(t)
      BY <1>13, <3>1
    <3> QED
      BY <2>1, <2>3, <3>2
  <2> QED
    BY <2>1, <2>2, <2>3
<1>15. s = t
  BY <1>3, <1>4, <1>13, <1>14, SeqEqual
<1> QED
  BY <1>15 DEF s, t

TurnType == [role : Roles, text : Seq(Nat), thinking : Seq(Nat), calls : Seq(Nat)]

\* A turn of texts only.
Texted(role, text) == [role |-> role, text |-> text, thinking |-> <<>>, calls |-> <<>>]

\* A turn that is only text.
LEMMA TextedTyped ==
    ASSUME NEW role \in Roles, NEW text \in Seq(Nat)
    PROVE  /\ Texted(role, text) \in TurnType /\ Texted(role, text).role = role
           /\ Texted(role, text).text = text /\ Content(Texted(role, text)) = text
<1>1. <<>> \in Seq(Nat)
  BY EmptySeq
<1>2. Texted(role, text) \in TurnType
  BY <1>1 DEF Texted, TurnType
<1>3. (<<>> \o text) \o <<>> = text
  <2>1. <<>> \o text = text /\ text \o <<>> = text
    BY ConcatEmptySeq
  <2> QED
    BY <2>1
<1> QED
  BY <1>2, <1>3 DEF Texted, Content

\* A message of texts has nothing of another kind.
LEMMA NothingJoined ==
    ASSUME NEW parts \in Seq(PartType), Rising(parts), NEW kind, kind # "text",
           \A i \in 1 .. Len(parts) : parts[i].kind = "text"
    PROVE  Joined(parts, kind) = <<>>
<1> DEFINE r == Joined(parts, kind)
<1>1. r \in Seq(Nat) /\ ToSet(r) = MarksOf(parts, {kind})
  BY JoinedMarks
<1>2. MarksOf(parts, {kind}) = {}
  <2>1. \A a \in MarksOf(parts, {kind}) : \E i \in 1 .. Len(parts) : parts[i].kind \in {kind}
    BY InMarksOf
  <2> QED
    BY <2>1
<1> HIDE DEF r
<1>3. ASSUME r # <<>> PROVE FALSE
  <2>1. Len(r) \in Nat \ {0} /\ DOMAIN r = 1 .. Len(r)
    BY <1>1, <1>3, EmptySeq, LenProperties
  <2>2. 1 \in DOMAIN r
    BY <2>1
  <2>3. r[1] \in ToSet(r)
    BY <2>2 DEF ToSet
  <2> QED
    BY <1>1, <1>2, <2>3
<1> QED
  BY <1>3 DEF r

\* The turns of a conversation of texts are those texts, in order.
LEMMA ChatTexts ==
    ASSUME ConversationInv, Chattable
    PROVE  /\ \A k \in 1 .. Len(ChatTurns) :
                 /\ ChatTurns[k].role \in Roles /\ ChatTurns[k].text \in Seq(Nat)
                 /\ ChatTurns[k] = Texted(ChatTurns[k].role, ChatTurns[k].text)
           /\ \A k, l \in 1 .. Len(ChatTurns) : k < l =>
                 \A a \in ToSet(ChatTurns[k].text), b \in ToSet(ChatTurns[l].text) : a < b
<1> DEFINE n == Len(ChatTurns)
<1>1. PICK from \in [1 .. n -> 1 .. Len(messages)] :
         /\ \A k \in 1 .. n :
               /\ ChatTurns[k] = Turn(messages[from[k]].role, messages[from[k]].parts)
               /\ ChatTurns[k].role = messages[from[k]].role
               /\ messages[from[k]].role \in {"user", "assistant"}
               /\ messages[from[k]].parts \in Seq(PartType) /\ Rising(messages[from[k]].parts)
               /\ \A i \in 1 .. Len(messages[from[k]].parts) :
                     messages[from[k]].parts[i].kind = "text"
         /\ \A k, l \in 1 .. n : k < l => from[k] < from[l]
         /\ \A i \in 1 .. Len(messages) : messages[i].role \in Turned =>
               \E k \in 1 .. n : from[k] = i
  BY ChatTurnsChosen
<1> HIDE DEF n
<1>2. ASSUME NEW k \in 1 .. n
      PROVE  /\ ChatTurns[k].role \in Roles /\ ChatTurns[k].text \in Seq(Nat)
             /\ ChatTurns[k] = Texted(ChatTurns[k].role, ChatTurns[k].text)
             /\ from[k] \in 1 .. Len(messages)
             /\ ToSet(ChatTurns[k].text) = MarksOf(messages[from[k]].parts, Kinds)
  <2> DEFINE parts == messages[from[k]].parts
             role == messages[from[k]].role
  <2>1. ChatTurns[k] = Turn(role, parts) /\ from[k] \in 1 .. Len(messages)
    BY <1>1
  <2>2. role \in Roles
    BY <2>1, Conversed
  <2>3. parts \in Seq(PartType) /\ Rising(parts) /\ \A i \in 1 .. Len(parts) : parts[i].kind = "text"
    BY <1>1
  <2> HIDE DEF parts, role
  <2>4. Joined(parts, "reasoning") = <<>> /\ Joined(parts, "call") = <<>>
    BY <2>3, NothingJoined
  <2>5. Joined(parts, "text") \in Seq(Nat) /\ ToSet(Joined(parts, "text")) = MarksOf(parts, Kinds)
    BY <2>3, JoinedMarks, TextOnly
  <2>6. ChatTurns[k] = Texted(role, Joined(parts, "text"))
    BY <2>1, <2>4 DEF Turn, Texted
  <2>7. ChatTurns[k].role = role /\ ChatTurns[k].text = Joined(parts, "text")
    BY <2>6 DEF Texted
  <2> QED
    BY <2>1, <2>2, <2>5, <2>6, <2>7 DEF parts
<1>3. ASSUME NEW k \in 1 .. n, NEW l \in 1 .. n, k < l,
             NEW a \in ToSet(ChatTurns[k].text), NEW b \in ToSet(ChatTurns[l].text)
      PROVE  a < b
  <2>1. /\ from[k] < from[l] /\ from[k] \in 1 .. Len(messages) /\ from[l] \in 1 .. Len(messages)
        /\ a \in MarksOf(messages[from[k]].parts, Kinds)
        /\ b \in MarksOf(messages[from[l]].parts, Kinds)
    BY <1>1, <1>2, <1>3
  <2> QED
    BY <2>1, MarksAfter
<1> QED
  BY <1>2, <1>3 DEF n

\* The history a response adds: its question, and its answer when there is one.
LEMMA OwnHistoryIs ==
    ASSUME NEW user \in Seq(Nat), NEW assistant \in Seq(Nat)
    PROVE  LET own == OwnHistory([user |-> user, assistant |-> assistant])
           IN  /\ own \in Seq(Seq(Nat)) /\ Len(own) = (IF assistant = <<>> THEN 1 ELSE 2)
               /\ own[1] = user /\ (assistant # <<>> => own[2] = assistant)
<1> DEFINE own == OwnHistory([user |-> user, assistant |-> assistant])
           T == Seq(Nat)
<1>1. own = << user >> \o (IF assistant = <<>> THEN <<>> ELSE << assistant >>)
  BY DEF OwnHistory
<1> HIDE DEF own, T
<1>2. user \in T /\ assistant \in T /\ << user >> \in Seq(T) /\ << assistant >> \in Seq(T)
      /\ Len(<< user >>) = 1 /\ Len(<< assistant >>) = 1
      /\ << user >>[1] = user /\ << assistant >>[1] = assistant
  BY DEF T
<1>3. CASE assistant = <<>>
  <2>1. own = << user >>
    BY <1>1, <1>2, <1>3, ConcatEmptySeq
  <2> QED
    BY <1>2, <1>3, <2>1 DEF own, T
<1>4. CASE assistant # <<>>
  <2> DEFINE x == << user >>
             y == << assistant >>
  <2>1. own = x \o y
    BY <1>1, <1>4
  <2>2. /\ x \in Seq(T) /\ y \in Seq(T) /\ Len(x) = 1 /\ Len(y) = 1
        /\ x[1] = user /\ y[1] = assistant
    BY <1>2
  <2> HIDE DEF x, y
  <2>3. /\ own \in Seq(T) /\ Len(own) = 2
        /\ \A i \in 1 .. 2 : own[i] = IF i <= 1 THEN x[i] ELSE y[i - 1]
    <3>1. /\ x \o y \in Seq(T) /\ Len(x \o y) = Len(x) + Len(y)
          /\ \A i \in 1 .. Len(x) + Len(y) : (x \o y)[i] = IF i <= Len(x) THEN x[i] ELSE y[i - Len(x)]
      BY <2>2, ConcatProperties
    <3> QED
      BY <2>1, <2>2, <3>1
  <2>4. own[1] = x[1] /\ own[2] = y[1]
    BY <2>3
  <2> QED
    BY <1>4, <2>2, <2>3, <2>4 DEF own, T
<1> QED
  BY <1>3, <1>4

KeptOf(texts, half) ==
    [i \in 1 .. half |-> [user |-> texts[2 * i - 1], assistant |-> texts[2 * i]]]

OwnOf(texts, half) ==
    FlattenSeq([i \in 1 .. Len(KeptOf(texts, half)) |-> OwnHistory(KeptOf(texts, half)[i])])

\* The histories of the runs' handles, one after another, say what the texts
\* of a conversation say.
LEMMA OwnSpoken ==
    ASSUME NEW texts \in Seq(Seq(Nat)), NEW half \in Nat, Len(texts) = 2 * half,
           TextsInOrder(texts)
    PROVE  Only(OwnOf(texts, half), ToSet(OwnOf(texts, half)) \ {<<>>}) =
               Only(texts, ToSet(texts) \ {<<>>})
<1> DEFINE T == Seq(Nat)
           own == OwnOf(texts, half)
           kept == KeptOf(texts, half)
           seqs == [i \in 1 .. half |-> OwnHistory(kept[i])]
<1>1. Len(kept) = half /\ own = FlattenSeq(seqs)
  BY DEF KeptOf, OwnOf
<1> HIDE DEF own
<1>2. ASSUME NEW i \in 1 .. half
      PROVE  /\ 2 * i - 1 \in 1 .. Len(texts) /\ 2 * i \in 1 .. Len(texts)
             /\ seqs[i] \in Seq(T) /\ seqs[i][1] = texts[2 * i - 1]
             /\ Len(seqs[i]) = (IF texts[2 * i] = <<>> THEN 1 ELSE 2)
             /\ texts[2 * i] # <<>> => seqs[i][2] = texts[2 * i]
  <2> DEFINE user == texts[2 * i - 1]
             assistant == texts[2 * i]
             mine == OwnHistory([user |-> user, assistant |-> assistant])
  <2>1. 2 * i - 1 \in 1 .. Len(texts) /\ 2 * i \in 1 .. Len(texts)
    OBVIOUS
  <2>2. user \in Seq(Nat) /\ assistant \in Seq(Nat)
    BY <2>1, ElementOfSeq
  <2>3. seqs[i] = mine
    BY <1>2 DEF KeptOf
  <2>4. /\ mine \in Seq(Seq(Nat)) /\ Len(mine) = (IF assistant = <<>> THEN 1 ELSE 2)
        /\ mine[1] = user /\ (assistant # <<>> => mine[2] = assistant)
    <3> HIDE DEF user, assistant
    <3> QED
      BY <2>2, OwnHistoryIs
  <2> HIDE DEF mine, seqs
  <2> QED
    BY <2>1, <2>3, <2>4
<1>3. seqs \in Seq(Seq(T)) /\ Len(seqs) = half
  <2> HIDE DEF T
  <2>1. \A i \in 1 .. half : OwnHistory(kept[i]) \in Seq(T)
    BY <1>2
  <2> QED
    BY <2>1
<1> HIDE DEF seqs, kept
<1>4. own \in Seq(T) /\ \E row, col : Placed(own, seqs, half, row, col)
  <2> HIDE DEF T
  <2> QED
    BY <1>1, <1>3, FlattenPlaces
<1>5. PICK row, col : Placed(own, seqs, half, row, col)
  BY <1>4
<1> DEFINE src == [k \in 1 .. Len(own) |-> 2 * row[k] - 2 + col[k]]
<1>6. ASSUME NEW k \in 1 .. Len(own)
      PROVE  /\ row[k] \in 1 .. half /\ col[k] \in {1, 2}
             /\ src[k] = 2 * row[k] - 2 + col[k] /\ src[k] \in 1 .. Len(texts)
             /\ own[k] = texts[src[k]]
  <2>1. row[k] \in 1 .. half /\ col[k] \in 1 .. Len(seqs[row[k]]) /\ own[k] = seqs[row[k]][col[k]]
    BY <1>5 DEF Placed
  <2> DEFINE i == row[k]
  <2>2. /\ i \in 1 .. half
        /\ 2 * i - 1 \in 1 .. Len(texts) /\ 2 * i \in 1 .. Len(texts)
        /\ seqs[i][1] = texts[2 * i - 1]
        /\ Len(seqs[i]) = (IF texts[2 * i] = <<>> THEN 1 ELSE 2)
        /\ texts[2 * i] # <<>> => seqs[i][2] = texts[2 * i]
    BY <1>2, <2>1
  <2>3. src[k] = 2 * i - 2 + col[k]
    OBVIOUS
  <2>4. col[k] \in 1 .. Len(seqs[i]) /\ own[k] = seqs[i][col[k]]
    BY <2>1
  <2> HIDE DEF i, src
  <2>5. col[k] = 1 \/ (col[k] = 2 /\ texts[2 * i] # <<>>)
    <3>1. CASE texts[2 * i] = <<>>
      <4>1. Len(seqs[i]) = 1
        BY <2>2, <3>1
      <4> QED
        BY <2>4, <4>1
    <3>2. CASE texts[2 * i] # <<>>
      <4>1. Len(seqs[i]) = 2
        BY <2>2, <3>2
      <4> QED
        BY <2>4, <3>2, <4>1
    <3> QED
      BY <3>1, <3>2
  <2>6. CASE col[k] = 1
    <3>1. src[k] = 2 * i - 1
      BY <2>2, <2>3, <2>6
    <3> QED
      BY <2>2, <2>3, <2>4, <2>6, <3>1 DEF i
  <2>7. CASE col[k] = 2 /\ texts[2 * i] # <<>>
    <3>1. src[k] = 2 * i
      BY <2>2, <2>3, <2>7
    <3> QED
      BY <2>2, <2>3, <2>4, <2>7, <3>1 DEF i
  <2> QED
    BY <2>5, <2>6, <2>7
<1>7. src \in [1 .. Len(own) -> 1 .. Len(texts)]
  BY <1>6
<1> HIDE DEF src
<1>8. ASSUME NEW k \in 1 .. Len(own), NEW l \in 1 .. Len(own), k < l PROVE src[k] < src[l]
  <2>1. row[k] < row[l] \/ (row[k] = row[l] /\ col[k] < col[l])
    BY <1>5, <1>8 DEF Placed
  <2> DEFINE i == row[k]
             j == row[l]
             c == col[k]
             d == col[l]
  <2>2. i \in 1 .. half /\ j \in 1 .. half /\ c \in {1, 2} /\ d \in {1, 2}
    BY <1>6
  <2>3. src[k] = 2 * i - 2 + c
    BY <1>6
  <2>4. src[l] = 2 * j - 2 + d
    BY <1>6
  <2>5. i < j \/ (i = j /\ c < d)
    BY <2>1
  <2> HIDE DEF i, j, c, d
  <2>6. 2 * i - 2 + c < 2 * j - 2 + d
    <3>1. CASE i < j
      <4>1. i + 1 <= j
        BY <2>2, <3>1
      <4> QED
        BY <2>2, <4>1
    <3>2. CASE i = j /\ c < d
      BY <2>2, <3>2
    <3> QED
      BY <2>5, <3>1, <3>2
  <2> QED
    BY <2>3, <2>4, <2>6
<1>9. ASSUME NEW m \in 1 .. Len(texts), texts[m] # <<>> PROVE \E k \in 1 .. Len(own) : src[k] = m
  <2>1. PICK i \in 1 .. half : m = 2 * i - 1 \/ m = 2 * i
    <3>1. (m + 1) \div 2 \in 1 .. half
          /\ (m = 2 * ((m + 1) \div 2) - 1 \/ m = 2 * ((m + 1) \div 2))
      OBVIOUS
    <3> QED
      BY <3>1
  <2>2. CASE m = 2 * i - 1
    <3>1. 1 \in 1 .. Len(seqs[i])
      <4>1. Len(seqs[i]) = (IF texts[2 * i] = <<>> THEN 1 ELSE 2)
        BY <1>2
      <4>2. CASE texts[2 * i] = <<>>
        BY <4>1, <4>2
      <4>3. CASE texts[2 * i] # <<>>
        BY <4>1, <4>3
      <4> QED
        BY <4>2, <4>3
    <3>2. PICK k \in 1 .. Len(own) : row[k] = i /\ col[k] = 1
      BY <1>5, <3>1 DEF Placed
    <3>3. src[k] = 2 * i - 2 + 1
      BY <1>6, <3>2
    <3> QED
      BY <2>2, <3>3
  <2>3. CASE m = 2 * i
    <3>1. 2 \in 1 .. Len(seqs[i])
      <4>1. Len(seqs[i]) = 2
        BY <1>2, <1>9, <2>3
      <4> QED
        BY <4>1
    <3>2. PICK k \in 1 .. Len(own) : row[k] = i /\ col[k] = 2
      BY <1>5, <3>1 DEF Placed
    <3>3. src[k] = 2 * i - 2 + 2
      BY <1>6, <3>2
    <3> QED
      BY <2>3, <3>3
  <2> QED
    BY <2>1, <2>2, <2>3
<1>10. \A k \in 1 .. Len(own) : own[k] = texts[src[k]]
  BY <1>6
<1>11. own \in Seq(Seq(Nat))
  BY <1>4
<1> HIDE DEF T
<1> QED
  BY <1>7, <1>8, <1>9, <1>10, <1>11, SameSpoken DEF own

\* The pairs of question and answer that a chain keeps are the turns of the conversation,
\* but for the turns with nothing in them.
LEMMA ChainsAgree ==
    ASSUME ConversationInv
    PROVE  ChainAgrees
<1> SUFFICES ASSUME Chattable, Alternates PROVE ChainAgrees
  BY DEF ChainAgrees
<1> DEFINE turns == ChatTurns
           n == Len(turns)
           half == n \div 2
           last == Last(turns)
           front == Front(turns)
           texts == [k \in 1 .. 2 * half |-> turns[k].text]
           whole == Respond(<<>>, <<>>, turns)
           own == FlattenSeq([i \in 1 .. Len(Transcripts) |-> OwnHistory(Transcripts[i])])
<1>1. n \in Nat \ {0} /\ DOMAIN turns = 1 .. n
  BY ChatTurnsChosen
<1>2. \A k \in 1 .. n : /\ turns[k].role \in Roles /\ turns[k].text \in Seq(Nat)
                        /\ turns[k] = Texted(turns[k].role, turns[k].text)
  BY ChatTexts
<1>3. \A k, l \in 1 .. n : k < l =>
         \A a \in ToSet(turns[k].text), b \in ToSet(turns[l].text) : a < b
  BY ChatTexts
<1>4. \A i \in 1 .. n : turns[i].role = (IF i % 2 = 1 THEN "user" ELSE "assistant")
  BY DEF Alternates
<1>5. turns[n].role = "user"
  BY DEF Chattable, Last
<1>6. Transcripts = [i \in 1 .. half |-> [user |-> turns[2 * i - 1].text, assistant |-> turns[2 * i].text]]
  BY DEF Transcripts
<1> HIDE DEF turns
<1>7. n % 2 = 1
  <2>1. n \in 1 .. n
    BY <1>1
  <2> QED
    BY <1>4, <1>5, <2>1
<1>8. half \in Nat /\ n = 2 * half + 1
  <2> HIDE DEF n
  <2> QED
    BY <1>1, <1>7
<1> HIDE DEF half
<1>9. Len(front) = 2 * half /\ DOMAIN front = 1 .. 2 * half
      /\ \A i \in 1 .. 2 * half : front[i] = turns[i] /\ i \in 1 .. n
  <2>1. Len(front) = n - 1 /\ DOMAIN front = 1 .. n - 1 /\ \A i \in 1 .. n - 1 : front[i] = turns[i]
    BY <1>1, FrontOf
  <2> HIDE DEF front, n
  <2> QED
    BY <1>8, <2>1
<1>10. \A i \in 1 .. 2 * half : /\ turns[i].text \in Seq(Nat) /\ turns[i] \in TurnType
                                /\ Content(turns[i]) = turns[i].text
  <2> SUFFICES ASSUME NEW i \in 1 .. 2 * half
               PROVE  /\ turns[i].text \in Seq(Nat) /\ turns[i] \in TurnType
                      /\ Content(turns[i]) = turns[i].text
    OBVIOUS
  <2> DEFINE role == turns[i].role
             text == turns[i].text
  <2>1. role \in Roles /\ text \in Seq(Nat) /\ turns[i] = Texted(role, text)
    BY <1>2, <1>9
  <2> HIDE DEF role, text
  <2>2. Texted(role, text) \in TurnType /\ Content(Texted(role, text)) = text
    BY <2>1, TextedTyped
  <2>3. text = turns[i].text
    BY DEF text
  <2> QED
    BY <2>1, <2>2, <2>3
<1>11. front \in Seq(TurnType)
  <2>1. front = SubSeq(turns, 1, n - 1)
    BY DEF Front
  <2>2. n - 1 \in Int /\ 1 \in Int /\ \A i \in 1 .. n - 1 : turns[i] \in TurnType
    BY <1>8, <1>10
  <2> HIDE DEF n, front
  <2> QED
    BY <2>1, <2>2, SubSeqProperties
<1>12. texts \in Seq(Seq(Nat)) /\ Len(texts) = 2 * half
       /\ \A k \in 1 .. 2 * half : texts[k] = turns[k].text
  BY <1>8, <1>10
<1>13. TextsInOrder(texts)
  <2> HIDE DEF texts
  <2> QED
    BY <1>3, <1>9, <1>12 DEF TextsInOrder
<1>14. \A i \in 1 .. half : /\ 2 * i - 1 \in 1 .. 2 * half /\ 2 * i \in 1 .. 2 * half
                            /\ (2 * i - 1) % 2 = 1 /\ (2 * i) % 2 = 0
  BY <1>8
<1> HIDE DEF n, front, texts
<1>15. Transcripts = KeptOf(texts, half) /\ Len(Transcripts) = half
  <2>1. \A i \in 1 .. half : texts[2 * i - 1] = turns[2 * i - 1].text /\ texts[2 * i] = turns[2 * i].text
    BY <1>12, <1>14
  <2>2. Len(Transcripts) = half
    BY <1>6, <1>8
  <2> QED
    BY <1>6, <2>1, <2>2 DEF KeptOf
<1>16. AncestorTurns(Transcripts) = front
  <2> DEFINE pair(i) == << [role |-> "user", text |-> Transcripts[i].user, thinking |-> <<>>, calls |-> <<>>],
                           [role |-> "assistant", text |-> Transcripts[i].assistant,
                            thinking |-> <<>>, calls |-> <<>>] >>
             seqs == [i \in 1 .. half |-> pair(i)]
  <2>1. AncestorTurns(Transcripts) = FlattenSeq(seqs)
    BY <1>15 DEF AncestorTurns
  <2>2. ASSUME NEW i \in 1 .. half PROVE pair(i) = << front[2 * i - 1], front[2 * i] >>
    <3> DEFINE a == 2 * i - 1
               b == 2 * i
    <3>1. a \in 1 .. 2 * half /\ b \in 1 .. 2 * half /\ a % 2 = 1 /\ b % 2 = 0
      BY <1>14
    <3>2. Transcripts[i].user = turns[a].text /\ Transcripts[i].assistant = turns[b].text
      BY <1>6
    <3>3. pair(i) = << Texted("user", Transcripts[i].user), Texted("assistant", Transcripts[i].assistant) >>
      BY DEF Texted
    <3> HIDE DEF a, b, pair
    <3>4. a \in 1 .. n /\ b \in 1 .. n /\ front[a] = turns[a] /\ front[b] = turns[b]
      BY <1>9, <3>1
    <3>5. turns[a].role = "user" /\ turns[b].role = "assistant"
      <4>1. a % 2 = 1 /\ b % 2 # 1
        BY <3>1
      <4> QED
        BY <1>4, <3>4, <4>1
    <3>6. turns[a] = Texted("user", turns[a].text) /\ turns[b] = Texted("assistant", turns[b].text)
      BY <1>2, <3>4, <3>5
    <3>7. pair(i) = << front[a], front[b] >>
      BY <3>2, <3>3, <3>4, <3>6
    <3> QED
      BY <3>7 DEF a, b
  <2> HIDE DEF pair
  <2>3. ASSUME NEW i \in 1 .. half
        PROVE  seqs[i] \in Seq(TurnType) /\ seqs[i] = << front[2 * i - 1], front[2 * i] >>
    <3> DEFINE x == front[2 * i - 1]
               y == front[2 * i]
    <3>1. 2 * i - 1 \in 1 .. Len(front) /\ 2 * i \in 1 .. Len(front)
      BY <1>9, <1>14
    <3>2. x \in TurnType /\ y \in TurnType
      BY <1>11, <3>1, ElementOfSeq
    <3>3. seqs[i] = << x, y >>
      BY <2>2
    <3> HIDE DEF x, y, seqs
    <3>4. << x, y >> \in Seq(TurnType)
      BY <3>2
    <3> QED
      BY <3>3, <3>4 DEF x, y
  <2>4. seqs \in Seq(Seq(TurnType)) /\ Len(seqs) = half
    <3>1. \A i \in 1 .. half : pair(i) \in Seq(TurnType)
      BY <2>3
    <3> QED
      BY <1>8, <3>1
  <2> HIDE DEF seqs
  <2>5. FlattenSeq(seqs) = front
    BY <1>8, <1>9, <1>11, <2>3, <2>4, FlattenPairs
  <2> QED
    BY <2>1, <2>5
<1>17. AncestorTurns(<<>>) = <<>>
  <2> DEFINE none == [i \in 1 .. Len(<<>>) |->
         << [role |-> "user", text |-> <<>>[i].user, thinking |-> <<>>, calls |-> <<>>],
            [role |-> "assistant", text |-> <<>>[i].assistant, thinking |-> <<>>, calls |-> <<>>] >>]
  <2>1. AncestorTurns(<<>>) = FlattenSeq(none)
    BY DEF AncestorTurns
  <2>2. none = <<>> /\ Len(none) = 0
    OBVIOUS
  <2> HIDE DEF none
  <2>3. FlattenSeq(none) = none
    BY <2>2, FlattenFunction
  <2> QED
    BY <2>1, <2>2, <2>3
<1>18. Last(<< last >>) = last /\ Front(<< last >>) = <<>>
  <2> HIDE DEF last
  <2>1. Len(<< last >>) = 1 /\ << last >>[1] = last /\ 1 - 1 = 0
    OBVIOUS
  <2>2. SubSeq(<< last >>, 1, 0) = <<>>
    BY SubSeqEmpty
  <2> QED
    BY <2>1, <2>2 DEF Last, Front
<1>19. front \o <<>> = front /\ <<>> \o front = front
  BY <1>11, ConcatEmptySeq
<1>20. Respond(<<>>, Transcripts, << last >>) = whole
  <2>1. Respond(<<>>, Transcripts, << last >>) =
           Mapped(<<>> \o SystemText \o last.text, front)
    BY <1>16, <1>18, <1>19 DEF Respond
  <2>2. whole = Mapped(<<>> \o SystemText \o last.text, front)
    BY <1>17, <1>19 DEF Respond, front
  <2> QED
    BY <2>1, <2>2
<1>21. whole.history = texts
  <2>1. whole.history = [i \in 1 .. Len(front) |-> Content(front[i])]
    <3>1. whole = Mapped(<<>> \o SystemText \o last.text, front)
      BY <1>17, <1>19 DEF Respond, front
    <3> HIDE DEF whole
    <3> QED
      BY <3>1 DEF Mapped, History
  <2> HIDE DEF whole
  <2>2. \A i \in 1 .. 2 * half : Content(front[i]) = turns[i].text
    BY <1>9, <1>10
  <2>3. whole.history = [i \in 1 .. 2 * half |-> turns[i].text]
    BY <1>9, <2>1, <2>2
  <2> QED
    BY <2>3 DEF texts
<1>22. Only(own, ToSet(own) \ {<<>>}) = Only(texts, ToSet(texts) \ {<<>>})
  <2>1. own = OwnOf(texts, half)
    BY <1>15 DEF OwnOf
  <2> HIDE DEF own
  <2> QED
    BY <1>8, <1>12, <1>13, <2>1, OwnSpoken
<1> HIDE DEF own, whole
<1>23. Only(own, ToSet(own) \ {<<>>}) = Only(whole.history, ToSet(whole.history) \ {<<>>})
  BY <1>21, <1>22
<1> QED
  BY <1>20, <1>23 DEF ChainAgrees, own, whole, last, turns

-----------------------------------------------------------------------------
(* The histories are faithful.                                           *)

\* Chat completions carry every piece of the conversation once and in order.
THEOREM ChatFaithfulHolds == ConversationSpec => []ChatFaithful
<1>1. ConversationInv => ChatFaithful
  BY ChatIsFaithful
<1> QED
  BY <1>1, ConversationInvariance, PTL

\* So does OpenCode's prompt, whose text repeats the history after a tool.
THEOREM OpenCodeFaithfulHolds == ConversationSpec => []OpenCodeFaithful
<1>1. ConversationInv => OpenCodeFaithful
  BY OpenCodeIsFaithful
<1> QED
  BY <1>1, ConversationInvariance, PTL

\* And Pi's, with the latest question taken out of the history.
THEOREM PiFaithfulHolds == ConversationSpec => []PiFaithful
<1>1. ConversationInv => PiFaithful
  BY PiIsFaithful
<1> QED
  BY <1>1, ConversationInvariance, PTL

\* A chain of responses is told what the whole conversation would tell.
THEOREM ChainAgreesHolds == ConversationSpec => []ChainAgrees
<1>1. ConversationInv => ChainAgrees
  BY ChainsAgree
<1> QED
  BY <1>1, ConversationInvariance, PTL

\* The mappings lose, repeat and reorder nothing of a conversation.
THEOREM HistoryFaithfulHolds == ConversationSpec => []HistoryFaithful
<1>1. ConversationInv => HistoryFaithful
  BY ChatIsFaithful, OpenCodeIsFaithful, PiIsFaithful, ChainsAgree DEF HistoryFaithful
<1> QED
  BY <1>1, ConversationInvariance, PTL

=============================================================================
