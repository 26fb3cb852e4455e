------------------------- MODULE ResponsesServer_proofs -------------------------
(***************************************************************************)
(* Proofs about the server's requests and its store (ResponsesServer).     *)
(***************************************************************************)
EXTENDS ResponsesServer, WellFoundedInduction, SequenceTheorems, TLAPS

-----------------------------------------------------------------------------
(* Numbers and sequences.                                                  *)

\* The order of the naturals as a relation: a minimal counterexample takes the
\* place of induction.
LEMMA NaturalOrder == \E R : /\ IsWellFoundedOn(R, Nat)
                             /\ \A x, y \in Nat : x < y => <<x, y>> \in R
<1>1. IsWellFoundedOn(OpToRel(<, Nat), Nat) BY NatLessThanWellFounded
<1>2. \A x, y \in Nat : x < y => <<x, y>> \in OpToRel(<, Nat) BY SMT DEF OpToRel
<1>. QED BY <1>1, <1>2, Zenon

LEMMA Least ==
    ASSUME NEW T, T \subseteq Nat, T # {}
    PROVE  \E n \in T : \A m \in T : n <= m
<1>1. PICK R : /\ IsWellFoundedOn(R, Nat)
               /\ \A x, y \in Nat : x < y => <<x, y>> \in R BY NaturalOrder
<1>2. IsWellFoundedOn(R, Nat) BY <1>1
<1>3. \E x \in T : \A y \in T : ~ (<<y, x>> \in R) BY <1>2, WFMin, Zenon
<1>4. PICK n \in T : \A y \in T : ~ (<<y, n>> \in R) BY <1>3
<1>5. \A m \in T : ~ (m < n) BY <1>1, <1>4
<1>. QED BY <1>5

-----------------------------------------------------------------------------
(* The chain of a response is the lineage it was made with.                *)

\* What the store keeps: a row's lineage is that of the row it continues.
Before(id) == IF id = NoId THEN <<>> ELSE lineage[id]

LineageKept ==
    \A i \in Ids : rows[i].status # "absent" => lineage[i] = Append(Before(rows[i].prev), i)

\* Every chain of completed rows is the lineage of its last: the first row
\* whose chain is not would have a predecessor whose chain is not either.
LEMMA ChainIsLineage ==
    ASSUME LineageKept, NoId \notin Ids,
           NEW n \in Nat \ {0}, NEW chain \in [1 .. n -> Ids], Linked(chain)
    PROVE  chain = lineage[chain[n]]
<1> DEFINE Wrong == {i \in 1 .. n : lineage[chain[i]] # [j \in 1 .. i |-> chain[j]]}
<1>1. ASSUME Wrong # {} PROVE FALSE
  <2>1. Wrong \subseteq Nat OBVIOUS
  <2>2. PICK i \in Wrong : \A j \in Wrong : i <= j BY <1>1, <2>1, Least
  <2>3. /\ rows[chain[i]].status = "completed"
        /\ rows[chain[i]].prev = IF i = 1 THEN NoId ELSE chain[i - 1]
    BY DEF Linked
  <2>4. lineage[chain[i]] = Append(Before(rows[chain[i]].prev), chain[i])
    BY <2>3 DEF LineageKept
  <2>5. CASE i = 1
    BY <2>3, <2>4, <2>5 DEF Before
  <2>6. CASE i # 1
    <3>1. i - 1 \in 1 .. n /\ i - 1 \notin Wrong BY <2>2, <2>6
    <3>2. lineage[chain[i - 1]] = [j \in 1 .. (i - 1) |-> chain[j]] BY <3>1
    <3>3. lineage[chain[i]] = Append([j \in 1 .. (i - 1) |-> chain[j]], chain[i])
      BY <2>3, <2>4, <2>6, <3>1, <3>2 DEF Before
    <3>4. Append([j \in 1 .. (i - 1) |-> chain[j]], chain[i]) = [j \in 1 .. i |-> chain[j]]
      BY <3>1
    <3>. QED BY <3>3, <3>4
  <2>. QED BY <2>5, <2>6
<1>2. n \in 1 .. n /\ n \notin Wrong BY <1>1
<1>3. lineage[chain[n]] = [j \in 1 .. n |-> chain[j]] BY <1>2
<1>. QED BY <1>3

\* loadAncestorChain gives the whole lineage or an error, never a part.
LEMMA AncestorsAreLineage ==
    ASSUME LineageKept, NoId \notin Ids, MaxChainHops \in Nat,
           NEW id \in Ids \union {NoId}, Ancestors(id) # Broken
    PROVE  /\ Ancestors(id) = Before(id)
           /\ id # NoId => rows[id].status = "completed"
<1> DEFINE chains == {chain \in UNION {[1 .. n -> Ids] : n \in 1 .. MaxChainHops} :
                         chain[Len(chain)] = id /\ Linked(chain)}
<1>1. CASE id = NoId BY <1>1 DEF Ancestors, Before
<1>2. CASE id # NoId
  <2>1. chains # {} BY <1>2 DEF Ancestors
  <2>2. Ancestors(id) = CHOOSE chain \in chains : TRUE BY <1>2, <2>1 DEF Ancestors
  <2>3. Ancestors(id) \in chains BY <2>1, <2>2
  <2>4. PICK n \in 1 .. MaxChainHops : Ancestors(id) \in [1 .. n -> Ids] BY <2>3
  <2>5. Len(Ancestors(id)) = n BY <2>4
  <2>6. Linked(Ancestors(id)) /\ Ancestors(id)[n] = id BY <2>3, <2>5
  <2>7. Ancestors(id) = lineage[id] BY <2>4, <2>6, ChainIsLineage
  <2>8. rows[id].status = "completed" BY <2>4, <2>6 DEF Linked
  <2>. QED BY <1>2, <2>7, <2>8 DEF Before
<1>. QED BY <1>1, <1>2

\* A response that is not there cannot be continued.
LEMMA AbsentIsBroken ==
    ASSUME NEW id \in Ids, NoId \notin Ids, MaxChainHops \in Nat, rows[id].status # "completed"
    PROVE  Ancestors(id) = Broken
<1> DEFINE chains == {chain \in UNION {[1 .. n -> Ids] : n \in 1 .. MaxChainHops} :
                         chain[Len(chain)] = id /\ Linked(chain)}
<1>1. ASSUME NEW chain \in chains PROVE FALSE
  <2>1. PICK n \in 1 .. MaxChainHops : chain \in [1 .. n -> Ids] OBVIOUS
  <2>2. Len(chain) = n /\ chain[n] = id BY <2>1
  <2>. QED BY <2>1, <2>2 DEF Linked
<1>. QED BY <1>1 DEF Ancestors

-----------------------------------------------------------------------------
(* What is written.                                                        *)

Words == Answers \union Chunks
Has(s, word) == \E i \in 1 .. Len(s) : s[i] = word
Text(n) == [i \in 1 .. n |-> "delta"]

LEMMA HasConcat ==
    ASSUME NEW S, NEW s \in Seq(S), NEW t \in Seq(S), NEW word
    PROVE  Has(s \o t, word) <=> Has(s, word) \/ Has(t, word)
<1>1. ASSUME Has(s \o t, word) PROVE Has(s, word) \/ Has(t, word)
  <2>1. PICK i \in 1 .. Len(s) + Len(t) : (s \o t)[i] = word BY <1>1 DEF Has
  <2>2. CASE i <= Len(s) BY <2>1, <2>2 DEF Has
  <2>3. CASE i > Len(s)
    <3>1. i - Len(s) \in 1 .. Len(t) /\ t[i - Len(s)] = word BY <2>1, <2>3
    <3>. QED BY <3>1 DEF Has
  <2>. QED BY <2>2, <2>3
<1>2. ASSUME Has(s, word) PROVE Has(s \o t, word)
  <2>1. PICK i \in 1 .. Len(s) : s[i] = word BY <1>2 DEF Has
  <2>2. i \in 1 .. Len(s \o t) /\ (s \o t)[i] = word BY <2>1
  <2>. QED BY <2>2 DEF Has
<1>3. ASSUME Has(t, word) PROVE Has(s \o t, word)
  <2>1. PICK i \in 1 .. Len(t) : t[i] = word BY <1>3 DEF Has
  <2>2. i + Len(s) \in 1 .. Len(s \o t) /\ (s \o t)[i + Len(s)] = word BY <2>1
  <2>. QED BY <2>2 DEF Has
<1>. QED BY <1>1, <1>2, <1>3

LEMMA BegunIsNotEmpty ==
    ASSUME NEW S, NEW s \in Seq(S), NEW t \in Seq(S), Len(s) # 0
    PROVE  s \o t # <<>>
<1>1. Len(s \o t) = Len(s) + Len(t) /\ Len(<<>>) = 0 OBVIOUS
<1>. QED BY <1>1

\* The openings and ends of the streams.
Openings == {Opening, <<"ok">>}
Lasts == {Ending, Failing, <<>>, <<"stop", "done">>, <<"stop", "error">>, <<"error">>}

LEMMA WordsOf ==
    /\ \A o \in Openings : o \in Seq(Words) /\ Len(o) \in {1, 4}
    /\ \A last \in Lasts : last \in Seq(Words) /\ Len(last) \in 0 .. 4
    /\ <<"end">> \in Seq(Words)
    /\ \A n \in Nat : Text(n) \in Seq(Words) /\ Len(Text(n)) = n
<1>1. /\ {"ok", "delta", "stop", "done", "thrown", "end", "error", "failed"} \subseteq Words
      /\ {"created", "in_progress", "item_added", "part_added"} \subseteq Words
      /\ {"text_done", "part_done", "item_done", "completed"} \subseteq Words
  <2>1. \A i \in 1 .. 4 : Opening[i] \in Words /\ Ending[i] \in Words BY DEF Words, Chunks
  <2>2. \A i \in 1 .. 2 : Failing[i] \in Words BY DEF Words, Chunks
  <2>3. /\ Opening[1] = "created" /\ Opening[2] = "in_progress"
        /\ Opening[3] = "item_added" /\ Opening[4] = "part_added"
        /\ Ending[1] = "text_done" /\ Ending[2] = "part_done"
        /\ Ending[3] = "item_done" /\ Ending[4] = "completed"
        /\ Failing[1] = "failed" /\ Failing[2] = "error"
    BY DEF Opening, Ending, Failing
  <2>. QED BY <2>1, <2>2, <2>3 DEF Words, Chunks
<1>. HIDE DEF Words
<1>2. Opening \in Seq(Words) /\ Len(Opening) = 4 BY <1>1 DEF Opening
<1>3. Ending \in Seq(Words) /\ Len(Ending) = 4 BY <1>1 DEF Ending
<1>4. Failing \in Seq(Words) /\ Len(Failing) = 2 BY <1>1 DEF Failing
<1>5. /\ <<"ok">> \in Seq(Words) /\ Len(<<"ok">>) = 1
      /\ <<"stop", "done">> \in Seq(Words) /\ Len(<<"stop", "done">>) = 2
      /\ <<"stop", "error">> \in Seq(Words) /\ Len(<<"stop", "error">>) = 2
      /\ <<"error">> \in Seq(Words) /\ Len(<<"error">>) = 1
      /\ <<"end">> \in Seq(Words)
  BY <1>1
<1>6. \A n \in Nat : Text(n) \in Seq(Words) /\ Len(Text(n)) = n BY <1>1 DEF Text
<1>7. <<>> \in Seq(Words) /\ Len(<<>>) = 0 OBVIOUS
<1>8. \A o \in Openings : o \in Seq(Words) /\ Len(o) \in {1, 4}
  BY <1>2, <1>5 DEF Openings
<1>9. \A last \in Lasts : last \in Seq(Words) /\ Len(last) \in 0 .. 4
  <2>. SUFFICES ASSUME NEW last \in Lasts PROVE last \in Seq(Words) /\ Len(last) \in 0 .. 4
    OBVIOUS
  <2>1. CASE last = Ending BY <1>3, <2>1
  <2>2. CASE last = Failing BY <1>4, <2>2
  <2>3. CASE last = <<>> BY <1>7, <2>3
  <2>4. CASE last = <<"stop", "done">> BY <1>5, <2>4
  <2>5. CASE last = <<"stop", "error">> BY <1>5, <2>5
  <2>6. CASE last = <<"error">> BY <1>5, <2>6
  <2>. QED BY <2>1, <2>2, <2>3, <2>4, <2>5, <2>6 DEF Lasts
<1>. QED BY <1>5, <1>6, <1>8, <1>9

\* A stream is a sequence of words; it says "completed" or "done" only at its
\* end, and no stream says "200".
LEMMA StreamedWords ==
    ASSUME NEW o \in Openings, NEW n \in Nat, NEW last \in Lasts
    PROVE  /\ o \o Text(n) \in Seq(Words)
           /\ Streamed(o, n, last) \in Seq(Words)
           /\ Len(Streamed(o, n, last)) = Len(o) + n + Len(last) + 1
           /\ \A word \in {"200", "completed", "done"} :
                 Has(Streamed(o, n, last), word) <=> Has(last, word)
<1>1. /\ o \in Seq(Words) /\ last \in Seq(Words) /\ <<"end">> \in Seq(Words)
      /\ Text(n) \in Seq(Words) /\ Len(Text(n)) = n /\ Len(o) \in Nat /\ Len(last) \in Nat
  BY WordsOf
<1> DEFINE a == o \o Text(n)
           b == a \o last
           c == b \o <<"end">>
<1>2. a \in Seq(Words) /\ Len(a) = Len(o) + n BY <1>1
<1>3. b \in Seq(Words) /\ Len(b) = Len(o) + n + Len(last)
  <2>1. b \in Seq(Words) /\ Len(b) = Len(a) + Len(last)
    <3>. HIDE DEF a
    <3>. QED BY <1>1, <1>2, ConcatProperties, Zenon
  <2>. HIDE DEF b, a
  <2>. QED BY <1>1, <1>2, <2>1
<1>4. c \in Seq(Words) /\ Len(c) = Len(o) + n + Len(last) + 1
  <2>1. c \in Seq(Words) /\ Len(c) = Len(b) + Len(<<"end">>)
    <3>. HIDE DEF b
    <3>. QED BY <1>1, <1>3, ConcatProperties, Zenon
  <2>. HIDE DEF c, b
  <2>. QED BY <1>1, <1>3, <2>1
<1>5. Streamed(o, n, last) = c BY DEF Streamed, Text
<1>6. ASSUME NEW word \in {"200", "completed", "done"}
      PROVE  Has(c, word) <=> Has(last, word)
  <2>1. ~ Has(o, word)
    BY <1>6 DEF Has, Openings, Opening
  <2>2. ~ Has(Text(n), word) BY <1>1, <1>6 DEF Has, Text
  <2>3. ~ Has(<<"end">>, word) BY <1>6 DEF Has
  <2>4. Has(a, word) <=> Has(o, word) \/ Has(Text(n), word) BY <1>1, HasConcat
  <2>5. Has(b, word) <=> Has(a, word) \/ Has(last, word)
    <3>. HIDE DEF a
    <3>. QED BY <1>1, <1>2, HasConcat
  <2>6. Has(c, word) <=> Has(b, word) \/ Has(<<"end">>, word)
    <3>. HIDE DEF b
    <3>. QED BY <1>1, <1>3, HasConcat
  <2>. QED BY <2>1, <2>2, <2>3, <2>4, <2>5, <2>6
<1>. HIDE DEF c
<1>. QED BY <1>2, <1>4, <1>5, <1>6

LEMMA LastsSay ==
    /\ Has(Ending, "completed") /\ Has(<<"stop", "done">>, "done")
    /\ \A last \in {Failing, <<>>, <<"stop", "error">>, <<"error">>},
          word \in {"200", "completed", "done"} : ~ Has(last, word)
<1>1. Ending[4] = "completed" /\ Len(Ending) = 4 BY DEF Ending
<1>2. <<"stop", "done">>[2] = "done" /\ Len(<<"stop", "done">>) = 2 OBVIOUS
<1>3. \A word \in {"200", "completed", "done"} : ~ Has(Failing, word) BY DEF Has, Failing
<1>4. \A word \in {"200", "completed", "done"} : ~ Has(<<>>, word) BY DEF Has
<1>5. \A word \in {"200", "completed", "done"} : ~ Has(<<"stop", "error">>, word) BY DEF Has
<1>6. \A word \in {"200", "completed", "done"} : ~ Has(<<"error">>, word) BY DEF Has
<1>7. Has(Ending, "completed") BY <1>1 DEF Has
<1>8. Has(<<"stop", "done">>, "done") BY <1>2 DEF Has
<1>. QED BY <1>3, <1>4, <1>5, <1>6, <1>7, <1>8

LEMMA PlainSays ==
    ASSUME NEW status
    PROVE  /\ Len(<<status, "end">>) = 2
           /\ \A word \in {"200", "completed", "done"} :
                 Has(<<status, "end">>, word) <=> status = word
           /\ \A word \in {"200", "completed", "done"} : ~ Has(<<"end">>, word)
BY DEF Has

-----------------------------------------------------------------------------
(* The inductive invariant.                                                *)

OpeningOf(asked) == IF asked.route = "chat" THEN <<"ok">> ELSE Opening
LastOf(asked) == IF asked.route = "chat" THEN <<"stop", "done">> ELSE Ending

\* The type invariant but for what is written, whose type follows from Writing
\* and OneAnswer.
Typed ==
    /\ server \in {"open", "closing", "closed"}
    /\ pin \in BOOLEAN
    /\ rows \in [Ids -> [status : Statuses, prev : Ids \union {NoId}]]
    /\ chats \subseteq Requests
    /\ ask \in [Requests -> Asks]
    /\ stage \in [Requests -> Stages]
    /\ history \in [Requests -> Seq(Ids)]
    /\ DOMAIN out = Requests /\ out = [r \in Requests |-> out[r]]
    /\ gone \subseteq Requests
    /\ lineage \in [Ids -> Seq(Ids)]
    /\ deleted \subseteq Ids

ModelsAreSimple(asked) ==
    /\ asked.route = "models" => ~asked.stream /\ ~asked.store
    /\ asked.route # "response" => asked.prev = NoId

Asked == \A r \in Requests :
    /\ ModelsAreSimple(ask[r])
    /\ stage[r] \in {"opening", "turn", "ending"} => ask[r].route # "models"

\* Before the turn nothing is written, and during it the beginning of a stream.
Writing == \A r \in Requests :
    /\ stage[r] \notin {"turn", "ending", "done"} => out[r] = <<>>
    /\ stage[r] \in {"turn", "ending"} /\ ~ask[r].stream => out[r] = <<>>
    /\ stage[r] \in {"turn", "ending"} /\ ask[r].stream =>
          \E n \in Nat : out[r] = OpeningOf(ask[r]) \o Text(n)

\* The tables have nothing of a request that is not over.
Unborn == \A r \in Requests :
    stage[r] # "done" => rows[r].status = "absent" /\ r \notin chats

\* What a row or a run continues is the row of a request that is over, so that
\* its lineage does not change any more.
Ended(id) == id \in Old \/ (id \in Requests /\ stage[id] = "done")

Ancestry == \A i \in Ids :
    rows[i].status # "absent" /\ rows[i].prev # NoId => Ended(rows[i].prev)

HistoryKept == \A r \in Requests :
    stage[r] \in {"opening", "turn", "ending"} =>
        /\ history[r] = Before(ask[r].prev)
        /\ ask[r].prev # NoId => Ended(ask[r].prev)

\* The inductive part of ToldIffStored, about the requests that are over.
Settled == \A r \in Requests : stage[r] = "done" =>
    LET stored == r \in chats \/ rows[r].status = "completed" IN
    /\ IF ask[r].route # "models" /\ Told(r) /\ ask[r].store
       THEN stored \/ r \in deleted ELSE ~stored
    /\ stored /\ r \in gone => ask[r].stream

IInv ==
    /\ Typed /\ Asked /\ Writing
    /\ Unborn /\ Ancestry /\ LineageKept /\ HistoryKept
    /\ Settled /\ OneAnswer /\ ReplayAgrees

-----------------------------------------------------------------------------
(* What a step does to one request, its row and its completion.            *)

RowKept(i) ==
    /\ rows'[i] = rows[i] /\ lineage'[i] = lineage[i]
    /\ i \in chats' <=> i \in chats

Deletion(i) ==
    /\ lineage'[i] = lineage[i] /\ i \in deleted'
    /\ rows'[i] \in {rows[i], Absent} /\ (i \in chats' => i \in chats)

Inserted(r, status) ==
    /\ stage[r] \in {"opening", "turn", "ending"} /\ ask[r].store
    /\ rows'[r] = [status |-> status, prev |-> ask[r].prev]
    /\ lineage'[r] = Append(history[r], r)
    /\ r \in chats' <=> r \in chats

Same(r) ==
    stage'[r] = stage[r] /\ ask'[r] = ask[r] /\ history'[r] = history[r]

\* A request goes on.
Proceeds(r) ==
    /\ RowKept(r)
    /\ \/ Same(r) /\ out'[r] = out[r]
       \/ /\ Same(r) /\ stage[r] \in {"turn", "ending"} /\ ask[r].stream
          /\ out'[r] = Append(out[r], "delta")
       \/ /\ ~pin /\ stage[r] = "idle" /\ stage'[r] \in {"body", "catalogue"}
          /\ ModelsAreSimple(ask'[r]) /\ history'[r] = history[r] /\ out'[r] = out[r]
       \/ /\ ~pin /\ stage[r] = "body" /\ stage'[r] = "catalogue"
          /\ ask'[r] = ask[r] /\ history'[r] = history[r] /\ out'[r] = out[r]
       \/ /\ stage[r] = "catalogue" /\ stage'[r] = "opening" /\ ask[r].route # "models"
          /\ history'[r] = Ancestors(ask[r].prev) /\ Ancestors(ask[r].prev) # Broken
          /\ ask'[r] = ask[r] /\ out'[r] = out[r]
       \/ /\ stage[r] = "opening" /\ stage'[r] = "turn"
          /\ ask'[r] = ask[r] /\ history'[r] = history[r]
          /\ out'[r] = IF ask[r].stream THEN OpeningOf(ask[r]) ELSE <<>>
       \/ /\ stage[r] = "turn" /\ stage'[r] = "ending"
          /\ ask'[r] = ask[r] /\ history'[r] = history[r] /\ out'[r] = out[r]

\* How a request ends that is not told it was complete, or not to be stored.
Unstored(r) ==
    LET asked == ask'[r] IN
    /\ RowKept(r)
    /\ \/ out'[r] = <<"end">>
       \/ out'[r] = <<>> /\ r \in gone' /\ ~asked.stream
       \/ \E status \in Answers :
             /\ status = "200" => asked.route = "models" \/ ~asked.store
             /\ out'[r] = <<status, "end">>
       \/ /\ asked.stream /\ asked.route = "response"
          /\ \E n \in Nat, last \in {Ending, Failing, <<>>} :
                (last = Ending => ~asked.store) /\ out'[r] = Streamed(Opening, n, last)
       \/ /\ asked.stream /\ asked.route = "chat"
          /\ \E n \in Nat, last \in {<<"stop", "done">>, <<"stop", "error">>, <<"error">>, <<>>} :
                /\ last = <<"stop", "done">> => ~asked.store
                /\ out'[r] = Streamed(<<"ok">>, n, last)

\* The failed row of a streamed response.
StoredFailed(r) ==
    /\ Inserted(r, "failed") /\ ask[r].stream /\ ask[r].route = "response"
    /\ \/ \E status \in Answers \ {"200"} : out'[r] = <<status, "end">>
       \/ \E n \in Nat : out'[r] = Streamed(Opening, n, Failing)

\* The row or the completion, and its client told.
Stored(r) ==
    /\ ask[r].store /\ ask[r].route # "models"
    /\ r \in gone' => ask[r].stream
    /\ IF ask[r].route = "response" THEN Inserted(r, "completed")
       ELSE rows'[r] = rows[r] /\ lineage'[r] = lineage[r] /\ r \in chats'
    /\ IF ask[r].stream
       THEN \E n \in Nat : out'[r] = Streamed(OpeningOf(ask[r]), n, LastOf(ask[r]))
       ELSE out'[r] = <<"200", "end">>

Ends(r) ==
    /\ stage[r] # "done" /\ stage'[r] = "done"
    /\ ModelsAreSimple(ask'[r])
    /\ Unstored(r) \/ (ask'[r] = ask[r] /\ (StoredFailed(r) \/ Stored(r)))

Effect(r) ==
    \/ Proceeds(r)
    \/ Ends(r)
    \/ Same(r) /\ out'[r] = out[r] /\ Deletion(r)

Untouched(r) == Same(r) /\ out'[r] = out[r] /\ RowKept(r)

OldEffect(i) == (rows'[i] = rows[i] \/ rows'[i] = Absent) /\ lineage'[i] = lineage[i]

\* A client that is gone stays so, and none leaves a request that is over.
GoneKept ==
    /\ gone \subseteq gone'
    /\ \A r \in Requests : stage[r] = "done" /\ r \in gone' => r \in gone

Effects ==
    /\ \A r \in Requests : Effect(r)
    /\ \A i \in Old : OldEffect(i)
    /\ deleted \subseteq deleted'

-----------------------------------------------------------------------------
(* The effects of each action.                                             *)

LEMMA UntouchedIsEffect == ASSUME NEW r \in Requests, Untouched(r) PROVE Effect(r)
BY DEF Untouched, Effect, Proceeds

LEMMA PlainAnswer ==
    ASSUME NEW r \in Requests, DOMAIN out = Requests, out[r] = <<>>, NEW status, Answer(r, status)
    PROVE  out' = [out EXCEPT ![r] = <<status, "end">>] /\ stage' = [stage EXCEPT ![r] = "done"]
<1>1. ~HeadersSent(r) BY DEF HeadersSent
<1>2. <<>> \o <<status>> \o <<"end">> = <<status, "end">>
  <2>1. <<>> \o <<status>> = <<status>>
    <3>1. <<status>> \in Seq({status}) OBVIOUS
    <3>. QED BY <3>1, ConcatEmptySeq
  <2>2. <<status>> \o <<"end">> = <<status, "end">>
    <3> DEFINE S == {status, "end"}
               both == <<status>> \o <<"end">>
    <3>1. <<status>> \in Seq(S) /\ <<"end">> \in Seq(S) /\ <<status, "end">> \in Seq(S)
      OBVIOUS
    <3>2. both \in Seq(S) /\ Len(both) = 2 /\ both[1] = status /\ both[2] = "end"
      BY <3>1
    <3>. HIDE DEF both
    <3>3. \A i \in 1 .. 2 : both[i] = <<status, "end">>[i] BY <3>2
    <3>4. both = <<status, "end">> BY <3>1, <3>2, <3>3, SeqEqual
    <3>. QED BY <3>4 DEF both
  <2>. QED BY <2>1, <2>2
<1>. QED BY <1>1, <1>2 DEF Answer, End

LEMMA ArriveEffects ==
    ASSUME Typed, Asked, Writing, NEW q \in Requests, Arrive(q)
    PROVE  Effects
<1>1. PICK asked \in Asks :
         /\ asked.route # "response" => asked.prev = NoId
         /\ asked.route = "models" => ~asked.stream /\ ~asked.store
         /\ ask' = [ask EXCEPT ![q] = asked]
         /\ IF pin THEN Answer(q, "502")
            ELSE Go(q, IF asked.route = "models" THEN "catalogue" ELSE "body") /\ UNCHANGED out
  BY DEF Arrive
<1>2. /\ stage[q] = "idle" /\ UNCHANGED <<rows, chats, history, lineage, deleted>>
  BY DEF Arrive, tables, ghosts
<1>3. ask'[q] = asked /\ \A r \in Requests \ {q} : ask'[r] = ask[r] BY <1>1 DEF Typed
<1>4. ModelsAreSimple(ask'[q]) BY <1>1, <1>3 DEF ModelsAreSimple
<1>5. CASE pin
  <2>1. out' = [out EXCEPT ![q] = <<"502", "end">>] /\ stage' = [stage EXCEPT ![q] = "done"]
    BY <1>1, <1>2, <1>5, PlainAnswer DEF Typed, Writing
  <2>2. out'[q] = <<"502", "end">> /\ stage'[q] = "done" BY <2>1 DEF Typed
  <2>3. Effect(q)
    BY <1>2, <1>4, <2>2 DEF Effect, Ends, Unstored, RowKept, Answers
  <2>4. \A r \in Requests \ {q} : Untouched(r)
    BY <1>2, <1>3, <2>1 DEF Untouched, Same, RowKept, Typed
  <2>. QED BY <1>2, <2>3, <2>4, UntouchedIsEffect DEF Effects, OldEffect
<1>6. CASE ~pin
  <2>1. /\ stage' = [stage EXCEPT ![q] = IF asked.route = "models" THEN "catalogue" ELSE "body"]
        /\ UNCHANGED out
    BY <1>1, <1>6 DEF Go
  <2>2. Effect(q)
    BY <1>2, <1>4, <1>6, <2>1 DEF Effect, Proceeds, RowKept, Typed
  <2>3. \A r \in Requests \ {q} : Untouched(r)
    BY <1>2, <1>3, <2>1 DEF Untouched, Same, RowKept, Typed
  <2>. QED BY <1>2, <2>2, <2>3, UntouchedIsEffect DEF Effects, OldEffect
<1>. QED BY <1>5, <1>6

\* A request that is answered before its turn, whatever its row is.
LEMMA AnswerEffects ==
    ASSUME Typed, Asked, Writing, NEW q \in Requests, stage[q] \notin {"turn", "ending", "done"},
           NEW status \in Answers, Answer(q, status),
           status = "200" => ask[q].route = "models",
           UNCHANGED <<rows, chats, ask, lineage, deleted>>,
           \A r \in Requests \ {q} : history'[r] = history[r]
    PROVE  Effects
<1>1. out' = [out EXCEPT ![q] = <<status, "end">>] /\ stage' = [stage EXCEPT ![q] = "done"]
  BY PlainAnswer DEF Typed, Writing
<1>2. out'[q] = <<status, "end">> /\ stage'[q] = "done" BY <1>1 DEF Typed
<1>3. Effect(q)
  BY <1>2 DEF Effect, Ends, Unstored, RowKept, Asked
<1>4. \A r \in Requests \ {q} : Untouched(r)
  BY <1>1 DEF Untouched, Same, RowKept, Typed
<1>. QED BY <1>3, <1>4, UntouchedIsEffect DEF Effects, OldEffect

\* A request that goes on to its next await.
LEMMA GoEffects ==
    ASSUME Typed, NEW q \in Requests, NEW to, Go(q, to), Proceeds(q),
           UNCHANGED <<rows, chats, ask, lineage, deleted, out>>,
           \A r \in Requests \ {q} : history'[r] = history[r]
    PROVE  Effects
<1>1. \A r \in Requests \ {q} : Untouched(r)
  BY DEF Go, Untouched, Same, RowKept, Typed
<1>. QED BY <1>1, UntouchedIsEffect DEF Effects, OldEffect, Effect

LEMMA BodyEffects ==
    ASSUME Typed, Asked, Writing, NEW q \in Requests, Body(q) \/ BodyLost(q)
    PROVE  Effects
<1>1. stage[q] = "body" /\ UNCHANGED <<rows, chats, ask, history, lineage, deleted>>
  BY DEF Body, BodyLost, tables, ghosts
<1>2. CASE Answer(q, "400") \/ Answer(q, "502") \/ Answer(q, "500")
  BY <1>1, <1>2, AnswerEffects DEF Answers
<1>3. CASE ~pin /\ Go(q, "catalogue") /\ UNCHANGED out
  <2>1. Proceeds(q) BY <1>1, <1>3 DEF Go, Proceeds, RowKept, Typed
  <2>. QED BY <1>1, <1>3, <2>1, GoEffects
<1>. QED BY <1>2, <1>3 DEF Body, BodyLost

LEMMA CatalogueEffects ==
    ASSUME Typed, Asked, Writing, NEW q \in Requests, Catalogue(q)
    PROVE  Effects
<1>1. stage[q] = "catalogue" /\ UNCHANGED <<ask, deleted>> BY DEF Catalogue
<1>2. UNCHANGED <<rows, chats, lineage>> BY DEF Catalogue, FailPlain, tables
<1>3. \A r \in Requests \ {q} : history'[r] = history[r] BY DEF Catalogue, Typed
<1>4. CASE \E error \in Errors : FailPlain(q, error)
  <2>1. PICK error \in Errors : Answer(q, StatusOf(error)) BY <1>4 DEF FailPlain
  <2>2. StatusOf(error) \in Answers /\ StatusOf(error) # "200"
    BY DEF StatusOf, Answers, Errors
  <2>. QED BY <1>1, <1>2, <1>3, <2>1, <2>2, AnswerEffects
<1>5. CASE Answer(q, "200") /\ ask[q].route = "models"
  BY <1>1, <1>2, <1>3, <1>5, AnswerEffects DEF Answers
<1>6. CASE Answer(q, "404") \/ Answer(q, "500") \/ Answer(q, "400")
  BY <1>1, <1>2, <1>3, <1>6, AnswerEffects DEF Answers
<1>7. CASE /\ ask[q].route # "models" /\ Ancestors(ask[q].prev) # Broken
           /\ history' = [history EXCEPT ![q] = Ancestors(ask[q].prev)]
           /\ Go(q, "opening") /\ UNCHANGED out
  <2>1. stage'[q] = "opening" /\ history'[q] = Ancestors(ask[q].prev)
    BY <1>7 DEF Go, Typed
  <2>2. Proceeds(q) BY <1>1, <1>2, <1>7, <2>1 DEF Proceeds, RowKept
  <2>. QED BY <1>1, <1>2, <1>3, <1>7, <2>2, GoEffects
<1>. QED BY <1>4, <1>5, <1>6, <1>7 DEF Catalogue

LEMMA OpenedEffects ==
    ASSUME Typed, Asked, Writing, NEW q \in Requests, Opened(q)
    PROVE  Effects
<1>1. /\ stage[q] = "opening" /\ stage' = [stage EXCEPT ![q] = "turn"]
      /\ UNCHANGED <<rows, chats, ask, history, lineage, deleted>>
  BY DEF Opened, Go, tables, ghosts
<1>2. out' = [out EXCEPT ![q] = IF ask[q].stream THEN OpeningOf(ask[q]) ELSE <<>>]
  BY DEF Opened, OpeningOf
<1>3. Proceeds(q)
  BY <1>1, <1>2 DEF Proceeds, RowKept, Typed
<1>4. \A r \in Requests \ {q} : Untouched(r)
  BY <1>1, <1>2 DEF Untouched, Same, RowKept, Typed
<1>. QED BY <1>1, <1>3, <1>4, UntouchedIsEffect DEF Effects, OldEffect, Effect

LEMMA DeltaEffects ==
    ASSUME Typed, Asked, Writing, NEW q \in Requests, Delta(q)
    PROVE  Effects
<1>1. /\ stage[q] \in {"turn", "ending"} /\ ask[q].stream
      /\ UNCHANGED <<rows, chats, ask, stage, history, lineage, deleted>>
      /\ out' = [out EXCEPT ![q] = Append(@, "delta")]
  BY DEF Delta, tables, ghosts
<1>2. Proceeds(q) BY <1>1 DEF Proceeds, RowKept, Same, Typed
<1>3. \A r \in Requests \ {q} : Untouched(r)
  BY <1>1 DEF Untouched, Same, RowKept, Typed
<1>. QED BY <1>1, <1>2, <1>3, UntouchedIsEffect DEF Effects, OldEffect, Effect

LEMMA TurnOverEffects ==
    ASSUME Typed, NEW q \in Requests, TurnOver(q)
    PROVE  Effects
<1>1. /\ stage[q] = "turn" /\ Go(q, "ending")
      /\ UNCHANGED <<rows, chats, ask, history, out, lineage, deleted>>
  BY DEF TurnOver, tables, ghosts
<1>2. Proceeds(q) BY <1>1 DEF Go, Proceeds, RowKept, Typed
<1>. QED BY <1>1, <1>2, GoEffects

\* The steps of clients and of the process.
LEMMA QuietEffects ==
    ASSUME UNCHANGED <<rows, chats, ask, stage, history, out, lineage, deleted>>
    PROVE  Effects
<1>1. \A r \in Requests : Untouched(r) BY DEF Untouched, Same, RowKept
<1>. QED BY <1>1, UntouchedIsEffect DEF Effects, OldEffect

LEMMA DeleteEffects ==
    ASSUME Typed, NEW i \in Ids, Delete(i)
    PROVE  Effects
<1>1. /\ UNCHANGED <<ask, stage, history, out, lineage>>
      /\ deleted' = deleted \union {i}
  BY DEF Delete, perRequest
<1>2. /\ \A j \in Ids \ {i} : rows'[j] = rows[j] /\ (j \in chats' <=> j \in chats)
      /\ rows'[i] \in {rows[i], Absent} /\ (i \in chats' => i \in chats)
  BY DEF Delete, Typed
<1>3. \A r \in Requests \ {i} : Untouched(r)
  BY <1>1, <1>2 DEF Untouched, Same, RowKept, Ids
<1>4. i \in Requests => Effect(i)
  BY <1>1, <1>2 DEF Effect, Same, Deletion
<1>5. \A j \in Old : OldEffect(j) BY <1>1, <1>2 DEF OldEffect, Ids
<1>. QED BY <1>1, <1>3, <1>4, <1>5, UntouchedIsEffect DEF Effects

\* The end of a request that has begun its run.
LEMMA EndEffects ==
    ASSUME Typed, Asked, NEW q \in Requests, stage[q] \in {"opening", "turn", "ending"},
           stage' = [stage EXCEPT ![q] = "done"],
           UNCHANGED <<ask, history, deleted>>,
           \A r \in Requests \ {q} : out'[r] = out[r],
           \/ UNCHANGED <<rows, lineage>>
           \/ \E status \in {"failed", "completed"} : Insert(q, status),
           UNCHANGED chats \/ chats' = chats \union {q},
           Unstored(q) \/ StoredFailed(q) \/ Stored(q)
    PROVE  Effects
<1>1. \A i \in Ids \ {q} : rows'[i] = rows[i] /\ lineage'[i] = lineage[i]
  BY DEF Insert, Typed
<1>2. \A r \in Requests \ {q} : Untouched(r)
  BY <1>1 DEF Untouched, Same, RowKept, Typed, Ids
<1>3. stage'[q] = "done" /\ ask'[q] = ask[q] BY DEF Typed
<1>4. Effect(q) BY <1>3 DEF Effect, Ends, Asked
<1>5. \A i \in Old : OldEffect(i)
  BY <1>1, ServerAssumption DEF OldEffect, Ids
<1>. QED BY <1>2, <1>4, <1>5, UntouchedIsEffect DEF Effects

LEMMA InsertIsInserted ==
    ASSUME Typed, NEW q \in Requests, NEW status, Insert(q, status), UNCHANGED chats,
           stage[q] \in {"opening", "turn", "ending"}, ask[q].store
    PROVE  Inserted(q, status)
BY DEF Insert, Inserted, Typed, Ids

\* One delta more.
LEMMA TextGrows ==
    ASSUME NEW o \in Openings, NEW n \in Nat
    PROVE  /\ (o \o Text(n)) \o <<"delta">> = o \o Text(n + 1)
           /\ Append(o \o Text(n), "delta") = o \o Text(n + 1)
<1>1. /\ o \in Seq(Words) /\ Text(n) \in Seq(Words) /\ Text(n + 1) \in Seq(Words)
      /\ o \o Text(n) \in Seq(Words) /\ Len(Text(n)) = n
  <2>1. <<>> \in Lasts BY DEF Lasts
  <2>2. o \o Text(n) \in Seq(Words) BY <2>1, StreamedWords
  <2>. QED BY <2>2, WordsOf
<1>2. "delta" \in Words BY DEF Words, Chunks
<1>3. <<"delta">> \in Seq(Words)
  <2>. HIDE DEF Words
  <2>. QED BY <1>2
<1>4. Append(o \o Text(n), "delta") = (o \o Text(n)) \o <<"delta">>
  BY <1>1, <1>2, AppendIsConcat, Zenon
<1>5. (o \o Text(n)) \o <<"delta">> = o \o (Text(n) \o <<"delta">>)
  <2>1. \A s, t, u \in Seq(Words) : (s \o t) \o u = s \o (t \o u) BY ConcatAssociative
  <2>2. \A u \in Seq(Words) : (o \o Text(n)) \o u = o \o (Text(n) \o u) BY <1>1, <2>1, Zenon
  <2>. QED BY <1>3, <2>2, Zenon
<1>6. Text(n) \o <<"delta">> = Text(n + 1)
  <2>1. Append(Text(n), "delta") = Text(n) \o <<"delta">>
    BY <1>1, <1>2, AppendIsConcat, Zenon
  <2>2. Append(Text(n), "delta") = Text(n + 1) BY DEF Text
  <2>. QED BY <2>1, <2>2
<1>. QED BY <1>4, <1>5, <1>6

\* What the end of a request's turn writes.
LEMMA EndWrites ==
    ASSUME Typed, NEW q \in Requests, NEW written, End(q, written)
    PROVE  /\ out'[q] = out[q] \o written \o <<"end">>
           /\ stage' = [stage EXCEPT ![q] = "done"]
           /\ \A r \in Requests \ {q} : out'[r] = out[r]
BY DEF End, Typed

LEMMA OpeningOfIsOpening == ASSUME NEW asked PROVE OpeningOf(asked) \in Openings
BY DEF OpeningOf, Openings

LEMMA EndOfStream ==
    ASSUME Typed, Writing, NEW q \in Requests, stage[q] \in {"turn", "ending"}, ask[q].stream,
           NEW last, End(q, last)
    PROVE  \E n \in Nat : out'[q] = Streamed(OpeningOf(ask[q]), n, last)
<1>1. PICK n \in Nat : out[q] = OpeningOf(ask[q]) \o Text(n) BY DEF Writing
<1>2. out'[q] = (OpeningOf(ask[q]) \o Text(n)) \o last \o <<"end">> BY <1>1, EndWrites
<1>. QED BY <1>2 DEF Streamed, Text

LEMMA StreamHasBegun ==
    ASSUME Writing, NEW q \in Requests, stage[q] \in {"turn", "ending"}, ask[q].stream
    PROVE  HeadersSent(q)
<1>1. PICK n \in Nat : out[q] = OpeningOf(ask[q]) \o Text(n) BY DEF Writing
<1>2. /\ OpeningOf(ask[q]) \in Seq(Words) /\ Len(OpeningOf(ask[q])) \in {1, 4}
      /\ Text(n) \in Seq(Words)
  BY WordsOf, OpeningOfIsOpening
<1>3. OpeningOf(ask[q]) \o Text(n) # <<>> BY <1>2, BegunIsNotEmpty
<1>. QED BY <1>1, <1>3 DEF HeadersSent

LEMMA StatusIsError ==
    ASSUME NEW error \in Errors
    PROVE  StatusOf(error) \in Answers \ {"200"}
BY DEF StatusOf, Answers, Errors

LEMMA FailEffects ==
    ASSUME Typed, Asked, Writing, NEW q \in Requests, stage[q] \in {"opening", "turn", "ending"},
           NEW error \in Errors, Fail(q, error), UNCHANGED <<ask, history, deleted>>
    PROVE  Effects
<1>1. UNCHANGED chats BY DEF Fail, FailPlain, FailStream, tables
<1>2. \/ UNCHANGED <<rows, lineage>>
      \/ ask[q].route = "response" /\ ask[q].stream /\ ask[q].store /\ Insert(q, "failed")
  BY DEF Fail, FailPlain, FailStream, PersistFailed, tables
<1>3. ask[q].route \in {"chat", "response"} BY DEF Asked, Typed, Asks, Routes
<1>4. StatusOf(error) \in Answers \ {"200"} BY StatusIsError
<1>5. CASE Answer(q, StatusOf(error)) /\ out[q] = <<>>
  <2>1. out' = [out EXCEPT ![q] = <<StatusOf(error), "end">>]
        /\ stage' = [stage EXCEPT ![q] = "done"]
    BY <1>5, PlainAnswer DEF Typed
  <2>2. out'[q] = <<StatusOf(error), "end">> BY <2>1 DEF Typed
  <2>3. Unstored(q) \/ StoredFailed(q)
    <3>1. CASE UNCHANGED <<rows, lineage>>
      BY <1>1, <1>4, <2>2, <3>1 DEF Unstored, RowKept
    <3>2. CASE /\ ask[q].route = "response" /\ ask[q].stream /\ ask[q].store
               /\ Insert(q, "failed")
      BY <1>1, <1>4, <2>2, <3>2, InsertIsInserted DEF StoredFailed
    <3>. QED BY <1>2, <3>1, <3>2
  <2>4. \A r \in Requests \ {q} : out'[r] = out[r] BY <2>1 DEF Typed
  <2>. QED BY <1>1, <1>2, <2>1, <2>3, <2>4, EndEffects
<1>6. CASE error = "cancelled" /\ End(q, <<>>) /\ UNCHANGED <<rows, lineage>>
           /\ stage[q] = "opening"
  <2>1. out[q] = <<>> BY <1>6 DEF Writing
  <2>2. <<>> \o <<>> \o <<"end">> = <<"end">> OBVIOUS
  <2>3. out'[q] = <<"end">> BY <1>6, <2>1, <2>2, EndWrites
  <2>4. Unstored(q) BY <1>1, <1>6, <2>3 DEF Unstored, RowKept
  <2>. QED BY <1>1, <1>6, <2>4, EndWrites, EndEffects
<1>7. CASE error = "cancelled" /\ End(q, <<>>) /\ UNCHANGED <<rows, lineage>>
           /\ stage[q] \in {"turn", "ending"} /\ ask[q].stream
  <2>1. \E n \in Nat : out'[q] = Streamed(OpeningOf(ask[q]), n, <<>>)
    BY <1>7, EndOfStream
  <2>2. Unstored(q)
    BY <1>1, <1>3, <1>7, <2>1 DEF Unstored, RowKept, OpeningOf, Ending
  <2>. QED BY <1>1, <1>7, <2>2, EndWrites, EndEffects
<1>8. CASE /\ End(q, IF ask[q].route = "response" THEN Failing ELSE <<"error">>)
           /\ stage[q] \in {"turn", "ending"} /\ ask[q].stream
           /\ ask[q].route = "chat" => UNCHANGED <<rows, lineage>>
  <2> DEFINE last == IF ask[q].route = "response" THEN Failing ELSE <<"error">>
  <2>1. PICK n \in Nat : out'[q] = Streamed(OpeningOf(ask[q]), n, last)
    BY <1>8, EndOfStream
  <2>2. CASE UNCHANGED <<rows, lineage>>
    <3>1. Failing # Ending BY DEF Failing, Ending
    <3>2. <<"error">> # <<"stop", "done">> OBVIOUS
    <3>3. Unstored(q)
      BY <1>1, <1>3, <1>8, <2>1, <2>2, <3>1, <3>2 DEF Unstored, RowKept, OpeningOf
    <3>. QED BY <1>1, <1>8, <2>2, <3>3, EndWrites, EndEffects
  <2>3. CASE /\ ask[q].route = "response" /\ ask[q].stream /\ ask[q].store
             /\ Insert(q, "failed")
    <3>1. StoredFailed(q)
      BY <1>1, <2>1, <2>3, InsertIsInserted DEF StoredFailed, OpeningOf
    <3>. QED BY <1>1, <1>8, <2>3, <3>1, EndWrites, EndEffects
  <2>. QED BY <1>2, <2>2, <2>3
<1>9. CASE ~ask[q].stream
  BY <1>5, <1>9 DEF Fail, FailPlain, Writing
<1>10. CASE ask[q].stream /\ stage[q] = "opening"
  <2>1. out[q] = <<>> /\ ~HeadersSent(q) BY <1>10 DEF Writing, HeadersSent
  <2>. QED BY <1>5, <1>6, <1>10, <2>1 DEF Fail, FailStream
<1>11. CASE ask[q].stream /\ stage[q] \in {"turn", "ending"}
  <2>1. HeadersSent(q) BY <1>11, StreamHasBegun
  <2>. QED BY <1>7, <1>8, <1>11, <2>1 DEF Fail, FailStream
<1>. QED BY <1>9, <1>10, <1>11

LEMMA RunFailsEffects ==
    ASSUME Typed, Asked, Writing, NEW q \in Requests, RunFails(q)
    PROVE  Effects
BY FailEffects DEF RunFails

\* A pair of words, and the answer that is one word.
LEMMA Pair ==
    ASSUME NEW a, NEW b
    PROVE  <<a>> \o <<b>> = <<a, b>>
<1> DEFINE S == {a, b}
           both == <<a>> \o <<b>>
<1>1. <<a>> \in Seq(S) /\ <<b>> \in Seq(S) /\ <<a, b>> \in Seq(S) OBVIOUS
<1>2. both \in Seq(S) /\ Len(both) = 2 /\ both[1] = a /\ both[2] = b BY <1>1
<1>. HIDE DEF both
<1>3. \A i \in 1 .. 2 : both[i] = <<a, b>>[i] BY <1>2
<1>4. both = <<a, b>> BY <1>1, <1>2, <1>3, SeqEqual
<1>. QED BY <1>4 DEF both

\* How the stream of a completion stops, the role with it or not.
LEMMA StopWrites ==
    ASSUME NEW o \in Openings, NEW n \in Nat, NEW role \in {<<>>, <<"delta">>},
           NEW word \in {"done", "error"}
    PROVE  \E m \in Nat :
              (o \o Text(n)) \o ((role \o <<"stop">>) \o <<word>>) \o <<"end">>
                 = Streamed(o, m, <<"stop", word>>)
<1>1. <<"stop", word>> \in Lasts BY DEF Lasts
<1>2. o \o Text(n) \in Seq(Words) BY <1>1, StreamedWords
<1>3. {"stop", "delta", "done", "error"} \subseteq Words
  <2>1. Failing[2] = "error" BY DEF Failing
  <2>. QED BY <2>1, SMTT(20) DEF Words, Chunks
<1>4. /\ role \in Seq(Words) /\ <<"stop">> \in Seq(Words) /\ <<word>> \in Seq(Words)
      /\ <<"stop", word>> \in Seq(Words)
  <2>. HIDE DEF Words
  <2>1. <<>> \in Seq(Words) /\ <<"delta">> \in Seq(Words) BY <1>3
  <2>2. role \in Seq(Words) BY <2>1
  <2>3. word \in Words /\ "stop" \in Words BY <1>3
  <2>. QED BY <2>2, <2>3
<1>5. \A s, t, u \in Seq(Words) : (s \o t) \o u = s \o (t \o u) BY ConcatAssociative
<1>6. (role \o <<"stop">>) \o <<word>> = role \o <<"stop", word>>
  <2>1. (role \o <<"stop">>) \o <<word>> = role \o (<<"stop">> \o <<word>>)
    BY <1>4, <1>5, Zenon
  <2>. QED BY <2>1, Pair
<1>7. (o \o Text(n)) \o (role \o <<"stop", word>>) = ((o \o Text(n)) \o role) \o <<"stop", word>>
  BY <1>2, <1>4, <1>5, Zenon
<1>8. PICK m \in Nat : (o \o Text(n)) \o role = o \o Text(m)
  <2>1. CASE role = <<>>
    <3>1. (o \o Text(n)) \o <<>> = o \o Text(n) BY <1>2, ConcatEmptySeq
    <3>. QED BY <2>1, <3>1
  <2>2. CASE role = <<"delta">>
    <3>1. (o \o Text(n)) \o <<"delta">> = o \o Text(n + 1) BY TextGrows
    <3>2. n + 1 \in Nat OBVIOUS
    <3>. QED BY <2>2, <3>1, <3>2
  <2>. QED BY <2>1, <2>2
<1>. QED BY <1>6, <1>7, <1>8 DEF Streamed, Text

LEMMA ChatEndsEffects ==
    ASSUME Typed, Asked, Writing, NEW q \in Requests, stage[q] \in {"turn", "ending"},
           ask[q].route = "chat", ChatEnds(q), UNCHANGED <<ask, history, deleted, gone>>,
           q \in gone => ask[q].stream
    PROVE  Effects
<1> DEFINE role == IF Deltas(q) = 0 THEN <<"delta">> ELSE <<>>
<1>1. UNCHANGED <<rows, lineage>> /\ (UNCHANGED chats \/ chats' = chats \union {q})
  BY DEF ChatEnds
<1>2. CASE ask[q].stream
  <2>1. PICK word \in {"done", "error"} :
          /\ End(q, (role \o <<"stop">>) \o <<word>>)
          /\ \/ UNCHANGED chats /\ (word = "done" => ~ask[q].store)
             \/ ask[q].store /\ chats' = chats \union {q} /\ word = "done"
    BY <1>2 DEF ChatEnds
  <2>2. PICK n \in Nat : out[q] = OpeningOf(ask[q]) \o Text(n) BY <1>2 DEF Writing
  <2>3. out'[q] = (OpeningOf(ask[q]) \o Text(n)) \o ((role \o <<"stop">>) \o <<word>>) \o <<"end">>
    BY <2>1, <2>2, EndWrites
  <2>4. PICK m \in Nat : out'[q] = Streamed(OpeningOf(ask[q]), m, <<"stop", word>>)
    <3>1. role \in {<<>>, <<"delta">>} OBVIOUS
    <3>2. OpeningOf(ask[q]) \in Openings BY OpeningOfIsOpening
    <3>. HIDE DEF role
    <3>3. \E m \in Nat :
             (OpeningOf(ask[q]) \o Text(n)) \o ((role \o <<"stop">>) \o <<word>>) \o <<"end">>
               = Streamed(OpeningOf(ask[q]), m, <<"stop", word>>)
      BY <3>1, <3>2, StopWrites
    <3>. QED BY <2>3, <3>3
  <2>5. CASE UNCHANGED chats /\ (word = "done" => ~ask[q].store)
    <3>1. <<"stop", "error">> # <<"stop", "done">> OBVIOUS
    <3>2. Unstored(q)
      BY <1>1, <1>2, <2>1, <2>4, <2>5, <3>1 DEF Unstored, RowKept, OpeningOf
    <3>. QED BY <1>1, <2>1, <2>5, <3>2, EndWrites, EndEffects
  <2>6. CASE ask[q].store /\ chats' = chats \union {q} /\ word = "done"
    <3>1. Stored(q) BY <1>1, <1>2, <2>4, <2>6 DEF Stored, LastOf
    <3>. QED BY <1>1, <2>1, <2>6, <3>1, EndWrites, EndEffects
  <2>. QED BY <2>1, <2>5, <2>6
<1>3. CASE ~ask[q].stream
  <2>1. out[q] = <<>> BY <1>3 DEF Writing
  <2>2. CASE Answer(q, "500") /\ UNCHANGED chats
    <3>1. out' = [out EXCEPT ![q] = <<"500", "end">>] /\ stage' = [stage EXCEPT ![q] = "done"]
      BY <2>1, <2>2, PlainAnswer DEF Typed
    <3>2. out'[q] = <<"500", "end">> /\ (\A r \in Requests \ {q} : out'[r] = out[r])
      BY <3>1 DEF Typed
    <3>3. Unstored(q) BY <1>1, <2>2, <3>2 DEF Unstored, RowKept, Answers
    <3>. QED BY <1>1, <2>2, <3>1, <3>2, <3>3, EndEffects
  <2>3. CASE /\ End(q, <<>> \o <<"200">>)
             /\ \/ UNCHANGED chats /\ ~ask[q].store
                \/ ask[q].store /\ chats' = chats \union {q}
    <3>1. <<>> \o (<<>> \o <<"200">>) \o <<"end">> = <<"200", "end">>
      <4>1. <<"200">> \in Seq({"200"}) OBVIOUS
      <4>2. <<>> \o <<"200">> = <<"200">> BY <4>1, ConcatEmptySeq
      <4>. QED BY <4>2, Pair
    <3>2. out'[q] = <<"200", "end">> BY <2>1, <2>3, <3>1, EndWrites
    <3>3. CASE UNCHANGED chats /\ ~ask[q].store
      <4>1. Unstored(q) BY <1>1, <3>2, <3>3 DEF Unstored, RowKept, Answers
      <4>. QED BY <1>1, <2>3, <3>3, <4>1, EndWrites, EndEffects
    <3>4. CASE ask[q].store /\ chats' = chats \union {q}
      <4>1. Stored(q) BY <1>1, <1>3, <3>2, <3>4 DEF Stored
      <4>. QED BY <1>1, <2>3, <3>4, <4>1, EndWrites, EndEffects
    <3>. QED BY <2>3, <3>3, <3>4
  <2>. QED BY <1>3, <2>2, <2>3 DEF ChatEnds
<1>. QED BY <1>2, <1>3

LEMMA ResponseEndsEffects ==
    ASSUME Typed, Asked, Writing, NEW q \in Requests, stage[q] \in {"turn", "ending"},
           ask[q].route = "response", ResponseEnds(q), UNCHANGED <<ask, history, deleted, gone>>,
           q \in gone => ask[q].stream
    PROVE  Effects
<1>1. CASE Fail(q, "other") BY <1>1, FailEffects DEF Errors
<1>2. CASE /\ End(q, IF ask[q].stream THEN Ending ELSE <<"200">>)
           /\ UNCHANGED chats
           /\ \/ ~ask[q].store /\ UNCHANGED <<rows, lineage>>
              \/ ask[q].store /\ Insert(q, "completed")
  <2>1. \/ ask[q].stream /\ \E n \in Nat : out'[q] = Streamed(Opening, n, Ending)
        \/ ~ask[q].stream /\ out'[q] = <<"200", "end">>
    <3>1. CASE ask[q].stream
      BY <1>2, <3>1, EndOfStream DEF OpeningOf
    <3>2. CASE ~ask[q].stream
      <4>1. out[q] = <<>> BY <3>2 DEF Writing
      <4>2. <<>> \o <<"200">> \o <<"end">> = <<"200", "end">>
        <5>1. <<"200">> \in Seq({"200"}) OBVIOUS
        <5>2. <<>> \o <<"200">> = <<"200">> BY <5>1, ConcatEmptySeq
        <5>. QED BY <5>2, Pair
      <4>3. End(q, <<"200">>) BY <1>2, <3>2
      <4>. QED BY <3>2, <4>1, <4>2, <4>3, EndWrites
    <3>. QED BY <3>1, <3>2
  <2>2. CASE ~ask[q].store /\ UNCHANGED <<rows, lineage>>
    <3>1. Unstored(q) BY <1>2, <2>1, <2>2 DEF Unstored, RowKept, Answers
    <3>. QED BY <1>2, <2>2, <3>1, EndWrites, EndEffects
  <2>3. CASE ask[q].store /\ Insert(q, "completed")
    <3>1. Inserted(q, "completed") BY <1>2, <2>3, InsertIsInserted
    <3>2. Stored(q) BY <2>1, <2>3, <3>1 DEF Stored, OpeningOf, LastOf
    <3>. QED BY <1>2, <2>3, <3>2, EndWrites, EndEffects
  <2>. QED BY <1>2, <2>2, <2>3
<1>. QED BY <1>1, <1>2 DEF ResponseEnds, tables

\* A turn that is over and whose client is gone: nothing is stored or written.
LEMMA UnheardEffects ==
    ASSUME Typed, Asked, Writing, NEW q \in Requests, stage[q] = "ending", q \in gone,
           ~ask[q].stream, Unheard(q), UNCHANGED <<ask, history, deleted, gone>>
    PROVE  Effects
<1>1. /\ stage' = [stage EXCEPT ![q] = "done"]
      /\ UNCHANGED <<rows, chats, lineage, out>>
  BY DEF Unheard, Go, tables
<1>2. out[q] = <<>> BY DEF Writing
<1>3. Unstored(q) BY <1>1, <1>2 DEF Unstored, RowKept
<1>. QED BY <1>1, <1>3, EndEffects

LEMMA StepEffects ==
    ASSUME Typed, Asked, Writing, [Next]_vars
    PROVE  Effects
<1>1. ASSUME NEW q \in Requests, TurnEnds(q) PROVE Effects
  <2>1. ask[q].route \in {"chat", "response"} BY <1>1 DEF TurnEnds, Asked, Typed, Asks, Routes
  <2>2. stage[q] = "ending" /\ UNCHANGED <<ask, history, deleted, gone>>
    BY <1>1 DEF TurnEnds
  <2>3. CASE q \in gone /\ ~ask[q].stream
    BY <1>1, <2>2, <2>3, UnheardEffects DEF TurnEnds
  <2>4. CASE q \in gone => ask[q].stream
    <3>1. \/ ChatEnds(q) /\ ask[q].route = "chat"
          \/ ResponseEnds(q) /\ ask[q].route = "response"
      BY <1>1, <2>1, <2>4 DEF TurnEnds
    <3>. QED BY <2>2, <2>4, <3>1, ChatEndsEffects, ResponseEndsEffects
  <2>. QED BY <2>3, <2>4
<1>2. CASE UNCHANGED vars BY <1>2, QuietEffects DEF vars, tables, perRequest, ghosts
<1>3. CASE Close \/ Closed BY <1>3, QuietEffects DEF Close, Closed, tables, perRequest, ghosts
<1>4. CASE \E q \in Requests : Disconnect(q)
  BY <1>4, QuietEffects DEF Disconnect, tables, perRequest, ghosts
<1>. QED BY <1>1, <1>2, <1>3, <1>4, ArriveEffects, BodyEffects, CatalogueEffects,
            OpenedEffects, RunFailsEffects, DeltaEffects, TurnOverEffects, DeleteEffects DEF Next

\* A failure sets the pin or leaves it.
LEMMA FailKeepsPin ==
    ASSUME NEW q, NEW error, Fail(q, error) \/ FailPlain(q, error), pin
    PROVE  pin'
<1>1. pin' = (pin \/ error = "unauthenticated") BY DEF Fail, FailPlain, FailStream
<1>. QED BY <1>1, Zenon

\* What a step does to the clients that are gone, and to the pin.
LEMMA StepKeeps ==
    ASSUME [Next]_vars
    PROVE  GoneKept /\ (pin => pin')
<1>1. ASSUME NEW q \in Requests, Disconnect(q) PROVE GoneKept /\ UNCHANGED pin
  BY <1>1 DEF Disconnect, GoneKept
<1>2. ASSUME NEW q \in Requests,
             Arrive(q) \/ Body(q) \/ BodyLost(q) \/ Opened(q) \/ Delta(q) \/ TurnOver(q)
      PROVE  UNCHANGED <<pin, gone>>
  BY <1>2 DEF Arrive, Body, BodyLost, Opened, Delta, TurnOver
<1>3. ASSUME NEW q \in Requests, Catalogue(q) \/ RunFails(q)
      PROVE  gone' = gone /\ (pin => pin')
  <2>1. gone' = gone BY <1>3 DEF Catalogue, RunFails
  <2>2. \/ \E error \in Errors : Fail(q, error) \/ FailPlain(q, error)
        \/ UNCHANGED pin
    BY <1>3 DEF Catalogue, RunFails
  <2>. QED BY <2>1, <2>2, FailKeepsPin
<1>4. ASSUME NEW q \in Requests, TurnEnds(q)
      PROVE  gone' = gone /\ (pin => pin')
  BY <1>4, FailKeepsPin DEF TurnEnds, Unheard, ChatEnds, ResponseEnds
<1>5. CASE (\E i \in Ids : Delete(i)) \/ Close \/ Closed \/ UNCHANGED vars
  BY <1>5 DEF Delete, Close, Closed, vars, GoneKept
<1>. QED BY <1>1, <1>2, <1>3, <1>4, <1>5 DEF Next, GoneKept

-----------------------------------------------------------------------------
(* Every action keeps the types.                                           *)

LEMMA EndTyped ==
    ASSUME Typed, NEW q \in Requests, NEW written, End(q, written)
    PROVE  /\ stage' \in [Requests -> Stages]
           /\ DOMAIN out' = Requests /\ out' = [r \in Requests |-> out'[r]]
BY DEF End, Typed, Stages

LEMMA AnswerTyped ==
    ASSUME Typed, NEW q \in Requests, NEW status, Answer(q, status)
    PROVE  /\ stage' \in [Requests -> Stages]
           /\ DOMAIN out' = Requests /\ out' = [r \in Requests |-> out'[r]]
BY EndTyped DEF Answer

LEMMA PrevTyped ==
    ASSUME Typed, NEW q \in Requests
    PROVE  ask[q].prev \in Ids \union {NoId}
BY ServerAssumption DEF Typed, Asks, Ids

LEMMA InsertTyped ==
    ASSUME Typed, NEW q \in Requests, NEW status \in Statuses, Insert(q, status)
    PROVE  /\ rows' \in [Ids -> [status : Statuses, prev : Ids \union {NoId}]]
           /\ lineage' \in [Ids -> Seq(Ids)]
<1>1. q \in Ids BY DEF Ids
<1>2. [status |-> status, prev |-> ask[q].prev] \in [status : Statuses, prev : Ids \union {NoId}]
  BY PrevTyped
<1>3. Append(history[q], q) \in Seq(Ids) BY <1>1 DEF Typed
<1>. QED BY <1>1, <1>2, <1>3 DEF Insert, Typed

LEMMA FailTyped ==
    ASSUME Typed, NEW q \in Requests, NEW error, Fail(q, error)
    PROVE  /\ stage' \in [Requests -> Stages]
           /\ DOMAIN out' = Requests /\ out' = [r \in Requests |-> out'[r]]
           /\ pin' \in BOOLEAN /\ chats' \subseteq Requests
           /\ rows' \in [Ids -> [status : Statuses, prev : Ids \union {NoId}]]
           /\ lineage' \in [Ids -> Seq(Ids)]
<1>1. pin' \in BOOLEAN /\ chats' \subseteq Requests
  BY DEF Fail, FailPlain, FailStream, Typed, tables
<1>2. (\E status : Answer(q, status)) \/ (\E written : End(q, written))
  BY DEF Fail, FailPlain, FailStream
<1>3. UNCHANGED <<rows, lineage>> \/ Insert(q, "failed")
  BY DEF Fail, FailPlain, FailStream, PersistFailed, tables
<1>4. "failed" \in Statuses BY DEF Statuses
<1>5. /\ rows' \in [Ids -> [status : Statuses, prev : Ids \union {NoId}]]
      /\ lineage' \in [Ids -> Seq(Ids)]
  BY <1>3, <1>4, InsertTyped DEF Typed
<1>6. /\ stage' \in [Requests -> Stages]
      /\ DOMAIN out' = Requests /\ out' = [r \in Requests |-> out'[r]]
  BY <1>2, EndTyped, AnswerTyped
<1>. QED BY <1>1, <1>5, <1>6

LEMMA TypedStep ==
    ASSUME Typed, LineageKept, [Next]_vars
    PROVE  Typed'
<1>. USE ServerAssumption
<1>1. ASSUME NEW q \in Requests, Arrive(q) PROVE Typed'
  <2>1. ask' \in [Requests -> Asks] BY <1>1 DEF Arrive, Typed
  <2>2. stage' \in [Requests -> Stages] /\ DOMAIN out' = Requests
        /\ out' = [r \in Requests |-> out'[r]]
    <3>1. CASE Answer(q, "502") BY <3>1, AnswerTyped
    <3>2. CASE (Go(q, "catalogue") \/ Go(q, "body")) /\ UNCHANGED out
      BY <3>2 DEF Go, Typed, Stages
    <3>. QED BY <1>1, <3>1, <3>2 DEF Arrive
  <2>. QED BY <1>1, <2>1, <2>2 DEF Arrive, Typed, tables, ghosts
<1>2. ASSUME NEW q \in Requests, Body(q) \/ BodyLost(q) PROVE Typed'
  <2>1. stage' \in [Requests -> Stages] /\ DOMAIN out' = Requests
        /\ out' = [r \in Requests |-> out'[r]]
    <3>1. CASE \E status : Answer(q, status) BY <3>1, AnswerTyped
    <3>2. CASE Go(q, "catalogue") /\ UNCHANGED out BY <3>2 DEF Go, Typed, Stages
    <3>. QED BY <1>2, <3>1, <3>2 DEF Body, BodyLost
  <2>. QED BY <1>2, <2>1 DEF Body, BodyLost, Typed, tables, ghosts
<1>3. ASSUME NEW q \in Requests, Catalogue(q) PROVE Typed'
  <2>1. stage' \in [Requests -> Stages] /\ DOMAIN out' = Requests
        /\ out' = [r \in Requests |-> out'[r]]
    <3>1. CASE \E status : Answer(q, status) BY <3>1, AnswerTyped
    <3>2. CASE Go(q, "opening") /\ UNCHANGED out BY <3>2 DEF Go, Typed, Stages
    <3>. QED BY <1>3, <3>1, <3>2 DEF Catalogue, FailPlain
  <2>2. history' \in [Requests -> Seq(Ids)]
    <3>1. ASSUME Ancestors(ask[q].prev) # Broken PROVE Ancestors(ask[q].prev) \in Seq(Ids)
      <4>1. NoId \notin Ids /\ MaxChainHops \in Nat BY DEF Ids
      <4>2. Ancestors(ask[q].prev) = Before(ask[q].prev)
        BY <3>1, <4>1, PrevTyped, AncestorsAreLineage
      <4>3. ask[q].prev \in Ids \union {NoId} BY PrevTyped
      <4>. QED BY <4>2, <4>3 DEF Before, Typed
    <3>2. \/ history' = history
          \/ /\ Ancestors(ask[q].prev) # Broken
             /\ history' = [history EXCEPT ![q] = Ancestors(ask[q].prev)]
      BY <1>3 DEF Catalogue
    <3>3. \/ history' = history
          \/ \E chain \in Seq(Ids) : history' = [history EXCEPT ![q] = chain]
      BY <3>1, <3>2
    <3>4. history \in [Requests -> Seq(Ids)] BY DEF Typed
    <3>. QED BY <3>3, <3>4
  <2>3. pin' \in BOOLEAN /\ UNCHANGED <<rows, chats, lineage>>
    BY <1>3 DEF Catalogue, FailPlain, Typed, tables
  <2>. QED BY <1>3, <2>1, <2>2, <2>3 DEF Catalogue, Typed
<1>4. ASSUME NEW q \in Requests, Opened(q) \/ Delta(q) \/ TurnOver(q) \/ Disconnect(q) PROVE Typed'
  <2>1. CASE Opened(q)
    <3>1. stage' \in [Requests -> Stages] BY <2>1 DEF Opened, Go, Typed, Stages
    <3>2. DOMAIN out' = Requests /\ out' = [r \in Requests |-> out'[r]]
      BY <2>1 DEF Opened, Typed
    <3>. QED BY <2>1, <3>1, <3>2 DEF Opened, Typed, tables, ghosts
  <2>2. CASE Delta(q)
    <3>1. DOMAIN out' = Requests /\ out' = [r \in Requests |-> out'[r]]
      BY <2>2 DEF Delta, Typed
    <3>. QED BY <2>2, <3>1 DEF Delta, Typed, tables, ghosts
  <2>3. CASE Disconnect(q)
    BY <2>3 DEF Disconnect, Typed, tables, ghosts, perRequest
  <2>4. CASE TurnOver(q)
    <3>1. stage' \in [Requests -> Stages] BY <2>4 DEF TurnOver, Go, Typed, Stages
    <3>. QED BY <2>4, <3>1 DEF TurnOver, Typed, tables, ghosts
  <2>. QED BY <1>4, <2>1, <2>2, <2>3, <2>4
<1>5. ASSUME NEW q \in Requests, RunFails(q) PROVE Typed'
  BY <1>5, FailTyped DEF RunFails, Typed
<1>6. ASSUME NEW q \in Requests, TurnEnds(q) PROVE Typed'
  <2>1. ASSUME NEW error, Fail(q, error) PROVE Typed'
    BY <1>6, <2>1, FailTyped DEF TurnEnds, Typed
  <2>3. CASE Unheard(q)
    <3>1. stage' \in [Requests -> Stages] BY <2>3 DEF Unheard, Go, Typed, Stages
    <3>. QED BY <1>6, <2>3, <3>1 DEF TurnEnds, Unheard, Typed, tables
  <2>2. CASE ~ Fail(q, "other") /\ ~ Unheard(q)
    <3>1. (\E status : Answer(q, status)) \/ (\E written : End(q, written))
      BY <1>6, <2>2 DEF TurnEnds, ChatEnds, ResponseEnds
    <3>2. /\ stage' \in [Requests -> Stages] /\ DOMAIN out' = Requests
          /\ out' = [r \in Requests |-> out'[r]]
      BY <3>1, EndTyped, AnswerTyped
    <3>3. UNCHANGED <<rows, lineage>> \/ Insert(q, "completed")
      BY <1>6, <2>2 DEF TurnEnds, ChatEnds, ResponseEnds, tables
    <3>4. "completed" \in Statuses BY DEF Statuses
    <3>5. /\ rows' \in [Ids -> [status : Statuses, prev : Ids \union {NoId}]]
          /\ lineage' \in [Ids -> Seq(Ids)]
      BY <3>3, <3>4, InsertTyped DEF Typed
    <3>6. UNCHANGED pin /\ (UNCHANGED chats \/ chats' = chats \union {q})
      BY <1>6, <2>2 DEF TurnEnds, ChatEnds, ResponseEnds, tables
    <3>7. chats' \subseteq Requests BY <3>6 DEF Typed
    <3>. QED BY <1>6, <3>2, <3>5, <3>6, <3>7 DEF TurnEnds, Typed
  <2>. QED BY <2>1, <2>2, <2>3
<1>7. ASSUME NEW i \in Ids, Delete(i) PROVE Typed'
  <2>1. Absent \in [status : Statuses, prev : Ids \union {NoId}] BY DEF Absent, Statuses
  <2>2. rows' \in [Ids -> [status : Statuses, prev : Ids \union {NoId}]]
    <3>1. rows \in [Ids -> [status : Statuses, prev : Ids \union {NoId}]] BY DEF Typed
    <3>2. rows' = rows \/ rows' = [rows EXCEPT ![i] = Absent] BY <1>7 DEF Delete
    <3>. QED BY <2>1, <3>1, <3>2
  <2>3. chats' \subseteq Requests /\ deleted' \subseteq Ids BY <1>7 DEF Delete, Typed
  <2>4. UNCHANGED <<server, pin, perRequest, gone, lineage>> BY <1>7 DEF Delete
  <2>. QED BY <2>2, <2>3, <2>4 DEF Typed, perRequest
<1>8. CASE Close \/ Closed \/ UNCHANGED vars
  BY <1>8 DEF Close, Closed, vars, Typed, tables, ghosts, perRequest
<1>. QED BY <1>1, <1>2, <1>3, <1>4, <1>5, <1>6, <1>7, <1>8 DEF Next

-----------------------------------------------------------------------------
(* What the effects of a step keep.                                        *)

\* A request that is over stays so, and its lineage does not change.
LEMMA EndedStays ==
    ASSUME Effects, NEW id, Ended(id)
    PROVE  Ended(id)' /\ lineage'[id] = lineage[id]
<1>. Ended(id)' <=> id \in Old \/ (id \in Requests /\ stage'[id] = "done") BY DEF Ended
<1>1. CASE id \in Old BY <1>1 DEF Effects, OldEffect
<1>2. CASE id \in Requests /\ stage[id] = "done"
  <2>1. Effect(id) BY <1>2 DEF Effects
  <2>2. CASE Proceeds(id) BY <1>2, <2>2 DEF Proceeds, Same, RowKept
  <2>3. CASE Ends(id) BY <1>2, <2>3 DEF Ends
  <2>4. CASE Same(id) /\ Deletion(id) BY <1>2, <2>4 DEF Same, Deletion
  <2>. QED BY <2>1, <2>2, <2>3, <2>4 DEF Effect
<1>. QED BY <1>1, <1>2 DEF Ended

LEMMA BeforeStays ==
    ASSUME Effects, NEW id, id # NoId => Ended(id)
    PROVE  Before(id)' = Before(id) /\ (id # NoId => Ended(id)')
<1>1. Before(id)' = IF id = NoId THEN <<>> ELSE lineage'[id] BY DEF Before
<1>. QED BY <1>1, EndedStays DEF Before

LEMMA AskedStep ==
    ASSUME Asked, Effects PROVE Asked'
<1>. SUFFICES ASSUME NEW r \in Requests
              PROVE  /\ ModelsAreSimple(ask'[r])
                     /\ stage'[r] \in {"opening", "turn", "ending"} => ask'[r].route # "models"
  BY DEF Asked
<1>1. Effect(r) BY DEF Effects
<1>2. ModelsAreSimple(ask[r]) /\ (stage[r] \in {"opening", "turn", "ending"} => ask[r].route # "models")
  BY DEF Asked
<1>3. CASE Proceeds(r) BY <1>2, <1>3 DEF Proceeds, Same
<1>4. CASE Ends(r) BY <1>4 DEF Ends
<1>5. CASE Same(r) BY <1>2, <1>5 DEF Same
<1>. QED BY <1>1, <1>3, <1>4, <1>5 DEF Effect

LEMMA WritingStep ==
    ASSUME Writing, Effects PROVE Writing'
<1>. SUFFICES ASSUME NEW r \in Requests
              PROVE  /\ stage'[r] \notin {"turn", "ending", "done"} => out'[r] = <<>>
                     /\ stage'[r] \in {"turn", "ending"} /\ ~ask'[r].stream => out'[r] = <<>>
                     /\ stage'[r] \in {"turn", "ending"} /\ ask'[r].stream =>
                           \E n \in Nat : out'[r] = OpeningOf(ask'[r]) \o Text(n)
  BY DEF Writing
<1>1. Effect(r) BY DEF Effects
<1>2. /\ stage[r] \notin {"turn", "ending", "done"} => out[r] = <<>>
      /\ stage[r] \in {"turn", "ending"} /\ ~ask[r].stream => out[r] = <<>>
      /\ stage[r] \in {"turn", "ending"} /\ ask[r].stream =>
            \E n \in Nat : out[r] = OpeningOf(ask[r]) \o Text(n)
  BY DEF Writing
<1>3. CASE Same(r) /\ out'[r] = out[r] BY <1>2, <1>3 DEF Same
<1>4. CASE Ends(r) BY <1>4 DEF Ends
<1>5. CASE Proceeds(r)
  <2>1. CASE Same(r) /\ stage[r] \in {"turn", "ending"} /\ ask[r].stream /\ out'[r] = Append(out[r], "delta")
    <3>1. PICK n \in Nat : out[r] = OpeningOf(ask[r]) \o Text(n) BY <1>2, <2>1
    <3>2. OpeningOf(ask[r]) \in Openings BY OpeningOfIsOpening
    <3>3. Append(OpeningOf(ask[r]) \o Text(n), "delta") = OpeningOf(ask[r]) \o Text(n + 1)
      BY <3>2, TextGrows
    <3>4. n + 1 \in Nat OBVIOUS
    <3>. QED BY <2>1, <3>1, <3>3, <3>4 DEF Same
  <2>2. CASE /\ stage[r] = "opening" /\ stage'[r] = "turn" /\ ask'[r] = ask[r]
             /\ out'[r] = IF ask[r].stream THEN OpeningOf(ask[r]) ELSE <<>>
    <3>1. Text(0) = <<>> BY DEF Text
    <3>2. OpeningOf(ask[r]) \in Seq(Words) BY OpeningOfIsOpening, WordsOf
    <3>3. OpeningOf(ask[r]) = OpeningOf(ask[r]) \o Text(0) BY <3>1, <3>2, ConcatEmptySeq
    <3>. QED BY <2>2, <3>3
  <2>4. CASE /\ stage[r] = "turn" /\ stage'[r] = "ending"
             /\ ask'[r] = ask[r] /\ out'[r] = out[r]
    BY <1>2, <2>4
  <2>3. CASE stage[r] \in {"idle", "body", "catalogue"} /\ out'[r] = out[r]
             /\ stage'[r] \in {"body", "catalogue", "opening"}
    BY <1>2, <2>3
  <2>. QED BY <1>3, <1>5, <2>1, <2>2, <2>3, <2>4 DEF Proceeds
<1>. QED BY <1>1, <1>3, <1>4, <1>5 DEF Effect

LEMMA UnbornStep ==
    ASSUME Unborn, Effects PROVE Unborn'
<1>. SUFFICES ASSUME NEW r \in Requests, stage'[r] # "done"
              PROVE  rows'[r].status = "absent" /\ r \notin chats'
  BY DEF Unborn
<1>1. Effect(r) /\ ~ Ends(r) BY DEF Effects, Ends
<1>2. CASE Proceeds(r)
  <2>1. stage[r] # "done" BY <1>2 DEF Proceeds, Same
  <2>. QED BY <1>2, <2>1 DEF Proceeds, RowKept, Unborn
<1>3. CASE Same(r) /\ Deletion(r)
  BY <1>3 DEF Same, Deletion, Unborn, Absent
<1>. QED BY <1>1, <1>2, <1>3 DEF Effect

\* A row that is there was there, or is inserted as what its run continued.
LEMMA RowOrigin ==
    ASSUME Effects, NEW i \in Ids, rows'[i].status # "absent"
    PROVE  \/ rows'[i] = rows[i] /\ lineage'[i] = lineage[i]
           \/ i \in Requests /\ \E status : Inserted(i, status)
<1>1. CASE i \in Old BY <1>1 DEF Effects, OldEffect, Absent
<1>2. CASE i \in Requests
  <2>1. Effect(i) BY <1>2 DEF Effects
  <2>2. CASE Proceeds(i) BY <2>2 DEF Proceeds, RowKept
  <2>3. CASE Ends(i) BY <1>2, <2>3 DEF Ends, Unstored, RowKept, StoredFailed, Stored
  <2>4. CASE Deletion(i) BY <2>4 DEF Deletion, Absent
  <2>. QED BY <2>1, <2>2, <2>3, <2>4 DEF Effect
<1>. QED BY <1>1, <1>2 DEF Ids

LEMMA AncestryStep ==
    ASSUME Ancestry, HistoryKept, Effects PROVE Ancestry'
<1>. SUFFICES ASSUME NEW i \in Ids, rows'[i].status # "absent", rows'[i].prev # NoId
              PROVE  \/ rows'[i].prev \in Old
                     \/ rows'[i].prev \in Requests /\ stage'[rows'[i].prev] = "done"
  BY DEF Ancestry, Ended
<1>1. Ended(rows'[i].prev)
  <2>1. CASE rows'[i] = rows[i] BY <2>1 DEF Ancestry
  <2>2. CASE i \in Requests /\ \E status : Inserted(i, status)
    BY <2>2 DEF Inserted, HistoryKept
  <2>. QED BY <2>1, <2>2, RowOrigin
<1>2. PICK id : id = rows'[i].prev OBVIOUS
<1>3. Ended(id)' BY <1>1, <1>2, EndedStays
<1>. QED BY <1>2, <1>3 DEF Ended

LEMMA LineageKeptStep ==
    ASSUME LineageKept, Ancestry, HistoryKept, Effects PROVE LineageKept'
<1>. SUFFICES ASSUME NEW i \in Ids, rows'[i].status # "absent"
              PROVE  lineage'[i] = Append(IF rows'[i].prev = NoId THEN <<>>
                                          ELSE lineage'[rows'[i].prev], i)
  BY DEF LineageKept, Before
<1>1. CASE rows'[i] = rows[i] /\ lineage'[i] = lineage[i]
  <2>1. lineage[i] = Append(Before(rows[i].prev), i) BY <1>1 DEF LineageKept
  <2>2. rows[i].prev # NoId => Ended(rows[i].prev) BY <1>1 DEF Ancestry
  <2>. QED BY <1>1, <2>1, <2>2, EndedStays DEF Before
<1>2. CASE i \in Requests /\ \E status : Inserted(i, status)
  <2>1. lineage'[i] = Append(history[i], i) /\ rows'[i].prev = ask[i].prev
    BY <1>2 DEF Inserted
  <2>2. history[i] = Before(ask[i].prev) /\ (ask[i].prev # NoId => Ended(ask[i].prev))
    BY <1>2 DEF Inserted, HistoryKept
  <2>. QED BY <2>1, <2>2, EndedStays DEF Before
<1>. QED BY <1>1, <1>2, RowOrigin

LEMMA HistoryKeptStep ==
    ASSUME Typed, Unborn, LineageKept, HistoryKept, Effects PROVE HistoryKept'
<1>. SUFFICES ASSUME NEW r \in Requests, stage'[r] \in {"opening", "turn", "ending"}
              PROVE  /\ history'[r] = IF ask'[r].prev = NoId THEN <<>> ELSE lineage'[ask'[r].prev]
                     /\ ask'[r].prev # NoId =>
                           \/ ask'[r].prev \in Old
                           \/ ask'[r].prev \in Requests /\ stage'[ask'[r].prev] = "done"
  BY DEF HistoryKept, Before, Ended
<1>1. ask'[r] = ask[r] /\ history'[r] = Before(ask[r].prev)
      /\ (ask[r].prev # NoId => Ended(ask[r].prev))
  <2>1. Effect(r) /\ ~ Ends(r) BY DEF Effects, Ends
  <2>2. CASE Same(r) BY <2>2 DEF Same, HistoryKept
  <2>3. CASE stage[r] \in {"opening", "turn"} /\ ask'[r] = ask[r] /\ history'[r] = history[r]
    BY <2>3 DEF HistoryKept
  <2>4. CASE /\ stage[r] = "catalogue" /\ ask'[r] = ask[r]
             /\ history'[r] = Ancestors(ask[r].prev) /\ Ancestors(ask[r].prev) # Broken
    <3>1. ask[r].prev \in Ids \union {NoId} BY PrevTyped
    <3>2. NoId \notin Ids /\ MaxChainHops \in Nat BY ServerAssumption DEF Ids
    <3>3. /\ Ancestors(ask[r].prev) = Before(ask[r].prev)
          /\ ask[r].prev # NoId => rows[ask[r].prev].status = "completed"
      BY <2>4, <3>1, <3>2, AncestorsAreLineage
    <3>4. ask[r].prev # NoId => Ended(ask[r].prev)
      BY <3>1, <3>3 DEF Unborn, Ended, Ids
    <3>. QED BY <2>4, <3>3, <3>4
  <2>. QED BY <2>1, <2>2, <2>3, <2>4 DEF Effect, Proceeds
<1>2. CASE ask[r].prev = NoId BY <1>1, <1>2 DEF Before
<1>3. CASE ask[r].prev # NoId
  <2>1. PICK id : id = ask[r].prev OBVIOUS
  <2>2. Ended(id)' /\ lineage'[id] = lineage[id] BY <1>1, <1>3, <2>1, EndedStays
  <2>3. id \in Old \/ (id \in Requests /\ stage'[id] = "done") BY <2>2 DEF Ended
  <2>. QED BY <1>1, <1>3, <2>1, <2>2, <2>3 DEF Before
<1>. QED BY <1>2, <1>3

\* A request that was over has all it had, or less if its row is deleted.
LEMMA OverStays ==
    ASSUME Effects, NEW r \in Requests, stage'[r] = "done", ~ Ends(r)
    PROVE  /\ Same(r) /\ stage[r] = "done" /\ out'[r] = out[r]
           /\ RowKept(r) \/ Deletion(r)
<1>1. Effect(r) BY DEF Effects
<1>2. CASE Proceeds(r)
  <2>1. Same(r) /\ stage[r] = "done" BY <1>2 DEF Proceeds, Same
  <2>. QED BY <1>2, <2>1 DEF Proceeds
<1>3. CASE Same(r) /\ out'[r] = out[r] /\ Deletion(r) BY <1>3 DEF Same
<1>. QED BY <1>1, <1>2, <1>3 DEF Effect

\* What says that a completion or a response is complete.
Complete(asked) ==
    IF asked.stream THEN IF asked.route = "chat" THEN "done" ELSE "completed" ELSE "200"

LEMMA ToldIsHas == ASSUME NEW r PROVE Told(r) <=> Has(out[r], Complete(ask[r]))
BY DEF Told, Written, Has, Complete

LEMMA ToldIsHasNext == ASSUME NEW r PROVE Told(r)' <=> Has(out'[r], Complete(ask'[r]))
BY DEF Told, Written, Has, Complete

\* Of a request that ends unstored its client is not told that it is complete,
\* unless it was not to be stored.
LEMMA UnstoredIsUntold ==
    ASSUME NEW r, Unstored(r), ask'[r].route # "models", ask'[r].store
    PROVE  ~ Has(out'[r], Complete(ask'[r]))
<1> DEFINE word == Complete(ask'[r])
<1>1. word \in {"200", "completed", "done"} BY DEF Complete
<1>2. CASE out'[r] = <<"end">> BY <1>1, <1>2, PlainSays
<1>3. CASE \E status \in Answers : status # "200" /\ out'[r] = <<status, "end">>
  <2>1. PICK status \in Answers : status # "200" /\ out'[r] = <<status, "end">> BY <1>3
  <2>2. status # word BY <1>1, <2>1 DEF Answers
  <2>. QED BY <1>1, <2>1, <2>2, PlainSays
<1>4. CASE \E n \in Nat, last \in {Failing, <<>>} : out'[r] = Streamed(Opening, n, last)
  <2>1. PICK n \in Nat, last \in {Failing, <<>>} : out'[r] = Streamed(Opening, n, last)
    BY <1>4
  <2>2. Opening \in Openings /\ last \in Lasts BY DEF Openings, Lasts
  <2>3. ~ Has(last, word) BY <1>1, LastsSay
  <2>4. \A w \in {"200", "completed", "done"} :
           Has(Streamed(Opening, n, last), w) <=> Has(last, w)
    BY <2>2, StreamedWords
  <2>. QED BY <1>1, <2>1, <2>3, <2>4
<1>5. CASE \E n \in Nat, last \in {<<"stop", "error">>, <<"error">>, <<>>} :
              out'[r] = Streamed(<<"ok">>, n, last)
  <2>1. PICK n \in Nat, last \in {<<"stop", "error">>, <<"error">>, <<>>} :
          out'[r] = Streamed(<<"ok">>, n, last)
    BY <1>5
  <2>2. <<"ok">> \in Openings /\ last \in Lasts BY DEF Openings, Lasts
  <2>3. ~ Has(last, word) BY <1>1, LastsSay
  <2>4. \A w \in {"200", "completed", "done"} :
           Has(Streamed(<<"ok">>, n, last), w) <=> Has(last, w)
    BY <2>2, StreamedWords
  <2>. QED BY <1>1, <2>1, <2>3, <2>4
<1>7. CASE out'[r] = <<>> BY <1>7 DEF Has
<1>6. \/ out'[r] = <<"end">> \/ out'[r] = <<>>
      \/ \E status \in Answers : status # "200" /\ out'[r] = <<status, "end">>
      \/ \E n \in Nat, last \in {Failing, <<>>} : out'[r] = Streamed(Opening, n, last)
      \/ \E n \in Nat, last \in {<<"stop", "error">>, <<"error">>, <<>>} :
            out'[r] = Streamed(<<"ok">>, n, last)
  BY DEF Unstored
<1>. QED BY <1>2, <1>3, <1>4, <1>5, <1>6, <1>7

LEMMA FailedIsUntold ==
    ASSUME NEW r, StoredFailed(r), ask'[r] = ask[r]
    PROVE  ~ Has(out'[r], Complete(ask'[r]))
<1>1. Complete(ask'[r]) = "completed" BY DEF StoredFailed, Complete
<1>2. CASE \E status \in Answers \ {"200"} : out'[r] = <<status, "end">>
  <2>1. PICK status \in Answers \ {"200"} : out'[r] = <<status, "end">> BY <1>2
  <2>2. status # "completed" BY <2>1 DEF Answers
  <2>. QED BY <1>1, <2>1, <2>2, PlainSays
<1>3. CASE \E n \in Nat : out'[r] = Streamed(Opening, n, Failing)
  <2>1. PICK n \in Nat : out'[r] = Streamed(Opening, n, Failing) BY <1>3
  <2>2. Opening \in Openings /\ Failing \in Lasts BY DEF Openings, Lasts
  <2>3. ~ Has(Failing, "completed") BY LastsSay
  <2>. QED BY <1>1, <2>1, <2>2, <2>3, StreamedWords
<1>. QED BY <1>2, <1>3 DEF StoredFailed

LEMMA StoredIsTold ==
    ASSUME NEW r, Stored(r), ask'[r] = ask[r], ask[r].route \in Routes
    PROVE  Has(out'[r], Complete(ask'[r]))
<1>1. CASE ~ ask[r].stream
  <2>1. out'[r] = <<"200", "end">> BY <1>1 DEF Stored
  <2>2. Complete(ask'[r]) = "200" BY <1>1 DEF Complete
  <2>. QED BY <2>1, <2>2, PlainSays
<1>2. CASE ask[r].stream
  <2>1. PICK n \in Nat : out'[r] = Streamed(OpeningOf(ask[r]), n, LastOf(ask[r]))
    BY <1>2 DEF Stored
  <2>2. OpeningOf(ask[r]) \in Openings /\ LastOf(ask[r]) \in Lasts
    BY OpeningOfIsOpening DEF LastOf, Lasts
  <2>3. Has(LastOf(ask[r]), Complete(ask'[r])) BY <1>2, LastsSay DEF LastOf, Complete
  <2>4. Complete(ask'[r]) \in {"200", "completed", "done"} BY DEF Complete
  <2>5. \A word \in {"200", "completed", "done"} :
           Has(Streamed(OpeningOf(ask[r]), n, LastOf(ask[r])), word) <=> Has(LastOf(ask[r]), word)
    BY <2>2, StreamedWords
  <2>. QED BY <2>1, <2>3, <2>4, <2>5
<1>. QED BY <1>1, <1>2

LEMMA SettledStep ==
    ASSUME Typed, Unborn, Settled, Effects, GoneKept PROVE Settled'
<1>. SUFFICES ASSUME NEW r \in Requests, stage'[r] = "done"
              PROVE  /\ IF ask'[r].route # "models" /\ Told(r)' /\ ask'[r].store
                        THEN r \in chats' \/ rows'[r].status = "completed" \/ r \in deleted'
                        ELSE ~ (r \in chats' \/ rows'[r].status = "completed")
                     /\ r \in chats' \/ rows'[r].status = "completed" =>
                           (r \in gone' => ask'[r].stream)
  BY DEF Settled
<1>1. CASE ~ Ends(r)
  <2>1. Same(r) /\ stage[r] = "done" /\ out'[r] = out[r] /\ (RowKept(r) \/ Deletion(r))
    BY <1>1, OverStays
  <2>2. Told(r)' <=> Told(r) BY <2>1, ToldIsHas, ToldIsHasNext DEF Same
  <2>3. /\ IF ask[r].route # "models" /\ Told(r) /\ ask[r].store
           THEN r \in chats \/ rows[r].status = "completed" \/ r \in deleted
           ELSE ~ (r \in chats \/ rows[r].status = "completed")
        /\ r \in chats \/ rows[r].status = "completed" => (r \in gone => ask[r].stream)
    BY <2>1 DEF Settled
  <2>4. deleted \subseteq deleted' /\ (r \in gone' => r \in gone)
    BY <2>1 DEF Effects, GoneKept
  <2>5. CASE RowKept(r) BY <2>1, <2>2, <2>3, <2>4, <2>5 DEF RowKept, Same
  <2>6. CASE Deletion(r) BY <2>1, <2>2, <2>3, <2>4, <2>6 DEF Deletion, Same, Absent
  <2>. QED BY <2>1, <2>5, <2>6
<1>2. CASE Ends(r)
  <2>1. rows[r].status = "absent" /\ r \notin chats BY <1>2 DEF Ends, Unborn
  <2>2. CASE Unstored(r)
    <3>1. ~ (r \in chats' \/ rows'[r].status = "completed") BY <2>1, <2>2 DEF Unstored, RowKept
    <3>. QED BY <2>2, <3>1, UnstoredIsUntold, ToldIsHasNext
  <2>3. CASE StoredFailed(r) /\ ask'[r] = ask[r]
    <3>1. ~ (r \in chats' \/ rows'[r].status = "completed")
      BY <2>1, <2>3 DEF StoredFailed, Inserted
    <3>. QED BY <2>3, <3>1, FailedIsUntold, ToldIsHasNext
  <2>4. CASE Stored(r) /\ ask'[r] = ask[r]
    <3>1. r \in chats' \/ rows'[r].status = "completed" BY <2>4 DEF Stored, Inserted
    <3>2. ask[r].route \in Routes BY DEF Typed, Asks
    <3>3. Told(r)' BY <2>4, <3>2, StoredIsTold, ToldIsHasNext
    <3>. QED BY <2>4, <3>1, <3>3 DEF Stored
  <2>. QED BY <1>2, <2>2, <2>3, <2>4 DEF Ends
<1>. QED BY <1>1, <1>2

\* A stream is no shorter than its deltas are many, nor than an answer alone.
LEMMA StreamedLength ==
    ASSUME NEW o \in Openings, NEW n \in Nat, NEW last \in Lasts
    PROVE  n \in 0 .. Len(Streamed(o, n, last))
<1>1. Len(o) \in {1, 4} /\ Len(last) \in 0 .. 4 BY WordsOf
<1>2. Len(Streamed(o, n, last)) = Len(o) + n + Len(last) + 1 BY StreamedWords
<1>. QED BY <1>1, <1>2

LEMMA ResponseStreamLength ==
    ASSUME NEW n \in Nat, NEW last \in {Ending, Failing, <<>>}
    PROVE  n \in 0 .. Len(Streamed(Opening, n, last))
BY StreamedLength DEF Openings, Lasts

LEMMA ChatStreamLength ==
    ASSUME NEW n \in Nat, NEW last \in {<<"stop", "done">>, <<"stop", "error">>, <<"error">>, <<>>}
    PROVE  n \in 0 .. Len(Streamed(<<"ok">>, n, last))
BY StreamedLength DEF Openings, Lasts

\* One answer to a request that asks for asked, whose client has left or not.
OneFor(asked, written, left) ==
    \/ \E status \in Answers : written = <<status, "end">>
    \/ written = <<"end">>
    \/ written = <<>> /\ left /\ ~asked.stream
    \/ /\ asked.stream
       /\ \E n \in 0 .. Len(written) :
             \/ /\ asked.route = "response"
                /\ \E last \in {Ending, Failing, <<>>} : written = Streamed(Opening, n, last)
             \/ /\ asked.route = "chat"
                /\ \E last \in {<<"stop", "done">>, <<"stop", "error">>, <<"error">>, <<>>} :
                      written = Streamed(<<"ok">>, n, last)

LEMMA OneAnswerStep ==
    ASSUME Typed, OneAnswer, Effects, GoneKept PROVE OneAnswer'
<1>. SUFFICES ASSUME NEW r \in Requests, stage'[r] = "done" PROVE OneFor(ask'[r], out'[r], r \in gone')
  BY DEF OneAnswer, OneFor
<1>1. CASE ~ Ends(r)
  <2>1. Same(r) /\ stage[r] = "done" /\ out'[r] = out[r] BY <1>1, OverStays
  <2>2. OneFor(ask[r], out[r], r \in gone) BY <2>1 DEF OneAnswer, OneFor
  <2>3. r \in gone => r \in gone' BY DEF GoneKept
  <2>. QED BY <2>1, <2>2, <2>3 DEF Same, OneFor
<1>2. ASSUME NEW n \in Nat, NEW last \in {Ending, Failing, <<>>},
             ask'[r].stream, ask'[r].route = "response", out'[r] = Streamed(Opening, n, last)
      PROVE  OneFor(ask'[r], out'[r], r \in gone')
  BY <1>2, ResponseStreamLength DEF OneFor
<1>3. ASSUME NEW n \in Nat,
             NEW last \in {<<"stop", "done">>, <<"stop", "error">>, <<"error">>, <<>>},
             ask'[r].stream, ask'[r].route = "chat", out'[r] = Streamed(<<"ok">>, n, last)
      PROVE  OneFor(ask'[r], out'[r], r \in gone')
  BY <1>3, ChatStreamLength DEF OneFor
<1>4. CASE Ends(r)
  <2>1. CASE Unstored(r)
    <3>1. \/ out'[r] = <<"end">>
          \/ out'[r] = <<>> /\ r \in gone' /\ ~ask'[r].stream
          \/ \E status \in Answers : out'[r] = <<status, "end">>
          \/ /\ ask'[r].stream /\ ask'[r].route = "response"
             /\ \E n \in Nat, last \in {Ending, Failing, <<>>} :
                   out'[r] = Streamed(Opening, n, last)
          \/ /\ ask'[r].stream /\ ask'[r].route = "chat"
             /\ \E n \in Nat,
                   last \in {<<"stop", "done">>, <<"stop", "error">>, <<"error">>, <<>>} :
                   out'[r] = Streamed(<<"ok">>, n, last)
      BY <2>1 DEF Unstored
    <3>2. CASE out'[r] = <<"end">> BY <3>2 DEF OneFor
    <3>3. CASE \E status \in Answers : out'[r] = <<status, "end">> BY <3>3 DEF OneFor
    <3>4. CASE out'[r] = <<>> /\ r \in gone' /\ ~ask'[r].stream BY <3>4 DEF OneFor
    <3>. QED BY <1>2, <1>3, <3>1, <3>2, <3>3, <3>4
  <2>2. CASE StoredFailed(r) /\ ask'[r] = ask[r]
    <3>1. CASE \E status \in Answers : out'[r] = <<status, "end">> BY <3>1 DEF OneFor
    <3>2. CASE \E n \in Nat : out'[r] = Streamed(Opening, n, Failing)
      BY <1>2, <2>2, <3>2 DEF StoredFailed
    <3>. QED BY <2>2, <3>1, <3>2 DEF StoredFailed
  <2>3. CASE Stored(r) /\ ask'[r] = ask[r]
    <3>1. ask[r].route \in {"chat", "response"} BY <2>3 DEF Stored, Typed, Asks, Routes
    <3>2. CASE ~ ask[r].stream
      <4>1. out'[r] = <<"200", "end">> BY <2>3, <3>2 DEF Stored
      <4>2. "200" \in Answers BY DEF Answers
      <4>. QED BY <4>1, <4>2 DEF OneFor
    <3>3. CASE ask[r].stream
      <4>1. PICK n \in Nat : out'[r] = Streamed(OpeningOf(ask[r]), n, LastOf(ask[r]))
        BY <2>3, <3>3 DEF Stored
      <4>2. CASE ask[r].route = "chat"
        BY <1>3, <2>3, <3>3, <4>1, <4>2 DEF OpeningOf, LastOf
      <4>3. CASE ask[r].route = "response"
        BY <1>2, <2>3, <3>3, <4>1, <4>3 DEF OpeningOf, LastOf
      <4>. QED BY <3>1, <4>2, <4>3
    <3>. QED BY <3>2, <3>3
  <2>. QED BY <1>4, <2>1, <2>2, <2>3 DEF Ends
<1>. QED BY <1>1, <1>4

\* The replay of a stored response, from its beginning.
LEMMA ReplayIs ==
    ASSUME NEW row
    PROVE  Replay(row, -1) = IF row.status = "failed" THEN Failing
                             ELSE Opening \o <<"delta">> \o Ending
<1>1. Failing \in Seq(Words)
  BY WordsOf DEF Lasts
<1>2. Opening \o <<"delta">> \o Ending \in Seq(Words)
  <2>1. Opening \in Openings /\ Ending \in Lasts BY DEF Openings, Lasts
  <2>2. Opening \in Seq(Words) /\ Ending \in Seq(Words) BY <2>1, WordsOf
  <2>3. "delta" \in Words BY DEF Words, Chunks
  <2>4. <<"delta">> \in Seq(Words)
    <3>. HIDE DEF Words
    <3>. QED BY <2>3
  <2>5. Opening \o <<"delta">> \in Seq(Words) BY <2>2, <2>4, ConcatProperties, Zenon
  <2>. QED BY <2>2, <2>5, ConcatProperties, Zenon
<1>3. -1 + 2 = 1 OBVIOUS
<1>4. CASE row.status = "failed"
  <2>1. Replay(row, -1) = SubSeq(Failing, 1, Len(Failing)) BY <1>3, <1>4 DEF Replay
  <2>. QED BY <1>1, <1>4, <2>1, SubSeqFull
<1>5. CASE row.status # "failed"
  <2> DEFINE all == Opening \o <<"delta">> \o Ending
  <2>1. Replay(row, -1) = SubSeq(all, 1, Len(all)) BY <1>3, <1>5 DEF Replay
  <2>2. all \in Seq(Words) BY <1>2
  <2>. HIDE DEF all
  <2>3. SubSeq(all, 1, Len(all)) = all BY <2>2, SubSeqFull
  <2>. QED BY <1>5, <2>1, <2>3 DEF all
<1>. QED BY <1>4, <1>5

\* A response of which a stream was told replays as its stream ended.
Replays(row, written) ==
    \E n \in 0 .. Len(written), last \in {Ending, Failing} :
       /\ written = Streamed(Opening, n, last)
       /\ Replay(row, -1) = IF row.status = "completed" THEN Opening \o <<"delta">> \o last
                            ELSE last

LEMMA ReplayAgreesStep ==
    ASSUME Typed, Unborn, ReplayAgrees, Effects PROVE ReplayAgrees'
<1>. SUFFICES ASSUME NEW r \in Requests, rows'[r].status # "absent", stage'[r] = "done",
                     ask'[r].stream, Len(out'[r]) > 2
              PROVE  Replays(rows'[r], out'[r])
  BY DEF ReplayAgrees, Replays, Replay
<1>1. CASE ~ Ends(r)
  <2>1. Same(r) /\ stage[r] = "done" /\ out'[r] = out[r] /\ (RowKept(r) \/ Deletion(r))
    BY <1>1, OverStays
  <2>2. rows'[r] = rows[r] BY <2>1 DEF RowKept, Deletion, Absent
  <2>3. Replays(rows[r], out[r]) BY <2>1, <2>2 DEF ReplayAgrees, Replays, Same
  <2>. QED BY <2>1, <2>2, <2>3
<1>2. CASE Ends(r)
  <2>1. rows[r].status = "absent" BY <1>2 DEF Ends, Unborn
  <2>2. ~ Unstored(r) BY <2>1 DEF Unstored, RowKept
  <2>3. CASE StoredFailed(r)
    <3>1. PICK n \in Nat : out'[r] = Streamed(Opening, n, Failing)
      <4>1. ASSUME NEW status, out'[r] = <<status, "end">> PROVE FALSE
        <5>1. Len(<<status, "end">>) = 2 BY PlainSays
        <5>2. Len(<<status, "end">>) > 2 BY <4>1, Zenon
        <5>3. 2 > 2 BY <5>1, <5>2, Zenon
        <5>. QED BY <5>3
      <4>. QED BY <2>3, <4>1 DEF StoredFailed
    <3>2. n \in 0 .. Len(out'[r]) BY <3>1, ResponseStreamLength
    <3>3. rows'[r].status = "failed" BY <2>3 DEF StoredFailed, Inserted
    <3>4. Replay(rows'[r], -1) = Failing BY <3>3, ReplayIs
    <3>. QED BY <3>1, <3>2, <3>3, <3>4 DEF Replays
  <2>4. CASE Stored(r) /\ ask'[r] = ask[r]
    <3>1. ask[r].route \in Routes BY DEF Typed, Asks
    <3>2. ask[r].route = "response" /\ Inserted(r, "completed") BY <2>1, <2>4 DEF Stored
    <3>3. PICK n \in Nat : out'[r] = Streamed(Opening, n, Ending)
      BY <2>4, <3>2 DEF Stored, OpeningOf, LastOf
    <3>4. n \in 0 .. Len(out'[r]) BY <3>3, ResponseStreamLength
    <3>5. rows'[r].status = "completed" BY <3>2 DEF Inserted
    <3>6. Replay(rows'[r], -1) = Opening \o <<"delta">> \o Ending BY <3>5, ReplayIs
    <3>. QED BY <3>3, <3>4, <3>5, <3>6 DEF Replays
  <2>. QED BY <1>2, <2>2, <2>3, <2>4 DEF Ends
<1>. QED BY <1>1, <1>2

-----------------------------------------------------------------------------
(* The invariant.                                                          *)

LEMMA InitInvariant == ASSUME Init PROVE IInv
<1>. USE ServerAssumption
<1>1. PICK oldRows \in [Old -> [status : Statuses, prev : Old \union {NoId}]],
           oldLineage \in [Old -> Seq(Old)] :
             Inherited(oldRows, oldLineage) /\ InitWith(oldRows, oldLineage)
  BY DEF Init
<1>2. /\ server = "open" /\ pin = FALSE /\ chats = {} /\ gone = {} /\ deleted = {}
      /\ rows = [i \in Ids |-> IF i \in Old THEN oldRows[i] ELSE Absent]
      /\ ask = [r \in Requests |->
                  [route |-> "models", stream |-> FALSE, store |-> FALSE, prev |-> NoId]]
      /\ stage = [r \in Requests |-> "idle"]
      /\ history = [r \in Requests |-> <<>>]
      /\ out = [r \in Requests |-> <<>>]
      /\ lineage = [i \in Ids |-> IF i \in Old THEN oldLineage[i] ELSE <<>>]
  BY <1>1 DEF InitWith
<1>3. Typed
  <2>1. Absent \in [status : Statuses, prev : Ids \union {NoId}] BY DEF Absent, Statuses
  <2>2. \A i \in Old : oldRows[i] \in [status : Statuses, prev : Ids \union {NoId}]
    BY DEF Ids
  <2>3. rows \in [Ids -> [status : Statuses, prev : Ids \union {NoId}]] BY <1>2, <2>1, <2>2
  <2>4. \A i \in Old : oldLineage[i] \in Seq(Ids) BY DEF Ids
  <2>5. lineage \in [Ids -> Seq(Ids)] BY <1>2, <2>4
  <2>6. ask \in [Requests -> Asks] BY <1>2 DEF Asks, Routes
  <2>7. stage \in [Requests -> Stages] /\ history \in [Requests -> Seq(Ids)]
    BY <1>2 DEF Stages
  <2>. QED BY <1>2, <2>3, <2>5, <2>6, <2>7 DEF Typed
<1>4. Asked /\ Writing /\ HistoryKept /\ Settled /\ OneAnswer /\ ReplayAgrees
  BY <1>2 DEF Asked, ModelsAreSimple, Writing, HistoryKept, Settled, OneAnswer, ReplayAgrees
<1>5. Unborn BY <1>2 DEF Unborn, Ids, Absent
<1>6. Ancestry BY <1>2 DEF Ancestry, Ended, Ids, Absent
<1>7. LineageKept
  <2>. SUFFICES ASSUME NEW i \in Ids, rows[i].status # "absent"
                PROVE  lineage[i] = Append(Before(rows[i].prev), i)
    BY DEF LineageKept
  <2>1. i \in Old /\ rows[i] = oldRows[i] /\ lineage[i] = oldLineage[i]
    BY <1>2 DEF Absent
  <2>2. oldLineage[i] = Append(IF oldRows[i].prev = NoId THEN <<>>
                               ELSE oldLineage[oldRows[i].prev], i)
    BY <1>1, <2>1 DEF Inherited
  <2>3. oldRows[i].prev # NoId =>
          oldRows[i].prev \in Old /\ lineage[oldRows[i].prev] = oldLineage[oldRows[i].prev]
    BY <1>2, <2>1 DEF Ids
  <2>. QED BY <2>1, <2>2, <2>3 DEF Before
<1>. QED BY <1>3, <1>4, <1>5, <1>6, <1>7 DEF IInv

LEMMA NextInvariant == ASSUME IInv, [Next]_vars PROVE IInv'
<1>1. Effects /\ GoneKept BY StepEffects, StepKeeps DEF IInv
<1>2. Typed' BY TypedStep DEF IInv
<1>3. Asked' /\ Writing' /\ Unborn' BY <1>1, AskedStep, WritingStep, UnbornStep DEF IInv
<1>4. Ancestry' /\ LineageKept' /\ HistoryKept'
  BY <1>1, AncestryStep, LineageKeptStep, HistoryKeptStep DEF IInv
<1>5. Settled' /\ OneAnswer' /\ ReplayAgrees'
  BY <1>1, SettledStep, OneAnswerStep, ReplayAgreesStep DEF IInv
<1>. QED BY <1>2, <1>3, <1>4, <1>5 DEF IInv

\* The server keeps its inductive invariant.
THEOREM Invariant == Spec => []IInv
<1>1. Init => IInv BY InitInvariant
<1>2. IInv /\ [Next]_vars => IInv' BY NextInvariant
<1>. QED BY <1>1, <1>2, PTL DEF Spec

-----------------------------------------------------------------------------
(* What the invariant says.                                                *)

\* What a request writes, at every stage, is a sequence of words.
LEMMA OutTyped == ASSUME IInv PROVE out \in [Requests -> Seq(Answers \union Chunks)]
<1>1. ASSUME NEW r \in Requests PROVE out[r] \in Seq(Words)
  <2>1. <<>> \in Seq(Words) /\ <<"end">> \in Seq(Words) BY WordsOf
  <2>2. CASE out[r] = <<>> BY <2>1, <2>2
  <2>3. CASE \E n \in Nat : out[r] = OpeningOf(ask[r]) \o Text(n)
    <3>1. <<>> \in Lasts BY DEF Lasts
    <3>. QED BY <2>3, <3>1, OpeningOfIsOpening, StreamedWords
  <2>4. CASE stage[r] = "done"
    <3>1. CASE \E status \in Answers : out[r] = <<status, "end">>
      <4>1. "end" \in Words /\ Answers \subseteq Words BY DEF Words, Chunks
      <4>. HIDE DEF Words
      <4>. QED BY <3>1, <4>1
    <3>2. CASE \E n \in Nat, o \in Openings, last \in Lasts : out[r] = Streamed(o, n, last)
      BY <3>2, StreamedWords
    <3>3. CASE out[r] = <<"end">> BY <2>1, <3>3
    <3>4. \/ \E status \in Answers : out[r] = <<status, "end">>
          \/ out[r] = <<"end">> \/ out[r] = <<>>
          \/ \E n \in Nat, o \in Openings, last \in Lasts : out[r] = Streamed(o, n, last)
      <4>1. Len(out[r]) \in Nat \/ 0 .. Len(out[r]) \subseteq Nat OBVIOUS
      <4>. QED BY <2>4, <4>1 DEF IInv, OneAnswer, Openings, Lasts
    <3>. QED BY <2>2, <3>1, <3>2, <3>3, <3>4
  <2>. QED BY <2>2, <2>3, <2>4 DEF IInv, Writing
<1>. QED BY <1>1 DEF IInv, Typed, Words

\* The types of everything, what is written to the clients included.
THEOREM TypeCorrect == Spec => []TypeOK
<1>1. IInv => TypeOK BY OutTyped DEF IInv, Typed, TypeOK
<1>. QED BY <1>1, Invariant, PTL

\* What is written and what is stored agree, for a client that leaves at any
\* moment: the streams store before they say so and whether or not anybody is
\* there, and what answers with JSON stores nothing once its client is gone.
THEOREM ToldIffStoredHolds == Spec => []ToldIffStored
<1>1. ASSUME IInv PROVE ToldIffStored
  <2>1. ASSUME NEW r \in Requests, stage[r] # "done"
        PROVE  /\ GetAnswer(r) = "404" /\ CancelAnswer(r) = "404"
               /\ Ancestors(r) = Broken /\ r \notin chats
    <3>1. rows[r].status = "absent" /\ r \notin chats BY <1>1, <2>1 DEF IInv, Unborn
    <3>2. r \in Ids /\ NoId \notin Ids /\ MaxChainHops \in Nat BY ServerAssumption DEF Ids
    <3>3. Ancestors(r) = Broken BY <3>1, <3>2, AbsentIsBroken
    <3>. QED BY <3>1, <3>3 DEF GetAnswer, CancelAnswer
  <2>. QED BY <1>1, <2>1 DEF IInv, Settled, ToldIffStored
<1>. QED BY <1>1, Invariant, PTL

\* A run continues the whole conversation or is not begun: loadAncestorChain
\* stops at a deleted row, and never gives what is left after it.
THEOREM HistoryCompleteHolds == Spec => []HistoryComplete
<1>1. IInv => HistoryComplete BY DEF IInv, HistoryKept, HistoryComplete, Before
<1>. QED BY <1>1, Invariant, PTL

\* Each client gets one answer, whichever of its awaits fails.
THEOREM OneAnswerHolds == Spec => []OneAnswer
<1>1. IInv => OneAnswer BY DEF IInv
<1>. QED BY <1>1, Invariant, PTL

\* The replay of a completed response has the events its stream was written
\* with; that of a failed one has the two that ended it.
THEOREM ReplayAgreesHolds == Spec => []ReplayAgrees
<1>1. IInv => ReplayAgrees BY DEF IInv
<1>. QED BY <1>1, Invariant, PTL

\* The pin is kept, and a request that is idle or reads its body when it is set
\* never gets to the upstream (route and runPinned).  Of a request that is past
\* that look it says nothing: the code lets it go on.
THEOREM PinHoldsHolds == Spec => PinHolds
<1>1. ASSUME IInv, [Next]_vars, pin
      PROVE  /\ pin'
             /\ \A r \in Requests :
                   stage[r] \notin Upstream => stage'[r] \in {stage[r], "done"}
  <2>1. pin' BY <1>1, StepKeeps
  <2>2. ASSUME NEW r \in Requests, stage[r] \notin Upstream
        PROVE  stage'[r] \in {stage[r], "done"}
    <3>1. Effect(r) BY <1>1, StepEffects DEF IInv, Effects
    <3>. QED BY <1>1, <2>2, <3>1 DEF Effect, Proceeds, Ends, Same, Upstream
  <2>. QED BY <2>1, <2>2
<1>. QED BY <1>1, Invariant, PTL DEF Spec, PinHolds
=============================================================================
