----------------------------- MODULE Conversation -----------------------------
(***************************************************************************)
(* How a conversation becomes the prompt and the history of a run: the     *)
(* mappings of chat completions (messages.ts), of responses                *)
(* (responses-input.ts), of OpenCode (prompt.ts) and of Pi (stream.ts),    *)
(* and conversationHistoryFromTurns (run/history.ts), which all of them    *)
(* end in.  A host's conversation grows message by message.                *)
(*                                                                         *)
(* A piece of text, a call or a result is a mark, marks are given in the   *)
(* order of the conversation, and the empty text is the mark 0.  Joining   *)
(* texts concatenates their marks; separators and headings are left out.   *)
(***************************************************************************)
EXTENDS Naturals, SequencesExt

CONSTANT MaxMessages    \* bound: of a conversation's messages

VARIABLES
    messages,   \* the host's messages
    marks       \* how many marks were given

conversationVars == <<messages, marks>>

Kinds == {"text", "reasoning", "call", "result"}
Roles == {"system", "user", "assistant", "tool"}

ConversationTypeOK ==
    /\ marks \in Nat
    /\ messages \in Seq([role : Roles, parts : Seq([kind : Kinds, mark : 0 .. marks, of : 0 .. marks])])

ConversationInit == messages = <<>> /\ marks = 0

\* The elements of a list that are among those wanted, in their order.
Only(list, wanted) ==
    FlattenSeq([i \in 1 .. Len(list) |-> IF list[i] \in wanted THEN << list[i] >> ELSE <<>>])

Marks(parts) == [i \in 1 .. Len(parts) |-> parts[i].mark]

-----------------------------------------------------------------------------
(* What the hosts write.                                                   *)

\* The kinds of the parts of a message; "empty" is a text without characters.
\* Files, and tool results in an assistant's message, are not among them: no
\* mapping passes them on (OpenCode's skips them with a warning).
Shapes(role) ==
    CASE role = "system" -> {<<"text">>, <<"empty">>}
      [] role = "user" -> {<<"text">>, <<"text", "text">>, <<"empty">>}
      [] role = "tool" -> {<<"result">>, <<"result", "result">>}
      [] OTHER -> {<<>>, <<"text">>, <<"reasoning", "text">>, <<"reasoning">>,
                   <<"text", "call", "text">>, <<"call", "call">>}

Written(shape, called) ==
    [i \in 1 .. Len(shape) |->
        [kind |-> IF shape[i] = "empty" THEN "text" ELSE shape[i],
         mark |-> IF shape[i] = "empty" THEN 0 ELSE marks + i,
         of |-> IF shape[i] = "result" THEN called[i] ELSE 0]]

\* The calls that have no result yet, in their order.
Unanswered ==
    LET parts == FlattenSeq([i \in 1 .. Len(messages) |-> messages[i].parts])
    IN  Marks(Only(parts, {p \in ToSet(parts) :
                 p.kind = "call" /\ ~\E q \in ToSet(parts) : q.of = p.mark}))

Write(role, shape) ==
    /\ Len(messages) < MaxMessages
    /\ role = "tool" => Len(Unanswered) >= Len(shape)
    /\ messages' = Append(messages, [role |-> role, parts |-> Written(shape, Unanswered)])
    /\ marks' = marks + Len(shape)

ConversationNext == \E role \in Roles : \E shape \in Shapes(role) : Write(role, shape)

ConversationSpec == ConversationInit /\ [][ConversationNext]_conversationVars

-----------------------------------------------------------------------------
(* Texts and turns.                                                        *)

\* The marks of the parts of a kind, joined.
Joined(parts, kind) ==
    Marks(Only(parts, {p \in ToSet(parts) : p.kind = kind /\ p.mark # 0}))

Turn(role, parts) ==
    [role |-> role, text |-> Joined(parts, "text"), thinking |-> Joined(parts, "reasoning"),
     calls |-> Joined(parts, "call")]

\* conversationHistoryFromTurns: an assistant's content is its reasoning, its
\* text and its calls, in this order and without those that are empty.
Content(turn) == turn.thinking \o turn.text \o turn.calls

History(turns) == [i \in 1 .. Len(turns) |-> Content(turns[i])]

OfRole(roles) == Only(messages, {m \in ToSet(messages) : m.role \in roles})

Turns(list) == [i \in 1 .. Len(list) |-> Turn(list[i].role, list[i].parts)]

\* system and developer texts, joined.
SystemText ==
    LET systems == OfRole({"system"})
    IN  FlattenSeq([i \in 1 .. Len(systems) |-> Joined(systems[i].parts, "text")])

Mapped(prompt, turns) == [prompt |-> prompt, history |-> History(turns)]

-----------------------------------------------------------------------------
(* The OpenAI server.                                                      *)

\* mapMessages: text only, and the last turn is the user's.
ChatTurns == Turns(OfRole({"user", "assistant"}))

Chattable ==
    /\ \A m \in ToSet(messages) :
          m.role # "tool" /\ \A p \in ToSet(m.parts) : p.kind = "text"
    /\ ChatTurns # <<>> /\ Last(ChatTurns).role = "user"

Chat == Mapped(SystemText \o Last(ChatTurns).text, Front(ChatTurns))

\* mapResponsesInput: the last text is not empty either; the turns of the
\* ancestors come before those of the input.
AncestorTurns(transcripts) ==
    FlattenSeq([i \in 1 .. Len(transcripts) |->
        << [role |-> "user", text |-> transcripts[i].user, thinking |-> <<>>, calls |-> <<>>],
           [role |-> "assistant", text |-> transcripts[i].assistant,
            thinking |-> <<>>, calls |-> <<>>] >>])

Respond(instructions, transcripts, turns) ==
    Mapped(instructions \o SystemText \o Last(turns).text,
           AncestorTurns(transcripts) \o Front(turns))

\* The same conversation as a chain of responses, one user text to each: what
\* the store has kept of those before the last.
Alternates ==
    \A i \in 1 .. Len(ChatTurns) :
        ChatTurns[i].role = (IF i % 2 = 1 THEN "user" ELSE "assistant")

Transcripts ==
    [i \in 1 .. Len(ChatTurns) \div 2 |->
        [user |-> ChatTurns[2 * i - 1].text, assistant |-> ChatTurns[2 * i].text]]

\* conversationHistory() of a run's handle (run/transcript.ts): its prompt, and
\* its answer unless that is empty.
OwnHistory(transcript) ==
    << transcript.user >> \o (IF transcript.assistant = <<>> THEN <<>>
                              ELSE << transcript.assistant >>)

-----------------------------------------------------------------------------
(* OpenCode.                                                               *)

\* An assistant's message without text and calls is dropped, reasoning always;
\* each result of a tool's message is an item.
Items(m) ==
    CASE m.role = "system" -> <<>>
      [] m.role = "user" -> << <<"user", m.parts>> >>
      [] m.role = "tool" -> [i \in 1 .. Len(m.parts) |-> <<"tool", << m.parts[i] >> >>]
      [] OTHER -> LET parts == Only(m.parts, {p \in ToSet(m.parts) : p.kind # "reasoning" /\ p.mark # 0})
                  IN  IF parts = <<>> THEN <<>> ELSE << <<"assistant", parts>> >>

OpenCodeItems == FlattenSeq([i \in 1 .. Len(messages) |-> Items(messages[i])])

LastIsUser == OpenCodeItems # <<>> /\ Last(OpenCodeItems)[1] = "user"

\* toHistoryTurns and the content it ends in.
ItemContent(item) ==
    IF item[1] = "tool" THEN << item[2][1].mark >>
    ELSE Joined(item[2], "text") \o Joined(item[2], "call")

\* A user's message without text is no turn.
Spoken(items) ==
    Only(items, {item \in ToSet(items) : item[1] = "user" => Joined(item[2], "text") # <<>>})

\* MUTANT: the last user's message is history too.
HistoryItemsAll == Spoken(OpenCodeItems)

\* A last user's message is the prompt and not history.
HistoryItems == Spoken(IF LastIsUser THEN Front(OpenCodeItems) ELSE OpenCodeItems)

\* continuationPrompt repeats the history, its parts as they were written.
Transcript ==
    LET items == HistoryItems
        parts == FlattenSeq([i \in 1 .. Len(items) |-> items[i][2]])
    IN  Marks(Only(parts, {p \in ToSet(parts) : p.mark # 0}))

OpenCode ==
    LET items == HistoryItems
    IN  [prompt |-> SystemText \o (IF LastIsUser THEN Joined(Last(OpenCodeItems)[2], "text")
                                   ELSE Transcript),
         history |-> [i \in 1 .. Len(items) |-> ItemContent(items[i])]]

-----------------------------------------------------------------------------
(* Pi.                                                                     *)

UserIndices == {i \in 1 .. Len(messages) : messages[i].role = "user"}

LastUser == IF UserIndices = {} THEN 0 ELSE CHOOSE i \in UserIndices : \A j \in UserIndices : j <= i

\* latestUserText and historyTurns: the latest user's message is the prompt,
\* wherever it is, and everything else is history.  The system prompt of a Pi
\* context is no message.
PiContent(m) == IF m.role = "tool" THEN Marks(m.parts) ELSE Content(Turn(m.role, m.parts))

PiHistory ==
    LET asked == LastUser
        kept == {i \in 1 .. Len(messages) : i # asked /\ messages[i].role # "system"}
        others == Only([i \in 1 .. Len(messages) |-> i], kept)
    IN  [i \in 1 .. Len(others) |-> PiContent(messages[others[i]])]

Pi == [prompt |-> IF LastUser = 0 THEN <<>> ELSE Joined(messages[LastUser].parts, "text"),
       history |-> PiHistory]

-----------------------------------------------------------------------------
(* Properties.                                                             *)

\* The marks of the parts a mapping must carry: what roles said, but for some
\* kinds of parts.
Said(roles, but) ==
    UNION {{p.mark : p \in {q \in ToSet(m.parts) : q.kind # but /\ q.mark # 0}} :
              m \in {n \in ToSet(messages) : n.role \in roles}}

\* A history carries marks exactly once, and message after message.
Carries(history, expected) ==
    /\ UNION {ToSet(history[i]) : i \in DOMAIN history} = expected
    /\ \A i \in DOMAIN history : IsInjective(history[i])
    /\ \A i, j \in DOMAIN history : i < j =>
          \A a \in ToSet(history[i]), b \in ToSet(history[j]) : a < b

Turned == {"user", "assistant", "tool"}

ChatFaithful ==
    Chattable =>
        LET asked == ToSet(Last(ChatTurns).text)
        IN  /\ Carries(Chat.history, Said(Turned, "none") \ asked)
            /\ ToSet(Chat.prompt) = Said({"system"}, "none") \union asked

OpenCodeFaithful ==
    LET carried == Said(Turned, "reasoning")
        mapped == OpenCode
        new == SubSeq(mapped.prompt, Len(SystemText) + 1, Len(mapped.prompt))
    IN  /\ Carries(mapped.history, IF LastIsUser THEN carried \ ToSet(new) ELSE carried)
        /\ ~LastIsUser => ToSet(new) = carried
        /\ \A i, j \in 1 .. Len(new) : i < j => new[i] < new[j]

PiFaithful ==
    LET mapped == Pi
    IN  Carries(mapped.history, Said(Turned, "none") \ ToSet(mapped.prompt))

\* A chain of responses, or of runs whose conversationHistory() are put one
\* after another, remembers what the conversation sent as a whole would say.
ChainAgrees ==
    Chattable /\ Alternates =>
        LET whole == Respond(<<>>, <<>>, ChatTurns)
            spoken(history) == Only(history, ToSet(history) \ {<<>>})
            own == FlattenSeq([i \in 1 .. Len(Transcripts) |-> OwnHistory(Transcripts[i])])
        IN  /\ Respond(<<>>, Transcripts, << Last(ChatTurns) >>) = whole
            /\ spoken(own) = spoken(whole.history)

\* The run is given what the host said, each piece once and in order: in the
\* history what was said before, in the prompt what is new, with all system
\* texts before it.  After a tool's answer OpenCode's prompt repeats the
\* history, written in order, and Pi's the latest question.  And a chain says
\* what the whole conversation would.
HistoryFaithful == ChatFaithful /\ OpenCodeFaithful /\ PiFaithful /\ ChainAgrees
=============================================================================
