------------------------------ MODULE MCRequests ------------------------------
(* What goes into a run and what stays after it: a conversation becomes a      *)
(* prompt and a history (Conversation), and clients walk the stored            *)
(* completions (ChatPages).  The two share no state: one of them runs.         *)
EXTENDS ChatPages, Conversation

CONSTANTS m1, m2, t1

VARIABLE part

RequestsInit == part \in {"pages", "talk"} /\ PagesInit /\ ConversationInit

RequestsNext ==
    \/ part = "pages" /\ PagesNext /\ UNCHANGED <<part, conversationVars>>
    \/ part = "talk" /\ ConversationNext /\ UNCHANGED <<part, pageVars>>

RequestsSpec == RequestsInit /\ [][RequestsNext]_<<part, pageVars, conversationVars>>
=============================================================================
