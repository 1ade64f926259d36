----------------------------- MODULE MCSessions -----------------------------
(***************************************************************************)
(* Chat, BridgeSync, Rules and Chunks for TLC: one of the four runs, the   *)
(* others stay as they are.                                                *)
(***************************************************************************)
EXTENDS Chat, BridgeSync, Rules, Chunks, SequencesExt

CONSTANTS
  c1, c2, ra, rb, k1, x1, g1, g2, g3, v1,   \* of Chat
  s1, s2, codex, gemini                   \* of BridgeSync

VARIABLE part    \* the one that runs

-----------------------------------------------------------------------------
(* Chat *)


TwoChats == {c1, c2}
TwoRepos == {ra, rb}
AllSessions == {k1, x1, g1, g2, g3, v1}
Agents2  == ra :> Agent @@ rb :> {"claude", "gemini"}
AgentOf2 == k1 :> "claude" @@ x1 :> "codex" @@ g1 :> "gemini" @@ g2 :> "gemini" @@
            g3 :> "gemini" @@ v1 :> "antigravity"
Home2    == k1 :> ra @@ x1 :> ra @@ g1 :> ra @@ g2 :> rb @@ g3 :> ra @@ v1 :> rb
Folder2  == ra :> "a" @@ rb :> "b"

\* One chat, or two, with some kinds of updates of some agents.
Small(chats, kinds, agents, messages, errors, sessions, older) ==
  [chats |-> chats, kinds |-> kinds, agents |-> agents, messages |-> messages,
   faults |-> errors, sessions |-> sessions, mobile |-> older, default |-> ra,
   lead |-> "claude", runner |-> TRUE]

Silence   == Small({}, {}, {}, 0, 0, {}, None)
Instances ==
  {Silence,
   Small({c1}, {"list", "sel", "chat", "switch"}, {"claude", "gemini"}, 4, 1, {k1, g1, g2}, None),
   Small({c1}, {"list", "sel", "chat", "plain"}, {"codex", "antigravity"}, 4, 1, {x1, v1}, None),
   Small({c1, c2}, {"route", "switch"}, {"claude"}, 3, 1, {}, None),
   Small({c1, c2}, {"lead", "leadDefault", "clear", "plain"}, {"claude", "codex"}, 3, 0, {}, None),
   Small({c1}, {"lead", "list", "sel", "plain"}, {"gemini", "antigravity"}, 4, 0, {g1, v1}, None),
   Small({c1}, {"chat", "plain"}, Agent, 2, 1, {g1}, k1),
   Small({c1, c2}, {"chat"}, {"gemini"}, 3, 1, {g1}, None),
   Small({c1}, {"show", "picker", "switch", "model", "list"}, {}, 3, 0, {}, None)}

-----------------------------------------------------------------------------
(* BridgeSync *)

Both  == {<<s1, "desktop">>, <<s1, "mobile">>}
Still == [lines |-> 0, ops |-> 0, faults |-> 0]
Busy  == {Still, [lines |-> 2, ops |-> 1, faults |-> 0], [lines |-> 1, ops |-> 1, faults |-> 1]}
First == [x \in {codex, gemini} |-> s1]

-----------------------------------------------------------------------------
(* Rules *)

UpTo(S, n) == UNION {[1..k -> S] : k \in 0..n}

AllRules == [matches : {{1}, {1, 2}}, destructive : BOOLEAN]
Lines    == AllRules \cup {Unset}
AllListed == [id : {1, 2}, repo : {"a", "b", Unset}, time : 0..2]
GateQuestions ==
  [of : {"gate"}, machine : UpTo(Lines, 2), repo : UpTo(Lines, 2), command : {1, 2, 3}]
ModelQuestions ==
  UNION {[of : {"models"}, quota : [1..n -> 0..2], fixed : BOOLEAN,
          wish : {Unset} \cup [1..n -> {"id", "label", "part", "no"}]] : n \in 0..3}
SessionQuestions ==
  [of : {"sessions"}, repo : {"a", "b", Unset}, limit : {1, 2},
   summaries : UpTo([id : {1, 2}, repo : {"a", "b"}, time : {0}], 2),
   brains : {<<>>} \cup [1..1 -> [id : {1, 2}, repo : {"a", Unset}, time : 0..2]]
                \cup {<<[id |-> 2, repo |-> r, time |-> t], [id |-> 1, repo |-> "b", time |-> u]>> :
                       r \in {"a", Unset}, t \in 0..1, u \in 0..1}]
RunQuestions ==
  LET Said == SUBSET {"quota", "rate", "auth"} IN
  [of : {"run"}, ended : {"ok", "failed", "timeout"}, stderr : Said, stdout : Said,
   transcript : {Unset} \cup Said]
Questions ==
  GateQuestions \cup ModelQuestions \cup SessionQuestions \cup RunQuestions

-----------------------------------------------------------------------------
(* Chunks: every text of at most four characters of one, two or three bytes *)

AByte   == {"x", "a", "b", "newline"}
Letters == {<<"x">>, <<"newline">>, <<"a", "b">>, <<"a", "b", "b">>}
LongReplies == [text : {FlattenSeq(t) : t \in UpTo(Letters, 4)}, max : {2, 3}]

-----------------------------------------------------------------------------
Quiet == ChatInit /\ limit = Silence
Level == BridgeInit /\ caps = Still

SessionsInit ==
  /\ RulesInit /\ ChunksInit
  /\ \/ part = "chat" /\ ChatInit /\ limit # Silence /\ Level
     \/ part = "bridge" /\ BridgeInit /\ caps # Still /\ Quiet
     \/ part \in {"rules", "chunks"} /\ Quiet /\ Level

SessionsNext ==
  \/ part = "chat" /\ ChatNext /\ UNCHANGED <<part, bvars, asked, chunkVars>>
  \/ part = "bridge" /\ BridgeNext /\ UNCHANGED <<part, cvars, asked, chunkVars>>
  \/ part = "rules" /\ Ask /\ UNCHANGED <<part, cvars, bvars, chunkVars>>
  \/ part = "chunks" /\ ChunksNext /\ UNCHANGED <<part, cvars, bvars, asked>>

\* Fairness is that of the part that runs: the others have nothing to do, but the poller.
SessionsSpec ==
  /\ SessionsInit /\ [][SessionsNext]_<<part, cvars, bvars, asked, chunkVars>>
  /\ \A c \in Chats : WF_cvars(Handles(c)) /\ WF_cvars(Tasks(c))
  /\ WF_bvars(part = "bridge" /\ Poll)
  /\ WF_chunkVars(part = "chunks" /\ ChunksNext)

\* Every update is handled, every line gets to the other side, and no text keeps the
\* loops that cut it going for ever (teloxide_message_handler,
\* spawn_session_bridge_sync, chunk_for_telegram).
EverythingArrives == ChatsServed /\ EveryLineArrives /\ EveryReplyIsCut
=============================================================================
