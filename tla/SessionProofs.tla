--------------------------- MODULE SessionProofs ----------------------------
(***************************************************************************)
(* Proofs about the chats (Chat) and the bridged sessions (BridgeSync).    *)
(* ChatInv and BridgeInv are the inductive invariants; the theorems follow *)
(* their parts at the end of each half.  Chat: a message is in one place,  *)
(* runs where its session lives, and is the lead's if it has no address.   *)
(* BridgeSync: types and growing files first, then NothingSkipped, which   *)
(* needs no more, then NoneTwice, which needs to know of every record that *)
(* is around whether its offsets are exact, and CopiesInOrder, which does  *)
(* not: that what is before the offsets was told is enough.                *)
(***************************************************************************)
EXTENDS Chat, BridgeSync, SelectionProofs, FiniteSetTheorems, TLAPS

-----------------------------------------------------------------------------
(* Chat: the inductive invariant *)

Place == {"idle", "begin", "run", "resume", "fresh", "save", "led", "lock", "append"}
Kinds == {"none", "picker", "clear", "plain", "show", "list", "lead", "leadDefault", "chat",
          "route", "switch", "model", "sel"}
Name  == Agent \cup {None, "default", "other"}

Updates  == [k : Kinds, agent : Name, repo : Repo \cup {None}, session : Session \cup {None}]
Where    == [session : Session \cup {None}, repo : Repo \cup {None}]
Handling == [at : Place, msg : 0 .. MaxMessages, u : Updates, rec : Where, text : Seq(Nat)]
Sending  == [chat : Chats, lead : Agent \cup {None}, to : (Repo \cup {None}) \X Name]
Running  == [msg : Nat, agent : Agent, session : Session \cup {None}, repo : Repo \cup {None},
             model : Name, plain : BOOLEAN]

\* An update names an agent if its handler uses one.
Proper(u) == u.k \in {"chat", "lead", "leadDefault", "route", "sel", "list"} => u.agent \in Agent

ChatTypes ==
  /\ DOMAIN repos \subseteq Repo /\ limit \in Limits
  /\ default \in [Chats -> Repo \cup {None}]
  /\ lead \in [Chats -> Agent \cup {None}] /\ leadDefault \in Agent \cup {None}
  /\ picked \in [Chats -> [Agent -> Record \cup {NoRec}]]
  /\ mobile \in [Chats -> Session \cup {None}] /\ model \in [Chats -> Name]
  /\ touched \in Seq(Session)
  /\ shown \in [Chats -> SUBSET {u \in Updates : Proper(u)}]
  /\ doing \in [Chats -> Handling] /\ task \in [Chats -> Handling]
  /\ inbox \in [Repo \X Agent -> Seq(Nat)]
  /\ sent \in Seq(Sending) /\ Len(sent) <= limit.messages
  /\ runs \subseteq Running /\ acked \subseteq DOMAIN sent
  /\ \A x \in runs : x.msg \in DOMAIN sent

\* A session's record names the repo the session lives in (the repo of a fresh session
\* of gemini is told by its folder), and the agent's own session.
Lives(x) == x.session # None => AtHome(x.session, x.repo)
RunsLive == \A x \in runs : Lives(x)
Picked ==
  \A c \in Chats : \A a \in Agent :
    picked[c][a] # NoRec => AgentOf[picked[c][a].session] = a /\ Lives(picked[c][a])

\* Nobody was given the message, and no inbox holds it.
Unheard(m) == m \notin acked /\ \A x \in runs : x.msg # m

OwnAgent(h) == sent[h.msg].lead # None => h.u.agent = sent[h.msg].lead

\* What a handler of a chat knows: the message is its own until it is given away, its
\* record is of one session, and its agent is the one the message goes to.
Handled(c) ==
  LET h == doing[c] IN
  h.at # "idle" =>
    /\ h.msg \in DOMAIN sent /\ Proper(h.u) /\ Lives(h.rec)
    /\ h.at # "save" => Unheard(h.msg)
    /\ h.at = "begin" => /\ sent[h.msg].to = <<Target(c, h.u), h.u.agent>>
                         /\ sent[h.msg].lead = lead[c]
    /\ h.at \in {"resume", "fresh", "save"} => h.rec.repo \in Repo
    /\ h.at \in {"resume", "fresh"} => h.u.agent = "gemini"
    /\ h.at \in {"run", "led"} => h.u.agent \in Agent
    /\ h.at = "led" => h.u.k = "plain"
    /\ h.at \in {"led", "run", "resume", "fresh"} /\ h.u.k = "plain" => OwnAgent(h)
    /\ h.at \in {"lock", "append"} => Box(c) = sent[h.msg].to /\ Box(c) \in Repo \X Agent
    /\ h.at = "append" => h.text = inbox[Box(c)]

\* A task runs a message that is its own, and not of a lead.
Tasked(c) ==
  LET h == task[c] IN
  h.at # "idle" =>
    /\ h.at \in {"begin", "run"} /\ h.msg \in DOMAIN sent /\ h.u.k = "chat"
    /\ Lives(h.rec) /\ Unheard(h.msg)

\* No two handlers have one message, or one inbox file.
OneEach ==
  /\ \A c, d \in Chats : doing[c].at # "idle" /\ doing[d].at # "idle" /\ doing[c].msg = doing[d].msg => c = d
  /\ \A c, d \in Chats : task[c].at # "idle" /\ task[d].at # "idle" /\ task[c].msg = task[d].msg => c = d
  /\ \A c, d \in Chats : doing[c].at # "idle" /\ task[d].at # "idle" => doing[c].msg # task[d].msg
OneWriter ==
  \A c, d \in Chats : doing[c].at = "append" /\ doing[d].at = "append" /\ Box(c) = Box(d) => c = d

\* An inbox holds messages that were acknowledged, each once, and all that were are in theirs.
Boxes ==
  /\ \A x \in DOMAIN inbox : \A i, j \in DOMAIN inbox[x] : inbox[x][i] = inbox[x][j] => i = j
  /\ \A x \in DOMAIN inbox : \A i \in DOMAIN inbox[x] : inbox[x][i] \in acked
  /\ \A m \in acked : /\ sent[m].to \in Repo \X Agent
                      /\ \E i \in DOMAIN inbox[sent[m].to] : inbox[sent[m].to][i] = m

ChatInv ==
  /\ ChatTypes /\ Picked
  /\ \A c \in Chats : Handled(c)
  /\ \A c \in Chats : Tasked(c)
  /\ OneEach /\ OneWriter /\ Boxes
  /\ HeardOnce /\ RunsLive /\ OwnLeadAnswers

-----------------------------------------------------------------------------
(* Chat: typing and the initial states *)

\* A record of a session in its own repo.
LEMMA LivesAtHome ==
  ASSUME ChatAssumption, NEW x, x.session \in Session, x.repo = Home[x.session]
  PROVE  Lives(x)
BY DEF ChatAssumption, Lives, AtHome

\* A handler at rest is well formed.
LEMMA RestingIs ==
  ASSUME ChatAssumption
  PROVE  /\ Resting \in Handling /\ Resting.at = "idle" /\ Resting.u = NoUpdate
         /\ Resting.rec = NoRec /\ Resting.text = <<>>
         /\ NoRec \in Where /\ NoRec.session = None /\ NoRec.repo = None
<1>1. NoUpdate \in Updates
  BY DEF NoUpdate, Update, Updates, Kinds, Name
<1>2. NoRec \in Where /\ NoRec.session = None /\ NoRec.repo = None
  BY DEF NoRec, Where
<1>3. 0 \in 0 .. MaxMessages
  BY DEF ChatAssumption
<1>4. <<>> \in Seq(Nat)
  OBVIOUS
<1>5. "idle" \in Place
  BY DEF Place
<1> QED
  BY <1>1, <1>2, <1>3, <1>4, <1>5 DEF Resting, Handling

\* SetToSeq lists a finite set.
LEMMA ListsIt ==
  ASSUME NEW S, IsFiniteSet(S)
  PROVE  SetToSeq(S) \in Seq(S)
<1>1. PICK n \in Nat : \E f : f \in Bijection(1 .. n, S)
  BY FS_NatBijection DEF ExistsBijection
<1>2. PICK f : f \in Bijection(1 .. n, S)
  BY <1>1
<1>3. Cardinality(S) = n
  BY <1>2, FS_CountingElements DEF ExistsBijection
<1>4. f \in [1 .. n -> S] /\ IsInjective(f)
  BY <1>2 DEF Bijection, Injection, IsInjective
<1>5. \E g \in [1 .. Cardinality(S) -> S] : IsInjective(g)
  BY <1>3, <1>4
<1>6. SetToSeq(S) \in [1 .. Cardinality(S) -> S]
  BY <1>5 DEF SetToSeq
<1> QED
  BY <1>3, <1>6

\* The invariant holds in every state the daemon may start in.
LEMMA InitChat ==
  ASSUME ChatAssumption, ChatInit
  PROVE  ChatInv
<1>1. limit \in Limits /\ limit.sessions \in SUBSET Session /\ IsFiniteSet(limit.sessions)
  BY DEF ChatInit, ChatAssumption
<1>2. /\ limit.default \in Repo \cup {None} /\ limit.mobile \in Session \cup {None}
      /\ limit.messages \in Nat
  BY DEF ChatInit, ChatAssumption
<1>3. touched \in Seq(Session)
  <2>1. touched \in Seq(limit.sessions)
    BY <1>1, ListsIt DEF ChatInit
  <2> QED
    BY <1>1, <2>1
<1>4. doing \in [Chats -> Handling] /\ task \in [Chats -> Handling]
  BY RestingIs DEF ChatInit
<1>5. <<>> \in Seq(Nat) /\ <<>> \in Seq(Sending) /\ Len(<<>>) = 0 /\ DOMAIN <<>> = {}
  OBVIOUS
<1>6. picked \in [Chats -> [Agent -> Record \cup {NoRec}]]
  BY DEF ChatInit
<1>7. inbox \in [Repo \X Agent -> Seq(Nat)]
  BY <1>5 DEF ChatInit
<1>8. model \in [Chats -> Name]
  BY DEF ChatInit, Name
<1>9. DOMAIN repos \subseteq Repo
  BY DEF ChatInit, ChatAssumption
<1>10. ChatTypes
  BY <1>1, <1>2, <1>3, <1>4, <1>5, <1>6, <1>7, <1>8, <1>9 DEF ChatTypes, ChatInit
<1>11. Picked
  BY DEF Picked, ChatInit
<1>12. \A c \in Chats : doing[c].at = "idle" /\ task[c].at = "idle"
  BY RestingIs DEF ChatInit
<1>13. (\A c \in Chats : Handled(c) /\ Tasked(c)) /\ OneEach /\ OneWriter
  BY <1>12 DEF Handled, Tasked, OneEach, OneWriter
<1>14. Boxes
  <2>1. \A x \in DOMAIN inbox : DOMAIN inbox[x] = {}
    BY <1>5 DEF ChatInit
  <2>2. acked = {}
    BY DEF ChatInit
  <2> QED
    BY <2>1, <2>2 DEF Boxes
<1>15. runs = {}
  BY DEF ChatInit
<1>16. HeardOnce /\ RunsLive /\ OwnLeadAnswers
  BY <1>15 DEF HeardOnce, RunsLive, OwnLeadAnswers
<1> QED
  BY <1>10, <1>11, <1>13, <1>14, <1>16 DEF ChatInv

-----------------------------------------------------------------------------
(* Chat: what a step of one handler leaves as it is *)

\* The box and target of a handler do not depend on other chats.
LEMMA BoxKept ==
  ASSUME NEW c, doing'[c] = doing[c], default'[c] = default[c]
  PROVE  Box(c)' = Box(c) /\ \A u : Target(c, u)' = Target(c, u)
BY DEF Box, What, Target

\* A handler that keeps its message, and opens no inbox that another has open.
LEMMA HandlerMoves ==
  ASSUME ChatInv, NEW c \in Chats, doing' \in [Chats -> Handling],
         UNCHANGED <<task, inbox, runs, sent, acked>>,
         \A d \in Chats : d # c => /\ doing'[d] = doing[d] /\ default'[d] = default[d]
                                   /\ lead'[d] = lead[d],
         Handled(c)', doing'[c].at = "append" => \A d \in Chats : doing[d].at = "append" => Box(d) # Box(c)',
         doing'[c].at # "idle" => doing[c].at # "idle" /\ doing'[c].msg = doing[c].msg
  PROVE  /\ \A d \in Chats : Handled(d)'
         /\ \A d \in Chats : Tasked(d)'
         /\ OneEach' /\ OneWriter' /\ Boxes' /\ HeardOnce' /\ RunsLive' /\ OwnLeadAnswers'
<1>1. \A d \in Chats : d # c => Handled(d)'
  <2> SUFFICES ASSUME NEW d \in Chats, d # c
               PROVE  Handled(d)'
    OBVIOUS
  <2>1. /\ Box(d)' = Box(d) /\ doing'[d] = doing[d] /\ default'[d] = default[d]
        /\ lead'[d] = lead[d] /\ \A u : Target(d, u)' = Target(d, u)
    BY BoxKept
  <2>2. Handled(d)
    BY DEF ChatInv
  <2> QED
    BY <2>1, <2>2 DEF Handled, Unheard, OwnAgent
<1>2. \A d \in Chats : Tasked(d)'
  BY DEF ChatInv, Tasked, Unheard
<1>3. OneEach'
  BY DEF ChatInv, OneEach
<1>4. OneWriter'
  <2>1. \A d \in Chats : d # c => Box(d)' = Box(d)
    BY BoxKept
  <2> QED
    BY <2>1 DEF ChatInv, OneWriter
<1>5. Boxes' /\ HeardOnce' /\ RunsLive' /\ OwnLeadAnswers'
  BY DEF ChatInv, Boxes, HeardOnce, RunsLive, OwnLeadAnswers
<1> QED
  BY <1>1, <1>2, <1>3, <1>4, <1>5

\* A handler that is over.
LEMMA HandlerRests ==
  ASSUME ChatAssumption, ChatInv, NEW c \in Chats, Finish(c)
  PROVE  /\ doing' \in [Chats -> Handling] /\ doing'[c].at = "idle" /\ Handled(c)'
         /\ \A d \in Chats : d # c => doing'[d] = doing[d]
<1>1. doing \in [Chats -> Handling]
  BY DEF ChatInv, ChatTypes
<1>2. doing' = [doing EXCEPT ![c] = Resting]
  BY DEF Finish
<1>3. doing' \in [Chats -> Handling] /\ doing'[c].at = "idle"
  BY <1>1, <1>2, RestingIs
<1>4. Handled(c)'
  BY <1>3 DEF Handled
<1> QED
  BY <1>1, <1>2, <1>3, <1>4

-----------------------------------------------------------------------------
(* Chat: commands *)

\* The invariant, part by part, in the next state.
LEMMA Together ==
  ASSUME ChatTypes', Picked', \A d \in Chats : Handled(d)', \A d \in Chats : Tasked(d)',
         OneEach', OneWriter', Boxes', HeardOnce', RunsLive', OwnLeadAnswers'
  PROVE  ChatInv'
BY DEF ChatInv

\* A button is an update, and names an agent if its handler uses one.
LEMMA ButtonsAre ==
  ASSUME ChatAssumption, NEW B,
         \A u \in B : \/ \E k \in {"picker", "clear", "show"} : u = Update(k, None, None, None)
                      \/ \E a \in Agent : u = Update("list", a, None, None)
                      \/ \E r \in Repo : u = Update("switch", None, r, None)
                      \/ \E s \in Session : u = Update("sel", AgentOf[s], None, s)
  PROVE  B \subseteq {u \in Updates : Proper(u)}
<1> SUFFICES ASSUME NEW u \in B
             PROVE  u \in Updates /\ Proper(u)
  OBVIOUS
<1>1. CASE \E k \in {"picker", "clear", "show"} : u = Update(k, None, None, None)
  BY <1>1 DEF Update, Updates, Proper, Kinds, Name
<1>2. CASE \E a \in Agent : u = Update("list", a, None, None)
  BY <1>2 DEF Update, Updates, Proper, Kinds, Name
<1>3. CASE \E r \in Repo : u = Update("switch", None, r, None)
  BY <1>3 DEF Update, Updates, Proper, Kinds, Name
<1>4. CASE \E s \in Session : u = Update("sel", AgentOf[s], None, s)
  BY <1>4 DEF Update, Updates, Proper, Kinds, Name, ChatAssumption
<1> QED
  BY <1>1, <1>2, <1>3, <1>4

\* A message with buttons shows updates only.
LEMMA ShowTyped ==
  ASSUME ChatTypes, NEW c \in Chats, NEW B, B \subseteq {u \in Updates : Proper(u)}, Show(c, B)
  PROVE  shown' \in [Chats -> SUBSET {u \in Updates : Proper(u)}]
BY DEF ChatTypes, Show

\* The sessions offered are of the agent asked for.
LEMMA OfferedAre ==
  ASSUME ChatTypes, NEW c, NEW a, NEW s \in Offered(c, a)
  PROVE  s \in Session /\ AgentOf[s] = a
<1>1. ToSet(touched) \subseteq Session
  BY DEF ToSet, ChatTypes
<1> QED
  BY <1>1 DEF Offered, Everywhere

\* The commands change a chat's choice: no message goes anywhere.
LEMMA CommandSteps ==
  ASSUME ChatAssumption, ChatInv, NEW c \in Chats,
         \/ Shows(c) \/ Picks(c) \/ Switches(c) \/ Leads(c) \/ SetsModel(c) \/ Lists(c) \/ Selects(c)
  PROVE  ChatInv'
<1>0. ChatTypes /\ Picked
  BY DEF ChatInv
<1>1. Finish(c)
  BY DEF Shows, Picks, Switches, Leads, SetsModel, Lists, Selects
<1>2. /\ doing' \in [Chats -> Handling] /\ doing'[c].at = "idle" /\ Handled(c)'
      /\ \A d \in Chats : d # c => doing'[d] = doing[d]
  BY <1>1, HandlerRests
<1>3. UNCHANGED <<repos, mobile, limit, touched, task, inbox, runs, sent, acked>>
  BY DEF Shows, Picks, Switches, Leads, SetsModel, Lists, Selects, fixedc, choice, desk, hist
<1>4. /\ default' \in [Chats -> Repo \cup {None}]
      /\ \A d \in Chats : d # c => default'[d] = default[d]
  <2>1. default' = default \/ (Registered(What(c).repo) /\ default' = [default EXCEPT ![c] = What(c).repo])
    BY DEF Shows, Picks, Switches, Leads, SetsModel, Lists, Selects, choice
  <2>2. Registered(What(c).repo) => What(c).repo \in Repo
    BY <1>0 DEF Registered, ChatTypes
  <2> QED
    BY <2>1, <2>2, <1>0 DEF ChatTypes
<1>5. doing[c] \in Handling /\ What(c) \in Updates /\ (doing[c].at = "begin" => Proper(What(c)))
  BY <1>0 DEF ChatTypes, Handling, What, ChatInv, Handled
<1>6. /\ lead' \in [Chats -> Agent \cup {None}] /\ leadDefault' \in Agent \cup {None}
      /\ \A d \in Chats : d # c => lead'[d] = lead[d]
  <2>1. \/ lead' = lead /\ leadDefault' = leadDefault
        \/ Is(c, "lead") /\ lead' = [lead EXCEPT ![c] = What(c).agent] /\ leadDefault' = leadDefault
        \/ Is(c, "leadDefault") /\ leadDefault' = What(c).agent /\ lead' = lead
        \/ lead' = [lead EXCEPT ![c] = None] /\ leadDefault' = leadDefault
    BY DEF Shows, Picks, Switches, Leads, SetsModel, Lists, Selects, choice
  <2>2. Is(c, "lead") \/ Is(c, "leadDefault") => What(c).agent \in Agent
    BY <1>5 DEF Is, Proper, What
  <2> QED
    BY <2>1, <2>2, <1>0 DEF ChatTypes
<1>7. model' \in [Chats -> Name]
  <2>1. model' = model \/ model' = [model EXCEPT ![c] = What(c).agent]
    BY DEF Shows, Picks, Switches, Leads, SetsModel, Lists, Selects, choice
  <2>2. What(c).agent \in Name
    BY <1>5 DEF Updates
  <2> QED
    BY <2>1, <2>2, <1>0 DEF ChatTypes
<1>8. shown' \in [Chats -> SUBSET {u \in Updates : Proper(u)}]
  <2>1. CASE shown' = shown
    BY <2>1, <1>0 DEF ChatTypes
  <2>2. CASE Shows(c)
    <3> DEFINE B == {Update(k, None, None, None) : k \in {"picker", "clear", "show"}} \cup
                    {Update("list", a, None, None) : a \in Agent}
    <3>1. B \subseteq {u \in Updates : Proper(u)}
      BY ButtonsAre
    <3>2. Show(c, B)
      BY <2>2 DEF Shows
    <3> HIDE DEF B
    <3> QED
      BY <3>1, <3>2, <1>0, ShowTyped
  <2>3. CASE Picks(c)
    <3> DEFINE B == {Update("switch", None, r, None) : r \in DOMAIN repos}
    <3>0. DOMAIN repos \subseteq Repo
      BY <1>0 DEF ChatTypes
    <3>1. B \subseteq {u \in Updates : Proper(u)}
      BY <3>0, ButtonsAre
    <3>2. Show(c, B)
      BY <2>3 DEF Picks
    <3> HIDE DEF B
    <3> QED
      BY <3>1, <3>2, <1>0, ShowTyped
  <2>4. CASE Lists(c)
    <3> DEFINE B == {Update("sel", AgentOf[s], None, s) : s \in Offered(c, What(c).agent)}
    <3>0. Offered(c, What(c).agent) \subseteq Session
      BY <1>0, OfferedAre
    <3>1. B \subseteq {u \in Updates : Proper(u)}
      BY <3>0, ButtonsAre
    <3>2. Show(c, B) \/ shown' = shown
      BY <2>4 DEF Lists
    <3> HIDE DEF B
    <3> QED
      BY <3>1, <3>2, <2>1, <1>0, ShowTyped
  <2> QED
    BY <2>1, <2>2, <2>3, <2>4 DEF Switches, Leads, SetsModel, Selects
<1>9. picked' \in [Chats -> [Agent -> Record \cup {NoRec}]] /\ Picked'
  <2>1. CASE picked' = picked
    BY <2>1, <1>0 DEF ChatTypes, Picked
  <2>2. CASE /\ Found(c, What(c)) /\ Is(c, "sel")
             /\ picked' = [picked EXCEPT ![c][What(c).agent] =
                             [session |-> What(c).session, repo |-> Home[What(c).session]]]
    <3> DEFINE a == What(c).agent
               s == What(c).session
    <3>1. s \in Session /\ AgentOf[s] = a /\ a \in Agent /\ Home[s] \in Repo
      BY <2>2, <1>0, OfferedAre DEF Found, ChatAssumption
    <3> DEFINE r == [session |-> s, repo |-> Home[s]]
    <3>2. r \in Record /\ r.session = s /\ r.repo = Home[s]
      BY <3>1 DEF Record
    <3>3. picked' = [picked EXCEPT ![c][a] = r]
      BY <2>2
    <3> HIDE DEF r, s, a
    <3>4. picked' \in [Chats -> [Agent -> Record \cup {NoRec}]]
      BY <3>1, <3>2, <3>3, <1>0 DEF ChatTypes
    <3>5. \A d \in Chats : \A b \in Agent : picked'[d][b] = IF d = c /\ b = a THEN r ELSE picked[d][b]
      BY <3>1, <3>3, <1>0 DEF ChatTypes
    <3>7. Lives(r)
      BY <3>1, <3>2, LivesAtHome
    <3>6. Picked'
      BY <3>1, <3>2, <3>5, <3>7, <1>0 DEF Picked, Lives
    <3> QED
      BY <3>4, <3>6
  <2> QED
    BY <2>1, <2>2 DEF Shows, Picks, Switches, Leads, SetsModel, Lists, Selects, choice
<1>10. ChatTypes'
  BY <1>0, <1>2, <1>3, <1>4, <1>6, <1>7, <1>8, <1>9 DEF ChatTypes
<1>11. /\ \A d \in Chats : Handled(d)'
       /\ \A d \in Chats : Tasked(d)'
       /\ OneEach' /\ OneWriter' /\ Boxes' /\ HeardOnce' /\ RunsLive' /\ OwnLeadAnswers'
  BY <1>2, <1>3, <1>4, <1>6, HandlerMoves
<1> QED
  BY <1>9, <1>10, <1>11, Together

-----------------------------------------------------------------------------
(* Chat: a message finds its session *)

\* A step that moves one handler only.
LEMMA OnlyTheHandler ==
  ASSUME ChatInv, NEW c \in Chats, doing' \in [Chats -> Handling],
         UNCHANGED <<fixedc, choice, touched, shown, task, inbox, hist>>,
         \A d \in Chats : d # c => doing'[d] = doing[d],
         Handled(c)', doing'[c].at = "append" => \A d \in Chats : doing[d].at = "append" => Box(d) # Box(c)',
         doing'[c].at # "idle" => doing[c].at # "idle" /\ doing'[c].msg = doing[c].msg
  PROVE  ChatInv'
<1>1. ChatTypes /\ Picked
  BY DEF ChatInv
<1>2. ChatTypes' /\ Picked'
  BY <1>1 DEF ChatTypes, Picked, fixedc, choice, hist
<1>3. /\ \A d \in Chats : Handled(d)'
      /\ \A d \in Chats : Tasked(d)'
      /\ OneEach' /\ OneWriter' /\ Boxes' /\ HeardOnce' /\ RunsLive' /\ OwnLeadAnswers'
  BY HandlerMoves DEF choice, hist
<1> QED
  BY <1>2, <1>3, Together

\* A handler that ends with nothing done.
LEMMA OnlyRests ==
  ASSUME ChatAssumption, ChatInv, NEW c \in Chats, Finish(c),
         UNCHANGED <<fixedc, choice, touched, shown, task, inbox, hist>>
  PROVE  ChatInv'
BY HandlerRests, OnlyTheHandler

\* The handler of a chat is now at x, with a record and an agent.
GoesTo(c, x, r, a) ==
  /\ doing' \in [Chats -> Handling] /\ \A d \in Chats : d # c => doing'[d] = doing[d]
  /\ doing'[c].at = x /\ doing'[c].rec = r /\ doing'[c].u.agent = a
  /\ doing'[c].u.k = doing[c].u.k /\ doing'[c].msg = doing[c].msg

\* A handler that moves on with a record and an agent of its choice.
LEMMA Goes ==
  ASSUME doing \in [Chats -> Handling], NEW c \in Chats, NEW x \in Place, NEW r \in Where, NEW a \in Name,
         doing' = [doing EXCEPT ![c].at = x, ![c].rec = r, ![c].u.agent = a]
  PROVE  GoesTo(c, x, r, a)
<1> DEFINE v == [doing[c].u EXCEPT !.agent = a]
           h == [doing[c] EXCEPT !.at = x, !.rec = r, !.u = v]
<1>1. doing[c] \in Handling /\ doing[c].u \in Updates
  BY DEF Handling
<1>2. v \in Updates /\ v.agent = a /\ v.k = doing[c].u.k /\ v.repo = doing[c].u.repo
  BY <1>1 DEF Updates
<1> HIDE DEF v
<1>3. /\ h \in Handling /\ h.at = x /\ h.rec = r /\ h.u = v
      /\ h.msg = doing[c].msg /\ h.text = doing[c].text
  BY <1>1, <1>2 DEF Handling
<1>4. doing'[c] = h
  <2>1. doing'[c] = [[[doing[c] EXCEPT !.at = x] EXCEPT !.rec = r] EXCEPT !.u.agent = a]
    OBVIOUS
  <2> QED
    BY <2>1 DEF v
<1> HIDE DEF h
<1>5. \A d \in Chats : d # c => doing'[d] = doing[d]
  OBVIOUS
<1>6. DOMAIN doing' = Chats /\ doing' = [d \in Chats |-> doing'[d]]
  OBVIOUS
<1>7. doing' \in [Chats -> Handling]
  BY <1>3, <1>4, <1>5, <1>6
<1> QED
  BY <1>2, <1>3, <1>4, <1>5, <1>7 DEF GoesTo

\* The record a message uses is of a session of the agent, in its repo.
LEMMA RecordsLive ==
  ASSUME ChatAssumption, ChatInv, NEW c \in Chats, NEW a \in Agent
  PROVE  /\ picked[c][a] # NoRec => picked[c][a] \in Record /\ Lives(picked[c][a])
         /\ ClaudeRecord(c) # NoRec => ClaudeRecord(c) \in Record /\ Lives(ClaudeRecord(c))
<1>1. \A b \in Agent : picked[c][b] # NoRec => picked[c][b] \in Record /\ Lives(picked[c][b])
  BY DEF ChatInv, ChatTypes, Picked
<1>2. CASE picked[c]["claude"] # NoRec \/ mobile[c] = None
  BY <1>1, <1>2 DEF ClaudeRecord, Agent
<1>3. CASE ~(picked[c]["claude"] # NoRec \/ mobile[c] = None)
  <2>1. mobile[c] \in Session /\ Home[mobile[c]] \in Repo
    BY <1>3 DEF ChatInv, ChatTypes, ChatAssumption
  <2>2. ClaudeRecord(c) = [session |-> mobile[c], repo |-> Home[mobile[c]]]
    BY <1>3 DEF ClaudeRecord
  <2>3. ClaudeRecord(c) \in Record
    BY <2>1, <2>2 DEF Record
  <2>4. Lives(ClaudeRecord(c))
    BY <2>1, <2>2, LivesAtHome
  <2> QED
    BY <1>1, <2>3, <2>4
<1> QED
  BY <1>1, <1>2, <1>3

\* The handler of a message that has been read, and of one that goes to the lead.
Reads1(c) == doing[c].at = "begin" /\ doing[c].u.k = "chat"
ForLead(c, a) == doing[c].at = "led" /\ a = doing[c].u.agent

\* It goes on with a record of a session, or without one.
LEMMA HandlerRuns ==
  ASSUME ChatAssumption, ChatInv, NEW c \in Chats, NEW a \in Agent, Reads1(c) \/ ForLead(c, a),
         NEW x \in {"run", "resume", "fresh"}, NEW r \in Where, Lives(r),
         x # "run" => r.repo \in Repo /\ a = "gemini",
         GoesTo(c, x, r, a),
         UNCHANGED <<fixedc, choice, touched, shown, task, inbox, hist>>
  PROVE  ChatInv'
<1>1. doing \in [Chats -> Handling] /\ Handled(c)
  BY DEF ChatInv, ChatTypes
<1>3. /\ doing' \in [Chats -> Handling] /\ \A d \in Chats : d # c => doing'[d] = doing[d]
      /\ doing'[c].at = x /\ doing'[c].rec = r /\ doing'[c].u.agent = a
      /\ doing'[c].u.k = doing[c].u.k /\ doing'[c].msg = doing[c].msg
  BY DEF GoesTo
<1>4. doing[c].at \in {"begin", "led"} /\ (doing[c].u.k = "plain" => OwnAgent(doing[c]) /\ a = doing[c].u.agent)
  BY <1>1 DEF Reads1, ForLead, Handled
<1>5. UNCHANGED <<sent, runs, acked>>
  BY DEF hist
<1>6. Handled(c)'
  BY <1>1, <1>3, <1>4, <1>5 DEF Handled, Unheard, OwnAgent, Proper, Lives
<1> QED
  BY <1>3, <1>4, <1>6, OnlyTheHandler

\* A handler takes the picked record, which is at home, or none.
LEMMA AddressSteps ==
  ASSUME ChatAssumption, ChatInv, NEW c \in Chats, NEW a \in Agent, Reads1(c) \/ ForLead(c, a),
         Addresses(c, a), UNCHANGED <<fixedc, choice, touched, shown, task, inbox, hist>>
  PROVE  ChatInv'
<1> DEFINE rec == IF a = "claude" THEN ClaudeRecord(c) ELSE picked[c][a]
<1>1. rec # NoRec => rec \in Record /\ Lives(rec)
  BY RecordsLive
<1>2. Finish(c) \/ (rec # NoRec /\ doing' = [doing EXCEPT ![c].at = "run", ![c].rec = rec, ![c].u.agent = a])
  BY DEF Addresses
<1>3. Record \subseteq Where /\ "run" \in Place /\ a \in Name /\ doing \in [Chats -> Handling]
  BY DEF Record, Where, Place, Name, ChatInv, ChatTypes
<1> HIDE DEF rec
<1>4. Finish(c) \/ (rec # NoRec /\ rec \in Where /\ Lives(rec) /\ GoesTo(c, "run", rec, a))
  BY <1>1, <1>2, <1>3, Goes
<1> QED
  BY <1>4, OnlyRests, HandlerRuns

\* gemini's handlers take its record's repo, or the chosen one and no session.
LEMMA GeminiSteps ==
  ASSUME ChatAssumption, ChatInv, NEW c \in Chats, Reads1(c) \/ ForLead(c, "gemini"),
         Geminis(c), UNCHANGED <<fixedc, choice, touched, shown, task, inbox, hist>>
  PROVE  ChatInv'
<1> DEFINE rec  == picked[c]["gemini"]
           repo == IF rec # NoRec THEN rec.repo ELSE default[c]
<1>0. "gemini" \in Agent
  BY DEF Agent
<1>1. rec # NoRec => rec \in Record /\ Lives(rec)
  BY <1>0, RecordsLive
<1>2. \/ Finish(c)
      \/ Registered(repo) /\ rec # NoRec /\ doing' = [doing EXCEPT ![c].at = "resume",
                                 ![c].rec = [rec EXCEPT !.repo = repo], ![c].u.agent = "gemini"]
      \/ Registered(repo) /\ rec = NoRec /\ doing' = [doing EXCEPT ![c].at = "fresh",
                                 ![c].rec = [rec EXCEPT !.repo = repo], ![c].u.agent = "gemini"]
  BY DEF Geminis
<1>3. Registered(repo) => repo \in Repo
  BY DEF Registered, ChatInv, ChatTypes
<1>4. rec # NoRec /\ repo \in Repo => /\ [rec EXCEPT !.repo = repo] \in Where
                                      /\ Lives([rec EXCEPT !.repo = repo])
                                      /\ [rec EXCEPT !.repo = repo].repo = repo
  BY <1>1 DEF Record, Where, Lives
<1>5. rec = NoRec /\ repo \in Repo => /\ [rec EXCEPT !.repo = repo] \in Where
                                      /\ [rec EXCEPT !.repo = repo].session = None
                                      /\ [rec EXCEPT !.repo = repo].repo = repo
  <2>1. NoRec \in Where /\ NoRec.session = None
    BY RestingIs
  <2> QED
    BY <2>1 DEF Where
<1>8. {"resume", "fresh"} \subseteq Place /\ "gemini" \in Name /\ doing \in [Chats -> Handling]
  BY <1>0 DEF Place, Name, ChatInv, ChatTypes
<1>6. CASE rec # NoRec /\ repo \in Repo /\ doing' = [doing EXCEPT ![c].at = "resume",
                                 ![c].rec = [rec EXCEPT !.repo = repo], ![c].u.agent = "gemini"]
  <2> DEFINE r == [rec EXCEPT !.repo = repo]
  <2>1. r \in Where /\ Lives(r) /\ r.repo \in Repo /\ doing' = [doing EXCEPT ![c].at = "resume", ![c].rec = r, ![c].u.agent = "gemini"]
    BY <1>4, <1>6
  <2> HIDE DEF r
  <2>2. GoesTo(c, "resume", r, "gemini")
    BY <2>1, <1>8, Goes
  <2> QED
    BY <2>1, <2>2, <1>0, HandlerRuns
<1>7. CASE rec = NoRec /\ repo \in Repo /\ doing' = [doing EXCEPT ![c].at = "fresh",
                                 ![c].rec = [rec EXCEPT !.repo = repo], ![c].u.agent = "gemini"]
  <2> DEFINE r == [rec EXCEPT !.repo = repo]
  <2>1. r \in Where /\ r.session = None /\ r.repo \in Repo
        /\ doing' = [doing EXCEPT ![c].at = "fresh", ![c].rec = r, ![c].u.agent = "gemini"]
    BY <1>5, <1>7
  <2>2. Lives(r)
    BY <2>1 DEF Lives
  <2> HIDE DEF r
  <2>3. GoesTo(c, "fresh", r, "gemini")
    BY <2>1, <1>8, Goes
  <2> QED
    BY <2>1, <2>2, <2>3, <1>0, HandlerRuns
<1> QED
  BY <1>2, <1>3, <1>6, <1>7, OnlyRests

\* A handler that goes on, with another agent or none of its own fields changed.
LEMMA GoesOn ==
  ASSUME doing \in [Chats -> Handling], NEW c \in Chats, NEW x \in Place,
         doing' = [doing EXCEPT ![c].at = x]
  PROVE  /\ doing' \in [Chats -> Handling] /\ \A d \in Chats : d # c => doing'[d] = doing[d]
         /\ doing'[c].at = x /\ doing'[c].rec = doing[c].rec /\ doing'[c].u = doing[c].u
         /\ doing'[c].msg = doing[c].msg /\ doing'[c].text = doing[c].text
BY DEF Handling

\* A nested update of one handler leaves a function on the chats.
LEMMA StaysAFunction ==
  ASSUME doing \in [Chats -> Handling], NEW c, NEW x, NEW a,
         doing' = [doing EXCEPT ![c].at = x, ![c].u.agent = a]
  PROVE  doing' = [d \in Chats |-> doing'[d]]
OBVIOUS

\* resolve_lead_for_chat: the chat's own lead comes first.
LEMMA ResolvesStep ==
  ASSUME ChatAssumption, ChatInv, NEW c \in Chats, Resolves(c)
  PROVE  ChatInv'
<1>1. doing \in [Chats -> Handling] /\ Handled(c)
  BY DEF ChatInv, ChatTypes
<1>2. Lead(c) \in Agent /\ (lead[c] # None => Lead(c) = lead[c])
  BY DEF Lead, ChatInv, ChatTypes, ChatAssumption
<1>3. doing[c].at = "begin" /\ doing[c].u.k = "plain"
  BY DEF Resolves, Is
<1>4. /\ doing' \in [Chats -> Handling] /\ \A d \in Chats : d # c => doing'[d] = doing[d]
      /\ doing'[c].at = "led" /\ doing'[c].rec = doing[c].rec /\ doing'[c].u.agent = Lead(c)
      /\ doing'[c].u.k = doing[c].u.k /\ doing'[c].msg = doing[c].msg
  <2>1. doing' = [doing EXCEPT ![c].at = "led", ![c].u.agent = Lead(c)]
    BY DEF Resolves
  <2> DEFINE v == [doing[c].u EXCEPT !.agent = Lead(c)]
             h == [doing[c] EXCEPT !.at = "led", !.u = v]
  <2>2. doing[c] \in Handling /\ doing[c].u \in Updates /\ Lead(c) \in Name
    BY <1>1, <1>2 DEF Handling, Name
  <2>3. v \in Updates /\ v.agent = Lead(c) /\ v.k = doing[c].u.k
    BY <2>2 DEF Updates
  <2>4. doing'[c] = h
    BY <1>1, <2>1
  <2> HIDE DEF v
  <2>5. /\ h \in Handling /\ h.at = "led" /\ h.u = v /\ h.msg = doing[c].msg /\ h.rec = doing[c].rec
    BY <2>2, <2>3 DEF Handling, Place
  <2> HIDE DEF h
  <2>6. \A d \in Chats : d # c => doing'[d] = doing[d]
    BY <1>1, <2>1
  <2>7. doing' = [d \in Chats |-> doing'[d]]
    BY <1>1, <2>1, StaysAFunction
  <2>8. doing' \in [Chats -> Handling]
    BY <1>1, <2>4, <2>5, <2>6, <2>7
  <2> QED
    BY <2>3, <2>4, <2>5, <2>6, <2>8
<1>5. UNCHANGED <<fixedc, choice, touched, shown, task, inbox, hist>>
  BY DEF Resolves, desk
<1>6. UNCHANGED <<sent, runs, acked>>
  BY <1>5 DEF hist
<1>7. Handled(c)'
  BY <1>1, <1>2, <1>3, <1>4, <1>6 DEF Handled, Unheard, OwnAgent, Proper, Lives
<1> QED
  BY <1>3, <1>4, <1>5, <1>7, OnlyTheHandler

\* A message for the lead goes the way of a message for that agent.
LEMMA LeadChatsStep ==
  ASSUME ChatAssumption, ChatInv, NEW c \in Chats, LeadChats(c)
  PROVE  ChatInv'
<1>1. /\ doing[c].at = "led" /\ UNCHANGED <<fixedc, choice, touched, shown, task, inbox, hist>>
      /\ IF What(c).agent = "gemini" THEN Geminis(c) ELSE Addresses(c, What(c).agent)
  BY DEF LeadChats, desk
<1>2. What(c).agent \in Agent /\ What(c).agent = doing[c].u.agent
  BY <1>1 DEF ChatInv, Handled, What
<1> QED
  BY <1>1, <1>2, AddressSteps, GeminiSteps DEF ForLead

LEMMA LeadRunsStep ==
  ASSUME ChatAssumption, ChatInv, NEW c \in Chats, LeadRuns(c)
  PROVE  ChatInv'
<1> DEFINE a    == What(c).agent
           repo == IF mobile[c] # None THEN Home[mobile[c]] ELSE default[c]
           r    == [session |-> None, repo |-> repo]
<1>1. /\ doing[c].at = "led" /\ UNCHANGED <<fixedc, choice, touched, shown, task, inbox, hist>>
      /\ \/ Finish(c)
         \/ Registered(repo) /\ doing' = [doing EXCEPT ![c].at = "run", ![c].rec = r]
  BY DEF LeadRuns, desk
<1>2. doing \in [Chats -> Handling] /\ doing[c] \in Handling /\ Handled(c)
  BY DEF ChatInv, ChatTypes
<1>3. a \in Agent /\ a = doing[c].u.agent /\ a \in Name
  BY <1>1, <1>2 DEF Handled, What, Name
<1>4. Registered(repo) => r \in Where /\ Lives(r)
  BY DEF Registered, Where, Lives, ChatInv, ChatTypes
<1> HIDE DEF r, a, repo
<1>5. ASSUME doing' = [doing EXCEPT ![c].at = "run", ![c].rec = r], r \in Where
      PROVE  GoesTo(c, "run", r, a)
  <2> DEFINE h == [doing[c] EXCEPT !.at = "run", !.rec = r]
  <2>1. h \in Handling /\ h.at = "run" /\ h.rec = r /\ h.u = doing[c].u /\ h.msg = doing[c].msg
    BY <1>2, <1>5 DEF Handling, Place
  <2>2. doing' = [doing EXCEPT ![c] = h]
    BY <1>2, <1>5
  <2> HIDE DEF h
  <2> QED
    BY <1>2, <1>3, <2>1, <2>2 DEF GoesTo
<1> QED
  BY <1>1, <1>3, <1>4, <1>5, OnlyRests, HandlerRuns DEF ForLead

\* A message with an address goes to one inbox.
LEMMA RoutesStep ==
  ASSUME ChatAssumption, ChatInv, NEW c \in Chats, Routes(c)
  PROVE  ChatInv'
<1>1. doing \in [Chats -> Handling] /\ Handled(c)
  BY DEF ChatInv, ChatTypes
<1>2. /\ doing[c].at = "begin" /\ doing[c].u.k = "route"
      /\ UNCHANGED <<fixedc, choice, touched, shown, task, inbox, hist>>
      /\ \/ Finish(c)
         \/ Registered(Target(c, What(c))) /\ doing' = [doing EXCEPT ![c].at = "lock"]
  BY DEF Routes, Is, Go, desk
<1>3. CASE Registered(Target(c, What(c))) /\ doing' = [doing EXCEPT ![c].at = "lock"]
  <2>1. "lock" \in Place
    BY DEF Place
  <2>2. /\ doing' \in [Chats -> Handling] /\ \A d \in Chats : d # c => doing'[d] = doing[d]
        /\ doing'[c].at = "lock" /\ doing'[c].rec = doing[c].rec /\ doing'[c].u = doing[c].u
        /\ doing'[c].msg = doing[c].msg /\ doing'[c].text = doing[c].text
    BY <1>1, <1>3, <2>1, GoesOn
  <2>3. UNCHANGED <<sent, runs, acked, default>>
    BY <1>2 DEF hist, choice
  <2>4. Box(c)' = Box(c)
    BY <2>2, <2>3 DEF Box, What, Target
  <2>5. Target(c, What(c)) \in Repo /\ What(c).agent \in Agent
    BY <1>1, <1>2, <1>3 DEF Registered, ChatInv, ChatTypes, Handled, Proper, What
  <2>6. Box(c) \in Repo \X Agent /\ Box(c) = sent[doing[c].msg].to
    BY <1>1, <1>2, <2>5 DEF Box, Handled, What
  <2>7. Handled(c)'
    BY <1>1, <1>2, <2>2, <2>3, <2>4, <2>6 DEF Handled, Unheard, OwnAgent
  <2> QED
    BY <1>2, <2>2, <2>7, OnlyTheHandler
<1> QED
  BY <1>2, <1>3, OnlyRests

LEMMA MessageSteps ==
  ASSUME ChatAssumption, ChatInv, NEW c \in Chats,
         \/ ClaudeOrCodexChats(c) \/ GeminiChats(c) \/ Resolves(c) \/ LeadChats(c) \/ LeadRuns(c)
         \/ Routes(c)
  PROVE  ChatInv'
<1>1. CASE ClaudeOrCodexChats(c)
  <2>1. /\ Reads1(c) /\ Addresses(c, What(c).agent)
        /\ UNCHANGED <<fixedc, choice, touched, shown, task, inbox, hist>>
    BY <1>1 DEF ClaudeOrCodexChats, Is, Reads1, desk
  <2>2. What(c).agent \in Agent
    BY <2>1 DEF Addresses, Agent
  <2> QED
    BY <2>1, <2>2, AddressSteps
<1>2. CASE GeminiChats(c)
  <2>1. /\ Reads1(c) /\ Geminis(c)
        /\ UNCHANGED <<fixedc, choice, touched, shown, task, inbox, hist>>
    BY <1>2 DEF GeminiChats, Is, Reads1, desk
  <2> QED
    BY <2>1, GeminiSteps
<1> QED
  BY <1>1, <1>2, ResolvesStep, LeadChatsStep, LeadRunsStep, RoutesStep

-----------------------------------------------------------------------------
(* Chat: a message is given away, to a run or to an inbox *)

\* A session that is used stays among the sessions.
LEMMA TouchTyped ==
  ASSUME ChatTypes, NEW s \in Session
  PROVE  Others(s) \in Seq(Session) /\ (Touch(s) => touched' \in Seq(Session))
<1>1. Others(s) \in Seq(Session)
  BY SelectedType DEF Others, ChatTypes
<1>2. Append(Others(s), s) \in Seq(Session)
  BY <1>1
<1> QED
  BY <1>1, <1>2 DEF Touch

\* A run of a message that nobody was given.
LEMMA GivenAway ==
  ASSUME ChatInv, NEW x \in Running, runs' = runs \cup {x}, UNCHANGED <<sent, acked>>,
         x.msg \in DOMAIN sent, Unheard(x.msg), Lives(x),
         x.plain /\ sent[x.msg].lead # None => x.agent = sent[x.msg].lead
  PROVE  /\ HeardOnce' /\ RunsLive' /\ OwnLeadAnswers'
         /\ \A m : Unheard(m) /\ m # x.msg => Unheard(m)'
         /\ runs' \subseteq Running /\ \A y \in runs' : y.msg \in DOMAIN sent'
<1>1. ChatTypes /\ HeardOnce /\ RunsLive /\ OwnLeadAnswers
  BY DEF ChatInv
<1>2. HeardOnce'
  BY <1>1 DEF HeardOnce, Unheard
<1>3. RunsLive' /\ OwnLeadAnswers'
  BY <1>1 DEF RunsLive, OwnLeadAnswers
<1>4. \A m : Unheard(m) /\ m # x.msg => Unheard(m)'
  BY DEF Unheard
<1>5. runs' \subseteq Running /\ \A y \in runs' : y.msg \in DOMAIN sent'
  BY <1>1 DEF ChatTypes
<1> QED
  BY <1>2, <1>3, <1>4, <1>5

\* What a run is made of.
LEMMA RunTyped ==
  ASSUME ChatTypes, ChatAssumption, NEW c \in Chats, NEW h \in Handling, NEW rec \in Where, NEW a \in Agent
  PROVE  /\ Run(h, rec, a, c) \in Running /\ Run(h, rec, a, c).msg = h.msg
         /\ Run(h, rec, a, c).session = rec.session /\ Run(h, rec, a, c).repo = rec.repo
         /\ Run(h, rec, a, c).agent = a
         /\ Run(h, rec, a, c).plain <=> h.u.k = "plain"
<1> DEFINE m == IF a = "antigravity" THEN model[c] ELSE "default"
           p == h.u.k = "plain"
<1>1. h.msg \in Nat /\ rec.session \in Session \cup {None} /\ rec.repo \in Repo \cup {None}
  BY DEF Handling, Where, ChatAssumption
<1>2. m \in Name
  BY DEF Name, ChatTypes
<1>3. p \in BOOLEAN
  OBVIOUS
<1>4. Run(h, rec, a, c) = [msg |-> h.msg, agent |-> a, session |-> rec.session, repo |-> rec.repo,
                           model |-> m, plain |-> p]
  BY DEF Run
<1>5. p <=> h.u.k = "plain"
  OBVIOUS
<1> HIDE DEF m, p
<1> QED
  BY <1>1, <1>2, <1>3, <1>4, <1>5 DEF Running

\* A handler that gives its message to a run, and is over or has the record to save.
LEMMA HandlerGives ==
  ASSUME ChatAssumption, ChatInv, NEW c \in Chats, doing[c].at \in {"run", "resume", "fresh"},
         NEW rec \in Where, Lives(rec), NEW a \in Agent, a = doing[c].u.agent,
         runs' = runs \cup {Run(doing[c], rec, a, c)}, touched' \in Seq(Session),
         UNCHANGED <<fixedc, choice, shown, task, inbox, sent, acked>>,
         doing' \in [Chats -> Handling], doing'[c].at = "idle" \/
           (doing' = [doing EXCEPT ![c].at = "save"] /\ doing[c].at = "fresh"),
         \A d \in Chats : d # c => doing'[d] = doing[d]
  PROVE  ChatInv'
<1> DEFINE x == Run(doing[c], rec, a, c)
<1>1. ChatTypes /\ Picked /\ Handled(c) /\ doing[c] \in Handling
  BY DEF ChatInv, ChatTypes
<1>2. /\ x \in Running /\ x.msg = doing[c].msg /\ x.session = rec.session /\ x.repo = rec.repo
      /\ x.agent = a /\ (x.plain <=> doing[c].u.k = "plain")
  BY <1>1, RunTyped
<1> HIDE DEF x
<1>3. x.msg \in DOMAIN sent /\ Unheard(x.msg)
  BY <1>1, <1>2 DEF Handled
<1>4. Lives(x) /\ (x.plain /\ sent[x.msg].lead # None => x.agent = sent[x.msg].lead)
  BY <1>1, <1>2 DEF Handled, OwnAgent, Lives
<1>5. /\ HeardOnce' /\ RunsLive' /\ OwnLeadAnswers'
      /\ \A m : Unheard(m) /\ m # x.msg => Unheard(m)'
      /\ runs' \subseteq Running /\ \A y \in runs' : y.msg \in DOMAIN sent'
  <2>1. runs' = runs \cup {x}
    BY DEF x
  <2> QED
    BY <2>1, <1>2, <1>3, <1>4, GivenAway
<1>6. ChatTypes' /\ Picked'
  BY <1>1, <1>5 DEF ChatTypes, Picked, fixedc, choice
<1>7. \A d \in Chats : d # c => Handled(d)'
  <2> SUFFICES ASSUME NEW d \in Chats, d # c, doing[d].at # "idle"
               PROVE  Handled(d)'
    BY DEF Handled
  <2>1. /\ Box(d)' = Box(d) /\ doing'[d] = doing[d] /\ \A u : Target(d, u)' = Target(d, u)
    BY BoxKept DEF choice
  <2>2. doing[d].msg # x.msg
    BY <1>2 DEF ChatInv, OneEach
  <2>3. doing[d].at # "save" => Unheard(doing[d].msg)'
    BY <1>5, <2>2 DEF ChatInv, Handled
  <2>4. Handled(d) /\ UNCHANGED <<lead, sent, inbox>>
    BY DEF ChatInv, choice
  <2> QED
    BY <2>1, <2>3, <2>4 DEF Handled, OwnAgent
<1>8. Handled(c)' /\ (doing'[c].at # "idle" => doing'[c].msg = doing[c].msg /\ doing'[c].at = "save")
  <2>1. CASE doing'[c].at = "idle"
    BY <2>1 DEF Handled
  <2>2. CASE doing' = [doing EXCEPT ![c].at = "save"] /\ doing[c].at = "fresh"
    <3>1. /\ doing'[c].at = "save" /\ doing'[c].rec = doing[c].rec /\ doing'[c].u = doing[c].u
          /\ doing'[c].msg = doing[c].msg
      <4>1. doing \in [Chats -> Handling] /\ "save" \in Place
        BY <1>1 DEF ChatTypes, Place
      <4> QED
        BY <2>2, <4>1, GoesOn
    <3> QED
      BY <1>1, <2>2, <3>1 DEF Handled
  <2> QED
    BY <2>1, <2>2
<1>9. \A d \in Chats : Tasked(d)'
  <2> SUFFICES ASSUME NEW d \in Chats, task[d].at # "idle"
               PROVE  Tasked(d)'
    BY DEF Tasked
  <2>1. Tasked(d) /\ task[d].msg # x.msg
    BY <1>2 DEF ChatInv, OneEach
  <2> QED
    BY <1>5, <2>1 DEF Tasked
<1>10. OneEach'
  BY <1>8 DEF ChatInv, OneEach
<1>11. OneWriter'
  <2>1. \A d \in Chats : d # c => Box(d)' = Box(d)
    BY BoxKept DEF choice
  <2> QED
    BY <1>8, <2>1 DEF ChatInv, OneWriter
<1>12. Boxes'
  BY DEF ChatInv, Boxes
<1> QED
  BY <1>5, <1>6, <1>7, <1>8, <1>9, <1>10, <1>11, <1>12, Together

\* The reply of a run may pick the session the run is of: it is where the run is.
LEMMA RunEndsStep ==
  ASSUME ChatAssumption, ChatInv, NEW c \in Chats, RunEnds(c)
  PROVE  ChatInv'
<1> DEFINE h == doing[c]
<1>1. /\ h.at = "run" /\ Finish(c)
      /\ UNCHANGED <<fixedc, choice, shown, task, inbox, sent, acked>>
      /\ \/ /\ runs' = runs \cup {Run(h, h.rec, h.u.agent, c)}
            /\ IF Alive(h.rec.session) THEN Touch(h.rec.session) ELSE UNCHANGED touched
         \/ UNCHANGED <<runs, touched>>
  BY DEF RunEnds
<1>2. ChatTypes /\ Handled(c) /\ h \in Handling
  BY DEF ChatInv, ChatTypes
<1>3. h.rec \in Where /\ h.u.agent \in Agent /\ Lives(h.rec)
  BY <1>1, <1>2 DEF Handled, Handling
<1>4. CASE UNCHANGED <<runs, touched>>
  BY <1>1, <1>4, OnlyRests DEF hist
<1>5. CASE /\ runs' = runs \cup {Run(h, h.rec, h.u.agent, c)}
           /\ IF Alive(h.rec.session) THEN Touch(h.rec.session) ELSE UNCHANGED touched
  <2>1. Alive(h.rec.session) => h.rec.session \in Session
    BY <1>2 DEF Alive, ChatTypes
  <2>2. touched' \in Seq(Session)
    BY <1>2, <1>5, <2>1, TouchTyped DEF ChatTypes
  <2>3. /\ doing' \in [Chats -> Handling] /\ doing'[c].at = "idle"
        /\ \A d \in Chats : d # c => doing'[d] = doing[d]
    BY <1>1, HandlerRests
  <2> QED
    BY <1>1, <1>3, <1>5, <2>2, <2>3, HandlerGives
<1> QED
  BY <1>1, <1>4, <1>5

\* A handler gives its message to a run of the session it looked up.
LEMMA ResumesStep ==
  ASSUME ChatAssumption, ChatInv, NEW c \in Chats, Resumes(c)
  PROVE  ChatInv'
<1> DEFINE h == doing[c]
<1>1. /\ h.at = "resume" /\ UNCHANGED <<fixedc, choice, shown, task, inbox, sent, acked>>
      /\ \/ doing' = [doing EXCEPT ![c].at = "fresh"] /\ UNCHANGED <<runs, touched>>
         \/ /\ Alive(h.rec.session) /\ Finish(c) /\ Touch(h.rec.session)
            /\ runs' = runs \cup {Run(h, h.rec, "gemini", c)}
         \/ Finish(c) /\ UNCHANGED <<runs, touched>>
  BY DEF Resumes, Go
<1>2. ChatTypes /\ Handled(c) /\ h \in Handling /\ doing \in [Chats -> Handling]
  BY DEF ChatInv, ChatTypes
<1>3. h.rec \in Where /\ h.u.agent = "gemini" /\ "gemini" \in Agent /\ Lives(h.rec)
  BY <1>1, <1>2 DEF Handled, Handling, Agent
<1>4. CASE Finish(c) /\ UNCHANGED <<runs, touched>>
  BY <1>1, <1>4, OnlyRests DEF hist
<1>5. CASE doing' = [doing EXCEPT ![c].at = "fresh"] /\ UNCHANGED <<runs, touched>>
  <2>1. "fresh" \in Place
    BY DEF Place
  <2>2. /\ doing' \in [Chats -> Handling] /\ \A d \in Chats : d # c => doing'[d] = doing[d]
        /\ doing'[c].at = "fresh" /\ doing'[c].rec = h.rec /\ doing'[c].u = h.u
        /\ doing'[c].msg = h.msg
    BY <1>2, <1>5, <2>1, GoesOn
  <2>3. Handled(c)'
    BY <1>1, <1>2, <1>5, <2>2 DEF Handled, Unheard, OwnAgent, Lives
  <2> QED
    BY <1>1, <1>5, <2>2, <2>3, OnlyTheHandler DEF hist
<1>6. CASE /\ Alive(h.rec.session) /\ Finish(c) /\ Touch(h.rec.session)
           /\ runs' = runs \cup {Run(h, h.rec, "gemini", c)}
  <2>1. h.rec.session \in Session
    BY <1>2, <1>6 DEF Alive, ChatTypes
  <2>2. touched' \in Seq(Session)
    BY <1>2, <1>6, <2>1, TouchTyped
  <2>3. /\ doing' \in [Chats -> Handling] /\ doing'[c].at = "idle"
        /\ \A d \in Chats : d # c => doing'[d] = doing[d]
    BY <1>6, HandlerRests
  <2> QED
    BY <1>1, <1>3, <1>6, <2>2, <2>3, HandlerGives
<1> QED
  BY <1>1, <1>4, <1>5, <1>6

\* A handler gives its message to a run without a session.
LEMMA FreshlyStep ==
  ASSUME ChatAssumption, ChatInv, NEW c \in Chats, Freshly(c)
  PROVE  ChatInv'
<1> DEFINE h == doing[c]
<1>1. h.at = "fresh" /\ UNCHANGED <<fixedc, choice, shown, task, inbox, sent, acked>>
  BY DEF Freshly
<1>2. ChatTypes /\ Handled(c) /\ h \in Handling /\ doing \in [Chats -> Handling]
  BY DEF ChatInv, ChatTypes
<1>3. h.rec \in Where /\ h.u.agent = "gemini" /\ "gemini" \in Agent
  BY <1>1, <1>2 DEF Handled, Handling, Agent
<1>4. CASE Finish(c) /\ UNCHANGED <<runs, desk>>
  BY <1>1, <1>4, OnlyRests DEF hist, desk
<1>5. ASSUME NEW s \in Session, Home[s] = h.rec.repo, Touch(s), Go(c, "save") \/ Finish(c),
             runs' = runs \cup {Run(h, [h.rec EXCEPT !.session = s], "gemini", c)}
      PROVE  ChatInv'
  <2> DEFINE rec == [h.rec EXCEPT !.session = s]
  <2>1. rec \in Where /\ Lives(rec)
    <3>1. rec \in Where /\ rec.session = s /\ rec.repo = Home[s]
      BY <1>3, <1>5 DEF Where
    <3> HIDE DEF rec
    <3> QED
      BY <3>1, LivesAtHome
  <2> HIDE DEF rec
  <2>2. runs' = runs \cup {Run(h, rec, "gemini", c)}
    BY <1>5 DEF rec
  <2>3. touched' \in Seq(Session)
    BY <1>2, <1>5, TouchTyped
  <2>4. /\ doing' \in [Chats -> Handling] /\ \A d \in Chats : d # c => doing'[d] = doing[d]
        /\ doing'[c].at = "idle" \/ doing' = [doing EXCEPT ![c].at = "save"]
    <3>1. CASE Finish(c)
      BY <3>1, HandlerRests
    <3>2. CASE Go(c, "save")
      <4>1. "save" \in Place
        BY DEF Place
      <4> QED
        BY <1>2, <3>2, <4>1, GoesOn DEF Go
    <3> QED
      BY <1>5, <3>1, <3>2
  <2> QED
    BY <1>1, <1>3, <2>1, <2>2, <2>3, <2>4, HandlerGives
<1> QED
  BY <1>4, <1>5 DEF Freshly

\* The record saved is of a session of gemini, in the folder of the repo.
LEMMA SavesStep ==
  ASSUME ChatAssumption, ChatInv, NEW c \in Chats, Saves(c)
  PROVE  ChatInv'
<1> DEFINE repo   == doing[c].rec.repo
           S      == {s \in Session : AgentOf[s] = "gemini" /\ Folder[Home[s]] = Folder[repo]}
           latest == Selected(touched, S)
<1>1. /\ doing[c].at = "save" /\ Finish(c)
      /\ \/ picked' = picked
         \/ /\ latest # <<>>
            /\ picked' = [picked EXCEPT ![c]["gemini"] = [session |-> Last(latest), repo |-> repo]]
      /\ UNCHANGED <<fixedc, default, lead, leadDefault, model, desk, shown, task, inbox, hist>>
  BY DEF Saves, Latest
<1>2. ChatTypes /\ Picked /\ Handled(c)
  BY DEF ChatInv
<1>3. repo \in Repo /\ "gemini" \in Agent
  BY <1>1, <1>2 DEF Handled, Agent
<1>4. latest \in Seq(Session \cap S)
  <2>1. touched \in Seq(Session)
    BY <1>2 DEF ChatTypes
  <2> HIDE DEF S
  <2> QED
    BY <2>1, SelectedType
<1> HIDE DEF latest
<1>5. latest # <<>> => Last(latest) \in Session \cap S
  BY <1>4 DEF Last
<1>6. /\ doing' \in [Chats -> Handling] /\ doing'[c].at = "idle" /\ Handled(c)'
      /\ \A d \in Chats : d # c => doing'[d] = doing[d]
  BY <1>1, HandlerRests
<1>7. picked' \in [Chats -> [Agent -> Record \cup {NoRec}]] /\ Picked'
  <2>1. CASE picked' = picked
    BY <2>1, <1>2 DEF ChatTypes, Picked
  <2>2. CASE /\ latest # <<>>
             /\ picked' = [picked EXCEPT ![c]["gemini"] = [session |-> Last(latest), repo |-> repo]]
    <3> DEFINE s == Last(latest)
               r == [session |-> s, repo |-> repo]
    <3>1. s \in Session /\ AgentOf[s] = "gemini" /\ Folder[Home[s]] = Folder[repo] /\ Home[s] \in Repo
      BY <1>5, <2>2 DEF ChatAssumption
    <3> HIDE DEF s
    <3>2. r \in Record /\ r.session = s /\ r.repo = repo
      BY <1>3, <3>1 DEF Record
    <3>3. Lives(r)
      BY <1>3, <3>1, <3>2 DEF Lives, AtHome
    <3>4. picked' = [picked EXCEPT ![c]["gemini"] = r]
      BY <2>2 DEF s
    <3> HIDE DEF r
    <3>5. picked' \in [Chats -> [Agent -> Record \cup {NoRec}]]
      BY <1>2, <1>3, <3>2, <3>4 DEF ChatTypes
    <3>6. \A d \in Chats : \A b \in Agent :
            picked'[d][b] = IF d = c /\ b = "gemini" THEN r ELSE picked[d][b]
      BY <1>2, <1>3, <3>4 DEF ChatTypes
    <3>7. Picked'
      BY <1>2, <3>1, <3>2, <3>3, <3>6 DEF Picked, Lives
    <3> QED
      BY <3>5, <3>7
  <2> QED
    BY <1>1, <2>1, <2>2
<1>8. ChatTypes'
  BY <1>1, <1>2, <1>6, <1>7 DEF ChatTypes, fixedc, desk, hist
<1>9. /\ \A d \in Chats : Handled(d)'
      /\ \A d \in Chats : Tasked(d)'
      /\ OneEach' /\ OneWriter' /\ Boxes' /\ HeardOnce' /\ RunsLive' /\ OwnLeadAnswers'
  BY <1>1, <1>6, HandlerMoves DEF hist
<1> QED
  BY <1>7, <1>8, <1>9, Together

\* append_inbox reads the file under its lock: no one else is writing it.
LEMMA ReadsInboxStep ==
  ASSUME ChatAssumption, ChatInv, NEW c \in Chats, ReadsInbox(c)
  PROVE  ChatInv'
<1> DEFINE t == inbox[Box(c)]
           h == [doing[c] EXCEPT !.at = "append", !.text = t]
<1>1. /\ doing[c].at = "lock" /\ ~Locked(Box(c))
      /\ doing' = [doing EXCEPT ![c].at = "append", ![c].text = t]
      /\ UNCHANGED <<fixedc, choice, touched, shown, task, inbox, hist>>
  BY DEF ReadsInbox, desk
<1>2. ChatTypes /\ Handled(c) /\ doing[c] \in Handling /\ doing \in [Chats -> Handling]
  BY DEF ChatInv, ChatTypes
<1>3. Box(c) \in Repo \X Agent /\ t \in Seq(Nat)
  BY <1>1, <1>2 DEF Handled, ChatTypes
<1> HIDE DEF t
<1>4. /\ h \in Handling /\ h.at = "append" /\ h.text = t /\ h.u = doing[c].u /\ h.msg = doing[c].msg
      /\ h.rec = doing[c].rec
  BY <1>2, <1>3 DEF Handling, Place
<1>5. doing' = [doing EXCEPT ![c] = h]
  BY <1>1, <1>2
<1> HIDE DEF h
<1>6. /\ doing' \in [Chats -> Handling] /\ doing'[c] = h
      /\ \A d \in Chats : d # c => doing'[d] = doing[d]
  BY <1>2, <1>4, <1>5
<1>7. Box(c)' = Box(c) /\ UNCHANGED <<sent, acked, runs, inbox>>
  BY <1>1, <1>4, <1>6 DEF Box, What, Target, choice, hist
<1>8. inbox'[Box(c)'] = t
  BY <1>7 DEF t
<1>9. Handled(c)'
  BY <1>1, <1>2, <1>4, <1>6, <1>7, <1>8 DEF Handled, Unheard, OwnAgent, Lives
<1>10. \A d \in Chats : doing[d].at = "append" => Box(d) # Box(c)'
  BY <1>1, <1>7 DEF Locked
<1> QED
  BY <1>1, <1>4, <1>6, <1>9, <1>10, OnlyTheHandler

\* append_inbox writes what it read and one message, which was in no inbox.
LEMMA WritesInboxStep ==
  ASSUME ChatAssumption, ChatInv, NEW c \in Chats, WritesInbox(c)
  PROVE  ChatInv'
<1> DEFINE m == doing[c].msg
           b == Box(c)
<1>1. /\ doing[c].at = "append" /\ Finish(c)
      /\ UNCHANGED <<fixedc, choice, desk, shown, task, runs, sent>>
      /\ \/ inbox' = [inbox EXCEPT ![b] = Append(doing[c].text, m)] /\ acked' = acked \cup {m}
         \/ UNCHANGED <<inbox, acked>>
  BY DEF WritesInbox
<1>2. /\ ChatTypes /\ Picked /\ Handled(c) /\ OneEach /\ OneWriter /\ Boxes
      /\ HeardOnce /\ RunsLive /\ OwnLeadAnswers
  BY DEF ChatInv
<1>3. CASE UNCHANGED <<inbox, acked>>
  BY <1>1, <1>3, OnlyRests DEF hist, desk
<1>4. CASE inbox' = [inbox EXCEPT ![b] = Append(doing[c].text, m)] /\ acked' = acked \cup {m}
  <2>1. /\ m \in DOMAIN sent /\ m \notin acked /\ (\A x \in runs : x.msg # m)
        /\ b \in DOMAIN inbox /\ b = sent[m].to /\ doing[c].text = inbox[b] /\ b \in Repo \X Agent
    BY <1>1, <1>2 DEF Handled, Unheard, ChatTypes
  <2>2. m \in Nat /\ inbox[b] \in Seq(Nat) /\ inbox \in [Repo \X Agent -> Seq(Nat)]
    BY <1>2, <2>1 DEF ChatTypes, Handling
  <2>3. PICK old : old = inbox[b]
    OBVIOUS
  <2>4. PICK new : new = Append(old, m)
    OBVIOUS
  <2>5. /\ old \in Seq(Nat) /\ new \in Seq(Nat) /\ DOMAIN old = 1 .. Len(old) /\ Len(old) \in Nat
        /\ DOMAIN new = 1 .. Len(old) + 1
        /\ \A i \in 1 .. Len(old) : new[i] = old[i]
        /\ new[Len(old) + 1] = m
    BY <2>2, <2>3, <2>4
  <2>18. \A i \in DOMAIN new : i = Len(old) + 1 \/ i \in DOMAIN old
    BY <2>5
  <2>19. \A i \in DOMAIN old : i \in DOMAIN new /\ new[i] = old[i]
    BY <2>5
  <2>6. /\ inbox' \in [Repo \X Agent -> Seq(Nat)] /\ DOMAIN inbox' = DOMAIN inbox
        /\ inbox'[b] = new /\ \A x \in DOMAIN inbox : x # b => inbox'[x] = inbox[x]
    BY <1>4, <2>1, <2>2, <2>3, <2>4, <2>5
  <2>7. /\ doing' \in [Chats -> Handling] /\ doing'[c].at = "idle" /\ Handled(c)'
        /\ \A d \in Chats : d # c => doing'[d] = doing[d]
    BY <1>1, HandlerRests
  <2>8. ChatTypes' /\ Picked'
    BY <1>1, <1>2, <1>4, <2>1, <2>6, <2>7 DEF ChatTypes, Picked, fixedc, choice, desk
  <2>9. \A n : Unheard(n) /\ n # m => Unheard(n)'
    BY <1>1, <1>4 DEF Unheard
  <2>10. \A d \in Chats : d # c => Handled(d)' /\ Box(d)' = Box(d)
    <3> SUFFICES ASSUME NEW d \in Chats, d # c
                 PROVE  Handled(d)' /\ Box(d)' = Box(d)
      OBVIOUS
    <3>1. /\ Box(d)' = Box(d) /\ doing'[d] = doing[d] /\ \A u : Target(d, u)' = Target(d, u)
      BY <1>1, <2>7, BoxKept DEF choice
    <3>2. Handled(d) /\ UNCHANGED <<lead, sent>>
      BY <1>1 DEF ChatInv, choice
    <3>3. doing[d].at # "idle" => doing[d].msg # m
      BY <1>1, <1>2 DEF OneEach
    <3>4. doing[d].at = "append" => Box(d) # b /\ Box(d) \in DOMAIN inbox
      BY <1>1, <1>2, <3>2 DEF OneWriter, Handled, ChatTypes
    <3>5. doing[d].at = "append" => inbox'[Box(d)'] = inbox[Box(d)]
      BY <2>6, <3>1, <3>4
    <3>6. doing[d].at \notin {"idle", "save"} => Unheard(doing[d].msg)'
      BY <2>9, <3>1, <3>2, <3>3 DEF Handled
    <3> QED
      BY <3>1, <3>2, <3>5, <3>6 DEF Handled, OwnAgent
  <2>11. \A d \in Chats : Tasked(d)'
    <3> SUFFICES ASSUME NEW d \in Chats, task[d].at # "idle"
                 PROVE  Tasked(d)'
      BY <1>1 DEF Tasked
    <3>1. Tasked(d) /\ task[d].msg # m
      BY <1>1 DEF ChatInv, OneEach
    <3> QED
      BY <1>1, <2>9, <3>1 DEF Tasked
  <2>12. OneEach' /\ OneWriter'
    BY <1>1, <1>2, <2>7, <2>10 DEF OneEach, OneWriter
  <2>13. HeardOnce' /\ RunsLive' /\ OwnLeadAnswers'
    BY <1>1, <1>2, <1>4, <2>1 DEF HeardOnce, RunsLive, OwnLeadAnswers
  <2>14. \A x \in DOMAIN inbox' : \A i, j \in DOMAIN inbox'[x] : inbox'[x][i] = inbox'[x][j] => i = j
    <3>1. \A i \in DOMAIN old : old[i] # m
      BY <1>2, <2>1, <2>3 DEF Boxes
    <3>2. \A i, j \in DOMAIN old : old[i] = old[j] => i = j
      BY <1>2, <2>1, <2>3 DEF Boxes
    <3>3. \A i, j \in DOMAIN new : new[i] = new[j] => i = j
      BY <2>5, <3>1, <3>2
    <3> QED
      BY <1>2, <2>6, <3>3 DEF Boxes
  <2>15. \A x \in DOMAIN inbox' : \A i \in DOMAIN inbox'[x] : inbox'[x][i] \in acked'
    <3>1. \A i \in DOMAIN old : old[i] \in acked
      BY <1>2, <2>1, <2>3 DEF Boxes
    <3>2. \A i \in DOMAIN new : new[i] \in acked \cup {m}
      BY <2>5, <2>18, <2>19, <3>1
    <3> QED
      BY <1>2, <1>4, <2>6, <3>2 DEF Boxes
  <2>16. ASSUME NEW n \in acked'
         PROVE  /\ sent'[n].to \in Repo \X Agent
                /\ \E i \in DOMAIN inbox'[sent'[n].to] : inbox'[sent'[n].to][i] = n
    <3>1. sent' = sent
      BY <1>1
    <3>2. CASE n = m
      <4>1. Len(old) + 1 \in DOMAIN new
        BY <2>5
      <4> QED
        BY <2>1, <2>5, <2>6, <3>1, <3>2, <4>1
    <3>3. CASE n \in acked
      <4>1. PICK i \in DOMAIN inbox[sent[n].to] : inbox[sent[n].to][i] = n
        BY <1>2, <3>3 DEF Boxes
      <4>2. sent[n].to \in Repo \X Agent /\ sent[n].to \in DOMAIN inbox
        BY <1>2, <2>2, <3>3 DEF Boxes
      <4>3. CASE sent[n].to = b
        <5>1. i \in DOMAIN new /\ new[i] = n
          BY <2>3, <2>19, <4>1, <4>3
        <5> QED
          BY <2>6, <3>1, <4>2, <4>3, <5>1
      <4>4. CASE sent[n].to # b
        BY <2>6, <3>1, <4>1, <4>2, <4>4
      <4> QED
        BY <4>3, <4>4
    <3> QED
      BY <1>4, <3>2, <3>3
  <2>17. Boxes'
    BY <2>14, <2>15, <2>16 DEF Boxes
  <2> QED
    BY <2>7, <2>8, <2>10, <2>11, <2>12, <2>13, <2>17, Together
<1> QED
  BY <1>1, <1>3, <1>4

-----------------------------------------------------------------------------
(* Chat: tasks, updates that arrive, the desktop, a start *)

\* A handler whose chat, message and inbox are left alone.
LEMMA HandlersKept ==
  ASSUME ChatInv, UNCHANGED <<doing, default, lead, inbox>>,
         \A m \in DOMAIN sent : m \in DOMAIN sent' /\ sent'[m] = sent[m],
         \A d \in Chats : doing[d].at \notin {"idle", "save"} => Unheard(doing[d].msg)'
  PROVE  (\A d \in Chats : Handled(d)') /\ OneWriter'
<1>1. \A d \in Chats : Box(d)' = Box(d) /\ doing'[d] = doing[d] /\ \A u : Target(d, u)' = Target(d, u)
  BY BoxKept
<1>2. \A d \in Chats : Handled(d)'
  <2> SUFFICES ASSUME NEW d \in Chats, doing[d].at # "idle"
               PROVE  Handled(d)'
    BY DEF Handled
  <2>1. Handled(d) /\ doing[d].msg \in DOMAIN sent
    BY DEF ChatInv, Handled
  <2>2. doing[d].msg \in DOMAIN sent' /\ sent'[doing[d].msg] = sent[doing[d].msg]
    BY <2>1
  <2>3. doing[d].at \notin {"idle", "save"} => Unheard(doing[d].msg)'
    OBVIOUS
  <2> QED
    BY <1>1, <2>1, <2>2, <2>3 DEF Handled, OwnAgent
<1>3. OneWriter'
  BY <1>1 DEF ChatInv, OneWriter
<1> QED
  BY <1>2, <1>3

\* A background task that is over.
LEMMA TaskRests ==
  ASSUME ChatAssumption, ChatTypes, NEW c \in Chats, Over(c)
  PROVE  /\ task' \in [Chats -> Handling] /\ task'[c].at = "idle"
         /\ \A d \in Chats : d # c => task'[d] = task[d]
<1>1. task \in [Chats -> Handling] /\ task' = [task EXCEPT ![c] = Resting]
  BY DEF ChatTypes, Over
<1> QED
  BY <1>1, RestingIs

\* A background task takes its handler's message: the two never both have it.
LEMMA BackgroundStep ==
  ASSUME ChatAssumption, ChatInv, NEW c \in Chats, Background(c)
  PROVE  ChatInv'
<1> DEFINE rec == picked[c]["antigravity"]
           h == [task[c] EXCEPT !.at = "run", !.rec = rec]
<1>1. /\ task[c].at = "begin"
      /\ Over(c) \/ (rec # NoRec /\ task' = [task EXCEPT ![c].at = "run", ![c].rec = rec])
      /\ UNCHANGED <<fixedc, choice, desk, shown, doing, inbox, hist>>
  BY DEF Background
<1>2. ChatTypes /\ Picked /\ Tasked(c) /\ task \in [Chats -> Handling] /\ task[c] \in Handling
  BY DEF ChatInv, ChatTypes
<1>3. /\ task' \in [Chats -> Handling] /\ \A d \in Chats : d # c => task'[d] = task[d]
      /\ task'[c].at = "idle" \/ /\ task'[c].at = "run" /\ task'[c].u = task[c].u
                                 /\ task'[c].msg = task[c].msg /\ Lives(task'[c].rec)
  <2>1. CASE Over(c)
    BY <1>2, <2>1, TaskRests
  <2>2. CASE rec # NoRec /\ task' = [task EXCEPT ![c].at = "run", ![c].rec = rec]
    <3>1. rec \in Record /\ Lives(rec) /\ rec \in Where
      <4>1. "antigravity" \in Agent
        BY DEF Agent
      <4>2. Record \subseteq Where
        BY DEF Record, Where
      <4> QED
        BY <2>2, <4>1, <4>2, RecordsLive
    <3> HIDE DEF rec
    <3>2. /\ h \in Handling /\ h.at = "run" /\ h.rec = rec /\ h.u = task[c].u /\ h.msg = task[c].msg
      BY <1>2, <3>1 DEF Handling, Place
    <3>3. task' = [task EXCEPT ![c] = h]
      BY <1>2, <2>2
    <3> HIDE DEF h
    <3> QED
      BY <1>2, <3>1, <3>2, <3>3
  <2> QED
    BY <1>1, <2>1, <2>2
<1>4. UNCHANGED <<sent, runs, acked, lead, default, doing, inbox>>
  BY <1>1 DEF hist, choice
<1>5. ChatTypes' /\ Picked'
  BY <1>1, <1>2, <1>3 DEF ChatTypes, Picked, fixedc, choice, desk, hist
<1>6. \A d \in Chats : Tasked(d)'
  <2> SUFFICES ASSUME NEW d \in Chats
               PROVE  Tasked(d)'
    OBVIOUS
  <2>1. CASE d = c
    BY <1>1, <1>2, <1>3, <1>4, <2>1 DEF Tasked, Unheard
  <2>2. CASE d # c
    BY <1>3, <1>4, <2>2 DEF ChatInv, Tasked, Unheard
  <2> QED
    BY <2>1, <2>2
<1>7. OneEach'
  BY <1>1, <1>3 DEF ChatInv, OneEach
<1>8. \A d \in Chats : doing[d].at \notin {"idle", "save"} => Unheard(doing[d].msg)'
  BY <1>4 DEF ChatInv, Handled, Unheard
<1>9. (\A d \in Chats : Handled(d)') /\ OneWriter'
  BY <1>4, <1>8, HandlersKept
<1>10. Boxes' /\ HeardOnce' /\ RunsLive' /\ OwnLeadAnswers'
  BY <1>4 DEF ChatInv, Boxes, HeardOnce, RunsLive, OwnLeadAnswers
<1> QED
  BY <1>5, <1>6, <1>7, <1>9, <1>10, Together

LEMMA BackgroundEndsStep ==
  ASSUME ChatAssumption, ChatInv, NEW c \in Chats, BackgroundEnds(c)
  PROVE  ChatInv'
<1> DEFINE h == task[c]
           x == Run(h, h.rec, "antigravity", c)
<1>1. /\ h.at = "run" /\ Over(c)
      /\ runs' = runs \/ runs' = runs \cup {x}
      /\ UNCHANGED <<fixedc, choice, desk, shown, doing, inbox, sent, acked>>
  BY DEF BackgroundEnds
<1>2. ChatTypes /\ Picked /\ Tasked(c) /\ h \in Handling /\ h.rec \in Where /\ "antigravity" \in Agent
  BY DEF ChatInv, ChatTypes, Handling, Agent
<1>3. /\ task' \in [Chats -> Handling] /\ task'[c].at = "idle"
      /\ \A d \in Chats : d # c => task'[d] = task[d]
  BY <1>1, <1>2, TaskRests
<1>4. UNCHANGED <<sent, acked, lead, default, doing, inbox>>
  BY <1>1 DEF choice
<1>5. /\ x \in Running /\ x.msg = h.msg /\ x.session = h.rec.session /\ x.repo = h.rec.repo
      /\ (x.plain <=> h.u.k = "plain")
  BY <1>2, RunTyped
<1> HIDE DEF x
<1>6. /\ HeardOnce' /\ RunsLive' /\ OwnLeadAnswers'
      /\ \A m : Unheard(m) /\ m # x.msg => Unheard(m)'
      /\ runs' \subseteq Running /\ \A y \in runs' : y.msg \in DOMAIN sent'
  <2>1. CASE runs' = runs
    BY <1>2, <1>4, <2>1 DEF ChatInv, ChatTypes, HeardOnce, RunsLive, OwnLeadAnswers, Unheard
  <2>2. CASE runs' = runs \cup {x}
    <3>1. x.msg \in DOMAIN sent /\ Unheard(x.msg) /\ Lives(x) /\ ~x.plain
      BY <1>1, <1>2, <1>5 DEF Tasked, Lives
    <3> QED
      BY <1>4, <1>5, <2>2, <3>1, GivenAway
  <2> QED
    BY <1>1, <2>1, <2>2
<1>7. ChatTypes' /\ Picked'
  BY <1>1, <1>2, <1>3, <1>6 DEF ChatTypes, Picked, fixedc, choice, desk
<1>8. \A d \in Chats : Tasked(d)'
  <2> SUFFICES ASSUME NEW d \in Chats, task'[d].at # "idle"
               PROVE  Tasked(d)'
    BY DEF Tasked
  <2>1. d # c /\ task'[d] = task[d] /\ Tasked(d)
    BY <1>3 DEF ChatInv
  <2>2. task[d].msg # x.msg
    BY <1>1, <1>5, <2>1 DEF ChatInv, OneEach
  <2>3. Unheard(task[d].msg)'
    BY <1>6, <2>1, <2>2 DEF Tasked
  <2> QED
    BY <1>4, <2>1, <2>3 DEF Tasked
<1>9. OneEach'
  BY <1>1, <1>3 DEF ChatInv, OneEach
<1>10. \A d \in Chats : doing[d].at \notin {"idle", "save"} => Unheard(doing[d].msg)'
  <2> SUFFICES ASSUME NEW d \in Chats, doing[d].at \notin {"idle", "save"}
               PROVE  Unheard(doing[d].msg)'
    OBVIOUS
  <2>1. Unheard(doing[d].msg) /\ doing[d].msg # x.msg
    BY <1>1, <1>5 DEF ChatInv, Handled, OneEach
  <2> QED
    BY <1>4, <1>6, <2>1
<1>11. (\A d \in Chats : Handled(d)') /\ OneWriter'
  BY <1>4, <1>10, HandlersKept
<1>12. Boxes'
  BY <1>4 DEF ChatInv, Boxes
<1> QED
  BY <1>6, <1>7, <1>8, <1>9, <1>11, <1>12, Together

LEMMA MessagesAre == Message \subseteq {u \in Updates : Proper(u)}
<1> SUFFICES ASSUME NEW u \in Message
             PROVE  u \in Updates /\ Proper(u)
  OBVIOUS
<1>1. CASE \E k \in {"picker", "clear", "plain", "show"} : u = Update(k, None, None, None)
  BY <1>1 DEF Update, Updates, Proper, Kinds, Name
<1>2. CASE \E k \in {"list", "lead", "leadDefault"}, a \in Agent : u = Update(k, a, None, None)
  BY <1>2 DEF Update, Updates, Proper, Kinds, Name
<1>3. CASE \E a \in Agent : u = Update("chat", a, None, None)
  BY <1>3 DEF Update, Updates, Proper, Kinds, Name
<1>4. CASE \E a \in Agent, r \in Repo \cup {None} : u = Update("route", a, r, None)
  BY <1>4 DEF Update, Updates, Proper, Kinds, Name
<1>5. CASE \E r \in Repo : u = Update("switch", None, r, None)
  BY <1>5 DEF Update, Updates, Proper, Kinds, Name
<1>6. CASE \E m \in {"default", "other"} : u = Update("model", m, None, None)
  BY <1>6 DEF Update, Updates, Proper, Kinds, Name
<1> QED
  BY <1>1, <1>2, <1>3, <1>4, <1>5, <1>6 DEF Message

\* An update that arrives is the only one with its number.
LEMMA TakesStep ==
  ASSUME ChatAssumption, ChatInv, NEW c \in Chats, Takes(c)
  PROVE  ChatInv'
<1>1. PICK u \in Message \cup shown[c] :
        /\ sent' = Append(sent, [chat |-> c, lead |-> lead[c], to |-> <<Target(c, u), u.agent>>])
        /\ LET taken == [Resting EXCEPT !.at = "begin", !.msg = Len(sent) + 1, !.u = u] IN
           IF u.k = "chat" /\ u.agent = "antigravity"
           THEN task[c].at = "idle" /\ task' = [task EXCEPT ![c] = taken] /\ UNCHANGED doing
           ELSE doing' = [doing EXCEPT ![c] = taken] /\ UNCHANGED task
  BY DEF Takes
<1>26. PICK n : n = Len(sent) + 1
  OBVIOUS
<1>27. PICK e : e = [chat |-> c, lead |-> lead[c], to |-> <<Target(c, u), u.agent>>]
  OBVIOUS
<1>28. PICK taken : taken = [Resting EXCEPT !.at = "begin", !.msg = n, !.u = u]
  OBVIOUS
<1>2. /\ doing[c].at = "idle" /\ Len(sent) < limit.messages
      /\ UNCHANGED <<fixedc, choice, desk, shown, inbox, runs, acked, slips>>
  BY DEF Takes
<1>3. ChatTypes /\ Picked /\ OneEach /\ OneWriter /\ Boxes /\ HeardOnce /\ RunsLive /\ OwnLeadAnswers
  BY DEF ChatInv
<1>4. u \in Updates /\ Proper(u)
  BY <1>3, MessagesAre DEF ChatTypes
<1>5. Target(c, u) \in Repo \cup {None}
  BY <1>3, <1>4 DEF Target, Updates, ChatTypes
<1>6. e \in Sending /\ e.lead = lead[c] /\ e.to = <<Target(c, u), u.agent>>
  BY <1>3, <1>4, <1>5, <1>27 DEF Sending, Updates, ChatTypes
<1>7. sent' = Append(sent, e) /\ sent \in Seq(Sending) /\ Len(sent) \in Nat /\ limit.messages \in 0 .. MaxMessages
  BY <1>1, <1>3, <1>27 DEF ChatTypes, ChatAssumption
<1>8. /\ sent' \in Seq(Sending) /\ Len(sent') = n /\ n \in DOMAIN sent' /\ sent'[n] = e
      /\ n \notin DOMAIN sent
      /\ \A m \in DOMAIN sent : m \in DOMAIN sent' /\ sent'[m] = sent[m]
  BY <1>6, <1>7, <1>26
<1>9. n \in 0 .. MaxMessages /\ n <= limit.messages /\ MaxMessages \in Nat
  BY <1>2, <1>7, <1>26 DEF ChatAssumption
<1>10. /\ taken \in Handling /\ taken.at = "begin" /\ taken.msg = n /\ taken.u = u
       /\ taken.rec = NoRec /\ Lives(taken.rec)
  <2>1. Resting \in Handling /\ Resting.rec = NoRec /\ NoRec.session = None
    BY RestingIs
  <2>2. n \in 0 .. MaxMessages /\ "begin" \in Place
    BY <1>9 DEF Place
  <2>3. /\ taken \in Handling /\ taken.at = "begin" /\ taken.msg = n /\ taken.u = u
        /\ taken.rec = NoRec
    BY <1>4, <1>28, <2>1, <2>2 DEF Handling
  <2> QED
    BY <2>1, <2>3 DEF Lives
<1>11. \/ /\ u.k = "chat" /\ task[c].at = "idle" /\ task' = [task EXCEPT ![c] = taken] /\ UNCHANGED doing
       \/ doing' = [doing EXCEPT ![c] = taken] /\ UNCHANGED task
  BY <1>1, <1>26, <1>28
<1>12. doing \in [Chats -> Handling] /\ task \in [Chats -> Handling]
  BY <1>3 DEF ChatTypes
<1>13. doing' \in [Chats -> Handling] /\ task' \in [Chats -> Handling]
  BY <1>10, <1>11, <1>12
<1>14. ChatTypes' /\ Picked'
  <2>1. runs' = runs /\ acked' = acked /\ limit' = limit
    BY <1>2 DEF fixedc
  <2>2. Len(sent') <= limit'.messages
    BY <1>8, <1>9, <2>1
  <2>3. acked' \subseteq DOMAIN sent' /\ \A x \in runs' : x.msg \in DOMAIN sent'
    BY <1>3, <1>8, <2>1 DEF ChatTypes
  <2> QED
    BY <1>2, <1>3, <1>8, <1>13, <2>1, <2>2, <2>3 DEF ChatTypes, Picked, fixedc, choice, desk
<1>15. /\ \A m \in DOMAIN sent : m # n
       /\ n \notin acked /\ \A x \in runs : x.msg # n
       /\ \A d \in Chats : /\ doing[d].at # "idle" => doing[d].msg \in DOMAIN sent
                           /\ task[d].at # "idle" => task[d].msg \in DOMAIN sent
  BY <1>3, <1>8 DEF ChatTypes, ChatInv, Handled, Tasked
<1>16. UNCHANGED <<runs, acked, inbox, default, lead>> /\ Unheard(n)'
  BY <1>2, <1>15 DEF choice, Unheard
<1>17. \A d \in Chats : doing'[d] = doing[d] => Handled(d)'
  <2> SUFFICES ASSUME NEW d \in Chats, doing'[d] = doing[d], doing[d].at # "idle"
               PROVE  Handled(d)'
    BY DEF Handled
  <2>1. Handled(d) /\ doing[d].msg \in DOMAIN sent
    BY DEF ChatInv, Handled
  <2>2. doing[d].msg \in DOMAIN sent' /\ sent'[doing[d].msg] = sent[doing[d].msg]
    BY <1>8, <2>1
  <2>3. Box(d)' = Box(d) /\ \A v : Target(d, v)' = Target(d, v)
    BY <1>16, BoxKept
  <2> QED
    BY <1>16, <2>1, <2>2, <2>3 DEF Handled, Unheard, OwnAgent
<1>18. \A d \in Chats : task'[d] = task[d] => Tasked(d)'
  <2> SUFFICES ASSUME NEW d \in Chats, task'[d] = task[d], task[d].at # "idle"
               PROVE  Tasked(d)'
    BY DEF Tasked
  <2>1. Tasked(d) /\ task[d].msg \in DOMAIN sent'
    BY <1>8, <1>15 DEF ChatInv
  <2> QED
    BY <1>16, <2>1 DEF Tasked, Unheard
<1>19. \A d \in Chats : Handled(d)' /\ (doing'[d].at = "append" => doing'[d] = doing[d])
  <2> SUFFICES ASSUME NEW d \in Chats, doing'[d] # doing[d]
               PROVE  Handled(d)' /\ doing'[d].at # "append"
    BY <1>17
  <2>1. d = c /\ doing'[c] = taken
    BY <1>11, <1>12
  <2>2. Target(c, u)' = Target(c, u)
    BY <1>16 DEF Target
  <2>3. /\ doing'[c].at = "begin" /\ doing'[c].msg = n /\ doing'[c].u = u /\ doing'[c].rec = NoRec
        /\ Lives(doing'[c].rec)
    BY <1>10, <2>1
  <2>4. sent'[n].to = <<Target(c, u)', u.agent>> /\ sent'[n].lead = lead'[c] /\ n \in DOMAIN sent'
    BY <1>6, <1>8, <1>16, <2>2
  <2> QED
    BY <1>4, <1>16, <2>1, <2>2, <2>3, <2>4 DEF Handled, Lives, Unheard
<1>20. \A d \in Chats : Tasked(d)'
  <2> SUFFICES ASSUME NEW d \in Chats, task'[d] # task[d]
               PROVE  Tasked(d)'
    BY <1>18
  <2>1. d = c /\ task'[c] = taken /\ u.k = "chat"
    BY <1>11, <1>12
  <2> QED
    BY <1>8, <1>10, <1>16, <2>1 DEF Tasked, Lives, Unheard
<1>21. OneEach'
  <2>1. CASE task' = [task EXCEPT ![c] = taken] /\ UNCHANGED doing
    <3>1. /\ task'[c].msg = n /\ \A d \in Chats : d # c => task'[d] = task[d]
          /\ \A d \in Chats : doing'[d] = doing[d]
      BY <1>10, <1>12, <2>1
    <3> QED
      BY <1>3, <1>15, <3>1 DEF OneEach
  <2>2. CASE doing' = [doing EXCEPT ![c] = taken] /\ UNCHANGED task
    <3>1. /\ doing'[c].msg = n /\ \A d \in Chats : d # c => doing'[d] = doing[d]
          /\ \A d \in Chats : task'[d] = task[d]
      BY <1>10, <1>12, <2>2
    <3> QED
      BY <1>3, <1>15, <3>1 DEF OneEach
  <2> QED
    BY <1>11, <2>1, <2>2
<1>22. OneWriter'
  <2>1. \A d \in Chats : doing'[d].at = "append" => doing[d].at = "append" /\ Box(d)' = Box(d)
    BY <1>16, <1>19, BoxKept
  <2> QED
    BY <1>3, <2>1 DEF OneWriter
<1>23. HeardOnce' /\ RunsLive'
  BY <1>3, <1>16 DEF HeardOnce, RunsLive
<1>24. OwnLeadAnswers'
  BY <1>3, <1>8, <1>16 DEF OwnLeadAnswers, ChatTypes
<1>25. Boxes'
  <2>1. \A m \in acked : sent'[m] = sent[m]
    BY <1>3, <1>8 DEF ChatTypes
  <2> QED
    BY <1>3, <1>16, <2>1 DEF Boxes
<1> QED
  BY <1>14, <1>19, <1>20, <1>21, <1>22, <1>23, <1>24, <1>25, Together

\* A desktop application touches one session: the others keep their order.
LEMMA DesktopStep ==
  ASSUME ChatAssumption, ChatInv, NEW s \in Session, DesktopUses(s)
  PROVE  ChatInv'
<1>1. /\ touched' \in Seq(Session)
      /\ UNCHANGED <<fixedc, choice, made, shown, doing, task, inbox, hist>>
  BY TouchTyped DEF DesktopUses, ChatInv
<1>2. UNCHANGED <<sent, runs, acked, lead, default, doing, task, inbox>>
  BY <1>1 DEF hist, choice
<1>3. ChatTypes' /\ Picked'
  BY <1>1, <1>2 DEF ChatInv, ChatTypes, Picked, fixedc, choice
<1>4. \A d \in Chats : doing[d].at \notin {"idle", "save"} => Unheard(doing[d].msg)'
  BY <1>2 DEF ChatInv, Handled, Unheard
<1>5. (\A d \in Chats : Handled(d)') /\ OneWriter'
  BY <1>2, <1>4, HandlersKept
<1>6. (\A d \in Chats : Tasked(d)') /\ OneEach'
  BY <1>2 DEF ChatInv, Tasked, Unheard, OneEach
<1>7. Boxes' /\ HeardOnce' /\ RunsLive' /\ OwnLeadAnswers'
  BY <1>2 DEF ChatInv, Boxes, HeardOnce, RunsLive, OwnLeadAnswers
<1> QED
  BY <1>3, <1>5, <1>6, <1>7, Together

\* A restart drops the handlers and the tasks, and what they had.
LEMMA ChatRestarts ==
  ASSUME ChatAssumption, ChatInv, DaemonRestarts
  PROVE  ChatInv'
<1>1. /\ UNCHANGED <<mobile, limit, choice, desk, shown, inbox, hist>>
      /\ DOMAIN repos' \subseteq Repo
      /\ doing' = [c \in Chats |-> Resting] /\ task' = [c \in Chats |-> Resting]
  BY DEF DaemonRestarts
<1>2. /\ doing' \in [Chats -> Handling] /\ task' \in [Chats -> Handling]
      /\ \A d \in Chats : doing'[d].at = "idle" /\ task'[d].at = "idle"
  BY <1>1, RestingIs
<1>3. ChatTypes' /\ Picked'
  BY <1>1, <1>2 DEF ChatInv, ChatTypes, Picked, choice, desk, hist
<1>4. (\A d \in Chats : Handled(d)') /\ (\A d \in Chats : Tasked(d)') /\ OneEach' /\ OneWriter'
  BY <1>2 DEF Handled, Tasked, OneEach, OneWriter
<1>5. Boxes' /\ HeardOnce' /\ RunsLive' /\ OwnLeadAnswers'
  BY <1>1 DEF ChatInv, Boxes, HeardOnce, RunsLive, OwnLeadAnswers, hist
<1> QED
  BY <1>3, <1>4, <1>5, Together

-----------------------------------------------------------------------------
(* Chat: the theorems *)

LEMMA ChatStutters ==
  ASSUME ChatInv, UNCHANGED cvars
  PROVE  ChatInv'
<1>1. UNCHANGED <<repos, mobile, limit, default, lead, leadDefault, picked, model, touched, made,
                  shown, doing, task, inbox, runs, sent, acked>>
  BY DEF cvars, fixedc, choice, desk, hist
<1>2. ChatTypes' /\ Picked'
  BY <1>1 DEF ChatInv, ChatTypes, Picked
<1>3. \A d \in Chats : doing[d].at \notin {"idle", "save"} => Unheard(doing[d].msg)'
  BY <1>1 DEF ChatInv, Handled, Unheard
<1>4. (\A d \in Chats : Handled(d)') /\ OneWriter'
  BY <1>1, <1>3, HandlersKept
<1>5. (\A d \in Chats : Tasked(d)') /\ OneEach'
  BY <1>1 DEF ChatInv, Tasked, Unheard, OneEach
<1>6. Boxes' /\ HeardOnce' /\ RunsLive' /\ OwnLeadAnswers'
  BY <1>1 DEF ChatInv, Boxes, HeardOnce, RunsLive, OwnLeadAnswers
<1> QED
  BY <1>2, <1>4, <1>5, <1>6, Together

\* The inductive invariant of the chats: every reachable state keeps ChatInv.
THEOREM ChatInvariance == ChatSpec => []ChatInv
<1> USE ChatAssumption
<1>1. ChatInit => ChatInv
  BY InitChat
<1>2. ChatInv /\ [ChatNext]_cvars => ChatInv'
  <2> SUFFICES ASSUME ChatInv, [ChatNext]_cvars
               PROVE  ChatInv'
    OBVIOUS
  <2>1. ASSUME NEW c \in Chats, Takes(c)
        PROVE  ChatInv'
    BY <2>1, TakesStep
  <2>2. ASSUME NEW c \in Chats, Handles(c)
        PROVE  ChatInv'
    BY <2>2, CommandSteps, MessageSteps, RunEndsStep, ResumesStep, FreshlyStep, SavesStep,
       ReadsInboxStep, WritesInboxStep DEF Handles
  <2>3. ASSUME NEW c \in Chats, Tasks(c)
        PROVE  ChatInv'
    BY <2>3, BackgroundStep, BackgroundEndsStep DEF Tasks
  <2>4. ASSUME NEW s \in Session, DesktopUses(s)
        PROVE  ChatInv'
    BY <2>4, DesktopStep
  <2>5. CASE DaemonRestarts
    BY <2>5, ChatRestarts
  <2>6. CASE UNCHANGED cvars
    BY <2>6, ChatStutters
  <2> QED
    BY <2>1, <2>2, <2>3, <2>4, <2>5, <2>6 DEF ChatNext
<1> QED
  BY <1>1, <1>2, PTL DEF ChatSpec

\* What the state of the chats is made of (teloxide_message_handler, StateSnapshot): a
\* selected session is one of the agent it is selected for, an acknowledged message was sent.
THEOREM ChatTypeCorrect == ChatSpec => []ChatTypeOK
<1>1. ChatInv => ChatTypeOK
  <2> SUFFICES ASSUME ChatInv
               PROVE  ChatTypeOK
    OBVIOUS
  <2>1. ChatTypes /\ Picked
    BY DEF ChatInv
  <2>2. \A c \in Chats : \A x \in {doing[c], task[c]} : x \in Handling
    BY <2>1 DEF ChatTypes
  <2>3. \A c \in Chats : \A x \in {doing[c], task[c]} : x.at \in Place /\ x.msg \in 0 .. MaxMessages
    BY <2>2 DEF Handling
  <2>4. \A c \in Chats : \A a \in Agent : picked[c][a] # NoRec => AgentOf[picked[c][a].session] = a
    BY <2>1 DEF Picked
  <2> QED
    BY <2>1, <2>3, <2>4 DEF ChatTypeOK, ChatTypes, Place
<1> QED
  BY <1>1, ChatInvariance, PTL

\* A session is run in the directory of its own repo (handle_callback_sel_*,
\* find_latest_gemini_session_id), if no two repos share a gemini folder.
THEOREM SessionsStayHome == ChatSpec => []RunsWhereItLives
<1>1. ChatInv => RunsWhereItLives
  BY DEF ChatInv, RunsLive, Lives, RunsWhereItLives
<1> QED
  BY <1>1, ChatInvariance, PTL

\* A message is given to one run or put into one inbox, and not lost from it while two
\* chats write to it (handle_gemini_bridge_msg, append_inbox).
THEOREM OnePlacePerMessage == ChatSpec => []MessageOnce
<1>1. ChatInv => MessageOnce
  <2> SUFFICES ASSUME ChatInv
               PROVE  MessageOnce
    OBVIOUS
  <2>1. HeardOnce /\ Boxes /\ ChatTypes
    BY DEF ChatInv
  <2>2. ASSUME NEW m \in acked
        PROVE  Cardinality({i \in DOMAIN inbox[sent[m].to] : inbox[sent[m].to][i] = m}) = 1
    <3> DEFINE box == inbox[sent[m].to]
    <3>1. sent[m].to \in DOMAIN inbox
      BY <2>1 DEF Boxes, ChatTypes
    <3>2. PICK i \in DOMAIN box : box[i] = m
      BY <2>1 DEF Boxes
    <3>3. \A j \in DOMAIN box : box[j] = m => j = i
      BY <2>1, <3>1, <3>2 DEF Boxes
    <3>4. {j \in DOMAIN box : box[j] = m} = {i}
      BY <3>2, <3>3
    <3> QED
      BY <3>4, FS_Singleton
  <2>3. InboxKept
    BY <2>2 DEF InboxKept
  <2> QED
    BY <2>1, <2>3 DEF MessageOnce
<1> QED
  BY <1>1, ChatInvariance, PTL

\* The lead a chat has set answers its messages without an address
\* (resolve_lead_for_chat, handle_unaddressed_lead_message).
THEOREM LeadIsOwn == ChatSpec => []OwnLeadAnswers
<1>1. ChatInv => OwnLeadAnswers
  BY DEF ChatInv
<1> QED
  BY <1>1, ChatInvariance, PTL

-----------------------------------------------------------------------------
(* Chat: it implements Delivery *)

Stays == UNCHANGED <<sent, runs, inbox, acked>>

\* A message nobody has is open.
LEMMA OpenIs ==
  ASSUME NEW m \in DOMAIN sent, Unheard(m)
  PROVE  Post!Open(m)
BY DEF Post!Open, Unheard

\* A run of a message that nobody was given is a Hear of Delivery.
LEMMA Hears ==
  ASSUME NEW x, x.msg \in DOMAIN sent, Unheard(x.msg),
         x.plain /\ sent[x.msg].lead # None => x.agent = sent[x.msg].lead,
         runs' = runs \cup {x}, UNCHANGED <<sent, inbox, acked>>
  PROVE  Post!Next
<1>1. Post!Open(x.msg)
  BY OpenIs
<1>2. Post!Hear(x)
  BY <1>1 DEF Post!Hear
<1>3. x \in runs'
  OBVIOUS
<1> QED
  BY <1>2, <1>3 DEF Post!Next

\* A handler that gives its message to an agent.
LEMMA HandlerHears ==
  ASSUME ChatAssumption, ChatInv, NEW c \in Chats, doing[c].at \in {"run", "resume", "fresh"},
         NEW rec \in Where, NEW a \in Agent, a = doing[c].u.agent,
         runs' = runs \cup {Run(doing[c], rec, a, c)}, UNCHANGED <<sent, inbox, acked>>
  PROVE  Post!Next
<1> DEFINE x == Run(doing[c], rec, a, c)
<1>1. ChatTypes /\ Handled(c) /\ doing[c] \in Handling
  BY DEF ChatInv, ChatTypes
<1>2. x.msg = doing[c].msg /\ x.agent = a /\ (x.plain <=> doing[c].u.k = "plain")
  BY <1>1, RunTyped
<1>3. runs' = runs \cup {x}
  OBVIOUS
<1> HIDE DEF x
<1>4. x.msg \in DOMAIN sent /\ Unheard(x.msg)
  BY <1>1, <1>2 DEF Handled
<1>5. x.plain /\ sent[x.msg].lead # None => x.agent = sent[x.msg].lead
  BY <1>1, <1>2 DEF Handled, OwnAgent
<1> QED
  BY <1>3, <1>4, <1>5, Hears

\* A handler that runs an agent: once it is over, the agent was given the message or not.
LEMMA RunsHear ==
  ASSUME ChatAssumption, ChatInv, NEW c \in Chats, RunEnds(c) \/ Resumes(c) \/ Freshly(c)
  PROVE  Post!Next \/ Stays
<1> DEFINE h == doing[c]
<1>1. ChatTypes /\ Handled(c) /\ h \in Handling /\ h.rec \in Where
  BY DEF ChatInv, ChatTypes, Handling
<1>2. CASE RunEnds(c)
  <2>1. /\ h.at = "run" /\ UNCHANGED <<inbox, sent, acked>>
        /\ runs' = runs \cup {Run(h, h.rec, h.u.agent, c)} \/ UNCHANGED runs
    BY <1>2 DEF RunEnds
  <2>2. h.u.agent \in Agent
    BY <1>1, <2>1 DEF Handled
  <2> QED
    BY <1>1, <2>1, <2>2, HandlerHears DEF Stays
<1>3. CASE Resumes(c)
  <2>1. /\ h.at = "resume" /\ UNCHANGED <<inbox, sent, acked>>
        /\ runs' = runs \cup {Run(h, h.rec, "gemini", c)} \/ UNCHANGED runs
    BY <1>3 DEF Resumes
  <2>2. h.u.agent = "gemini" /\ "gemini" \in Agent
    BY <1>1, <2>1 DEF Handled, Agent
  <2> QED
    BY <1>1, <2>1, <2>2, HandlerHears DEF Stays
<1>4. CASE Freshly(c)
  <2>1. /\ h.at = "fresh" /\ UNCHANGED <<inbox, sent, acked>>
        /\ \/ \E s \in Session : runs' = runs \cup {Run(h, [h.rec EXCEPT !.session = s], "gemini", c)}
           \/ UNCHANGED runs
    BY <1>4 DEF Freshly
  <2>2. h.u.agent = "gemini" /\ "gemini" \in Agent
    BY <1>1, <2>1 DEF Handled, Agent
  <2>3. ASSUME NEW s \in Session, runs' = runs \cup {Run(h, [h.rec EXCEPT !.session = s], "gemini", c)}
        PROVE  Post!Next
    <3>1. PICK rec \in Where : rec = [h.rec EXCEPT !.session = s]
      BY <1>1 DEF Where
    <3>2. runs' = runs \cup {Run(h, rec, "gemini", c)}
      BY <2>3, <3>1
    <3> QED
      BY <2>1, <2>2, <3>2, HandlerHears
  <2> QED
    BY <2>1, <2>3 DEF Stays
<1> QED
  BY <1>2, <1>3, <1>4

\* A task's message is not of a lead.
LEMMA TaskHears ==
  ASSUME ChatAssumption, ChatInv, NEW c \in Chats, BackgroundEnds(c)
  PROVE  Post!Next \/ Stays
<1> DEFINE h == task[c]
           x == Run(h, h.rec, "antigravity", c)
<1>1. /\ h.at = "run" /\ UNCHANGED <<inbox, sent, acked>>
      /\ runs' = runs \/ runs' = runs \cup {x}
  BY DEF BackgroundEnds
<1>2. ChatTypes /\ Tasked(c) /\ h \in Handling /\ h.rec \in Where /\ "antigravity" \in Agent
  BY DEF ChatInv, ChatTypes, Handling, Agent
<1>3. x.msg = h.msg /\ (x.plain <=> h.u.k = "plain")
  BY <1>2, RunTyped
<1> HIDE DEF x
<1>4. x.msg \in DOMAIN sent /\ Unheard(x.msg) /\ ~x.plain
  BY <1>1, <1>2, <1>3 DEF Tasked
<1> QED
  BY <1>1, <1>4, Hears DEF Stays

\* What append_inbox writes is what is in the file, and one message.
LEMMA Puts ==
  ASSUME ChatInv, NEW c \in Chats, WritesInbox(c)
  PROVE  Post!Next \/ Stays
<1> DEFINE m == doing[c].msg
           b == Box(c)
<1>1. /\ doing[c].at = "append" /\ UNCHANGED <<runs, sent>>
      /\ \/ inbox' = [inbox EXCEPT ![b] = Append(doing[c].text, m)] /\ acked' = acked \cup {m}
         \/ UNCHANGED <<inbox, acked>>
  BY DEF WritesInbox
<1>2. CASE UNCHANGED <<inbox, acked>>
  BY <1>1, <1>2 DEF Stays
<1>3. CASE inbox' = [inbox EXCEPT ![b] = Append(doing[c].text, m)] /\ acked' = acked \cup {m}
  <2>1. /\ m \in DOMAIN sent /\ Unheard(m)
        /\ b = sent[m].to /\ b \in Repo \X Agent /\ doing[c].text = inbox[b]
    BY <1>1 DEF ChatInv, Handled
  <2>2. Post!Open(m)
    BY <2>1, OpenIs
  <2>3. inbox' = [inbox EXCEPT ![sent[m].to] = Append(@, m)]
    BY <1>3, <2>1
  <2>4. Post!Put(m)
    BY <1>1, <1>3, <2>1, <2>2, <2>3 DEF Post!Put
  <2>5. m \in acked'
    BY <1>3
  <2> QED
    BY <2>4, <2>5 DEF Post!Next
<1> QED
  BY <1>1, <1>2, <1>3

\* Any other step of a handler leaves what is delivered alone.
LEMMA CommandsDeliverNothing ==
  ASSUME NEW c \in Chats, Handles(c), ~RunEnds(c), ~Resumes(c), ~Freshly(c), ~WritesInbox(c)
  PROVE  Stays
<1>1. CASE Shows(c) \/ Picks(c) \/ Switches(c) \/ Leads(c) \/ SetsModel(c) \/ Lists(c) \/ Selects(c)
  BY <1>1 DEF Shows, Picks, Switches, Leads, SetsModel, Lists, Selects, hist, Stays
<1>2. CASE ClaudeOrCodexChats(c) \/ GeminiChats(c) \/ Saves(c) \/ Resolves(c)
  BY <1>2 DEF ClaudeOrCodexChats, GeminiChats, Saves, Resolves, hist, Stays
<1>3. CASE LeadChats(c) \/ LeadRuns(c) \/ Routes(c) \/ ReadsInbox(c)
  BY <1>3 DEF LeadChats, LeadRuns, Routes, ReadsInbox, hist, Stays
<1> QED
  BY <1>1, <1>2, <1>3 DEF Handles

\* Every step of the chats is a step of Delivery, or one that delivers nothing.
LEMMA StepDelivers ==
  ASSUME ChatAssumption, ChatInv, [ChatNext]_cvars
  PROVE  [Post!Next]_(Post!deliveryVars)
<1>1. Stays => UNCHANGED Post!deliveryVars
  BY DEF Stays, Post!deliveryVars
<1>2. ASSUME NEW c \in Chats, Takes(c)
      PROVE  Post!Next
  <2>1. PICK e : sent' = Append(sent, e)
    BY <1>2 DEF Takes
  <2>2. sent \in Seq(Sending) /\ UNCHANGED <<runs, inbox, acked>>
    BY <1>2 DEF Takes, ChatInv, ChatTypes
  <2>3. Len(sent') = Len(sent) + 1 /\ \A m \in DOMAIN sent : sent'[m] = sent[m]
    BY <2>1, <2>2
  <2> QED
    BY <2>2, <2>3 DEF Post!Next, Post!Send
<1>3. ASSUME NEW c \in Chats, Handles(c)
      PROVE  Post!Next \/ Stays
  BY <1>3, RunsHear, Puts, CommandsDeliverNothing
<1>4. ASSUME NEW c \in Chats, Tasks(c)
      PROVE  Post!Next \/ Stays
  <2>1. CASE Background(c)
    BY <2>1 DEF Background, hist, Stays
  <2> QED
    BY <1>4, <2>1, TaskHears DEF Tasks
<1>5. ASSUME NEW s \in Session, DesktopUses(s)
      PROVE  Stays
  BY <1>5 DEF DesktopUses, hist, Stays
<1>6. CASE DaemonRestarts
  BY <1>1, <1>6 DEF DaemonRestarts, hist, Stays
<1>7. CASE UNCHANGED cvars
  BY <1>1, <1>7 DEF cvars, hist, Stays
<1> QED
  BY <1>1, <1>2, <1>3, <1>4, <1>5, <1>6, <1>7 DEF ChatNext

\* Chat implements Delivery: a message comes to one place and once, and its chat is told
\* of exactly what was put into an inbox (append_inbox, handle_gemini_bridge_msg,
\* handle_antigravity_bridge_msg, handle_unaddressed_lead_message).
THEOREM Deliveries == ChatSpec => DeliversOnce
<1> USE ChatAssumption
<1>1. ChatInit => Post!Init
  BY DEF ChatInit, Post!Init
<1>2. ChatInv /\ [ChatNext]_cvars => [Post!Next]_(Post!deliveryVars)
  BY StepDelivers
<1> QED
  BY <1>1, <1>2, ChatInvariance, PTL DEF DeliversOnce, ChatSpec, Post!Spec

-----------------------------------------------------------------------------
(* BridgeSync: what is copied *)

\* A line is of one author; a line broken off half-way is no one's.
LEMMA LinesAre ==
  /\ Garbled \in Line /\ Garbled.id = 0 /\ Garbled.from = "none" /\ <<Garbled>> \in Seq(Line)
  /\ \A l \in Line : l.id \in 0 .. MaxLines /\ l.from \in Side \cup {"none"}
  /\ \A l \in Line : l # Garbled => l.id \in 1 .. MaxLines /\ l.id # 0
  /\ \A n \in 1 .. MaxLines : \A x \in Side \cup {"none"} :
       \A l : l = [id |-> n, from |-> x] => l \in Line /\ l # Garbled /\ l.id = n /\ l.from = x
<1>1. MaxLines \in Nat
  BY BridgeAssumption
<1>2. Garbled = [id |-> 0, from |-> "none"]
  BY DEF Garbled
<1>3. Garbled.id = 0 /\ Garbled.from = "none"
  BY <1>2
<1>4. Garbled \in Line
  BY DEF Line
<1>5. \A l \in Line : l # Garbled => l.id \in 1 .. MaxLines /\ l.from \in Side \cup {"none"}
  BY DEF Line
<1>9. \A n : n \in 1 .. MaxLines => n # 0 /\ n \in 0 .. MaxLines
  BY <1>1
<1>6. \A l \in Line : l.id \in 0 .. MaxLines /\ l.from \in Side \cup {"none"}
  <2>1. 0 \in 0 .. MaxLines /\ "none" \in Side \cup {"none"}
    BY <1>1
  <2> QED
    BY <1>3, <1>5, <1>9, <2>1
<1>7. <<Garbled>> \in Seq(Line)
  BY <1>4
<1>8. ASSUME NEW n \in 1 .. MaxLines, NEW x \in Side \cup {"none"}, NEW l, l = [id |-> n, from |-> x]
      PROVE  l \in Line /\ l # Garbled /\ l.id = n /\ l.from = x
  <2>1. l.id = n /\ l.from = x /\ l \in [id : 1 .. MaxLines, from : Side \cup {"none"}]
    BY <1>8
  <2>2. n # 0
    BY <1>9
  <2>3. l # Garbled
    BY <1>3, <2>1, <2>2
  <2> QED
    BY <2>1, <2>3 DEF Line
<1> QED
  BY <1>3, <1>4, <1>5, <1>6, <1>7, <1>8, <1>9

\* The two sides of a pair.
LEMMA SidesAre ==
  \A x \in Side : Other(x) \in Side /\ Other(x) # x /\ Other(Other(x)) = x
                   /\ x \in Side \cup {"none"} /\ x # "none"
                   /\ \A y \in Side : y = x \/ y = Other(x)
BY DEF Side, Other

\* The lines after an offset.
LEMMA UnreadIs ==
  ASSUME NEW f \in File, NEW offset \in Nat, NEW u, u = Unread(f, offset)
  PROVE  /\ u \in Seq(Line)
         /\ \A k \in 1 .. Len(u) : offset + k \in 1 .. Len(f.lines) /\ u[k] = f.lines[offset + k]
         /\ \A i \in 1 .. Len(f.lines) : i > offset => i - offset \in 1 .. Len(u)
         /\ offset <= Len(f.lines) => offset + Len(u) = Len(f.lines)
         /\ offset > Len(f.lines) => Len(u) = 0
<1>1. f.lines \in Seq(Line) /\ Len(f.lines) \in Nat
  BY DEF File
<1>2. CASE offset > Len(f.lines)
  <2>1. u = <<>>
    BY <1>2 DEF Unread
  <2> QED
    BY <1>1, <1>2, <2>1
<1>3. CASE offset <= Len(f.lines)
  <2>1. u = SubSeq(f.lines, offset + 1, Len(f.lines))
    BY <1>1, <1>3 DEF Unread
  <2>2. /\ u \in Seq(Line) /\ Len(u) = Len(f.lines) - offset
        /\ \A k \in 1 .. Len(u) : u[k] = f.lines[offset + k]
    BY <1>1, <1>3, <2>1
  <2> QED
    BY <1>1, <1>3, <2>2
<1> QED
  BY <1>1, <1>2, <1>3

\* A sync moves an offset to the end, and never back.
LEMMA MovedIs ==
  ASSUME NEW f \in File, NEW offset \in Nat
  PROVE  /\ Moved(f, offset) \in Nat /\ Moved(f, offset) >= offset
         /\ \A i \in 1 .. Len(f.lines) : i <= Moved(f, offset)
         /\ offset <= Len(f.lines) => Moved(f, offset) = Len(f.lines)
<1>1. PICK u : u = Unread(f, offset)
  OBVIOUS
<1>2. /\ u \in Seq(Line)
      /\ offset <= Len(f.lines) => offset + Len(u) = Len(f.lines)
      /\ offset > Len(f.lines) => Len(u) = 0
  BY <1>1, UnreadIs
<1>3. Len(f.lines) \in Nat /\ Len(u) \in Nat
  BY <1>2 DEF File
<1>4. Moved(f, offset) = offset + Len(u)
  BY <1>1 DEF Moved
<1> QED
  BY <1>2, <1>3, <1>4

\* The lines that go to the other side: those after the offset that it did not write.
Sends(f, offset, side, i) ==
  i > offset /\ f.lines[i] # Garbled /\ f.lines[i].from # Other(side)

Renders(f, offset, side, r, m, h) ==
  /\ m \in Nat /\ h \in [1 .. m -> 1 .. Len(f.lines)]
  /\ \A k \in 1 .. m, l \in 1 .. m : k < l => h[k] < h[l]
  /\ r \in Seq(Line) /\ Len(r) = m
  /\ \A k \in 1 .. m : /\ Sends(f, offset, side, h[k]) /\ r[k] # Garbled
                       /\ r[k].id = f.lines[h[k]].id /\ r[k].from = side
  /\ \A i \in 1 .. Len(f.lines) : Sends(f, offset, side, i) => \E k \in 1 .. m : h[k] = i

\* What is copied is a selection from the unread lines.
LEMMA RendersIt ==
  ASSUME NEW f \in File, NEW offset \in Nat, NEW side \in Side, NEW r, r = Rendered(f, offset, side)
  PROVE  \E m, h : Renders(f, offset, side, r, m, h)
<1>1. PICK u : u = Unread(f, offset)
  OBVIOUS
<1>2. PICK S : S = {l \in Line : l # Garbled /\ ~Skipped(l, side)}
  OBVIOUS
<1>3. /\ u \in Seq(Line)
      /\ \A k \in 1 .. Len(u) : offset + k \in 1 .. Len(f.lines) /\ u[k] = f.lines[offset + k]
      /\ \A i \in 1 .. Len(f.lines) : i > offset => i - offset \in 1 .. Len(u)
  BY <1>1, UnreadIs
<1>4. PICK w : w = Selected(u, S)
  OBVIOUS
<1>5. PICK m, g : Part(w, u, S, m, g)
  BY <1>3, <1>4, SelectedHas
<1>6. /\ w = [k \in 1 .. m |-> u[g[k]]]
      /\ m \in Nat /\ g \in [1 .. m -> Places(u, S)]
      /\ \A k \in 1 .. m, l \in 1 .. m : k < l => g[k] < g[l]
      /\ \A i \in Places(u, S) : \E k \in 1 .. m : g[k] = i
  BY <1>5 DEF Part, Increasing
<1>7. r = [n \in DOMAIN w |-> [id |-> w[n].id, from |-> side]]
  BY <1>1, <1>2, <1>4 DEF Rendered
<1>8. r = [n \in 1 .. m |-> [id |-> u[g[n]].id, from |-> side]]
  BY <1>6, <1>7
<1>9. \A i : i \in Places(u, S) <=> i \in 1 .. Len(u) /\ u[i] # Garbled /\ u[i].from # Other(side)
  BY <1>2, <1>3 DEF Places, Skipped
<1>10. \A x \in Line : x # Garbled => x.id \in 1 .. MaxLines
  BY LinesAre
<1>11. side \in Side \cup {"none"}
  BY SidesAre
<1>12. \A k \in 1 .. m : g[k] \in 1 .. Len(u) /\ u[g[k]] \in Line /\ u[g[k]] # Garbled
                         /\ u[g[k]].from # Other(side)
  <2> SUFFICES ASSUME NEW k \in 1 .. m
               PROVE  g[k] \in 1 .. Len(u) /\ u[g[k]] \in Line /\ u[g[k]] # Garbled
                      /\ u[g[k]].from # Other(side)
    OBVIOUS
  <2>1. PICK i : i = g[k]
    OBVIOUS
  <2>2. i \in Places(u, S)
    BY <1>6, <2>1
  <2>3. i \in 1 .. Len(u) /\ u[i] # Garbled /\ u[i].from # Other(side)
    BY <1>9, <2>2
  <2>4. u[i] \in Line
    BY <1>3, <2>3
  <2> QED
    BY <2>1, <2>3, <2>4
<1>13. \A k \in 1 .. m : r[k] = [id |-> u[g[k]].id, from |-> side]
  BY <1>8
<1>14. ASSUME NEW k \in 1 .. m
       PROVE  r[k] \in Line /\ r[k] # Garbled /\ r[k].id = u[g[k]].id /\ r[k].from = side
  <2>1. u[g[k]].id \in 1 .. MaxLines
    BY <1>10, <1>12
  <2>2. r[k] = [id |-> u[g[k]].id, from |-> side]
    BY <1>13
  <2>3. \A l : l = [id |-> u[g[k]].id, from |-> side] =>
          l \in Line /\ l # Garbled /\ l.id = u[g[k]].id /\ l.from = side
    BY <1>11, <2>1, LinesAre
  <2> QED
    BY <2>2, <2>3
<1>15. r \in Seq(Line) /\ Len(r) = m
  <2>1. r \in [1 .. m -> Line]
    BY <1>8, <1>13, <1>14
  <2> QED
    BY <1>6, <2>1
<1>16. PICK h : h = [k \in 1 .. m |-> offset + g[k]]
  OBVIOUS
<1>17. \A k \in 1 .. m : /\ h[k] = offset + g[k] /\ h[k] \in 1 .. Len(f.lines) /\ h[k] > offset
                         /\ u[g[k]] = f.lines[h[k]]
  BY <1>3, <1>12, <1>16
<1>18. h \in [1 .. m -> 1 .. Len(f.lines)]
  BY <1>16, <1>17
<1>19. \A k \in 1 .. m, l \in 1 .. m : k < l => h[k] < h[l]
  BY <1>6, <1>12, <1>17
<1>20. \A k \in 1 .. m : Sends(f, offset, side, h[k])
  BY <1>12, <1>17 DEF Sends
<1>21. \A k \in 1 .. m : r[k] # Garbled /\ r[k].id = f.lines[h[k]].id /\ r[k].from = side
  BY <1>14, <1>17
<1>22. ASSUME NEW i \in 1 .. Len(f.lines), Sends(f, offset, side, i)
       PROVE  \E k \in 1 .. m : h[k] = i
  <2>1. i > offset /\ i - offset \in 1 .. Len(u)
    BY <1>3, <1>22 DEF Sends
  <2>2. offset + (i - offset) = i
    BY <2>1
  <2>3. u[i - offset] = f.lines[i]
    BY <1>3, <2>1, <2>2
  <2>4. i - offset \in Places(u, S)
    BY <1>9, <1>22, <2>1, <2>3 DEF Sends
  <2>5. PICK k \in 1 .. m : g[k] = i - offset
    BY <1>6, <2>4
  <2> QED
    BY <1>17, <2>2, <2>5
<1>23. Renders(f, offset, side, r, m, h)
  BY <1>6, <1>15, <1>18, <1>19, <1>20, <1>21, <1>22 DEF Renders
<1> QED
  BY <1>23

LEMMA RenderedIs ==
  ASSUME NEW f \in File, NEW offset \in Nat, NEW side \in Side, NEW r, r = Rendered(f, offset, side)
  PROVE  r \in Seq(Line)
<1>1. PICK m, h : Renders(f, offset, side, r, m, h)
  BY RendersIt
<1> QED
  BY <1>1 DEF Renders

\* A copied line is marked with the side it is from, and stands for a line there that
\* was not itself a copy.
LEMMA RenderedFrom ==
  ASSUME NEW f \in File, NEW offset \in Nat, NEW side \in Side, NEW r, r = Rendered(f, offset, side),
         NEW k \in 1 .. Len(r)
  PROVE  /\ r[k] # Garbled /\ r[k].from = side
         /\ \E i \in 1 .. Len(f.lines) : Sends(f, offset, side, i) /\ r[k].id = f.lines[i].id
<1>1. PICK m, h : Renders(f, offset, side, r, m, h)
  BY RendersIt
<1>2. m \in Nat /\ h \in [1 .. m -> 1 .. Len(f.lines)] /\ k \in 1 .. m
  BY <1>1 DEF Renders
<1>3. /\ Sends(f, offset, side, h[k]) /\ r[k] # Garbled
      /\ r[k].id = f.lines[h[k]].id /\ r[k].from = side
  BY <1>1, <1>2 DEF Renders
<1>4. h[k] \in 1 .. Len(f.lines)
  BY <1>2
<1> QED
  BY <1>3, <1>4

\* A copied line is there once, if each line that is sent is.
LEMMA RenderedOnce ==
  ASSUME NEW f \in File, NEW offset \in Nat, NEW side \in Side, NEW r, r = Rendered(f, offset, side),
         \A i, j \in 1 .. Len(f.lines) :
           Sends(f, offset, side, i) /\ Sends(f, offset, side, j) /\ f.lines[i].id = f.lines[j].id => i = j
  PROVE  \A k, l \in 1 .. Len(r) : r[k].id = r[l].id => k = l
<1>1. PICK m, h : Renders(f, offset, side, r, m, h)
  BY RendersIt
<1>2. /\ m \in Nat /\ h \in [1 .. m -> 1 .. Len(f.lines)]
      /\ \A k \in 1 .. m, l \in 1 .. m : k < l => h[k] < h[l]
      /\ Len(r) = m
      /\ \A k \in 1 .. m : Sends(f, offset, side, h[k]) /\ r[k].id = f.lines[h[k]].id
  BY <1>1 DEF Renders
<1>3. ASSUME NEW k \in 1 .. m, NEW l \in 1 .. m, r[k].id = r[l].id
      PROVE  k = l
  <2>1. h[k] \in 1 .. Len(f.lines) /\ h[l] \in 1 .. Len(f.lines)
    BY <1>2
  <2>2. PICK i, j : i = h[k] /\ j = h[l]
    OBVIOUS
  <2>3. /\ i \in 1 .. Len(f.lines) /\ j \in 1 .. Len(f.lines)
        /\ Sends(f, offset, side, i) /\ Sends(f, offset, side, j)
    BY <1>2, <2>1, <2>2
  <2>4. r[k].id = f.lines[i].id /\ r[l].id = f.lines[j].id
    BY <1>2, <2>2
  <2>5. h[k] = h[l]
    BY <1>3, <2>2, <2>3, <2>4
  <2>6. ~(k < l) /\ ~(l < k)
    BY <1>2, <2>1, <2>5
  <2> QED
    BY <1>2, <2>6
<1> QED
  BY <1>2, <1>3

LEMMA FileIs ==
  ASSUME NEW f \in File
  PROVE  f.lines \in Seq(Line) /\ Len(f.lines) \in Nat
BY DEF File

\* What a file has after lines are added to it.
LEMMA AddIs ==
  ASSUME NEW f \in File, NEW ls \in Seq(Line), NEW g, g = Add(f, ls)
  PROVE  /\ g \in File
         /\ Len(g.lines) = Len(f.lines) + Len(ls)
         /\ \A i \in 1 .. Len(f.lines) : g.lines[i] = f.lines[i]
         /\ \A i \in 1 .. Len(ls) : g.lines[Len(f.lines) + i] =
              IF i = 1 /\ f.open # 0 THEN Garbled ELSE ls[i]
         /\ Len(ls) = 0 => g = f
         /\ Len(ls) # 0 => g.open = 0
<1>1. f.lines \in Seq(Line) /\ Len(f.lines) \in Nat /\ f.open \in 0 .. Synced
  BY DEF File
<1>2. CASE ls = <<>>
  BY <1>1, <1>2 DEF Add
<1>3. CASE ls # <<>>
  <2>1. PICK w : w = IF f.open = 0 THEN ls ELSE <<Garbled>> \o Tail(ls)
    OBVIOUS
  <2>2. Garbled \in Line /\ <<Garbled>> \in Seq(Line)
    BY LinesAre
  <2>3. Tail(ls) \in Seq(Line) /\ Len(ls) \in Nat /\ Len(ls) # 0
        /\ Len(Tail(ls)) = Len(ls) - 1
        /\ \A i \in 1 .. Len(ls) - 1 : Tail(ls)[i] = ls[i + 1]
    BY <1>3
  <2>4. /\ w \in Seq(Line) /\ Len(w) = Len(ls)
        /\ \A i \in 1 .. Len(ls) : w[i] = IF i = 1 /\ f.open # 0 THEN Garbled ELSE ls[i]
    <3>1. CASE f.open = 0
      BY <2>1, <3>1
    <3>2. CASE f.open # 0
      <4>1. w = <<Garbled>> \o Tail(ls)
        BY <2>1, <3>2
      <4>2. w \in Seq(Line) /\ Len(w) = Len(ls)
        BY <2>2, <2>3, <4>1
      <4>3. w[1] = Garbled
        BY <2>2, <2>3, <4>1
      <4>4. \A i \in 1 .. Len(ls) : i # 1 => w[i] = Tail(ls)[i - 1]
        BY <2>2, <2>3, <4>1
      <4>5. \A i \in 1 .. Len(ls) : i # 1 => i - 1 \in 1 .. Len(ls) - 1 /\ (i - 1) + 1 = i
        BY <2>3
      <4>6. \A i \in 1 .. Len(ls) : i # 1 => w[i] = ls[i]
        BY <2>3, <4>4, <4>5
      <4> QED
        BY <3>2, <4>2, <4>3, <4>6
    <3> QED
      BY <3>1, <3>2
  <2>5. g = [lines |-> f.lines \o w, open |-> 0]
    BY <1>3, <2>1 DEF Add
  <2>6. g.lines = f.lines \o w /\ g.open = 0
    BY <2>5
  <2>7. /\ g.lines \in Seq(Line) /\ Len(g.lines) = Len(f.lines) + Len(ls)
        /\ \A i \in 1 .. Len(f.lines) : g.lines[i] = f.lines[i]
        /\ \A i \in 1 .. Len(ls) : g.lines[Len(f.lines) + i] = w[i]
    <3>1. PICK h : h = f.lines
      OBVIOUS
    <3>2. h \in Seq(Line)
      BY <1>1, <3>1
    <3>3. PICK v : v = h \o w
      OBVIOUS
    <3>4. v \in Seq(Line) /\ Len(v) = Len(h) + Len(w) /\ Len(h) \in Nat
      <4>1. w \in Seq(Line)
        BY <2>4
      <4> QED
        BY <4>1, <3>2, <3>3
    <3>5. \A i \in 1 .. Len(h) : v[i] = h[i]
      BY <2>4, <3>2, <3>3
    <3>6. \A i \in 1 .. Len(w) : v[Len(h) + i] = w[i]
      BY <2>4, <3>2, <3>3
    <3> QED
      BY <2>4, <2>6, <3>1, <3>3, <3>4, <3>5, <3>6
  <2>8. g \in File
    <3>1. 0 \in 0 .. Synced
      BY BridgeAssumption DEF Synced
    <3> QED
      BY <2>5, <2>6, <2>7, <3>1 DEF File
  <2> QED
    BY <2>3, <2>4, <2>6, <2>7, <2>8
<1> QED
  BY <1>2, <1>3

-----------------------------------------------------------------------------
(* BridgeSync: files that grow *)

Whole(f) == (\A i \in 1 .. Len(f.lines) : f.lines[i] # Garbled) /\ f.open # Synced
In(f, id) == \E i \in 1 .. Len(f.lines) : f.lines[i].id = id

\* Lines are added to a file, and what was run into stays so.
Grown(f, g) ==
  /\ Len(f.lines) <= Len(g.lines)
  /\ \A i \in 1 .. Len(f.lines) : g.lines[i] = f.lines[i]
  /\ Whole(g) => Whole(f)

\* The lines of f up to the n-th that an agent wrote there are in g.
Told(f, g, n) ==
  \A i \in 1 .. Len(f.lines) :
    i <= n /\ f.lines[i] # Garbled /\ f.lines[i].from = "none" => In(g, f.lines[i].id)

\* Growing is reflexive, and transitive below.
LEMMA GrownItself ==
  ASSUME NEW f \in File
  PROVE  Grown(f, f)
BY DEF Grown, File

\* An append keeps what is there, and all of it arrives behind a whole line.
LEMMA AddGrows ==
  ASSUME NEW f \in File, NEW ls \in Seq(Line), NEW g, g = Add(f, ls)
  PROVE  /\ g \in File /\ Grown(f, g)
         /\ Whole(g) => \A k \in 1 .. Len(ls) : In(g, ls[k].id)
<1>1. /\ g \in File
      /\ Len(g.lines) = Len(f.lines) + Len(ls)
      /\ \A i \in 1 .. Len(f.lines) : g.lines[i] = f.lines[i]
      /\ \A i \in 1 .. Len(ls) : g.lines[Len(f.lines) + i] =
           IF i = 1 /\ f.open # 0 THEN Garbled ELSE ls[i]
      /\ Len(ls) = 0 => g = f
  BY AddIs
<1>2. Len(f.lines) \in Nat /\ Len(ls) \in Nat /\ 0 # Synced
  BY BridgeAssumption DEF File, Synced
<1>3. \A i \in 1 .. Len(ls) : Len(f.lines) + i \in 1 .. Len(g.lines)
  BY <1>1, <1>2
<1>4. \A i \in 1 .. Len(f.lines) : i \in 1 .. Len(g.lines)
  BY <1>1, <1>2
<1>5. Whole(g) /\ Len(ls) # 0 => f.open = 0
  <2>1. Len(ls) # 0 => 1 \in 1 .. Len(ls)
    BY <1>2
  <2> QED
    BY <1>1, <1>3, <2>1 DEF Whole
<1>6. Whole(g) => Whole(f)
  BY <1>1, <1>2, <1>4, <1>5 DEF Whole
<1>7. ASSUME Whole(g), NEW k \in 1 .. Len(ls)
      PROVE  In(g, ls[k].id)
  <2>1. Len(ls) # 0
    BY <1>2
  <2>2. g.lines[Len(f.lines) + k] = ls[k]
    BY <1>1, <1>5, <1>7, <2>1
  <2> QED
    BY <1>3, <2>2 DEF In
<1>8. Len(f.lines) <= Len(g.lines)
  BY <1>1, <1>2
<1> QED
  BY <1>1, <1>6, <1>7, <1>8 DEF Grown

\* What the other file was given stays given while both files grow.
LEMMA ToldGrows ==
  ASSUME NEW f \in File, NEW g \in File, NEW f2 \in File, NEW g2 \in File, NEW n \in Nat,
         Grown(f, f2), Grown(g, g2), n <= Len(f.lines), Told(f, g, n)
  PROVE  Told(f2, g2, n)
<1>1. Len(f.lines) \in Nat /\ Len(f2.lines) \in Nat /\ Len(g.lines) \in Nat /\ Len(g2.lines) \in Nat
  BY DEF File
<1>2. ASSUME NEW i \in 1 .. Len(f2.lines), i <= n, f2.lines[i] # Garbled, f2.lines[i].from = "none"
      PROVE  In(g2, f2.lines[i].id)
  <2>0. i \in 1 .. Len(f.lines)
    <3>1. i \in Nat /\ 1 <= i /\ i <= n
      BY <1>1, <1>2
    <3> QED
      BY <1>1, <3>1
  <2>1. i \in 1 .. Len(f.lines) /\ f2.lines[i] = f.lines[i]
    BY <2>0 DEF Grown
  <2>2. In(g, f.lines[i].id)
    BY <1>2, <2>1 DEF Told
  <2>3. PICK j \in 1 .. Len(g.lines) : g.lines[j].id = f.lines[i].id
    BY <2>2 DEF In
  <2>4. j \in 1 .. Len(g2.lines) /\ g2.lines[j] = g.lines[j]
    BY <1>1 DEF Grown
  <2> QED
    BY <2>1, <2>3, <2>4 DEF In
<1> QED
  BY <1>2 DEF Told

\* What a sync copies is told, up to its new offset.
LEMMA RenderedAll ==
  ASSUME NEW f \in File, NEW offset \in Nat, NEW side \in Side, NEW r, r = Rendered(f, offset, side),
         NEW i \in 1 .. Len(f.lines), Sends(f, offset, side, i)
  PROVE  \E k \in 1 .. Len(r) : r[k].id = f.lines[i].id
<1>1. PICK m, h : Renders(f, offset, side, r, m, h)
  BY RendersIt
<1>2. PICK k \in 1 .. m : h[k] = i
  BY <1>1 DEF Renders
<1> QED
  BY <1>1, <1>2 DEF Renders

\* A direction of a sync gives the other file all it moves the offset over.
LEMMA RenderedTold ==
  ASSUME NEW f \in File, NEW g \in File, NEW offset \in Nat, NEW side \in Side, NEW g2,
         g2 = Add(g, Rendered(f, offset, side)), Whole(g2), Told(f, g, offset)
  PROVE  Told(f, g2, Moved(f, offset))
<1>1. PICK r : r = Rendered(f, offset, side)
  OBVIOUS
<1>2. /\ r \in Seq(Line)
      /\ \A i \in 1 .. Len(f.lines) : Sends(f, offset, side, i) =>
           \E k \in 1 .. Len(r) : r[k].id = f.lines[i].id
  <2>1. r \in Seq(Line)
    BY <1>1, RenderedIs
  <2>2. \A i \in 1 .. Len(f.lines) : Sends(f, offset, side, i) =>
          \E k \in 1 .. Len(r) : r[k].id = f.lines[i].id
    BY <1>1, RenderedAll
  <2> QED
    BY <2>1, <2>2
<1>3. g2 \in File /\ Grown(g, g2) /\ \A k \in 1 .. Len(r) : In(g2, r[k].id)
  BY <1>1, <1>2, AddGrows
<1>4. ASSUME NEW i \in 1 .. Len(f.lines), f.lines[i] # Garbled, f.lines[i].from = "none"
      PROVE  In(g2, f.lines[i].id)
  <2>1. CASE i <= offset
    <3>1. In(g, f.lines[i].id)
      BY <1>4, <2>1 DEF Told
    <3>2. PICK j \in 1 .. Len(g.lines) : g.lines[j].id = f.lines[i].id
      BY <3>1 DEF In
    <3>3. Len(g.lines) \in Nat /\ Len(g2.lines) \in Nat
      BY <1>3 DEF File
    <3>4. j \in 1 .. Len(g2.lines) /\ g2.lines[j] = g.lines[j]
      BY <1>3, <3>3 DEF Grown
    <3> QED
      BY <3>2, <3>4 DEF In
  <2>2. CASE i > offset
    <3>1. Other(side) # "none"
      BY SidesAre
    <3>2. Sends(f, offset, side, i)
      BY <1>4, <2>2, <3>1 DEF Sends
    <3> QED
      BY <1>2, <1>3, <3>2
  <2> QED
    BY <2>1, <2>2
<1> QED
  BY <1>4 DEF Told

-----------------------------------------------------------------------------
(* BridgeSync: one direction of a sync *)

\* The two files of a record.
LEMMA PathsAre ==
  ASSUME NEW rec \in BridgeRecord, rec.paired, rec.session \in Paired, NEW side \in Side
  PROVE  /\ PathOf(rec, side) = <<rec.session, side>>
         /\ PathOf(rec, side) \in Path /\ PathOf(rec, Other(side)) \in Path
         /\ PathOf(rec, side) # PathOf(rec, Other(side))
         /\ PathOf(rec, side)[1] = rec.session /\ PathOf(rec, side)[2] = side
<1>1. rec.session \in SessionId
  BY BridgeAssumption
<1>2. PathOf(rec, side) = <<rec.session, side>> /\ PathOf(rec, Other(side)) = <<rec.session, Other(side)>>
  BY DEF PathOf
<1>3. side # Other(side)
  BY SidesAre
<1>4. \A x \in Side : <<rec.session, x>> \in Path
  BY <1>1 DEF Path, Side
<1>5. Other(side) \in Side
  BY SidesAre
<1> QED
  BY <1>2, <1>3, <1>4, <1>5

LEMMA OffsetsAre ==
  ASSUME NEW rec \in BridgeRecord, NEW side \in Side
  PROVE  rec[side] \in Nat
BY DEF BridgeRecord, Side

\* What one direction of a sync does to the record and the files.
LEMMA CycleIs ==
  ASSUME NEW rec \in BridgeRecord, rec.paired, rec.session \in Paired, NEW fs \in [Path -> File],
         NEW side \in Side, NEW c, c = Cycle(rec, fs, side),
         NEW p, p = PathOf(rec, side), NEW q, q = PathOf(rec, Other(side))
  PROVE  /\ p \in Path /\ q \in Path /\ p # q
         /\ c.rec \in BridgeRecord /\ c.rec.session = rec.session /\ c.rec.paired
         /\ c.rec[side] = Moved(fs[p], rec[side]) /\ c.rec[Other(side)] = rec[Other(side)]
         /\ c.files \in [Path -> File]
         /\ c.files[q] = Add(fs[q], Rendered(fs[p], rec[side], side))
         /\ \A x \in Path : x # q => c.files[x] = fs[x]
<1>1. p \in Path /\ q \in Path /\ p # q
  BY PathsAre
<1>2. fs[p] \in File /\ fs[q] \in File /\ rec[side] \in Nat
  BY <1>1, OffsetsAre
<1>3. Moved(fs[p], rec[side]) \in Nat
  BY <1>2, MovedIs
<1>4. PICK n : n = Moved(fs[p], rec[side])
  OBVIOUS
<1>5. PICK ls : ls = Rendered(fs[p], rec[side], side)
  OBVIOUS
<1>6. ls \in Seq(Line)
  BY <1>2, <1>5, RenderedIs
<1>7. PICK g : g = Add(fs[q], ls)
  OBVIOUS
<1>8. g \in File
  BY <1>2, <1>6, <1>7, AddIs
<1>9. c.rec = [rec EXCEPT ![side] = n] /\ c.files = [fs EXCEPT ![q] = Add(@, ls)]
  BY <1>4, <1>5 DEF Cycle
<1>10. c.files = [fs EXCEPT ![q] = g]
  BY <1>7, <1>9
<1>11. /\ c.files \in [Path -> File] /\ c.files[q] = g
       /\ \A x \in Path : x # q => c.files[x] = fs[x]
  BY <1>1, <1>8, <1>10
<1>12. /\ c.rec \in BridgeRecord /\ c.rec.session = rec.session /\ c.rec.paired = rec.paired
       /\ c.rec[side] = n /\ c.rec[Other(side)] = rec[Other(side)]
  <2>1. PICK h : h = [rec EXCEPT ![side] = n]
    OBVIOUS
  <2>2. n \in Nat
    BY <1>3, <1>4
  <2>3. CASE side = "desktop"
    <3>1. h = [rec EXCEPT !.desktop = n]
      BY <2>1, <2>3
    <3>2. h \in BridgeRecord /\ h.session = rec.session /\ h.paired = rec.paired
          /\ h.desktop = n /\ h.mobile = rec.mobile
      BY <2>2, <3>1 DEF BridgeRecord
    <3> QED
      BY <1>9, <2>1, <2>3, <3>2 DEF Other
  <2>4. CASE side = "mobile"
    <3>1. h = [rec EXCEPT !.mobile = n]
      BY <2>1, <2>4
    <3>2. h \in BridgeRecord /\ h.session = rec.session /\ h.paired = rec.paired
          /\ h.mobile = n /\ h.desktop = rec.desktop
      BY <2>2, <3>1 DEF BridgeRecord
    <3> QED
      BY <1>9, <2>1, <2>4, <3>2 DEF Other
  <2> QED
    BY <2>3, <2>4 DEF Side
<1> QED
  BY <1>1, <1>4, <1>5, <1>7, <1>11, <1>12

\* Every offset of a record stands in its file, and what is before it was told,
\* but for files that were put back or are not whole.
CoveredOn(fs, gone, rec, side) ==
  LET p == PathOf(rec, side)
      q == PathOf(rec, Other(side))
  IN /\ p \notin gone => rec[side] <= Len(fs[p].lines)
     /\ p \notin gone /\ q \notin gone /\ Whole(fs[q]) => Told(fs[p], fs[q], rec[side])
Covered(fs, gone, rec) == rec.paired => \A side \in Side : CoveredOn(fs, gone, rec, side)

\* A record that skips nothing goes on skipping nothing while the files grow.
LEMMA CoverGrows ==
  ASSUME NEW fs \in [Path -> File], NEW fs2 \in [Path -> File], NEW gone, NEW gone2,
         gone \subseteq gone2,
         \A p \in Path : p \notin gone2 => Grown(fs[p], fs2[p]),
         NEW rec \in BridgeRecord, rec.paired => rec.session \in Paired, Covered(fs, gone, rec)
  PROVE  Covered(fs2, gone2, rec)
<1> SUFFICES ASSUME rec.paired, NEW side \in Side
             PROVE  CoveredOn(fs2, gone2, rec, side)
  BY DEF Covered
<1>1. PICK p, q : p = PathOf(rec, side) /\ q = PathOf(rec, Other(side))
  OBVIOUS
<1>2. p \in Path /\ q \in Path
  BY <1>1, PathsAre
<1>3. /\ p \notin gone => rec[side] <= Len(fs[p].lines)
      /\ p \notin gone /\ q \notin gone /\ Whole(fs[q]) => Told(fs[p], fs[q], rec[side])
  BY <1>1 DEF Covered, CoveredOn
<1>4. /\ rec[side] \in Nat /\ fs[p] \in File /\ fs[q] \in File /\ fs2[p] \in File /\ fs2[q] \in File
      /\ Len(fs[p].lines) \in Nat /\ Len(fs2[p].lines) \in Nat
  BY <1>2, OffsetsAre DEF File
<1>5. p \notin gone2 => rec[side] <= Len(fs2[p].lines)
  <2> HAVE p \notin gone2
  <2>1. Grown(fs[p], fs2[p]) /\ p \notin gone
    BY <1>2
  <2> QED
    BY <1>3, <1>4, <2>1 DEF Grown
<1>6. ASSUME p \notin gone2, q \notin gone2, Whole(fs2[q])
      PROVE  Told(fs2[p], fs2[q], rec[side])
  <2>1. Grown(fs[p], fs2[p]) /\ Grown(fs[q], fs2[q]) /\ p \notin gone /\ q \notin gone
    BY <1>2, <1>6
  <2>2. Whole(fs[q])
    BY <1>6, <2>1 DEF Grown
  <2>3. Told(fs[p], fs[q], rec[side]) /\ rec[side] <= Len(fs[p].lines)
    BY <1>3, <2>1, <2>2
  <2> QED
    BY <1>4, <2>1, <2>3, ToldGrows
<1> QED
  BY <1>1, <1>5, <1>6 DEF CoveredOn

\* A direction of a sync covers its new record.
LEMMA CycleCovers ==
  ASSUME NEW rec \in BridgeRecord, rec.paired, rec.session \in Paired, NEW fs \in [Path -> File],
         NEW gone, Covered(fs, gone, rec),
         NEW side \in Side, NEW c, c = Cycle(rec, fs, side)
  PROVE  /\ \A x \in Path : Grown(fs[x], c.files[x])
         /\ Covered(c.files, gone, c.rec)
<1>1. PICK p, q : p = PathOf(rec, side) /\ q = PathOf(rec, Other(side))
  OBVIOUS
<1>2. /\ p \in Path /\ q \in Path /\ p # q
      /\ c.rec \in BridgeRecord /\ c.rec.session = rec.session /\ c.rec.paired
      /\ c.rec[side] = Moved(fs[p], rec[side]) /\ c.rec[Other(side)] = rec[Other(side)]
      /\ c.files \in [Path -> File]
      /\ c.files[q] = Add(fs[q], Rendered(fs[p], rec[side], side))
      /\ \A x \in Path : x # q => c.files[x] = fs[x]
  BY <1>1, CycleIs
<1>3. rec[side] \in Nat /\ fs[p] \in File /\ fs[q] \in File /\ Len(fs[p].lines) \in Nat
  BY <1>2, OffsetsAre DEF File
<1>4. PICK ls : ls = Rendered(fs[p], rec[side], side)
  OBVIOUS
<1>5. ls \in Seq(Line)
  BY <1>3, <1>4, RenderedIs
<1>6. Grown(fs[q], c.files[q])
  BY <1>2, <1>3, <1>4, <1>5, AddGrows
<1>7. ASSUME NEW x \in Path
      PROVE  Grown(fs[x], c.files[x])
  <2>1. CASE x = q
    BY <1>6, <2>1
  <2>2. CASE x # q
    BY <1>2, <2>2, GrownItself
  <2> QED
    BY <2>1, <2>2
<1>8. Covered(c.files, gone, rec)
  BY <1>2, <1>7, CoverGrows
<1>9. \A x \in Side : PathOf(c.rec, x) = PathOf(rec, x)
  BY <1>2 DEF PathOf
<1>10. CoveredOn(c.files, gone, c.rec, side)
  <2>1. /\ p \notin gone => rec[side] <= Len(fs[p].lines)
        /\ p \notin gone /\ q \notin gone /\ Whole(fs[q]) => Told(fs[p], fs[q], rec[side])
    BY <1>1 DEF Covered, CoveredOn
  <2>2. c.files[p] = fs[p]
    BY <1>2
  <2>3. p \notin gone => c.rec[side] <= Len(c.files[p].lines)
    <3>1. rec[side] <= Len(fs[p].lines) => Moved(fs[p], rec[side]) = Len(fs[p].lines)
      BY <1>3, MovedIs
    <3> QED
      BY <1>2, <1>3, <2>1, <2>2, <3>1
  <2>4. ASSUME p \notin gone, q \notin gone, Whole(c.files[q])
        PROVE  Told(c.files[p], c.files[q], c.rec[side])
    <3>1. Told(fs[p], fs[q], rec[side])
      BY <1>6, <2>1, <2>4 DEF Grown
    <3> QED
      BY <1>2, <1>3, <2>2, <2>4, <3>1, RenderedTold
  <2>5. PathOf(c.rec, side) = p /\ PathOf(c.rec, Other(side)) = q
    BY <1>1, <1>9, SidesAre
  <2> QED
    BY <2>3, <2>4, <2>5 DEF CoveredOn
<1>11. CoveredOn(c.files, gone, c.rec, Other(side))
  <2>1. CoveredOn(c.files, gone, rec, Other(side))
    BY <1>8, SidesAre DEF Covered
  <2>2. PathOf(c.rec, Other(side)) = PathOf(rec, Other(side))
        /\ PathOf(c.rec, Other(Other(side))) = PathOf(rec, Other(Other(side)))
    BY <1>9, SidesAre
  <2> QED
    BY <1>2, <2>1, <2>2 DEF CoveredOn
<1>12. \A x \in Side : x = side \/ x = Other(side)
  BY SidesAre
<1> QED
  BY <1>7, <1>10, <1>11, <1>12 DEF Covered

LEMMA GrownAgain ==
  ASSUME NEW f \in File, NEW g \in File, NEW h \in File, Grown(f, g), Grown(g, h)
  PROVE  Grown(f, h)
<1>1. Len(f.lines) \in Nat /\ Len(g.lines) \in Nat /\ Len(h.lines) \in Nat
  BY DEF File
<1>2. Len(f.lines) <= Len(h.lines) /\ (Whole(h) => Whole(f))
  BY <1>1 DEF Grown
<1>3. ASSUME NEW i \in 1 .. Len(f.lines)
      PROVE  h.lines[i] = f.lines[i]
  <2>1. i \in 1 .. Len(g.lines)
    BY <1>1 DEF Grown
  <2> QED
    BY <2>1 DEF Grown
<1> QED
  BY <1>2, <1>3 DEF Grown

\* A sync covers its new record.
LEMMA SyncCovers ==
  ASSUME NEW rec \in BridgeRecord, rec.paired, rec.session \in Paired, NEW fs \in [Path -> File],
         NEW gone, Covered(fs, gone, rec),
         NEW there, there = Cycle(rec, fs, "desktop"),
         NEW back, back = Cycle(there.rec, there.files, "mobile")
  PROVE  /\ there.rec \in BridgeRecord /\ there.rec.session = rec.session /\ there.rec.paired
         /\ there.files \in [Path -> File]
         /\ back.rec \in BridgeRecord /\ back.rec.session = rec.session /\ back.rec.paired
         /\ back.files \in [Path -> File]
         /\ \A x \in Path : Grown(fs[x], there.files[x]) /\ Grown(fs[x], back.files[x])
         /\ Covered(there.files, gone, there.rec) /\ Covered(back.files, gone, back.rec)
<1>1. "desktop" \in Side /\ "mobile" \in Side
  BY DEF Side
<1>2. /\ there.rec \in BridgeRecord /\ there.rec.session = rec.session /\ there.rec.paired
      /\ there.files \in [Path -> File]
  BY <1>1, CycleIs
<1>3. /\ back.rec \in BridgeRecord /\ back.rec.session = rec.session /\ back.rec.paired
      /\ back.files \in [Path -> File]
  BY <1>1, <1>2, CycleIs
<1>4. /\ \A x \in Path : Grown(fs[x], there.files[x])
      /\ Covered(there.files, gone, there.rec)
  BY <1>1, CycleCovers
<1>5. /\ \A x \in Path : Grown(there.files[x], back.files[x])
      /\ Covered(back.files, gone, back.rec)
  BY <1>1, <1>2, <1>4, CycleCovers
<1>6. ASSUME NEW x \in Path
      PROVE  Grown(fs[x], back.files[x])
  <2>1. fs[x] \in File /\ there.files[x] \in File /\ back.files[x] \in File
    BY <1>2, <1>3
  <2> QED
    BY <1>4, <1>5, <2>1, GrownAgain
<1> QED
  BY <1>2, <1>3, <1>4, <1>5, <1>6

LEMMA StartOf ==
  ASSUME NEW ls \in Seq(Line), NEW n \in 0 .. Len(ls), NEW v, v = SubSeq(ls, 1, n)
  PROVE  v \in Seq(Line) /\ Len(v) = n /\ \A k \in 1 .. n : k \in 1 .. Len(ls) /\ v[k] = ls[k]
<1>1. Len(ls) \in Nat
  OBVIOUS
<1> QED
  BY <1>1

BreaksAt(gs, fs, q, r, n) ==
  \E v \in Seq(Line) : \E g \in File :
    /\ Len(v) = n /\ \A k \in 1 .. n : k \in 1 .. Len(r) /\ v[k] = r[k]
    /\ g = Add(fs[q], v)
    /\ \/ gs[q] = g
       \/ g.open = 0 /\ gs[q].lines = g.lines /\ gs[q].open = Synced

\* A write that stopped half-way only adds to the file.
LEMMA BrokenIs ==
  ASSUME NEW rec \in BridgeRecord, rec.paired, rec.session \in Paired, NEW fs \in [Path -> File],
         NEW side \in Side, NEW half \in BOOLEAN,
         NEW p, p = PathOf(rec, side), NEW q, q = PathOf(rec, Other(side)),
         NEW r, r = Rendered(fs[p], rec[side], side), NEW n \in 0 .. Len(r) - 1,
         NEW gs, gs = Broken(rec, fs, side, n, half)
  PROVE  /\ gs \in [Path -> File]
         /\ \A x \in Path : x # q => gs[x] = fs[x]
         /\ BreaksAt(gs, fs, q, r, n)
         /\ \A x \in Path : Grown(fs[x], gs[x])
<1>1. p \in Path /\ q \in Path /\ p # q
  BY PathsAre
<1>2. fs[p] \in File /\ fs[q] \in File /\ rec[side] \in Nat
  BY <1>1, OffsetsAre
<1>3. r \in Seq(Line)
  BY <1>2, RenderedIs
<1>4. PICK v : v = SubSeq(r, 1, n)
  OBVIOUS
<1>5. n \in 0 .. Len(r)
  BY <1>3
<1>6. v \in Seq(Line) /\ Len(v) = n /\ \A k \in 1 .. n : k \in 1 .. Len(r) /\ v[k] = r[k]
  BY <1>3, <1>4, <1>5, StartOf
<1>7. PICK g : g = Add(fs[q], v)
  OBVIOUS
<1>8. g \in File /\ Grown(fs[q], g)
  BY <1>2, <1>6, <1>7, AddGrows
<1>9. PICK h : h = IF half /\ g.open = 0 THEN [g EXCEPT !.open = Synced] ELSE g
  OBVIOUS
<1>10. gs = [fs EXCEPT ![q] = h]
  BY <1>4, <1>7, <1>9 DEF Broken
<1>11. Synced \in 0 .. Synced
  BY BridgeAssumption DEF Synced
<1>12. h \in File /\ (h = g \/ (g.open = 0 /\ h.lines = g.lines /\ h.open = Synced))
  <2>1. CASE half /\ g.open = 0
    <3>1. h = [g EXCEPT !.open = Synced]
      BY <1>9, <2>1
    <3> QED
      BY <1>8, <1>11, <2>1, <3>1 DEF File
  <2>2. CASE ~(half /\ g.open = 0)
    BY <1>8, <1>9, <2>2
  <2> QED
    BY <2>1, <2>2
<1>13. gs \in [Path -> File] /\ gs[q] = h /\ \A x \in Path : x # q => gs[x] = fs[x]
  BY <1>1, <1>10, <1>12
<1>14. Grown(fs[q], h)
  BY <1>8, <1>12 DEF Grown, Whole
<1>15. \A x \in Path : Grown(fs[x], gs[x])
  <2> TAKE x \in Path
  <2>1. CASE x = q
    BY <1>13, <1>14, <2>1
  <2>2. CASE x # q
    BY <1>13, <2>2, GrownItself
  <2> QED
    BY <2>1, <2>2
<1>16. BreaksAt(gs, fs, q, r, n)
  <2>1. v \in Seq(Line) /\ g \in File
    BY <1>6, <1>8
  <2>2. /\ Len(v) = n /\ \A k \in 1 .. n : k \in 1 .. Len(r) /\ v[k] = r[k]
        /\ g = Add(fs[q], v)
        /\ \/ gs[q] = g
           \/ g.open = 0 /\ gs[q].lines = g.lines /\ gs[q].open = Synced
    BY <1>6, <1>7, <1>12, <1>13
  <2> QED
    BY <2>1, <2>2 DEF BreaksAt
<1> QED
  BY <1>13, <1>15, <1>16

-----------------------------------------------------------------------------
(* BridgeSync: who wrote a line *)

\* A line of p was first written to p, or to the other file of the pair if it is marked.
Authored(l, p, bn) ==
  l # Garbled =>
    /\ l.id \in DOMAIN bn
    /\ \/ l.from = "none" /\ bn[l.id] = p
       \/ l.from = Other(p[2]) /\ p[1] \in Paired /\ bn[l.id] = <<p[1], Other(p[2])>>
Booked(f, p, bn) ==
  /\ \A i \in 1 .. Len(f.lines) : Authored(f.lines[i], p, bn)
  /\ f.open \in 1 .. MaxLines => f.open \in DOMAIN bn /\ bn[f.open] = p

\* An append of lines with a known author.
LEMMA AddBooked ==
  ASSUME NEW f \in File, NEW ls \in Seq(Line), NEW g, g = Add(f, ls), NEW p, NEW bn,
         Booked(f, p, bn), \A k \in 1 .. Len(ls) : Authored(ls[k], p, bn)
  PROVE  Booked(g, p, bn)
<1>1. /\ g \in File
      /\ Len(g.lines) = Len(f.lines) + Len(ls)
      /\ \A i \in 1 .. Len(f.lines) : g.lines[i] = f.lines[i]
      /\ \A i \in 1 .. Len(ls) : g.lines[Len(f.lines) + i] =
           IF i = 1 /\ f.open # 0 THEN Garbled ELSE ls[i]
      /\ Len(ls) = 0 => g = f
      /\ Len(ls) # 0 => g.open = 0
  <2>1. g \in File
    BY AddIs
  <2>2. Len(g.lines) = Len(f.lines) + Len(ls)
    BY AddIs
  <2>3. \A i \in 1 .. Len(f.lines) : g.lines[i] = f.lines[i]
    BY AddIs
  <2>4. \A i \in 1 .. Len(ls) : g.lines[Len(f.lines) + i] =
          IF i = 1 /\ f.open # 0 THEN Garbled ELSE ls[i]
    BY AddIs
  <2>5. (Len(ls) = 0 => g = f) /\ (Len(ls) # 0 => g.open = 0)
    BY AddIs
  <2> QED
    BY <2>1, <2>2, <2>3, <2>4, <2>5
<1>2. Len(f.lines) \in Nat /\ Len(ls) \in Nat
  BY DEF File
<1>3. ASSUME NEW i \in 1 .. Len(g.lines)
      PROVE  Authored(g.lines[i], p, bn)
  <2>1. CASE i \in 1 .. Len(f.lines)
    BY <1>1, <2>1 DEF Booked
  <2>2. CASE i \notin 1 .. Len(f.lines)
    <3>1. i - Len(f.lines) \in 1 .. Len(ls) /\ i = Len(f.lines) + (i - Len(f.lines))
      BY <1>1, <1>2, <2>2
    <3>2. PICK k \in 1 .. Len(ls) : i = Len(f.lines) + k
      BY <3>1
    <3>3. g.lines[i] = Garbled \/ g.lines[i] = ls[k]
      BY <1>1, <3>2
    <3> QED
      BY <3>3 DEF Authored
  <2> QED
    BY <2>1, <2>2
<1>4. g.open \in 1 .. MaxLines => g.open = f.open
  <2>1. 0 \notin 1 .. MaxLines
    BY BridgeAssumption
  <2> QED
    BY <1>1, <2>1
<1> QED
  BY <1>3, <1>4 DEF Booked

\* What is copied is a line of the file it comes from.
LEMMA RenderedBooked ==
  ASSUME NEW s \in Paired, NEW side \in Side, NEW p, p = <<s, side>>, NEW q, q = <<s, Other(side)>>,
         NEW f \in File, NEW bn, Booked(f, p, bn), NEW offset \in Nat,
         NEW r, r = Rendered(f, offset, side)
  PROVE  \A k \in 1 .. Len(r) : Authored(r[k], q, bn)
<1> SUFFICES ASSUME NEW k \in 1 .. Len(r)
             PROVE  Authored(r[k], q, bn)
  OBVIOUS
<1>2. r[k].from = side /\ \E i \in 1 .. Len(f.lines) : Sends(f, offset, side, i) /\ r[k].id = f.lines[i].id
  BY RenderedFrom
<1>3. PICK i \in 1 .. Len(f.lines) : Sends(f, offset, side, i) /\ r[k].id = f.lines[i].id
  BY <1>2
<1>4. p[1] = s /\ p[2] = side /\ q[1] = s /\ q[2] = Other(side) /\ Other(q[2]) = side
  BY SidesAre
<1>5. f.lines[i].id \in DOMAIN bn /\ bn[f.lines[i].id] = p
  BY <1>3, <1>4 DEF Booked, Authored, Sends
<1> QED
  BY <1>2, <1>3, <1>4, <1>5 DEF Authored

-----------------------------------------------------------------------------
(* BridgeSync: the types *)

\* A record is of a session, and one with two files is of the agent's first session.
Fit(a, rec) ==
  /\ rec \in BridgeRecord
  /\ rec.session \in SessionId \/ rec = Empty
  /\ rec.paired => a \in FileAgent /\ rec.session = InitialSession[a] /\ rec.session \in Paired

Working == [at : {"idle", "next", "sync", "set", "turn", "run", "ask"},
            op : {"none", "flush", "message", "ask", "fresh", "after"},
            agent : Bridged \cup {NoSession}, left : [Bridged -> BridgeRecord],
            rec : BridgeRecord, ok : BOOLEAN]

Tasking(t, w) ==
  /\ t = Poller => w.at \in {"idle", "next", "sync", "set"} /\ w.op = "none"
  /\ t = Handler => w.at # "next"
  /\ w.at \in {"sync", "set", "turn", "run", "ask"} => w.agent \in Bridged /\ Fit(w.agent, w.rec)
  /\ w.at \in {"sync", "set", "turn", "run"} => w.rec.session \in SessionId
  /\ w.at = "ask" => w.agent \in StampAgent
  /\ w.at # "set" => w.ok
  /\ \A a \in Bridged : Fit(a, w.left[a])

WorkOK == work \in [Task -> Working] /\ \A t \in Task : Tasking(t, work[t])

RecordsOK ==
  /\ bridge \in [Bridged -> BridgeRecord] /\ saved \in [Bridged -> BridgeRecord]
  /\ chosen \in [Bridged -> SessionId \cup {NoSession}]
  /\ \A a \in Bridged : Fit(a, bridge[a]) /\ Fit(a, saved[a])

FilesOK ==
  /\ file \in [Path -> File] /\ caps \in BridgeLimits
  /\ copy \in [path : Path \cup {<<>>}, had : File, has : File]
  /\ born \in Seq(Path) /\ Len(born) <= caps.lines
  /\ blurred \in BOOLEAN /\ replaced \subseteq Path
  /\ work[Handler].at = "run" => copy.path = <<work[Handler].rec.session, "desktop">>

BridgeTypes == WorkOK /\ RecordsOK /\ FilesOK

LEMMA NewIs ==
  ASSUME NEW s \in SessionId \cup {NoSession}, NEW b \in BOOLEAN, NEW n \in Nat, NEW r, r = NewRecord(s, b, n)
  PROVE  r \in BridgeRecord /\ r.session = s /\ r.paired = b /\ r.desktop = n /\ r.mobile = n
BY DEF NewRecord, BridgeRecord

LEMMA EmptyIs ==
  /\ Empty \in BridgeRecord /\ Empty.session = NoSession /\ Empty.paired = FALSE
  /\ Empty.desktop = 0 /\ Empty.mobile = 0
  /\ \A a \in Bridged : Fit(a, Empty)
<1>2. /\ Empty \in BridgeRecord /\ Empty.session = NoSession /\ Empty.paired = FALSE
      /\ Empty.desktop = 0 /\ Empty.mobile = 0
  BY DEF Empty, NewRecord, BridgeRecord
<1> QED
  BY <1>2 DEF Fit

LEMMA IdleIs ==
  /\ Idle \in Working /\ Idle.at = "idle" /\ Idle.op = "none" /\ Idle.agent = NoSession
  /\ Idle.rec = Empty /\ Idle.ok = TRUE /\ Idle.left \in [Bridged -> BridgeRecord]
  /\ \A a \in Bridged : Idle.left[a] = Empty
  /\ \A t \in Task : Tasking(t, Idle)
<1>1. PICK l : l = [a \in Bridged |-> Empty]
  OBVIOUS
<1>2. l \in [Bridged -> BridgeRecord] /\ \A a \in Bridged : l[a] = Empty
  BY <1>1, EmptyIs
<1>3. Idle = [at |-> "idle", op |-> "none", agent |-> NoSession, left |-> l, rec |-> Empty, ok |-> TRUE]
  BY <1>1 DEF Idle
<1>4. /\ Idle.at = "idle" /\ Idle.op = "none" /\ Idle.agent = NoSession
      /\ Idle.rec = Empty /\ Idle.ok = TRUE /\ Idle.left = l
  BY <1>3
<1>5. Idle \in Working
  BY <1>2, <1>3, EmptyIs DEF Working
<1>6. \A t \in Task : Tasking(t, Idle)
  BY <1>2, <1>4, EmptyIs DEF Tasking
<1> QED
  BY <1>2, <1>4, <1>5, <1>6

\* A task that moves to a well-formed place.
LEMMA TaskMoves ==
  ASSUME WorkOK, NEW t \in Task, work' \in [Task -> Working],
         \A u \in Task : u # t => work'[u] = work[u], Tasking(t, work'[t])
  PROVE  WorkOK'
BY DEF WorkOK

LEMMA InitBridge ==
  ASSUME BridgeInit
  PROVE  BridgeTypes
<1>1. \A a \in Bridged : InitialSession[a] \in SessionId \cup {NoSession}
  BY BridgeAssumption
<1>2. ASSUME NEW a \in Bridged
      PROVE  bridge[a] \in BridgeRecord /\ Fit(a, bridge[a]) /\ bridge[a].session \in SessionId \cup {NoSession}
  <2>1. PICK b : b = (a \in FileAgent /\ InitialSession[a] \in Paired)
    OBVIOUS
  <2>2. b \in BOOLEAN
    BY <2>1
  <2>3. bridge[a] = NewRecord(InitialSession[a], b, 0)
    BY <2>1 DEF BridgeInit
  <2>4. /\ bridge[a] \in BridgeRecord /\ bridge[a].session = InitialSession[a] /\ bridge[a].paired = b
    BY <1>1, <2>2, <2>3, NewIs
  <2>5. CASE InitialSession[a] = NoSession
    <3>1. b = FALSE
      BY <2>1, <2>5, BridgeAssumption
    <3> QED
      BY <2>3, <2>4, <2>5, <3>1 DEF Fit, Empty
  <2>6. CASE InitialSession[a] \in SessionId
    BY <2>1, <2>4, <2>6 DEF Fit
  <2> QED
    BY <1>1, <2>4, <2>5, <2>6
<1>3. bridge \in [Bridged -> BridgeRecord]
  <2>1. bridge = [a \in Bridged |-> bridge[a]]
    BY DEF BridgeInit
  <2> QED
    BY <1>2, <2>1
<1>4. chosen \in [Bridged -> SessionId \cup {NoSession}]
  BY <1>2 DEF BridgeInit
<1>5. RecordsOK
  BY <1>2, <1>3, <1>4 DEF BridgeInit, RecordsOK
<1>6. WorkOK
  BY IdleIs DEF BridgeInit, WorkOK
<1>7. NoFile \in File /\ 0 \in 0 .. Synced
  <2>1. 0 \in 0 .. Synced
    BY BridgeAssumption DEF Synced
  <2> QED
    BY <2>1 DEF NoFile, File
<1>8. FilesOK
  <2>1. file \in [Path -> File]
    BY <1>7 DEF BridgeInit
  <2>2. copy \in [path : Path \cup {<<>>}, had : File, has : File]
    BY <1>7 DEF BridgeInit, NoCopy
  <2>3. born \in Seq(Path) /\ Len(born) = 0 /\ caps.lines \in Nat
    BY BridgeAssumption DEF BridgeInit
  <2>4. work[Handler].at # "run"
    BY IdleIs DEF BridgeInit, Task
  <2>5. caps \in BridgeLimits /\ blurred \in BOOLEAN /\ replaced \subseteq Path
    BY DEF BridgeInit
  <2>6. Len(born) <= caps.lines
    BY <2>3
  <2> QED
    BY <2>1, <2>2, <2>3, <2>4, <2>5, <2>6 DEF FilesOK
<1> QED
  BY <1>5, <1>6, <1>8 DEF BridgeTypes

-----------------------------------------------------------------------------
(* BridgeSync: what an action does to its task *)

Gets(t, w) ==
  /\ w \in Working /\ Tasking(t, w)
  /\ work' \in [Task -> Working] /\ work'[t] = w
  /\ \A u \in Task : u # t => work'[u] = work[u]

Same(w, v) == w.agent = v.agent /\ w.op = v.op /\ w.left = v.left

LEMMA GetsKeeps ==
  ASSUME WorkOK, NEW t \in Task, NEW w, Gets(t, w)
  PROVE  WorkOK'
BY DEF Gets, WorkOK

\* A task gets a value it may have.
LEMMA GetsIt ==
  ASSUME WorkOK, NEW t \in Task, NEW w \in Working, Tasking(t, w), work' = [work EXCEPT ![t] = w]
  PROVE  Gets(t, w)
BY DEF Gets, WorkOK

\* Each action of a task, by the place it moves the task to: the lemmas down to
\* MaterializeGets say what the task has in its hands there.
LEMMA StampGets ==
  ASSUME WorkOK, NEW t \in Task, Stamp(t)
  PROVE  \E w : /\ Gets(t, w) /\ Same(w, work[t]) /\ w.at = "set"
                /\ w.rec = work[t].rec /\ w.ok = work[t].ok
<1>1. PICK w : w = [work[t] EXCEPT !.at = "set"]
  OBVIOUS
<1>2. work[t] \in Working /\ work \in [Task -> Working]
  BY DEF WorkOK
<1>3. w \in Working /\ Same(w, work[t]) /\ w.at = "set" /\ w.rec = work[t].rec /\ w.ok = work[t].ok
  BY <1>1, <1>2 DEF Working, Same
<1>4. work' = [work EXCEPT ![t] = w]
  BY <1>1 DEF Stamp, Step
<1>5. Tasking(t, w)
  <2>1. Tasking(t, work[t]) /\ work[t].at = "sync"
    BY DEF WorkOK, Stamp
  <2> QED
    BY <1>3, <2>1 DEF Tasking, Same
<1>6. Gets(t, w)
  BY <1>3, <1>4, <1>5, GetsIt
<1> QED
  BY <1>3, <1>6

LEMMA SyncGets ==
  ASSUME WorkOK, file \in [Path -> File], NEW t \in Task, Sync(t)
  PROVE  \E there, back, w :
           /\ there = Cycle(work[t].rec, file, "desktop")
           /\ back = Cycle(there.rec, there.files, "mobile")
           /\ file' = back.files
           /\ Gets(t, w) /\ Same(w, work[t]) /\ w.at = "set" /\ w.ok = work[t].ok
           /\ w.rec = back.rec
           /\ back.rec \in BridgeRecord /\ back.rec.session = work[t].rec.session /\ back.rec.paired
           /\ back.files \in [Path -> File]
           /\ work[t].at = "sync" /\ work[t].rec.paired /\ work[t].agent \in FileAgent
<1>1. PICK there, back :
        /\ there = Cycle(work[t].rec, file, "desktop")
        /\ back = Cycle(there.rec, there.files, "mobile")
        /\ file' = back.files
        /\ work' = [work EXCEPT ![t].at = "set", ![t].rec = back.rec]
  BY DEF Sync
<1>2. work[t] \in Working /\ work \in [Task -> Working] /\ Tasking(t, work[t])
  BY DEF WorkOK
<1>3. work[t].at = "sync" /\ work[t].rec.paired /\ work[t].agent \in FileAgent
  BY DEF Sync, Copied
<1>4. work[t].rec \in BridgeRecord /\ work[t].rec.session \in Paired
  BY <1>2, <1>3 DEF Tasking, Fit
<1>5. "desktop" \in Side /\ "mobile" \in Side
  BY DEF Side
<1>6. /\ there.rec \in BridgeRecord /\ there.rec.session = work[t].rec.session /\ there.rec.paired
      /\ there.files \in [Path -> File]
  BY <1>1, <1>3, <1>4, <1>5, CycleIs
<1>7. /\ back.rec \in BridgeRecord /\ back.rec.session = work[t].rec.session /\ back.rec.paired
      /\ back.files \in [Path -> File]
  BY <1>1, <1>4, <1>5, <1>6, CycleIs
<1>8. PICK r : r = back.rec
  OBVIOUS
<1>9. PICK w : w = [work[t] EXCEPT !.at = "set", !.rec = r]
  OBVIOUS
<1>10. w \in Working /\ Same(w, work[t]) /\ w.at = "set" /\ w.ok = work[t].ok /\ w.rec = r
  BY <1>2, <1>7, <1>8, <1>9 DEF Working, Same
<1>11. work' = [work EXCEPT ![t] = w]
  BY <1>1, <1>8, <1>9
<1>12. Tasking(t, w)
  <2>1. Fit(w.agent, r)
    BY <1>2, <1>3, <1>4, <1>7, <1>8, <1>10 DEF Tasking, Fit, Same
  <2>2. w.agent \in Bridged /\ r.session \in SessionId
    BY <1>2, <1>3, <1>7, <1>8, <1>10 DEF Tasking, Same
  <2> QED
    BY <1>2, <1>3, <1>10, <2>1, <2>2 DEF Tasking, Same
<1>13. Gets(t, w)
  BY <1>10, <1>11, <1>12, GetsIt
<1> QED
  BY <1>1, <1>3, <1>7, <1>8, <1>10, <1>13

\* The ways a sync fails: at a path, or in the middle of one of its two writes.
FailsWith(t, there, r) ==
  \/ r = work[t].rec /\ file' = file /\ blurred' = blurred
  \/ r = work[t].rec /\ work[t].rec.paired /\ blurred' = TRUE /\ BreaksOff(work[t].rec, file, "desktop")
  \/ r = there.rec /\ work[t].rec.paired /\ blurred' = TRUE /\ BreaksOff(there.rec, there.files, "mobile")
SetsBad(t, r) == work' = [work EXCEPT ![t].at = "set", ![t].ok = FALSE, ![t].rec = r]

LEMMA SyncFailsGets ==
  ASSUME WorkOK, file \in [Path -> File], NEW t \in Task, SyncFails(t)
  PROVE  \E there, w :
           /\ there = Cycle(work[t].rec, file, "desktop")
           /\ Gets(t, w) /\ Same(w, work[t]) /\ w.at = "set" /\ w.ok = FALSE
           /\ work[t].at = "sync" /\ work[t].agent \in FileAgent
           /\ FailsWith(t, there, w.rec)
<1>1. PICK there : there = Cycle(work[t].rec, file, "desktop")
  OBVIOUS
<1>2. work[t] \in Working /\ work \in [Task -> Working] /\ Tasking(t, work[t])
  BY DEF WorkOK
<1>3. work[t].at = "sync" /\ work[t].agent \in FileAgent
  BY DEF SyncFails
<1>4. \E r : SetsBad(t, r) /\ FailsWith(t, there, r)
  <2>1. \/ SetsBad(t, work[t].rec) /\ UNCHANGED <<file, blurred>>
        \/ /\ Copied(work[t].agent, work[t].rec) /\ blurred' = TRUE
           /\ SetsBad(t, work[t].rec) /\ BreaksOff(work[t].rec, file, "desktop")
        \/ /\ Copied(work[t].agent, work[t].rec) /\ blurred' = TRUE
           /\ SetsBad(t, Cycle(work[t].rec, file, "desktop").rec)
           /\ BreaksOff(Cycle(work[t].rec, file, "desktop").rec,
                        Cycle(work[t].rec, file, "desktop").files, "mobile")
    BY DEF SyncFails, SetsBad
  <2>2. \/ SetsBad(t, work[t].rec) /\ FailsWith(t, there, work[t].rec)
        \/ SetsBad(t, there.rec) /\ FailsWith(t, there, there.rec)
    BY <1>1, <2>1 DEF Copied, FailsWith
  <2> QED
    BY <2>2
<1>5. PICK r : SetsBad(t, r) /\ FailsWith(t, there, r)
  BY <1>4
<1>6. Fit(work[t].agent, r) /\ r.session \in SessionId /\ r \in BridgeRecord
  <2>1. Fit(work[t].agent, work[t].rec) /\ work[t].rec.session \in SessionId
    BY <1>2, <1>3 DEF Tasking
  <2>2. ASSUME r = there.rec, work[t].rec.paired
        PROVE  Fit(work[t].agent, r) /\ r.session \in SessionId /\ r \in BridgeRecord
    <3>1. work[t].rec \in BridgeRecord /\ work[t].rec.session \in Paired /\ "desktop" \in Side
      BY <2>1, <2>2 DEF Fit, Side
    <3>2. r \in BridgeRecord /\ r.session = work[t].rec.session /\ r.paired
      BY <1>1, <2>2, <3>1, CycleIs
    <3> QED
      BY <2>1, <2>2, <3>2 DEF Fit
  <2>3. ASSUME r = work[t].rec
        PROVE  Fit(work[t].agent, r) /\ r.session \in SessionId /\ r \in BridgeRecord
    BY <2>1, <2>3 DEF Fit
  <2> QED
    BY <1>5, <2>2, <2>3 DEF FailsWith
<1>7. PICK w : w = [work[t] EXCEPT !.at = "set", !.ok = FALSE, !.rec = r]
  OBVIOUS
<1>8. w \in Working /\ Same(w, work[t]) /\ w.at = "set" /\ w.ok = FALSE /\ w.rec = r
  BY <1>2, <1>6, <1>7 DEF Working, Same
<1>9. work' = [work EXCEPT ![t] = w]
  BY <1>5, <1>7 DEF SetsBad
<1>10. Tasking(t, w)
  BY <1>2, <1>3, <1>6, <1>8 DEF Tasking, Same
<1>11. Gets(t, w)
  BY <1>8, <1>9, <1>10, GetsIt
<1> QED
  BY <1>1, <1>3, <1>5, <1>8, <1>11

\* After its record is written, the poller goes on, a message has its turn, or the
\* task is over.
LEMMA SetGets ==
  ASSUME WorkOK, NEW t \in Task, SetRecord(t)
  PROVE  /\ work[t].at = "set"
         /\ \E w : /\ Gets(t, w)
                   /\ \/ w = Idle
                      \/ w.at = "next" /\ t = Poller /\ w.left = work[t].left
                      \/ /\ w.at = "turn" /\ t = Handler /\ w.left = Idle.left
                         /\ w.agent = work[t].agent /\ w.rec = work[t].rec
<1>1. work[t].at = "set" /\ \E b \in BOOLEAN : work' = [work EXCEPT ![t] = After(t, b)]
  BY DEF SetRecord
<1>2. PICK b \in BOOLEAN : work' = [work EXCEPT ![t] = After(t, b)]
  BY <1>1
<1>3. PICK w : w = After(t, b)
  OBVIOUS
<1>4. work' = [work EXCEPT ![t] = w]
  BY <1>2, <1>3
<1>5. work[t] \in Working /\ work \in [Task -> Working] /\ Tasking(t, work[t]) /\ Poller # Handler
  BY BridgeAssumption DEF WorkOK
<1>6. CASE t = Poller
  <2>1. w = [Idle EXCEPT !.at = "next", !.left = work[t].left]
    BY <1>3, <1>6 DEF After
  <2>2. work[t].left \in [Bridged -> BridgeRecord]
    BY <1>5 DEF Working
  <2>3. w \in Working /\ w.at = "next" /\ w.left = work[t].left /\ w.op = "none" /\ w.ok
    BY <2>1, <2>2, IdleIs DEF Working
  <2>4. Tasking(t, w)
    BY <1>5, <1>6, <2>3 DEF Tasking
  <2> QED
    BY <1>1, <1>4, <1>6, <2>3, <2>4, GetsIt
<1>7. CASE t # Poller /\ work[t].op = "message" /\ work[t].ok /\ b
  <2>1. w = [Idle EXCEPT !.at = "turn", !.agent = work[t].agent, !.rec = work[t].rec]
    BY <1>3, <1>7 DEF After
  <2>2. work[t].agent \in Bridged \cup {NoSession} /\ work[t].rec \in BridgeRecord
    BY <1>5 DEF Working
  <2>3. /\ w \in Working /\ w.at = "turn" /\ w.left = Idle.left /\ w.ok
        /\ w.agent = work[t].agent /\ w.rec = work[t].rec
    BY <2>1, <2>2, IdleIs DEF Working
  <2>4. Fit(work[t].agent, work[t].rec) /\ work[t].agent \in Bridged /\ work[t].rec.session \in SessionId
    BY <1>1, <1>5 DEF Tasking
  <2>5. \A a \in Bridged : Fit(a, w.left[a])
    BY <2>3, IdleIs, EmptyIs
  <2>6. Tasking(t, w)
    BY <1>7, <2>3, <2>4, <2>5 DEF Tasking
  <2>7. t = Handler
    BY <1>7 DEF Task
  <2> QED
    BY <1>1, <1>4, <2>3, <2>6, <2>7, GetsIt
<1>8. CASE t # Poller /\ ~(work[t].op = "message" /\ work[t].ok /\ b)
  <2>1. w = Idle
    BY <1>3, <1>8 DEF After
  <2> QED
    BY <1>1, <1>4, <2>1, IdleIs, GetsIt
<1> QED
  BY <1>6, <1>7, <1>8

LEMMA LeaveGets ==
  ASSUME WorkOK, NEW t \in Task, LeaveRecord(t)
  PROVE  Gets(t, Idle) /\ ~work[t].ok
<1>1. work' = [work EXCEPT ![t] = Idle] /\ ~work[t].ok
  BY DEF LeaveRecord, Done
<1> QED
  BY <1>1, IdleIs, GetsIt

LEMMA TickGets ==
  ASSUME WorkOK, RecordsOK, Tick
  PROVE  \E w : Gets(Poller, w) /\ w.at = "next" /\ w.left = bridge /\ work[Poller].at = "idle"
<1>1. PICK w : w = [work[Poller] EXCEPT !.at = "next", !.left = bridge]
  OBVIOUS
<1>2. work[Poller] \in Working /\ Tasking(Poller, work[Poller]) /\ Poller \in Task /\ Poller # Handler
  BY BridgeAssumption DEF WorkOK, Task
<1>3. bridge \in [Bridged -> BridgeRecord] /\ work[Poller].at = "idle"
  BY DEF RecordsOK, Tick
<1>4. /\ w \in Working /\ w.at = "next" /\ w.left = bridge /\ w.op = work[Poller].op
      /\ w.ok = work[Poller].ok
  BY <1>1, <1>2, <1>3 DEF Working
<1>5. work' = [work EXCEPT ![Poller] = w]
  BY <1>1 DEF Tick
<1>6. Tasking(Poller, w)
  BY <1>2, <1>3, <1>4 DEF Tasking, RecordsOK
<1> QED
  BY <1>2, <1>3, <1>4, <1>5, <1>6, GetsIt

LEMMA NextGets ==
  ASSUME WorkOK, NextRecord
  PROVE  /\ work[Poller].at = "next"
         /\ \/ Gets(Poller, Idle)
            \/ \E a \in Bridged : \E w :
                 /\ Gets(Poller, w) /\ w.at = "sync" /\ w.agent = a /\ w.rec = work[Poller].left[a]
                 /\ w.left[a] = Empty /\ \A b \in Bridged : b # a => w.left[b] = work[Poller].left[b]
<1>1. work[Poller].at = "next" /\ Poller \in Task /\ Poller # Handler
  BY BridgeAssumption DEF NextRecord, Task
<1>2. CASE Done(Poller)
  BY <1>1, <1>2, IdleIs, GetsIt DEF Done
<1>3. CASE \E a \in Bridged :
             /\ work[Poller].left[a] # Empty
             /\ work' = [work EXCEPT ![Poller].at = "sync", ![Poller].agent = a,
                           ![Poller].left[a] = Empty, ![Poller].rec = work[Poller].left[a]]
  <2>0. PICK a \in Bridged :
             /\ work[Poller].left[a] # Empty
             /\ work' = [work EXCEPT ![Poller].at = "sync", ![Poller].agent = a,
                           ![Poller].left[a] = Empty, ![Poller].rec = work[Poller].left[a]]
    BY <1>3
  <2>1. PICK l : l = [work[Poller].left EXCEPT ![a] = Empty]
    OBVIOUS
  <2>2. PICK w : w = [work[Poller] EXCEPT !.at = "sync", !.agent = a, !.left = l,
                                          !.rec = work[Poller].left[a]]
    OBVIOUS
  <2>3. work[Poller] \in Working /\ Tasking(Poller, work[Poller])
    BY <1>1 DEF WorkOK
  <2>4. work[Poller].left \in [Bridged -> BridgeRecord] /\ work[Poller].ok
    BY <1>1, <2>3 DEF Working, Tasking
  <2>5. l \in [Bridged -> BridgeRecord] /\ l[a] = Empty
        /\ \A b \in Bridged : b # a => l[b] = work[Poller].left[b]
    BY <2>1, <2>4, EmptyIs
  <2>6. /\ w \in Working /\ w.at = "sync" /\ w.agent = a /\ w.left = l
        /\ w.rec = work[Poller].left[a] /\ w.op = work[Poller].op /\ w.ok
    BY <2>2, <2>3, <2>4, <2>5 DEF Working
  <2>7. work' = [work EXCEPT ![Poller] = w]
    BY <2>0, <2>1, <2>2
  <2>8. Fit(a, work[Poller].left[a]) /\ work[Poller].left[a].session \in SessionId
    BY <2>0, <2>3 DEF Tasking, Fit
  <2>9. \A b \in Bridged : Fit(b, w.left[b])
    BY <2>3, <2>5, <2>6, EmptyIs DEF Tasking
  <2>10. Tasking(Poller, w)
    BY <1>1, <2>3, <2>6, <2>8, <2>9 DEF Tasking
  <2>11. Gets(Poller, w)
    BY <1>1, <2>6, <2>7, <2>10, GetsIt
  <2> QED
    BY <1>1, <2>5, <2>6, <2>11
<1> QED
  BY <1>2, <1>3 DEF NextRecord

LEMMA BeginGets ==
  ASSUME WorkOK, RecordsOK, NEW a \in Bridged, NEW at, NEW op, Begin(a, at, op),
         op \in {"flush", "message", "ask"},
         \/ at = "sync" /\ a \in InUse
         \/ at = "ask" /\ a \in StampAgent
  PROVE  \E w : /\ Gets(Handler, w) /\ w.at = at /\ w.agent = a /\ w.rec = bridge[a]
                /\ w.left = Idle.left
<1>1. PICK w : w = [Idle EXCEPT !.at = at, !.op = op, !.agent = a, !.rec = bridge[a]]
  OBVIOUS
<1>2. Fit(a, bridge[a]) /\ bridge[a] \in BridgeRecord
  BY DEF RecordsOK
<1>3. at = "sync" => bridge[a].session \in SessionId
  BY <1>2 DEF InUse, Fit
<1>4. /\ w \in Working /\ w.at = at /\ w.op = op /\ w.agent = a /\ w.rec = bridge[a]
      /\ w.left = Idle.left /\ w.ok
  BY <1>1, <1>2, IdleIs DEF Working
<1>5. work' = [work EXCEPT ![Handler] = w]
  BY <1>1 DEF Begin
<1>6. \A b \in Bridged : Fit(b, w.left[b])
  BY <1>4, IdleIs, EmptyIs
<1>7. Handler \in Task /\ Poller # Handler
  BY BridgeAssumption DEF Task
<1>8. Tasking(Handler, w)
  BY <1>2, <1>3, <1>4, <1>6, <1>7 DEF Tasking
<1> QED
  BY <1>4, <1>5, <1>7, <1>8, GetsIt

LEMMA AnsweredGets ==
  ASSUME WorkOK, Answered
  PROVE  \/ Gets(Handler, Idle)
         \/ \E w : /\ Gets(Handler, w) /\ w.agent \in StampAgent /\ w.at = "set"
                   /\ ~w.rec.paired /\ w.left = work[Handler].left
<1>1. work[Handler].at = "ask" /\ Handler \in Task /\ Poller # Handler
  BY BridgeAssumption DEF Answered, Task
<1>2. CASE Done(Handler)
  BY <1>1, <1>2, IdleIs, GetsIt DEF Done
<1>3. ASSUME NEW s \in SessionId,
             work' = [work EXCEPT ![Handler].at = "set", ![Handler].op = "fresh",
                               ![Handler].rec = NewRecord(s, FALSE, 0)]
      PROVE  \E w : /\ Gets(Handler, w) /\ w.agent \in StampAgent /\ w.at = "set"
                    /\ ~w.rec.paired /\ w.left = work[Handler].left
  <2>1. PICK r : r = NewRecord(s, FALSE, 0)
    OBVIOUS
  <2>2. r \in BridgeRecord /\ r.session = s /\ r.paired = FALSE
    <3>1. PICK b, n : b = FALSE /\ n = 0
      OBVIOUS
    <3>2. b \in BOOLEAN /\ n \in Nat /\ r = NewRecord(s, b, n)
      BY <2>1, <3>1
    <3> QED
      BY <3>1, <3>2, NewIs
  <2>3. PICK w : w = [work[Handler] EXCEPT !.at = "set", !.op = "fresh", !.rec = r]
    OBVIOUS
  <2>4. work[Handler] \in Working /\ Tasking(Handler, work[Handler])
    BY <1>1 DEF WorkOK
  <2>5. /\ w \in Working /\ w.at = "set" /\ w.rec = r /\ w.agent = work[Handler].agent
        /\ w.left = work[Handler].left
    BY <2>2, <2>3, <2>4 DEF Working
  <2>6. work' = [work EXCEPT ![Handler] = w]
    BY <1>3, <2>1, <2>3
  <2>7. Tasking(Handler, w) /\ w.agent \in StampAgent
    BY <1>1, <2>2, <2>4, <2>5 DEF Tasking, Fit
  <2> QED
    BY <1>1, <2>2, <2>5, <2>6, <2>7, GetsIt
<1> QED
  BY <1>2, <1>3 DEF Answered

LEMMA TurnGets ==
  ASSUME WorkOK, TurnEnds(work), work[Handler].at \in {"turn", "run"}
  PROVE  \/ Gets(Handler, Idle)
         \/ \E w : /\ Gets(Handler, w) /\ w.at = "sync" /\ w.agent = work[Handler].agent
                   /\ w.rec = work[Handler].rec /\ w.left = work[Handler].left
<1>1. Handler \in Task /\ Poller # Handler
  BY BridgeAssumption DEF Task
<1>2. CASE work' = [work EXCEPT ![Handler] = Idle]
  BY <1>1, <1>2, IdleIs, GetsIt
<1>3. CASE work' = [work EXCEPT ![Handler].at = "sync", ![Handler].op = "after"]
  <2>1. PICK w : w = [work[Handler] EXCEPT !.at = "sync", !.op = "after"]
    OBVIOUS
  <2>2. work[Handler] \in Working /\ Tasking(Handler, work[Handler])
    BY <1>1 DEF WorkOK
  <2>3. /\ w \in Working /\ w.at = "sync" /\ w.rec = work[Handler].rec /\ w.agent = work[Handler].agent
        /\ w.left = work[Handler].left /\ w.ok = work[Handler].ok
    BY <2>1, <2>2 DEF Working
  <2>4. work' = [work EXCEPT ![Handler] = w]
    BY <1>3, <2>1
  <2>5. Tasking(Handler, w)
    BY <1>1, <2>2, <2>3 DEF Tasking
  <2> QED
    BY <1>1, <2>3, <2>4, <2>5, GetsIt
<1> QED
  BY <1>2, <1>3 DEF TurnEnds

LEMMA MaterializeGets ==
  ASSUME WorkOK, Materialize
  PROVE  \E w : /\ Gets(Handler, w) /\ w.at = "run" /\ w.agent = work[Handler].agent
                /\ w.rec = work[Handler].rec /\ w.left = work[Handler].left
                /\ work[Handler].at = "turn" /\ w.rec.session \in SessionId
<1>1. Handler \in Task /\ Poller # Handler /\ work[Handler].at = "turn"
  BY BridgeAssumption DEF Task, Materialize
<1>2. PICK w : w = [work[Handler] EXCEPT !.at = "run"]
  OBVIOUS
<1>3. work[Handler] \in Working /\ Tasking(Handler, work[Handler])
  BY <1>1 DEF WorkOK
<1>4. /\ w \in Working /\ w.at = "run" /\ w.rec = work[Handler].rec /\ w.agent = work[Handler].agent
      /\ w.left = work[Handler].left /\ w.ok = work[Handler].ok
  BY <1>2, <1>3 DEF Working
<1>5. work' = [work EXCEPT ![Handler] = w]
  BY <1>2 DEF Materialize, Step
<1>6. Tasking(Handler, w) /\ w.rec.session \in SessionId
  BY <1>1, <1>3, <1>4 DEF Tasking
<1> QED
  BY <1>1, <1>4, <1>5, <1>6, GetsIt

-----------------------------------------------------------------------------
(* BridgeSync: what agents write *)

\* What is new in g was not copied there.
Written(f, g) ==
  /\ Grown(f, g)
  /\ \A i \in 1 .. Len(g.lines) : i > Len(f.lines) => g.lines[i].from = "none"

\* A line is in the file once, and not also at its end, unfinished.
Once(f) ==
  /\ \A i, j \in 1 .. Len(f.lines) : i # j /\ f.lines[i] # Garbled => f.lines[i] # f.lines[j]
  /\ \A i \in 1 .. Len(f.lines) : f.open \in 1 .. MaxLines => f.lines[i] # Own(f.open)

LEMMA OwnIs ==
  ASSUME NEW n \in 1 .. MaxLines
  PROVE  /\ Own(n) \in Line /\ Own(n) # Garbled /\ Own(n).id = n /\ Own(n).from = "none"
         /\ <<Own(n)>> \in Seq(Line) /\ Len(<<Own(n)>>) = 1 /\ <<Own(n)>>[1] = Own(n)
<1>1. PICK l : l = Own(n)
  OBVIOUS
<1>2. l = [id |-> n, from |-> "none"] /\ "none" \in Side \cup {"none"}
  BY <1>1 DEF Own
<1>3. l \in Line /\ l # Garbled /\ l.id = n /\ l.from = "none"
  BY <1>2, LinesAre
<1>4. <<l>> \in Seq(Line) /\ Len(<<l>>) = 1 /\ <<l>>[1] = l
  BY <1>3
<1> QED
  BY <1>1, <1>3, <1>4

\* The book of authors only gets longer.
LEMMA BookGrows ==
  ASSUME NEW bn \in Seq(Path), NEW p \in Path, NEW f \in File, NEW x, Booked(f, x, bn)
  PROVE  Booked(f, x, Append(bn, p))
<1>1. PICK b2 : b2 = Append(bn, p)
  OBVIOUS
<1>2. \A n \in DOMAIN bn : n \in DOMAIN b2 /\ b2[n] = bn[n]
  BY <1>1
<1>3. \A i \in 1 .. Len(f.lines) : Authored(f.lines[i], x, b2)
  BY <1>2 DEF Booked, Authored
<1>4. f.open \in 1 .. MaxLines => f.open \in DOMAIN b2 /\ b2[f.open] = x
  BY <1>2 DEF Booked
<1> QED
  BY <1>1, <1>3, <1>4 DEF Booked

\* The next line, at once or its first part.
LEMMA OwnAdded ==
  ASSUME NEW f \in File, NEW p \in Path, NEW bn \in Seq(Path), Booked(f, p, bn),
         NEW n \in 1 .. MaxLines, n = Len(bn) + 1, NEW b2, b2 = Append(bn, p),
         NEW g, \/ g = Add(f, <<Own(n)>>)
                \/ f.open = 0 /\ g = [f EXCEPT !.open = n]
  PROVE  g \in File /\ Written(f, g) /\ Booked(g, p, b2) /\ (Once(f) => Once(g))
<1>1. PICK ls : ls = <<Own(n)>>
  OBVIOUS
<1>2. /\ ls \in Seq(Line) /\ Len(ls) = 1 /\ ls[1] = Own(n)
      /\ Own(n) # Garbled /\ Own(n).id = n /\ Own(n).from = "none" /\ Own(n) \in Line
  BY <1>1, OwnIs
<1>3. Len(f.lines) \in Nat /\ 0 \notin 1 .. MaxLines /\ 0 # n
  BY BridgeAssumption DEF File
<1>4. n \in DOMAIN b2 /\ b2[n] = p /\ n \notin DOMAIN bn
  OBVIOUS
<1>5. Booked(f, p, b2)
  BY BookGrows
<1>6. \A i \in 1 .. Len(f.lines) : f.lines[i] # Garbled => f.lines[i].id # n
  BY <1>4 DEF Booked, Authored
<1>7. CASE g = Add(f, <<Own(n)>>)
  <2>1. g = Add(f, ls)
    BY <1>1, <1>7
  <2>2. /\ g \in File
        /\ Len(g.lines) = Len(f.lines) + 1
        /\ \A i \in 1 .. Len(f.lines) : g.lines[i] = f.lines[i]
        /\ \A i \in 1 .. 1 : g.lines[Len(f.lines) + i] =
             IF i = 1 /\ f.open # 0 THEN Garbled ELSE ls[i]
        /\ g.open = 0
    <3>1. /\ g \in File
          /\ Len(g.lines) = Len(f.lines) + Len(ls)
          /\ \A i \in 1 .. Len(f.lines) : g.lines[i] = f.lines[i]
          /\ \A i \in 1 .. Len(ls) : g.lines[Len(f.lines) + i] =
               IF i = 1 /\ f.open # 0 THEN Garbled ELSE ls[i]
          /\ Len(ls) # 0 => g.open = 0
      <4>1. ls \in Seq(Line)
        BY <1>2
      <4> QED
        BY <2>1, <4>1, AddIs
    <3> QED
      BY <1>2, <3>1
  <2>3. g.lines[Len(f.lines) + 1] \in {Garbled, Own(n)}
    BY <1>2, <2>2
  <2>4. Grown(f, g)
    BY <1>2, <2>1, AddGrows
  <2>5. \A i \in 1 .. Len(g.lines) : i \in 1 .. Len(f.lines) \/ i = Len(f.lines) + 1
    BY <1>3, <2>2
  <2>6. Written(f, g)
    <3>1. \A i \in 1 .. Len(g.lines) : i > Len(f.lines) => i = Len(f.lines) + 1
      BY <1>3, <2>5
    <3> QED
      BY <1>2, <2>3, <2>4, <3>1, LinesAre DEF Written
  <2>7. Booked(g, p, b2)
    <3>1. Authored(ls[1], p, b2)
      BY <1>2, <1>4 DEF Authored
    <3>2. \A k \in 1 .. Len(ls) : Authored(ls[k], p, b2)
      BY <1>2, <3>1
    <3> QED
      BY <1>2, <1>5, <2>1, <3>2, AddBooked
  <2>8. ASSUME Once(f)
        PROVE  Once(g)
    <3>0. \A i \in 1 .. Len(f.lines) : f.lines[i] # Own(n)
      BY <1>2, <1>6
    <3>1. \A i \in 1 .. Len(f.lines) : g.lines[i] # Garbled => g.lines[i] # g.lines[Len(f.lines) + 1]
      BY <2>2, <2>3, <3>0
    <3>2. ASSUME NEW i \in 1 .. Len(g.lines), NEW j \in 1 .. Len(g.lines), i # j, g.lines[i] # Garbled
          PROVE  g.lines[i] # g.lines[j]
      <4>1. CASE i \in 1 .. Len(f.lines) /\ j \in 1 .. Len(f.lines)
        BY <2>2, <2>8, <3>2, <4>1 DEF Once
      <4>2. CASE i = Len(f.lines) + 1 /\ j \in 1 .. Len(f.lines)
        <5>1. g.lines[i] = Own(n) /\ g.lines[j] = f.lines[j]
          BY <2>2, <2>3, <3>2, <4>2
        <5> QED
          BY <3>0, <4>2, <5>1
      <4>3. CASE i \in 1 .. Len(f.lines) /\ j = Len(f.lines) + 1
        BY <3>1, <3>2, <4>3
      <4> QED
        BY <2>5, <3>2, <4>1, <4>2, <4>3
    <3> QED
      BY <1>3, <2>2, <3>2 DEF Once
  <2> QED
    BY <2>2, <2>6, <2>7, <2>8
<1>8. CASE f.open = 0 /\ g = [f EXCEPT !.open = n]
  <2>1. n \in 0 .. Synced /\ n # Synced /\ 0 # Synced
    BY BridgeAssumption DEF Synced
  <2>2. g \in File /\ g.lines = f.lines /\ g.open = n
    BY <1>8, <2>1 DEF File
  <2>3. Grown(f, g)
    BY <1>3, <1>8, <2>1, <2>2 DEF Grown, Whole
  <2>4. Written(f, g)
    BY <1>3, <2>2, <2>3 DEF Written
  <2>5. Booked(g, p, b2)
    BY <1>4, <1>5, <2>2 DEF Booked
  <2>6. Once(f) => Once(g)
    <3>1. \A i \in 1 .. Len(f.lines) : f.lines[i] # Own(n)
      BY <1>2, <1>6
    <3> QED
      BY <2>2, <3>1 DEF Once
  <2> QED
    BY <2>2, <2>4, <2>5, <2>6
<1> QED
  BY <1>7, <1>8

\* The rest of an unfinished line.
LEMMA OwnEnded ==
  ASSUME NEW f \in File, NEW p \in Path, NEW bn, Booked(f, p, bn), f.open \in 1 .. MaxLines,
         NEW g, g = [lines |-> Append(f.lines, Own(f.open)), open |-> 0]
  PROVE  g \in File /\ Written(f, g) /\ Booked(g, p, bn) /\ (Once(f) => Once(g))
<1>1. PICK o : o = Own(f.open)
  OBVIOUS
<1>2. o \in Line /\ o # Garbled /\ o.id = f.open /\ o.from = "none"
  BY <1>1, OwnIs
<1>3. f.lines \in Seq(Line) /\ Len(f.lines) \in Nat
  BY DEF File
<1>4. PICK ls : ls = Append(f.lines, o)
  OBVIOUS
<1>5. /\ ls \in Seq(Line) /\ Len(ls) = Len(f.lines) + 1 /\ ls[Len(f.lines) + 1] = o
      /\ \A i \in 1 .. Len(f.lines) : ls[i] = f.lines[i]
      /\ \A i \in 1 .. Len(ls) : i \in 1 .. Len(f.lines) \/ i = Len(f.lines) + 1
      /\ \A i \in 1 .. Len(f.lines) : i \in 1 .. Len(ls)
  BY <1>2, <1>3, <1>4
<1>6. 0 \in 0 .. Synced /\ 0 # Synced /\ f.open # Synced /\ 0 \notin 1 .. MaxLines
  BY BridgeAssumption DEF Synced
<1>7. g = [lines |-> ls, open |-> 0]
  BY <1>1, <1>4
<1>8. g \in File /\ g.lines = ls /\ g.open = 0
  BY <1>5, <1>6, <1>7 DEF File
<1>9. Whole(g) => Whole(f)
  BY <1>5, <1>6, <1>8 DEF Whole
<1>10. Written(f, g)
  <2>1. \A i \in 1 .. Len(ls) : i > Len(f.lines) => i = Len(f.lines) + 1
    BY <1>3, <1>5
  <2> QED
    BY <1>2, <1>3, <1>5, <1>8, <1>9, <2>1 DEF Written, Grown
<1>11. Booked(g, p, bn)
  <2>1. Authored(o, p, bn)
    BY <1>2 DEF Booked, Authored
  <2> QED
    BY <1>5, <1>6, <1>8, <2>1 DEF Booked
<1>12. ASSUME Once(f)
       PROVE  Once(g)
  <2>1. \A i \in 1 .. Len(f.lines) : f.lines[i] # o
    BY <1>1, <1>12 DEF Once
  <2>2. ASSUME NEW i \in 1 .. Len(ls), NEW j \in 1 .. Len(ls), i # j, ls[i] # Garbled
        PROVE  ls[i] # ls[j]
    <3>1. CASE i \in 1 .. Len(f.lines) /\ j \in 1 .. Len(f.lines)
      BY <1>5, <1>12, <2>2, <3>1 DEF Once
    <3>2. CASE i \in 1 .. Len(f.lines) /\ j = Len(f.lines) + 1
      BY <1>5, <2>1, <3>2
    <3>3. CASE i = Len(f.lines) + 1 /\ j \in 1 .. Len(f.lines)
      BY <1>5, <2>1, <3>3
    <3> QED
      BY <1>5, <2>2, <3>1, <3>2, <3>3
  <2>3. \A i, j \in 1 .. Len(g.lines) : i # j /\ g.lines[i] # Garbled => g.lines[i] # g.lines[j]
    BY <1>8, <2>2
  <2>4. g.open \notin 1 .. MaxLines
    BY <1>6, <1>8
  <2> QED
    BY <2>3, <2>4 DEF Once
<1> QED
  BY <1>8, <1>10, <1>11, <1>12

AllBooked(fs, bn) == \A x \in Path : Booked(fs[x], x, bn)

\* Neither direction of a sync writes a line whose author is unknown.
LEMMA CycleBooked ==
  ASSUME NEW rec \in BridgeRecord, rec.paired, rec.session \in Paired, NEW fs \in [Path -> File],
         NEW bn, AllBooked(fs, bn), NEW side \in Side, NEW c, c = Cycle(rec, fs, side)
  PROVE  AllBooked(c.files, bn)
<1>1. PICK p, q : p = PathOf(rec, side) /\ q = PathOf(rec, Other(side))
  OBVIOUS
<1>2. /\ p \in Path /\ q \in Path /\ p # q
      /\ c.files[q] = Add(fs[q], Rendered(fs[p], rec[side], side))
      /\ \A x \in Path : x # q => c.files[x] = fs[x]
  BY <1>1, CycleIs
<1>3. p = <<rec.session, side>> /\ q = <<rec.session, Other(side)>>
  BY <1>1 DEF PathOf
<1>4. fs[p] \in File /\ fs[q] \in File /\ rec[side] \in Nat
  BY <1>2, OffsetsAre
<1>5. PICK r : r = Rendered(fs[p], rec[side], side)
  OBVIOUS
<1>6. r \in Seq(Line)
  BY <1>4, <1>5, RenderedIs
<1>7. Booked(fs[p], p, bn) /\ Booked(fs[q], q, bn)
  BY <1>2 DEF AllBooked
<1>8. \A k \in 1 .. Len(r) : Authored(r[k], q, bn)
  BY <1>3, <1>4, <1>5, <1>7, RenderedBooked
<1>9. Booked(c.files[q], q, bn)
  BY <1>2, <1>4, <1>5, <1>6, <1>7, <1>8, AddBooked
<1> QED
  BY <1>2, <1>9 DEF AllBooked

\* Nor does a sync that fails half-way.
LEMMA BrokenBooked ==
  ASSUME NEW rec \in BridgeRecord, rec.paired, rec.session \in Paired, NEW fs \in [Path -> File],
         NEW bn, AllBooked(fs, bn), NEW side \in Side, BreaksOff(rec, fs, side)
  PROVE  /\ file' \in [Path -> File] /\ AllBooked(file', bn)
         /\ \A x \in Path : Grown(fs[x], file'[x])
<1>1. PICK p, q : p = PathOf(rec, side) /\ q = PathOf(rec, Other(side))
  OBVIOUS
<1>2. PICK r : r = Rendered(fs[p], rec[side], side)
  OBVIOUS
<1>3. PICK n \in 0 .. Len(r) - 1, half \in BOOLEAN : file' = Broken(rec, fs, side, n, half)
  BY <1>1, <1>2 DEF BreaksOff
<1>4. p \in Path /\ q \in Path /\ p = <<rec.session, side>> /\ q = <<rec.session, Other(side)>>
  BY <1>1, PathsAre DEF PathOf
<1>5. PICK gs : gs = file'
  OBVIOUS
<1>6. /\ gs \in [Path -> File]
      /\ \A x \in Path : x # q => gs[x] = fs[x]
      /\ BreaksAt(gs, fs, q, r, n)
      /\ \A x \in Path : Grown(fs[x], gs[x])
  BY <1>1, <1>2, <1>3, <1>5, BrokenIs
<1>7. PICK v \in Seq(Line), g \in File :
           /\ Len(v) = n /\ \A k \in 1 .. n : k \in 1 .. Len(r) /\ v[k] = r[k]
           /\ g = Add(fs[q], v)
           /\ \/ gs[q] = g
              \/ g.open = 0 /\ gs[q].lines = g.lines /\ gs[q].open = Synced
  BY <1>6 DEF BreaksAt
<1>8. fs[p] \in File /\ fs[q] \in File /\ rec[side] \in Nat /\ Booked(fs[p], p, bn) /\ Booked(fs[q], q, bn)
  BY <1>4, OffsetsAre DEF AllBooked
<1>9. \A k \in 1 .. Len(r) : Authored(r[k], q, bn)
  BY <1>2, <1>4, <1>8, RenderedBooked
<1>10. \A k \in 1 .. Len(v) : Authored(v[k], q, bn)
  BY <1>7, <1>9
<1>11. Booked(g, q, bn)
  BY <1>7, <1>8, <1>10, AddBooked
<1>12. Booked(gs[q], q, bn)
  <2>1. Synced \notin 1 .. MaxLines
    BY BridgeAssumption DEF Synced
  <2> QED
    BY <1>7, <1>11, <2>1 DEF Booked
<1> QED
  BY <1>5, <1>6, <1>8, <1>12 DEF AllBooked

-----------------------------------------------------------------------------
(* BridgeSync: the files after an action *)

BookOK ==
  /\ AllBooked(file, born) /\ Booked(copy.has, copy.path, born)
  /\ Written(copy.had, copy.has)

Grows ==
  /\ replaced \subseteq replaced'
  /\ \A x \in Path : x \notin replaced' => Grown(file[x], file'[x])

LEMMA NoCopyIs ==
  /\ NoCopy \in [path : Path \cup {<<>>}, had : File, has : File]
  /\ Written(NoCopy.had, NoCopy.has) /\ \A bn : Booked(NoCopy.has, NoCopy.path, bn)
  /\ NoFile \in File /\ Len(NoFile.lines) = 0 /\ NoFile.open = 0
  /\ NoCopy.had = NoFile /\ NoCopy.has = NoFile
<1>1. 0 \in 0 .. Synced /\ 0 \notin 1 .. MaxLines
  BY BridgeAssumption DEF Synced
<1>2. NoFile \in File /\ Len(NoFile.lines) = 0 /\ NoFile.open = 0
  BY <1>1 DEF NoFile, File
<1>3. NoCopy.had = NoFile /\ NoCopy.has = NoFile
  BY DEF NoCopy
<1>4. NoCopy \in [path : Path \cup {<<>>}, had : File, has : File]
  BY <1>2 DEF NoCopy
<1>5. Written(NoFile, NoFile)
  BY <1>2, GrownItself DEF Written
<1>6. \A x, bn : Booked(NoFile, x, bn)
  BY <1>1, <1>2 DEF Booked
<1> QED
  BY <1>2, <1>3, <1>4, <1>5, <1>6

\* Nothing is written.
LEMMA FilesStay ==
  ASSUME FilesOK, BookOK, UNCHANGED <<file, copy, born, replaced, caps>>, blurred' \in BOOLEAN,
         work'[Handler].at = "run" => copy.path = <<work'[Handler].rec.session, "desktop">>
  PROVE  FilesOK' /\ BookOK' /\ Grows
<1>1. FilesOK'
  BY DEF FilesOK
<1>2. BookOK'
  BY DEF BookOK, AllBooked
<1>3. Grows
  BY GrownItself DEF Grows, FilesOK
<1> QED
  BY <1>1, <1>2, <1>3

\* A file gets a line of its agent.
LEMMA FilesWritten ==
  ASSUME FilesOK, BookOK, NEW p \in Path, NEW g \in File, file' = [file EXCEPT ![p] = g],
         Grown(file[p], g), born' = born \/ born' = Append(born, p), Booked(g, p, born'),
         born' \in Seq(Path), Len(born') <= caps.lines, UNCHANGED <<copy, work, caps, replaced, blurred>>
  PROVE  FilesOK' /\ BookOK' /\ Grows
<1>1. file \in [Path -> File] /\ born \in Seq(Path) /\ copy.has \in File
  BY DEF FilesOK
<1>2. file' \in [Path -> File] /\ file'[p] = g /\ \A x \in Path : x # p => file'[x] = file[x]
  BY <1>1
<1>3. FilesOK'
  BY <1>2 DEF FilesOK
<1>4. \A f \in File : \A x : Booked(f, x, born) => Booked(f, x, born')
  BY <1>1, BookGrows
<1>5. AllBooked(file', born')
  <2> SUFFICES ASSUME NEW x \in Path
               PROVE  Booked(file'[x], x, born')
    BY DEF AllBooked
  <2>1. CASE x = p
    BY <1>2, <2>1
  <2>2. CASE x # p
    BY <1>1, <1>2, <1>4, <2>2 DEF BookOK, AllBooked
  <2> QED
    BY <2>1, <2>2
<1>6. Booked(copy.has, copy.path, born')
  BY <1>1, <1>4 DEF BookOK
<1>7. BookOK'
  BY <1>5, <1>6 DEF BookOK
<1>8. Grows
  <2>1. \A x \in Path : Grown(file[x], file'[x])
    BY <1>1, <1>2, GrownItself
  <2> QED
    BY <2>1 DEF Grows
<1> QED
  BY <1>3, <1>7, <1>8

\* The files grow at every action, but for a transcript that is put back: the lemmas
\* down to RestartFiles, action by action.
LEMMA WritesFiles ==
  ASSUME FilesOK, BookOK, NEW p \in Writers, AgentWrites(p) \/ AgentFinishes(p)
  PROVE  FilesOK' /\ BookOK' /\ Grows
<1>1. /\ file \in [Path -> File] /\ born \in Seq(Path) /\ p \in Path /\ file[p] \in File
      /\ Len(born) \in Nat /\ caps.lines \in 0 .. MaxLines /\ MaxLines \in Nat
      /\ Booked(file[p], p, born) /\ Len(born) <= caps.lines
  BY BridgeAssumption DEF FilesOK, BookOK, AllBooked
<1>2. CASE AgentWrites(p)
  <2>1. PICK n : n = NextLine
    OBVIOUS
  <2>2. n = Len(born) + 1 /\ n \in 1 .. MaxLines /\ n <= caps.lines
    BY <1>1, <1>2, <2>1 DEF AgentWrites, NextLine
  <2>3. PICK g : /\ file' = [file EXCEPT ![p] = g]
                 /\ \/ g = Add(file[p], <<Own(n)>>)
                    \/ file[p].open = 0 /\ g = [file[p] EXCEPT !.open = n]
    <3>1. \/ file' = [file EXCEPT ![p] = Add(file[p], <<Own(n)>>)]
          \/ file[p].open = 0 /\ file' = [file EXCEPT ![p] = [file[p] EXCEPT !.open = n]]
      BY <1>2, <2>1 DEF AgentWrites
    <3> QED
      BY <3>1
  <2>4. PICK b2 : b2 = Append(born, p)
    OBVIOUS
  <2>5. g \in File /\ Written(file[p], g) /\ Booked(g, p, b2)
    BY <1>1, <2>2, <2>3, <2>4, OwnAdded
  <2>6. born' = b2 /\ b2 \in Seq(Path) /\ Len(b2) = n
    BY <1>1, <1>2, <2>2, <2>4 DEF AgentWrites
  <2>7. UNCHANGED <<copy, work, caps, replaced, blurred>>
    BY <1>2 DEF AgentWrites, counts
  <2> QED
    BY <1>1, <2>2, <2>3, <2>4, <2>5, <2>6, <2>7, FilesWritten DEF Written
<1>3. CASE AgentFinishes(p)
  <2>1. PICK g : g = [lines |-> Append(file[p].lines, Own(file[p].open)), open |-> 0]
    OBVIOUS
  <2>2. file[p].open \in 1 .. MaxLines /\ file' = [file EXCEPT ![p] = g]
    BY <1>3, <2>1 DEF AgentFinishes
  <2>3. g \in File /\ Written(file[p], g) /\ Booked(g, p, born)
    BY <1>1, <2>1, <2>2, OwnEnded
  <2>4. born' = born /\ UNCHANGED <<copy, work, caps, replaced, blurred>>
    BY <1>3 DEF AgentFinishes, counts
  <2> QED
    BY <1>1, <2>2, <2>3, <2>4, FilesWritten DEF Written
<1> QED
  BY <1>2, <1>3

LEMMA CycleGrows ==
  ASSUME NEW rec \in BridgeRecord, rec.paired, rec.session \in Paired, NEW fs \in [Path -> File],
         NEW side \in Side, NEW c, c = Cycle(rec, fs, side)
  PROVE  \A x \in Path : Grown(fs[x], c.files[x])
<1>1. PICK p, q : p = PathOf(rec, side) /\ q = PathOf(rec, Other(side))
  OBVIOUS
<1>2. /\ p \in Path /\ q \in Path
      /\ c.files[q] = Add(fs[q], Rendered(fs[p], rec[side], side))
      /\ \A x \in Path : x # q => c.files[x] = fs[x]
  BY <1>1, CycleIs
<1>3. rec[side] \in Nat /\ fs[p] \in File /\ fs[q] \in File
  BY <1>2, OffsetsAre
<1>4. PICK ls : ls = Rendered(fs[p], rec[side], side)
  OBVIOUS
<1>5. ls \in Seq(Line)
  BY <1>3, <1>4, RenderedIs
<1>6. Grown(fs[q], c.files[q])
  BY <1>2, <1>3, <1>4, <1>5, AddGrows
<1> QED
  BY <1>2, <1>6, GrownItself

\* A task that does not run keeps the copy.
LEMMA CopyStays ==
  ASSUME FilesOK, NEW t \in Task, NEW w, Gets(t, w), w.at # "run"
  PROVE  work'[Handler].at = "run" => copy.path = <<work'[Handler].rec.session, "desktop">>
<1>1. Handler \in Task
  BY DEF Task
<1> QED
  BY <1>1 DEF Gets, FilesOK

LEMMA FilesSynced ==
  ASSUME FilesOK, BookOK, UNCHANGED <<copy, born, replaced, caps>>, blurred' \in BOOLEAN,
         work'[Handler].at = "run" => copy.path = <<work'[Handler].rec.session, "desktop">>,
         file' \in [Path -> File], AllBooked(file', born), \A x \in Path : Grown(file[x], file'[x])
  PROVE  FilesOK' /\ BookOK' /\ Grows
<1>1. FilesOK'
  BY DEF FilesOK
<1>2. BookOK'
  <2>1. AllBooked(file', born')
    OBVIOUS
  <2> QED
    BY <2>1 DEF BookOK
<1> QED
  BY <1>1, <1>2 DEF Grows

LEMMA SyncFiles ==
  ASSUME WorkOK, FilesOK, BookOK, NEW t \in Task, Sync(t)
  PROVE  FilesOK' /\ BookOK' /\ Grows
<1>0. file \in [Path -> File]
  BY DEF FilesOK
<1>1. PICK there, back, w :
           /\ there = Cycle(work[t].rec, file, "desktop")
           /\ back = Cycle(there.rec, there.files, "mobile")
           /\ file' = back.files
           /\ Gets(t, w) /\ Same(w, work[t]) /\ w.at = "set" /\ w.ok = work[t].ok
           /\ w.rec = back.rec
           /\ back.rec \in BridgeRecord /\ back.rec.session = work[t].rec.session /\ back.rec.paired
           /\ back.files \in [Path -> File]
           /\ work[t].at = "sync" /\ work[t].rec.paired /\ work[t].agent \in FileAgent
  BY <1>0, SyncGets
<1>2. PICK rec : rec = work[t].rec
  OBVIOUS
<1>3. rec \in BridgeRecord /\ rec.paired /\ rec.session \in Paired
  <2>1. Tasking(t, work[t])
    BY DEF WorkOK
  <2> QED
    BY <1>1, <1>2, <2>1 DEF Tasking, Fit
<1>4. "desktop" \in Side /\ "mobile" \in Side
  BY DEF Side
<1>5. AllBooked(file, born)
  BY DEF BookOK
<1>6. /\ there.rec \in BridgeRecord /\ there.rec.paired /\ there.rec.session \in Paired
      /\ there.files \in [Path -> File]
  BY <1>0, <1>1, <1>2, <1>3, <1>4, CycleIs
<1>7. AllBooked(there.files, born) /\ \A x \in Path : Grown(file[x], there.files[x])
  BY <1>0, <1>1, <1>2, <1>3, <1>4, <1>5, CycleBooked, CycleGrows
<1>8. AllBooked(back.files, born) /\ \A x \in Path : Grown(there.files[x], back.files[x])
  BY <1>1, <1>4, <1>6, <1>7, CycleBooked, CycleGrows
<1>9. \A x \in Path : Grown(file[x], back.files[x])
  <2> TAKE x \in Path
  <2>1. file[x] \in File /\ there.files[x] \in File /\ back.files[x] \in File
    BY <1>0, <1>1, <1>6
  <2> QED
    BY <1>7, <1>8, <2>1, GrownAgain
<1>10. UNCHANGED <<copy, born, replaced, caps>> /\ blurred' \in BOOLEAN
  BY DEF Sync, counts, FilesOK
<1>11. work'[Handler].at = "run" => copy.path = <<work'[Handler].rec.session, "desktop">>
  BY <1>1, CopyStays
<1> QED
  BY <1>1, <1>8, <1>9, <1>10, <1>11, FilesSynced

LEMMA SyncFailsFiles ==
  ASSUME WorkOK, FilesOK, BookOK, NEW t \in Task, SyncFails(t)
  PROVE  FilesOK' /\ BookOK' /\ Grows
<1>0. file \in [Path -> File]
  BY DEF FilesOK
<1>1. PICK there, w :
           /\ there = Cycle(work[t].rec, file, "desktop")
           /\ Gets(t, w) /\ Same(w, work[t]) /\ w.at = "set" /\ w.ok = FALSE
           /\ work[t].at = "sync" /\ work[t].agent \in FileAgent
           /\ FailsWith(t, there, w.rec)
  BY <1>0, SyncFailsGets
<1>2. PICK rec : rec = work[t].rec
  OBVIOUS
<1>3. Fit(work[t].agent, rec)
  BY <1>1, <1>2 DEF WorkOK, Tasking
<1>4. "desktop" \in Side /\ "mobile" \in Side
  BY DEF Side
<1>5. AllBooked(file, born)
  BY DEF BookOK
<1>6. UNCHANGED <<copy, born, replaced, caps>>
  BY DEF SyncFails
<1>7. work'[Handler].at = "run" => copy.path = <<work'[Handler].rec.session, "desktop">>
  BY <1>1, CopyStays
<1>8. CASE file' = file /\ blurred' = blurred
  <2>1. blurred' \in BOOLEAN
    BY <1>8 DEF FilesOK
  <2> QED
    BY <1>6, <1>7, <1>8, <2>1, FilesStay
<1>9. CASE rec.paired /\ blurred' = TRUE /\ BreaksOff(rec, file, "desktop")
  <2>1. rec \in BridgeRecord /\ rec.session \in Paired
    BY <1>3, <1>9 DEF Fit
  <2>2. /\ file' \in [Path -> File] /\ AllBooked(file', born)
        /\ \A x \in Path : Grown(file[x], file'[x])
    BY <1>0, <1>4, <1>5, <1>9, <2>1, BrokenBooked
  <2> QED
    BY <1>6, <1>7, <1>9, <2>2, FilesSynced
<1>10. CASE rec.paired /\ blurred' = TRUE /\ BreaksOff(there.rec, there.files, "mobile")
  <2>1. rec \in BridgeRecord /\ rec.session \in Paired
    BY <1>3, <1>10 DEF Fit
  <2>2. /\ there.rec \in BridgeRecord /\ there.rec.paired /\ there.rec.session \in Paired
        /\ there.files \in [Path -> File]
    BY <1>0, <1>1, <1>2, <1>4, <1>10, <2>1, CycleIs
  <2>3. AllBooked(there.files, born) /\ \A x \in Path : Grown(file[x], there.files[x])
    BY <1>0, <1>1, <1>2, <1>4, <1>5, <1>10, <2>1, CycleBooked, CycleGrows
  <2>4. /\ file' \in [Path -> File] /\ AllBooked(file', born)
        /\ \A x \in Path : Grown(there.files[x], file'[x])
    BY <1>4, <1>10, <2>2, <2>3, BrokenBooked
  <2>5. \A x \in Path : Grown(file[x], file'[x])
    <3> TAKE x \in Path
    <3>1. file[x] \in File /\ there.files[x] \in File /\ file'[x] \in File
      BY <1>0, <2>2, <2>4
    <3> QED
      BY <2>3, <2>4, <3>1, GrownAgain
  <2> QED
    BY <1>6, <1>7, <1>10, <2>4, <2>5, FilesSynced
<1> QED
  BY <1>1, <1>2, <1>8, <1>9, <1>10 DEF FailsWith

LEMMA MaterializeFiles ==
  ASSUME WorkOK, FilesOK, BookOK, Materialize
  PROVE  FilesOK' /\ BookOK' /\ Grows
<1>1. PICK w : /\ Gets(Handler, w) /\ w.at = "run" /\ w.agent = work[Handler].agent
               /\ w.rec = work[Handler].rec /\ w.left = work[Handler].left
               /\ work[Handler].at = "turn" /\ w.rec.session \in SessionId
  BY MaterializeGets
<1>2. PICK p : p = <<w.rec.session, "desktop">>
  OBVIOUS
<1>3. p \in Path
  BY <1>1, <1>2 DEF Path
<1>4. file[p] \in File /\ file \in [Path -> File] /\ Booked(file[p], p, born)
  BY <1>3 DEF FilesOK, BookOK, AllBooked
<1>5. copy' = [path |-> p, had |-> file[p], has |-> file[p]]
  BY <1>1, <1>2 DEF Materialize
<1>6. UNCHANGED <<file, born, caps, replaced, blurred>> /\ work'[Handler] = w
  BY <1>1 DEF Materialize, counts, Gets
<1>7. /\ copy' \in [path : Path \cup {<<>>}, had : File, has : File]
      /\ copy'.path = p /\ copy'.had = file[p] /\ copy'.has = file[p]
  BY <1>3, <1>4, <1>5
<1>8. FilesOK'
  BY <1>2, <1>6, <1>7 DEF FilesOK
<1>9. Written(file[p], file[p])
  BY <1>4, GrownItself DEF Written, File
<1>10. BookOK'
  BY <1>4, <1>6, <1>7, <1>9 DEF BookOK, AllBooked
<1>11. Grows
  BY <1>4, <1>6, GrownItself DEF Grows
<1> QED
  BY <1>8, <1>10, <1>11

LEMMA WrittenAgain ==
  ASSUME NEW f \in File, NEW g \in File, NEW h \in File, Written(f, g), Written(g, h)
  PROVE  Written(f, h)
<1>1. Grown(f, h)
  BY GrownAgain DEF Written
<1>2. Len(f.lines) \in Nat /\ Len(g.lines) \in Nat /\ Len(h.lines) \in Nat
  BY DEF File
<1>3. ASSUME NEW i \in 1 .. Len(h.lines), i > Len(f.lines)
      PROVE  h.lines[i].from = "none"
  <2>1. CASE i > Len(g.lines)
    BY <1>3, <2>1 DEF Written
  <2>2. CASE i <= Len(g.lines)
    <3>1. i \in 1 .. Len(g.lines)
      BY <1>2, <2>2
    <3> QED
      BY <1>3, <3>1 DEF Written, Grown
  <2> QED
    BY <1>2, <2>1, <2>2
<1> QED
  BY <1>1, <1>3 DEF Written

LEMMA RunWritesFiles ==
  ASSUME WorkOK, FilesOK, BookOK, RunWrites
  PROVE  FilesOK' /\ BookOK' /\ Grows
<1>1. PICK p : p = copy.path
  OBVIOUS
<1>2. p \in Path
  <2>1. work[Handler].at = "run" /\ Handler \in Task
    BY DEF RunWrites, Task
  <2>2. work[Handler].rec.session \in SessionId
    BY <2>1 DEF WorkOK, Tasking
  <2> QED
    BY <1>1, <2>1, <2>2 DEF FilesOK, Path
<1>3. /\ file \in [Path -> File] /\ born \in Seq(Path) /\ copy.has \in File /\ copy.had \in File
      /\ copy \in [path : Path \cup {<<>>}, had : File, has : File]
      /\ Len(born) \in Nat /\ caps.lines \in 0 .. MaxLines /\ MaxLines \in Nat
      /\ Booked(copy.has, p, born) /\ Len(born) < caps.lines
  BY <1>1, BridgeAssumption DEF FilesOK, BookOK, RunWrites
<1>4. PICK n : n = NextLine
  OBVIOUS
<1>5. n = Len(born) + 1 /\ n \in 1 .. MaxLines /\ n <= caps.lines
  BY <1>3, <1>4 DEF NextLine
<1>6. PICK g : g = Add(copy.has, <<Own(n)>>)
  OBVIOUS
<1>7. PICK b2 : b2 = Append(born, p)
  OBVIOUS
<1>8. g \in File /\ Written(copy.has, g) /\ Booked(g, p, b2)
  BY <1>2, <1>3, <1>5, <1>6, <1>7, OwnAdded
<1>9. born' = b2 /\ b2 \in Seq(Path) /\ Len(b2) = n
  BY <1>1, <1>2, <1>3, <1>5, <1>7 DEF RunWrites
<1>10. copy' = [copy EXCEPT !.has = g]
  BY <1>4, <1>6 DEF RunWrites
<1>11. /\ copy' \in [path : Path \cup {<<>>}, had : File, has : File]
       /\ copy'.path = p /\ copy'.had = copy.had /\ copy'.has = g
  BY <1>1, <1>3, <1>8, <1>10
<1>12. UNCHANGED <<file, work, caps, replaced, blurred>>
  BY DEF RunWrites, counts
<1>13. FilesOK'
  BY <1>1, <1>5, <1>9, <1>11, <1>12 DEF FilesOK
<1>14. Written(copy.had, g)
  BY <1>3, <1>8, WrittenAgain DEF BookOK
<1>15. AllBooked(file, b2)
  BY <1>2, <1>3, <1>7, BookGrows DEF BookOK, AllBooked
<1>16. BookOK'
  <2>1. AllBooked(file', born')
    BY <1>9, <1>12, <1>15
  <2>2. Booked(copy'.has, copy'.path, born')
    BY <1>8, <1>9, <1>11
  <2>3. Written(copy'.had, copy'.has)
    BY <1>11, <1>14
  <2> QED
    BY <2>1, <2>2, <2>3 DEF BookOK
<1>17. Grows
  BY <1>3, <1>12, GrownItself DEF Grows
<1> QED
  BY <1>13, <1>16, <1>17

LEMMA PutBackFiles ==
  ASSUME WorkOK, FilesOK, BookOK, PutBack
  PROVE  FilesOK' /\ BookOK' /\ Grows
<1>1. PICK p : p = copy.path
  OBVIOUS
<1>2. p \in Path /\ work[Handler].at = "run" /\ Handler \in Task
  <2>1. work[Handler].at = "run" /\ Handler \in Task
    BY DEF PutBack, Task
  <2>2. work[Handler].rec.session \in SessionId
    BY <2>1 DEF WorkOK, Tasking
  <2> QED
    BY <1>1, <2>1, <2>2 DEF FilesOK, Path
<1>3. file \in [Path -> File] /\ copy.has \in File /\ copy.had \in File
  BY DEF FilesOK
<1>4. file' = [file EXCEPT ![p] = copy.has] /\ copy' = NoCopy /\ UNCHANGED <<born, caps, blurred>>
      /\ replaced' = IF file[p] = copy.had THEN replaced ELSE replaced \cup {p}
  BY <1>1 DEF PutBack, counts
<1>5. file' \in [Path -> File] /\ file'[p] = copy.has /\ \A x \in Path : x # p => file'[x] = file[x]
  BY <1>2, <1>3, <1>4
<1>6. work'[Handler].at # "run"
  <2>1. \/ Gets(Handler, Idle)
        \/ \E w : /\ Gets(Handler, w) /\ w.at = "sync" /\ w.agent = work[Handler].agent
                  /\ w.rec = work[Handler].rec /\ w.left = work[Handler].left
    BY <1>2, TurnGets DEF PutBack
  <2> QED
    BY <2>1, IdleIs DEF Gets
<1>7. FilesOK'
  <2>1. replaced' \subseteq Path
    BY <1>2, <1>4 DEF FilesOK
  <2>2. copy' \in [path : Path \cup {<<>>}, had : File, has : File]
    BY <1>4, NoCopyIs
  <2> QED
    BY <1>4, <1>5, <1>6, <2>1, <2>2 DEF FilesOK
<1>8. BookOK'
  <2>1. AllBooked(file', born')
    BY <1>1, <1>4, <1>5 DEF BookOK, AllBooked
  <2> QED
    BY <1>4, <2>1, NoCopyIs DEF BookOK
<1>9. Grows
  <2>1. replaced \subseteq replaced'
    BY <1>4
  <2>2. ASSUME NEW x \in Path, x \notin replaced'
        PROVE  Grown(file[x], file'[x])
    <3>1. CASE x = p
      <4>1. file[p] = copy.had
        BY <1>4, <2>2, <3>1
      <4> QED
        BY <1>5, <3>1, <4>1 DEF BookOK, Written
    <3>2. CASE x # p
      BY <1>3, <1>5, <3>2, GrownItself
    <3> QED
      BY <3>1, <3>2
  <2> QED
    BY <2>1, <2>2 DEF Grows
<1> QED
  BY <1>7, <1>8, <1>9

LEMMA RestartFiles ==
  ASSUME FilesOK, BookOK, Restart
  PROVE  WorkOK' /\ FilesOK' /\ BookOK' /\ Grows
<1>1. work' = [t \in Task |-> Idle] /\ copy' = NoCopy /\ UNCHANGED <<file, born, caps, replaced>>
      /\ blurred' \in BOOLEAN
  BY DEF Restart, FilesOK
<1>2. work' \in [Task -> Working] /\ \A t \in Task : work'[t] = Idle
  BY <1>1, IdleIs
<1>3. WorkOK'
  BY <1>2, IdleIs DEF WorkOK
<1>4. work'[Handler].at # "run"
  BY <1>2, IdleIs DEF Task
<1>5. FilesOK'
  BY <1>1, <1>4, NoCopyIs DEF FilesOK
<1>6. BookOK'
  BY <1>1, NoCopyIs DEF BookOK, AllBooked
<1>7. Grows
  BY <1>1, GrownItself DEF Grows, FilesOK
<1> QED
  BY <1>3, <1>5, <1>6, <1>7

-----------------------------------------------------------------------------
(* BridgeSync: types and growing files, as an invariant *)

RecordsStay == UNCHANGED <<bridge, saved, chosen>>

LEMMA RecordsKept ==
  ASSUME RecordsOK, RecordsStay
  PROVE  RecordsOK'
BY DEF RecordsOK, RecordsStay

\* A task moves and no file changes.
LEMMA TaskSteps ==
  ASSUME BridgeTypes, BookOK, NEW t \in Task, NEW w, Gets(t, w), w.at # "run",
         UNCHANGED <<file, copy, born, replaced, caps>>, blurred' \in BOOLEAN
  PROVE  WorkOK' /\ FilesOK' /\ BookOK' /\ Grows
<1>1. WorkOK /\ FilesOK
  BY DEF BridgeTypes
<1>2. WorkOK'
  BY <1>1, GetsKeeps
<1>3. work'[Handler].at = "run" => copy.path = <<work'[Handler].rec.session, "desktop">>
  BY <1>1, CopyStays
<1> QED
  BY <1>1, <1>2, <1>3, FilesStay

LEMMA SetRecordTypes ==
  ASSUME BridgeTypes, BookOK, NEW t \in Task, SetRecord(t)
  PROVE  BridgeTypes' /\ BookOK' /\ Grows
<1>1. WorkOK /\ RecordsOK /\ FilesOK
  BY DEF BridgeTypes
<1>2. PICK w : Gets(t, w) /\ w.at \in {"idle", "next", "turn"}
  BY <1>1, SetGets, IdleIs
<1>3. UNCHANGED <<file, copy, born, replaced, caps>>
  BY DEF SetRecord, files
<1>4. blurred' \in BOOLEAN
  BY <1>1 DEF SetRecord, FilesOK
<1>5. WorkOK' /\ FilesOK' /\ BookOK' /\ Grows
  BY <1>2, <1>3, <1>4, TaskSteps
<1>6. PICK a : a = work[t].agent
  OBVIOUS
<1>7. PICK r : r = work[t].rec
  OBVIOUS
<1>8. a \in Bridged /\ Fit(a, r)
  <2>1. work[t].at = "set" /\ Tasking(t, work[t])
    BY <1>1 DEF SetRecord, WorkOK
  <2> QED
    BY <1>6, <1>7, <2>1 DEF Tasking
<1>9. r \in BridgeRecord /\ r.session \in SessionId \cup {NoSession}
  BY <1>8 DEF Fit, BridgeRecord
<1>10. bridge' = [bridge EXCEPT ![a] = r]
  BY <1>6, <1>7 DEF SetRecord
<1>11. bridge' \in [Bridged -> BridgeRecord] /\ \A b \in Bridged : Fit(b, bridge'[b])
  BY <1>1, <1>8, <1>9, <1>10 DEF RecordsOK
<1>12. saved' = bridge' \/ saved' = saved
  BY DEF SetRecord
<1>13. saved' \in [Bridged -> BridgeRecord] /\ \A b \in Bridged : Fit(b, saved'[b])
  BY <1>1, <1>11, <1>12 DEF RecordsOK
<1>14. chosen' \in [Bridged -> SessionId \cup {NoSession}]
  <2>1. chosen' = chosen \/ chosen' = [chosen EXCEPT ![a] = r.session]
    BY <1>6, <1>7 DEF SetRecord
  <2> QED
    BY <1>1, <1>9, <2>1 DEF RecordsOK
<1>15. RecordsOK'
  BY <1>11, <1>13, <1>14 DEF RecordsOK
<1> QED
  BY <1>5, <1>15 DEF BridgeTypes

\* The length of a session's file on the desktop, or 0.
LEMMA FileEndIs ==
  ASSUME FilesOK, NEW a \in Bridged, NEW s \in SessionId
  PROVE  FileEnd(a, s) \in Nat
<1>1. <<s, "desktop">> \in Path
  BY DEF Path
<1>2. file[<<s, "desktop">>].lines \in Seq(Line)
  BY <1>1 DEF FilesOK, File
<1> QED
  BY <1>2 DEF FileEnd

LEMMA SelectTypes ==
  ASSUME BridgeTypes, BookOK, NEW a \in Bridged, NEW s \in SessionId, Select(a, s)
  PROVE  BridgeTypes' /\ BookOK' /\ Grows
<1>1. WorkOK /\ RecordsOK /\ FilesOK
  BY DEF BridgeTypes
<1>2. UNCHANGED <<file, copy, born, replaced, caps, work, blurred>>
  BY DEF Select, files
<1>3. WorkOK'
  BY <1>1, <1>2 DEF WorkOK
<1>4. FilesOK' /\ BookOK' /\ Grows
  <2>1. work'[Handler].at = "run" => copy.path = <<work'[Handler].rec.session, "desktop">>
    BY <1>1, <1>2 DEF FilesOK
  <2>2. blurred' \in BOOLEAN
    BY <1>1, <1>2 DEF FilesOK
  <2> QED
    BY <1>1, <1>2, <2>1, <2>2, FilesStay
<1>5. PICK n : n = FileEnd(a, s)
  OBVIOUS
<1>6. PICK r : r = NewRecord(s, FALSE, n)
  OBVIOUS
<1>7. n \in Nat
  BY <1>1, <1>5, FileEndIs
<1>8. r \in BridgeRecord /\ r.session = s /\ r.paired = FALSE
  <2>1. PICK b : b = FALSE
    OBVIOUS
  <2>2. b \in BOOLEAN /\ s \in SessionId \cup {NoSession} /\ r = NewRecord(s, b, n)
    BY <1>6, <2>1
  <2> QED
    BY <1>7, <2>1, <2>2, NewIs
<1>9. Fit(a, r)
  BY <1>8 DEF Fit
<1>10. bridge' = [bridge EXCEPT ![a] = r]
  BY <1>5, <1>6 DEF Select
<1>11. bridge' \in [Bridged -> BridgeRecord] /\ \A b \in Bridged : Fit(b, bridge'[b])
  BY <1>1, <1>8, <1>9, <1>10 DEF RecordsOK
<1>12. saved' = bridge' \/ saved' = saved
  BY DEF Select
<1>13. saved' \in [Bridged -> BridgeRecord] /\ \A b \in Bridged : Fit(b, saved'[b])
  BY <1>1, <1>11, <1>12 DEF RecordsOK
<1>14. chosen' \in [Bridged -> SessionId \cup {NoSession}]
  <2>1. chosen' = chosen \/ chosen' = [chosen EXCEPT ![a] = s]
    BY DEF Select
  <2> QED
    BY <1>1, <2>1 DEF RecordsOK
<1>15. RecordsOK'
  BY <1>11, <1>13, <1>14 DEF RecordsOK
<1> QED
  BY <1>3, <1>4, <1>15 DEF BridgeTypes

LEMMA AnsweredTypes ==
  ASSUME BridgeTypes, BookOK, Answered \/ TurnInPlace \/ PutBack
  PROVE  BridgeTypes' /\ BookOK' /\ Grows
<1>1. WorkOK /\ RecordsOK /\ FilesOK
  BY DEF BridgeTypes
<1>2. RecordsOK'
  <2>1. RecordsStay
    BY DEF Answered, TurnInPlace, PutBack, records, RecordsStay
  <2> QED
    BY <1>1, <2>1, RecordsKept
<1>3. Handler \in Task
  BY DEF Task
<1>4. CASE Answered
  <2>1. PICK w : Gets(Handler, w) /\ w.at \in {"idle", "set"}
    BY <1>1, <1>4, AnsweredGets, IdleIs
  <2>2. UNCHANGED <<file, copy, born, replaced, caps>> /\ blurred' \in BOOLEAN
    BY <1>1, <1>4 DEF Answered, files, counts, FilesOK
  <2> QED
    BY <1>2, <1>3, <2>1, <2>2, TaskSteps DEF BridgeTypes
<1>5. CASE TurnInPlace
  <2>1. TurnEnds(work) /\ work[Handler].at \in {"turn", "run"}
    BY <1>5 DEF TurnInPlace
  <2>2. PICK w : Gets(Handler, w) /\ w.at \in {"idle", "sync"}
    BY <1>1, <2>1, TurnGets, IdleIs
  <2>3. UNCHANGED <<file, copy, born, replaced, caps>> /\ blurred' \in BOOLEAN
    BY <1>1, <1>5 DEF TurnInPlace, files, counts, FilesOK
  <2> QED
    BY <1>2, <1>3, <2>2, <2>3, TaskSteps DEF BridgeTypes
<1>6. CASE PutBack
  <2>1. TurnEnds(work) /\ work[Handler].at \in {"turn", "run"}
    BY <1>6 DEF PutBack
  <2>2. PICK w : Gets(Handler, w)
    BY <1>1, <2>1, TurnGets
  <2>3. WorkOK'
    BY <1>1, <1>3, <2>2, GetsKeeps
  <2>4. FilesOK' /\ BookOK' /\ Grows
    BY <1>1, <1>6, PutBackFiles
  <2> QED
    BY <1>2, <2>3, <2>4 DEF BridgeTypes
<1> QED
  BY <1>4, <1>5, <1>6

LEMMA RunTypes ==
  ASSUME BridgeTypes, BookOK, Materialize \/ RunWrites
  PROVE  BridgeTypes' /\ BookOK' /\ Grows
<1>1. WorkOK /\ RecordsOK /\ FilesOK
  BY DEF BridgeTypes
<1>2. RecordsOK'
  <2>1. RecordsStay
    BY DEF Materialize, RunWrites, records, RecordsStay
  <2> QED
    BY <1>1, <2>1, RecordsKept
<1>3. Handler \in Task
  BY DEF Task
<1>4. CASE Materialize
  <2>1. PICK w : Gets(Handler, w)
    BY <1>1, <1>4, MaterializeGets
  <2>2. WorkOK'
    BY <1>1, <1>3, <2>1, GetsKeeps
  <2>3. FilesOK' /\ BookOK' /\ Grows
    BY <1>1, <1>4, MaterializeFiles
  <2> QED
    BY <1>2, <2>2, <2>3 DEF BridgeTypes
<1>5. CASE RunWrites
  <2>1. WorkOK'
    BY <1>1, <1>5 DEF RunWrites, WorkOK
  <2>2. FilesOK' /\ BookOK' /\ Grows
    BY <1>1, <1>5, RunWritesFiles
  <2> QED
    BY <1>2, <2>1, <2>2 DEF BridgeTypes
<1> QED
  BY <1>4, <1>5

LEMMA SyncTypes ==
  ASSUME BridgeTypes, BookOK, NEW t \in Task, Stamp(t) \/ Sync(t) \/ SyncFails(t) \/ LeaveRecord(t)
  PROVE  BridgeTypes' /\ BookOK' /\ Grows
<1>1. WorkOK /\ RecordsOK /\ FilesOK
  BY DEF BridgeTypes
<1>2. file \in [Path -> File]
  BY <1>1 DEF FilesOK
<1>3. RecordsOK'
  <2>1. RecordsStay
    BY DEF Stamp, Sync, SyncFails, LeaveRecord, records, RecordsStay
  <2> QED
    BY <1>1, <2>1, RecordsKept
<1>4. CASE Stamp(t)
  <2>1. PICK w : Gets(t, w) /\ w.at = "set"
    BY <1>1, <1>4, StampGets
  <2>2. UNCHANGED <<file, copy, born, replaced, caps>> /\ blurred' \in BOOLEAN
    BY <1>1, <1>4 DEF Stamp, files, counts, FilesOK
  <2> QED
    BY <1>3, <2>1, <2>2, TaskSteps DEF BridgeTypes
<1>5. CASE LeaveRecord(t)
  <2>1. Gets(t, Idle) /\ Idle.at = "idle"
    BY <1>1, <1>5, LeaveGets, IdleIs
  <2>2. UNCHANGED <<file, copy, born, replaced, caps>> /\ blurred' \in BOOLEAN
    BY <1>1, <1>5 DEF LeaveRecord, files, counts, FilesOK
  <2> QED
    BY <1>3, <2>1, <2>2, TaskSteps DEF BridgeTypes
<1>6. CASE Sync(t)
  <2>1. PICK w : Gets(t, w)
    BY <1>1, <1>2, <1>6, SyncGets
  <2>2. WorkOK'
    BY <1>1, <2>1, GetsKeeps
  <2>3. FilesOK' /\ BookOK' /\ Grows
    BY <1>1, <1>6, SyncFiles
  <2> QED
    BY <1>3, <2>2, <2>3 DEF BridgeTypes
<1>7. CASE SyncFails(t)
  <2>1. PICK w : Gets(t, w)
    BY <1>1, <1>2, <1>7, SyncFailsGets
  <2>2. WorkOK'
    BY <1>1, <2>1, GetsKeeps
  <2>3. FilesOK' /\ BookOK' /\ Grows
    BY <1>1, <1>7, SyncFailsFiles
  <2> QED
    BY <1>3, <2>2, <2>3 DEF BridgeTypes
<1> QED
  BY <1>4, <1>5, <1>6, <1>7

LEMMA PollTypes ==
  ASSUME BridgeTypes, BookOK, Tick \/ NextRecord
  PROVE  BridgeTypes' /\ BookOK' /\ Grows
<1>1. WorkOK /\ RecordsOK /\ FilesOK
  BY DEF BridgeTypes
<1>2. PICK w : Gets(Poller, w) /\ w.at \in {"idle", "next", "sync"}
  BY <1>1, TickGets, NextGets, IdleIs
<1>3. RecordsOK'
  <2>1. RecordsStay
    BY DEF Tick, NextRecord, records, RecordsStay
  <2> QED
    BY <1>1, <2>1, RecordsKept
<1>4. UNCHANGED <<file, copy, born, replaced, caps>> /\ blurred' \in BOOLEAN
  BY <1>1 DEF Tick, NextRecord, files, counts, FilesOK
<1>5. Poller \in Task
  BY DEF Task
<1> QED
  BY <1>2, <1>3, <1>4, <1>5, TaskSteps DEF BridgeTypes

LEMMA BeginTypes ==
  ASSUME BridgeTypes, BookOK, NEW a \in Bridged, Flush(a) \/ Forward(a) \/ AskStamped(a)
  PROVE  BridgeTypes' /\ BookOK' /\ Grows
<1>1. WorkOK /\ RecordsOK /\ FilesOK
  BY DEF BridgeTypes
<1>2. \/ Begin(a, "sync", "flush") /\ a \in InUse
      \/ Begin(a, "sync", "message") /\ a \in InUse
      \/ Begin(a, "ask", "ask") /\ a \in StampAgent
  BY DEF Flush, Forward, AskStamped
<1>3. PICK w : Gets(Handler, w) /\ w.at \in {"sync", "ask"}
  <2>1. CASE Begin(a, "sync", "flush") /\ a \in InUse
    BY <1>1, <2>1, BeginGets
  <2>2. CASE Begin(a, "sync", "message") /\ a \in InUse
    BY <1>1, <2>2, BeginGets
  <2>3. CASE Begin(a, "ask", "ask") /\ a \in StampAgent
    BY <1>1, <2>3, BeginGets
  <2> QED
    BY <1>2, <2>1, <2>2, <2>3
<1>4. RecordsOK'
  <2>1. RecordsStay
    BY DEF Flush, Forward, AskStamped, records, RecordsStay
  <2> QED
    BY <1>1, <2>1, RecordsKept
<1>5. UNCHANGED <<file, copy, born, replaced, caps>> /\ blurred' \in BOOLEAN
  BY <1>1 DEF Flush, Forward, AskStamped, files, FilesOK
<1>6. Handler \in Task
  BY DEF Task
<1> QED
  BY <1>3, <1>4, <1>5, <1>6, TaskSteps DEF BridgeTypes

LEMMA OtherTypes ==
  ASSUME BridgeTypes, BookOK,
         (\E p \in Writers : AgentWrites(p) \/ AgentFinishes(p)) \/ OtherFlush \/ Restart \/ UNCHANGED bvars
  PROVE  BridgeTypes' /\ BookOK' /\ Grows
<1>1. WorkOK /\ RecordsOK /\ FilesOK
  BY DEF BridgeTypes
<1>2. CASE \E p \in Writers : AgentWrites(p) \/ AgentFinishes(p)
  <2>1. PICK p \in Writers : AgentWrites(p) \/ AgentFinishes(p)
    BY <1>2
  <2>2. FilesOK' /\ BookOK' /\ Grows
    BY <1>1, <2>1, WritesFiles
  <2>3. RecordsStay /\ work' = work
    BY <2>1 DEF AgentWrites, AgentFinishes, records, RecordsStay
  <2>4. WorkOK'
    BY <1>1, <2>3 DEF WorkOK
  <2> QED
    BY <1>1, <2>2, <2>3, <2>4, RecordsKept DEF BridgeTypes
<1>3. CASE Restart
  <2>1. WorkOK' /\ FilesOK' /\ BookOK' /\ Grows
    BY <1>1, <1>3, RestartFiles
  <2>2. bridge' = saved /\ saved' = saved /\ chosen' = chosen
    BY <1>3 DEF Restart
  <2>3. RecordsOK'
    BY <1>1, <2>2 DEF RecordsOK
  <2> QED
    BY <2>1, <2>3 DEF BridgeTypes
<1>4. CASE OtherFlush \/ UNCHANGED bvars
  <2>1. UNCHANGED <<file, copy, born, replaced, caps, work, blurred>>
    BY <1>4 DEF OtherFlush, bvars, files, counts
  <2>2. FilesOK' /\ BookOK' /\ Grows
    <3>1. work'[Handler].at = "run" => copy.path = <<work'[Handler].rec.session, "desktop">>
      BY <1>1, <2>1 DEF FilesOK
    <3>2. blurred' \in BOOLEAN
      BY <1>1, <2>1 DEF FilesOK
    <3> QED
      BY <1>1, <2>1, <3>1, <3>2, FilesStay
  <2>3. WorkOK'
    BY <1>1, <2>1 DEF WorkOK
  <2>4. bridge' = bridge /\ chosen' = chosen /\ (saved' = saved \/ saved' = bridge)
    BY <1>4 DEF OtherFlush, bvars, records
  <2>5. RecordsOK'
    BY <1>1, <2>4 DEF RecordsOK
  <2> QED
    BY <2>2, <2>3, <2>5 DEF BridgeTypes
<1> QED
  BY <1>2, <1>3, <1>4

\* The steps of the specification, one action each.
LEMMA BridgeActs ==
  ASSUME [BridgeNext]_bvars
  PROVE  \/ \E p \in Writers : AgentWrites(p) \/ AgentFinishes(p)
         \/ Tick \/ NextRecord
         \/ \E t \in Task : Stamp(t) \/ Sync(t) \/ SyncFails(t) \/ LeaveRecord(t) \/ SetRecord(t)
         \/ Answered \/ TurnInPlace \/ Materialize \/ RunWrites \/ PutBack
         \/ \E a \in Bridged : (\E s \in SessionId : Select(a, s)) \/ Flush(a) \/ Forward(a) \/ AskStamped(a)
         \/ OtherFlush \/ Restart \/ UNCHANGED bvars
BY DEF BridgeNext, Poll, Handlers, Users, Syncs, Task

\* Types, authors and growing files, for every step.
LEMMA BridgeStep ==
  ASSUME BridgeTypes, BookOK, [BridgeNext]_bvars
  PROVE  BridgeTypes' /\ BookOK' /\ Grows
<1>1. CASE \E p \in Writers : AgentWrites(p) \/ AgentFinishes(p)
  BY <1>1, OtherTypes
<1>2. CASE Tick \/ NextRecord
  BY <1>2, PollTypes
<1>3. CASE \E t \in Task : Stamp(t) \/ Sync(t) \/ SyncFails(t) \/ LeaveRecord(t) \/ SetRecord(t)
  BY <1>3, SyncTypes, SetRecordTypes
<1>4. CASE Answered \/ TurnInPlace \/ Materialize \/ RunWrites \/ PutBack
  BY <1>4, AnsweredTypes, RunTypes
<1>5. CASE \E a \in Bridged : (\E s \in SessionId : Select(a, s)) \/ Flush(a) \/ Forward(a) \/ AskStamped(a)
  BY <1>5, SelectTypes, BeginTypes
<1>6. CASE OtherFlush \/ Restart \/ UNCHANGED bvars
  BY <1>6, OtherTypes
<1> QED
  BY <1>1, <1>2, <1>3, <1>4, <1>5, <1>6, BridgeActs

LEMMA InitBook ==
  ASSUME BridgeInit
  PROVE  BookOK
<1>1. \A x \in Path : file[x] = NoFile
  BY DEF BridgeInit
<1>2. \A x : Booked(NoFile, x, born)
  BY NoCopyIs, BridgeAssumption DEF Booked, NoFile
<1>3. AllBooked(file, born)
  BY <1>1, <1>2 DEF AllBooked
<1>4. copy = NoCopy
  BY DEF BridgeInit
<1> QED
  BY <1>3, <1>4, NoCopyIs DEF BookOK

-----------------------------------------------------------------------------
(* BridgeSync: the records that are around *)

\* A task still has r of a: it works on it, or the poller comes to it later.
HasIn(w, a, r) ==
  \/ w.agent = a /\ w.at \in {"sync", "set", "turn", "run"} /\ r = w.rec
  \/ r = w.left[a]
Known(a, r) == r \in {bridge[a], saved[a]} \/ \E t \in Task : HasIn(work[t], a, r)

\* A record that is around fits its agent.
LEMMA KnownIs ==
  ASSUME BridgeTypes, NEW a \in FileAgent, NEW r, Known(a, r)
  PROVE  r \in BridgeRecord /\ Fit(a, r) /\ (r.paired => r.session \in Paired)
<1>1. a \in Bridged
  BY DEF Bridged
<1>2. Fit(a, r)
  <2>1. CASE r \in {bridge[a], saved[a]}
    BY <1>1, <2>1 DEF BridgeTypes, RecordsOK
  <2>2. ASSUME NEW t \in Task, HasIn(work[t], a, r)
        PROVE  Fit(a, r)
    <3>1. Tasking(t, work[t])
      BY DEF BridgeTypes, WorkOK
    <3> QED
      BY <1>1, <2>2, <3>1 DEF HasIn, Tasking
  <2> QED
    BY <2>1, <2>2 DEF Known
<1> QED
  BY <1>2 DEF Fit

\* What a task that moves has afterwards is all that may be new.
LEMMA KnownOf ==
  ASSUME NEW t \in Task, NEW w, Gets(t, w), NEW a \in FileAgent, NEW r, Known(a, r)',
         bridge' = bridge, saved' = saved
  PROVE  Known(a, r) \/ HasIn(w, a, r)
<1>1. CASE r \in {bridge'[a], saved'[a]}
  BY <1>1 DEF Known
<1>2. ASSUME NEW u \in Task, HasIn(work'[u], a, r)
      PROVE  Known(a, r) \/ HasIn(w, a, r)
  BY <1>2 DEF Gets, Known
<1> QED
  BY <1>1, <1>2 DEF Known

\* A task that is done has none.
LEMMA IdleHas ==
  ASSUME NEW a \in FileAgent, NEW r, r.paired
  PROVE  ~HasIn(Idle, a, r) /\ r # Idle.left[a]
<1>1. a \in Bridged
  BY DEF Bridged
<1> QED
  BY <1>1, IdleIs, EmptyIs DEF HasIn

\* No action but a sync and a choice makes a paired record: the lemmas down to
\* KnownOther say that what is around after it was around before it.
LEMMA KnownPoll ==
  ASSUME BridgeTypes, NEW a \in FileAgent, NEW r, r.paired, Known(a, r)', Tick \/ NextRecord
  PROVE  Known(a, r)
<1>1. a \in Bridged /\ Poller \in Task
  BY DEF Bridged, Task
<1>2. WorkOK /\ RecordsOK
  BY DEF BridgeTypes
<1>3. bridge' = bridge /\ saved' = saved
  BY DEF Tick, NextRecord, records
<1>4. CASE Tick
  <2>1. PICK w : Gets(Poller, w) /\ w.at = "next" /\ w.left = bridge
    BY <1>2, <1>4, TickGets
  <2>2. HasIn(w, a, r) => r = bridge[a]
    BY <2>1 DEF HasIn
  <2> QED
    BY <1>1, <1>3, <2>1, <2>2, KnownOf DEF Known
<1>5. CASE NextRecord /\ Gets(Poller, Idle)
  BY <1>1, <1>3, <1>5, KnownOf, IdleHas
<1>6. ASSUME NEW b \in Bridged, NEW w, Gets(Poller, w), w.at = "sync", w.agent = b,
             w.rec = work[Poller].left[b], w.left[b] = Empty,
             \A c \in Bridged : c # b => w.left[c] = work[Poller].left[c]
      PROVE  Known(a, r)
  <2>1. HasIn(w, a, r) => HasIn(work[Poller], a, r)
    BY <1>1, <1>6, EmptyIs DEF HasIn
  <2> QED
    BY <1>1, <1>3, <1>6, <2>1, KnownOf DEF Known
<1>7. CASE NextRecord
  BY <1>2, <1>5, <1>6, <1>7, NextGets
<1> QED
  BY <1>4, <1>7

LEMMA KnownBegin ==
  ASSUME BridgeTypes, NEW a \in FileAgent, NEW r, r.paired, Known(a, r)',
         NEW b \in Bridged, Flush(b) \/ Forward(b) \/ AskStamped(b)
  PROVE  Known(a, r)
<1>1. a \in Bridged /\ Handler \in Task
  BY DEF Bridged, Task
<1>2. WorkOK /\ RecordsOK
  BY DEF BridgeTypes
<1>3. bridge' = bridge /\ saved' = saved
  BY DEF Flush, Forward, AskStamped, records
<1>4. \/ Begin(b, "sync", "flush") /\ b \in InUse
      \/ Begin(b, "sync", "message") /\ b \in InUse
      \/ Begin(b, "ask", "ask") /\ b \in StampAgent
  BY DEF Flush, Forward, AskStamped
<1>5. PICK w : Gets(Handler, w) /\ w.agent = b /\ w.rec = bridge[b] /\ w.left = Idle.left
  <2>1. CASE Begin(b, "sync", "flush") /\ b \in InUse
    BY <1>2, <2>1, BeginGets
  <2>2. CASE Begin(b, "sync", "message") /\ b \in InUse
    BY <1>2, <2>2, BeginGets
  <2>3. CASE Begin(b, "ask", "ask") /\ b \in StampAgent
    BY <1>2, <2>3, BeginGets
  <2> QED
    BY <1>4, <2>1, <2>2, <2>3
<1>6. HasIn(w, a, r) => r = bridge[a]
  BY <1>5, IdleHas DEF HasIn
<1> QED
  BY <1>1, <1>3, <1>5, <1>6, KnownOf DEF Known

LEMMA KnownTurn ==
  ASSUME BridgeTypes, NEW a \in FileAgent, NEW r, r.paired, Known(a, r)',
         Answered \/ TurnInPlace \/ Materialize \/ RunWrites \/ PutBack
  PROVE  Known(a, r)
<1>1. a \in Bridged /\ Handler \in Task /\ a \notin StampAgent
  BY BridgeAssumption DEF Bridged, Task
<1>2. WorkOK
  BY DEF BridgeTypes
<1>3. bridge' = bridge /\ saved' = saved
  BY DEF Answered, TurnInPlace, Materialize, RunWrites, PutBack, records
<1>4. CASE Answered
  <2>1. CASE Gets(Handler, Idle)
    BY <1>1, <1>3, <2>1, KnownOf, IdleHas
  <2>2. ASSUME NEW w, Gets(Handler, w), w.agent \in StampAgent, w.left = work[Handler].left
        PROVE  Known(a, r)
    <3>1. HasIn(w, a, r) => HasIn(work[Handler], a, r)
      BY <1>1, <2>2 DEF HasIn
    <3> QED
      BY <1>1, <1>3, <2>2, <3>1, KnownOf DEF Known
  <2> QED
    BY <1>2, <1>4, <2>1, <2>2, AnsweredGets
<1>5. CASE TurnInPlace \/ PutBack
  <2>1. TurnEnds(work) /\ work[Handler].at \in {"turn", "run"}
    BY <1>5 DEF TurnInPlace, PutBack
  <2>2. CASE Gets(Handler, Idle)
    BY <1>1, <1>3, <2>2, KnownOf, IdleHas
  <2>3. ASSUME NEW w, Gets(Handler, w), w.agent = work[Handler].agent,
               w.rec = work[Handler].rec, w.left = work[Handler].left
        PROVE  Known(a, r)
    <3>1. HasIn(w, a, r) => HasIn(work[Handler], a, r)
      BY <2>1, <2>3 DEF HasIn
    <3> QED
      BY <1>1, <1>3, <2>3, <3>1, KnownOf DEF Known
  <2> QED
    BY <1>2, <2>1, <2>2, <2>3, TurnGets
<1>6. CASE Materialize
  <2>1. PICK w : /\ Gets(Handler, w) /\ w.agent = work[Handler].agent
                 /\ w.rec = work[Handler].rec /\ w.left = work[Handler].left /\ work[Handler].at = "turn"
    BY <1>2, <1>6, MaterializeGets
  <2>2. HasIn(w, a, r) => HasIn(work[Handler], a, r)
    BY <2>1 DEF HasIn
  <2> QED
    BY <1>1, <1>3, <2>1, <2>2, KnownOf DEF Known
<1>7. CASE RunWrites
  <2>1. work' = work
    BY <1>7 DEF RunWrites
  <2> QED
    BY <1>3, <2>1 DEF Known
<1> QED
  BY <1>4, <1>5, <1>6, <1>7

LEMMA KnownSync ==
  ASSUME BridgeTypes, NEW t \in Task, NEW a \in FileAgent, NEW r, r.paired, Known(a, r)',
         Stamp(t) \/ LeaveRecord(t) \/ SetRecord(t)
  PROVE  Known(a, r)
<1>1. a \in Bridged
  BY DEF Bridged
<1>2. WorkOK /\ RecordsOK
  BY DEF BridgeTypes
<1>3. CASE Stamp(t)
  <2>1. PICK w : Gets(t, w) /\ Same(w, work[t]) /\ w.rec = work[t].rec
    BY <1>2, <1>3, StampGets
  <2>2. bridge' = bridge /\ saved' = saved /\ work[t].at = "sync"
    BY <1>3 DEF Stamp, records
  <2>3. HasIn(w, a, r) => HasIn(work[t], a, r)
    BY <2>1, <2>2 DEF HasIn, Same
  <2> QED
    BY <2>1, <2>2, <2>3, KnownOf DEF Known
<1>4. CASE LeaveRecord(t)
  <2>1. bridge' = bridge /\ saved' = saved
    BY <1>4 DEF LeaveRecord, records
  <2> QED
    BY <1>2, <1>4, <2>1, LeaveGets, KnownOf, IdleHas
<1>5. CASE SetRecord(t)
  <2>1. PICK w : /\ Gets(t, w)
                 /\ \/ w = Idle
                    \/ w.at = "next" /\ t = Poller /\ w.left = work[t].left
                    \/ /\ w.at = "turn" /\ t = Handler /\ w.left = Idle.left
                       /\ w.agent = work[t].agent /\ w.rec = work[t].rec
    BY <1>2, <1>5, SetGets
  <2>2. work[t].at = "set" /\ work[t].agent \in Bridged
    BY <1>2, <1>5 DEF SetRecord, WorkOK, Tasking
  <2>3. bridge' = [bridge EXCEPT ![work[t].agent] = work[t].rec] /\ saved' \in {bridge', saved}
    BY <1>5 DEF SetRecord
  <2>4. bridge'[a] = bridge[a] \/ (work[t].agent = a /\ bridge'[a] = work[t].rec)
    BY <1>1, <1>2, <2>3 DEF RecordsOK
  <2>5. HasIn(w, a, r) => HasIn(work[t], a, r)
    BY <2>1, <2>2, IdleHas DEF HasIn
  <2>6. CASE r \in {bridge'[a], saved'[a]}
    BY <2>2, <2>3, <2>4, <2>6 DEF Known, HasIn
  <2>7. ASSUME NEW u \in Task, HasIn(work'[u], a, r)
        PROVE  Known(a, r)
    BY <2>1, <2>5, <2>7 DEF Gets, Known
  <2> QED
    BY <2>6, <2>7 DEF Known
<1> QED
  BY <1>3, <1>4, <1>5

LEMMA KnownOther ==
  ASSUME BridgeTypes, NEW a \in FileAgent, NEW r, r.paired, Known(a, r)',
         \/ \E p \in Writers : AgentWrites(p) \/ AgentFinishes(p)
         \/ \E b \in Bridged : \E s \in SessionId : Select(b, s)
         \/ OtherFlush \/ Restart \/ UNCHANGED bvars
  PROVE  Known(a, r)
<1>1. a \in Bridged /\ WorkOK /\ RecordsOK /\ FilesOK
  BY DEF Bridged, BridgeTypes
<1>2. CASE (\E p \in Writers : AgentWrites(p) \/ AgentFinishes(p)) \/ UNCHANGED bvars \/ OtherFlush
  <2>1. work' = work /\ bridge' = bridge /\ saved' \in {saved, bridge}
    BY <1>2 DEF AgentWrites, AgentFinishes, OtherFlush, bvars, records
  <2> QED
    BY <2>1 DEF Known
<1>3. CASE Restart
  <2>1. bridge' = saved /\ saved' = saved /\ \A t \in Task : work'[t] = Idle
    BY <1>3 DEF Restart
  <2> QED
    BY <2>1, IdleHas DEF Known
<1>4. ASSUME NEW b \in Bridged, NEW s \in SessionId, Select(b, s)
      PROVE  Known(a, r)
  <2>1. PICK n \in Nat : n = FileEnd(b, s)
    BY <1>1, FileEndIs
  <2>2. PICK f : f = FALSE
    OBVIOUS
  <2>3. PICK v : v = NewRecord(s, f, n)
    OBVIOUS
  <2>4. v.paired = FALSE
    <3>1. f \in BOOLEAN /\ s \in SessionId \cup {NoSession}
      BY <2>2
    <3> QED
      BY <2>2, <2>3, <3>1, NewIs
  <2>5. work' = work /\ bridge' = [bridge EXCEPT ![b] = v] /\ saved' \in {bridge', saved}
    BY <1>4, <2>1, <2>2, <2>3 DEF Select
  <2>6. bridge'[a] = bridge[a] \/ bridge'[a] = v
    BY <1>1, <2>5 DEF RecordsOK
  <2> QED
    BY <2>4, <2>5, <2>6 DEF Known
<1> QED
  BY <1>2, <1>3, <1>4

\* Only a sync makes a record that was not around.
LEMMA KnownBefore ==
  ASSUME BridgeTypes, [BridgeNext]_bvars, NEW a \in FileAgent, NEW r, r.paired, Known(a, r)',
         \A t \in Task : ~Sync(t) /\ ~SyncFails(t)
  PROVE  Known(a, r)
BY BridgeActs, KnownPoll, KnownBegin, KnownTurn, KnownSync, KnownOther

-----------------------------------------------------------------------------
(* BridgeSync: NothingSkipped *)

AllCovered == \A a \in FileAgent : \A r : Known(a, r) => Covered(file, replaced, r)

LEMMA InitCovered ==
  ASSUME BridgeInit
  PROVE  AllCovered
<1> SUFFICES ASSUME NEW a \in FileAgent, NEW r, Known(a, r), r.paired
             PROVE  Covered(file, replaced, r)
  BY DEF AllCovered, Covered
<1>1. BridgeTypes
  BY InitBridge
<1>2. a \in Bridged /\ r.session \in Paired /\ r \in BridgeRecord
  BY <1>1, KnownIs DEF Bridged
<1>3. r = bridge[a]
  BY IdleHas DEF BridgeInit, Known
<1>4. r.desktop = 0 /\ r.mobile = 0
  <2>1. PICK b : b = (a \in FileAgent /\ InitialSession[a] \in Paired)
    OBVIOUS
  <2>2. r = NewRecord(InitialSession[a], b, 0)
    BY <1>2, <1>3, <2>1 DEF BridgeInit
  <2>3. b \in BOOLEAN /\ InitialSession[a] \in SessionId \cup {NoSession}
    BY <1>2, <2>1, BridgeAssumption
  <2> QED
    BY <2>2, <2>3, NewIs
<1>5. ASSUME NEW side \in Side
      PROVE  CoveredOn(file, replaced, r, side)
  <2>1. r[side] = 0
    BY <1>4 DEF Side
  <2>2. PathOf(r, side) \in Path
    BY <1>2, PathsAre
  <2>3. Len(file[PathOf(r, side)].lines) = 0
    BY <2>2, NoCopyIs DEF BridgeInit
  <2>4. Told(file[PathOf(r, side)], file[PathOf(r, Other(side))], 0)
    BY <2>3 DEF Told
  <2> QED
    BY <2>1, <2>3, <2>4 DEF CoveredOn
<1> QED
  BY <1>5 DEF Covered

\* What was covered stays so.
LEMMA StaysCovered ==
  ASSUME BridgeTypes, BridgeTypes', Grows, AllCovered,
         NEW a \in FileAgent, NEW r, r.paired, Known(a, r)
  PROVE  Covered(file', replaced', r)
<1>1. r \in BridgeRecord /\ (r.paired => r.session \in Paired)
  BY KnownIs
<1>2. file \in [Path -> File] /\ file' \in [Path -> File]
  BY DEF BridgeTypes, FilesOK
<1>3. Covered(file, replaced, r)
  BY DEF AllCovered
<1>4. replaced \subseteq replaced' /\ \A p \in Path : p \notin replaced' => Grown(file[p], file'[p])
  BY DEF Grows
<1> QED
  BY <1>1, <1>2, <1>3, <1>4, CoverGrows

\* What a task has after a sync is the sync's record, or it was around.
LEMMA SyncedHas ==
  ASSUME BridgeTypes, NEW t \in Task, NEW w, Gets(t, w), Same(w, work[t]), work[t].at = "sync",
         bridge' = bridge, saved' = saved, NEW a \in FileAgent, NEW r, Known(a, r)'
  PROVE  Known(a, r) \/ (work[t].agent = a /\ r = w.rec)
<1>1. Known(a, r) \/ HasIn(w, a, r)
  BY KnownOf
<1>2. HasIn(w, a, r) => r = work[t].left[a] \/ (work[t].agent = a /\ r = w.rec)
  BY DEF HasIn, Same
<1> QED
  BY <1>1, <1>2 DEF Known, HasIn

\* A sync leaves a record that skips nothing.
LEMMA SyncCovered ==
  ASSUME BridgeTypes, BridgeTypes', Grows, AllCovered, NEW t \in Task, Sync(t) \/ SyncFails(t)
  PROVE  AllCovered'
<1> SUFFICES ASSUME NEW a \in FileAgent, NEW r, Known(a, r)', r.paired
             PROVE  Covered(file', replaced', r)
  BY DEF AllCovered, Covered
<1>1. WorkOK /\ file \in [Path -> File] /\ file' \in [Path -> File]
  BY DEF BridgeTypes, FilesOK
<1>2. bridge' = bridge /\ saved' = saved /\ work[t].at = "sync" /\ replaced' = replaced
  BY DEF Sync, SyncFails, records
<1>3. CASE Known(a, r)
  BY <1>3, StaysCovered
<1>4. PICK o : o = work[t].rec
  OBVIOUS
<1>5. ASSUME work[t].agent = a
      PROVE  Known(a, o) /\ o \in BridgeRecord /\ (o.paired => o.session \in Paired)
  <2>1. Known(a, o)
    BY <1>2, <1>4, <1>5 DEF Known, HasIn
  <2> QED
    BY <2>1, KnownIs
<1>6. CASE Sync(t) /\ ~Known(a, r)
  <2>1. PICK there, back, w :
           /\ there = Cycle(o, file, "desktop")
           /\ back = Cycle(there.rec, there.files, "mobile")
           /\ file' = back.files
           /\ Gets(t, w) /\ Same(w, work[t]) /\ w.rec = back.rec /\ o.paired
    BY <1>1, <1>4, <1>6, SyncGets
  <2>2. work[t].agent = a /\ r = back.rec
    BY <1>2, <1>6, <2>1, SyncedHas
  <2>3. Known(a, o) /\ o \in BridgeRecord /\ o.session \in Paired
    BY <1>5, <2>1, <2>2
  <2>4. Covered(file, replaced, o)
    BY <2>3 DEF AllCovered
  <2>5. Covered(back.files, replaced, back.rec)
    BY <1>1, <2>1, <2>3, <2>4, SyncCovers
  <2> QED
    BY <1>2, <2>1, <2>2, <2>5
<1>7. CASE SyncFails(t) /\ ~Known(a, r)
  <2>1. PICK there, w :
           /\ there = Cycle(o, file, "desktop")
           /\ Gets(t, w) /\ Same(w, work[t]) /\ FailsWith(t, there, w.rec)
    BY <1>1, <1>4, <1>7, SyncFailsGets
  <2>2. work[t].agent = a /\ r = w.rec
    BY <1>2, <1>7, <2>1, SyncedHas
  <2>3. Known(a, o)
    BY <1>5, <2>2
  <2>4. r = there.rec /\ o.paired /\ BreaksOff(there.rec, there.files, "mobile")
    BY <1>4, <1>7, <2>1, <2>2, <2>3 DEF FailsWith
  <2>5. o \in BridgeRecord /\ o.session \in Paired /\ Covered(file, replaced, o)
    BY <1>5, <2>2, <2>3, <2>4 DEF AllCovered
  <2>6. PICK back : back = Cycle(there.rec, there.files, "mobile")
    OBVIOUS
  <2>7. /\ there.rec \in BridgeRecord /\ there.rec.session \in Paired /\ there.rec.paired
        /\ there.files \in [Path -> File] /\ Covered(there.files, replaced, there.rec)
    BY <1>1, <2>1, <2>4, <2>5, <2>6, SyncCovers
  <2>8. \A x \in Path : Grown(there.files[x], file'[x])
    <3>1. PICK n : \E half \in BOOLEAN :
                     /\ n \in 0 .. Len(Rendered(there.files[PathOf(there.rec, "mobile")],
                                                there.rec["mobile"], "mobile")) - 1
                     /\ file' = Broken(there.rec, there.files, "mobile", n, half)
      BY <2>4 DEF BreaksOff
    <3>2. "mobile" \in Side
      BY DEF Side
    <3> QED
      BY <2>7, <3>1, <3>2, BrokenIs
  <2> QED
    BY <1>1, <1>2, <2>4, <2>7, <2>8, CoverGrows
<1> QED
  BY <1>3, <1>6, <1>7

\* NothingSkipped's strengthening, for every step: a sync makes a covered record, every
\* other action leaves the records that were there.
LEMMA CoveredStep ==
  ASSUME BridgeTypes, BridgeTypes', Grows, AllCovered, [BridgeNext]_bvars
  PROVE  AllCovered'
<1>1. CASE \E t \in Task : Sync(t) \/ SyncFails(t)
  BY <1>1, SyncCovered
<1>2. CASE \A t \in Task : ~Sync(t) /\ ~SyncFails(t)
  <2> SUFFICES ASSUME NEW a \in FileAgent, NEW r, Known(a, r)', r.paired
               PROVE  Covered(file', replaced', r)
    BY DEF AllCovered, Covered
  <2>1. Known(a, r)
    BY <1>2, KnownBefore
  <2> QED
    BY <2>1, StaysCovered
<1> QED
  BY <1>1, <1>2

\* A clean file is whole; what it was told is what it holds.
LEMMA CoveredSkipsNothing ==
  ASSUME BridgeTypes, AllCovered
  PROVE  NothingSkipped
<1> SUFFICES ASSUME NEW a \in FileAgent, NEW rec \in {bridge[a], saved[a]}, NEW side \in Side,
                    NEW p, p = PathOf(rec, side), NEW q, q = PathOf(rec, Other(side)),
                    rec.paired, {p, q} \cap replaced = {}, Clean(q)
             PROVE  ReadBefore(p, rec[side]) \subseteq Held(q)
  BY DEF NothingSkipped
<1>1. Known(a, rec)
  BY DEF Known
<1>2. rec \in BridgeRecord /\ rec.session \in Paired
  BY <1>1, KnownIs
<1>3. p \in Path /\ q \in Path /\ file \in [Path -> File]
  BY <1>2, PathsAre DEF BridgeTypes, FilesOK
<1>4. file[p].lines \in Seq(Line) /\ file[q].lines \in Seq(Line)
  BY <1>3 DEF File
<1>5. DOMAIN file[p].lines = 1 .. Len(file[p].lines) /\ DOMAIN file[q].lines = 1 .. Len(file[q].lines)
  BY <1>4
<1>6. Whole(file[q])
  BY <1>5 DEF Clean, Held, Whole
<1>7. Told(file[p], file[q], rec[side])
  <2>1. CoveredOn(file, replaced, rec, side)
    BY <1>1 DEF AllCovered, Covered
  <2> QED
    BY <1>6, <2>1 DEF CoveredOn
<1>8. ASSUME NEW i \in DOMAIN file[p].lines, i <= rec[side], file[p].lines[i] # Garbled,
             file[p].lines[i].from = "none"
      PROVE  file[p].lines[i].id \in Held(q)
  <2>1. PICK j \in 1 .. Len(file[q].lines) : file[q].lines[j].id = file[p].lines[i].id
    BY <1>5, <1>7, <1>8 DEF Told, In
  <2> QED
    BY <1>5, <2>1 DEF Held
<1> QED
  BY <1>8 DEF ReadBefore

-----------------------------------------------------------------------------
(* BridgeSync: where a marked line comes from *)

\* A line first written to f stands in its first n lines.
From(f, n, id) == \E j \in 1 .. Len(f.lines) : j <= n /\ f.lines[j] = Own(id)

\* Every marked line comes from the other file of the pair.
SourcedAt(fs, s, x) ==
  \A i \in 1 .. Len(fs[<<s, x>>].lines) :
    fs[<<s, x>>].lines[i].from # "none" =>
      From(fs[<<s, Other(x)>>], Len(fs[<<s, Other(x)>>].lines), fs[<<s, x>>].lines[i].id)
Sourced(fs) == \A s \in Paired : \A x \in Side : SourcedAt(fs, s, x)

\* Nothing after an offset was copied yet, in one direction and in both.
ExactOn(fs, r, x) ==
  \A i \in 1 .. Len(fs[<<r.session, Other(x)>>].lines) :
    fs[<<r.session, Other(x)>>].lines[i].from = x =>
      From(fs[<<r.session, x>>], r[x], fs[<<r.session, Other(x)>>].lines[i].id)
Exact(fs, r) == \A x \in Side : ExactOn(fs, r, x)

\* What the phone wrote and the desktop's offset passed, the phone's offset passed.
Upto(fs, r) ==
  \A i \in 1 .. Len(fs[<<r.session, "desktop">>].lines) :
    i <= r.desktop /\ fs[<<r.session, "desktop">>].lines[i].from = "mobile" =>
      From(fs[<<r.session, "mobile">>], r.mobile, fs[<<r.session, "desktop">>].lines[i].id)

\* A line that came over stays behind the offset.
LEMMA FromGrows ==
  ASSUME NEW f \in File, NEW g \in File, Grown(f, g), NEW n \in Nat, NEW m \in Nat, n <= m,
         NEW id, From(f, n, id)
  PROVE  From(g, m, id)
<1>1. f.lines \in Seq(Line) /\ g.lines \in Seq(Line)
  BY DEF File
<1>2. Len(f.lines) \in Nat /\ Len(g.lines) \in Nat /\ Len(f.lines) <= Len(g.lines)
  BY <1>1 DEF Grown
<1>3. PICK j \in 1 .. Len(f.lines) : j <= n /\ f.lines[j] = Own(id)
  BY DEF From
<1>4. g.lines[j] = Own(id)
  BY <1>3 DEF Grown
<1>5. j \in 1 .. Len(g.lines) /\ j <= m
  BY <1>2, <1>3
<1> QED
  BY <1>4, <1>5 DEF From

LEMMA PairIs ==
  ASSUME NEW s \in Paired, NEW x \in Side
  PROVE  /\ <<s, x>> \in Path /\ <<s, Other(x)>> \in Path /\ <<s, x>> # <<s, Other(x)>>
         /\ <<s, x>>[1] = s /\ <<s, x>>[2] = x
BY SidesAre, BridgeAssumption DEF Path, Side, Other

\* An exact record's offsets account for every copy.
LEMMA ExactTells ==
  ASSUME NEW fs, NEW r, Exact(fs, r)
  PROVE  Upto(fs, r)
<1>1. "mobile" \in Side /\ Other("mobile") = "desktop"
  BY DEF Side, Other
<1>2. ExactOn(fs, r, "mobile")
  BY <1>1 DEF Exact
<1>3. r["mobile"] = r.mobile
  OBVIOUS
<1> QED
  BY <1>1, <1>2, <1>3 DEF ExactOn, Upto

\* A record further on is exact too.
LEMMA ExactFurther ==
  ASSUME NEW fs \in [Path -> File], NEW r \in BridgeRecord, NEW v \in BridgeRecord,
         r.session \in Paired, v.session = r.session, Exact(fs, r),
         \A x \in Side : r[x] <= v[x]
  PROVE  Exact(fs, v)
<1> SUFFICES ASSUME NEW x \in Side,
                    NEW i \in 1 .. Len(fs[<<v.session, Other(x)>>].lines),
                    fs[<<v.session, Other(x)>>].lines[i].from = x
             PROVE  From(fs[<<v.session, x>>], v[x], fs[<<v.session, Other(x)>>].lines[i].id)
  BY DEF Exact, ExactOn
<1>1. From(fs[<<v.session, x>>], r[x], fs[<<v.session, Other(x)>>].lines[i].id)
  BY DEF Exact, ExactOn
<1>2. fs[<<v.session, x>>] \in File
  BY PairIs
<1>3. r[x] \in Nat /\ v[x] \in Nat
  BY OffsetsAre
<1> QED
  BY <1>1, <1>2, <1>3, FromGrows, GrownItself

\* What an agent writes is not marked.
LEMMA ExactStays ==
  ASSUME NEW fs \in [Path -> File], NEW gs \in [Path -> File], NEW r \in BridgeRecord,
         r.session \in Paired, \A x \in Side : Written(fs[<<r.session, x>>], gs[<<r.session, x>>]),
         Exact(fs, r)
  PROVE  Exact(gs, r)
<1> SUFFICES ASSUME NEW x \in Side,
                    NEW i \in 1 .. Len(gs[<<r.session, Other(x)>>].lines),
                    gs[<<r.session, Other(x)>>].lines[i].from = x
             PROVE  From(gs[<<r.session, x>>], r[x], gs[<<r.session, Other(x)>>].lines[i].id)
  BY DEF Exact, ExactOn
<1>1. PICK s : s = r.session
  OBVIOUS
<1>2. PICK p, q : p = <<s, x>> /\ q = <<s, Other(x)>>
  OBVIOUS
<1>3. p \in Path /\ q \in Path /\ Other(x) \in Side /\ x # "none"
  BY <1>1, <1>2, PairIs, SidesAre
<1>4. fs[p] \in File /\ gs[p] \in File /\ fs[q] \in File /\ gs[q] \in File
  BY <1>3
<1>5. Written(fs[q], gs[q]) /\ Grown(fs[p], gs[p])
  BY <1>1, <1>2, <1>3 DEF Written
<1>6. Len(fs[q].lines) \in Nat /\ Len(gs[q].lines) \in Nat
  BY <1>4, FileIs, Zenon
<1>7. i \in 1 .. Len(gs[q].lines) /\ gs[q].lines[i].from = x
  BY <1>1, <1>2
<1>8. ~(i > Len(fs[q].lines))
  BY <1>3, <1>5, <1>7 DEF Written
<1>9. i \in 1 .. Len(fs[q].lines)
  BY <1>6, <1>7, <1>8
<1>10. gs[q].lines[i] = fs[q].lines[i]
  BY <1>5, <1>9 DEF Written, Grown
<1>11. From(fs[p], r[x], fs[q].lines[i].id)
  BY <1>1, <1>2, <1>7, <1>9, <1>10 DEF Exact, ExactOn
<1>12. r[x] \in Nat
  BY OffsetsAre
<1>13. From(gs[p], r[x], gs[q].lines[i].id)
  BY <1>4, <1>5, <1>10, <1>11, <1>12, FromGrows
<1> QED
  BY <1>1, <1>2, <1>13

\* A copy's original is not lost while files are only added to.
LEMMA SourcedStays ==
  ASSUME NEW fs \in [Path -> File], NEW gs \in [Path -> File],
         \A x \in Path : Written(fs[x], gs[x]), Sourced(fs)
  PROVE  Sourced(gs)
<1> SUFFICES ASSUME NEW s \in Paired, NEW x \in Side, NEW p, p = <<s, x>>, NEW q, q = <<s, Other(x)>>,
                    NEW i \in 1 .. Len(gs[p].lines), gs[p].lines[i].from # "none"
             PROVE  From(gs[q], Len(gs[q].lines), gs[p].lines[i].id)
  BY DEF Sourced, SourcedAt
<1>1. p \in Path /\ q \in Path
  BY PairIs
<1>2. fs[p] \in File /\ gs[p] \in File /\ fs[q] \in File /\ gs[q] \in File
  BY <1>1
<1>3. Written(fs[p], gs[p]) /\ Grown(fs[p], gs[p]) /\ Grown(fs[q], gs[q])
  BY <1>1 DEF Written
<1>4. /\ Len(fs[p].lines) \in Nat /\ Len(gs[p].lines) \in Nat
      /\ Len(fs[q].lines) \in Nat /\ Len(gs[q].lines) \in Nat /\ Len(fs[q].lines) <= Len(gs[q].lines)
  BY <1>2, <1>3 DEF File, Grown
<1>5. ~(i > Len(fs[p].lines))
  BY <1>3 DEF Written
<1>6. i \in 1 .. Len(fs[p].lines)
  BY <1>4, <1>5
<1>7. gs[p].lines[i] = fs[p].lines[i]
  BY <1>3, <1>6 DEF Grown
<1>8. From(fs[q], Len(fs[q].lines), fs[p].lines[i].id)
  BY <1>6, <1>7 DEF Sourced, SourcedAt
<1> QED
  BY <1>2, <1>3, <1>4, <1>7, <1>8, FromGrows

\* A file that grows past an offset keeps what the offset passed.
LEMMA UptoStays ==
  ASSUME NEW fs \in [Path -> File], NEW gs \in [Path -> File], NEW r \in BridgeRecord,
         r.session \in Paired, \A x \in Side : Grown(fs[<<r.session, x>>], gs[<<r.session, x>>]),
         r.desktop <= Len(fs[<<r.session, "desktop">>].lines), Upto(fs, r)
  PROVE  Upto(gs, r)
<1> SUFFICES ASSUME NEW p, p = <<r.session, "desktop">>, NEW q, q = <<r.session, "mobile">>,
                    NEW i \in 1 .. Len(gs[p].lines), i <= r.desktop, gs[p].lines[i].from = "mobile"
             PROVE  From(gs[q], r.mobile, gs[p].lines[i].id)
  BY DEF Upto
<1>1. p \in Path /\ q \in Path /\ "desktop" \in Side /\ "mobile" \in Side
  BY PairIs DEF Side, Other
<1>2. fs[p] \in File /\ gs[p] \in File /\ fs[q] \in File /\ gs[q] \in File
  BY <1>1
<1>3. Grown(fs[p], gs[p]) /\ Grown(fs[q], gs[q])
  BY <1>1
<1>4. Len(fs[p].lines) \in Nat /\ r.desktop \in Nat /\ r.mobile \in Nat
  BY <1>2 DEF File, BridgeRecord
<1>5. i \in 1 .. Len(fs[p].lines)
  BY <1>4
<1>6. gs[p].lines[i] = fs[p].lines[i]
  BY <1>3, <1>5 DEF Grown
<1>7. From(fs[q], r.mobile, fs[p].lines[i].id)
  BY <1>5, <1>6 DEF Upto
<1> QED
  BY <1>2, <1>3, <1>4, <1>6, <1>7, FromGrows

-----------------------------------------------------------------------------
(* BridgeSync: a cycle copies nothing twice *)

\* The files as a sync wants them.
Neat(fs, r, bn) ==
  /\ AllBooked(fs, bn) /\ (\A x \in Path : Once(fs[x])) /\ Sourced(fs)
  /\ Exact(fs, r) /\ \A x \in Side : r[x] <= Len(fs[<<r.session, x>>].lines)

\* What goes to the other side from p was first written to p.
LEMMA GoesOwn ==
  ASSUME NEW s \in Paired, NEW x \in Side, NEW f \in File, NEW bn, Booked(f, <<s, x>>, bn),
         NEW offset \in Nat, NEW i \in 1 .. Len(f.lines), Sends(f, offset, x, i)
  PROVE  f.lines[i] = Own(f.lines[i].id)
<1>1. f.lines \in Seq(Line)
  BY DEF File
<1>2. f.lines[i] \in Line /\ f.lines[i] # Garbled /\ f.lines[i].from # Other(x)
  BY <1>1 DEF Sends
<1>3. f.lines[i].from = "none"
  BY <1>2, PairIs DEF Booked, Authored
<1> QED
  BY <1>2, <1>3 DEF Line, Own

Brought(f, offset, x, id) ==
  \E j \in 1 .. Len(f.lines) : Sends(f, offset, x, j) /\ id = f.lines[j].id

\* A copied line was not behind the offset before, and is after.
LEMMA BroughtIs ==
  ASSUME NEW f \in File, NEW offset \in Nat, NEW x \in Side, NEW r, r = Rendered(f, offset, x),
         NEW k \in 1 .. Len(r)
  PROVE  r[k] # Garbled /\ r[k].from = x /\ Brought(f, offset, x, r[k].id)
<1>1. r[k] # Garbled /\ r[k].from = x
      /\ \E j \in 1 .. Len(f.lines) : Sends(f, offset, x, j) /\ r[k].id = f.lines[j].id
  BY RenderedFrom
<1> QED
  BY <1>1 DEF Brought

\* A new line is not among the old ones, and no two new ones are the same.
LEMMA CopyOnce ==
  ASSUME NEW s \in Paired, NEW x \in Side, NEW f \in File, NEW bn, Booked(f, <<s, x>>, bn), Once(f),
         NEW g \in File, Once(g), NEW offset \in Nat,
         \A i \in 1 .. Len(g.lines) : g.lines[i].from = x => From(f, offset, g.lines[i].id),
         NEW r, r = Rendered(f, offset, x), NEW g2, g2 = Add(g, r)
  PROVE  Once(g2)
<1>1. r \in Seq(Line)
  BY RenderedIs
<1>2. /\ g2 \in File
      /\ Len(g2.lines) = Len(g.lines) + Len(r)
      /\ \A i \in 1 .. Len(g.lines) : g2.lines[i] = g.lines[i]
      /\ \A i \in 1 .. Len(r) : g2.lines[Len(g.lines) + i] \in {Garbled, r[i]}
      /\ Len(r) = 0 => g2 = g
      /\ Len(r) # 0 => g2.open = 0
  <2>1. g2 \in File /\ Len(g2.lines) = Len(g.lines) + Len(r)
    <3>1. g2 \in File
      BY <1>1, AddIs
    <3>2. Len(g2.lines) = Len(g.lines) + Len(r)
      BY <1>1, AddIs
    <3> QED
      BY <3>1, <3>2
  <2>2. \A i \in 1 .. Len(g.lines) : g2.lines[i] = g.lines[i]
    BY <1>1, AddIs
  <2>3. \A i \in 1 .. Len(r) : g2.lines[Len(g.lines) + i] =
              IF i = 1 /\ g.open # 0 THEN Garbled ELSE r[i]
    BY <1>1, AddIs
  <2>4. (Len(r) = 0 => g2 = g) /\ (Len(r) # 0 => g2.open = 0)
    BY <1>1, AddIs
  <2> QED
    BY <2>1, <2>2, <2>3, <2>4
<1>3. PICK n : n = Len(g.lines)
  OBVIOUS
<1>4. PICK m : m = Len(r)
  OBVIOUS
<1>5. n \in Nat /\ m \in Nat
  BY <1>1, <1>3, <1>4 DEF File
<1>6. CASE m = 0
  BY <1>2, <1>4, <1>6
<1>7. CASE m # 0
  <2>1. g2.open \notin 1 .. MaxLines
    BY <1>2, <1>4, <1>7
  <2>2. \A k, l \in 1 .. m : r[k].id = r[l].id => k = l
    <3>1. ASSUME NEW i \in 1 .. Len(f.lines), NEW j \in 1 .. Len(f.lines),
                 Sends(f, offset, x, i), Sends(f, offset, x, j), f.lines[i].id = f.lines[j].id
          PROVE  i = j
      <4>1. f.lines[i] = Own(f.lines[i].id)
        BY <3>1, GoesOwn
      <4>2. f.lines[j] = Own(f.lines[j].id)
        BY <3>1, GoesOwn
      <4>3. f.lines[i] = f.lines[j]
        BY <3>1, <4>1, <4>2
      <4> QED
        BY <3>1, <4>3 DEF Once, Sends
    <3> QED
      BY <1>4, <3>1, RenderedOnce
  <2>3. ASSUME NEW k \in 1 .. m, NEW i \in 1 .. n
        PROVE  r[k] # g.lines[i]
    <3> k \in 1 .. Len(r)
      BY <1>4
    <3>1. r[k] # Garbled /\ r[k].from = x /\ Brought(f, offset, x, r[k].id)
      BY BroughtIs
    <3>2. PICK j \in 1 .. Len(f.lines) : Sends(f, offset, x, j) /\ r[k].id = f.lines[j].id
      BY <3>1 DEF Brought
    <3>3. f.lines[j] = Own(r[k].id) /\ f.lines[j] # Garbled /\ j > offset
      BY <3>2, GoesOwn DEF Sends
    <3>4. SUFFICES ASSUME r[k] = g.lines[i] PROVE FALSE
      OBVIOUS
    <3>5. PICK l \in 1 .. Len(f.lines) : l <= offset /\ f.lines[l] = Own(r[k].id)
      BY <1>3, <3>1, <3>4 DEF From
    <3>6. l # j
      BY <3>3, <3>5
    <3> QED
      BY <3>3, <3>5, <3>6 DEF Once
  <2>4. ASSUME NEW i \in 1 .. Len(g2.lines), NEW j \in 1 .. Len(g2.lines), i < j, g2.lines[i] # Garbled
        PROVE  g2.lines[i] # g2.lines[j]
    <3>1. CASE j \in 1 .. n
      <4>1. i \in 1 .. n /\ i # j
        BY <1>5, <2>4, <3>1
      <4> QED
        BY <1>2, <1>3, <2>4, <3>1, <4>1 DEF Once
    <3>2. CASE j > n
      <4>1. PICK l \in 1 .. m : j = n + l
        <5>1. j - n \in 1 .. m /\ j = n + (j - n)
          BY <1>2, <1>3, <1>4, <1>5, <3>2
        <5> QED
          BY <5>1
      <4>2. g2.lines[j] = Garbled \/ g2.lines[j] = r[l]
        BY <1>2, <1>3, <1>4, <4>1
      <4>3. CASE g2.lines[j] = Garbled
        BY <2>4, <4>3
      <4>4. CASE g2.lines[j] = r[l] /\ i \in 1 .. n
        BY <1>2, <1>3, <2>3, <4>4
      <4>5. CASE g2.lines[j] = r[l] /\ i > n
        <5>1. PICK k \in 1 .. m : i = n + k
          <6>1. i - n \in 1 .. m /\ i = n + (i - n)
            BY <1>2, <1>3, <1>4, <1>5, <4>5
          <6> QED
            BY <6>1
        <5>2. k # l
          BY <2>4, <4>1, <5>1
        <5>3. g2.lines[i] = r[k]
          BY <1>2, <1>3, <1>4, <2>4, <5>1
        <5>4. r[k].id # r[l].id
          BY <2>2, <5>2
        <5> QED
          BY <4>5, <5>3, <5>4
      <4> QED
        BY <1>5, <2>4, <4>2, <4>3, <4>4, <4>5
    <3> QED
      BY <1>5, <2>4, <3>1, <3>2
  <2>5. Len(g2.lines) \in Nat
    BY <1>2, <1>3, <1>4, <1>5
  <2>6. \A i, j \in 1 .. Len(g2.lines) : i # j /\ g2.lines[i] # Garbled => g2.lines[i] # g2.lines[j]
    <3> SUFFICES ASSUME NEW i \in 1 .. Len(g2.lines), NEW j \in 1 .. Len(g2.lines), i # j,
                        g2.lines[i] # Garbled, g2.lines[i] = g2.lines[j]
                 PROVE  FALSE
      OBVIOUS
    <3>1. i < j \/ j < i
      BY <2>5
    <3> QED
      BY <2>4, <3>1
  <2> QED
    BY <2>1, <2>6 DEF Once
<1> QED
  BY <1>6, <1>7

\* One direction of a sync, from a record whose offsets account for every copy, copies
\* no line a second time and leaves such a record.
LEMMA CycleNeat ==
  ASSUME NEW rec \in BridgeRecord, rec.paired, rec.session \in Paired, NEW fs \in [Path -> File],
         NEW bn, Neat(fs, rec, bn), NEW x \in Side, NEW c, c = Cycle(rec, fs, x)
  PROVE  Neat(c.files, c.rec, bn)
<1>1. PICK s : s = rec.session
  OBVIOUS
<1>2. PICK p, q : p = PathOf(rec, x) /\ q = PathOf(rec, Other(x))
  OBVIOUS
<1>3. PICK y : y = Other(x)
  OBVIOUS
<1>4. s \in Paired /\ y \in Side /\ y # x /\ x = Other(y) /\ \A z \in Side : z = x \/ z = y
  BY <1>1, <1>3, SidesAre
<1>5. p = <<s, x>> /\ q = <<s, y>>
  <2>1. p = <<s, x>>
    BY <1>1, <1>2, PathsAre
  <2>2. q = <<s, y>>
    BY <1>1, <1>2, <1>3, <1>4, PathsAre
  <2> QED
    BY <2>1, <2>2
<1>6. /\ p \in Path /\ q \in Path /\ p # q
      /\ c.rec \in BridgeRecord /\ c.rec.session = s
      /\ c.rec[x] = Moved(fs[p], rec[x]) /\ c.rec[y] = rec[y]
      /\ c.files \in [Path -> File]
      /\ c.files[q] = Add(fs[q], Rendered(fs[p], rec[x], x))
      /\ \A z \in Path : z # q => c.files[z] = fs[z]
  BY <1>1, <1>2, <1>3, CycleIs
<1>7. PICK gs, v : gs = c.files /\ v = c.rec
  OBVIOUS
<1>8. PICK r : r = Rendered(fs[p], rec[x], x)
  OBVIOUS
<1>9. /\ fs[p] \in File /\ fs[q] \in File /\ gs[q] \in File /\ gs \in [Path -> File]
      /\ gs[q] = Add(fs[q], r) /\ gs[p] = fs[p] /\ \A z \in Path : z # q => gs[z] = fs[z]
  BY <1>6, <1>7, <1>8
<1>10. PICK n : n = rec[x]
  OBVIOUS
<1>11. n \in Nat /\ rec[y] \in Nat
  BY <1>4, <1>10, OffsetsAre
<1>12. AllBooked(gs, bn)
  BY <1>7, CycleBooked DEF Neat
<1>13. Booked(fs[p], <<s, x>>, bn) /\ Once(fs[p]) /\ Once(fs[q])
  BY <1>5, <1>6 DEF Neat, AllBooked
<1>14. Exact(fs, rec) /\ Sourced(fs) /\ n <= Len(fs[p].lines) /\ rec[y] <= Len(fs[q].lines)
  BY <1>1, <1>4, <1>5, <1>10 DEF Neat
<1>15. \A i \in 1 .. Len(fs[q].lines) : fs[q].lines[i].from = x => From(fs[p], n, fs[q].lines[i].id)
  BY <1>1, <1>3, <1>5, <1>10, <1>14 DEF Exact, ExactOn
<1>16. r \in Seq(Line)
  BY <1>8, <1>9, <1>10, <1>11, RenderedIs
<1>17. Once(gs[q])
  BY <1>4, <1>8, <1>9, <1>10, <1>11, <1>13, <1>15, CopyOnce
<1>18. \A z \in Path : Once(gs[z])
  BY <1>9, <1>17 DEF Neat
<1>19. PICK m : m = Len(fs[p].lines)
  OBVIOUS
<1>20. m \in Nat /\ n <= m /\ v[x] = m
  <2>1. m \in Nat
    BY <1>9, <1>19 DEF File
  <2>2. Moved(fs[p], n) = m
    BY <1>9, <1>11, <1>14, <1>19, MovedIs
  <2> QED
    BY <1>6, <1>7, <1>10, <1>14, <1>19, <2>1, <2>2
<1>21. Grown(fs[q], gs[q])
  BY <1>9, <1>16, AddGrows
<1>22. /\ Len(gs[q].lines) = Len(fs[q].lines) + Len(r)
       /\ \A i \in 1 .. Len(fs[q].lines) : gs[q].lines[i] = fs[q].lines[i]
  <2>1. Len(gs[q].lines) = Len(fs[q].lines) + Len(r)
    <3>1. PICK f, g : f = fs[q] /\ g = gs[q]
      OBVIOUS
    <3>2. f \in File /\ g = Add(f, r)
      BY <1>9, <3>1
    <3>3. Len(g.lines) = Len(f.lines) + Len(r)
      BY <1>16, <3>2, AddIs
    <3> QED
      BY <3>1, <3>3
  <2>2. \A i \in 1 .. Len(fs[q].lines) : gs[q].lines[i] = fs[q].lines[i]
    BY <1>21 DEF Grown
  <2> QED
    BY <2>1, <2>2
<1>23. \A i \in 1 .. Len(r) : gs[q].lines[Len(fs[q].lines) + i] \in {Garbled, r[i]}
  <2>1. \A i \in 1 .. Len(r) : gs[q].lines[Len(fs[q].lines) + i] =
              IF i = 1 /\ fs[q].open # 0 THEN Garbled ELSE r[i]
    BY <1>9, <1>16, AddIs
  <2> QED
    BY <2>1
\* A new line comes from p.
<1>24. ASSUME NEW k \in 1 .. Len(r)
       PROVE  From(fs[p], m, r[k].id)
  <2>1. r[k] # Garbled /\ r[k].from = x /\ Brought(fs[p], n, x, r[k].id)
    BY <1>8, <1>9, <1>10, <1>11, BroughtIs
  <2>2. PICK j \in 1 .. Len(fs[p].lines) : Sends(fs[p], n, x, j) /\ r[k].id = fs[p].lines[j].id
    BY <2>1 DEF Brought
  <2>3. fs[p].lines[j] = Own(r[k].id)
    BY <1>4, <1>9, <1>11, <1>13, <2>2, GoesOwn
  <2>4. j <= m
    BY <1>19, <1>20
  <2> QED
    BY <2>3, <2>4 DEF From
<1>25. ASSUME NEW i \in 1 .. Len(gs[q].lines), gs[q].lines[i].from # "none"
       PROVE  \/ i \in 1 .. Len(fs[q].lines) /\ gs[q].lines[i] = fs[q].lines[i]
              \/ gs[q].lines[i].from = x /\ From(fs[p], m, gs[q].lines[i].id)
  <2>1. Len(fs[q].lines) \in Nat /\ Len(r) \in Nat
    BY <1>9, <1>16 DEF File
  <2>2. CASE i \in 1 .. Len(fs[q].lines)
    BY <1>22, <2>2
  <2>3. CASE i \notin 1 .. Len(fs[q].lines)
    <3>1. PICK k \in 1 .. Len(r) : i = Len(fs[q].lines) + k
      <4>1. i - Len(fs[q].lines) \in 1 .. Len(r) /\ i = Len(fs[q].lines) + (i - Len(fs[q].lines))
        BY <1>22, <2>1, <2>3
      <4> QED
        BY <4>1
    <3>2. gs[q].lines[i] \in {Garbled, r[k]}
      BY <1>23, <3>1
    <3>3. gs[q].lines[i] = r[k]
      BY <1>25, <3>2, LinesAre
    <3>4. r[k].from = x
      BY <1>8, <1>9, <1>10, <1>11, BroughtIs
    <3> QED
      BY <1>24, <3>3, <3>4
  <2> QED
    BY <2>2, <2>3
<1>26. ExactOn(gs, v, x)
  <2> SUFFICES ASSUME NEW i \in 1 .. Len(gs[q].lines), gs[q].lines[i].from = x
               PROVE  From(gs[p], v[x], gs[q].lines[i].id)
    BY <1>3, <1>5, <1>6, <1>7 DEF ExactOn
  <2>1. x # "none"
    BY SidesAre
  <2>2. From(fs[p], m, gs[q].lines[i].id)
    <3>1. CASE i \in 1 .. Len(fs[q].lines) /\ gs[q].lines[i] = fs[q].lines[i]
      <4>1. From(fs[p], n, gs[q].lines[i].id)
        BY <1>15, <3>1
      <4> QED
        BY <1>9, <1>11, <1>20, <4>1, FromGrows, GrownItself
    <3> QED
      BY <1>25, <2>1, <3>1
  <2> QED
    BY <1>9, <1>20, <2>2
<1>27. ExactOn(gs, v, y)
  <2> SUFFICES ASSUME NEW i \in 1 .. Len(gs[p].lines), gs[p].lines[i].from = y
               PROVE  From(gs[q], v[y], gs[p].lines[i].id)
    BY <1>4, <1>5, <1>6, <1>7 DEF ExactOn
  <2>1. ExactOn(fs, rec, y)
    BY <1>4, <1>14 DEF Exact
  <2>2. From(fs[q], rec[y], fs[p].lines[i].id)
    BY <1>1, <1>4, <1>5, <1>9, <2>1 DEF ExactOn
  <2>3. From(gs[q], rec[y], fs[p].lines[i].id)
    BY <1>9, <1>11, <1>21, <2>2, FromGrows
  <2> QED
    BY <1>6, <1>7, <1>9, <2>3
<1>28. Exact(gs, v)
  BY <1>4, <1>26, <1>27 DEF Exact
<1>29. \A z \in Side : v[z] <= Len(gs[<<v.session, z>>].lines)
  <2>1. v[x] <= Len(gs[p].lines)
    BY <1>9, <1>19, <1>20
  <2>2. v[y] <= Len(gs[q].lines)
    <3>1. Len(fs[q].lines) \in Nat /\ Len(r) \in Nat /\ v[y] = rec[y]
      BY <1>6, <1>7, <1>9, <1>16 DEF File
    <3> QED
      BY <1>11, <1>14, <1>22, <3>1
  <2> QED
    BY <1>4, <1>5, <1>6, <1>7, <2>1, <2>2
<1>30. Sourced(gs)
  <2> SUFFICES ASSUME NEW u \in Paired, NEW z \in Side, NEW a, a = <<u, z>>, NEW b, b = <<u, Other(z)>>,
                      NEW i \in 1 .. Len(gs[a].lines), gs[a].lines[i].from # "none"
               PROVE  From(gs[b], Len(gs[b].lines), gs[a].lines[i].id)
    BY DEF Sourced, SourcedAt
  <2>1. a \in Path /\ b \in Path
    BY PairIs
  <2>2. fs[a] \in File /\ fs[b] \in File /\ gs[a] \in File /\ gs[b] \in File
    BY <1>9, <2>1
  <2>3. Grown(fs[b], gs[b])
    BY <1>9, <1>21, <2>1, <2>2, GrownItself
  <2>4. Len(fs[b].lines) \in Nat /\ Len(gs[b].lines) \in Nat /\ Len(fs[b].lines) <= Len(gs[b].lines)
    BY <2>2, <2>3 DEF File, Grown
  <2>5. CASE i \in 1 .. Len(fs[a].lines) /\ gs[a].lines[i] = fs[a].lines[i]
    <3>1. From(fs[b], Len(fs[b].lines), gs[a].lines[i].id)
      BY <1>14, <2>5 DEF Sourced, SourcedAt
    <3> QED
      BY <2>2, <2>3, <2>4, <3>1, FromGrows
  <2>6. CASE a # q
    BY <1>9, <2>1, <2>5, <2>6
  <2>7. CASE a = q /\ gs[q].lines[i].from = x /\ From(fs[p], m, gs[q].lines[i].id)
    <3>1. u = s /\ z = y
      BY <1>5, <2>7
    <3>2. b = p
      BY <1>4, <1>5, <3>1
    <3> QED
      BY <1>9, <1>19, <2>7, <3>2
  <2> QED
    BY <1>25, <2>5, <2>6, <2>7
<1> QED
  BY <1>7, <1>12, <1>18, <1>28, <1>29, <1>30 DEF Neat

\* Both cycles of a sync.
LEMMA SyncNeat ==
  ASSUME NEW rec \in BridgeRecord, rec.paired, rec.session \in Paired, NEW fs \in [Path -> File],
         NEW bn, Neat(fs, rec, bn),
         NEW there, there = Cycle(rec, fs, "desktop"),
         NEW back, back = Cycle(there.rec, there.files, "mobile")
  PROVE  Neat(back.files, back.rec, bn)
<1>1. "desktop" \in Side /\ "mobile" \in Side
  BY DEF Side
<1>2. Neat(there.files, there.rec, bn)
  BY <1>1, CycleNeat
<1>3. there.rec \in BridgeRecord /\ there.rec.paired /\ there.rec.session \in Paired
      /\ there.files \in [Path -> File]
  BY <1>1, CycleIs
<1> QED
  BY <1>1, <1>2, <1>3, CycleNeat

-----------------------------------------------------------------------------
(* BridgeSync: what the two tasks have of one agent *)

On(w, a) == w.agent = a /\ w.at \in {"sync", "set", "turn", "run"}
\* The task is about to write back the record of a sync that went well.
Ready(w, a) == w.at = "set" /\ w.agent = a /\ w.ok /\ w.rec.paired

\* While a record of two files is in the state or the chat has one, the poller has
\* no other, unless it is the one that the chat is at.
ApartFor(a) ==
  /\ On(work[Handler], a) /\ work[Handler].rec.paired => bridge[a].paired
  /\ bridge[a].paired => \A r : HasIn(work[Poller], a, r) => r.paired \/ r = Empty
  /\ On(work[Handler], a) /\ ~work[Handler].rec.paired =>
       \A r : HasIn(work[Poller], a, r) /\ r.paired => bridge[a].paired \/ bridge[a] = work[Handler].rec
  /\ work[Handler].left[a] = Empty
  /\ On(work[Poller], a) => work[Poller].left[a] = Empty
Apart == \A a \in FileAgent : ApartFor(a)

\* A task goes on with its record, or with the one a sync made of it.
Moves(t, w, a) ==
  /\ On(w, a) => /\ On(work[t], a) /\ w.rec.paired = work[t].rec.paired
                 /\ w.rec.paired \/ w.rec = work[t].rec
  /\ w.left[a] \in {work[t].left[a], Empty}
\* It goes on with the very record, before or after it is written.
Carries(t, w, a) ==
  /\ On(w, a) => On(work[t], a) /\ w.rec = work[t].rec
  /\ w.left[a] \in {work[t].left[a], Empty}
  /\ ~Ready(w, a) /\ ~Ready(work[t], a)

\* A task that only carries its record on moves within its turn.
LEMMA CarriesMoves ==
  ASSUME NEW t \in Task, NEW w, NEW a, Carries(t, w, a), work[t] \in Working
  PROVE  Moves(t, w, a)
BY DEF Carries, Moves, Working, BridgeRecord

\* The two tasks stay apart when one moves within its turn.
LEMMA ApartMoves ==
  ASSUME NEW a \in FileAgent, ApartFor(a), NEW t \in Task, NEW w, Gets(t, w), Moves(t, w, a),
         bridge'[a] = bridge[a]
  PROVE  ApartFor(a)'
<1>1. Poller # Handler /\ Poller \in Task /\ Handler \in Task /\ ~Empty.paired /\ a \in Bridged
  BY BridgeAssumption, EmptyIs DEF Task, Bridged
<1>2. \A r : HasIn(w, a, r) /\ r # Empty => \E q : HasIn(work[t], a, q) /\ q.paired = r.paired
                                                 /\ (r.paired \/ r = q)
  BY DEF HasIn, Moves, On
<1>3. CASE t = Handler
  <2>1. work'[Handler] = w /\ work'[Poller] = work[Poller]
    BY <1>1, <1>3 DEF Gets
  <2> QED
    BY <1>1, <1>3, <2>1 DEF ApartFor, Moves
<1>4. CASE t = Poller
  <2>1. work'[Poller] = w /\ work'[Handler] = work[Handler]
    BY <1>1, <1>4 DEF Gets
  <2>2. bridge[a].paired => \A r : HasIn(w, a, r) => r.paired \/ r = Empty
    BY <1>2, <1>4 DEF ApartFor
  <2>3. On(work[Handler], a) /\ ~work[Handler].rec.paired =>
       \A r : HasIn(w, a, r) /\ r.paired => bridge[a].paired \/ bridge[a] = work[Handler].rec
    BY <1>1, <1>2, <1>4 DEF ApartFor
  <2>4. On(w, a) => w.left[a] = Empty
    BY <1>4 DEF ApartFor, Moves
  <2> QED
    BY <2>1, <2>2, <2>3, <2>4 DEF ApartFor
<1> QED
  BY <1>3, <1>4 DEF Task

\* What each action lets its task carry: the lemmas down to MovesSync.
LEMMA CarriesStamp ==
  ASSUME BridgeTypes, NEW t \in Task, Stamp(t) \/ LeaveRecord(t)
  PROVE  \E w : Gets(t, w) /\ \A a \in FileAgent : Carries(t, w, a)
<1>1. WorkOK
  BY DEF BridgeTypes
<1>2. CASE Stamp(t)
  <2>1. PICK w : Gets(t, w) /\ Same(w, work[t]) /\ w.at = "set" /\ w.rec = work[t].rec /\ w.ok = work[t].ok
    BY <1>1, <1>2, StampGets
  <2>2. work[t].at = "sync" /\ ~Copied(work[t].agent, work[t].rec)
    BY <1>2 DEF Stamp
  <2>3. \A a \in FileAgent : Carries(t, w, a)
    BY <2>1, <2>2 DEF Carries, Same, On, Ready, Copied
  <2> QED
    BY <2>1, <2>3
<1>3. CASE LeaveRecord(t)
  <2>1. Gets(t, Idle) /\ ~work[t].ok
    BY <1>1, <1>3, LeaveGets
  <2>2. \A a \in FileAgent : Carries(t, Idle, a)
    BY <2>1, IdleIs DEF Carries, On, Ready, Bridged
  <2> QED
    BY <2>1, <2>2
<1> QED
  BY <1>2, <1>3

LEMMA CarriesTurn ==
  ASSUME BridgeTypes, Answered \/ TurnInPlace \/ Materialize \/ PutBack
  PROVE  \E w : Gets(Handler, w) /\ \A a \in FileAgent : Carries(Handler, w, a)
<1>1. WorkOK
  BY DEF BridgeTypes
<1>2. work[Handler].at \in {"ask", "turn", "run"}
  BY DEF Answered, TurnInPlace, Materialize, PutBack
<1>3. CASE Gets(Handler, Idle)
  <2>1. \A a \in FileAgent : Carries(Handler, Idle, a)
    BY <1>2, IdleIs DEF Carries, On, Ready, Bridged
  <2> QED
    BY <1>3, <2>1
<1>4. CASE Answered /\ ~Gets(Handler, Idle)
  <2>1. PICK w : Gets(Handler, w) /\ w.agent \in StampAgent /\ w.left = work[Handler].left
    BY <1>1, <1>4, AnsweredGets
  <2>2. \A a \in FileAgent : w.agent # a
    BY <2>1, BridgeAssumption
  <2>3. \A a \in FileAgent : Carries(Handler, w, a)
    BY <1>2, <2>1, <2>2 DEF Carries, On, Ready
  <2> QED
    BY <2>1, <2>3
<1>5. CASE (TurnInPlace \/ PutBack) /\ ~Gets(Handler, Idle)
  <2>1. TurnEnds(work) /\ work[Handler].at \in {"turn", "run"}
    BY <1>5 DEF TurnInPlace, PutBack
  <2>2. PICK w : /\ Gets(Handler, w) /\ w.at = "sync" /\ w.agent = work[Handler].agent
                 /\ w.rec = work[Handler].rec /\ w.left = work[Handler].left
    BY <1>1, <1>5, <2>1, TurnGets
  <2>3. \A a \in FileAgent : Carries(Handler, w, a)
    BY <2>1, <2>2 DEF Carries, On, Ready
  <2> QED
    BY <2>2, <2>3
<1>6. CASE Materialize
  <2>1. PICK w : /\ Gets(Handler, w) /\ w.at = "run" /\ w.agent = work[Handler].agent
                 /\ w.rec = work[Handler].rec /\ w.left = work[Handler].left /\ work[Handler].at = "turn"
    BY <1>1, <1>6, MaterializeGets
  <2>2. \A a \in FileAgent : Carries(Handler, w, a)
    BY <2>1 DEF Carries, On, Ready
  <2> QED
    BY <2>1, <2>2
<1> QED
  BY <1>3, <1>4, <1>5, <1>6

LEMMA MovesSync ==
  ASSUME BridgeTypes, NEW t \in Task, Sync(t) \/ SyncFails(t)
  PROVE  \E w : Gets(t, w) /\ \A a \in FileAgent : Moves(t, w, a)
<1>1. WorkOK /\ file \in [Path -> File] /\ work[t].at = "sync" /\ Tasking(t, work[t])
  BY DEF BridgeTypes, FilesOK, Sync, SyncFails, WorkOK
<1>2. PICK o : o = work[t].rec
  OBVIOUS
<1>3. o \in BridgeRecord /\ (o.paired => o.session \in Paired)
  BY <1>1, <1>2 DEF Tasking, Fit
<1>4. CASE Sync(t)
  <2>1. PICK back, w :
           /\ Gets(t, w) /\ Same(w, work[t]) /\ w.rec = back.rec /\ back.rec.paired /\ o.paired
           /\ back.rec \in BridgeRecord
    BY <1>1, <1>2, <1>4, SyncGets
  <2>2. w.rec.paired = work[t].rec.paired
    BY <1>2, <1>3, <2>1 DEF BridgeRecord
  <2>3. \A a \in FileAgent : Moves(t, w, a)
    BY <1>1, <2>1, <2>2 DEF Moves, Same, On
  <2> QED
    BY <2>1, <2>3
<1>5. CASE SyncFails(t)
  <2>1. PICK there, w :
           /\ there = Cycle(o, file, "desktop")
           /\ Gets(t, w) /\ Same(w, work[t]) /\ FailsWith(t, there, w.rec)
    BY <1>1, <1>2, <1>5, SyncFailsGets
  <2>2. w.rec = o \/ (w.rec = there.rec /\ o.paired)
    BY <1>2, <2>1 DEF FailsWith
  <2>3. w.rec.paired = o.paired /\ (w.rec.paired \/ w.rec = o)
    <3>1. CASE w.rec = o
      BY <3>1
    <3>2. CASE w.rec = there.rec /\ o.paired
      <4>1. there.rec.paired /\ there.rec \in BridgeRecord
        BY <1>1, <1>3, <2>1, <3>2, CycleIs DEF Side
      <4> QED
        BY <1>3, <3>2, <4>1 DEF BridgeRecord
    <3> QED
      BY <2>2, <3>1, <3>2
  <2>4. \A a \in FileAgent : Moves(t, w, a)
    BY <1>1, <1>2, <2>1, <2>3 DEF Moves, Same, On
  <2> QED
    BY <2>1, <2>4
<1> QED
  BY <1>4, <1>5

\* Nothing of a task that is done is left.
LEMMA IdleNot ==
  ASSUME NEW a \in FileAgent
  PROVE  /\ ~On(Idle, a) /\ ~Ready(Idle, a) /\ Idle.left[a] = Empty /\ ~Empty.paired
         /\ \A r : HasIn(Idle, a, r) => r = Empty
BY IdleIs, EmptyIs DEF On, Ready, HasIn, Bridged

\* A task that stores its record gives the agent up.
LEMMA ApartSet ==
  ASSUME BridgeTypes, NEW t \in Task, SetRecord(t), NEW a \in FileAgent, ApartFor(a)
  PROVE  ApartFor(a)'
<1>1. WorkOK /\ RecordsOK /\ Poller # Handler /\ a \in Bridged /\ Poller \in Task /\ Handler \in Task
  BY BridgeAssumption DEF BridgeTypes, Bridged, Task
<1>2. PICK w : /\ Gets(t, w)
               /\ \/ w = Idle
                  \/ w.at = "next" /\ t = Poller /\ w.left = work[t].left
                  \/ /\ w.at = "turn" /\ t = Handler /\ w.left = Idle.left
                     /\ w.agent = work[t].agent /\ w.rec = work[t].rec
  BY <1>1, SetGets
<1>3. PICK o : o = work[t].rec
  OBVIOUS
<1>4. work[t].at = "set" /\ work[t].agent \in Bridged /\ o # Empty
  <2>1. work[t].at = "set" /\ Tasking(t, work[t])
    BY <1>1 DEF SetRecord, WorkOK
  <2>2. o.session \in SessionId
    BY <1>3, <2>1 DEF Tasking
  <2> QED
    BY <2>1, <2>2, EmptyIs, BridgeAssumption DEF Tasking
<1>5. bridge' = [bridge EXCEPT ![work[t].agent] = o]
  BY <1>3 DEF SetRecord
<1>6. On(w, a) => t = Handler /\ work[t].agent = a /\ w.rec = o
  BY <1>2, <1>3, IdleNot DEF On
<1>7. w.left[a] \in {work[t].left[a], Empty}
  BY <1>2, IdleNot
<1>8. CASE work[t].agent # a
  <2>1. bridge'[a] = bridge[a]
    BY <1>1, <1>5, <1>8 DEF RecordsOK
  <2>2. Moves(t, w, a)
    BY <1>6, <1>7, <1>8 DEF Moves
  <2> QED
    BY <1>2, <2>1, <2>2, ApartMoves
<1>9. CASE work[t].agent = a
  <2>1. bridge'[a] = o
    BY <1>1, <1>5, <1>9 DEF RecordsOK
  <2>2. On(work[t], a)
    BY <1>4, <1>9 DEF On
  <2>3. CASE t = Poller
    <3>1. work'[Poller] = w /\ work'[Handler] = work[Handler]
      BY <1>1, <1>2, <2>3 DEF Gets
    <3>2. ~On(w, a) /\ w.left[a] = Empty
      BY <1>1, <1>6, <1>7, <2>2, <2>3 DEF ApartFor
    <3>3. \A r : HasIn(w, a, r) => r = Empty
      BY <3>2 DEF HasIn, On
    <3>4. On(work[Handler], a) /\ work[Handler].rec.paired => o.paired
      <4>1. HasIn(work[Poller], a, o)
        BY <1>3, <2>2, <2>3 DEF HasIn, On
      <4> QED
        BY <1>4, <4>1 DEF ApartFor
    <3> QED
      BY <2>1, <3>1, <3>2, <3>3, <3>4, IdleNot DEF ApartFor
  <2>4. CASE t = Handler
    <3>1. work'[Handler] = w /\ work'[Poller] = work[Poller]
      BY <1>1, <1>2, <2>4 DEF Gets
    <3>2. o.paired => bridge[a].paired
      BY <1>3, <2>2, <2>4 DEF ApartFor
    <3>3. o.paired => \A r : HasIn(work[Poller], a, r) => r.paired \/ r = Empty
      BY <3>2 DEF ApartFor
    <3>4. w.left[a] = Empty
      BY <1>7, <2>4 DEF ApartFor
    <3>5. On(work[Poller], a) => work[Poller].left[a] = Empty
      BY DEF ApartFor
    <3> QED
      BY <1>6, <2>1, <3>1, <3>3, <3>4, <3>5 DEF ApartFor
  <2> QED
    BY <2>3, <2>4 DEF Task
<1> QED
  BY <1>8, <1>9

LEMMA ApartPoll ==
  ASSUME BridgeTypes, Tick \/ NextRecord, NEW a \in FileAgent, ApartFor(a)
  PROVE  ApartFor(a)'
<1>1. WorkOK /\ RecordsOK /\ Poller # Handler /\ a \in Bridged /\ Poller \in Task /\ Handler \in Task
  BY BridgeAssumption DEF BridgeTypes, Bridged, Task
<1>2. bridge' = bridge
  BY DEF Tick, NextRecord, records
<1>3. CASE Tick
  <2>1. PICK w : Gets(Poller, w) /\ w.at = "next" /\ w.left = bridge
    BY <1>1, <1>3, TickGets
  <2>2. work'[Poller] = w /\ work'[Handler] = work[Handler]
    BY <1>1, <2>1 DEF Gets
  <2>3. ~On(w, a) /\ \A r : HasIn(w, a, r) => r = bridge[a]
    BY <2>1 DEF On, HasIn
  <2> QED
    BY <1>2, <2>2, <2>3 DEF ApartFor
<1>4. CASE NextRecord /\ Gets(Poller, Idle)
  <2>1. Moves(Poller, Idle, a)
    BY IdleNot DEF Moves
  <2> QED
    BY <1>1, <1>2, <1>4, <2>1, ApartMoves
<1>5. ASSUME NEW b \in Bridged, NEW w, Gets(Poller, w), w.at = "sync", w.agent = b,
             w.rec = work[Poller].left[b], w.left[b] = Empty,
             \A c \in Bridged : c # b => w.left[c] = work[Poller].left[c]
      PROVE  ApartFor(a)'
  <2>1. work'[Poller] = w /\ work'[Handler] = work[Handler]
    BY <1>1, <1>5 DEF Gets
  <2>2. \A r : HasIn(w, a, r) => HasIn(work[Poller], a, r) \/ r = Empty
    BY <1>1, <1>5 DEF HasIn
  <2>3. On(w, a) => w.left[a] = Empty
    BY <1>5 DEF On
  <2>4. bridge[a].paired => \A r : HasIn(w, a, r) => r.paired \/ r = Empty
    BY <2>2 DEF ApartFor
  <2>5. On(work[Handler], a) /\ ~work[Handler].rec.paired =>
       \A r : HasIn(w, a, r) /\ r.paired => bridge[a].paired \/ bridge[a] = work[Handler].rec
    BY <2>2, IdleNot DEF ApartFor
  <2> QED
    BY <1>2, <2>1, <2>3, <2>4, <2>5 DEF ApartFor
<1>6. CASE NextRecord
  BY <1>1, <1>4, <1>5, <1>6, NextGets
<1> QED
  BY <1>3, <1>6

LEMMA ApartBegin ==
  ASSUME BridgeTypes, NEW b \in Bridged, Flush(b) \/ Forward(b) \/ AskStamped(b),
         NEW a \in FileAgent, ApartFor(a)
  PROVE  ApartFor(a)'
<1>1. WorkOK /\ RecordsOK /\ Poller # Handler /\ a \in Bridged /\ Poller \in Task /\ Handler \in Task
  BY BridgeAssumption DEF BridgeTypes, Bridged, Task
<1>2. bridge' = bridge
  BY DEF Flush, Forward, AskStamped, records
<1>3. \/ Begin(b, "sync", "flush") /\ b \in InUse
      \/ Begin(b, "sync", "message") /\ b \in InUse
      \/ Begin(b, "ask", "ask") /\ b \in StampAgent
  BY DEF Flush, Forward, AskStamped
<1>4. PICK w : Gets(Handler, w) /\ w.agent = b /\ w.rec = bridge[b] /\ w.left = Idle.left
  <2>1. CASE Begin(b, "sync", "flush") /\ b \in InUse
    BY <1>1, <2>1, BeginGets
  <2>2. CASE Begin(b, "sync", "message") /\ b \in InUse
    BY <1>1, <2>2, BeginGets
  <2>3. CASE Begin(b, "ask", "ask") /\ b \in StampAgent
    BY <1>1, <2>3, BeginGets
  <2> QED
    BY <1>3, <2>1, <2>2, <2>3
<1>5. work'[Handler] = w /\ work'[Poller] = work[Poller]
  BY <1>1, <1>4 DEF Gets
<1>6. On(w, a) => w.rec = bridge[a]
  BY <1>4 DEF On
<1>7. w.left[a] = Empty
  BY <1>4, IdleNot
<1>8. bridge[a].paired => \A r : HasIn(work[Poller], a, r) => r.paired \/ r = Empty
  BY DEF ApartFor
<1>9. On(work[Poller], a) => work[Poller].left[a] = Empty
  BY DEF ApartFor
<1> QED
  BY <1>2, <1>5, <1>6, <1>7, <1>8, <1>9 DEF ApartFor

LEMMA ApartOther ==
  ASSUME BridgeTypes, NEW a \in FileAgent, ApartFor(a),
         \/ \E p \in Writers : AgentWrites(p) \/ AgentFinishes(p)
         \/ \E b \in Bridged : \E s \in SessionId : Select(b, s)
         \/ RunWrites \/ OtherFlush \/ Restart \/ UNCHANGED bvars
  PROVE  ApartFor(a)'
<1>1. a \in Bridged /\ WorkOK /\ RecordsOK /\ FilesOK /\ Poller \in Task /\ Handler \in Task
  BY DEF Bridged, BridgeTypes, Task
<1>2. CASE (\E p \in Writers : AgentWrites(p) \/ AgentFinishes(p)) \/ UNCHANGED bvars \/ OtherFlush \/ RunWrites
  <2>1. work' = work /\ bridge' = bridge
    BY <1>2 DEF AgentWrites, AgentFinishes, OtherFlush, RunWrites, bvars, records
  <2> QED
    BY <2>1 DEF ApartFor
<1>3. CASE Restart
  <2>1. work'[Handler] = Idle /\ work'[Poller] = Idle
    BY <1>1, <1>3 DEF Restart
  <2> QED
    BY <2>1, IdleNot DEF ApartFor
<1>4. ASSUME NEW b \in Bridged, NEW s \in SessionId, Select(b, s)
      PROVE  ApartFor(a)'
  <2>1. PICK n \in Nat : n = FileEnd(b, s)
    BY <1>1, FileEndIs
  <2>2. PICK f : f = FALSE
    OBVIOUS
  <2>3. PICK v : v = NewRecord(s, f, n)
    OBVIOUS
  <2>4. v.paired = FALSE
    <3>1. f \in BOOLEAN /\ s \in SessionId \cup {NoSession}
      BY <2>2
    <3> QED
      BY <2>2, <2>3, <3>1, NewIs
  <2>5. work' = work /\ bridge' = [bridge EXCEPT ![b] = v] /\ work[Handler].at = "idle"
    BY <1>4, <2>1, <2>2, <2>3 DEF Select, Free
  <2>6. bridge'[a] = bridge[a] \/ bridge'[a] = v
    BY <1>1, <2>5 DEF RecordsOK
  <2>7. ~On(work[Handler], a)
    BY <2>5 DEF On
  <2> QED
    BY <2>4, <2>5, <2>6, <2>7 DEF ApartFor
<1> QED
  BY <1>2, <1>3, <1>4

\* A sync of the poller and one of the handler have one agent in their hands only when
\* blurred says so.
LEMMA ApartStep ==
  ASSUME BridgeTypes, [BridgeNext]_bvars, Apart
  PROVE  Apart'
<1> SUFFICES ASSUME NEW a \in FileAgent, ApartFor(a)
             PROVE  ApartFor(a)'
  BY DEF Apart
<1>1. Handler \in Task /\ work \in [Task -> Working]
  BY DEF Task, BridgeTypes, WorkOK
<1>2. CASE \E t \in Task : Sync(t) \/ SyncFails(t)
  <2>1. PICK t \in Task : Sync(t) \/ SyncFails(t)
    BY <1>2
  <2>2. PICK w : Gets(t, w) /\ Moves(t, w, a)
    BY <2>1, MovesSync
  <2>3. bridge' = bridge
    BY <2>1 DEF Sync, SyncFails, records
  <2> QED
    BY <2>2, <2>3, ApartMoves
<1>3. CASE \E t \in Task : Stamp(t) \/ LeaveRecord(t)
  <2>1. PICK t \in Task : Stamp(t) \/ LeaveRecord(t)
    BY <1>3
  <2>2. PICK w : Gets(t, w) /\ Carries(t, w, a)
    BY <2>1, CarriesStamp
  <2>3. bridge' = bridge
    BY <2>1 DEF Stamp, LeaveRecord, records
  <2> QED
    BY <1>1, <2>2, <2>3, ApartMoves, CarriesMoves
<1>4. CASE Answered \/ TurnInPlace \/ Materialize \/ PutBack
  <2>1. PICK w : Gets(Handler, w) /\ Carries(Handler, w, a)
    BY <1>4, CarriesTurn
  <2>2. bridge' = bridge
    BY <1>4 DEF Answered, TurnInPlace, Materialize, PutBack, records
  <2> QED
    BY <1>1, <2>1, <2>2, ApartMoves, CarriesMoves
<1>5. CASE \E t \in Task : SetRecord(t)
  BY <1>5, ApartSet
<1>6. CASE Tick \/ NextRecord
  BY <1>6, ApartPoll
<1>7. CASE \E b \in Bridged : Flush(b) \/ Forward(b) \/ AskStamped(b)
  BY <1>7, ApartBegin
<1>8. CASE \/ \E p \in Writers : AgentWrites(p) \/ AgentFinishes(p)
           \/ \E b \in Bridged : \E s \in SessionId : Select(b, s)
           \/ RunWrites \/ OtherFlush \/ Restart \/ UNCHANGED bvars
  BY <1>8, ApartOther
<1> QED
  BY <1>2, <1>3, <1>4, <1>5, <1>6, <1>7, <1>8, BridgeActs

-----------------------------------------------------------------------------
(* BridgeSync: files between two syncs, while nothing is blurred or put back *)

Sharp == ~blurred /\ replaced = {}
OnceEach == (\A x \in Path : Once(file[x])) /\ Once(copy.has)
\* Only agents write.
Untouched == \A x \in Path : Written(file[x], file'[x])

LEMMA WrittenItself ==
  ASSUME NEW f \in File
  PROVE  Written(f, f)
BY GrownItself DEF Written, File

LEMMA NoFileOnce == Once(NoFile)
<1>1. 0 \notin 1 .. MaxLines
  BY BridgeAssumption
<1> QED
  BY <1>1, NoCopyIs DEF Once

\* What has been blurred or put back stays so.
LEMMA SharpBefore ==
  ASSUME BridgeTypes, BookOK, [BridgeNext]_bvars, Sharp'
  PROVE  Sharp
<1>1. replaced = {}
  BY BridgeStep DEF Grows, Sharp
<1>2. blurred \in BOOLEAN /\ ~blurred'
  BY DEF BridgeTypes, FilesOK, Sharp
<1>3. ~blurred
  <2>1. CASE \E t \in Task : Stamp(t) \/ Sync(t) \/ SyncFails(t) \/ LeaveRecord(t) \/ SetRecord(t)
    BY <1>2, <2>1 DEF Stamp, Sync, SyncFails, LeaveRecord, SetRecord
  <2>2. CASE Answered \/ TurnInPlace \/ Materialize \/ RunWrites \/ PutBack
    BY <1>2, <2>2 DEF Answered, TurnInPlace, Materialize, RunWrites, PutBack
  <2>3. CASE \E a \in Bridged : (\E s \in SessionId : Select(a, s)) \/ Flush(a) \/ Forward(a) \/ AskStamped(a)
    BY <1>2, <2>3 DEF Select, Flush, Forward, AskStamped
  <2>4. CASE (\E p \in Writers : AgentWrites(p) \/ AgentFinishes(p)) \/ Tick \/ NextRecord
             \/ OtherFlush \/ UNCHANGED bvars \/ Restart
    BY <1>2, <2>4 DEF AgentWrites, AgentFinishes, Tick, NextRecord, OtherFlush, Restart, bvars
  <2> QED
    BY <2>1, <2>2, <2>3, <2>4, BridgeActs
<1> QED
  BY <1>1, <1>3 DEF Sharp

\* An agent that writes one file moves no line and copies none.
LEMMA OneFileUntouched ==
  ASSUME FilesOK, OnceEach, NEW p \in Path, NEW g \in File, file' = [file EXCEPT ![p] = g],
         Written(file[p], g), Once(g)
  PROVE  Untouched /\ \A x \in Path : Once(file'[x])
<1>1. file \in [Path -> File]
  BY DEF FilesOK
<1>2. ASSUME NEW x \in Path
      PROVE  Written(file[x], file'[x]) /\ Once(file'[x])
  <2>1. CASE x = p
    BY <1>1, <2>1
  <2>2. CASE x # p
    BY <1>1, <2>2, WrittenItself DEF OnceEach
  <2> QED
    BY <2>1, <2>2
<1> QED
  BY <1>2 DEF Untouched

LEMMA AgentUntouched ==
  ASSUME BridgeTypes, BookOK, OnceEach, NEW p \in Writers, AgentWrites(p) \/ AgentFinishes(p)
  PROVE  Untouched /\ OnceEach'
<1>1. /\ file \in [Path -> File] /\ born \in Seq(Path) /\ p \in Path /\ file[p] \in File
      /\ Len(born) \in Nat /\ caps.lines \in 0 .. MaxLines /\ MaxLines \in Nat
      /\ Booked(file[p], p, born) /\ Len(born) <= caps.lines /\ Once(file[p]) /\ FilesOK
  BY BridgeAssumption DEF BridgeTypes, FilesOK, BookOK, AllBooked, OnceEach
<1>2. copy' = copy
  BY DEF AgentWrites, AgentFinishes
<1>3. CASE AgentWrites(p)
  <2>1. PICK n : n = NextLine
    OBVIOUS
  <2>2. n = Len(born) + 1 /\ n \in 1 .. MaxLines
    BY <1>1, <1>3, <2>1 DEF AgentWrites, NextLine
  <2>3. PICK g : /\ file' = [file EXCEPT ![p] = g]
                 /\ \/ g = Add(file[p], <<Own(n)>>)
                    \/ file[p].open = 0 /\ g = [file[p] EXCEPT !.open = n]
    <3>1. \/ file' = [file EXCEPT ![p] = Add(file[p], <<Own(n)>>)]
          \/ file[p].open = 0 /\ file' = [file EXCEPT ![p] = [file[p] EXCEPT !.open = n]]
      BY <1>3, <2>1 DEF AgentWrites
    <3> QED
      BY <3>1
  <2>4. PICK b2 : b2 = Append(born, p)
    OBVIOUS
  <2>5. g \in File /\ Written(file[p], g) /\ Once(g)
    <3>1. PICK f : f = file[p]
      OBVIOUS
    <3>2. f \in File /\ Booked(f, p, born) /\ Once(f) /\ born \in Seq(Path) /\ p \in Path
      BY <1>1, <3>1
    <3>3. g = Add(f, <<Own(n)>>) \/ (f.open = 0 /\ g = [f EXCEPT !.open = n])
      BY <2>3, <3>1
    <3>4. g \in File /\ Written(f, g) /\ (Once(f) => Once(g))
      BY <2>2, <2>4, <3>2, <3>3, OwnAdded
    <3> QED
      BY <3>1, <3>2, <3>4
  <2> QED
    BY <1>1, <1>2, <2>3, <2>5, OneFileUntouched DEF OnceEach
<1>4. CASE AgentFinishes(p)
  <2>1. PICK g : g = [lines |-> Append(file[p].lines, Own(file[p].open)), open |-> 0]
    OBVIOUS
  <2>2. file[p].open \in 1 .. MaxLines /\ file' = [file EXCEPT ![p] = g]
    BY <1>4, <2>1 DEF AgentFinishes
  <2>3. g \in File /\ Written(file[p], g) /\ Once(g)
    BY <1>1, <2>1, <2>2, OwnEnded
  <2> QED
    BY <1>1, <1>2, <2>2, <2>3, OneFileUntouched DEF OnceEach
<1> QED
  BY <1>3, <1>4

\* A run of codex in a copy writes to the copy, which takes the transcript's place at
\* the end.
LEMMA RunUntouched ==
  ASSUME BridgeTypes, BookOK, OnceEach, Materialize \/ RunWrites \/ (PutBack /\ replaced' = {})
  PROVE  Untouched /\ OnceEach'
<1>1. WorkOK /\ FilesOK /\ file \in [Path -> File] /\ Handler \in Task
  BY DEF BridgeTypes, FilesOK, Task
<1>2. file' = file => Untouched
  BY <1>1, WrittenItself DEF Untouched
<1>3. CASE Materialize
  <2>1. PICK p : p = <<work[Handler].rec.session, "desktop">>
    OBVIOUS
  <2>2. p \in Path
    BY <1>1, <1>3, <2>1 DEF Materialize, WorkOK, Tasking, Path
  <2>3. copy'.has = file[p] /\ file' = file
    BY <1>3, <2>1 DEF Materialize
  <2> QED
    BY <1>2, <2>2, <2>3 DEF OnceEach
<1>4. work[Handler].at = "run" => copy.path \in Path
  <2>1. work[Handler].at = "run" => work[Handler].rec.session \in SessionId
    BY <1>1 DEF WorkOK, Tasking
  <2> QED
    BY <1>1, <2>1 DEF FilesOK, Path
<1>5. CASE RunWrites
  <2>1. PICK p : p = copy.path
    OBVIOUS
  <2>2. p \in Path
    BY <1>4, <1>5, <2>1 DEF RunWrites
  <2>3. /\ born \in Seq(Path) /\ copy.has \in File /\ Len(born) \in Nat /\ Once(copy.has)
        /\ copy \in [path : Path \cup {<<>>}, had : File, has : File]
        /\ caps.lines \in 0 .. MaxLines /\ MaxLines \in Nat
        /\ Booked(copy.has, p, born) /\ Len(born) < caps.lines
    BY <1>1, <1>5, <2>1, BridgeAssumption DEF FilesOK, BookOK, RunWrites, OnceEach
  <2>4. PICK n : n = NextLine
    OBVIOUS
  <2>5. n = Len(born) + 1 /\ n \in 1 .. MaxLines
    BY <2>3, <2>4 DEF NextLine
  <2>6. PICK g : g = Add(copy.has, <<Own(n)>>)
    OBVIOUS
  <2>7. PICK b2 : b2 = Append(born, p)
    OBVIOUS
  <2>8. Once(g)
    BY <2>2, <2>3, <2>5, <2>6, <2>7, OwnAdded
  <2>9. copy' = [copy EXCEPT !.has = g] /\ file' = file
    BY <1>5, <2>4, <2>6 DEF RunWrites
  <2>10. copy'.has = g
    BY <2>3, <2>9
  <2> QED
    BY <1>2, <2>8, <2>9, <2>10 DEF OnceEach
<1>6. CASE PutBack /\ replaced' = {}
  <2>1. PICK p, g : p = copy.path /\ g = copy.has
    OBVIOUS
  <2>2. p \in Path /\ file' = [file EXCEPT ![p] = g] /\ copy' = NoCopy
        /\ replaced' = IF file[p] = copy.had THEN replaced ELSE replaced \cup {p}
    BY <1>4, <1>6, <2>1 DEF PutBack
  <2>3. file[p] = copy.had
    BY <1>6, <2>2
  <2>4. g \in File /\ Written(file[p], g) /\ Once(g)
    BY <1>1, <2>1, <2>3 DEF FilesOK, BookOK, OnceEach
  <2> QED
    BY <1>1, <2>2, <2>4, OneFileUntouched, NoFileOnce, NoCopyIs DEF OnceEach
<1> QED
  BY <1>3, <1>5, <1>6

\* Where no sync runs, files only get what agents write.
LEMMA UntouchedStep ==
  ASSUME BridgeTypes, BookOK, [BridgeNext]_bvars, Sharp', OnceEach, \A t \in Task : ~Sync(t)
  PROVE  Untouched /\ OnceEach'
<1>1. file \in [Path -> File] /\ ~blurred' /\ replaced' = {}
  BY DEF BridgeTypes, FilesOK, Sharp
<1>2. file' = file /\ copy' = copy => Untouched /\ OnceEach'
  BY <1>1, WrittenItself DEF Untouched, OnceEach
<1>3. CASE \E t \in Task : Stamp(t) \/ SyncFails(t) \/ LeaveRecord(t) \/ SetRecord(t)
  BY <1>1, <1>2, <1>3 DEF Stamp, SyncFails, LeaveRecord, SetRecord, files
<1>4. CASE Answered \/ TurnInPlace \/ Tick \/ NextRecord
  BY <1>2, <1>4 DEF Answered, TurnInPlace, Tick, NextRecord, files
<1>5. CASE \E a \in Bridged : (\E s \in SessionId : Select(a, s)) \/ Flush(a) \/ Forward(a) \/ AskStamped(a)
  BY <1>2, <1>5 DEF Select, Flush, Forward, AskStamped, files
<1>6. CASE OtherFlush \/ UNCHANGED bvars
  BY <1>2, <1>6 DEF OtherFlush, bvars, files
<1>7. CASE Restart
  <2>1. file' = file /\ copy' = NoCopy
    BY <1>7 DEF Restart
  <2> QED
    BY <1>1, <2>1, WrittenItself, NoFileOnce, NoCopyIs DEF Untouched, OnceEach
<1>8. CASE Materialize \/ RunWrites \/ PutBack
  BY <1>1, <1>8, RunUntouched
<1>9. CASE \E p \in Writers : AgentWrites(p) \/ AgentFinishes(p)
  BY <1>9, AgentUntouched
<1> QED
  BY <1>3, <1>4, <1>5, <1>6, <1>7, <1>8, <1>9, BridgeActs

-----------------------------------------------------------------------------
(* BridgeSync: a record is exact, or will be replaced, or would be noticed *)

\* The record in the state is exact, or a task brings back one that is; what a task
\* has is exact, or the other task brings back one first, or it would go back.
AccountedFor(a) ==
  /\ bridge[a].paired => Exact(file, bridge[a]) \/ \E t \in Task : Ready(work[t], a)
  /\ \A t \in Task : Ready(work[t], a) => Exact(file, work[t].rec)
  /\ \A t \in Task : \A r : HasIn(work[t], a, r) /\ r.paired =>
       \/ Exact(file, r)
       \/ \E u \in Task \ {t} : Ready(work[u], a)
       \/ GoesBack(bridge[a], r)

\* A step leaves the lines of a's records as they are.
Kept(a) == \A r : Known(a, r) /\ r.paired /\ Exact(file, r) => Exact(file', r)

\* A task goes on with what it had, or reads the record of the state.
ReadsOn(t, w, a) ==
  /\ ~Ready(w, a) /\ ~Ready(work[t], a)
  /\ \A r : HasIn(w, a, r) /\ r.paired => HasIn(work[t], a, r) \/ r = bridge[a]

\* An exact record stays exact while no sync runs.
LEMMA UntouchedKept ==
  ASSUME BridgeTypes, BridgeTypes', Untouched, NEW a \in FileAgent
  PROVE  Kept(a)
<1> SUFFICES ASSUME NEW r, Known(a, r), r.paired, Exact(file, r)
             PROVE  Exact(file', r)
  BY DEF Kept
<1>1. r \in BridgeRecord /\ r.session \in Paired
  BY KnownIs
<1>2. file \in [Path -> File] /\ file' \in [Path -> File]
  BY DEF BridgeTypes, FilesOK
<1>3. \A x \in Side : Written(file[<<r.session, x>>], file'[<<r.session, x>>])
  BY <1>1, PairIs DEF Untouched
<1> QED
  BY <1>1, <1>2, <1>3, ExactStays

LEMMA ReadyHas ==
  ASSUME NEW w, NEW a, Ready(w, a)
  PROVE  HasIn(w, a, w.rec) /\ w.rec.paired
BY DEF Ready, HasIn

LEMMA CarriesTakes ==
  ASSUME NEW t \in Task, NEW w, NEW a \in FileAgent, Carries(t, w, a)
  PROVE  ReadsOn(t, w, a)
BY IdleNot DEF Carries, ReadsOn, HasIn, On

\* Every inexact record will be replaced: the lemmas down to AccountedRestart, for a
\* step that leaves the tasks alone, that moves one, that stores a record, that chooses
\* a session and that restarts the daemon.
LEMMA AccountedStays ==
  ASSUME NEW a \in FileAgent, AccountedFor(a), Kept(a), work' = work, bridge'[a] = bridge[a]
  PROVE  AccountedFor(a)'
<1>1. bridge'[a].paired => Exact(file', bridge'[a]) \/ \E t \in Task : Ready(work'[t], a)
  BY DEF AccountedFor, Kept, Known
<1>2. ASSUME NEW t \in Task, Ready(work'[t], a)
      PROVE  Exact(file', work'[t].rec)
  BY <1>2, ReadyHas DEF AccountedFor, Kept, Known
<1>3. ASSUME NEW t \in Task, NEW r, HasIn(work'[t], a, r), r.paired
      PROVE  \/ Exact(file', r)
             \/ \E u \in Task \ {t} : Ready(work'[u], a)
             \/ GoesBack(bridge'[a], r)
  BY <1>3 DEF AccountedFor, Kept, Known
<1> QED
  BY <1>1, <1>2, <1>3 DEF AccountedFor

LEMMA AccountedTakes ==
  ASSUME NEW a \in FileAgent, AccountedFor(a), Kept(a), NEW t \in Task, NEW w, Gets(t, w),
         ReadsOn(t, w, a), bridge'[a] = bridge[a]
  PROVE  AccountedFor(a)'
<1>1. \A u \in Task : Ready(work'[u], a) <=> Ready(work[u], a)
  BY DEF Gets, ReadsOn
<1>2. bridge'[a].paired => Exact(file', bridge'[a]) \/ \E u \in Task : Ready(work'[u], a)
  BY <1>1 DEF AccountedFor, Kept, Known
<1>3. ASSUME NEW u \in Task, Ready(work'[u], a)
      PROVE  Exact(file', work'[u].rec)
  <2>1. Ready(work[u], a) /\ work'[u] = work[u]
    BY <1>1, <1>3 DEF Gets, ReadsOn
  <2> QED
    BY <2>1, ReadyHas DEF AccountedFor, Kept, Known
<1>4. ASSUME NEW u \in Task, NEW r, HasIn(work'[u], a, r), r.paired
      PROVE  \/ Exact(file', r)
             \/ \E v \in Task \ {u} : Ready(work'[v], a)
             \/ GoesBack(bridge'[a], r)
  <2>1. HasIn(work[u], a, r) \/ (u = t /\ r = bridge[a])
    BY <1>4 DEF Gets, ReadsOn
  <2>2. Known(a, r)
    BY <2>1 DEF Known
  <2>3. CASE HasIn(work[u], a, r)
    BY <1>1, <1>4, <2>2, <2>3 DEF AccountedFor, Kept
  <2>4. CASE u = t /\ r = bridge[a]
    <3>1. Exact(file, r) \/ \E v \in Task : Ready(work[v], a)
      BY <1>4, <2>4 DEF AccountedFor
    <3>2. CASE Exact(file, r)
      BY <1>4, <2>2, <3>2 DEF Kept
    <3>3. CASE \E v \in Task : Ready(work[v], a)
      BY <1>1, <2>4, <3>3 DEF ReadsOn
    <3> QED
      BY <3>1, <3>2, <3>3
  <2> QED
    BY <2>1, <2>3, <2>4
<1> QED
  BY <1>2, <1>3, <1>4 DEF AccountedFor

\* A sync that fails before it writes leaves the record as it was.
LEMMA CarriesFail ==
  ASSUME BridgeTypes, NEW t \in Task, SyncFails(t), ~blurred'
  PROVE  \E w : Gets(t, w) /\ \A a \in FileAgent : Carries(t, w, a)
<1>1. WorkOK /\ file \in [Path -> File]
  BY DEF BridgeTypes, FilesOK
<1>2. PICK there, w :
         /\ Gets(t, w) /\ Same(w, work[t]) /\ w.at = "set" /\ w.ok = FALSE
         /\ work[t].at = "sync" /\ FailsWith(t, there, w.rec)
  BY <1>1, SyncFailsGets
<1>3. w.rec = work[t].rec
  BY <1>2 DEF FailsWith
<1>4. \A a \in FileAgent : Carries(t, w, a)
  BY <1>2, <1>3 DEF Carries, Same, On, Ready
<1> QED
  BY <1>2, <1>4

\* Tick, NextRecord and Begin read records.
LEMMA TakesPoll ==
  ASSUME BridgeTypes, Tick \/ NextRecord
  PROVE  \E w : Gets(Poller, w) /\ \A a \in FileAgent : ReadsOn(Poller, w, a)
<1>1. WorkOK /\ RecordsOK /\ \A a \in FileAgent : a \in Bridged
  BY DEF BridgeTypes, Bridged
<1>2. work[Poller].at \in {"idle", "next"}
  BY DEF Tick, NextRecord
<1>3. CASE Tick
  <2>1. PICK w : Gets(Poller, w) /\ w.at = "next" /\ w.left = bridge
    BY <1>1, <1>3, TickGets
  <2>2. \A a \in FileAgent : ReadsOn(Poller, w, a)
    BY <1>2, <2>1 DEF ReadsOn, Ready, HasIn
  <2> QED
    BY <2>1, <2>2
<1>4. CASE NextRecord /\ Gets(Poller, Idle)
  <2>1. \A a \in FileAgent : ReadsOn(Poller, Idle, a)
    BY <1>2, IdleNot DEF ReadsOn, Ready
  <2> QED
    BY <1>4, <2>1
<1>5. ASSUME NEW b \in Bridged, NEW w, Gets(Poller, w), w.at = "sync", w.agent = b,
             w.rec = work[Poller].left[b], w.left[b] = Empty,
             \A c \in Bridged : c # b => w.left[c] = work[Poller].left[c]
      PROVE  \A a \in FileAgent : ReadsOn(Poller, w, a)
  <2> SUFFICES ASSUME NEW a \in FileAgent
               PROVE  ReadsOn(Poller, w, a)
    OBVIOUS
  <2>1. \A r : HasIn(w, a, r) /\ r.paired => HasIn(work[Poller], a, r)
    BY <1>1, <1>5, IdleNot DEF HasIn
  <2> QED
    BY <1>2, <1>5, <2>1 DEF ReadsOn, Ready
<1>6. CASE NextRecord /\ ~Gets(Poller, Idle)
  <2>1. \E b \in Bridged : \E w :
                 /\ Gets(Poller, w) /\ w.at = "sync" /\ w.agent = b /\ w.rec = work[Poller].left[b]
                 /\ w.left[b] = Empty /\ \A c \in Bridged : c # b => w.left[c] = work[Poller].left[c]
    BY <1>1, <1>6, NextGets
  <2> QED
    BY <1>5, <2>1
<1> QED
  BY <1>3, <1>4, <1>6

LEMMA TakesBegin ==
  ASSUME BridgeTypes, NEW b \in Bridged, Flush(b) \/ Forward(b) \/ AskStamped(b)
  PROVE  \E w : Gets(Handler, w) /\ \A a \in FileAgent : ReadsOn(Handler, w, a)
<1>1. WorkOK /\ RecordsOK
  BY DEF BridgeTypes
<1>2. \/ Begin(b, "sync", "flush") /\ b \in InUse
      \/ Begin(b, "sync", "message") /\ b \in InUse
      \/ Begin(b, "ask", "ask") /\ b \in StampAgent
  BY DEF Flush, Forward, AskStamped
<1>3. PICK w : Gets(Handler, w) /\ w.at \in {"sync", "ask"} /\ w.agent = b /\ w.rec = bridge[b]
               /\ w.left = Idle.left
  <2>1. CASE Begin(b, "sync", "flush") /\ b \in InUse
    BY <1>1, <2>1, BeginGets
  <2>2. CASE Begin(b, "sync", "message") /\ b \in InUse
    BY <1>1, <2>2, BeginGets
  <2>3. CASE Begin(b, "ask", "ask") /\ b \in StampAgent
    BY <1>1, <2>3, BeginGets
  <2> QED
    BY <1>2, <2>1, <2>2, <2>3
<1>4. work[Handler].at = "idle"
  BY DEF Flush, Forward, AskStamped, Free
<1>5. \A a \in FileAgent : ReadsOn(Handler, w, a)
  <2> SUFFICES ASSUME NEW a \in FileAgent
               PROVE  ReadsOn(Handler, w, a)
    OBVIOUS
  <2>1. \A r : HasIn(w, a, r) /\ r.paired => r = bridge[a]
    BY <1>3, IdleNot DEF HasIn
  <2> QED
    BY <1>3, <1>4, <2>1 DEF ReadsOn, Ready
<1> QED
  BY <1>3, <1>5

UptoAll == \A a \in FileAgent : \A r : Known(a, r) /\ r.paired => Upto(file, r)

LEMMA AccountedSet ==
  ASSUME BridgeTypes, Apart, NEW t \in Task, SetRecord(t), ~blurred', NEW a \in FileAgent, AccountedFor(a)
  PROVE  AccountedFor(a)'
<1>1. WorkOK /\ RecordsOK /\ Poller # Handler /\ a \in Bridged /\ Poller \in Task /\ Handler \in Task
  BY BridgeAssumption DEF BridgeTypes, Bridged, Task
<1>2. PICK w : /\ Gets(t, w)
               /\ \/ w = Idle
                  \/ w.at = "next" /\ t = Poller /\ w.left = work[t].left
                  \/ /\ w.at = "turn" /\ t = Handler /\ w.left = Idle.left
                     /\ w.agent = work[t].agent /\ w.rec = work[t].rec
  BY <1>1, SetGets
<1>3. PICK o : o = work[t].rec
  OBVIOUS
<1>4. PICK b : b = bridge[a]
  OBVIOUS
<1>5. work[t].at = "set" /\ file' = file
  BY DEF SetRecord, files
<1>6. bridge' = [bridge EXCEPT ![work[t].agent] = o]
  BY <1>3 DEF SetRecord
<1>7. ~Ready(w, a)
  BY <1>2, IdleNot DEF Ready
<1>8. \A r : HasIn(w, a, r) /\ r.paired => HasIn(work[t], a, r)
  BY <1>2, <1>5, IdleNot DEF HasIn, On
<1>9. Kept(a)
  BY <1>5 DEF Kept
<1>10. CASE work[t].agent # a
  <2>1. bridge'[a] = bridge[a]
    BY <1>1, <1>6, <1>10 DEF RecordsOK
  <2>2. ReadsOn(t, w, a)
    BY <1>7, <1>8, <1>10 DEF ReadsOn, Ready
  <2> QED
    BY <1>2, <1>9, <2>1, <2>2, AccountedTakes
<1>11. CASE work[t].agent = a
  <2>1. bridge'[a] = o
    BY <1>1, <1>6, <1>11 DEF RecordsOK
  <2>2. On(work[t], a) /\ HasIn(work[t], a, o)
    BY <1>3, <1>5, <1>11 DEF On, HasIn
  <2>3. ~GoesBack(b, o)
    BY <1>3, <1>4, <1>11 DEF SetRecord
  <2>4. o \in BridgeRecord /\ b \in BridgeRecord /\ Fit(a, o) /\ Fit(a, b)
    <3>1. Known(a, o) /\ Known(a, b)
      BY <1>4, <2>2 DEF Known
    <3> QED
      BY <3>1, KnownIs
  <2>5. \A u \in Task : u # t => work'[u] = work[u] /\ (Ready(work'[u], a) <=> Ready(work[u], a))
    BY <1>2 DEF Gets
  <2>6. work'[t] = w
    BY <1>2 DEF Gets
  <2>7. o.paired => Exact(file', o) \/ \E u \in Task : Ready(work'[u], a)
    <3>1. o.paired => Exact(file, o) \/ (\E u \in Task \ {t} : Ready(work[u], a)) \/ GoesBack(b, o)
      BY <1>4, <2>2 DEF AccountedFor
    <3> QED
      BY <1>5, <2>3, <2>5, <3>1
  <2>8. ASSUME NEW u \in Task, Ready(work'[u], a)
        PROVE  Exact(file', work'[u].rec)
    <3>1. u # t
      BY <1>7, <2>6, <2>8
    <3> QED
      BY <1>5, <2>5, <2>8, <3>1 DEF AccountedFor
  <2>9. ASSUME NEW u \in Task, NEW r, HasIn(work'[u], a, r), r.paired
        PROVE  \/ Exact(file', r)
               \/ \E v \in Task \ {u} : Ready(work'[v], a)
               \/ GoesBack(o, r)
    <3>1. HasIn(work[u], a, r)
      BY <1>8, <2>5, <2>6, <2>9
    <3>2. r \in BridgeRecord /\ Fit(a, r) /\ r.session \in Paired
      BY <2>9, <3>1, KnownIs DEF Known
    <3>3. \A x \in Side : r[x] \in Nat /\ o[x] \in Nat /\ b[x] \in Nat /\ ~(b[x] > o[x])
      BY <2>3, <2>4, <3>2, OffsetsAre DEF GoesBack
    <3>4. \/ Exact(file, r)
          \/ \E v \in Task \ {u} : Ready(work[v], a)
          \/ GoesBack(b, r)
      BY <1>4, <2>9, <3>1 DEF AccountedFor
    <3>5. CASE Exact(file, r)
      BY <1>5, <3>5
    <3>6. CASE \E v \in Task \ {u} : Ready(work[v], a)
      <4>1. PICK v \in Task \ {u} : Ready(work[v], a)
        BY <3>6
      <4>2. CASE v # t
        BY <2>5, <4>1, <4>2
      <4>3. CASE v = t
        <5>1. Exact(file, o) /\ o.paired
          BY <1>3, <4>1, <4>3 DEF AccountedFor, Ready
        <5>2. o.session = r.session
          BY <2>4, <2>9, <3>2, <5>1 DEF Fit
        <5>3. CASE \A x \in Side : o[x] <= r[x]
          <6>1. Exact(file, r)
            BY <2>4, <3>2, <5>1, <5>2, <5>3, ExactFurther DEF BridgeTypes, FilesOK
          <6> QED
            BY <1>5, <6>1
        <5>4. CASE \E x \in Side : ~(o[x] <= r[x])
          BY <3>3, <5>4 DEF GoesBack
        <5> QED
          BY <5>3, <5>4
      <4> QED
        BY <4>2, <4>3
    <3>7. CASE \E x \in Side : b[x] > r[x]
      <4>1. PICK x \in Side : b[x] > r[x]
        BY <3>7
      <4>2. o[x] > r[x]
        BY <3>3, <4>1
      <4> QED
        BY <4>2 DEF GoesBack
    <3>8. CASE b.session # r.session
      <4>1. CASE o.session # r.session
        BY <2>9, <4>1 DEF GoesBack
      <4>2. CASE o.session = r.session
        <5>1. ~o.paired
          BY <2>3, <3>8, <4>2 DEF GoesBack
        <5>2. ~b.paired
          BY <2>4, <2>9, <3>2, <3>8 DEF Fit
        <5>3. ApartFor(a)
          BY DEF Apart
        <5>4. CASE u = t
          <6>1. work[t].left[a] = Empty
            BY <2>2, <5>3 DEF ApartFor, Task
          <6> QED
            BY <1>3, <2>9, <3>1, <5>1, <5>4, <6>1, IdleNot DEF HasIn
        <5>5. CASE t = Handler /\ u = Poller
          <6>1. b = o
            BY <1>3, <1>4, <2>2, <2>9, <3>1, <5>1, <5>2, <5>3, <5>5 DEF ApartFor
          <6> QED
            BY <3>8, <4>2, <6>1
        <5>6. CASE t = Poller /\ u = Handler
          <6>1. work[Handler].left[a] = Empty
            BY <5>3 DEF ApartFor
          <6>2. On(work[Handler], a) /\ work[Handler].rec.paired
            BY <2>9, <3>1, <5>6, <6>1, IdleNot DEF HasIn, On
          <6> QED
            BY <1>4, <5>2, <5>3, <6>2 DEF ApartFor
        <5> QED
          BY <5>4, <5>5, <5>6 DEF Task
      <4> QED
        BY <4>1, <4>2
    <3> QED
      BY <3>4, <3>5, <3>6, <3>7, <3>8 DEF GoesBack
  <2> QED
    BY <2>1, <2>7, <2>8, <2>9 DEF AccountedFor
<1> QED
  BY <1>10, <1>11

LEMMA AccountedSelect ==
  ASSUME BridgeTypes, NEW b \in Bridged, NEW s \in SessionId, Select(b, s), Sourced(file), UptoAll,
         NEW a \in FileAgent, AccountedFor(a)
  PROVE  AccountedFor(a)'
<1>1. WorkOK /\ RecordsOK /\ FilesOK /\ a \in Bridged /\ file \in [Path -> File]
  BY DEF BridgeTypes, Bridged, FilesOK
<1>2. PICK n \in Nat : n = FileEnd(b, s)
  BY <1>1, FileEndIs
<1>3. PICK f : f = FALSE
  OBVIOUS
<1>4. PICK v : v = NewRecord(s, f, n)
  OBVIOUS
<1>5. v.paired = FALSE /\ v.session = s /\ v.desktop = n /\ v.mobile = n
  <2>1. f \in BOOLEAN /\ s \in SessionId \cup {NoSession}
    BY <1>3
  <2> QED
    BY <1>3, <1>4, <2>1, NewIs
<1>6. work' = work /\ file' = file /\ bridge' = [bridge EXCEPT ![b] = v]
  BY <1>2, <1>3, <1>4 DEF Select, files
<1>7. Kept(a)
  BY <1>6 DEF Kept
<1>8. CASE b # a
  <2>1. bridge'[a] = bridge[a]
    BY <1>1, <1>6, <1>8 DEF RecordsOK
  <2> QED
    BY <1>6, <1>7, <2>1, AccountedStays
<1>9. CASE b = a
  <2>1. bridge'[a] = v
    BY <1>1, <1>6, <1>9 DEF RecordsOK
  <2>2. ASSUME NEW t \in Task, NEW r, HasIn(work[t], a, r), r.paired
        PROVE  Exact(file, r) \/ GoesBack(v, r)
    <3>1. Known(a, r)
      BY <2>2 DEF Known
    <3>2. r \in BridgeRecord /\ r.session \in Paired
      BY <2>2, <3>1, KnownIs
    <3> SUFFICES ASSUME ~GoesBack(v, r)
                 PROVE  Exact(file, r)
      OBVIOUS
    <3>3. s = r.session /\ ~(n > r.desktop)
      <4>1. v["desktop"] = n /\ r["desktop"] = r.desktop /\ "desktop" \in Side
        BY <1>5 DEF Side
      <4> QED
        BY <1>5, <2>2, <4>1 DEF GoesBack
    <3>4. PICK p, q : p = <<s, "desktop">> /\ q = <<s, "mobile">>
      OBVIOUS
    <3>5. p \in Path /\ q \in Path /\ file[p] \in File /\ file[q] \in File
      <4>1. p \in Path /\ q \in Path
        BY <3>2, <3>3, <3>4, PairIs DEF Side
      <4> QED
        BY <1>1, <4>1
    <3>6. n = Len(file[p].lines) /\ r.desktop \in Nat /\ r.mobile \in Nat /\ n <= r.desktop
      <4>1. n = Len(file[p].lines)
        BY <1>2, <1>9, <3>4 DEF FileEnd
      <4> QED
        BY <3>2, <3>3, <4>1 DEF BridgeRecord
    <3>7. ExactOn(file, r, "desktop")
      <4> SUFFICES ASSUME NEW i \in 1 .. Len(file[q].lines), file[q].lines[i].from = "desktop"
                   PROVE  From(file[p], r.desktop, file[q].lines[i].id)
        BY <3>3, <3>4 DEF ExactOn, Other
      <4>1. "mobile" \in Side /\ Other("mobile") = "desktop" /\ SourcedAt(file, s, "mobile")
        BY <3>2, <3>3 DEF Side, Other, Sourced
      <4>2. From(file[p], n, file[q].lines[i].id)
        BY <3>4, <3>6, <4>1 DEF SourcedAt
      <4> QED
        BY <3>5, <3>6, <4>2, FromGrows, GrownItself
    <3>8. ExactOn(file, r, "mobile")
      <4> SUFFICES ASSUME NEW i \in 1 .. Len(file[p].lines), file[p].lines[i].from = "mobile"
                   PROVE  From(file[q], r.mobile, file[p].lines[i].id)
        BY <3>3, <3>4 DEF ExactOn, Other
      <4>1. Upto(file, r) /\ i <= r.desktop
        BY <2>2, <3>1, <3>6 DEF UptoAll
      <4> QED
        BY <3>3, <3>4, <4>1 DEF Upto
    <3> QED
      BY <3>7, <3>8 DEF Exact, Side
  <2>3. \A t \in Task : Ready(work'[t], a) => Exact(file', work'[t].rec)
    BY <1>6 DEF AccountedFor
  <2>4. ASSUME NEW t \in Task, NEW r, HasIn(work'[t], a, r), r.paired
        PROVE  \/ Exact(file', r)
               \/ \E u \in Task \ {t} : Ready(work'[u], a)
               \/ GoesBack(bridge'[a], r)
    BY <1>6, <2>1, <2>2, <2>4
  <2> QED
    BY <1>5, <2>1, <2>3, <2>4 DEF AccountedFor
<1> QED
  BY <1>8, <1>9

LEMMA AccountedRestart ==
  ASSUME BridgeTypes, Restart, ~blurred', NEW a \in FileAgent, AccountedFor(a)
  PROVE  AccountedFor(a)'
<1>1. bridge' = bridge /\ file' = file /\ \A t \in Task : work[t].at # "set" /\ work'[t] = Idle
  BY DEF Restart
<1>2. bridge'[a].paired => Exact(file', bridge'[a])
  BY <1>1 DEF AccountedFor, Ready
<1> QED
  BY <1>1, <1>2, IdleNot DEF AccountedFor

\* A sync writes to the two files of its session.
LEMMA SyncElsewhere ==
  ASSUME NEW rec \in BridgeRecord, rec.paired, rec.session \in Paired, NEW fs \in [Path -> File],
         NEW there, there = Cycle(rec, fs, "desktop"),
         NEW back, back = Cycle(there.rec, there.files, "mobile")
  PROVE  \A x \in Path : x[1] # rec.session => back.files[x] = fs[x]
<1>1. "desktop" \in Side /\ "mobile" \in Side
  BY DEF Side
<1>2. /\ there.rec \in BridgeRecord /\ there.rec.session = rec.session /\ there.rec.paired
      /\ there.files \in [Path -> File]
      /\ \A x \in Path : x # PathOf(rec, Other("desktop")) => there.files[x] = fs[x]
  BY <1>1, CycleIs
<1>3. \A x \in Path : x # PathOf(there.rec, Other("mobile")) => back.files[x] = there.files[x]
  BY <1>1, <1>2, CycleIs
<1>4. Other("desktop") \in Side /\ Other("mobile") \in Side
  BY <1>1, SidesAre
<1>5. PathOf(rec, Other("desktop"))[1] = rec.session
  BY <1>4, PathsAre
<1>6. PathOf(there.rec, Other("mobile"))[1] = rec.session
  BY <1>2, <1>4, PathsAre
<1> QED
  BY <1>2, <1>3, <1>5, <1>6

SharpInv ==
  /\ OnceEach /\ Sourced(file) /\ UptoAll
  /\ \A a \in FileAgent : AccountedFor(a)

\* A sync by a task on its own leaves exact offsets and no line twice.
LEMMA SharpSync ==
  ASSUME BridgeTypes, BridgeTypes', BookOK, Grows, AllCovered, Apart, Sharp, SharpInv,
         NEW t \in Task, Sync(t), ~blurred'
  PROVE  SharpInv'
<1>1. WorkOK /\ RecordsOK /\ file \in [Path -> File] /\ file' \in [Path -> File]
  BY DEF BridgeTypes, FilesOK
<1>2. PICK o : o = work[t].rec
  OBVIOUS
<1>3. PICK c : c = work[t].agent
  OBVIOUS
<1>4. PICK there, back, w :
         /\ there = Cycle(o, file, "desktop")
         /\ back = Cycle(there.rec, there.files, "mobile")
         /\ file' = back.files
         /\ Gets(t, w) /\ Same(w, work[t]) /\ w.at = "set" /\ w.ok = work[t].ok
         /\ w.rec = back.rec
         /\ back.rec \in BridgeRecord /\ back.rec.session = o.session /\ back.rec.paired
         /\ work[t].at = "sync" /\ o.paired /\ c \in FileAgent
  BY <1>1, <1>2, <1>3, SyncGets
<1>5. bridge' = bridge /\ saved' = saved /\ copy' = copy /\ born' = born
  BY DEF Sync, records
<1>6. bridge[c] = o /\ \A u \in Task : ~Ready(work[u], c)
  <2>1. ~Overlaps(t)
    BY DEF Sync
  <2> QED
    BY <1>2, <1>3, <1>4, <2>1 DEF Overlaps, Ready
<1>7. Known(c, o) /\ o \in BridgeRecord /\ o.session \in Paired /\ o.session = InitialSession[c]
  <2>1. Known(c, o)
    BY <1>6 DEF Known
  <2> QED
    BY <1>4, <2>1, KnownIs DEF Fit
<1>8. Exact(file, o)
  BY <1>4, <1>6 DEF SharpInv, AccountedFor
<1>9. Neat(file, o, born)
  <2>1. ASSUME NEW x \in Side
        PROVE  o[x] <= Len(file[<<o.session, x>>].lines)
    <3>1. CoveredOn(file, replaced, o, x)
      BY <1>4, <1>7 DEF AllCovered, Covered
    <3>2. PathOf(o, x) = <<o.session, x>> /\ replaced = {}
      BY <1>4, <1>7, PathsAre DEF Sharp
    <3> QED
      BY <3>1, <3>2 DEF CoveredOn
  <2> QED
    BY <1>8, <2>1 DEF Neat, BookOK, SharpInv, OnceEach
<1>10. Neat(file', back.rec, born)
  BY <1>1, <1>4, <1>7, <1>9, SyncNeat
<1>11. OnceEach'
  BY <1>5, <1>10 DEF Neat, OnceEach, SharpInv
<1>12. Sourced(file')
  BY <1>10 DEF Neat
<1>13. Exact(file', w.rec)
  BY <1>4, <1>10 DEF Neat
<1>14. ASSUME NEW a \in FileAgent, NEW r, Known(a, r)', r.paired
       PROVE  Upto(file', r)
  <2>1. Known(a, r) \/ (c = a /\ r = w.rec)
    BY <1>3, <1>4, <1>5, <1>14, SyncedHas
  <2>2. CASE r = w.rec
    BY <1>13, <2>2, ExactTells
  <2>3. CASE Known(a, r)
    <3>1. r \in BridgeRecord /\ r.session \in Paired
      BY <1>14, <2>3, KnownIs
    <3>2. Upto(file, r) /\ CoveredOn(file, replaced, r, "desktop")
      BY <1>14, <2>3 DEF SharpInv, UptoAll, AllCovered, Covered, Side
    <3>3. PathOf(r, "desktop") = <<r.session, "desktop">> /\ replaced = {}
      BY <1>14, <3>1, PathsAre DEF Sharp, Side
    <3>4. r.desktop <= Len(file[<<r.session, "desktop">>].lines)
      BY <3>2, <3>3 DEF CoveredOn
    <3>5. \A x \in Side : Grown(file[<<r.session, x>>], file'[<<r.session, x>>])
      <4>1. replaced' = {}
        BY DEF Sync, Sharp
      <4> QED
        BY <3>1, <4>1, PairIs DEF Grows
    <3> QED
      BY <1>1, <3>1, <3>2, <3>4, <3>5, UptoStays
  <2> QED
    BY <2>1, <2>2, <2>3
<1>15. ASSUME NEW a \in FileAgent
       PROVE  AccountedFor(a)'
  <2>1. AccountedFor(a) /\ a \in Bridged /\ bridge'[a] = bridge[a]
    BY <1>5 DEF SharpInv, Bridged
  <2>2. CASE a # c
    <3>1. ReadsOn(t, w, a)
      BY <1>3, <1>4, <2>2 DEF ReadsOn, Ready, HasIn, Same
    <3>2. Kept(a)
      <4> SUFFICES ASSUME NEW r, Known(a, r), r.paired, Exact(file, r)
                   PROVE  Exact(file', r)
        BY DEF Kept
      <4>1. r \in BridgeRecord /\ r.session \in Paired /\ r.session = InitialSession[a]
        BY KnownIs DEF Fit
      <4>2. r.session # o.session
        BY <1>4, <1>7, <2>2, <4>1, BridgeAssumption
      <4>3. ASSUME NEW x \in Side
            PROVE  Written(file[<<r.session, x>>], file'[<<r.session, x>>])
        <5>1. <<r.session, x>> \in Path /\ <<r.session, x>>[1] = r.session
          BY <4>1, PairIs
        <5>2. file'[<<r.session, x>>] = file[<<r.session, x>>]
          BY <1>1, <1>4, <1>7, <4>2, <5>1, SyncElsewhere
        <5> QED
          BY <1>1, <5>1, <5>2, WrittenItself
      <4> QED
        BY <1>1, <4>1, <4>3, ExactStays
    <3> QED
      BY <1>4, <2>1, <3>1, <3>2, AccountedTakes
  <2>3. CASE a = c
    <3>1. Ready(w, a) /\ work'[t] = w /\ \A u \in Task : u # t => work'[u] = work[u]
      <4>1. w.ok
        BY <1>1, <1>4 DEF WorkOK, Tasking
      <4> QED
        BY <1>3, <1>4, <2>3, <4>1 DEF Ready, Same, Gets
    <3>2. \A u \in Task : Ready(work'[u], a) => u = t
      BY <1>6, <2>3, <3>1
    <3>3. ASSUME NEW u \in Task, NEW r, HasIn(work'[u], a, r), r.paired
          PROVE  Exact(file', r) \/ \E v \in Task \ {u} : Ready(work'[v], a)
      <4>1. CASE u # t
        BY <3>1, <4>1
      <4>2. CASE u = t
        <5>1. ApartFor(a) /\ On(work[t], a)
          BY <1>3, <1>4, <2>3 DEF Apart, On
        <5>2. w.left[a] = Empty
          BY <1>4, <5>1 DEF ApartFor, Same, Task
        <5>3. r = w.rec
          BY <3>1, <3>3, <4>2, <5>2, IdleNot DEF HasIn
        <5> QED
          BY <1>13, <5>3
      <4> QED
        BY <4>1, <4>2
    <3> QED
      BY <1>13, <3>1, <3>2, <3>3 DEF AccountedFor
  <2> QED
    BY <2>2, <2>3
<1> QED
  BY <1>11, <1>12, <1>14, <1>15 DEF SharpInv, UptoAll

-----------------------------------------------------------------------------
(* BridgeSync: NoneTwice *)

\* A sync that fails brings no new record, unless it leaves blurred set.
LEMMA KnownFail ==
  ASSUME BridgeTypes, NEW t \in Task, SyncFails(t), ~blurred',
         NEW a \in FileAgent, NEW r, r.paired, Known(a, r)'
  PROVE  Known(a, r)
<1>1. PICK w : Gets(t, w) /\ Carries(t, w, a)
  BY CarriesFail
<1>2. bridge' = bridge /\ saved' = saved
  BY DEF SyncFails, records
<1>3. HasIn(w, a, r) => HasIn(work[t], a, r)
  BY <1>1, IdleNot DEF HasIn, Carries, On
<1> QED
  BY <1>1, <1>2, <1>3, KnownOf DEF Known

\* The offsets that account for every copy, for every step but a sync.
LEMMA SharpUpto ==
  ASSUME BridgeTypes, BridgeTypes', [BridgeNext]_bvars, AllCovered, Sharp, Sharp', Untouched, UptoAll,
         \A t \in Task : ~Sync(t)
  PROVE  UptoAll'
<1> SUFFICES ASSUME NEW a \in FileAgent, NEW r, Known(a, r)', r.paired
             PROVE  Upto(file', r)
  BY DEF UptoAll
<1>1. Known(a, r)
  <2>1. CASE \E t \in Task : SyncFails(t)
    BY <2>1, KnownFail DEF Sharp
  <2>2. CASE \A t \in Task : ~SyncFails(t)
    BY <2>2, KnownBefore
  <2> QED
    BY <2>1, <2>2
<1>2. r \in BridgeRecord /\ r.session \in Paired
  BY <1>1, KnownIs
<1>3. Upto(file, r) /\ CoveredOn(file, replaced, r, "desktop")
  BY <1>1 DEF UptoAll, AllCovered, Covered, Side
<1>4. PathOf(r, "desktop") = <<r.session, "desktop">> /\ replaced = {}
  BY <1>2, PathsAre DEF Sharp, Side
<1>5. r.desktop <= Len(file[<<r.session, "desktop">>].lines)
  BY <1>3, <1>4 DEF CoveredOn
<1>6. \A x \in Side : Grown(file[<<r.session, x>>], file'[<<r.session, x>>])
  BY <1>2, PairIs DEF Untouched, Written
<1>7. file \in [Path -> File] /\ file' \in [Path -> File]
  BY DEF BridgeTypes, FilesOK
<1> QED
  BY <1>2, <1>3, <1>5, <1>6, <1>7, UptoStays

\* The records to be replaced, for every step but a sync.
LEMMA SharpAccounted ==
  ASSUME BridgeTypes, [BridgeNext]_bvars, Apart, Sharp', SharpInv,
         \A t \in Task : ~Sync(t), NEW a \in FileAgent, Kept(a)
  PROVE  AccountedFor(a)'
<1>1. AccountedFor(a) /\ Handler \in Task /\ Poller \in Task /\ ~blurred'
  BY DEF SharpInv, Task, Sharp
<1>2. CASE \E t \in Task : Stamp(t) \/ LeaveRecord(t) \/ SyncFails(t)
  <2>1. PICK t \in Task : Stamp(t) \/ LeaveRecord(t) \/ SyncFails(t)
    BY <1>2
  <2>2. \E w : Gets(t, w) /\ \A c \in FileAgent : Carries(t, w, c)
    BY <1>1, <2>1, CarriesStamp, CarriesFail
  <2>3. PICK w : Gets(t, w) /\ Carries(t, w, a)
    BY <2>2
  <2>4. bridge' = bridge
    BY <2>1 DEF Stamp, LeaveRecord, SyncFails, records
  <2>5. ReadsOn(t, w, a)
    BY <2>3, CarriesTakes
  <2> QED
    BY <1>1, <2>3, <2>4, <2>5, AccountedTakes
<1>3. CASE Answered \/ TurnInPlace \/ Materialize \/ PutBack
  <2>1. PICK w : Gets(Handler, w) /\ Carries(Handler, w, a)
    BY <1>3, CarriesTurn
  <2>2. bridge' = bridge
    BY <1>3 DEF Answered, TurnInPlace, Materialize, PutBack, records
  <2>3. ReadsOn(Handler, w, a)
    BY <1>1, <2>1, CarriesTakes
  <2> QED
    BY <1>1, <2>1, <2>2, <2>3, AccountedTakes
<1>4. CASE \E t \in Task : SetRecord(t)
  BY <1>1, <1>4, AccountedSet
<1>5. CASE Tick \/ NextRecord
  <2>1. PICK w : Gets(Poller, w) /\ ReadsOn(Poller, w, a)
    BY <1>5, TakesPoll
  <2>2. bridge' = bridge
    BY <1>5 DEF Tick, NextRecord, records
  <2> QED
    BY <1>1, <2>1, <2>2, AccountedTakes
<1>6. CASE \E b \in Bridged : Flush(b) \/ Forward(b) \/ AskStamped(b)
  <2>1. PICK b \in Bridged : Flush(b) \/ Forward(b) \/ AskStamped(b)
    BY <1>6
  <2>2. PICK w : Gets(Handler, w) /\ ReadsOn(Handler, w, a)
    BY <2>1, TakesBegin
  <2>3. bridge' = bridge
    BY <2>1 DEF Flush, Forward, AskStamped, records
  <2> QED
    BY <1>1, <2>2, <2>3, AccountedTakes
<1>7. CASE \E b \in Bridged : \E s \in SessionId : Select(b, s)
  BY <1>1, <1>7, AccountedSelect DEF SharpInv
<1>8. CASE Restart
  BY <1>1, <1>8, AccountedRestart
<1>9. CASE (\E p \in Writers : AgentWrites(p) \/ AgentFinishes(p)) \/ RunWrites \/ OtherFlush \/ UNCHANGED bvars
  <2>1. work' = work /\ bridge' = bridge
    BY <1>9 DEF AgentWrites, AgentFinishes, RunWrites, OtherFlush, bvars, records
  <2> QED
    BY <1>1, <2>1, AccountedStays
<1> QED
  BY <1>2, <1>3, <1>4, <1>5, <1>6, <1>7, <1>8, <1>9, BridgeActs

\* The sharp part of the invariant, for every step.
LEMMA SharpStep ==
  ASSUME BridgeTypes, BookOK, AllCovered, Apart, Sharp => SharpInv, [BridgeNext]_bvars, Sharp'
  PROVE  SharpInv'
<1>1. BridgeTypes' /\ BookOK' /\ Grows
  BY BridgeStep
<1>2. Sharp /\ SharpInv /\ ~blurred'
  BY SharpBefore DEF Sharp
<1>3. CASE \E t \in Task : Sync(t)
  BY <1>1, <1>2, <1>3, SharpSync
<1>4. CASE \A t \in Task : ~Sync(t)
  <2>1. Untouched /\ OnceEach'
    BY <1>2, <1>4, UntouchedStep DEF SharpInv
  <2>2. Sourced(file')
    BY <1>1, <1>2, <2>1, SourcedStays DEF BridgeTypes, FilesOK, SharpInv, Untouched
  <2>3. UptoAll'
    BY <1>1, <1>2, <1>4, <2>1, SharpUpto DEF SharpInv
  <2>4. \A a \in FileAgent : AccountedFor(a)'
    <3> SUFFICES ASSUME NEW a \in FileAgent
                 PROVE  AccountedFor(a)'
      OBVIOUS
    <3>1. Kept(a)
      BY <1>1, <2>1, UntouchedKept
    <3> QED
      BY <1>2, <1>4, <3>1, SharpAccounted
  <2> QED
    BY <2>1, <2>2, <2>3, <2>4 DEF SharpInv
<1> QED
  BY <1>3, <1>4

\* At the start every file is empty.
LEMMA InitSharp ==
  ASSUME BridgeInit
  PROVE  Apart /\ SharpInv
<1>1. BridgeTypes
  BY InitBridge
<1>2. (\A t \in Task : work[t] = Idle) /\ saved = bridge /\ copy = NoCopy
      /\ \A x \in Path : file[x] = NoFile
  BY DEF BridgeInit
<1>3. Apart
  BY <1>2, IdleNot DEF Apart, ApartFor, Task
<1>4. OnceEach
  BY <1>2, NoFileOnce, NoCopyIs DEF OnceEach
<1>5. \A x \in Path : Len(file[x].lines) = 0
  BY <1>2, NoCopyIs
<1>6. Sourced(file)
  BY <1>5, PairIs DEF Sourced, SourcedAt
<1>7. ASSUME NEW a \in FileAgent, NEW r, Known(a, r), r.paired
      PROVE  Exact(file, r)
  <2>1. r.session \in Paired
    BY <1>1, <1>7, KnownIs
  <2> SUFFICES ASSUME NEW x \in Side
               PROVE  ExactOn(file, r, x)
    BY DEF Exact
  <2>2. Len(file[<<r.session, Other(x)>>].lines) = 0
    BY <1>5, <2>1, PairIs
  <2> QED
    BY <2>2 DEF ExactOn
<1>8. UptoAll
  BY <1>7, ExactTells DEF UptoAll
<1>9. \A a \in FileAgent : AccountedFor(a)
  BY <1>2, <1>7, IdleNot DEF AccountedFor, Known
<1> QED
  BY <1>3, <1>4, <1>6, <1>8, <1>9 DEF SharpInv

-----------------------------------------------------------------------------
(* BridgeSync: the order of copies *)

\* A line of an agent is in its own file once, and not also at its end, unfinished.
OwnLine(f, i) == f.lines[i] # Garbled /\ f.lines[i].from = "none"
Solo(f) ==
  /\ \A i, j \in 1 .. Len(f.lines) : i # j /\ OwnLine(f, i) => f.lines[i] # f.lines[j]
  /\ \A i \in 1 .. Len(f.lines) : f.open \in 1 .. MaxLines => f.lines[i] # Own(f.open)

\* Every copy in g of a line of f has its original there, and by then g has all that
\* comes before it.
HasSources(f, g, x) ==
  \A j \in 1 .. Len(g.lines) : g.lines[j].from = x => From(f, Len(f.lines), g.lines[j].id)
By(g, j, id) == \E i \in 1 .. Len(g.lines) : i <= j /\ g.lines[i].id = id
Led(f, g, x) ==
  \A j \in 1 .. Len(g.lines), n \in 1 .. Len(f.lines), m \in 1 .. Len(f.lines) :
    g.lines[j].from = x /\ f.lines[n] = Own(g.lines[j].id) /\ m <= n /\ OwnLine(f, m)
      => By(g, j, f.lines[m].id)
Ordered(f, g, x) == HasSources(f, g, x) /\ (Whole(g) => Led(f, g, x))

\* So it is in all pairs of files of which none was put back.
OrderAt(fs, gone, s, x) ==
  <<s, x>> \notin gone /\ <<s, Other(x)>> \notin gone => Ordered(fs[<<s, x>>], fs[<<s, Other(x)>>], x)
InOrder(fs, gone) ==
  /\ \A y \in Path : y \notin gone => Solo(fs[y])
  /\ \A s \in Paired : \A x \in Side : OrderAt(fs, gone, s, x)

\* A line of an agent has one place in its file.
LEMMA OnePlace ==
  ASSUME NEW f \in File, Solo(f), NEW id \in 1 .. MaxLines,
         NEW i \in 1 .. Len(f.lines), f.lines[i] = Own(id), NEW j \in 1 .. Len(f.lines), f.lines[j] = Own(id)
  PROVE  i = j
<1>1. PICK l : l = Own(id)
  OBVIOUS
<1>2. l # Garbled /\ l.from = "none"
  BY <1>1, OwnIs
<1> QED
  BY <1>1, <1>2 DEF Solo, OwnLine

\* A marked line is no scrap.
LEMMA MarkedIs ==
  ASSUME NEW g \in File, NEW j \in 1 .. Len(g.lines), NEW x \in Side, g.lines[j].from = x
  PROVE  g.lines[j] # Garbled /\ g.lines[j].id \in 1 .. MaxLines
<1>1. g.lines[j] \in Line /\ x # "none"
  BY SidesAre DEF File
<1> QED
  BY <1>1, LinesAre

\* The order stays while agents write to the one file and more comes to the other.
LEMMA OrderStays ==
  ASSUME NEW f \in File, NEW f2 \in File, NEW g \in File, NEW g2 \in File, NEW x \in Side,
         Grown(f, f2), Written(g, g2), Solo(f2), Ordered(f, g, x)
  PROVE  Ordered(f2, g2, x)
<1>1. /\ Len(f.lines) \in Nat /\ Len(f2.lines) \in Nat /\ Len(f.lines) <= Len(f2.lines)
      /\ \A i \in 1 .. Len(f.lines) : i \in 1 .. Len(f2.lines) /\ f2.lines[i] = f.lines[i]
  BY DEF File, Grown
<1>2. /\ Len(g.lines) \in Nat /\ Len(g2.lines) \in Nat /\ Len(g.lines) <= Len(g2.lines)
      /\ \A i \in 1 .. Len(g.lines) : i \in 1 .. Len(g2.lines) /\ g2.lines[i] = g.lines[i]
      /\ Whole(g2) => Whole(g)
  BY DEF File, Grown, Written
<1>3. x # "none"
  BY SidesAre
<1>4. ASSUME NEW j \in 1 .. Len(g2.lines), g2.lines[j].from = x
      PROVE  /\ j \in 1 .. Len(g.lines) /\ g.lines[j] = g2.lines[j]
             /\ g2.lines[j].id \in 1 .. MaxLines
             /\ From(f, Len(f.lines), g2.lines[j].id)
  <2>1. ~(j > Len(g.lines))
    BY <1>3, <1>4 DEF Written
  <2>2. j \in 1 .. Len(g.lines)
    BY <1>2, <2>1
  <2>3. g.lines[j] = g2.lines[j]
    BY <1>2, <2>2
  <2>4. g2.lines[j].id \in 1 .. MaxLines
    BY <1>4, MarkedIs
  <2> QED
    BY <1>4, <2>2, <2>3, <2>4 DEF Ordered, HasSources
<1>5. HasSources(f2, g2, x)
  <2> SUFFICES ASSUME NEW j \in 1 .. Len(g2.lines), g2.lines[j].from = x
               PROVE  From(f2, Len(f2.lines), g2.lines[j].id)
    BY DEF HasSources
  <2>1. From(f, Len(f.lines), g2.lines[j].id)
    BY <1>4
  <2> QED
    BY <1>1, <2>1, FromGrows
<1>6. ASSUME Whole(g2)
      PROVE  Led(f2, g2, x)
  <2> SUFFICES ASSUME NEW j \in 1 .. Len(g2.lines), NEW n \in 1 .. Len(f2.lines), NEW m \in 1 .. Len(f2.lines),
                      g2.lines[j].from = x, f2.lines[n] = Own(g2.lines[j].id), m <= n, OwnLine(f2, m)
               PROVE  By(g2, j, f2.lines[m].id)
    BY DEF Led
  <2>1. PICK id : id = g2.lines[j].id
    OBVIOUS
  <2>2. j \in 1 .. Len(g.lines) /\ g.lines[j].from = x /\ g.lines[j].id = id /\ id \in 1 .. MaxLines
    BY <1>4, <2>1
  <2>3. PICK k \in 1 .. Len(f.lines) : f.lines[k] = Own(id)
    BY <1>4, <2>1 DEF From
  <2>4. k \in 1 .. Len(f2.lines) /\ f2.lines[k] = Own(id) /\ f2.lines[n] = Own(id)
    BY <1>1, <2>1, <2>3
  <2>5. n = k
    BY <2>2, <2>4, OnePlace
  <2>6. m \in 1 .. Len(f.lines)
    BY <1>1, <2>3, <2>5
  <2>7. f2.lines[m] = f.lines[m] /\ OwnLine(f, m)
    BY <1>1, <2>6 DEF OwnLine
  <2>8. Led(f, g, x)
    BY <1>2, <1>6 DEF Ordered
  <2>9. By(g, j, f.lines[m].id)
    BY <2>2, <2>3, <2>5, <2>6, <2>7, <2>8 DEF Led
  <2>10. PICK i \in 1 .. Len(g.lines) : i <= j /\ g.lines[i].id = f.lines[m].id
    BY <2>9 DEF By
  <2>11. i \in 1 .. Len(g2.lines) /\ g2.lines[i].id = f2.lines[m].id
    BY <1>2, <2>7, <2>10
  <2> QED
    BY <2>10, <2>11 DEF By
<1> QED
  BY <1>5, <1>6 DEF Ordered

\* A file with the first lines of a copy at its end, and perhaps a part of the next.
Took(g, g2, v) ==
  \E h \in File : /\ h = Add(g, v)
                  /\ \/ g2 = h
                     \/ h.open = 0 /\ g2.lines = h.lines /\ g2.open = Synced

\* Only copies are new in it.
LEMMA TookIs ==
  ASSUME NEW g \in File, NEW g2 \in File, NEW v \in Seq(Line), Took(g, g2, v), NEW x \in Side,
         \A k \in 1 .. Len(v) : v[k] # Garbled /\ v[k].from = x
  PROVE  /\ Grown(g, g2)
         /\ Len(g2.lines) = Len(g.lines) + Len(v)
         /\ \A k \in 1 .. Len(v) : Len(g.lines) + k \in 1 .. Len(g2.lines)
         /\ \A j \in 1 .. Len(g2.lines) : j \in 1 .. Len(g.lines) \/ \E k \in 1 .. Len(v) : j = Len(g.lines) + k
         /\ \A k \in 1 .. Len(v) : g2.lines[Len(g.lines) + k] \in {Garbled, v[k]}
         /\ Whole(g2) => \A k \in 1 .. Len(v) : g2.lines[Len(g.lines) + k] = v[k]
         /\ Solo(g) => Solo(g2)
<1>1. PICK h \in File : /\ h = Add(g, v)
                        /\ \/ g2 = h
                           \/ h.open = 0 /\ g2.lines = h.lines /\ g2.open = Synced
  BY DEF Took
<1>2. Len(h.lines) = Len(g.lines) + Len(v) /\ \A i \in 1 .. Len(g.lines) : h.lines[i] = g.lines[i]
  BY <1>1, AddIs
<1>3. \A k \in 1 .. Len(v) : h.lines[Len(g.lines) + k] = IF k = 1 /\ g.open # 0 THEN Garbled ELSE v[k]
  BY <1>1, AddIs
<1>4. (Len(v) = 0 => h = g) /\ (Len(v) # 0 => h.open = 0)
  BY <1>1, AddIs
<1>5. Len(g.lines) \in Nat /\ Len(v) \in Nat /\ Len(h.lines) \in Nat
  BY DEF File
<1>6. g2.lines = h.lines /\ (Whole(g2) => Whole(h) /\ g2 = h)
  BY <1>1 DEF Whole
<1>7. Grown(g, h)
  BY <1>1, AddGrows
<1>8. Grown(g, g2)
  BY <1>6, <1>7 DEF Grown
<1>9. \A k \in 1 .. Len(v) : Len(g.lines) + k \in 1 .. Len(g2.lines)
  BY <1>2, <1>5, <1>6
<1>10. ASSUME NEW j \in 1 .. Len(g2.lines), j \notin 1 .. Len(g.lines)
       PROVE  \E k \in 1 .. Len(v) : j = Len(g.lines) + k
  <2>1. j - Len(g.lines) \in 1 .. Len(v) /\ j = Len(g.lines) + (j - Len(g.lines))
    BY <1>2, <1>5, <1>6, <1>10
  <2> QED
    BY <2>1
<1>11. \A k \in 1 .. Len(v) : g2.lines[Len(g.lines) + k] \in {Garbled, v[k]}
  BY <1>3, <1>6
<1>12. ASSUME Whole(g2), NEW k \in 1 .. Len(v)
       PROVE  g2.lines[Len(g.lines) + k] = v[k]
  BY <1>9, <1>11, <1>12 DEF Whole
<1>13. ASSUME Solo(g)
       PROVE  Solo(g2)
  <2>1. ASSUME NEW i \in 1 .. Len(g2.lines), OwnLine(g2, i)
        PROVE  i \in 1 .. Len(g.lines) /\ g2.lines[i] = g.lines[i] /\ OwnLine(g, i)
    <3>1. i \in 1 .. Len(g.lines)
      <4> SUFFICES ASSUME i \notin 1 .. Len(g.lines) PROVE FALSE
        OBVIOUS
      <4>1. PICK k \in 1 .. Len(v) : i = Len(g.lines) + k
        BY <1>10
      <4>2. g2.lines[i] = v[k] /\ v[k].from # "none"
        BY <1>11, <2>1, <4>1, SidesAre DEF OwnLine
      <4> QED
        BY <2>1, <4>2 DEF OwnLine
    <3> QED
      BY <1>2, <1>6, <2>1, <3>1 DEF OwnLine
  <2>2. ASSUME NEW i \in 1 .. Len(g2.lines), NEW j \in 1 .. Len(g2.lines), i # j, OwnLine(g2, i),
               g2.lines[i] = g2.lines[j]
        PROVE  FALSE
    <3>1. OwnLine(g2, j)
      BY <2>2 DEF OwnLine
    <3>2. i \in 1 .. Len(g.lines) /\ g2.lines[i] = g.lines[i] /\ OwnLine(g, i)
      BY <2>1, <2>2
    <3>3. j \in 1 .. Len(g.lines) /\ g2.lines[j] = g.lines[j]
      BY <2>1, <3>1
    <3> QED
      BY <1>13, <2>2, <3>2, <3>3 DEF Solo
  <2>3. ASSUME NEW i \in 1 .. Len(g2.lines), g2.open \in 1 .. MaxLines, g2.lines[i] = Own(g2.open)
        PROVE  FALSE
    <3>1. g2.open = g.open
      <4>1. 0 \notin 1 .. MaxLines /\ Synced \notin 1 .. MaxLines
        BY BridgeAssumption DEF Synced
      <4> QED
        BY <1>1, <1>4, <2>3, <4>1
    <3>2. OwnLine(g2, i)
      <4>1. PICK l : l = Own(g2.open)
        OBVIOUS
      <4>2. l # Garbled /\ l.from = "none"
        BY <2>3, <4>1, OwnIs
      <4> QED
        BY <2>3, <4>1, <4>2 DEF OwnLine
    <3>3. i \in 1 .. Len(g.lines) /\ g.lines[i] = Own(g.open)
      BY <2>1, <2>3, <3>1, <3>2
    <3> QED
      BY <1>13, <2>3, <3>1, <3>3 DEF Solo
  <2> QED
    BY <2>2, <2>3 DEF Solo
<1>14. Len(g2.lines) = Len(g.lines) + Len(v)
  BY <1>2, <1>6
<1> QED
  BY <1>8, <1>9, <1>10, <1>11, <1>12, <1>13, <1>14

\* A copy made from an offset the other file was told up to leads on in order.
LEMMA OrderTakes ==
  ASSUME NEW s \in Paired, NEW x \in Side, NEW f \in File, NEW g \in File, NEW g2 \in File,
         NEW bn, Booked(f, <<s, x>>, bn), Solo(f), Ordered(f, g, x),
         NEW offset \in Nat, Whole(g) => Told(f, g, offset),
         NEW r, r = Rendered(f, offset, x), NEW v \in Seq(Line), Took(g, g2, v),
         \A k \in 1 .. Len(v) : k \in 1 .. Len(r) /\ v[k] = r[k]
  PROVE  Ordered(f, g2, x)
<1>1. PICK m, h : Renders(f, offset, x, r, m, h)
  BY RendersIt
<1>2. /\ m \in Nat /\ h \in [1 .. m -> 1 .. Len(f.lines)] /\ Len(r) = m
      /\ \A k \in 1 .. m, l \in 1 .. m : k < l => h[k] < h[l]
      /\ \A k \in 1 .. m : /\ Sends(f, offset, x, h[k]) /\ r[k] # Garbled
                           /\ r[k].id = f.lines[h[k]].id /\ r[k].from = x
      /\ \A i \in 1 .. Len(f.lines) : Sends(f, offset, x, i) => \E k \in 1 .. m : h[k] = i
  BY <1>1 DEF Renders
<1>3. \A k \in 1 .. Len(v) : v[k] # Garbled /\ v[k].from = x
  BY <1>2
<1>4. Grown(g, g2)
  BY <1>3, TookIs
<1>5. /\ Len(g2.lines) = Len(g.lines) + Len(v)
      /\ \A k \in 1 .. Len(v) : Len(g.lines) + k \in 1 .. Len(g2.lines)
      /\ \A j \in 1 .. Len(g2.lines) : j \in 1 .. Len(g.lines) \/ \E k \in 1 .. Len(v) : j = Len(g.lines) + k
      /\ \A k \in 1 .. Len(v) : g2.lines[Len(g.lines) + k] \in {Garbled, v[k]}
      /\ Whole(g2) => \A k \in 1 .. Len(v) : g2.lines[Len(g.lines) + k] = v[k]
  BY <1>3, TookIs
<1>6. Len(g.lines) \in Nat /\ Len(v) \in Nat /\ Len(f.lines) \in Nat
  BY DEF File
<1>7. \A i \in 1 .. Len(g.lines) : i \in 1 .. Len(g2.lines) /\ g2.lines[i] = g.lines[i]
  BY <1>4, <1>5, <1>6 DEF Grown
<1>8. ASSUME NEW k \in 1 .. Len(v)
      PROVE  /\ k \in 1 .. m /\ h[k] \in 1 .. Len(f.lines) /\ v[k].id \in 1 .. MaxLines
             /\ f.lines[h[k]] = Own(v[k].id)
  <2>1. k \in 1 .. m /\ v[k] = r[k]
    BY <1>2
  <2>2. PICK i : i = h[k]
    OBVIOUS
  <2>3. i \in 1 .. Len(f.lines) /\ Sends(f, offset, x, i) /\ v[k].id = f.lines[i].id
    BY <1>2, <2>1, <2>2
  <2>4. f.lines[i] = Own(f.lines[i].id)
    BY <2>3, GoesOwn
  <2>5. v[k] \in Line /\ v[k] # Garbled
    BY <1>3
  <2>6. v[k].id \in 1 .. MaxLines
    BY <2>5, LinesAre
  <2> QED
    BY <2>1, <2>2, <2>3, <2>4, <2>6
<1>9. HasSources(f, g2, x)
  <2> SUFFICES ASSUME NEW j \in 1 .. Len(g2.lines), g2.lines[j].from = x
               PROVE  From(f, Len(f.lines), g2.lines[j].id)
    BY DEF HasSources
  <2>1. CASE j \in 1 .. Len(g.lines)
    BY <1>7, <2>1 DEF Ordered, HasSources
  <2>2. CASE j \notin 1 .. Len(g.lines)
    <3>1. PICK k \in 1 .. Len(v) : j = Len(g.lines) + k
      BY <1>5, <2>2
    <3>2. g2.lines[j] = v[k]
      <4>1. g2.lines[j] \in {Garbled, v[k]}
        BY <1>5, <3>1
      <4>2. Garbled.from # x
        BY LinesAre, SidesAre
      <4>3. g2.lines[j].from = x
        OBVIOUS
      <4> QED
        BY <4>1, <4>2, <4>3
    <3>3. h[k] \in 1 .. Len(f.lines) /\ h[k] <= Len(f.lines) /\ f.lines[h[k]] = Own(v[k].id)
      BY <1>6, <1>8
    <3> QED
      BY <3>2, <3>3 DEF From
  <2> QED
    BY <2>1, <2>2
<1>10. ASSUME Whole(g2)
       PROVE  Led(f, g2, x)
  <2> SUFFICES ASSUME NEW j \in 1 .. Len(g2.lines), NEW n \in 1 .. Len(f.lines), NEW i \in 1 .. Len(f.lines),
                      g2.lines[j].from = x, f.lines[n] = Own(g2.lines[j].id), i <= n, OwnLine(f, i)
               PROVE  By(g2, j, f.lines[i].id)
    BY DEF Led
  <2>1. Whole(g)
    BY <1>4, <1>10 DEF Grown
  <2>2. CASE j \in 1 .. Len(g.lines)
    <3>1. By(g, j, f.lines[i].id)
      BY <1>7, <2>1, <2>2 DEF Ordered, Led
    <3> QED
      BY <1>7, <3>1 DEF By
  <2>3. CASE j \notin 1 .. Len(g.lines)
    <3>1. PICK k \in 1 .. Len(v) : j = Len(g.lines) + k
      BY <1>5, <2>3
    <3>2. g2.lines[j] = v[k]
      BY <1>5, <1>10, <3>1
    <3>3. PICK c : c = h[k]
      OBVIOUS
    <3>4. PICK id : id = v[k].id
      OBVIOUS
    <3>5. c \in 1 .. Len(f.lines) /\ f.lines[c] = Own(id) /\ f.lines[n] = Own(id) /\ id \in 1 .. MaxLines
      BY <1>8, <3>2, <3>3, <3>4
    <3>6. n = c
      BY <3>5, OnePlace
    <3>7. CASE i <= offset
      <4>1. In(g, f.lines[i].id)
        BY <2>1, <3>7 DEF Told, OwnLine
      <4>2. PICK l \in 1 .. Len(g.lines) : g.lines[l].id = f.lines[i].id
        BY <4>1 DEF In
      <4>3. l \in 1 .. Len(g2.lines) /\ g2.lines[l].id = f.lines[i].id
        BY <1>7, <4>2
      <4>4. l <= j
        BY <1>6, <3>1
      <4> QED
        BY <4>3, <4>4 DEF By
    <3>8. CASE i > offset
      <4>1. Sends(f, offset, x, i)
        BY <3>8, SidesAre DEF Sends, OwnLine
      <4>2. PICK l \in 1 .. m : h[l] = i
        BY <1>2, <4>1
      <4>3. k \in 1 .. m /\ h[k] = n
        BY <1>8, <3>3, <3>6
      <4>4. ~(k < l)
        <5>1. k < l => h[k] < h[l]
          BY <1>2, <4>3
        <5> QED
          BY <1>6, <4>2, <4>3, <5>1
      <4>5. l \in 1 .. Len(v) /\ l <= k
        BY <1>2, <1>6, <4>3, <4>4
      <4>6. g2.lines[Len(g.lines) + l] = v[l] /\ v[l] = r[l]
        BY <1>5, <1>10, <4>5
      <4>7. r[l].id = f.lines[i].id
        BY <1>2, <4>2
      <4>8. Len(g.lines) + l \in 1 .. Len(g2.lines) /\ Len(g.lines) + l <= j
        BY <1>5, <1>6, <3>1, <4>5
      <4> QED
        BY <4>6, <4>7, <4>8 DEF By
    <3> QED
      BY <1>6, <3>7, <3>8
  <2> QED
    BY <2>2, <2>3
<1> QED
  BY <1>9, <1>10 DEF Ordered

\* One direction of a sync, all of it or a part, keeps the order in all pairs.
LEMMA OneWayOrder ==
  ASSUME NEW rec \in BridgeRecord, rec.paired, rec.session \in Paired,
         NEW fs \in [Path -> File], NEW gs \in [Path -> File], NEW bn, AllBooked(fs, bn),
         NEW gone, Covered(fs, gone, rec), InOrder(fs, gone), NEW side \in Side,
         NEW p, p = PathOf(rec, side), NEW q, q = PathOf(rec, Other(side)),
         NEW r, r = Rendered(fs[p], rec[side], side),
         \A x \in Path : x # q => gs[x] = fs[x], NEW n, BreaksAt(gs, fs, q, r, n)
  PROVE  InOrder(gs, gone)
<1>1. PICK s : s = rec.session
  OBVIOUS
<1>2. /\ s \in Paired /\ p = <<s, side>> /\ q = <<s, Other(side)>> /\ Other(side) \in Side
      /\ p \in Path /\ q \in Path /\ p # q
  BY <1>1, PairIs, SidesAre DEF PathOf
<1>3. PICK f, g, g2 : f = fs[p] /\ g = fs[q] /\ g2 = gs[q]
  OBVIOUS
<1>4. f \in File /\ g \in File /\ g2 \in File /\ gs[p] = f /\ Booked(f, <<s, side>>, bn)
  BY <1>2, <1>3 DEF AllBooked
<1>5. rec[side] \in Nat
  BY OffsetsAre
<1>6. PICK v \in Seq(Line) : Took(g, g2, v) /\ \A k \in 1 .. Len(v) : k \in 1 .. Len(r) /\ v[k] = r[k]
  BY <1>3 DEF BreaksAt, Took
<1>7. \A k \in 1 .. Len(v) : v[k] # Garbled /\ v[k].from = side
  <2>1. \A k \in 1 .. Len(r) : r[k] # Garbled /\ r[k].from = side
    BY <1>3, <1>4, <1>5, RenderedFrom
  <2> QED
    BY <1>6, <2>1
<1>8. Grown(g, g2) /\ (Solo(g) => Solo(g2))
  BY <1>4, <1>6, <1>7, TookIs
<1>9. ASSUME NEW y \in Path, y \notin gone
      PROVE  Solo(gs[y])
  BY <1>3, <1>8, <1>9 DEF InOrder
<1>10. ASSUME NEW z \in Paired, NEW x \in Side, <<z, x>> \notin gone, <<z, Other(x)>> \notin gone
       PROVE  Ordered(gs[<<z, x>>], gs[<<z, Other(x)>>], x)
  <2>1. Ordered(fs[<<z, x>>], fs[<<z, Other(x)>>], x)
    BY <1>10 DEF InOrder, OrderAt
  <2>2. <<z, x>> \in Path /\ <<z, Other(x)>> \in Path
    BY PairIs
  <2>3. CASE z # s
    BY <1>2, <2>1, <2>2, <2>3
  <2>4. CASE z = s /\ x = side
    <3>1. Solo(f) /\ Ordered(f, g, side)
      BY <1>2, <1>3, <1>10, <2>1, <2>4 DEF InOrder
    <3>2. Whole(g) => Told(f, g, rec[side])
      BY <1>2, <1>3, <1>10, <2>4 DEF Covered, CoveredOn
    <3>3. r = Rendered(f, rec[side], side)
      BY <1>3
    <3>4. Ordered(f, g2, side)
      BY <1>2, <1>4, <1>5, <1>6, <3>1, <3>2, <3>3, OrderTakes
    <3> QED
      BY <1>2, <1>3, <1>4, <2>4, <3>4
  <2>5. CASE z = s /\ x = Other(side)
    <3>1. Ordered(g, f, x) /\ Solo(g2)
      BY <1>2, <1>3, <1>8, <1>10, <2>1, <2>5, SidesAre DEF InOrder
    <3>2. Written(f, f)
      BY <1>4, WrittenItself
    <3>3. Ordered(g2, f, x)
      BY <1>4, <1>8, <3>1, <3>2, OrderStays
    <3> QED
      BY <1>2, <1>3, <1>4, <2>5, <3>3, SidesAre
  <2>6. x = side \/ x = Other(side)
    BY SidesAre
  <2> QED
    BY <2>3, <2>4, <2>5, <2>6
<1> QED
  BY <1>9, <1>10 DEF InOrder, OrderAt

LEMMA CycleOrder ==
  ASSUME NEW rec \in BridgeRecord, rec.paired, rec.session \in Paired,
         NEW fs \in [Path -> File], NEW bn, AllBooked(fs, bn),
         NEW gone, Covered(fs, gone, rec), InOrder(fs, gone),
         NEW side \in Side, NEW c, c = Cycle(rec, fs, side)
  PROVE  InOrder(c.files, gone)
<1>1. PICK p, q : p = PathOf(rec, side) /\ q = PathOf(rec, Other(side))
  OBVIOUS
<1>2. PICK r : r = Rendered(fs[p], rec[side], side)
  OBVIOUS
<1>3. PICK gs : gs = c.files
  OBVIOUS
<1>4. /\ p \in Path /\ q \in Path /\ gs \in [Path -> File] /\ gs[q] = Add(fs[q], r)
      /\ \A x \in Path : x # q => gs[x] = fs[x]
  BY <1>1, <1>2, <1>3, CycleIs
<1>5. r \in Seq(Line)
  BY <1>2, <1>4, OffsetsAre, RenderedIs
<1>6. BreaksAt(gs, fs, q, r, Len(r))
  BY <1>4, <1>5 DEF BreaksAt
<1>7. InOrder(gs, gone)
  BY <1>1, <1>2, <1>4, <1>6, OneWayOrder
<1> QED
  BY <1>3, <1>7

LEMMA BrokenOrder ==
  ASSUME NEW rec \in BridgeRecord, rec.paired, rec.session \in Paired,
         NEW fs \in [Path -> File], NEW bn, AllBooked(fs, bn),
         NEW gone, Covered(fs, gone, rec), InOrder(fs, gone),
         NEW side \in Side, BreaksOff(rec, fs, side)
  PROVE  InOrder(file', gone)
<1>1. PICK p, q : p = PathOf(rec, side) /\ q = PathOf(rec, Other(side))
  OBVIOUS
<1>2. PICK r : r = Rendered(fs[p], rec[side], side)
  OBVIOUS
<1>3. PICK n \in 0 .. Len(r) - 1, half \in BOOLEAN : file' = Broken(rec, fs, side, n, half)
  BY <1>1, <1>2 DEF BreaksOff
<1>4. PICK gs : gs = file'
  OBVIOUS
<1>5. /\ gs \in [Path -> File]
      /\ \A x \in Path : x # q => gs[x] = fs[x]
      /\ BreaksAt(gs, fs, q, r, n)
  BY <1>1, <1>2, <1>3, <1>4, BrokenIs
<1>6. InOrder(gs, gone)
  BY <1>1, <1>2, <1>5, OneWayOrder
<1> QED
  BY <1>4, <1>6

OrderOK == InOrder(file, replaced) /\ (copy.path \notin replaced => Solo(copy.has))

\* The record a sync works on skips nothing.
LEMMA SyncsCovered ==
  ASSUME BridgeTypes, AllCovered, NEW t \in Task, work[t].at = "sync", work[t].agent \in FileAgent,
         NEW rec, rec = work[t].rec, rec.paired
  PROVE  rec \in BridgeRecord /\ rec.session \in Paired /\ Covered(file, replaced, rec)
<1>1. Known(work[t].agent, rec)
  BY DEF Known, HasIn
<1> QED
  BY <1>1, KnownIs DEF AllCovered

LEMMA SyncOrder ==
  ASSUME BridgeTypes, BookOK, AllCovered, OrderOK, NEW t \in Task, Sync(t)
  PROVE  OrderOK'
<1>0. WorkOK /\ file \in [Path -> File] /\ AllBooked(file, born) /\ InOrder(file, replaced)
  BY DEF BridgeTypes, FilesOK, BookOK, OrderOK
<1>1. PICK there, back :
           /\ there = Cycle(work[t].rec, file, "desktop")
           /\ back = Cycle(there.rec, there.files, "mobile")
           /\ file' = back.files
           /\ work[t].at = "sync" /\ work[t].rec.paired /\ work[t].agent \in FileAgent
  BY <1>0, SyncGets
<1>2. PICK rec : rec = work[t].rec
  OBVIOUS
<1>3. rec \in BridgeRecord /\ rec.paired /\ rec.session \in Paired /\ Covered(file, replaced, rec)
  BY <1>1, <1>2, SyncsCovered
<1>4. "desktop" \in Side /\ "mobile" \in Side
  BY DEF Side
<1>5. /\ there.rec \in BridgeRecord /\ there.rec.session = rec.session /\ there.rec.paired
      /\ there.files \in [Path -> File] /\ Covered(there.files, replaced, there.rec)
  BY <1>0, <1>1, <1>2, <1>3, SyncCovers
<1>6. AllBooked(there.files, born) /\ InOrder(there.files, replaced)
  BY <1>0, <1>1, <1>2, <1>3, <1>4, CycleBooked, CycleOrder
<1>7. InOrder(back.files, replaced)
  BY <1>1, <1>3, <1>4, <1>5, <1>6, CycleOrder
<1>8. UNCHANGED <<copy, replaced>>
  BY DEF Sync
<1> QED
  BY <1>1, <1>7, <1>8 DEF OrderOK

LEMMA SyncFailsOrder ==
  ASSUME BridgeTypes, BookOK, AllCovered, OrderOK, NEW t \in Task, SyncFails(t)
  PROVE  OrderOK'
<1>0. WorkOK /\ file \in [Path -> File] /\ AllBooked(file, born) /\ InOrder(file, replaced)
  BY DEF BridgeTypes, FilesOK, BookOK, OrderOK
<1>1. PICK there, r :
           /\ there = Cycle(work[t].rec, file, "desktop")
           /\ work[t].at = "sync" /\ work[t].agent \in FileAgent
           /\ FailsWith(t, there, r)
  BY <1>0, SyncFailsGets
<1>2. PICK rec : rec = work[t].rec
  OBVIOUS
<1>3. "desktop" \in Side /\ "mobile" \in Side
  BY DEF Side
<1>4. UNCHANGED <<copy, replaced>>
  BY DEF SyncFails
<1>5. CASE file' = file
  BY <1>4, <1>5 DEF OrderOK
<1>6. CASE rec.paired /\ BreaksOff(rec, file, "desktop")
  <2>1. rec \in BridgeRecord /\ rec.session \in Paired /\ Covered(file, replaced, rec)
    BY <1>1, <1>2, <1>6, SyncsCovered
  <2>2. InOrder(file', replaced)
    BY <1>0, <1>3, <1>6, <2>1, BrokenOrder
  <2> QED
    BY <1>4, <2>2 DEF OrderOK
<1>7. CASE rec.paired /\ BreaksOff(there.rec, there.files, "mobile")
  <2>1. rec \in BridgeRecord /\ rec.session \in Paired /\ Covered(file, replaced, rec)
    BY <1>1, <1>2, <1>7, SyncsCovered
  <2>2. PICK back : back = Cycle(there.rec, there.files, "mobile")
    OBVIOUS
  <2>3. /\ there.rec \in BridgeRecord /\ there.rec.session = rec.session /\ there.rec.paired
        /\ there.files \in [Path -> File] /\ Covered(there.files, replaced, there.rec)
    BY <1>0, <1>1, <1>2, <1>7, <2>1, <2>2, SyncCovers
  <2>4. AllBooked(there.files, born) /\ InOrder(there.files, replaced)
    BY <1>0, <1>1, <1>2, <1>3, <1>7, <2>1, CycleBooked, CycleOrder
  <2>5. InOrder(file', replaced)
    BY <1>3, <1>7, <2>1, <2>3, <2>4, BrokenOrder
  <2> QED
    BY <1>4, <2>5 DEF OrderOK
<1> QED
  BY <1>1, <1>2, <1>5, <1>6, <1>7 DEF FailsWith

\* A new line of an agent is in no file yet.
LEMMA SoloAdded ==
  ASSUME NEW f \in File, NEW p \in Path, NEW bn \in Seq(Path), Booked(f, p, bn), Solo(f),
         NEW n \in 1 .. MaxLines, n = Len(bn) + 1,
         NEW g, \/ g = Add(f, <<Own(n)>>)
                \/ f.open = 0 /\ g = [f EXCEPT !.open = n]
  PROVE  Solo(g)
<1>1. PICK o : o = Own(n)
  OBVIOUS
<1>0. PICK ls : ls = <<o>>
  OBVIOUS
<1>2. ls \in Seq(Line) /\ Len(ls) = 1 /\ ls[1] = o /\ o # Garbled /\ o.id = n /\ o.from = "none"
  BY <1>0, <1>1, OwnIs
<1>3. Len(f.lines) \in Nat /\ 0 \notin 1 .. MaxLines /\ n \notin DOMAIN bn
  BY BridgeAssumption DEF File
<1>4. ASSUME NEW i \in 1 .. Len(f.lines)
      PROVE  f.lines[i] # o
  BY <1>2, <1>3 DEF Booked, Authored
<1>5. CASE g = Add(f, ls)
  <2>1. Len(g.lines) = Len(f.lines) + 1 /\ \A i \in 1 .. Len(f.lines) : g.lines[i] = f.lines[i]
    <3>1. ls \in Seq(Line)
      BY <1>2
    <3>2. Len(g.lines) = Len(f.lines) + Len(ls)
      BY <1>5, <3>1, AddIs
    <3>3. \A i \in 1 .. Len(f.lines) : g.lines[i] = f.lines[i]
      BY <1>5, <3>1, AddIs
    <3> QED
      BY <1>2, <3>2, <3>3
  <2>2. g.lines[Len(f.lines) + 1] = Garbled \/ g.lines[Len(f.lines) + 1] = o
    <3>1. ls \in Seq(Line)
      BY <1>2
    <3>2. \A i \in 1 .. Len(ls) : g.lines[Len(f.lines) + i] =
            IF i = 1 /\ f.open # 0 THEN Garbled ELSE ls[i]
      BY <1>5, <3>1, AddIs
    <3> QED
      BY <1>2, <3>2
  <2>3. g.open = 0
    <3>1. Len(ls) # 0 => g.open = 0
      BY <1>2, <1>5, AddIs
    <3> QED
      BY <1>2, <3>1
  <2>4. ASSUME NEW i \in 1 .. Len(g.lines), NEW j \in 1 .. Len(g.lines), i < j, OwnLine(g, i)
        PROVE  g.lines[i] # g.lines[j]
    <3>1. i \in 1 .. Len(f.lines) /\ (j \in 1 .. Len(f.lines) \/ j = Len(f.lines) + 1)
      BY <1>3, <2>1, <2>4
    <3>2. CASE j \in 1 .. Len(f.lines)
      BY <2>1, <2>4, <3>1, <3>2 DEF Solo, OwnLine
    <3>3. CASE j = Len(f.lines) + 1
      BY <1>4, <2>1, <2>2, <2>4, <3>1, <3>3 DEF OwnLine
    <3> QED
      BY <3>1, <3>2, <3>3
  <2>5. ASSUME NEW i \in 1 .. Len(g.lines), NEW j \in 1 .. Len(g.lines), i # j, OwnLine(g, i),
               g.lines[i] = g.lines[j]
        PROVE  FALSE
    <3>1. OwnLine(g, j)
      BY <2>5 DEF OwnLine
    <3>2. i < j \/ j < i
      BY <1>3, <2>1, <2>5
    <3> QED
      BY <2>4, <2>5, <3>1, <3>2
  <2> QED
    BY <1>3, <2>3, <2>5 DEF Solo
<1>6. CASE f.open = 0 /\ g = [f EXCEPT !.open = n]
  <2>1. g.lines = f.lines /\ g.open = n
    BY <1>6 DEF File
  <2> QED
    BY <1>1, <1>4, <2>1 DEF Solo, OwnLine
<1> QED
  BY <1>0, <1>1, <1>5, <1>6

LEMMA SoloEnded ==
  ASSUME NEW f \in File, Solo(f), f.open \in 1 .. MaxLines,
         NEW g, g = [lines |-> Append(f.lines, Own(f.open)), open |-> 0]
  PROVE  Solo(g)
<1>1. PICK o : o = Own(f.open)
  OBVIOUS
<1>2. o \in Line
  BY <1>1, OwnIs
<1>3. f.lines \in Seq(Line) /\ Len(f.lines) \in Nat /\ 0 \notin 1 .. MaxLines
  BY DEF File
<1>4. PICK ls : ls = Append(f.lines, o)
  OBVIOUS
<1>5. /\ Len(ls) = Len(f.lines) + 1 /\ ls[Len(f.lines) + 1] = o
      /\ \A i \in 1 .. Len(f.lines) : ls[i] = f.lines[i]
      /\ \A i \in 1 .. Len(ls) : i \in 1 .. Len(f.lines) \/ i = Len(f.lines) + 1
  BY <1>2, <1>3, <1>4
<1>6. g.lines = ls /\ g.open = 0
  BY <1>1, <1>4
<1>7. \A i \in 1 .. Len(f.lines) : f.lines[i] # o
  BY <1>1 DEF Solo
<1>8. ASSUME NEW i \in 1 .. Len(ls), NEW j \in 1 .. Len(ls), i # j, OwnLine(g, i)
      PROVE  ls[i] # ls[j]
  <2>1. CASE i \in 1 .. Len(f.lines) /\ j \in 1 .. Len(f.lines)
    BY <1>5, <1>6, <1>8, <2>1 DEF Solo, OwnLine
  <2>2. CASE i \in 1 .. Len(f.lines) /\ j = Len(f.lines) + 1
    BY <1>5, <1>7, <2>2
  <2>3. CASE i = Len(f.lines) + 1 /\ j \in 1 .. Len(f.lines)
    BY <1>5, <1>7, <2>3
  <2> QED
    BY <1>5, <1>8, <2>1, <2>2, <2>3
<1>9. ASSUME NEW i \in 1 .. Len(g.lines), NEW j \in 1 .. Len(g.lines), i # j, OwnLine(g, i)
      PROVE  g.lines[i] # g.lines[j]
  <2>1. i \in 1 .. Len(ls) /\ j \in 1 .. Len(ls)
    BY <1>6
  <2>2. ls[i] # ls[j]
    BY <1>8, <1>9, <2>1
  <2> QED
    BY <1>6, <2>2
<1>10. g.open \notin 1 .. MaxLines
  BY <1>3, <1>6
<1> QED
  BY <1>9, <1>10 DEF Solo

\* Where no sync runs, files get what agents write, and the order stays.
LeftAlone(x) == x \notin replaced' => Written(file[x], file'[x]) /\ Solo(file'[x])

LEMMA KeptOrder ==
  ASSUME BridgeTypes, BridgeTypes', Grows, OrderOK, \A x \in Path : LeftAlone(x)
  PROVE  InOrder(file', replaced')
<1>1. file \in [Path -> File] /\ file' \in [Path -> File] /\ replaced \subseteq replaced'
  BY DEF BridgeTypes, FilesOK, Grows
<1>2. ASSUME NEW s \in Paired, NEW x \in Side, <<s, x>> \notin replaced', <<s, Other(x)>> \notin replaced'
      PROVE  Ordered(file'[<<s, x>>], file'[<<s, Other(x)>>], x)
  <2>1. PICK p, q : p = <<s, x>> /\ q = <<s, Other(x)>>
    OBVIOUS
  <2>2. p \in Path /\ q \in Path
    BY <2>1, PairIs
  <2>3. Ordered(file[p], file[q], x)
    BY <1>1, <1>2, <2>1 DEF OrderOK, InOrder, OrderAt
  <2>4. Written(file[p], file'[p]) /\ Solo(file'[p]) /\ Written(file[q], file'[q])
    BY <1>2, <2>1, <2>2 DEF LeftAlone
  <2>5. file[p] \in File /\ file'[p] \in File /\ file[q] \in File /\ file'[q] \in File
    BY <1>1, <2>2
  <2>6. Grown(file[p], file'[p])
    BY <2>4 DEF Written
  <2>7. Ordered(file'[p], file'[q], x)
    BY <2>3, <2>4, <2>5, <2>6, OrderStays
  <2> QED
    BY <2>1, <2>7
<1> QED
  BY <1>2 DEF InOrder, OrderAt, LeftAlone

LEMMA AgentOrder ==
  ASSUME BridgeTypes, BookOK, OrderOK, NEW p \in Writers, AgentWrites(p) \/ AgentFinishes(p)
  PROVE  /\ \A x \in Path : LeftAlone(x)
         /\ copy' = copy /\ replaced' = replaced
<1>1. /\ file \in [Path -> File] /\ born \in Seq(Path) /\ p \in Path /\ file[p] \in File
      /\ Len(born) \in Nat /\ caps.lines \in 0 .. MaxLines /\ MaxLines \in Nat
      /\ Booked(file[p], p, born) /\ Len(born) <= caps.lines
  BY BridgeAssumption DEF BridgeTypes, FilesOK, BookOK, AllBooked
<1>2. copy' = copy /\ replaced' = replaced
  BY DEF AgentWrites, AgentFinishes
<1>3. \A x \in Path : x \notin replaced => Solo(file[x])
  BY DEF OrderOK, InOrder
<1>4. PICK g : file' = [file EXCEPT ![p] = g] /\ g \in File /\ Written(file[p], g) /\ (Solo(file[p]) => Solo(g))
  <2>0. PICK f : f = file[p]
    OBVIOUS
  <2>1. CASE AgentWrites(p)
    <3>1. PICK n : n = NextLine
      OBVIOUS
    <3>2. n = Len(born) + 1 /\ n \in 1 .. MaxLines
      BY <1>1, <2>1, <3>1 DEF AgentWrites, NextLine
    <3>3. PICK g : /\ file' = [file EXCEPT ![p] = g]
                   /\ g = Add(f, <<Own(n)>>) \/ (f.open = 0 /\ g = [f EXCEPT !.open = n])
      <4>1. \/ file' = [file EXCEPT ![p] = Add(file[p], <<Own(n)>>)]
            \/ file[p].open = 0 /\ file' = [file EXCEPT ![p] = [file[p] EXCEPT !.open = n]]
        BY <2>1, <3>1 DEF AgentWrites
      <4> QED
        BY <2>0, <4>1
    <3>4. PICK b2 : b2 = Append(born, p)
      OBVIOUS
    <3>5. f \in File /\ Booked(f, p, born) /\ born \in Seq(Path)
      BY <1>1, <2>0
    <3>6. g \in File /\ Written(f, g)
      BY <1>1, <3>2, <3>3, <3>4, <3>5, OwnAdded
    <3>7. Solo(f) => Solo(g)
      BY <1>1, <3>2, <3>3, <3>5, SoloAdded
    <3> QED
      BY <2>0, <3>3, <3>6, <3>7
  <2>2. CASE AgentFinishes(p)
    <3>1. PICK g : g = [lines |-> Append(f.lines, Own(f.open)), open |-> 0]
      OBVIOUS
    <3>2. f.open \in 1 .. MaxLines /\ file' = [file EXCEPT ![p] = g] /\ f \in File /\ Booked(f, p, born)
      BY <1>1, <2>0, <2>2, <3>1 DEF AgentFinishes
    <3>3. g \in File /\ Written(f, g)
      BY <1>1, <3>1, <3>2, OwnEnded
    <3>4. Solo(f) => Solo(g)
      BY <3>1, <3>2, SoloEnded
    <3> QED
      BY <2>0, <3>2, <3>3, <3>4
  <2> QED
    BY <2>1, <2>2
<1>5. ASSUME NEW x \in Path
      PROVE  LeftAlone(x)
  <2>1. CASE x = p
    BY <1>1, <1>2, <1>3, <1>4, <2>1 DEF LeftAlone
  <2>2. CASE x # p
    BY <1>1, <1>2, <1>3, <1>4, <2>2, WrittenItself DEF LeftAlone
  <2> QED
    BY <2>1, <2>2
<1> QED
  BY <1>2, <1>5

LEMMA SoloNoFile == Solo(NoFile)
<1>1. 0 \notin 1 .. MaxLines
  BY BridgeAssumption
<1> QED
  BY <1>1, NoCopyIs DEF Solo

\* A transcript that nobody wrote to is put back with the run's lines only.
LEMMA RunOrder ==
  ASSUME BridgeTypes, BookOK, OrderOK, Materialize \/ RunWrites \/ PutBack
  PROVE  /\ \A x \in Path : LeftAlone(x)
         /\ copy'.path \notin replaced' => Solo(copy'.has)
<1>1. WorkOK /\ FilesOK /\ file \in [Path -> File] /\ Handler \in Task
  BY DEF BridgeTypes, FilesOK, Task
<1>2. (\A x \in Path : x \notin replaced => Solo(file[x])) /\ (copy.path \notin replaced => Solo(copy.has))
  BY DEF OrderOK, InOrder
<1>3. file' = file /\ replaced' = replaced => \A x \in Path : LeftAlone(x)
  BY <1>1, <1>2, WrittenItself DEF LeftAlone
<1>4. CASE Materialize
  <2>1. PICK p : p = <<work[Handler].rec.session, "desktop">>
    OBVIOUS
  <2>2. p \in Path
    BY <1>1, <1>4, <2>1 DEF Materialize, WorkOK, Tasking, Path
  <2>3. copy' = [path |-> p, had |-> file[p], has |-> file[p]] /\ file' = file /\ replaced' = replaced
    BY <1>4, <2>1 DEF Materialize
  <2>4. copy'.has = file[p] /\ copy'.path = p
    BY <2>3
  <2> QED
    BY <1>2, <1>3, <2>2, <2>3, <2>4
<1>5. work[Handler].at = "run" => copy.path \in Path
  <2>1. work[Handler].at = "run" => work[Handler].rec.session \in SessionId
    BY <1>1 DEF WorkOK, Tasking
  <2> QED
    BY <1>1, <2>1 DEF FilesOK, Path
<1>6. CASE RunWrites
  <2>1. PICK p, f : p = copy.path /\ f = copy.has
    OBVIOUS
  <2>2. p \in Path
    BY <1>5, <1>6, <2>1 DEF RunWrites
  <2>3. /\ born \in Seq(Path) /\ f \in File /\ Len(born) \in Nat
        /\ copy \in [path : Path \cup {<<>>}, had : File, has : File]
        /\ caps.lines \in 0 .. MaxLines /\ MaxLines \in Nat
        /\ Booked(f, p, born) /\ Len(born) < caps.lines
    BY <1>1, <1>6, <2>1, BridgeAssumption DEF FilesOK, BookOK, RunWrites
  <2>4. PICK n : n = NextLine
    OBVIOUS
  <2>5. n = Len(born) + 1 /\ n \in 1 .. MaxLines
    BY <2>3, <2>4 DEF NextLine
  <2>6. PICK g : g = Add(f, <<Own(n)>>)
    OBVIOUS
  <2>7. Solo(f) => Solo(g)
    BY <2>2, <2>3, <2>5, <2>6, SoloAdded
  <2>8. copy' = [copy EXCEPT !.has = g] /\ file' = file /\ replaced' = replaced
    BY <1>6, <2>1, <2>4, <2>6 DEF RunWrites
  <2>9. copy'.has = g /\ copy'.path = p
    BY <2>1, <2>3, <2>8
  <2> QED
    BY <1>2, <1>3, <2>1, <2>7, <2>8, <2>9
<1>7. CASE PutBack
  <2>1. PICK p, g : p = copy.path /\ g = copy.has
    OBVIOUS
  <2>2. p \in Path /\ file' = [file EXCEPT ![p] = g] /\ copy' = NoCopy
        /\ replaced' = IF file[p] = copy.had THEN replaced ELSE replaced \cup {p}
    BY <1>5, <1>7, <2>1 DEF PutBack
  <2>3. g \in File /\ file'[p] = g /\ \A x \in Path : x # p => file'[x] = file[x]
    BY <1>1, <2>1, <2>2 DEF FilesOK
  <2>4. ASSUME NEW x \in Path, x \notin replaced'
        PROVE  Written(file[x], file'[x]) /\ Solo(file'[x])
    <3>1. CASE x = p
      <4>1. file[p] = copy.had /\ p \notin replaced
        BY <2>2, <2>4, <3>1
      <4>2. Written(file[p], g) /\ Solo(g)
        BY <1>2, <2>1, <4>1 DEF BookOK
      <4> QED
        BY <2>3, <3>1, <4>2
    <3>2. CASE x # p
      <4>1. x \notin replaced
        BY <2>2, <2>4
      <4> QED
        BY <1>1, <1>2, <2>3, <3>2, <4>1, WrittenItself
    <3> QED
      BY <3>1, <3>2
  <2>5. Solo(copy'.has)
    BY <2>2, SoloNoFile, NoCopyIs
  <2> QED
    BY <2>4, <2>5 DEF LeftAlone
<1> QED
  BY <1>4, <1>6, <1>7

\* The order of copies, for every step.
LEMMA OrderStep ==
  ASSUME BridgeTypes, BookOK, AllCovered, OrderOK, BridgeTypes', Grows, [BridgeNext]_bvars
  PROVE  OrderOK'
<1>1. CASE \E t \in Task : Sync(t) \/ SyncFails(t)
  BY <1>1, SyncOrder, SyncFailsOrder
<1>2. ASSUME \A x \in Path : LeftAlone(x), copy'.path \notin replaced' => Solo(copy'.has)
      PROVE  OrderOK'
  <2>1. InOrder(file', replaced')
    BY <1>2, KeptOrder
  <2> QED
    BY <1>2, <2>1 DEF OrderOK
<1>3. file' = file /\ replaced' = replaced => \A x \in Path : LeftAlone(x)
  <2>1. file \in [Path -> File]
    BY DEF BridgeTypes, FilesOK
  <2> QED
    BY <2>1, WrittenItself DEF LeftAlone, OrderOK, InOrder
<1>4. UNCHANGED <<file, copy, replaced>> => OrderOK'
  BY DEF OrderOK
<1>5. CASE \E t \in Task : Stamp(t) \/ LeaveRecord(t) \/ SetRecord(t)
  BY <1>4, <1>5 DEF Stamp, LeaveRecord, SetRecord, files
<1>6. CASE Answered \/ TurnInPlace \/ Tick \/ NextRecord
  BY <1>4, <1>6 DEF Answered, TurnInPlace, Tick, NextRecord, files
<1>7. CASE \E a \in Bridged : (\E s \in SessionId : Select(a, s)) \/ Flush(a) \/ Forward(a) \/ AskStamped(a)
  BY <1>4, <1>7 DEF Select, Flush, Forward, AskStamped, files
<1>8. CASE OtherFlush \/ UNCHANGED bvars
  BY <1>4, <1>8 DEF OtherFlush, bvars, files
<1>9. CASE Restart
  <2>1. file' = file /\ copy' = NoCopy /\ replaced' = replaced
    BY <1>9 DEF Restart
  <2>2. Solo(copy'.has)
    BY <2>1, SoloNoFile, NoCopyIs
  <2> QED
    BY <1>2, <1>3, <2>1, <2>2
<1>10. CASE Materialize \/ RunWrites \/ PutBack
  BY <1>2, <1>10, RunOrder
<1>11. CASE \E p \in Writers : AgentWrites(p) \/ AgentFinishes(p)
  <2>1. (\A x \in Path : LeftAlone(x)) /\ copy' = copy /\ replaced' = replaced
    BY <1>11, AgentOrder
  <2> QED
    BY <1>2, <2>1 DEF OrderOK
<1> QED
  BY <1>1, <1>5, <1>6, <1>7, <1>8, <1>9, <1>10, <1>11, BridgeActs

LEMMA InitOrder ==
  ASSUME BridgeInit
  PROVE  OrderOK
<1>1. copy = NoCopy /\ \A x \in Path : file[x] = NoFile
  BY DEF BridgeInit
<1>2. \A x \in Path : Solo(file[x]) /\ Len(file[x].lines) = 0
  BY <1>1, SoloNoFile, NoCopyIs
<1>3. ASSUME NEW s \in Paired, NEW x \in Side
      PROVE  Ordered(file[<<s, x>>], file[<<s, Other(x)>>], x)
  <2>1. Len(file[<<s, Other(x)>>].lines) = 0
    BY <1>2, PairIs
  <2> QED
    BY <2>1 DEF Ordered, HasSources, Led
<1>4. Solo(copy.has)
  BY <1>1, SoloNoFile, NoCopyIs
<1> QED
  BY <1>2, <1>3, <1>4 DEF OrderOK, InOrder, OrderAt

\* Where a copy is led by all that comes before its original, copies are in order.
LEMMA OrderedInOrder ==
  ASSUME BridgeTypes, OrderOK
  PROVE  CopiesInOrder
<1> SUFFICES ASSUME NEW s \in Paired, NEW side \in Side,
                    NEW p, p = <<s, side>>, NEW q, q = <<s, Other(side)>>,
                    {p, q} \cap replaced = {}, Clean(q),
                    NEW j \in DOMAIN file[q].lines, NEW n \in DOMAIN file[p].lines,
                    file[q].lines[j].from = side, file[p].lines[n] = Own(file[q].lines[j].id)
             PROVE  ReadBefore(p, n) \subseteq {file[q].lines[i].id : i \in 1 .. j}
  BY DEF CopiesInOrder
<1>1. p \in Path /\ q \in Path /\ file \in [Path -> File]
  BY PairIs DEF BridgeTypes, FilesOK
<1>2. file[p].lines \in Seq(Line) /\ file[q].lines \in Seq(Line)
  BY <1>1 DEF File
<1>3. /\ DOMAIN file[p].lines = 1 .. Len(file[p].lines) /\ DOMAIN file[q].lines = 1 .. Len(file[q].lines)
      /\ Len(file[q].lines) \in Nat
  BY <1>2
<1>4. Whole(file[q])
  BY <1>3 DEF Clean, Held, Whole
<1>5. Led(file[p], file[q], side)
  <2>1. Ordered(file[p], file[q], side)
    BY DEF OrderOK, InOrder, OrderAt
  <2> QED
    BY <1>4, <2>1 DEF Ordered
<1>6. ASSUME NEW m \in DOMAIN file[p].lines, m <= n, file[p].lines[m] # Garbled,
             file[p].lines[m].from = "none"
      PROVE  file[p].lines[m].id \in {file[q].lines[i].id : i \in 1 .. j}
  <2>1. OwnLine(file[p], m)
    BY <1>6 DEF OwnLine
  <2>2. By(file[q], j, file[p].lines[m].id)
    BY <1>3, <1>5, <1>6, <2>1 DEF Led
  <2>3. PICK i \in 1 .. Len(file[q].lines) : i <= j /\ file[q].lines[i].id = file[p].lines[m].id
    BY <2>2 DEF By
  <2>4. i \in 1 .. j
    BY <1>3, <2>3
  <2> QED
    BY <2>3, <2>4
<1> QED
  BY <1>6 DEF ReadBefore

-----------------------------------------------------------------------------
(* BridgeSync: the inductive invariant and the theorems *)

\* The inductive invariant of BridgeSync.
BridgeInv ==
  /\ BridgeTypes /\ BookOK /\ AllCovered /\ OrderOK /\ Apart
  /\ Sharp => SharpInv

\* It holds whatever the poller, the handlers, the runs and the agents do, and
\* across failed writes and restarts.
THEOREM BridgeInvariance == BridgeSpec => []BridgeInv
<1>1. BridgeInit => BridgeInv
  BY InitBridge, InitBook, InitCovered, InitOrder, InitSharp DEF BridgeInv
<1>2. BridgeInv /\ [BridgeNext]_bvars => BridgeInv'
  <2> SUFFICES ASSUME BridgeInv, [BridgeNext]_bvars
               PROVE  BridgeInv'
    OBVIOUS
  <2>1. BridgeTypes' /\ BookOK' /\ Grows
    BY BridgeStep DEF BridgeInv
  <2>2. AllCovered'
    BY <2>1, CoveredStep DEF BridgeInv
  <2>3. Apart'
    BY ApartStep DEF BridgeInv
  <2>4. Sharp' => SharpInv'
    BY SharpStep DEF BridgeInv
  <2>5. OrderOK'
    BY <2>1, OrderStep DEF BridgeInv
  <2> QED
    BY <2>1, <2>2, <2>3, <2>4, <2>5 DEF BridgeInv
<1> QED
  BY <1>1, <1>2, PTL DEF BridgeSpec

\* The types of the model's state.
THEOREM BridgeTypeCorrect == BridgeSpec => []BridgeTypeOK
<1>1. BridgeInv => BridgeTypeOK
  BY DEF BridgeInv, BridgeTypes, RecordsOK, FilesOK, BridgeTypeOK
<1> QED
  BY <1>1, BridgeInvariance, PTL

\* NothingSkipped: a sync takes up only what the other file was not given
\* (sync_cycle), whatever the poller, the chat, a turn of the runner, a failed
\* write and a crash do in between.
THEOREM NothingIsSkipped == BridgeSpec => []NothingSkipped
<1>1. BridgeInv => NothingSkipped
  BY CoveredSkipsNothing DEF BridgeInv
<1> QED
  BY <1>1, BridgeInvariance, PTL

\* CopiesInOrder: by the copy of a line the other file has all that its agent wrote
\* before it, also if syncs of the poller and the chat overlap, break off or start over
\* (sync_cycle: both read the file again, from offsets that skip nothing).
THEOREM CopiesStayInOrder == BridgeSpec => []CopiesInOrder
<1>1. BridgeInv => CopiesInOrder
  BY OrderedInOrder DEF BridgeInv
<1> QED
  BY <1>1, BridgeInvariance, PTL

\* A marked line is of the other file of the pair.
LEMMA BookedNoEcho ==
  ASSUME BridgeTypes, BookOK
  PROVE  NoEcho
<1> SUFFICES ASSUME NEW p \in Path, NEW i \in DOMAIN file[p].lines, NEW l, l = file[p].lines[i],
                    l.from # "none"
             PROVE  born[l.id] # p
  BY DEF NoEcho
<1>1. file[p].lines \in Seq(Line)
  BY DEF BridgeTypes, FilesOK, File
<1>2. i \in 1 .. Len(file[p].lines) /\ l \in Line /\ l # Garbled
  BY <1>1, LinesAre
<1>3. Authored(l, p, born)
  BY <1>2 DEF BookOK, AllBooked, Booked
<1>4. p[2] \in Side
  BY DEF Path, Side
<1>5. Other(p[2]) # p[2]
  BY <1>4, SidesAre
<1>6. born[l.id] = <<p[1], Other(p[2])>>
  BY <1>2, <1>3 DEF Authored
<1>7. <<p[1], Other(p[2])>>[2] = Other(p[2])
  OBVIOUS
<1> QED
  BY <1>5, <1>6, <1>7

\* A line that is in a file once is copied once.
LEMMA OnceIsCopiedOnce ==
  ASSUME BridgeTypes, Sharp => SharpInv
  PROVE  CopiedOnce
<1> SUFFICES ASSUME Sharp, NEW p \in Path, NEW i \in DOMAIN file[p].lines, NEW j \in DOMAIN file[p].lines,
                    i < j, file[p].lines[i] # Garbled
             PROVE  file[p].lines[i] # file[p].lines[j]
  BY DEF CopiedOnce, Sharp
<1>1. file[p].lines \in Seq(Line)
  BY DEF BridgeTypes, FilesOK, File
<1>2. i \in 1 .. Len(file[p].lines) /\ j \in 1 .. Len(file[p].lines) /\ i # j
  BY <1>1
<1>3. Once(file[p])
  BY DEF SharpInv, OnceEach
<1> QED
  BY <1>2, <1>3 DEF Once

\* NoneTwice: no line comes back to the file it was first written to, and none is in
\* a file twice unless two syncs overlapped, a write or the daemon stopped half-way, or
\* a transcript was put back (sync_cycle, should_skip_synced_line, the offsets).
THEOREM NoLineTwice == BridgeSpec => []NoneTwice
<1>1. BridgeInv => NoneTwice
  BY BookedNoEcho, OnceIsCopiedOnce DEF BridgeInv, NoneTwice
<1> QED
  BY <1>1, BridgeInvariance, PTL

=============================================================================
