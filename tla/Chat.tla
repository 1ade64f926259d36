-------------------------------- MODULE Chat --------------------------------
(***************************************************************************)
(* The chats of the bot: the messages and presses that reach the daemon and*)
(* what their handlers do (telegram.rs, auth_cmds.rs, routing.rs, inbox.rs)*)
(*                                                                         *)
(* The updates of one chat are handled one after the other, those of two   *)
(* chats at the same time, and a message to antigravity is a task of its   *)
(* own.  A handler reads the state, perhaps more than once, and the repos  *)
(* registered when the daemon started.  How an agent runs, what a turn asks*)
(* the owner, and how files are copied are the subject of other modules:   *)
(* here a run is that a session of some agent is given a message in the    *)
(* directory of some repo.                                                 *)
(***************************************************************************)
EXTENDS Integers, Sequences, FiniteSets, SequencesExt, Selection

CONSTANTS
  Chats, Repo, Session, None,
  AgentOf, Home,   \* session -> its agent, and the repo it belongs to
  Folder,          \* repo -> the folder in which gemini keeps its sessions
  Agents,          \* repo -> the agents it may be registered with
  MaxMessages,     \* bound of the model
  Limits           \* bounds of the model: chats; kinds of updates, and agents in them;
                   \* updates; uses of the desktop and faults; and what there is at
                   \* first: sessions, default repo, configured lead, runner

Agent == {"claude", "codex", "gemini", "antigravity"}

ASSUME ChatAssumption ==
  /\ None \notin Repo \cup Session
  /\ AgentOf \in [Session -> Agent] /\ Home \in [Session -> Repo]
  /\ DOMAIN Folder = Repo /\ Agents \in [Repo -> SUBSET Agent] /\ MaxMessages \in Nat
  /\ Limits \subseteq [chats : SUBSET Chats, kinds : SUBSET STRING, agents : SUBSET Agent,
                      messages : 0..MaxMessages, faults : Nat, sessions : SUBSET Session,
                      mobile : Session \cup {None}, default : Repo \cup {None},
                      lead : Agent, runner : BOOLEAN]
  /\ \A l \in Limits : IsFiniteSet(l.sessions)

VARIABLES
  repos,           \* registered repo -> its agents, in the running daemon
  default,         \* chat -> its default repo
  lead, leadDefault,
  picked,          \* chat -> agent -> the record of the selected session
  mobile,          \* chat -> a claude session selected by an older daemon
  model,           \* chat -> the antigravity model it has set
  touched,         \* the sessions there are, the one written last at the end
  shown,           \* chat -> the buttons it was ever sent
  doing,           \* chat -> the handler of its update
  task,            \* chat -> the handler of its message to antigravity
  inbox,           \* repo, agent -> the messages in the file
  runs,            \* history: what sessions were given
  sent,            \* history: message -> its chat, lead and target when it was taken
  acked,           \* history: messages the chat was told are routed
  made,            \* history: chat -> the session its last fresh gemini run made
  limit, slips

choice == <<default, lead, leadDefault, picked, model>>
desk   == <<touched, made>>
hist   == <<runs, sent, acked>>
fixedc == <<repos, mobile, limit>>
cvars  == <<fixedc, choice, desk, shown, doing, task, inbox, hist, slips>>

Record == [session : Session, repo : Repo]
NoRec  == [session |-> None, repo |-> None]

\* An update: a message, by what it asks for, or a press on a button.
Update(k, agent, repo, session) == [k |-> k, agent |-> agent, repo |-> repo, session |-> session]
NoUpdate == Update("none", None, None, None)
Resting == [at |-> "idle", msg |-> 0, u |-> NoUpdate, rec |-> NoRec, text |-> <<>>]

ChatInit ==
  /\ limit \in Limits /\ slips = 0
  /\ repos = Agents
  /\ default = [c \in Chats |-> limit.default]
  /\ lead = [c \in Chats |-> None] /\ leadDefault = None
  /\ picked = [c \in Chats |-> [a \in Agent |-> NoRec]]
  /\ mobile = [c \in Chats |-> limit.mobile]
  /\ model = [c \in Chats |-> "default"]
  /\ touched = SetToSeq(limit.sessions)
  /\ shown = [c \in Chats |-> {}]
  /\ doing = [c \in Chats |-> Resting] /\ task = [c \in Chats |-> Resting]
  /\ inbox = [x \in Repo \X Agent |-> <<>>]
  /\ runs = {} /\ sent = <<>> /\ acked = {} /\ made = [c \in Chats |-> None]

Slips == slips < limit.faults /\ slips' = slips + 1
Registered(r) == r \in DOMAIN repos
Alive(s) == \E i \in DOMAIN touched : touched[i] = s
Others(s) == Selected(touched, Session \ {s})
Touch(s) == touched' = Append(Others(s), s)

Lead(c) == IF lead[c] # None THEN lead[c]
           ELSE IF leadDefault # None THEN leadDefault ELSE limit.lead

\* The handler of the update is over, or goes on.
Finish(c) == doing' = [doing EXCEPT ![c] = Resting]
Go(c, at) == doing' = [doing EXCEPT ![c].at = at]
Is(c, k)  == doing[c].at = "begin" /\ doing[c].u.k = k
What(c)   == doing[c].u

-----------------------------------------------------------------------------
(* Updates arrive (teloxide_message_handler, teloxide_callback_handler) *)

Message ==
  {Update(k, None, None, None) : k \in {"picker", "clear", "plain", "show"}} \cup
  {Update(k, a, None, None) : k \in {"list", "lead", "leadDefault"}, a \in Agent} \cup
  {Update("chat", a, None, None) : a \in Agent} \cup
  {Update("route", a, r, None) : a \in Agent, r \in Repo \cup {None}} \cup
  {Update("switch", None, r, None) : r \in Repo} \cup
  {Update("model", m, None, None) : m \in {"default", "other"}}

Target(c, u) == IF u.repo # None THEN u.repo ELSE default[c]

\* An update of a chat whose last one is done; a button can be pressed again.  A chat
\* sends antigravity one message at a time (a bound of the model).
Takes(c) ==
  /\ c \in limit.chats /\ doing[c].at = "idle" /\ Len(sent) < limit.messages
  /\ \E u \in Message \cup shown[c] :
       /\ u.k \in limit.kinds /\ (u.agent \in Agent => u.agent \in limit.agents)
       /\ sent' = Append(sent, [chat |-> c, lead |-> lead[c], to |-> <<Target(c, u), u.agent>>])
       /\ LET taken == [Resting EXCEPT !.at = "begin", !.msg = Len(sent) + 1, !.u = u] IN
          IF u.k = "chat" /\ u.agent = "antigravity"
          THEN task[c].at = "idle" /\ task' = [task EXCEPT ![c] = taken] /\ UNCHANGED doing
          ELSE doing' = [doing EXCEPT ![c] = taken] /\ UNCHANGED task
  /\ UNCHANGED <<fixedc, choice, desk, shown, inbox, runs, acked, slips>>

-----------------------------------------------------------------------------
(* Commands *)

Show(c, buttons) == shown' = [shown EXCEPT ![c] = @ \cup buttons]

\* /current, /help, /auth_list, /quota, /lead, /models_antigravity: an answer.
Shows(c) ==
  /\ Is(c, "show") /\ Finish(c)
  /\ Show(c, {Update(k, None, None, None) : k \in {"picker", "clear", "show"}} \cup
             {Update("list", a, None, None) : a \in Agent})
  /\ UNCHANGED <<fixedc, choice, desk, task, inbox, hist, slips>>

Picks(c) ==
  /\ Is(c, "picker") /\ Finish(c)
  /\ Show(c, {Update("switch", None, r, None) : r \in DOMAIN repos})
  /\ UNCHANGED <<fixedc, choice, desk, task, inbox, hist, slips>>

\* By command or by button; of a repo that is not registered nothing is said.
Switches(c) ==
  /\ Is(c, "switch") /\ Finish(c)
  /\ default' = IF Registered(What(c).repo) THEN [default EXCEPT ![c] = What(c).repo] ELSE default
  /\ UNCHANGED <<fixedc, lead, leadDefault, picked, model, desk, shown, task, inbox, hist, slips>>

\* /lead, /lead_default, /lead_clear.
Leads(c) ==
  /\ Finish(c)
  /\ \/ Is(c, "lead") /\ lead' = [lead EXCEPT ![c] = What(c).agent] /\ UNCHANGED leadDefault
     \/ Is(c, "leadDefault") /\ leadDefault' = What(c).agent /\ UNCHANGED lead
     \/ Is(c, "clear") /\ lead' = [lead EXCEPT ![c] = None] /\ UNCHANGED leadDefault
  /\ UNCHANGED <<fixedc, default, picked, model, desk, shown, task, inbox, hist, slips>>

SetsModel(c) ==
  /\ Is(c, "model") /\ Finish(c)
  /\ model' = [model EXCEPT ![c] = What(c).agent]
  /\ UNCHANGED <<fixedc, default, lead, leadDefault, picked, desk, shown, task, inbox, hist, slips>>

Everywhere(a) == {s \in ToSet(touched) : AgentOf[s] = a}

\* The sessions of an agent: of codex and gemini those of the default repo, of claude
\* and antigravity all there are.
Offered(c, a) == {s \in Everywhere(a) :
                    a \in {"codex", "gemini"} => Registered(default[c]) /\ Home[s] = default[c]}

\* handle_list_*_command; a scan that fails, and one that finds nothing, show no button.
Lists(c) ==
  /\ Is(c, "list") /\ Finish(c)
  /\ \/ Show(c, {Update("sel", AgentOf[s], None, s) : s \in Offered(c, What(c).agent)})
     \/ UNCHANGED shown
  /\ UNCHANGED <<fixedc, choice, desk, task, inbox, hist, slips>>

\* Mutant: the session of the button is recorded without looking for it.
SelectsBlindly(c) ==
  LET u == What(c) IN
  /\ Is(c, "sel") /\ Finish(c) /\ Registered(default[c])
  /\ picked' = [picked EXCEPT ![c][u.agent] = [session |-> u.session, repo |-> default[c]]]
  /\ UNCHANGED <<fixedc, default, lead, leadDefault, model, desk, shown, task, inbox, hist, slips>>

\* The session is looked for again, by codex and gemini among those of the repo that
\* is the default now; and its repo is.
Found(c, u) == u.session \in Offered(c, u.agent) /\ Registered(Home[u.session])

\* handle_callback_sel_*
Selects(c) ==
  LET u == What(c) IN
  /\ Is(c, "sel") /\ Finish(c)
  /\ \/ /\ Found(c, u)
        /\ picked' = [picked EXCEPT ![c][u.agent] = [session |-> u.session, repo |-> Home[u.session]]]
     \/ UNCHANGED picked                     \* not found, not registered, or the scan failed
  /\ UNCHANGED <<fixedc, default, lead, leadDefault, model, desk, shown, task, inbox, hist, slips>>

-----------------------------------------------------------------------------
(* Messages to the selected session *)

Run(h, rec, agent, c) ==
  [msg |-> h.msg, agent |-> agent, session |-> rec.session, repo |-> rec.repo,
   model |-> IF agent = "antigravity" THEN model[c] ELSE "default", plain |-> h.u.k = "plain"]

\* The record a message to claude uses: the selected one, or the older daemon's.
ClaudeRecord(c) ==
  IF picked[c]["claude"] # NoRec \/ mobile[c] = None THEN picked[c]["claude"]
  ELSE [session |-> mobile[c], repo |-> Home[mobile[c]]]

HasSession(c, a) == (IF a = "claude" THEN ClaudeRecord(c) ELSE picked[c][a]) # NoRec

\* A message to claude or codex; antigravity's when it is the lead's (see Background).
\* Without a session, or with one of a repo that is not registered any more, there is
\* no run.
Addresses(c, a) ==
  LET rec == IF a = "claude" THEN ClaudeRecord(c) ELSE picked[c][a] IN
  /\ a \in {"claude", "codex", "antigravity"}
  /\ IF rec = NoRec \/ ~Registered(rec.repo)
        \/ (a = "antigravity" /\ repos[rec.repo] \cap {"antigravity", "gemini"} = {})
     THEN Finish(c)
     ELSE doing' = [doing EXCEPT ![c].at = "run", ![c].rec = rec, ![c].u.agent = a]

ClaudeOrCodexChats(c) ==
  /\ Is(c, "chat") /\ Addresses(c, What(c).agent)
  /\ UNCHANGED <<fixedc, choice, desk, shown, task, inbox, hist, slips>>

\* The agent ends: it was given the message, and may have written its session; or it
\* could not be started, or a name or model was asked for and answered here.
RunEnds(c) ==
  LET h == doing[c] IN
  /\ h.at = "run" /\ Finish(c)
  /\ \/ /\ runs' = runs \cup {Run(h, h.rec, h.u.agent, c)}
        /\ IF Alive(h.rec.session) THEN Touch(h.rec.session) ELSE UNCHANGED touched
     \/ UNCHANGED <<runs, touched>>
  /\ UNCHANGED <<fixedc, choice, made, shown, task, inbox, sent, acked, slips>>

-----------------------------------------------------------------------------
(* handle_gemini_bridge_msg *)

Geminis(c) ==
  LET rec  == picked[c]["gemini"]
      repo == IF rec # NoRec THEN rec.repo ELSE default[c]
  IN
  /\ IF ~Registered(repo) \/ "gemini" \notin repos[repo] THEN Finish(c)
     ELSE doing' = [doing EXCEPT ![c].at = IF rec # NoRec THEN "resume" ELSE "fresh",
                                 ![c].rec = [rec EXCEPT !.repo = repo], ![c].u.agent = "gemini"]

GeminiChats(c) ==
  /\ Is(c, "chat") /\ What(c).agent = "gemini" /\ Geminis(c)
  /\ UNCHANGED <<fixedc, choice, desk, shown, task, inbox, hist, slips>>

\* Mutant: a resume that failed in any way is run afresh.
ResumesAnyway(c) ==
  LET h == doing[c] IN
  /\ h.at = "resume" /\ Go(c, "fresh")
  /\ runs' \in {runs, runs \cup {Run(h, h.rec, "gemini", c)}}
  /\ UNCHANGED <<fixedc, choice, desk, shown, task, inbox, sent, acked, slips>>

\* Mutant: a session gemini does not know is resumed again.
ResumesStale(c) ==
  LET h == doing[c] IN
  /\ h.at = "resume"
  /\ \/ ~Alive(h.rec.session) /\ UNCHANGED <<doing, runs, touched>>
     \/ /\ Alive(h.rec.session) /\ Finish(c) /\ Touch(h.rec.session)
        /\ runs' = runs \cup {Run(h, h.rec, "gemini", c)}
  /\ UNCHANGED <<fixedc, choice, made, shown, task, inbox, sent, acked, slips>>

\* gemini does not know the session, and was given nothing; or it was, and ends well
\* or not; or it fails before.
Resumes(c) ==
  LET h == doing[c] IN
  /\ h.at = "resume"
  /\ \/ /\ ~Alive(h.rec.session) /\ Go(c, "fresh") /\ UNCHANGED <<runs, touched>>
     \/ /\ Alive(h.rec.session) /\ Finish(c) /\ Touch(h.rec.session)
        /\ runs' = runs \cup {Run(h, h.rec, "gemini", c)}
     \/ Finish(c) /\ UNCHANGED <<runs, touched>>
  /\ UNCHANGED <<fixedc, choice, made, shown, task, inbox, sent, acked, slips>>

\* gemini in the repo's directory makes a session; or fails, having made one or not.
Freshly(c) ==
  LET h == doing[c] IN
  /\ h.at = "fresh"
  /\ \/ /\ \E s \in Session : /\ ~Alive(s) /\ AgentOf[s] = "gemini" /\ Home[s] = h.rec.repo
                              /\ Touch(s) /\ made' = [made EXCEPT ![c] = s]
                              /\ runs' = runs \cup {Run(h, [h.rec EXCEPT !.session = s], "gemini", c)}
        /\ Go(c, "save") \/ Finish(c)
     \/ Finish(c) /\ UNCHANGED <<runs, desk>>
  /\ UNCHANGED <<fixedc, choice, shown, task, inbox, sent, acked, slips>>

\* find_latest_gemini_session_id
Latest(r) == Selected(touched, {s \in Session : AgentOf[s] = "gemini" /\ Folder[Home[s]] = Folder[r]})

\* The record is of the file written last in the folder.
Saves(c) ==
  LET h == doing[c]
      latest == Latest(h.rec.repo)
  IN
  /\ h.at = "save" /\ Finish(c)
  /\ picked' = IF latest = <<>> THEN picked
               ELSE [picked EXCEPT ![c]["gemini"] = [session |-> Last(latest), repo |-> h.rec.repo]]
  /\ UNCHANGED <<fixedc, default, lead, leadDefault, model, desk, shown, task, inbox, hist, slips>>

-----------------------------------------------------------------------------
(* Messages to antigravity are tasks of their own *)

Over(c) == task' = [task EXCEPT ![c] = Resting]

\* The task reads the state when it starts, which may be after later updates.
Background(c) ==
  LET rec == picked[c]["antigravity"] IN
  /\ task[c].at = "begin"
  /\ IF rec = NoRec \/ ~Registered(rec.repo)
        \/ repos[rec.repo] \cap {"antigravity", "gemini"} = {}
     THEN Over(c)
     ELSE task' = [task EXCEPT ![c].at = "run", ![c].rec = rec]
  /\ UNCHANGED <<fixedc, choice, desk, shown, doing, inbox, hist, slips>>

BackgroundEnds(c) ==
  LET h == task[c] IN
  /\ h.at = "run" /\ Over(c)
  /\ runs' \in {runs, runs \cup {Run(h, h.rec, "antigravity", c)}}
  /\ UNCHANGED <<fixedc, choice, desk, shown, doing, inbox, sent, acked, slips>>

-----------------------------------------------------------------------------
(* handle_unaddressed_lead_message *)

\* Mutant: the default lead goes before the chat's.
ResolvesDefaultFirst(c) ==
  /\ Is(c, "plain")
  /\ doing' = [doing EXCEPT ![c].at = "led",
        ![c].u.agent = IF leadDefault # None THEN leadDefault ELSE Lead(c)]
  /\ UNCHANGED <<fixedc, choice, desk, shown, task, inbox, hist, slips>>

Resolves(c) ==
  /\ Is(c, "plain")
  /\ doing' = [doing EXCEPT ![c].at = "led", ![c].u.agent = Lead(c)]
  /\ UNCHANGED <<fixedc, choice, desk, shown, task, inbox, hist, slips>>

\* The lead has a selected session: as if the message were addressed to it, and
\* antigravity's too is handled here.
LeadChats(c) ==
  LET a == What(c).agent IN
  /\ doing[c].at = "led" /\ HasSession(c, a)
  /\ IF a = "gemini" THEN Geminis(c) ELSE Addresses(c, a)
  /\ UNCHANGED <<fixedc, choice, desk, shown, task, inbox, hist, slips>>

\* It has none: the runner, if there is one, in the older session's repo or the
\* default one.
LeadRuns(c) ==
  LET a    == What(c).agent
      repo == IF mobile[c] # None THEN Home[mobile[c]] ELSE default[c]
  IN
  /\ doing[c].at = "led" /\ ~HasSession(c, a)
  /\ IF ~limit.runner \/ ~Registered(repo) \/ a \notin repos[repo] THEN Finish(c)
     ELSE doing' = [doing EXCEPT ![c].at = "run", ![c].rec = [session |-> None, repo |-> repo]]
  /\ UNCHANGED <<fixedc, choice, desk, shown, task, inbox, hist, slips>>

-----------------------------------------------------------------------------
(* handle_routed_message, append_inbox *)

Box(c) == <<Target(c, What(c)), What(c).agent>>

Routes(c) ==
  LET r == Target(c, What(c)) IN
  /\ Is(c, "route")
  /\ IF ~Registered(r) \/ What(c).agent \notin repos[r] THEN Finish(c) ELSE Go(c, "lock")
  /\ UNCHANGED <<fixedc, choice, desk, shown, task, inbox, hist, slips>>

Locked(box) == \E d \in Chats : doing[d].at = "append" /\ Box(d) = box

\* Mutant: there is no lock.
ReadsInboxUnlocked(c) ==
  /\ doing[c].at = "lock"
  /\ doing' = [doing EXCEPT ![c].at = "append", ![c].text = inbox[Box(c)]]
  /\ UNCHANGED <<fixedc, choice, desk, shown, task, inbox, hist, slips>>

ReadsInbox(c) ==
  /\ doing[c].at = "lock" /\ ~Locked(Box(c))
  /\ doing' = [doing EXCEPT ![c].at = "append", ![c].text = inbox[Box(c)]]
  /\ UNCHANGED <<fixedc, choice, desk, shown, task, inbox, hist, slips>>

\* The new file takes the place of the old one, and the chat is told; or it cannot.
WritesInbox(c) ==
  /\ doing[c].at = "append" /\ Finish(c)
  /\ \/ /\ inbox' = [inbox EXCEPT ![Box(c)] = Append(doing[c].text, doing[c].msg)]
        /\ acked' = acked \cup {doing[c].msg} /\ UNCHANGED slips
     \/ Slips /\ UNCHANGED <<inbox, acked>>
  /\ UNCHANGED <<fixedc, choice, desk, shown, task, runs, sent>>

-----------------------------------------------------------------------------
(* The desktop, and the daemon *)

\* A session is used on the desktop, or removed there.
DesktopUses(s) ==
  /\ Slips
  /\ Touch(s) \/ (Alive(s) /\ touched' = Others(s))
  /\ UNCHANGED <<fixedc, choice, made, shown, doing, task, inbox, hist>>

\* A daemon that is started again has forgotten its handlers, and reads the repos.
DaemonRestarts ==
  /\ Slips
  /\ repos' \in {[r \in kept |-> Agents[r]] : kept \in SUBSET Repo}
  /\ doing' = [c \in Chats |-> Resting] /\ task' = [c \in Chats |-> Resting]
  /\ UNCHANGED <<mobile, limit, choice, desk, shown, inbox, hist>>

Handles(c) ==
  \/ Shows(c) \/ Picks(c) \/ Switches(c) \/ Leads(c) \/ SetsModel(c) \/ Lists(c) \/ Selects(c)
  \/ ClaudeOrCodexChats(c) \/ RunEnds(c) \/ GeminiChats(c) \/ Resumes(c) \/ Freshly(c) \/ Saves(c)
  \/ Resolves(c) \/ LeadChats(c) \/ LeadRuns(c)
  \/ Routes(c) \/ ReadsInbox(c) \/ WritesInbox(c)
Tasks(c) == Background(c) \/ BackgroundEnds(c)

ChatNext ==
  \/ \E c \in Chats : Takes(c) \/ Handles(c) \/ Tasks(c)
  \/ \E s \in Session : DesktopUses(s)
  \/ DaemonRestarts

\* Handlers and tasks go on; runs of agents have a timeout.
ChatSpec == ChatInit /\ [][ChatNext]_cvars
            /\ \A c \in Chats : WF_cvars(Handles(c)) /\ WF_cvars(Tasks(c))

-----------------------------------------------------------------------------
(* Properties *)

ChatTypeOK ==
  /\ DOMAIN repos \subseteq Repo
  /\ default \in [Chats -> Repo \cup {None}]
  /\ lead \in [Chats -> Agent \cup {None}] /\ leadDefault \in Agent \cup {None}
  /\ picked \in [Chats -> [Agent -> Record \cup {NoRec}]]
  /\ \A c \in Chats : \A a \in Agent : picked[c][a] # NoRec => AgentOf[picked[c][a].session] = a
  /\ \A c \in Chats : \A x \in {doing[c], task[c]} :
       /\ x.at \in {"idle", "begin", "run", "resume", "fresh", "save", "led", "lock", "append"}
       /\ x.msg \in 0..MaxMessages
  /\ touched \in Seq(Session) /\ acked \subseteq DOMAIN sent

\* A session is of the repo it was begun in; one of gemini is of every repo with the same
\* folder, whose name is the last part of the repo's path.
AtHome(s, r) ==
  /\ r \in Repo
  /\ IF AgentOf[s] = "gemini" THEN Folder[r] = Folder[Home[s]] ELSE r = Home[s]

\* A session is given messages in the directory of its own repo only: by buttons of an
\* older list, after /switch_rp, in a record made by a fresh run, with repos removed.
RunsWhereItLives == \A x \in runs : x.session # None => AtHome(x.session, x.repo)

\* A message is given to an agent once, and never both to an agent and to an inbox,
\* although a stale gemini session is followed by a fresh run.
HeardOnce ==
  /\ \A x, y \in runs : x.msg = y.msg => x = y
  /\ \A x \in runs : x.msg \notin acked

\* What a chat was told is routed is in the inbox of the agent and the repo it named,
\* or of the repo that was its default when it wrote, once, and stays there: two chats
\* write to one inbox.
InboxKept ==
  \A m \in acked : Cardinality({i \in DOMAIN inbox[sent[m].to] : inbox[sent[m].to][i] = m}) = 1

\* A message ends up in one place, and there once.
MessageOnce == HeardOnce /\ InboxKept

\* A message without an address goes to the lead that its chat had set, whatever the
\* default lead is or becomes by the messages of other chats (resolve_lead_for_chat).
OwnLeadAnswers ==
  \A x \in runs : x.plain /\ sent[x.msg].lead # None => x.agent = sent[x.msg].lead

\* What becomes of a message, without what the handlers do for it.
Post == INSTANCE Delivery WITH Inbox <- Repo \X Agent, heard <- runs, told <- acked

\* Chat implements Delivery: the two steps of append_inbox are one, although other chats
\* write the same file, a fresh run after a stale one is the only one, and a restart in
\* between leaves no message half delivered (append_inbox, handle_gemini_bridge_msg,
\* handle_unaddressed_lead_message).
DeliversOnce == Post!Spec

\* No chat is stuck in the handler of an update, so its next one is taken.
ChatsServed == []<>(\A c \in Chats : doing[c] = Resting /\ task[c] = Resting)

\* "we can save the just-created session to the bridge": a fresh gemini run leaves the
\* chat with the session it made.
SavesItsOwn ==
  [][\A c \in Chats : doing[c].at = "save" /\ picked'[c] # picked[c] =>
       picked'[c]["gemini"].session = made[c]]_cvars

\* "/list_claude lists Claude desktop sessions for the current repo"
ListsCurrentRepo ==
  [][\A c \in Chats : \A u \in shown'[c] \ shown[c] :
       u.k = "sel" => Home[u.session] = default[c]]_cvars
=============================================================================
