------------------------------ MODULE CodexTurn -----------------------------
(***************************************************************************)
(* One message to the selected codex session, after the sync of its files  *)
(* (handle_codex_bridge_msg, codex_ipc.rs, codex_app_server.rs).           *)
(*                                                                         *)
(* In the mode "live" the open desktop application is asked to run the turn*)
(* and its transcript is watched for the reply; if it cannot be asked, the *)
(* runner resumes the session.  In the mode "server" the daemon starts     *)
(* `codex app-server`, makes three requests and reads what the turn emits; *)
(* the server asks before it runs a command, and a command with a rule is  *)
(* put to the owner.  The server and the desktop are external.             *)
(***************************************************************************)
EXTENDS Selection, Integers, Sequences

CONSTANTS
  Early,         \* the server may ask before it has answered turn/start
  MaxMessages,   \* bound of the model: messages of the server besides answers
  MaxEntries     \* bound of the model: entries of the transcript

ASSUME TurnAssumption ==
  Early \in BOOLEAN /\ MaxMessages \in Nat /\ MaxEntries \in Nat

VARIABLES
  mode,          \* codex_mode of the repository
  elsewhere,     \* the owner's cards are in another chat than the message
  at, result,    \* what the handler is doing; how it ended
  want,          \* server: the request being made (initialize, resume, start)
  out, backlog,  \* server: what it wrote and is not read; what was read and put back
  closed, sent,  \* server: it is gone; its messages besides answers
  ask, perm,     \* server: the request being put to the owner; its entry in the state
  reply, item,   \* server: the deltas, and the whole text, of the turn so far
  answers,       \* server: what was answered to its requests
  said,          \* history: the deltas and texts of the turn
  verdict,       \* history: request -> what the owner was told the answer is
  starts, lost,  \* live: history: runs of the prompt; the connection was lost
  script, half,  \* live: the transcript since the message; its last entry is unfinished
  offset, latest \* live: the entries read; the last agent message among them

pipe   == <<want, out, backlog, closed, sent>>
asking == <<ask, perm, answers, verdict>>
text   == <<reply, item, said>>
live   == <<starts, lost, script, half, offset, latest>>
fixed  == <<mode, elsewhere>>
tvars  == <<fixed, at, result, pipe, asking, text, live>>

Command == {"free", "gated", "destructive"}   \* no rule, a rule, one with the flag
Open    == {"pending", "sent"}
Nothing == 0
NoPerm  == [id |-> 0, status |-> "none", card |-> FALSE]
NoAsk   == [id |-> 0, command |-> "free"]

TurnInit ==
  /\ mode \in {"live", "server"} /\ elsewhere \in BOOLEAN
  /\ at = "begin" /\ result = "none"
  /\ want = 0 /\ out = <<>> /\ backlog = <<>> /\ closed = FALSE /\ sent = 0
  /\ ask = NoAsk /\ perm = NoPerm /\ answers = <<>> /\ verdict = <<>>
  /\ reply = <<>> /\ item = Nothing /\ said = <<>>
  /\ starts = 0 /\ lost = FALSE
  /\ script = <<>> /\ half = FALSE /\ offset = 0 /\ latest = Nothing

Concludes(how) == at' = "end" /\ result' = how
Moves(phase)   == at' = phase /\ UNCHANGED result

-----------------------------------------------------------------------------
(* The app server (external) *)

Msg(kind, id, ours, data) == [kind |-> kind, id |-> id, ours |-> ours, data |-> data]
HasId(m) == m.id # 0

\* Requests of the server are numbered from 11 on, the daemon's from 1 on.
Emits(m) ==
  /\ mode = "server" /\ at \notin {"begin", "end"} /\ ~closed
  /\ sent < MaxMessages /\ sent' = sent + 1
  /\ out' = Append(out, m)
  /\ UNCHANGED <<fixed, at, result, want, backlog, closed, asking, live>>

Written(kind) == \E i \in DOMAIN out : out[i].kind = kind /\ out[i].ours

\* turn/start is answered, and the turn is not over.
Running == want = 3 /\ (at = "wait" => Written("response")) /\ ~Written("done")
MayAsk  == Running \/ (Early /\ want = 3)

\* An answer to the request being made; no turn is named in a broken one.
Responds ==
  /\ at = "wait" /\ ~closed /\ ~Written("response")
  /\ \E ok \in BOOLEAN : out' = Append(out, Msg("response", want, TRUE, ok))
  /\ UNCHANGED <<fixed, at, result, want, backlog, closed, sent, asking, text, live>>

\* Deltas, texts and ends of this turn and of others, and notifications.
Notifies ==
  \/ /\ at = "wait" /\ Emits(Msg("note", 0, TRUE, 0)) /\ UNCHANGED text
  \/ /\ Running
     /\ \/ \E kind \in {"delta", "item", "done"} :
             Emits(Msg(kind, 0, FALSE, sent + 1)) /\ UNCHANGED text
        \/ \E kind \in {"delta", "item"} :
             /\ Emits(Msg(kind, 0, TRUE, sent + 1))
             /\ said' = Append(said, <<kind, sent + 1>>) /\ UNCHANGED <<reply, item>>
        \/ Emits(Msg("done", 0, TRUE, 0)) /\ UNCHANGED text
        \/ Emits(Msg("error", 0, TRUE, 0)) /\ UNCHANGED text

\* The requests of item/commandExecution, fileChange and permissions.
Requests ==
  /\ MayAsk /\ UNCHANGED text
  /\ \/ \E c \in Command : Emits(Msg("approval", 11 + sent, TRUE, c))
     \/ Emits(Msg("change", 11 + sent, TRUE, "free"))

Dies ==
  /\ mode = "server" /\ at \notin {"begin", "end"} /\ ~closed
  /\ closed' = TRUE
  /\ UNCHANGED <<fixed, at, result, want, out, backlog, sent, asking, text, live>>

-----------------------------------------------------------------------------
(* CodexAppServerClient *)

\* next_message: what was put back, the last first, then what the server wrote.
Readable == backlog # <<>> \/ out # <<>>
NextMessage  == IF backlog # <<>> THEN backlog[Len(backlog)] ELSE Head(out)
Rest     == IF backlog # <<>> THEN SubSeq(backlog, 1, Len(backlog) - 1) ELSE <<>>
Takes    == /\ out' = IF backlog # <<>> THEN out ELSE Tail(out)
            /\ backlog' = Rest

Spawns ==
  /\ mode = "server" /\ at = "begin"
  /\ \/ Moves("wait") /\ want' = 1
     \/ Concludes("error") /\ UNCHANGED want
  /\ UNCHANGED <<fixed, out, backlog, closed, sent, asking, text, live>>

\* Mutant: what has no id is put back as well.
AwaitsAll ==
  LET m == NextMessage IN
  /\ at = "wait" /\ Readable /\ ~(m.kind = "response" /\ m.id = want)
  /\ Moves("wait")
  /\ out' = IF backlog # <<>> THEN out ELSE Tail(out)
  /\ backlog' = Append(Rest, m)
  /\ UNCHANGED <<fixed, want, closed, sent, asking, text, live>>

\* request: the answer ends it; of the rest what has an id is put back and read again.
Awaits ==
  LET m == NextMessage
      mine == m.kind = "response" /\ m.id = want
  IN
  /\ at = "wait" /\ Readable
  /\ \/ mine /\ m.data /\ want < 3 /\ Takes /\ want' = want + 1 /\ Moves("wait")
     \/ mine /\ m.data /\ want = 3 /\ Takes /\ Moves("collect") /\ UNCHANGED want
     \/ mine /\ ~m.data /\ Takes /\ Concludes("error") /\ UNCHANGED want
     \/ /\ ~mine /\ Moves("wait") /\ UNCHANGED want
        /\ out' = IF backlog # <<>> THEN out ELSE Tail(out)
        /\ backlog' = IF HasId(m) THEN Append(Rest, m) ELSE Rest
  /\ UNCHANGED <<fixed, closed, sent, asking, text, live>>

\* collect_turn_output: the text of this turn is kept, of other turns nothing.
CollectsText ==
  LET m == NextMessage IN
  /\ at = "collect" /\ Readable /\ Takes
  /\ m.kind \in {"delta", "item", "note", "response"} \/ (m.kind = "done" /\ ~m.ours)
  /\ reply' = IF m.kind = "delta" /\ m.ours THEN Append(reply, m.data) ELSE reply
  /\ item' = IF m.kind = "item" /\ m.ours THEN m.data ELSE item
  /\ Moves("collect")
  /\ UNCHANGED <<fixed, want, closed, sent, asking, said, live>>

CollectsEnd ==
  LET m == NextMessage IN
  /\ at = "collect" /\ Readable /\ Takes
  /\ \/ m.kind = "done" /\ m.ours /\ Concludes("ok")
     \/ m.kind = "error" /\ Concludes("error")
  /\ UNCHANGED <<fixed, want, closed, sent, asking, text, live>>

Answers(id, command, decision) ==
  answers' = Append(answers, [id |-> id, command |-> command, decision |-> decision])

\* A change, and a command without a rule, are accepted; another command is put to
\* the owner; a gate that does not verify ends the turn.
CollectsRequest ==
  LET m == NextMessage IN
  /\ at = "collect" /\ Readable /\ Takes
  /\ \/ /\ m.kind = "change" \/ (m.kind = "approval" /\ m.data = "free")
        /\ Answers(m.id, "free", "accept") /\ Moves("collect") /\ UNCHANGED ask
     \/ /\ m.kind = "approval" /\ m.data # "free"
        /\ ask' = [id |-> m.id, command |-> m.data] /\ Moves("insert") /\ UNCHANGED answers
     \/ m.kind = "approval" /\ Concludes("error") /\ UNCHANGED <<ask, answers>>
  /\ UNCHANGED <<fixed, want, closed, sent, perm, verdict, text, live>>

\* The end of the server's output, at once or in the middle of a request.
ReadsEnd ==
  /\ at \in {"wait", "collect"} /\ closed /\ ~Readable
  /\ Concludes("error")
  /\ UNCHANGED <<fixed, pipe, asking, text, live>>

-----------------------------------------------------------------------------
(* handle_command_approval *)

\* The entry is written, or cannot be.
Inserts ==
  /\ at = "insert"
  /\ \/ perm' = [id |-> ask.id, status |-> "pending", card |-> FALSE] /\ Moves("send")
     \/ Concludes("error") /\ UNCHANGED perm
  /\ UNCHANGED <<fixed, pipe, ask, answers, verdict, text, live>>

\* The card is sent, there is no chat to send it to, or sending fails.
Sends ==
  /\ at = "send"
  /\ \/ perm' = [perm EXCEPT !.card = TRUE] /\ Moves("mark")
     \/ Moves("poll") /\ UNCHANGED perm
     \/ Concludes("error") /\ UNCHANGED perm
  /\ UNCHANGED <<fixed, pipe, ask, answers, verdict, text, live>>

\* The entry becomes "sent", whatever it is now; or it cannot be written.
Marks ==
  /\ at = "mark"
  /\ perm' = [perm EXCEPT !.status = "sent"]
  /\ Moves("poll") \/ Concludes("error")
  /\ UNCHANGED <<fixed, pipe, ask, answers, verdict, text, live>>

\* A press on the card: while the handler runs, updates of its chat wait behind it.
Presses(v) ==
  /\ perm.card /\ perm.status \in Open
  /\ elsewhere \/ at = "end"
  /\ perm' = [perm EXCEPT !.status = v]
  /\ verdict' = Append(verdict, <<perm.id, v>>)
  /\ UNCHANGED <<fixed, at, result, pipe, ask, answers, text, live>>

\* Mutant: a destructive command that timed out is treated as any other.
SaysAccept(status) == IF status = "denied" THEN "decline" ELSE "accept"

Says(status) == CASE status = "approved" -> "accept"
                  [] status = "denied"   -> "decline"
                  [] status = "timedout" /\ ask.command = "destructive" -> "decline"
                  [] OTHER -> "accept"

\* wait_for_telegram_decision: an answer that is there is taken.
Polls ==
  /\ at = "poll" /\ perm.status \notin Open
  /\ Answers(ask.id, ask.command, Says(perm.status))
  /\ Moves("collect")
  /\ UNCHANGED <<fixed, pipe, ask, perm, verdict, text, live>>

\* The deadline has passed on an entry that was open when it was read.
Lapses ==
  /\ at = "poll" /\ perm.status \in Open
  /\ Moves("expire")
  /\ UNCHANGED <<fixed, pipe, asking, text, live>>

Expired == IF perm.status \in Open THEN [perm EXCEPT !.status = "timedout"] ELSE perm

\* expire_pending; whatever it found, the request is answered as one timed out, if the
\* entry and the answer can be written.
Expires ==
  /\ at = "expire"
  /\ perm' = Expired
  /\ \/ Answers(ask.id, ask.command, Says("timedout")) /\ Moves("collect")
     \/ Concludes("error") /\ UNCHANGED answers
  /\ UNCHANGED <<fixed, pipe, ask, verdict, text, live>>

\* The server does not read what it is told any more.
WriteFails ==
  /\ closed /\ Concludes("error")
  /\ at = "collect" \/ (at = "poll" /\ perm.status \notin Open)
  /\ UNCHANGED <<fixed, pipe, asking, text, live>>

\* The time of a request, and of the turn; a client that goes round its backlog
\* reaches no point where its time can run out.
RunsOut ==
  /\ at \in {"wait", "collect", "insert", "send", "mark", "poll", "expire"}
  /\ at = "wait" => backlog = <<>>
  /\ Concludes("error")
  /\ UNCHANGED <<fixed, pipe, asking, text, live>>

-----------------------------------------------------------------------------
(* run_codex_bridge_via_desktop_ipc *)

Falls  == Moves("runner")

\* Mutant: a request that timed out goes to the runner too.
AsksDesktopAgain ==
  /\ mode = "live" /\ at = "begin"
  /\ \/ Moves("watch") /\ starts' = 1
     \/ Falls /\ starts' \in {0, 1}
  /\ UNCHANGED <<fixed, pipe, asking, text, lost, script, half, offset, latest>>

\* start_thread_follower_turn: connected and accepted; not connected, refused, or
\* without an owner; timed out; or the connection is lost, before or after the
\* request was read.
AsksDesktop ==
  /\ mode = "live" /\ at = "begin"
  /\ \/ Moves("watch") /\ starts' = 1 /\ UNCHANGED lost
     \/ Falls /\ UNCHANGED <<starts, lost>>
     \/ Falls /\ lost' = TRUE /\ starts' \in {0, 1}
     \/ Concludes("noreply") /\ starts' \in {0, 1} /\ UNCHANGED lost
  /\ UNCHANGED <<fixed, pipe, asking, text, script, half, offset, latest>>

\* run_agent_via_runner, if there is one.
RunsOnRunner ==
  /\ at = "runner"
  /\ \/ starts' = starts + 1 /\ \E how \in {"ok", "error"} : Concludes(how)
     \/ Concludes("error") /\ UNCHANGED starts
  /\ UNCHANGED <<fixed, pipe, asking, text, lost, script, half, offset, latest>>

\* The desktop writes a message of the agent, the end of a task with or without its
\* last message, or anything else; an entry may be read half written.
Entry == [kind : {"message", "complete"}, n : 1..MaxEntries] \cup
         {[kind |-> "complete", n |-> 0], [kind |-> "other", n |-> 0]}

DesktopWrites ==
  /\ at = "watch"
  /\ \/ /\ ~half /\ Len(script) < MaxEntries
        /\ \E kind \in {"message", "complete"} :
             script' = Append(script, [kind |-> kind, n |-> Len(script) + 1])
        /\ half' \in BOOLEAN
     \/ /\ ~half /\ Len(script) < MaxEntries
        /\ \E kind \in {"complete", "other"} : script' = Append(script, [kind |-> kind, n |-> 0])
        /\ half' \in BOOLEAN
     \/ half /\ half' = FALSE /\ UNCHANGED script
  /\ UNCHANGED <<fixed, at, result, pipe, asking, text, starts, lost, offset, latest>>

Whole == IF half THEN Len(script) - 1 ELSE Len(script)

Oldest(ns) == CHOOSE i \in ns : \A j \in ns : i <= j
Newest(ns) == CHOOSE i \in ns : \A j \in ns : j <= i

\* The last message up to entry k, and whether entry k is an end that says something.
LastUpTo(k, before) ==
  LET ns == {i \in offset + 1..k : script[i].kind = "message"}
  IN IF ns = {} THEN before ELSE script[Newest(ns)].n
Reply(k) == IF script[k].n # 0 THEN script[k].n ELSE LastUpTo(k, latest)
SaysEnd(k) == script[k].kind = "complete" /\ Reply(k) # Nothing

\* Mutant: the last message of an earlier read is forgotten.
WatchesAnew ==
  LET ends == {k \in offset + 1..Whole : script[k].kind = "complete"
                 /\ (script[k].n # 0 \/ LastUpTo(k, Nothing) # Nothing)} IN
  /\ at = "watch" /\ Whole > offset
  /\ IF ends = {}
     THEN /\ offset' = Whole /\ latest' = Nothing /\ Moves("watch") /\ UNCHANGED item
     ELSE LET k == Oldest(ends) IN
          /\ offset' = Whole /\ item' = Reply(k) /\ Concludes("ok") /\ UNCHANGED latest
  /\ UNCHANGED <<fixed, pipe, asking, reply, said, starts, lost, script, half>>

\* wait_for_codex_desktop_reply: the entries that are whole are read; the first end of
\* a task that says something, or that follows a message, is the reply.
Watches ==
  LET ends == {k \in offset + 1..Whole : SaysEnd(k)} IN
  /\ at = "watch" /\ Whole > offset
  /\ IF ends = {}
     THEN /\ offset' = Whole /\ latest' = LastUpTo(Whole, latest) /\ Moves("watch")
          /\ UNCHANGED item
     ELSE LET k == Oldest(ends) IN
          /\ offset' = Whole /\ item' = Reply(k) /\ Concludes("ok") /\ UNCHANGED latest
  /\ UNCHANGED <<fixed, pipe, asking, reply, said, starts, lost, script, half>>

\* The time is over, or the transcript cannot be read.
WatchEnds ==
  /\ at = "watch" /\ Concludes("noreply")
  /\ UNCHANGED <<fixed, pipe, asking, text, live>>

-----------------------------------------------------------------------------
Collects == CollectsText \/ CollectsEnd \/ CollectsRequest \/ ReadsEnd
Approves == Inserts \/ Sends \/ Marks \/ Polls \/ Lapses \/ Expires \/ WriteFails
Desktop  == AsksDesktop \/ RunsOnRunner \/ Watches \/ WatchEnds
Client   == Spawns \/ Awaits \/ Collects \/ Approves \/ Desktop \/ RunsOut

TurnNext == \/ Responds \/ Notifies \/ Requests \/ Dies
            \/ DesktopWrites \/ Client
            \/ \E v \in {"approved", "denied"} : Presses(v)

\* The handler goes on, and its deadlines come.
TurnSpec == TurnInit /\ [][TurnNext]_tvars /\ WF_tvars(Client) /\ WF_tvars(RunsOut)
            /\ WF_tvars(WatchEnds)

-----------------------------------------------------------------------------
(* Properties *)

TurnTypeOK ==
  /\ at \in {"begin", "wait", "collect", "insert", "send", "mark", "poll", "expire",
             "runner", "watch", "end"}
  /\ result \in {"none", "ok", "error", "noreply"} /\ (result = "none" <=> at # "end")
  /\ want \in 0..3 /\ sent \in 0..MaxMessages /\ starts \in 0..2
  /\ ask.command \in Command
  /\ perm.status \in Open \cup {"none", "approved", "denied", "timedout"}
  /\ reply \in Seq(1..MaxMessages) /\ item \in Nat
  /\ script \in Seq(Entry) /\ offset \in 0..Len(script)

\* A destructive command runs only if the owner said so, whatever the presses, the
\* deadline and the writes of its entry overtake (handle_command_approval).
DestructiveNeedsYes ==
  \A i \in DOMAIN answers :
    answers[i].command = "destructive" /\ answers[i].decision = "accept" =>
      \E j \in DOMAIN verdict : verdict[j] = <<answers[i].id, "approved">>

\* A request of the server is answered once, in the order of the requests, so that
\* the answer to one command is never read as that of another.
AnsweredInOrder ==
  \A i, j \in DOMAIN answers : i < j => answers[i].id < answers[j].id

\* What the owner says of a command is what happens to it (no answer: as the flag says).
OwnerDecides == DestructiveNeedsYes /\ AnsweredInOrder

\* What the chat is given is all of the turn's text, and of no other turn's, although
\* turns of the thread share the stream with requests and notifications
\* (notification_turn_matches, the last completed message if there were no deltas).
Said(kind) ==
  LET of == Selected(said, {kind} \X Nat) IN [i \in DOMAIN of |-> of[i][2]]
Final(texts) == IF texts = <<>> THEN Nothing ELSE texts[Len(texts)]

ReplyIsWhole ==
  mode = "server" /\ result = "ok" => reply = Said("delta") /\ item = Final(Said("item"))

\* "Check the desktop Codex session before retrying to avoid duplicate work": the
\* daemon itself runs a prompt twice only if the connection is lost after the desktop
\* has read it.
PromptRunsOnce == starts <= 1 \/ lost

\* The last message of the transcript up to entry k, and the text of an end.
Before(k)      == {i \in 1..k : script[i].kind = "message"}
LastMessage(k) == IF Before(k) = {} THEN Nothing ELSE script[Newest(Before(k))].n
EndText(k)     == IF script[k].n # 0 THEN script[k].n ELSE LastMessage(k)
IsEnd(k)       == script[k].kind = "complete" /\ EndText(k) # Nothing

\* The reply found in the transcript is that of its first end: it does not depend on
\* when it is read, or that an entry is read half written (read_codex_reply_delta).
ReplyOfTranscript ==
  mode = "live" /\ item # Nothing =>
    \E k \in DOMAIN script : /\ IsEnd(k) /\ item = EndText(k)
                             /\ \A j \in DOMAIN script : IsEnd(j) => k <= j

\* The chat gets the turn's reply, whichever way it is read.
RightReply == ReplyIsWhole /\ ReplyOfTranscript

\* A message to codex ends, in a reply or an error, whatever the server and the
\* desktop do ("a backlog busy-loop that prevents the timeout from firing").
TurnEnds == <>(at = "end")

\* "Deny": a command of which the owner was told that it is denied does not run.
NoMeansNo ==
  \A i \in DOMAIN answers : \A j \in DOMAIN verdict :
    verdict[j] = <<answers[i].id, "denied">> => answers[i].decision = "decline"
=============================================================================
