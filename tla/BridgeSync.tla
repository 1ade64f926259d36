----------------------------- MODULE BridgeSync -----------------------------
(***************************************************************************)
(* The sessions of one chat that are bridged to the desktop                *)
(* (session_bridge.rs, and the handlers of telegram.rs that use it).       *)
(*                                                                         *)
(* A session of a file agent (claude, codex) is a transcript on the desktop*)
(* and, in records made before one file served both sides, a second one for*)
(* the phone.  The poller and the chat's handlers copy new lines from each *)
(* to the other; both work on a record they read from the state earlier and*)
(* write it back whole.  A codex turn of the runner works on a copy of the *)
(* desktop file and puts it back (cli_spawner.rs).                         *)
(*                                                                         *)
(* A sync runs under a file lock, and what others append to a file while it*)
(* runs might as well come before it or after it, so it is one step.  An   *)
(* offset counts lines.                                                    *)
(***************************************************************************)
EXTENDS Integers, Sequences, FiniteSets, Selection

CONSTANTS
  SessionId,     \* session ids
  Paired,        \* those with a file of their own for the phone
  FileAgent,     \* agents whose transcripts are copied
  StampAgent,    \* agents whose records are only stamped (gemini, antigravity)
  NoSession,     \* the record of an agent of which none is selected
  Poller, Handler, \* the two tasks
  InitialSession,\* agent -> the session its record is of when the model starts
  Writers,       \* bound of the model: paths the agents write to
  MaxLines,      \* bound of the model: lines the agents write
  BridgeLimits   \* bounds of the model: lines; messages, flushes and selections;
                 \* errors of files and of state.json, and crashes

Bridged == FileAgent \cup StampAgent
Task  == {Poller, Handler}
Side  == {"desktop", "mobile"}
Path  == SessionId \X {"desktop"} \cup Paired \X {"mobile"}

ASSUME BridgeAssumption ==
  /\ Paired \subseteq SessionId /\ NoSession \notin SessionId
  /\ Writers \subseteq Path
  /\ FileAgent \cap StampAgent = {} /\ Poller # Handler
  /\ InitialSession \in [Bridged -> SessionId \cup {NoSession}]
  /\ \A a, b \in FileAgent :            \* a transcript is of one agent
       a # b /\ InitialSession[a] = InitialSession[b] => InitialSession[a] \notin Paired
  /\ MaxLines \in Nat
  /\ BridgeLimits \subseteq [lines : 0..MaxLines, ops : Nat, faults : Nat]

VARIABLES
  file,          \* path -> its lines, and the unfinished one at its end
  bridge, saved, \* agent -> its record, in the state actor and in state.json
  work,          \* task -> what it is doing
  copy,          \* the profile's copy of a desktop file during a turn of the runner
  born,          \* history: line -> the path it was first written to
  caps, ops, faults,
  chosen,        \* history: agent -> the session the chat was last told it uses
  blurred,       \* history: two syncs of one agent overlapped, or an offset went
                 \* back or was not kept
  replaced       \* history: paths put back over lines written in between

files   == <<file, copy, born>>
records == <<bridge, saved, chosen>>
counts  == <<caps, ops, faults>>
bvars   == <<files, records, work, counts, blurred, replaced>>

Garbled == [id |-> 0, from |-> "none"]     \* not JSON
Line    == [id : 1..MaxLines, from : Side \cup {"none"}] \cup {Garbled}
Synced  == MaxLines + 1                \* the unfinished line is one of a sync
File    == [lines : Seq(Line), open : 0..Synced]
BridgeRecord == [session : SessionId \cup {NoSession}, paired : BOOLEAN,
                 desktop : Nat, mobile : Nat]

NewRecord(s, pair, n) == [session |-> s, paired |-> pair, desktop |-> n, mobile |-> n]
Empty == NewRecord(NoSession, FALSE, 0)

Other(side) == IF side = "desktop" THEN "mobile" ELSE "desktop"
PathOf(rec, side) == <<rec.session, IF rec.paired THEN side ELSE "desktop">>

\* A task, the agent it is at, the record it works on, and what the poller has
\* left of the records it read.
Idle == [at |-> "idle", op |-> "none", agent |-> NoSession,
         left |-> [a \in Bridged |-> Empty], rec |-> Empty, ok |-> TRUE]
NoFile == [lines |-> <<>>, open |-> 0]
NoCopy == [path |-> <<>>, had |-> NoFile, has |-> NoFile]

BridgeInit ==
  /\ file = [p \in Path |-> NoFile]
  /\ bridge = [a \in Bridged |->
       NewRecord(InitialSession[a], a \in FileAgent /\ InitialSession[a] \in Paired, 0)]
  /\ saved = bridge
  /\ chosen = [a \in Bridged |-> bridge[a].session]
  /\ work = [t \in Task |-> Idle]
  /\ copy = NoCopy
  /\ born = <<>>
  /\ caps \in BridgeLimits /\ ops = 0 /\ faults = 0
  /\ blurred = FALSE /\ replaced = {}

Step(t, at) == work' = [work EXCEPT ![t].at = at]
Done(t) == work' = [work EXCEPT ![t] = Idle]
Fault     == faults < caps.faults /\ faults' = faults + 1

-----------------------------------------------------------------------------
(* The agents write their transcripts, a line at once or in two parts. *)

NextLine == Len(born) + 1
Own(id)  == [id |-> id, from |-> "none"]

\* Lines appended to f: the first one runs into an unfinished line.
Add(f, lines) ==
  IF lines = <<>> THEN f
  ELSE [lines |-> f.lines \o (IF f.open = 0 THEN lines ELSE <<Garbled>> \o Tail(lines)),
        open |-> 0]

AgentWrites(p) ==
  /\ Len(born) < caps.lines
  /\ born' = Append(born, p)
  /\ \/ file' = [file EXCEPT ![p] = Add(@, <<Own(NextLine)>>)]
     \/ file[p].open = 0 /\ file' = [file EXCEPT ![p].open = NextLine]
  /\ UNCHANGED <<copy, records, work, counts, blurred, replaced>>

\* The rest of a line that was run into is no line, and is left out.
AgentFinishes(p) ==
  /\ file[p].open \in 1..MaxLines
  /\ file' = [file EXCEPT ![p] = [lines |-> Append(@.lines, Own(@.open)), open |-> 0]]
  /\ UNCHANGED <<copy, born, records, work, counts, blurred, replaced>>

-----------------------------------------------------------------------------
(* sync_bridged_session_locked *)

\* Mutant: the line after the offset is left out.
UnreadLate(f, offset) == IF offset > Len(f.lines) THEN <<>>
                         ELSE SubSeq(f.lines, offset + 2, Len(f.lines))

Unread(f, offset) == IF offset > Len(f.lines) THEN <<>>
                     ELSE SubSeq(f.lines, offset + 1, Len(f.lines))

\* Mutant: the marks of the two directions are mixed up.
SkippedOwn(line, side) == line.from = side

\* should_skip_synced_line: a line the other side wrote first.
Skipped(line, side) == line.from = Other(side)

\* Mutant: the latest line goes first.
RenderedLastFirst(f, offset, side) ==
  LET lines == Selected(Unread(f, offset), {l \in Line : l # Garbled /\ ~Skipped(l, side)})
  IN [n \in DOMAIN lines |-> [id |-> lines[Len(lines) + 1 - n].id, from |-> side]]

\* The lines of f from offset on that go to the other side, each marked.
Rendered(f, offset, side) ==
  LET lines == Selected(Unread(f, offset), {l \in Line : l # Garbled /\ ~Skipped(l, side)})
  IN [n \in DOMAIN lines |-> [id |-> lines[n].id, from |-> side]]

\* Mutant: the offset also passes an unfinished last line.
MovedToTheEnd(f, offset) ==
  offset + Len(Unread(f, offset)) + (IF f.open = 0 THEN 0 ELSE 1)

\* Mutant: the offset stays where it is.
NotMoved(f, offset) == offset

\* The offset after sync_cycle: what was read up to the last newline is added.
Moved(f, offset) == offset + Len(Unread(f, offset))

\* sync_cycle in one direction, on a record and the files.
Cycle(rec, fs, side) ==
  LET p == PathOf(rec, side)
      q == PathOf(rec, Other(side))
  IN [rec   |-> [rec EXCEPT ![side] = Moved(fs[p], rec[side])],
      files |-> [fs EXCEPT ![q] = Add(@, Rendered(fs[p], rec[side], side))]]

\* A write of it fails after n whole lines, perhaps in the middle of the next.
Broken(rec, fs, side, n, half) ==
  LET q     == PathOf(rec, Other(side))
      lines == SubSeq(Rendered(fs[PathOf(rec, side)], rec[side], side), 1, n)
      f     == Add(fs[q], lines)
  IN [fs EXCEPT ![q] = IF half /\ f.open = 0 THEN [f EXCEPT !.open = Synced] ELSE f]

Copied(a, rec) == a \in FileAgent /\ rec.paired

\* Another task has synced the agent since t read its record.
Overlaps(t) ==
  \/ bridge[work[t].agent] # work[t].rec
  \/ \E u \in Task \ {t} : work[u].agent = work[t].agent /\ work[u].at = "set"

\* A record of one file, or of an agent without files, is only stamped.
Stamp(t) ==
  /\ work[t].at = "sync" /\ ~Copied(work[t].agent, work[t].rec)
  /\ Step(t, "set")
  /\ UNCHANGED <<files, records, counts, blurred, replaced>>

Sync(t) ==
  /\ work[t].at = "sync" /\ Copied(work[t].agent, work[t].rec)
  /\ \E there \in {Cycle(work[t].rec, file, "desktop")} :
     \E back \in {Cycle(there.rec, there.files, "mobile")} :
       /\ file' = back.files
       /\ work' = [work EXCEPT ![t].at = "set", ![t].rec = back.rec]
  /\ blurred' = (blurred \/ Overlaps(t))
  /\ UNCHANGED <<copy, born, records, counts, replaced>>

\* A direction stops after some of its lines, or in the middle of one.
BreaksOff(rec, fs, side) ==
  \E n \in 0..Len(Rendered(fs[PathOf(rec, side)], rec[side], side)) - 1, half \in BOOLEAN :
    file' = Broken(rec, fs, side, n, half)

\* A path is gone or a symlink, or a write fails: what was written stays, the
\* offset of that direction does not move.
SyncFails(t) ==
  LET rec   == work[t].rec
      there == Cycle(rec, file, "desktop")
      fails(r) == work' = [work EXCEPT ![t].at = "set", ![t].ok = FALSE, ![t].rec = r]
  IN
  /\ work[t].at = "sync" /\ work[t].agent \in FileAgent /\ Fault
  /\ \/ fails(rec) /\ UNCHANGED <<file, blurred>>
     \/ Copied(work[t].agent, rec) /\ blurred' = TRUE
        /\ \/ fails(rec) /\ BreaksOff(rec, file, "desktop")
           \/ fails(there.rec) /\ BreaksOff(there.rec, there.files, "mobile")
  /\ UNCHANGED <<caps, copy, born, records, ops, replaced>>

-----------------------------------------------------------------------------
(* The record goes back to the state, whatever is there now. *)

\* Where a task goes once its record is written: the poller to the next agent,
\* a message to its turn.
After(t, written) ==
  IF t = Poller THEN [Idle EXCEPT !.at = "next", !.left = work[t].left]
  ELSE IF work[t].op = "message" /\ work[t].ok /\ written
  THEN [Idle EXCEPT !.at = "turn", !.agent = work[t].agent, !.rec = work[t].rec]
  ELSE Idle

\* The record comes back from before one of the session was replaced.
GoesBack(now, rec) == \/ rec.paired /\ now.session # rec.session
                      \/ \E side \in Side : now[side] > rec[side]

SetRecord(t) ==
  LET a == work[t].agent IN
  /\ work[t].at = "set"
  /\ ~(work[t].op = "after" /\ ~work[t].ok)
  /\ bridge' = [bridge EXCEPT ![a] = work[t].rec]
  /\ chosen' = IF work[t].op = "fresh" THEN [chosen EXCEPT ![a] = work[t].rec.session]
               ELSE chosen
  /\ \/ saved' = bridge' /\ work' = [work EXCEPT ![t] = After(t, TRUE)] /\ UNCHANGED faults
     \/ Fault /\ UNCHANGED saved /\ work' = [work EXCEPT ![t] = After(t, FALSE)]
  /\ blurred' = (blurred \/ GoesBack(bridge[a], work[t].rec))
  /\ UNCHANGED <<caps, files, ops, replaced>>

\* After a turn a sync that failed leaves the record alone.
LeaveRecord(t) ==
  /\ work[t].at = "set" /\ work[t].op = "after" /\ ~work[t].ok
  /\ Done(t)
  /\ UNCHANGED <<files, records, counts, blurred, replaced>>

\* Another command of the state actor writes all of the state.
OtherFlush ==
  /\ saved # bridge
  /\ saved' = bridge
  /\ UNCHANGED <<files, bridge, chosen, work, counts, blurred, replaced>>

-----------------------------------------------------------------------------
(* sync_all_bridged_sessions_once *)

InUse == {a \in Bridged : bridge[a] # Empty}

Tick ==
  /\ work[Poller].at = "idle" /\ InUse # {}
  /\ work' = [work EXCEPT ![Poller].at = "next", ![Poller].left = bridge]
  /\ UNCHANGED <<files, records, counts, blurred, replaced>>

\* The next record of the snapshot.
NextRecord ==
  LET me == work[Poller] IN
  /\ me.at = "next"
  /\ \/ me.left = Idle.left /\ Done(Poller)
     \/ \E a \in Bridged :
          /\ me.left[a] # Empty
          /\ work' = [work EXCEPT ![Poller].at = "sync", ![Poller].agent = a,
                        ![Poller].left[a] = Empty, ![Poller].rec = me.left[a]]
  /\ UNCHANGED <<files, records, counts, blurred, replaced>>

-----------------------------------------------------------------------------
(* The chat, one update at a time *)

Free == work[Handler].at = "idle" /\ ops < caps.ops /\ ops' = ops + 1

FileEnd(a, s) == IF a \in FileAgent THEN Len(file[<<s, "desktop">>].lines) ELSE 0

\* handle_callback_sel_*: both paths of the new record are the session's file.
Select(a, s) ==
  /\ Free
  /\ bridge' = [bridge EXCEPT ![a] = NewRecord(s, FALSE, FileEnd(a, s))]
  /\ \/ saved' = bridge' /\ chosen' = [chosen EXCEPT ![a] = s] /\ UNCHANGED faults
     \/ Fault /\ UNCHANGED <<saved, chosen>>
  /\ UNCHANGED <<caps, files, work, blurred, replaced>>

Begin(a, at, op) ==
  work' = [work EXCEPT ![Handler] = [Idle EXCEPT !.at = at, !.op = op, !.agent = a,
                                    !.rec = bridge[a]]]

\* flush_bridge_session
Flush(a) ==
  /\ Free /\ a \in InUse /\ Begin(a, "sync", "flush")
  /\ UNCHANGED <<caps, files, records, faults, blurred, replaced>>

\* handle_codex_bridge_msg, up to its turn.
Forward(a) ==
  /\ Free /\ a \in InUse \cap FileAgent /\ Begin(a, "sync", "message")
  /\ UNCHANGED <<caps, files, records, faults, blurred, replaced>>

\* handle_gemini_bridge_msg: the selected session answers, or a fresh one does,
\* and the latest session found is selected.
AskStamped(a) ==
  /\ Free /\ a \in StampAgent /\ Begin(a, "ask", "ask")
  /\ UNCHANGED <<caps, files, records, faults, blurred, replaced>>

Answered ==
  /\ work[Handler].at = "ask"
  /\ \/ Done(Handler)
     \/ \E s \in SessionId :
          work' = [work EXCEPT ![Handler].at = "set", ![Handler].op = "fresh",
                               ![Handler].rec = NewRecord(s, FALSE, 0)]
  /\ UNCHANGED <<files, records, counts, blurred, replaced>>

\* The turn is over: an error ends the message; after a reply the files are
\* synced again from the handler's own record.
TurnEnds(state) ==
  \/ state' = [state EXCEPT ![Handler].at = "sync", ![Handler].op = "after"]
  \/ state' = [state EXCEPT ![Handler] = Idle]

\* A turn of the desktop or of the app server: they write the transcript themselves.
TurnInPlace ==
  /\ work[Handler].at = "turn"
  /\ TurnEnds(work)
  /\ UNCHANGED <<files, records, counts, blurred, replaced>>

\* A turn of the runner: materialize_resume_session copies the transcript, the
\* run writes to the copy, copy_back puts it in the place of the transcript.
Materialize ==
  LET p == <<work[Handler].rec.session, "desktop">> IN
  /\ work[Handler].at = "turn"
  /\ copy' = [path |-> p, had |-> file[p], has |-> file[p]]
  /\ Step(Handler, "run")
  /\ UNCHANGED <<file, born, records, counts, blurred, replaced>>

RunWrites ==
  /\ work[Handler].at = "run" /\ Len(born) < caps.lines
  /\ born' = Append(born, copy.path)
  /\ copy' = [copy EXCEPT !.has = Add(@, <<Own(NextLine)>>)]
  /\ UNCHANGED <<file, records, work, counts, blurred, replaced>>

PutBack ==
  /\ work[Handler].at = "run"
  /\ file' = [file EXCEPT ![copy.path] = copy.has]
  /\ replaced' = IF file[copy.path] = copy.had THEN replaced ELSE replaced \cup {copy.path}
  /\ copy' = NoCopy
  /\ TurnEnds(work)
  /\ UNCHANGED <<born, records, counts, blurred>>

-----------------------------------------------------------------------------
\* The daemon ends and starts: state.json is read, turns are gone.
Restart ==
  /\ Fault
  /\ bridge' = saved
  /\ work' = [t \in Task |-> Idle]
  /\ copy' = NoCopy
  /\ blurred' = (blurred \/ bridge # saved \/ \E t \in Task : work[t].at = "set")
  /\ UNCHANGED <<caps, file, born, saved, chosen, ops, replaced>>

Syncs(t) == Stamp(t) \/ Sync(t) \/ SetRecord(t) \/ LeaveRecord(t)
Poll     == Tick \/ NextRecord \/ Syncs(Poller)
Handlers == Answered \/ TurnInPlace \/ Materialize \/ RunWrites \/ PutBack \/ Syncs(Handler)
Users    == \E a \in Bridged : \/ \E s \in SessionId : Select(a, s)
                             \/ Flush(a) \/ Forward(a) \/ AskStamped(a)

BridgeNext == \/ \E p \in Writers : AgentWrites(p) \/ AgentFinishes(p)
              \/ Poll \/ Handlers \/ Users
              \/ \E t \in Task : SyncFails(t)
              \/ OtherFlush \/ Restart

BridgeSpec == BridgeInit /\ [][BridgeNext]_bvars /\ WF_bvars(Poll)

-----------------------------------------------------------------------------
(* Properties *)

BridgeTypeOK ==
  /\ file \in [Path -> File]
  /\ bridge \in [Bridged -> BridgeRecord] /\ saved \in [Bridged -> BridgeRecord]
  /\ chosen \in [Bridged -> SessionId \cup {NoSession}]
  /\ born \in Seq(Path) /\ blurred \in BOOLEAN /\ replaced \subseteq Path

\* The lines first written to p that are readable in its first n lines.
ReadBefore(p, n) ==
  {file[p].lines[i].id : i \in {i \in DOMAIN file[p].lines :
     i <= n /\ file[p].lines[i] # Garbled /\ file[p].lines[i].from = "none"}}

\* The lines in p, and whether one of them was run into.
Held(p)  == {file[p].lines[i].id : i \in DOMAIN file[p].lines}
Clean(p) == Garbled.id \notin Held(p) /\ file[p].open # Synced

\* An offset never stands after a line that the other file was not given
\* (sync_cycle moves it only after the lines are written, and not past an
\* unfinished one), in the state and in state.json; unless a line was run into
\* in the other file, or a run's copy was put back over lines written meanwhile.
NothingSkipped ==
  \A a \in FileAgent : \A rec \in {bridge[a], saved[a]} : \A side \in Side :
    LET p == PathOf(rec, side)
        q == PathOf(rec, Other(side))
    IN rec.paired /\ {p, q} \cap replaced = {} /\ Clean(q)
         => ReadBefore(p, rec[side]) \subseteq Held(q)

\* No line comes back to the file it was first written to (agentBusSync.from).
NoEcho ==
  \A p \in Path : \A i \in DOMAIN file[p].lines :
    LET line == file[p].lines[i] IN line.from # "none" => born[line.id] # p

\* A line is in a file once, unless two syncs overlapped, a write or the daemon
\* stopped half-way, or a transcript was put back.
CopiedOnce ==
  ~blurred /\ replaced = {} =>
    \A p \in Path : \A i, j \in DOMAIN file[p].lines :
      i < j /\ file[p].lines[i] # Garbled => file[p].lines[i] # file[p].lines[j]

\* The two files never fill each other up.
NoneTwice == NoEcho /\ CopiedOnce

\* A line does not reach the other file before the lines it follows: by its copy those
\* written before it are there (sync_cycle reads on from the offset, in order), also if
\* syncs overlap or break off; unless a line was run into there, or a transcript was
\* put back.
CopiesInOrder ==
  \A s \in Paired, side \in Side :
    LET p == <<s, side>>
        q == <<s, Other(side)>>
    IN {p, q} \cap replaced = {} /\ Clean(q) =>
         \A j \in DOMAIN file[q].lines : \A n \in DOMAIN file[p].lines :
           LET copied == file[q].lines[j] IN
           copied.from = side /\ file[p].lines[n] = Own(copied.id) =>
             ReadBefore(p, n) \subseteq {file[q].lines[i].id : i \in 1 .. j}

\* Every readable line of a bridged pair gets to the other file, again and again:
\* unless another session is selected, a line is run into, or a transcript is put
\* back.
Delivered ==
  \A a \in FileAgent : \A side \in Side :
    LET p == PathOf(bridge[a], side)
        q == PathOf(bridge[a], Other(side))
    IN bridge[a].paired /\ Clean(q) /\ replaced = {}
         => ReadBefore(p, Len(file[p].lines)) \subseteq Held(q)
EveryLineArrives == []<>Delivered

\* The session a chat uses is the one it last chose (handle_callback_sel_*).
SelectionStays == \A a \in Bridged : bridge[a].session = chosen[a]
=============================================================================
