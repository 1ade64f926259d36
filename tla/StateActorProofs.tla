-------------------------- MODULE StateActorProofs --------------------------
(***************************************************************************)
(* Proofs about StateActor, for every set of callers and slots, every      *)
(* capacity of the channel and any number of calls and crashes.            *)
(***************************************************************************)
EXTENDS StateActor, TLAPS

-----------------------------------------------------------------------------
(* The commands *)

\* A command leads from a state to a state.
LEMMA AfterType ==
  ASSUME NEW c \in Commands, NEW s \in State
  PROVE  After(c, s) \in State
<1>1. c \in Command
  BY ActorAssumption
<1>2. Written(c) \in Value
  BY <1>1 DEF Written, Command, Value
<1> QED
  BY <1>1, <1>2 DEF After, State, Command

\* A refused command leaves the state as it is.
LEMMA RefusedIsIdle ==
  ASSUME NEW c \in Commands, NEW s \in State, Outcome(c, s) = "refused"
  PROVE  After(c, s) = s
<1>1. ~Hits(c, s[c.slot])
  BY DEF Outcome
<1> QED
  BY <1>1 DEF After

LEMMA OutcomeType ==
  ASSUME NEW c, NEW s
  PROVE  Outcome(c, s) \in {"ok", "won", "refused"}
BY DEF Outcome

\* A call that moves on, and one that ends, keeps its type.
LEMMA CallMoves ==
  ASSUME NEW r \in CallType, NEW a \in At, NEW o \in Out
  PROVE  /\ [r EXCEPT !.at = a] \in CallType
         /\ [r EXCEPT !.at = a, !.out = o] \in CallType
         /\ [r EXCEPT !.at = a].cmd = r.cmd
         /\ [r EXCEPT !.at = a].at = a
         /\ [r EXCEPT !.at = a, !.out = o].at = a
BY DEF CallType

LEMMA CallsMove ==
  ASSUME NEW f \in [Caller -> CallType], NEW k \in Caller, NEW a \in At, NEW o \in Out
  PROVE  /\ [f EXCEPT ![k].at = a] \in [Caller -> CallType]
         /\ [f EXCEPT ![k].at = a, ![k].out = o] \in [Caller -> CallType]
<1>1. /\ [f EXCEPT ![k].at = a] = [f EXCEPT ![k] = [f[k] EXCEPT !.at = a]]
      /\ [f EXCEPT ![k].at = a, ![k].out = o] = [f EXCEPT ![k] = [f[k] EXCEPT !.at = a, !.out = o]]
  OBVIOUS
<1>2. f[k] \in CallType
  OBVIOUS
<1> QED
  BY <1>1, <1>2, CallMoves

-----------------------------------------------------------------------------
(* The invariant *)

\* The actor serves one call, that of the caller it holds.
Served ==
  /\ \A k \in Caller : call[k].at = "serving" <=> cur = k
  /\ cur = NoCaller <=> phase = "idle"

\* A call is in the channel at most once, and only while it is queued.
Queued ==
  /\ \A i \in 1 .. Len(queue) : call[queue[i]].at = "queued"
  /\ \A i \in 1 .. Len(queue), j \in 1 .. Len(queue) : queue[i] = queue[j] => i = j

Commanded == \A k \in Caller : call[k].at # "idle" => call[k].cmd \in Commands

Down == ~up => phase = "idle" /\ queue = <<>> /\ \A k \in Caller : call[k].at = "idle"

\* The private state is ahead of the snapshot only until it is published.
Memory ==
  /\ phase = "publish" => /\ mem = After(call[cur].cmd, snapshot)
                          /\ result = Outcome(call[cur].cmd, snapshot)
  /\ up /\ phase # "publish" => mem = snapshot

\* What is on the disk at each phase; nothing is in doubt at an acknowledgement.
Disk ==
  /\ survives \subseteq State /\ file \in survives
  /\ phase = "rename" => tmp = "synced"
  /\ phase = "syncdir" => file = mem
  /\ phase = "reply" /\ result \in {"ok", "won"} => survives = {mem}

Inv == TypeOK /\ Served /\ Queued /\ Commanded /\ Down /\ Memory /\ Disk

USE ActorAssumption

LEMMA InitInv == Init => Inv
<1> SUFFICES ASSUME Init PROVE Inv
  OBVIOUS
<1>1. TypeOK
  <2>1. [at |-> "idle", cmd |-> <<>>, out |-> "none"] \in CallType
    BY DEF CallType, At, Out
  <2> QED
    BY <2>1 DEF Init, TypeOK, Phase, Out
<1>2. Served /\ Queued /\ Commanded /\ Down /\ Memory /\ Disk
  BY DEF Init, Served, Queued, Commanded, Down, Memory, Disk
<1> QED
  BY <1>1, <1>2 DEF Inv

-----------------------------------------------------------------------------
(* The callers *)

LEMMA CallInv ==
  ASSUME Inv, NEW k \in Caller, Call(k)
  PROVE  Inv'
<1>1. PICK c \in Commands :
        call' = [call EXCEPT ![k] = [at |-> "sending", cmd |-> c, out |-> "none"]]
  BY DEF Call
<1> USE <1>1 DEF Call, actorVars, diskVars
<1>2. TypeOK'
  <2>1. [at |-> "sending", cmd |-> c, out |-> "none"] \in CallType
    BY DEF CallType, At, Out
  <2> QED
    BY <2>1 DEF Inv, TypeOK
<1>3. k # cur /\ \A i \in 1 .. Len(queue) : queue[i] # k
  BY DEF Inv, Served, Queued, TypeOK
<1>4. Served' /\ Commanded' /\ Down'
  BY <1>3 DEF Inv, Served, Commanded, Down, TypeOK
<1>5. Queued'
  BY <1>3 DEF Inv, Queued, TypeOK
<1>6. Memory' /\ Disk'
  BY <1>3 DEF Inv, Memory, Disk, Served, TypeOK, Phase
<1> QED
  BY <1>2, <1>4, <1>5, <1>6 DEF Inv

LEMMA SendInv ==
  ASSUME Inv, NEW k \in Caller, Send(k)
  PROVE  Inv'
<1> USE DEF Send, actorVars, diskVars, boundVars
<1>1. TypeOK'
  <2>1. call' \in [Caller -> CallType]
    BY CallsMove DEF Inv, TypeOK, At, Out
  <2>2. queue' \in Seq(Caller) /\ Len(queue') = Len(queue) + 1 /\ Len(queue) \in Nat
    BY DEF Inv, TypeOK
  <2> QED
    BY <2>1, <2>2 DEF Inv, TypeOK
<1>2. k # cur /\ \A i \in 1 .. Len(queue) : queue[i] # k
  BY DEF Inv, Served, Queued, TypeOK
<1>3. Served' /\ Commanded' /\ Down'
  BY <1>2 DEF Inv, Served, Commanded, Down, TypeOK
<1>4. Queued'
  <2>1. \A i \in 1 .. Len(queue)' : queue'[i] = IF i = Len(queue) + 1 THEN k ELSE queue[i]
    BY DEF Inv, TypeOK
  <2>2. Len(queue') = Len(queue) + 1 /\ Len(queue) \in Nat
    BY DEF Inv, TypeOK
  <2> QED
    BY <1>2, <2>1, <2>2 DEF Inv, Queued, TypeOK
<1>5. Memory' /\ Disk'
  BY <1>2 DEF Inv, Memory, Disk, Served, TypeOK, Phase
<1> QED
  BY <1>1, <1>3, <1>4, <1>5 DEF Inv

-----------------------------------------------------------------------------
(* The actor *)

LEMMA TakeInv ==
  ASSUME Inv, Take
  PROVE  Inv'
<1> DEFINE k == Head(queue)
           c == call[k].cmd
<1>1. /\ k \in Caller /\ k = queue[1] /\ call[k].at = "queued"
      /\ Len(queue) \in Nat /\ Len(queue) >= 1
  BY DEF Inv, TypeOK, Queued, Take
<1>2. c \in Commands /\ cur = NoCaller
  BY <1>1 DEF Inv, Commanded, Served, Take
<1>3. /\ cur' = k /\ mem' = After(c, mem) /\ result' = Outcome(c, mem)
      /\ phase' = IF Outcome(c, mem) = "refused" THEN "reply" ELSE "publish"
      /\ call' = [call EXCEPT ![k].at = "serving"]
      /\ queue' = Tail(queue)
      /\ up /\ UNCHANGED <<up, snapshot, file, survives, tmp, calls, crashes>>
  BY DEF Take, diskVars, boundVars
<1> HIDE DEF k, c
<1>4. After(c, mem) \in State /\ Outcome(c, mem) \in {"ok", "won", "refused"}
  BY <1>2, AfterType, OutcomeType DEF Inv, TypeOK
<1>5. /\ queue' \in Seq(Caller) /\ Len(queue') = Len(queue) - 1
      /\ \A i \in 1 .. Len(queue') : queue'[i] = queue[i + 1]
  BY <1>1, <1>3 DEF Inv, TypeOK
<1>6. TypeOK'
  <2>1. call' \in [Caller -> CallType]
    BY <1>1, <1>3, CallsMove DEF Inv, TypeOK, At, Out
  <2>2. phase' \in Phase /\ result' \in Out
    BY <1>3, <1>4 DEF Phase, Out
  <2> QED
    BY <1>1, <1>3, <1>4, <1>5, <2>1, <2>2 DEF Inv, TypeOK
<1>7. Served'
  BY <1>1, <1>2, <1>3 DEF Inv, Served, TypeOK
<1>8. Queued'
  <2>1. \A i \in 1 .. Len(queue') : i + 1 \in 1 .. Len(queue) /\ queue[i + 1] \in Caller
    BY <1>1, <1>5 DEF Inv, TypeOK
  <2>2. \A i \in 1 .. Len(queue') : queue[i + 1] # k
    BY <1>1, <2>1 DEF Inv, Queued
  <2>3. \A i \in 1 .. Len(queue') : call'[queue'[i]] = call[queue[i + 1]]
    BY <1>3, <1>5, <2>1, <2>2 DEF Inv, TypeOK
  <2>4. \A i \in 1 .. Len(queue') : call'[queue'[i]].at = "queued"
    BY <2>1, <2>3 DEF Inv, Queued
  <2>5. \A i \in 1 .. Len(queue'), j \in 1 .. Len(queue') : queue'[i] = queue'[j] => i = j
    <3> TAKE i \in 1 .. Len(queue'), j \in 1 .. Len(queue')
    <3>1. i \in Nat /\ j \in Nat
      OBVIOUS
    <3> QED
      BY <1>5, <2>1, <3>1 DEF Inv, Queued
  <2> QED
    BY <2>4, <2>5 DEF Queued
<1>9. Commanded' /\ Down'
  BY <1>1, <1>2, <1>3 DEF Inv, Commanded, Down, TypeOK
<1>10. call'[k].cmd = c /\ mem = snapshot
  BY <1>1, <1>2, <1>3 DEF c, Inv, TypeOK, Memory, Served, Take
<1>11. Memory'
  BY <1>2, <1>3, <1>10, RefusedIsIdle DEF Inv, Memory, TypeOK
<1>12. Disk'
  BY <1>3, <1>4 DEF Inv, Disk
<1> QED
  BY <1>6, <1>7, <1>8, <1>9, <1>11, <1>12 DEF Inv

\* The steps between the command and the reply disturb neither calls nor channel.
LEMMA FlushInv ==
  ASSUME Inv, Publish \/ WriteTmp \/ SyncTmp \/ Rename \/ SyncDir
  PROVE  Inv'
<1> USE DEF Publish, WriteTmp, SyncTmp, Rename, SyncDir, Advance, Fail, boundVars, diskVars
<1>1. TypeOK'
  <2>1. phase' \in Phase /\ result' \in Out
    BY DEF Inv, TypeOK, Phase, Out, Flushing
  <2>2. /\ tmp' \in {"absent", "written", "synced"}
        /\ snapshot' \in State /\ file' \in State \cup {Torn}
    BY DEF Inv, TypeOK
  <2>3. survives' \subseteq State \cup {Torn}
    BY DEF Inv, TypeOK
  <2>4. UNCHANGED <<up, cur, mem, queue, call, calls, crashes>>
    BY Zenon
  <2> QED
    BY <2>1, <2>2, <2>3, <2>4 DEF Inv, TypeOK
<1>2. UNCHANGED <<up, cur, mem, queue, call>>
  BY Zenon
<1>3. /\ phase \in {"publish", "write", "sync", "rename", "syncdir"}
      /\ phase' \in {"write", "sync", "rename", "syncdir", "reply"}
  BY Zenon
<1>4. Served' /\ Queued' /\ Commanded' /\ Down'
  BY <1>2, <1>3 DEF Inv, Served, Queued, Commanded, Down
<1>5. up /\ Memory'
  BY <1>2, <1>3 DEF Inv, Memory, Down
<1>6. Disk'
  BY <1>2, <1>3 DEF Inv, Disk, TypeOK
<1> QED
  BY <1>1, <1>4, <1>5, <1>6 DEF Inv

LEMMA ReplyInv ==
  ASSUME Inv, Reply
  PROVE  Inv'
<1> USE DEF Reply, diskVars, boundVars
<1>1. cur \in Caller /\ call[cur].at = "serving"
  BY DEF Inv, Served, TypeOK
<1>2. TypeOK'
  <2>1. call' \in [Caller -> CallType]
    BY <1>1, CallsMove DEF Inv, TypeOK, At
  <2> QED
    BY <2>1 DEF Inv, TypeOK, Phase, Out
<1>3. Served' /\ Commanded' /\ Down'
  BY <1>1 DEF Inv, Served, Commanded, Down, TypeOK
<1>4. Queued'
  <2>1. \A i \in 1 .. Len(queue) : queue[i] # cur /\ queue[i] \in Caller
    BY <1>1 DEF Inv, Queued, TypeOK
  <2> QED
    BY <1>1, <2>1 DEF Inv, Queued, TypeOK
<1>5. Memory' /\ Disk'
  BY DEF Inv, Memory, Disk
<1> QED
  BY <1>2, <1>3, <1>4, <1>5 DEF Inv

-----------------------------------------------------------------------------
(* The process *)

LEMMA GoneInv ==
  ASSUME Inv, Crash \/ PowerLoss
  PROVE  Inv'
<1>1. Empty \in State
  BY DEF Empty, State, Value
<1>2. Gone /\ file' \in survives /\ survives' \in {survives, {file'}} /\ file' \in survives' /\ tmp' = tmp
  BY DEF Crash, PowerLoss, diskVars, Inv, Disk
<1>3. /\ call' \in [Caller -> CallType]
      /\ \A k \in Caller : call'[k].at = "idle"
  <2>1. "idle" \in At /\ "lost" \in Out /\ call \in [Caller -> CallType]
    BY DEF Inv, TypeOK, At, Out
  <2>2. \A k \in Caller :
          /\ call[k] \in CallType
          /\ [call[k] EXCEPT !.at = "idle", !.out = "lost"] \in CallType
          /\ [call[k] EXCEPT !.at = "idle", !.out = "lost"].at = "idle"
    <3> TAKE k \in Caller
    <3>1. call[k] \in CallType
      BY <2>1
    <3> QED
      BY <2>1, <3>1 DEF CallType
  <2>3. call' = [k \in Caller |-> IF call[k].at = "idle" THEN call[k]
                                  ELSE [call[k] EXCEPT !.at = "idle", !.out = "lost"]]
    BY <1>2 DEF Gone
  <2> QED
    BY <2>2, <2>3
<1>4. /\ up' = FALSE /\ mem' = Empty /\ snapshot' = Empty /\ phase' = "idle"
      /\ cur' = NoCaller /\ result' = "none" /\ queue' = <<>> /\ Len(queue') = 0
      /\ crashes' = crashes + 1 /\ calls' = calls
  BY <1>2 DEF Gone
<1>5. TypeOK'
  <2>1. survives' \subseteq State \cup {Torn} /\ file' \in State \cup {Torn} /\ tmp' = tmp
    BY <1>2 DEF Inv, Disk
  <2>2. queue' \in Seq(Caller) /\ Len(queue') <= QueueMax
    BY <1>4
  <2>3. phase' \in Phase /\ result' \in Out
    BY <1>4 DEF Phase, Out
  <2>4. calls' \in Nat /\ crashes' \in Nat
    BY <1>4 DEF Inv, TypeOK
  <2> QED
    BY <1>1, <1>3, <1>4, <2>1, <2>2, <2>3, <2>4 DEF Inv, TypeOK
<1>6. Served' /\ Queued' /\ Commanded' /\ Down'
  BY <1>3, <1>4 DEF Served, Queued, Commanded, Down
<1>7. Memory' /\ Disk'
  BY <1>2, <1>4 DEF Inv, Memory, Disk
<1> QED
  BY <1>5, <1>6, <1>7 DEF Inv

LEMMA RestartInv ==
  ASSUME Inv, Restart
  PROVE  Inv'
<1> USE DEF Restart, boundVars
<1>1. TypeOK'
  BY DEF Inv, TypeOK, Disk
<1>2. Served' /\ Queued' /\ Commanded' /\ Down' /\ Memory' /\ Disk'
  BY DEF Inv, Served, Queued, Commanded, Down, Memory, Disk
<1> QED
  BY <1>1, <1>2 DEF Inv

LEMMA StepInv == Inv /\ [Next]_vars => Inv'
<1> SUFFICES ASSUME Inv, [Next]_vars PROVE Inv'
  OBVIOUS
<1>1. CASE Next
  BY <1>1, CallInv, SendInv, TakeInv, FlushInv, ReplyInv, GoneInv, RestartInv DEF Next, ActorStep
<1>2. CASE UNCHANGED vars
  BY <1>2 DEF vars, actorVars, diskVars, boundVars, Inv, TypeOK, Served, Queued, Commanded,
              Down, Memory, Disk
<1> QED
  BY <1>1, <1>2

THEOREM Invariance == Safety => []Inv
  BY InitInv, StepInv, PTL DEF Safety

\* Every variable keeps its type; the channel keeps its bound.
THEOREM TypeCorrect == Safety => []TypeOK
<1>1. Inv => TypeOK
  BY DEF Inv
<1> QED
  BY <1>1, Invariance, PTL

\* state.json is a loadable snapshot at every moment, and after a power loss at
\* any moment.
THEOREM FileIsWhole == Safety => []NoTornFile
<1>1. Inv => NoTornFile
  BY DEF Inv, Disk, NoTornFile
<1> QED
  BY <1>1, Invariance, PTL

-----------------------------------------------------------------------------
(* One winner *)

\* What the daemon sends: a resolution carries a verdict, what is inserted is an
\* entry (answered_status_for, handle_perm_callback, insert_pending_antigravity_approval).
Verdicts ==
  \A c \in Commands : /\ c.op = "resolve" => c.val \notin {"none", "open"}
                      /\ c.op = "insert" => c.val # "none"

\* Nothing opens the slot again.
OneWay(s) == \A c \in Commands : c.slot = s => c.op \in {"resolve", "expire", "insert"}

\* A slot that holds v has been inserted, or decided: no second call does that.
Past(op, v) == IF op = "insert" THEN v # "none" ELSE v \notin {"none", "open"}

Deciding == {"resolve", "insert"}

\* What a caller was told it won is past in the actor's state and in every state
\* that a crash may bring back.
WonIsPast ==
  \A s \in Slot : OneWay(s) => \A k \in Caller : Won(k, s) =>
    /\ call[k].cmd.op \in Deciding
    /\ \A f \in survives : Past(call[k].cmd.op, f[s])
    /\ up => Past(call[k].cmd.op, mem[s])

\* A call that has won and is not yet answered is the first one to win.
WinsFirst ==
  \A s \in Slot : OneWay(s) /\ result = "won" /\ phase # "idle" /\ call[cur].cmd.slot = s =>
    /\ call[cur].cmd.op \in Deciding
    /\ Past(call[cur].cmd.op, mem[s])
    /\ \A k \in Caller \ {cur} : Won(k, s) => call[k].cmd.op # call[cur].cmd.op

WinnerInv == OneWinner /\ WonIsPast /\ WinsFirst

\* A command neither takes an insertion nor a decision back.
LEMMA StaysPast ==
  ASSUME Verdicts, NEW s \in Slot, OneWay(s), NEW c \in Commands, NEW v \in State,
         NEW op \in Deciding, Past(op, v[s])
  PROVE  Past(op, After(c, v)[s])
<1>1. CASE After(c, v) = v
  BY <1>1
<1>2. CASE c.slot = s /\ Hits(c, v[s]) /\ After(c, v) = [v EXCEPT ![s] = Written(c)]
  <2>1. c.op \in {"resolve", "expire", "insert"}
    BY <1>2 DEF OneWay
  <2>2. After(c, v)[s] = Written(c)
    BY <1>2 DEF State
  <2> QED
    BY <1>2, <2>1, <2>2 DEF Hits, Written, Past, Verdicts, Deciding
<1>3. CASE c.slot # s /\ After(c, v) = [v EXCEPT ![c.slot] = Written(c)]
  BY <1>3 DEF State
<1> QED
  BY <1>1, <1>2, <1>3 DEF After

\* A command that wins finds what is not past, and leaves it past.
LEMMA WinsOnce ==
  ASSUME Verdicts, NEW c \in Commands, NEW v \in State, Outcome(c, v) = "won"
  PROVE  /\ c.op \in Deciding
         /\ ~Past(c.op, v[c.slot])
         /\ Past(c.op, After(c, v)[c.slot])
<1>1. c \in Command
  BY ActorAssumption
<1>2. c.op \in Deciding /\ Hits(c, v[c.slot])
  BY DEF Outcome, Deciding
<1>3. After(c, v)[c.slot] = Written(c)
  BY <1>1, <1>2 DEF After, State, Command
<1> QED
  BY <1>2, <1>3 DEF Hits, Past, Written, Verdicts, Deciding

LEMMA InitWinner == Init => WinnerInv
BY DEF Init, WinnerInv, OneWinner, WonIsPast, WinsFirst, Won

\* A step that tells nobody that he won, and after which less may come back.
LEMMA SameWinners ==
  ASSUME WinnerInv,
         \A k \in Caller : call'[k].out = "won" => call'[k] = call[k],
         \A f \in survives' : f \in survives \/ (up /\ f = mem),
         up' => mem' = mem /\ up,
         phase' # "idle" /\ result' = "won" =>
           /\ phase # "idle" /\ result = "won" /\ cur' = cur /\ mem' = mem
           /\ call'[cur].cmd = call[cur].cmd
  PROVE  WinnerInv'
<1>1. \A k \in Caller : \A s : Won(k, s)' => Won(k, s) /\ call'[k] = call[k]
  BY DEF Won
<1>2. OneWinner'
  BY <1>1 DEF WinnerInv, OneWinner
<1>3. WonIsPast'
  BY <1>1 DEF WinnerInv, WonIsPast, OneWay
<1>4. WinsFirst'
  BY <1>1 DEF WinnerInv, WinsFirst, OneWay
<1> QED
  BY <1>2, <1>3, <1>4 DEF WinnerInv

LEMMA TakeWinner ==
  ASSUME Verdicts, Inv, WinnerInv, Take
  PROVE  WinnerInv'
<1> DEFINE k == Head(queue)
           c == call[k].cmd
<1>1. k \in Caller /\ k = queue[1] /\ call[k].at = "queued"
  BY DEF Inv, TypeOK, Queued, Take
<1>2. c \in Commands /\ mem \in State /\ call[k] \in CallType
  BY <1>1 DEF Inv, Commanded, TypeOK
<1>3. /\ cur' = k /\ mem' = After(c, mem) /\ result' = Outcome(c, mem) /\ phase' # "idle"
      /\ call' = [call EXCEPT ![k].at = "serving"] /\ up /\ UNCHANGED <<up, survives>>
  BY DEF Take, diskVars
<1>4. \A j \in Caller : call'[j].cmd = call[j].cmd /\ call'[j].out = call[j].out
  BY <1>3 DEF Inv, TypeOK, CallType
<1> HIDE DEF k, c
<1>5. \A j \in Caller : \A s : Won(j, s)' <=> Won(j, s)
  BY <1>4 DEF Won
<1>6. OneWinner'
  BY <1>4, <1>5 DEF WinnerInv, OneWinner
<1>7. WonIsPast'
  <2> SUFFICES ASSUME NEW s \in Slot, OneWay(s), NEW j \in Caller, Won(j, s)
               PROVE  /\ call[j].cmd.op \in Deciding
                      /\ \A f \in survives : Past(call[j].cmd.op, f[s])
                      /\ Past(call[j].cmd.op, mem'[s])
    BY <1>3, <1>4, <1>5 DEF WonIsPast, OneWay
  <2>1. /\ call[j].cmd.op \in Deciding
        /\ \A f \in survives : Past(call[j].cmd.op, f[s])
        /\ Past(call[j].cmd.op, mem[s])
    BY <1>3 DEF WinnerInv, WonIsPast
  <2> QED
    BY <1>2, <1>3, <2>1, StaysPast
<1>8. WinsFirst'
  <2> SUFFICES ASSUME NEW s \in Slot, OneWay(s), Outcome(c, mem) = "won", c.slot = s
               PROVE  /\ c.op \in Deciding
                      /\ Past(c.op, mem'[s])
                      /\ \A j \in Caller \ {k} : Won(j, s) => call[j].cmd.op # c.op
    BY <1>1, <1>3, <1>4, <1>5 DEF WinsFirst, OneWay, c
  <2>1. c.op \in Deciding /\ ~Past(c.op, mem[s]) /\ Past(c.op, mem'[s])
    BY <1>2, <1>3, WinsOnce
  <2>2. \A j \in Caller : Won(j, s) => Past(call[j].cmd.op, mem[s])
    BY <1>3 DEF WinnerInv, WonIsPast
  <2> QED
    BY <2>1, <2>2
<1> QED
  BY <1>6, <1>7, <1>8 DEF WinnerInv

LEMMA ReplyWinner ==
  ASSUME Inv, WinnerInv, Reply
  PROVE  WinnerInv'
<1>0. cur \in Caller
  BY DEF Inv, Served, TypeOK, Reply
<1> SUFFICES ASSUME NEW k \in Caller, k = cur PROVE WinnerInv'
  BY <1>0
<1>1. /\ phase = "reply" /\ up
      /\ call' = [call EXCEPT ![k].at = "idle", ![k].out = result]
      /\ phase' = "idle" /\ UNCHANGED <<up, mem, survives>>
  BY DEF Inv, Served, TypeOK, Reply, diskVars, Down
<1>2. /\ call'[k].cmd = call[k].cmd /\ call'[k].out = result
      /\ \A j \in Caller \ {k} : call'[j] = call[j]
  BY <1>1 DEF Inv, TypeOK, CallType
<1>3. \A j \in Caller : \A s : Won(j, s)' <=> IF j = k THEN result = "won" /\ call[k].cmd.slot = s
                                         ELSE Won(j, s)
  BY <1>2 DEF Won
<1>4. result = "won" => survives = {mem}
  BY <1>1 DEF Inv, Disk
<1>5. OneWinner'
  <2>1. ASSUME NEW s \in Slot, OneWay(s), NEW j \in Caller \ {k}, Won(j, s)', Won(k, s)'
        PROVE  call'[j].cmd.op # call'[k].cmd.op
    <3>1. Won(j, s) /\ result = "won" /\ call[k].cmd.slot = s
      BY <1>3, <2>1
    <3>2. call[j].cmd.op # call[k].cmd.op
      BY <1>1, <2>1, <3>1 DEF WinnerInv, WinsFirst
    <3> QED
      BY <1>2, <3>2
  <2>2. ASSUME NEW s \in Slot, OneWay(s), NEW i \in Caller \ {k}, NEW j \in Caller \ {k},
               Won(i, s)', Won(j, s)', call'[i].cmd.op = call'[j].cmd.op
        PROVE  i = j
    BY <1>2, <1>3, <2>2 DEF WinnerInv, OneWinner, OneWay
  <2> QED
    BY <2>1, <2>2 DEF OneWinner, OneWay
<1>6. WonIsPast'
  <2> SUFFICES ASSUME NEW s \in Slot, OneWay(s), NEW j \in Caller, Won(j, s)'
               PROVE  /\ call[j].cmd.op \in Deciding
                      /\ \A f \in survives : Past(call[j].cmd.op, f[s])
                      /\ Past(call[j].cmd.op, mem[s])
    BY <1>1, <1>2 DEF WonIsPast, OneWay
  <2>1. CASE j # k
    BY <1>1, <1>3, <2>1 DEF WinnerInv, WonIsPast
  <2>2. CASE j = k
    BY <1>1, <1>3, <1>4, <2>2 DEF WinnerInv, WinsFirst
  <2> QED
    BY <2>1, <2>2
<1>7. WinsFirst'
  BY <1>1 DEF WinsFirst
<1> QED
  BY <1>5, <1>6, <1>7 DEF WinnerInv

LEMMA WinnerStep == Verdicts /\ Inv /\ WinnerInv /\ [Next]_vars => WinnerInv'
<1> SUFFICES ASSUME Verdicts, Inv, WinnerInv, [Next]_vars PROVE WinnerInv'
  OBVIOUS
<1>1. ASSUME NEW k \in Caller, Call(k) PROVE WinnerInv'
  <2>1. PICK c \in Commands :
          call' = [call EXCEPT ![k] = [at |-> "sending", cmd |-> c, out |-> "none"]]
    BY <1>1 DEF Call
  <2>2. /\ UNCHANGED <<up, mem, phase, cur, result, survives>>
        /\ cur # k
    BY <1>1 DEF Call, actorVars, diskVars, Inv, Served
  <2>3. \A j \in Caller : call'[j].out = "won" => call'[j] = call[j]
    BY <2>1 DEF Inv, TypeOK
  <2>4. phase # "idle" => call'[cur].cmd = call[cur].cmd
    BY <2>1, <2>2 DEF Inv, TypeOK, Served
  <2> QED
    BY <2>2, <2>3, <2>4, SameWinners
<1>2. ASSUME NEW k \in Caller, Send(k) PROVE WinnerInv'
  <2>1. /\ call' = [call EXCEPT ![k].at = "queued"]
        /\ UNCHANGED <<up, mem, phase, cur, result, survives>>
    BY <1>2 DEF Send, actorVars, diskVars
  <2>2. \A j \in Caller : call'[j].cmd = call[j].cmd /\ call'[j].out = call[j].out
    BY <2>1 DEF Inv, TypeOK, CallType
  <2>3. \A j \in Caller : \A s : Won(j, s)' <=> Won(j, s)
    BY <2>2 DEF Won
  <2>4. phase # "idle" => cur \in Caller
    BY DEF Inv, TypeOK, Served
  <2>5. OneWinner' /\ WonIsPast'
    BY <2>1, <2>2, <2>3 DEF WinnerInv, OneWinner, WonIsPast, OneWay
  <2>6. WinsFirst'
    BY <2>1, <2>2, <2>3, <2>4 DEF WinnerInv, WinsFirst, OneWay
  <2> QED
    BY <2>5, <2>6 DEF WinnerInv
<1>3. ASSUME Publish \/ WriteTmp \/ SyncTmp \/ Rename \/ SyncDir PROVE WinnerInv'
  <2> USE DEF Publish, WriteTmp, SyncTmp, Rename, SyncDir, Advance, Fail, boundVars, diskVars
  <2>1. UNCHANGED <<up, cur, mem, call>> /\ phase # "idle"
    BY <1>3, Zenon
  <2>2. \A f \in survives' : f \in survives \/ (up /\ f = mem)
    BY <1>3 DEF Inv, Disk, Down
  <2>3. result' = "won" => result = "won"
    BY <1>3
  <2> QED
    BY <2>1, <2>2, <2>3, SameWinners
<1>4. ASSUME Crash \/ PowerLoss PROVE WinnerInv'
  <2>1. /\ call' = [k \in Caller |-> IF call[k].at = "idle" THEN call[k]
                                     ELSE [call[k] EXCEPT !.at = "idle", !.out = "lost"]]
        /\ ~up' /\ phase' = "idle" /\ survives' \subseteq survives
    BY <1>4 DEF Crash, PowerLoss, Gone, diskVars
  <2>2. \A j \in Caller : call'[j].out = "won" => call'[j] = call[j]
    BY <2>1 DEF Inv, TypeOK, CallType
  <2> QED
    BY <2>1, <2>2, SameWinners
<1>5. ASSUME Restart PROVE WinnerInv'
  <2>1. UNCHANGED <<survives, call, phase>> /\ mem' = file /\ file \in survives /\ phase = "idle"
    BY <1>5 DEF Restart, Inv, Disk, Down
  <2>2. \A j \in Caller : \A s : Won(j, s)' <=> Won(j, s)
    BY <2>1 DEF Won
  <2> QED
    BY <2>1, <2>2 DEF WinnerInv, OneWinner, WonIsPast, WinsFirst, OneWay
<1>6. CASE UNCHANGED vars
  BY <1>6, SameWinners DEF vars, actorVars, diskVars
<1> QED
  BY <1>1, <1>2, <1>3, <1>4, <1>5, <1>6, TakeWinner, ReplyWinner DEF Next, ActorStep

\* Of a slot that nothing opens again at most one caller is ever told that it
\* decided it, and one that it inserted it, whatever crashes come in between.
THEOREM SingleWinner == ASSUME Verdicts PROVE Safety => []OneWinner
<1>1. Init => WinnerInv
  BY InitWinner
<1>2. Inv /\ WinnerInv /\ [Next]_vars => WinnerInv'
  BY WinnerStep
<1>3. WinnerInv => OneWinner
  BY DEF WinnerInv
<1> QED
  BY <1>1, <1>2, <1>3, Invariance, PTL DEF Safety

-----------------------------------------------------------------------------
(* The actor implements the store *)

\* What the store knows of the call of k.
Shown(k) == [at  |-> IF Applied(k) THEN "applied"
                     ELSE IF call[k].at = "idle" THEN "idle" ELSE "asked",
             cmd |-> call[k].cmd,
             out |-> IF Applied(k) THEN result ELSE call[k].out]

Seen    == IF up THEN snapshot ELSE file
InDoubt == survives \cup (IF phase \in Flushing THEN {mem} ELSE {})

\* The store's commands are the actor's.
LEMMA SameCommands ==
  /\ Store!State = State
  /\ \A c, s : Store!After(c, s) = After(c, s)
  /\ \A c, s : Store!Outcome(c, s) = Outcome(c, s)
<1>1. \A c, v : Store!Hits(c, v) = Hits(c, v)
  BY DEF Store!Hits, Hits
<1>2. \A c : Store!Written(c) = Written(c)
  BY DEF Store!Written, Written
<1> QED
  BY <1>1, <1>2 DEF Store!State, State, Store!Value, Value, Store!After, After,
                    Store!Outcome, Outcome

LEMMA ClientIsShown == Client = [k \in Caller |-> Shown(k)]
BY DEF Client, Shown

LEMMA ClientIsShownNext == Client' = [k \in Caller |-> Shown(k)']
BY DEF Client, Shown

\* Only the caller that is served can have its call applied.
LEMMA ServedOnly ==
  ASSUME Inv, NEW k \in Caller
  PROVE  /\ Applied(k) => cur = k /\ call[k].at = "serving"
         /\ cur # k => Shown(k) = [at  |-> IF call[k].at = "idle" THEN "idle" ELSE "asked",
                                   cmd |-> call[k].cmd, out |-> call[k].out]
BY DEF Inv, Served, Applied, Shown

LEMMA StoreInit == Init => Store!Init
<1> SUFFICES ASSUME Init PROVE Store!Init
  OBVIOUS
<1>1. \A k \in Caller : Shown(k) = [at |-> "idle", cmd |-> <<>>, out |-> "none"]
  BY DEF Init, Shown, Applied, Flushing
<1>2. Client = [k \in Caller |-> [at |-> "idle", cmd |-> <<>>, out |-> "none"]]
  BY <1>1, ClientIsShown
<1>3. Seen \in State /\ InDoubt = {Seen}
  BY DEF Init, Seen, InDoubt, Flushing
<1> QED
  BY <1>2, <1>3, SameCommands DEF Store!Init, Seen, InDoubt

LEMMA CallRefines ==
  ASSUME Inv, NEW k \in Caller, Call(k)
  PROVE  Store!Ask(k)
<1>1. PICK c \in Commands :
        call' = [call EXCEPT ![k] = [at |-> "sending", cmd |-> c, out |-> "none"]]
  BY DEF Call
<1>2. k # cur /\ call[k].at = "idle" /\ cur' = cur /\ phase' = phase /\ result' = result
  BY DEF Call, Inv, Served, actorVars
<1>3. Shown(k).at = "idle"
  BY <1>2 DEF Shown, Applied
<1>4. Shown(k)' = [at |-> "asked", cmd |-> c, out |-> "none"]
  BY <1>1, <1>2 DEF Shown, Applied, Inv, TypeOK
<1>5. \A j \in Caller : j # k => Shown(j)' = Shown(j)
  BY <1>1, <1>2 DEF Shown, Applied, Inv, TypeOK
<1>6. Client' = [Client EXCEPT ![k] = [at |-> "asked", cmd |-> c, out |-> "none"]]
  BY <1>4, <1>5, ClientIsShown, ClientIsShownNext
<1>7. Seen' = Seen /\ InDoubt' = InDoubt
  BY DEF Call, actorVars, diskVars, Seen, InDoubt
<1> QED
  BY <1>3, <1>6, <1>7, ClientIsShown DEF Store!Ask, Seen, InDoubt

\* A step that moves no call across a border the store knows.
LEMMA SameClient ==
  ASSUME \A k \in Caller : Shown(k)' = Shown(k)
  PROVE  Client' = Client
BY ClientIsShown, ClientIsShownNext

LEMMA SendRefines ==
  ASSUME Inv, NEW k \in Caller, Send(k)
  PROVE  UNCHANGED Store!vars
<1>1. UNCHANGED <<cur, phase, result>> /\ call[k].at = "sending"
      /\ call' = [call EXCEPT ![k].at = "queued"]
  BY DEF Send, actorVars
<1>2. ASSUME NEW j \in Caller PROVE Shown(j)' = Shown(j)
  BY <1>1 DEF Shown, Applied, Inv, TypeOK, CallType
<1>3. Seen' = Seen /\ InDoubt' = InDoubt
  BY DEF Send, actorVars, diskVars, Seen, InDoubt
<1> QED
  BY <1>2, <1>3, SameClient DEF Store!vars, Seen, InDoubt

\* The command the actor serves takes effect for the store.
LEMMA Applies ==
  ASSUME Inv, NEW k \in Caller, Shown(k).at = "asked",
         Seen' = After(call[k].cmd, Seen),
         Shown(k)' = [at |-> "applied", cmd |-> call[k].cmd, out |-> Outcome(call[k].cmd, Seen)],
         \A j \in Caller : j # k => Shown(j)' = Shown(j),
         InDoubt' \subseteq InDoubt \cup {Seen'}, InDoubt' # {}
  PROVE  Store!Apply(k)
<1>1. Client[k].cmd = call[k].cmd /\ Client[k].at = "asked"
  BY ClientIsShown DEF Shown
<1>2. Client' = [Client EXCEPT ![k] = [at |-> "applied", cmd |-> call[k].cmd,
                                       out |-> Outcome(call[k].cmd, Seen)]]
  BY ClientIsShown, ClientIsShownNext
<1>3. InDoubt' \in (SUBSET (InDoubt \cup {Seen'})) \ {{}}
  OBVIOUS
<1> QED
  BY <1>1, <1>2, <1>3, SameCommands DEF Store!Apply, Seen, InDoubt

LEMMA TakeRefines ==
  ASSUME Inv, Take
  PROVE  (\E k \in Caller : Store!Apply(k)) \/ UNCHANGED Store!vars
<1>0. Head(queue) \in Caller /\ Head(queue) = queue[1] /\ call[Head(queue)].at = "queued"
  BY DEF Inv, TypeOK, Queued, Take
<1> SUFFICES ASSUME NEW k \in Caller, k = Head(queue), NEW c, c = call[k].cmd
             PROVE  Store!Apply(k) \/ UNCHANGED Store!vars
  BY <1>0
<1>1. k \in Caller /\ call[k].at = "queued" /\ cur = NoCaller /\ phase = "idle" /\ up
  BY <1>0 DEF Inv, Served, Take
<1>2. c \in Commands /\ mem = snapshot /\ snapshot \in State
  BY <1>1 DEF Inv, TypeOK, Commanded, Memory
<1>3. /\ cur' = k /\ result' = Outcome(c, mem)
      /\ phase' = IF Outcome(c, mem) = "refused" THEN "reply" ELSE "publish"
      /\ call' = [call EXCEPT ![k].at = "serving"]
      /\ UNCHANGED <<up, snapshot, file, survives>>
  BY DEF Take, diskVars
<1>4. Seen' = Seen /\ Seen = snapshot /\ InDoubt' = InDoubt /\ InDoubt # {}
  BY <1>1, <1>3 DEF Seen, InDoubt, Flushing, Inv, Disk
<1>5. \A j \in Caller : j # k => Shown(j)' = Shown(j)
  BY <1>1, <1>3 DEF Shown, Applied, Inv, TypeOK
<1>6. Shown(k) = [at |-> "asked", cmd |-> c, out |-> call[k].out]
  BY <1>1 DEF Shown, Applied
<1>7. call'[k].at = "serving" /\ call'[k].cmd = c /\ call'[k].out = call[k].out
  BY <1>1, <1>3 DEF Inv, TypeOK, CallType
<1>8. CASE Outcome(c, mem) = "refused"
  <2>1. Shown(k)' = [at |-> "applied", cmd |-> c, out |-> Outcome(c, Seen)]
    BY <1>2, <1>3, <1>4, <1>7, <1>8 DEF Shown, Applied
  <2>2. After(c, Seen) = Seen
    BY <1>2, <1>4, <1>8, RefusedIsIdle
  <2> QED
    BY <1>1, <1>4, <1>5, <1>6, <2>1, <2>2, Applies
<1>9. CASE Outcome(c, mem) # "refused"
  <2>1. Shown(k)' = Shown(k)
    BY <1>3, <1>6, <1>7, <1>9 DEF Shown, Applied, Flushing
  <2> QED
    BY <1>4, <1>5, <2>1, SameClient DEF Store!vars, Seen, InDoubt
<1> QED
  BY <1>8, <1>9

LEMMA PublishRefines ==
  ASSUME Inv, Publish
  PROVE  \E k \in Caller : Store!Apply(k)
<1>0. cur \in Caller
  BY DEF Inv, TypeOK, Served, Publish
<1> SUFFICES ASSUME NEW k \in Caller, k = cur PROVE Store!Apply(k)
  BY <1>0
<1>1. /\ phase = "publish" /\ phase' = "write" /\ snapshot' = mem
      /\ UNCHANGED <<up, mem, cur, result, file, survives, call>>
  BY DEF Publish, diskVars
<1>2. up /\ k \in Caller /\ call[k].at = "serving"
  BY <1>1 DEF Inv, TypeOK, Served, Down
<1>3. mem = After(call[k].cmd, Seen) /\ result = Outcome(call[k].cmd, Seen)
  BY <1>1, <1>2 DEF Inv, Memory, Seen
<1>4. Seen' = mem /\ InDoubt' = survives \cup {mem} /\ InDoubt = survives
  BY <1>1, <1>2 DEF Seen, InDoubt, Flushing
<1>5. Shown(k).at = "asked"
  BY <1>1, <1>2 DEF Shown, Applied, Flushing
<1>6. Shown(k)' = [at |-> "applied", cmd |-> call[k].cmd, out |-> result]
  BY <1>1, <1>2 DEF Shown, Applied, Flushing
<1>7. \A j \in Caller : j # k => Shown(j)' = Shown(j)
  BY <1>1 DEF Shown, Applied
<1> QED
  BY <1>2, <1>3, <1>4, <1>5, <1>6, <1>7, Applies

\* A write, a sync or a rename that goes well, or fails.
LEMMA FlushRefines ==
  ASSUME Inv, WriteTmp \/ SyncTmp \/ Rename \/ SyncDir
  PROVE  Store!Settle
<1>0. cur \in Caller
  BY DEF Inv, TypeOK, Served, WriteTmp, SyncTmp, Rename, SyncDir, Advance, Fail
<1> SUFFICES ASSUME NEW k \in Caller, k = cur PROVE Store!Settle
  BY <1>0
<1>1. /\ phase \in {"write", "sync", "rename", "syncdir"}
      /\ UNCHANGED <<up, snapshot, mem, cur, call>>
  BY DEF WriteTmp, SyncTmp, Rename, SyncDir, Advance, Fail
<1>2. up /\ k \in Caller /\ mem = snapshot
  BY <1>1 DEF Inv, TypeOK, Served, Down, Memory
<1>3. Seen' = Seen
  BY <1>1, <1>2 DEF Seen
<1>4. InDoubt' \subseteq InDoubt /\ InDoubt' # {}
  BY DEF WriteTmp, SyncTmp, Rename, SyncDir, Advance, Fail, diskVars, InDoubt, Flushing, Inv, Disk
<1>5. \A j \in Caller : j # k => Shown(j)' = Shown(j)
  BY <1>1 DEF Shown, Applied
<1>6. Shown(k) = [at |-> "applied", cmd |-> call[k].cmd, out |-> result]
  BY <1>1 DEF Shown, Applied, Flushing
<1>7. /\ phase' \in {"sync", "rename", "syncdir", "reply"}
      /\ result' = result \/ result' = "error"
  BY DEF WriteTmp, SyncTmp, Rename, SyncDir, Advance, Fail
<1>8. Shown(k)' = [at |-> "applied", cmd |-> call[k].cmd, out |-> result']
  BY <1>1, <1>7 DEF Shown, Applied, Flushing
<1>9. CASE result' = result
  <2>1. Client' = Client
    BY <1>5, <1>6, <1>8, <1>9, SameClient
  <2> QED
    BY <1>3, <1>4, <2>1 DEF Store!Settle, Seen, InDoubt
<1>10. CASE result' = "error"
  <2>1. Client[k].at = "applied"
    BY <1>2, <1>6, ClientIsShown
  <2>2. Shown(k)' = [Shown(k) EXCEPT !.out = "error"]
    BY <1>6, <1>8, <1>10
  <2>3. Client' = [Client EXCEPT ![k].out = "error"]
    BY <1>2, <1>5, <2>2, ClientIsShown, ClientIsShownNext
  <2> QED
    BY <1>2, <1>3, <1>4, <2>1, <2>3 DEF Store!Settle, Seen, InDoubt
<1> QED
  BY <1>7, <1>9, <1>10

LEMMA ReplyRefines ==
  ASSUME Inv, Reply
  PROVE  \E k \in Caller : Store!Answer(k)
<1>0. cur \in Caller
  BY DEF Inv, TypeOK, Served, Reply
<1> SUFFICES ASSUME NEW k \in Caller, k = cur PROVE Store!Answer(k)
  BY <1>0
<1>1. /\ phase = "reply" /\ phase' = "idle" /\ cur' = NoCaller
      /\ call' = [call EXCEPT ![k].at = "idle", ![k].out = result]
      /\ UNCHANGED <<up, mem, snapshot, file, survives>>
  BY DEF Reply, diskVars
<1>2. up /\ k \in Caller /\ mem = snapshot
  BY <1>1 DEF Inv, TypeOK, Served, Down, Memory
<1>3. Seen' = Seen /\ Seen = mem /\ InDoubt' = InDoubt /\ InDoubt = survives
  BY <1>1, <1>2 DEF Seen, InDoubt, Flushing
<1>4. result \in {"ok", "won"} => InDoubt = {Seen}
  BY <1>1, <1>3 DEF Inv, Disk
<1>5. \A j \in Caller : j # k => Shown(j)' = Shown(j)
  BY <1>1, <1>2 DEF Shown, Applied, Inv, TypeOK
<1>6. Shown(k) = [at |-> "applied", cmd |-> call[k].cmd, out |-> result]
  BY <1>1 DEF Shown, Applied, Flushing
<1>7. /\ call'[k].at = "idle" /\ call'[k].out = result
      /\ call'[k].cmd = call[k].cmd
  BY <1>1, <1>2 DEF Inv, TypeOK, CallType
<1>8. [Shown(k) EXCEPT !.at = "idle"]
        = [at |-> "idle", cmd |-> call[k].cmd, out |-> result]
  BY <1>6
<1>9. \A j \in Caller : Shown(j)' = IF j = k THEN [Shown(k) EXCEPT !.at = "idle"] ELSE Shown(j)
  BY <1>1, <1>5, <1>7, <1>8 DEF Shown, Applied, Flushing
<1>10. Client' = [Client EXCEPT ![k].at = "idle"]
  BY <1>2, <1>9, ClientIsShown, ClientIsShownNext
<1>11. Client[k].at = "applied" /\ Client[k].out = result
  BY <1>2, <1>6, ClientIsShown
<1> QED
  BY <1>2, <1>3, <1>4, <1>10, <1>11 DEF Store!Answer, Store!Acknowledged, Seen, InDoubt

LEMMA GoneRefines ==
  ASSUME Inv, Crash \/ PowerLoss
  PROVE  Store!Crash
<1>1. /\ up' = FALSE /\ phase' = "idle" /\ cur' = NoCaller
      /\ call' = [k \in Caller |-> IF call[k].at = "idle" THEN call[k]
                                   ELSE [call[k] EXCEPT !.at = "idle", !.out = "lost"]]
      /\ file' \in survives /\ survives' \in {survives, {file'}} /\ file' \in survives'
  BY DEF Crash, PowerLoss, Gone, diskVars, Inv, Disk
<1>2. /\ Seen' = file' /\ InDoubt' = survives'
      /\ Seen' \in InDoubt /\ InDoubt' \subseteq InDoubt /\ Seen' \in InDoubt'
  BY <1>1 DEF Seen, InDoubt, Flushing
<1>3. ASSUME NEW k \in Caller
      PROVE  Shown(k)' = IF Shown(k).at = "idle" THEN Shown(k)
                         ELSE [at |-> "idle", cmd |-> Shown(k).cmd, out |-> "lost"]
  <2>1. call[k] \in CallType /\ call'[k] = IF call[k].at = "idle" THEN call[k]
                                   ELSE [call[k] EXCEPT !.at = "idle", !.out = "lost"]
    BY <1>1 DEF Inv, TypeOK
  <2>2. Shown(k)' = [at |-> "idle", cmd |-> call'[k].cmd, out |-> call'[k].out]
    <3>1. call'[k].at = "idle"
      BY <2>1 DEF CallType
    <3> QED
      BY <1>1, <3>1 DEF Shown, Applied, Flushing
  <2>3. CASE call[k].at = "idle"
    <3>1. ~Applied(k)
      BY <2>3, ServedOnly
    <3> QED
      BY <2>1, <2>2, <2>3, <3>1 DEF Shown
  <2>4. CASE call[k].at # "idle"
    <3>1. Shown(k).at # "idle" /\ Shown(k).cmd = call[k].cmd
      BY <2>4 DEF Shown
    <3>2. call'[k].cmd = call[k].cmd /\ call'[k].out = "lost"
      BY <2>1, <2>4 DEF CallType
    <3> QED
      BY <2>2, <3>1, <3>2
  <2> QED
    BY <2>3, <2>4
<1>4. Client' = [k \in Caller |-> IF Client[k].at = "idle" THEN Client[k]
                                 ELSE [at |-> "idle", cmd |-> Client[k].cmd, out |-> "lost"]]
  BY <1>3, ClientIsShown, ClientIsShownNext
<1> QED
  BY <1>2, <1>4 DEF Store!Crash, Seen, InDoubt

LEMMA RestartRefines ==
  ASSUME Inv, Restart
  PROVE  UNCHANGED Store!vars
<1>1. /\ ~up /\ up' /\ snapshot' = file /\ phase = "idle"
      /\ UNCHANGED <<phase, cur, result, file, survives, call>>
  BY DEF Restart, Inv, Down
<1>2. Seen' = Seen /\ InDoubt' = InDoubt
  BY <1>1 DEF Seen, InDoubt, Flushing
<1>3. \A k \in Caller : Shown(k)' = Shown(k)
  BY <1>1 DEF Shown, Applied
<1> QED
  BY <1>2, <1>3, SameClient DEF Store!vars, Seen, InDoubt

LEMMA StoreStep == Inv /\ [Next]_vars => [Store!Next]_(Store!vars)
<1> SUFFICES ASSUME Inv, [Next]_vars PROVE [Store!Next]_(Store!vars)
  OBVIOUS
<1>1. CASE Next
  BY <1>1, CallRefines, SendRefines, TakeRefines, PublishRefines, FlushRefines, ReplyRefines,
     GoneRefines, RestartRefines DEF Next, ActorStep, Store!Next
<1>2. CASE UNCHANGED vars
  <2>1. UNCHANGED <<up, snapshot, file, survives, phase, mem, cur, call, result>>
    BY <1>2 DEF vars, actorVars, diskVars
  <2>2. Seen' = Seen /\ InDoubt' = InDoubt /\ \A k \in Caller : Shown(k)' = Shown(k)
    BY <2>1 DEF Seen, InDoubt, Shown, Applied
  <2> QED
    BY <2>2, SameClient DEF Store!vars, Seen, InDoubt
<1> QED
  BY <1>1, <1>2

\* The state actor implements the durable store: calls take effect one after the
\* other between their start and their end, and what was acknowledged survives
\* the end of the process and of the machine (publish_and_flush,
\* atomic_write_state, load_state).
THEOREM Durability == Safety => ImplementsStore
  BY StoreInit, StoreStep, Invariance, PTL DEF ImplementsStore, Safety, Store!Spec
=============================================================================
