----------------------------- MODULE AgentRunner ----------------------------
(***************************************************************************)
(* The logins ("auth contexts") of one agent and the requests that run on  *)
(* them (runner.rs, auth_cmds.rs, the start of mod.rs, cli/auth.rs).       *)
(*                                                                         *)
(* A request orders the contexts, leaves out those that are cooling down or*)
(* need a login, and tries at most MaxAttempts of them, each in a child    *)
(* process; what the child says is classified and recorded, and the next   *)
(* context is tried, asked for, or not.  Requests run side by side and     *)
(* share the recorded states.  The daemon keeps the auth-contexts.yaml it  *)
(* read when it started; `agent-bus auth` edits the file.                  *)
(***************************************************************************)
EXTENDS Selection, Integers, Sequences

CONSTANTS
  Order,         \* the contexts in the order of the file
  AutoRotate,    \* those with auto_rotate (their own or the default)
  Gated,         \* those with require_owner_approval
  SelfRefresh,   \* the agent renews its tokens itself (claude)
  NoCtx,
  Request,       \* requests, one agent run each
  MaxAttempts,   \* DEFAULT_MAX_ATTEMPTS
  Cooldown,      \* what a limit costs: DEFAULT_QUOTA_, DEFAULT_RATE_LIMIT_COOLDOWN_SECS
  MaxTime,       \* bound of the model: the clock
  Limits         \* bounds of the model: the requests that are made; edits, faults and
                 \* restarts; /auth_rotate, while fewer rotations were asked for

Ctx    == {Order[i] : i \in DOMAIN Order}
Limit  == {"quota", "rate"}
Broken == {"expired", "reauth"}
Kind   == Limit \cup Broken \cup {"success", "timeout", "unknown"}
Token  == {"healthy", "soon", "expired", "none"}

ASSUME RunnerAssumption ==
  /\ AutoRotate \subseteq Ctx /\ Gated \subseteq Ctx /\ NoCtx \notin Ctx
  /\ Order \in Seq(Ctx)
  /\ \A i, j \in DOMAIN Order : Order[i] = Order[j] => i = j
  /\ MaxAttempts \in Nat \ {0} /\ Cooldown \in [Limit -> Nat \ {0}]
  /\ SelfRefresh \in BOOLEAN /\ MaxTime \in Nat
  /\ Limits \subseteq [requests : SUBSET Request, events : Nat, rotations : Nat]

VARIABLES
  conf,          \* auth-contexts.yaml: the contexts that are on, and the active one
  cfg,           \* what the daemon read of it
  status,        \* ctx -> its recorded state and the end of its cooldown
  active,
  token,         \* ctx -> what its credentials file says
  req,           \* request -> what it is doing
  rotation,      \* the rotations that were asked for, in order
  press,         \* the press on a rotation's card under way
  now, limit, events,
  hot            \* history: ctx -> the end of the cooldown last recorded for it,
                 \* if nothing better was heard since

config == <<conf, cfg, token>>
auth   == <<status, active>>
counts == <<now, limit, events>>
rvars  == <<config, auth, req, rotation, press, counts, hot>>

States == {"available", "soon", "limited", "broken"}
Known  == [state : States, until : Nat]
Ok     == [state |-> "available", until |-> 0]

Ready == [at |-> "new", list |-> <<>>, idx |-> 0, kind |-> "unknown"]
Over  == {"done", "failed", "asked"}
NoPress == [id |-> 0, at |-> "none"]

RunnerInit ==
  /\ conf \in [on : {Ctx}, active : {NoCtx} \cup {Order[i] : i \in DOMAIN Order \cap {1}}]
  /\ cfg = conf
  /\ token = [c \in Ctx |-> "healthy"]
  /\ status = [c \in Ctx |-> Ok]
  /\ active = conf.active
  /\ req = [r \in Request |-> Ready]
  /\ rotation = <<>> /\ press = NoPress
  /\ now = 0 /\ limit \in Limits /\ events = 0
  /\ hot = [c \in Ctx |-> 0]

Event == events < limit.events /\ events' = events + 1
Go(r, at) == req' = [req EXCEPT ![r].at = at]
End(r, at) == req' = [req EXCEPT ![r] = [Ready EXCEPT !.at = at]]

-----------------------------------------------------------------------------
(* Choosing *)

Active(S) == IF active \in S THEN <<active>> ELSE <<>>

\* Mutant: the active context is put first and not taken from its place.
CandidatesTwice(S) == Active(S) \o Selected(Order, S)

\* select_candidates, of the contexts in S: the active one, then the others as in
\* the file.
Candidates(S) == Active(S) \o Selected(Order, S \ {active})

\* Mutant: a cooldown is over a step early.
UsableEarly(c) == \/ status[c].state \in {"available", "soon"}
                  \/ status[c].state = "limited" /\ now + 1 >= status[c].until

\* is_usable
Usable(c) == \/ status[c].state \in {"available", "soon"}
             \/ status[c].state = "limited" /\ now >= status[c].until

\* AgentRunner::run: the first candidate that is on and usable is spawned.
Start(r) ==
  LET list == Candidates({c \in cfg.on : Usable(c)}) IN
  /\ req[r].at = "new" /\ r \in limit.requests
  /\ req' = [req EXCEPT ![r] =
       IF list = <<>> THEN [Ready EXCEPT !.at = "failed"]
       ELSE [Ready EXCEPT !.at = "running", !.list = list, !.idx = 1]]
  /\ UNCHANGED <<config, auth, rotation, press, counts, hot>>

Mine(r)   == req[r].list[req[r].idx]
HasNext(r) == req[r].idx < Len(req[r].list)
Following(r)  == req[r].list[req[r].idx + 1]

-----------------------------------------------------------------------------
(* Running *)

Set(c, s, until) == status' = [status EXCEPT ![c] = [state |-> s, until |-> until]]

\* The child did not start, or its transcript could not be copied.
SpawnFails(r) ==
  /\ req[r].at = "running" /\ Event
  /\ End(r, "failed")
  /\ UNCHANGED <<config, auth, rotation, press, now, limit, hot>>

\* The child ended, or was killed at the timeout, and was classified.
Ends(r) ==
  /\ req[r].at = "running"
  /\ \E k \in Kind :
       req' = [req EXCEPT ![r].kind = k,
                 ![r].at = IF k \in {"timeout", "unknown"} THEN "done" ELSE "record"]
  /\ UNCHANGED <<config, auth, rotation, press, counts, hot>>

Until(k) == now + Cooldown[k]

\* mark_available, record_quota_event, mark_status: what is known of the context
\* is replaced by this result.
Record(r) ==
  LET c == Mine(r)
      k == req[r].kind
  IN
  /\ req[r].at = "record"
  /\ CASE k = "success" -> Set(c, "available", 0) /\ hot' = [hot EXCEPT ![c] = 0]
       [] k \in Limit   -> Set(c, "limited", Until(k)) /\ hot' = [hot EXCEPT ![c] = Until(k)]
       [] k \in Broken  -> Set(c, "broken", 0) /\ UNCHANGED hot
  /\ Go(r, IF k = "success" THEN "activate" ELSE "decide")
  /\ UNCHANGED <<config, active, rotation, press, counts>>

\* state.json or events.jsonl cannot be written: the request ends with an error,
\* what the actor holds is changed.
RecordFails(r) ==
  /\ req[r].at \in {"decide", "activate"} /\ Event
  /\ End(r, "failed")
  /\ UNCHANGED <<config, auth, rotation, press, now, limit, hot>>

Activate(r) ==
  /\ req[r].at = "activate"
  /\ active' = Mine(r)
  /\ End(r, "done")
  /\ UNCHANGED <<config, status, rotation, press, counts, hot>>

MayRotate(r) == Mine(r) \in AutoRotate \/ (HasNext(r) /\ Following(r) \in AutoRotate)
LastTry(r)   == req[r].idx >= MaxAttempts

NewRotation(from, to, card) == [from |-> from, to |-> to, status |-> "pending", card |-> card]

\* Mutant: the next attempt is on the same context.
DecideSame(r) ==
  /\ req[r].at = "decide"
  /\ \/ /\ ~MayRotate(r) \/ LastTry(r)
        /\ End(r, "done") /\ UNCHANGED rotation
     \/ /\ MayRotate(r) /\ ~LastTry(r) /\ ~HasNext(r)
        /\ End(r, "failed") /\ UNCHANGED rotation
     \/ /\ MayRotate(r) /\ ~LastTry(r) /\ HasNext(r)
        /\ IF req[r].kind \in Limit /\ Following(r) \in Gated
           THEN /\ rotation' = Append(rotation, NewRotation(Mine(r), Following(r), FALSE))
                /\ End(r, "asked")
           ELSE /\ req' = [req EXCEPT ![r].at = "running"]
                /\ UNCHANGED rotation
  /\ UNCHANGED <<config, auth, press, counts, hot>>

\* After a limit or a failed login: the answer of this context goes out, or the
\* owner is asked for the next one (after a limit), or it is tried.
Decide(r) ==
  /\ req[r].at = "decide"
  /\ \/ /\ ~MayRotate(r) \/ LastTry(r)
        /\ End(r, "done") /\ UNCHANGED rotation
     \/ /\ MayRotate(r) /\ ~LastTry(r) /\ ~HasNext(r)
        /\ End(r, "failed") /\ UNCHANGED rotation
     \/ /\ MayRotate(r) /\ ~LastTry(r) /\ HasNext(r)
        /\ IF req[r].kind \in Limit /\ Following(r) \in Gated
           THEN /\ rotation' = Append(rotation, NewRotation(Mine(r), Following(r), FALSE))
                /\ End(r, "asked")
           ELSE /\ req' = [req EXCEPT ![r].idx = @ + 1, ![r].at = "running"]
                /\ UNCHANGED rotation
  /\ UNCHANGED <<config, auth, press, counts, hot>>

-----------------------------------------------------------------------------
(* The owner: /auth_rotate and the buttons of its card *)

\* The enabled context after the active one, around the end.
After ==
  LET list == Selected(Order, cfg.on)
      at   == {i \in DOMAIN list : list[i] = active}
  IN IF at = {} THEN list[1]
     ELSE list[((CHOOSE i \in at : TRUE) % Len(list)) + 1]

AuthRotate ==
  /\ cfg.on # {} /\ press.at = "none" /\ Len(rotation) < limit.rotations
  /\ IF After \in Gated
     THEN /\ \E card \in BOOLEAN :   \* the card is sent, or not
               rotation' = Append(rotation, NewRotation(active, After, card))
          /\ UNCHANGED active
     ELSE /\ active' = After
          /\ UNCHANGED rotation
  /\ UNCHANGED <<config, status, req, press, counts, hot>>

\* handle_callback_rotation; an answer to one that is no longer pending is refused.
Press(i, verdict) ==
  /\ press.at = "none" /\ rotation[i].card /\ rotation[i].status = "pending"
  /\ rotation' = [rotation EXCEPT ![i].status = verdict]
  /\ press' = IF verdict = "approved" THEN [id |-> i, at |-> "activate"] ELSE press
  /\ UNCHANGED <<config, auth, req, counts, hot>>

PressActivates ==
  /\ press.at = "activate"
  /\ active' = rotation[press.id].to
  /\ press' = NoPress
  /\ UNCHANGED <<config, status, req, rotation, counts, hot>>

\* The rotation is approved in the actor's memory and cannot be written.
PressFails ==
  /\ press.at = "activate" /\ Event
  /\ press' = NoPress
  /\ UNCHANGED <<config, auth, req, rotation, now, limit, hot>>

-----------------------------------------------------------------------------
(* The administrator and the daemon's start *)

\* auth pause, auth resume, auth use
EditConf ==
  /\ Event
  /\ \E c \in Ctx : \/ conf' = [conf EXCEPT !.on = IF c \in @ THEN @ \ {c} ELSE @ \cup {c}]
                    \/ conf' = [conf EXCEPT !.active = c]
  /\ UNCHANGED <<cfg, token, auth, req, rotation, press, now, limit, hot>>

\* auth login, auth recheck, or a token that runs out.
TokenChanges ==
  /\ Event
  /\ \E c \in Ctx : \E t \in Token \ {token[c]} : token' = [token EXCEPT ![c] = t]
  /\ UNCHANGED <<conf, cfg, auth, req, rotation, press, now, limit, hot>>

\* startup_token_status_kind; nothing is known of an agent without a token file.
AtStart(c) ==
  CASE token[c] = "healthy" \/ (token[c] = "expired" /\ SelfRefresh) -> Ok
    [] token[c] = "soon" -> [state |-> "soon", until |-> 0]
    [] token[c] = "expired" /\ ~SelfRefresh -> [state |-> "broken", until |-> 0]
    [] token[c] = "none" -> status[c]

\* run_daemon: the file is read, its active context is made active, the tokens'
\* states replace what was recorded; requests are gone.
Restart ==
  /\ Event
  /\ cfg' = conf
  /\ active' = IF conf.active = NoCtx THEN active ELSE conf.active
  /\ status' = [c \in Ctx |-> AtStart(c)]
  /\ hot' = [c \in Ctx |-> IF token[c] = "none" THEN hot[c] ELSE 0]
  /\ req' = [r \in Request |-> IF req[r].at \in Over \cup {"new"} THEN req[r]
                               ELSE [Ready EXCEPT !.at = "failed"]]
  /\ press' = NoPress
  /\ UNCHANGED <<conf, token, rotation, now, limit>>

Clock ==
  /\ now < MaxTime /\ now' = now + 1
  /\ UNCHANGED <<config, auth, req, rotation, press, limit, events, hot>>

Runs(r) == Start(r) \/ Ends(r) \/ Record(r) \/ Activate(r) \/ Decide(r)

RunnerNext ==
  \/ \E r \in Request : Runs(r) \/ SpawnFails(r) \/ RecordFails(r)
  \/ AuthRotate \/ PressActivates \/ PressFails
  \/ \E i \in DOMAIN rotation : \E v \in {"approved", "denied"} : Press(i, v)
  \/ EditConf \/ TokenChanges \/ Restart \/ Clock

RunnerSpec ==
  /\ RunnerInit /\ [][RunnerNext]_rvars
  /\ \A r \in Request : WF_rvars(Runs(r))
  /\ WF_rvars(PressActivates)

-----------------------------------------------------------------------------
(* Properties *)

RunnerTypeOK ==
  /\ {conf, cfg} \subseteq [on : SUBSET Ctx, active : Ctx \cup {NoCtx}]
  /\ token \in [Ctx -> Token] /\ status \in [Ctx -> Known]
  /\ active \in Ctx \cup {NoCtx}
  /\ \A r \in Request : req[r].list \in Seq(Ctx) /\ req[r].kind \in Kind

\* One message does not spend two attempts on one context, and no more than
\* MaxAttempts (select_candidates, take(max_attempts)): the active context is also
\* in the file's order, and the list is not made again while others record.
NoContextTwice ==
  \A r \in Request :
    /\ req[r].idx <= MaxAttempts
    /\ \A i, j \in DOMAIN req[r].list : i < j => req[r].list[i] # req[r].list[j]

\* A request starts on no context whose last cooldown is not over, whatever runs
\* side by side have recorded since and however often it was tried, unless one
\* of them succeeded on it or the daemon started anew (is_usable).
CooldownKept ==
  [][\A r \in Request : req[r].at = "new" /\ req'[r].at = "running" =>
       \A i \in DOMAIN req'[r].list : hot[req'[r].list[i]] <= now]_rvars

\* Every request ends, whatever the children say and others record.
RequestsEnd == <>(\A r \in limit.requests : req[r].at \in Over)

\* "Rotation to {agent}/{id} needs owner approval": no request runs on a context
\* while a rotation to it waits for the owner.
UnapprovedNeverEntered ==
  \A r \in Request : req[r].at = "running" =>
    \A i \in DOMAIN rotation : rotation[i].to = Mine(r) => rotation[i].status = "approved"
=============================================================================
