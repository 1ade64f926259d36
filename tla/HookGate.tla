------------------------------ MODULE HookGate ------------------------------
(***************************************************************************)
(* The hook processes (agent-bus-hook/main.rs) in front of the permission  *)
(* service.  A hook is one tool call of an agent: it asks the daemon over  *)
(* the socket, again after an error, and decides by itself when it gets no *)
(* answer.  The n-th time a hook asks is the check <<hook, n>>.            *)
(***************************************************************************)
EXTENDS PermCheck

CONSTANTS
  Hook,          \* the tool calls
  Attempts       \* how often a hook asks: 3 in the code

ASSUME HookAssumption ==
  /\ Attempts \in Nat \ {0}
  /\ Check = Hook \X (1 .. Attempts)

VARIABLES
  hook,          \* where each hook is
  socket         \* the socket file exists

hookVars == <<hook, socket>>
allVars  == <<vars, hookVars>>

Exit     == {"none", "approve", "deny", "config", "protocol"}   \* exit codes 0 2 3 4
HookPC   == {"start", "connect", "reply", "exit"}
HookType == [at : HookPC, n : 1 .. Attempts, code : Exit, alone : BOOLEAN]

HookInit ==
  /\ Init
  /\ \A h \in Hook, n \in 1 .. Attempts : cmd[<<h, n>>] = cmd[<<h, 1>>]
  /\ hook = [h \in Hook |-> [at |-> "start", n |-> 1, code |-> "none", alone |-> FALSE]]
  /\ socket = TRUE

ClassOf(h) == cmd[<<h, 1>>]
Asked(h)   == <<h, hook[h].n>>

\* is_destructive(command), the hook's own list.
HasNeedle(h) == ClassOf(h) \in {"needle", "wide", "stray"}

-----------------------------------------------------------------------------
(* One hook *)

Quit(h, code, alone) ==
  hook' = [hook EXCEPT ![h].at = "exit", ![h].code = code, ![h].alone = alone]

Move(h, at, n) == hook' = [hook EXCEPT ![h].at = at, ![h].n = n]

\* Mutant: the fallback approves whatever it is asked.
FallbackOpen(h) == Quit(h, "approve", TRUE)

\* local_fallback: the hook decides without the daemon.
LocalFallback(h) == Quit(h, IF HasNeedle(h) THEN "deny" ELSE "approve", TRUE)

\* The tool call is read from stdin and the socket looked for.
Start(h) ==
  /\ hook[h].at = "start"
  /\ \/ Quit(h, "config", TRUE)
     \/ socket /\ Move(h, "connect", 1)
     \/ ~socket /\ LocalFallback(h)
  /\ UNCHANGED <<vars, socket>>

\* Mutant: the hook asks once more and again.
RetryForever(h) ==
  Move(h, "connect", IF hook[h].n < Attempts THEN hook[h].n + 1 ELSE Attempts)

\* An attempt failed: 200 ms later the next one, or the fallback.
Retry(h) ==
  \/ /\ hook[h].n < Attempts
     /\ Move(h, "connect", hook[h].n + 1)
  \/ hook[h].n = Attempts /\ LocalFallback(h)

\* The socket is opened and the request sent.
Connect(h) ==
  /\ hook[h].at = "connect"
  /\ Arrive(Asked(h))
  /\ Move(h, "reply", hook[h].n)
  /\ UNCHANGED socket

\* Nobody listens on the socket (any more, or not yet).
ConnectFails(h) ==
  /\ hook[h].at = "connect"
  /\ ~up
  /\ Retry(h)
  /\ UNCHANGED <<vars, socket>>

\* Mutant: a denial is an error like any other.
ReadReplyLenient(h) ==
  LET r == reply[Asked(h)]
  IN /\ hook[h].at = "reply" /\ pc[Asked(h)] = "done"
     /\ \/ r.verdict = "approve" /\ Quit(h, "approve", FALSE)
        \/ (r.verdict = "deny" \/ r.reason = "http_500") /\ Retry(h)
        \/ r.reason = "eof" /\ Quit(h, "protocol", FALSE)
     /\ UNCHANGED <<vars, socket>>

\* Mutant: the hook does not wait for the whole response.
ReadReplyEarly(h) ==
  LET r == reply[Asked(h)]
  IN /\ hook[h].at = "reply"
     /\ \/ r.verdict \in Verdict /\ Quit(h, r.verdict, FALSE)
        \/ r.verdict = "none" /\ Retry(h)
     /\ UNCHANGED <<vars, socket>>

\* parse_response: a verdict; a status of 400 or more, which is tried again; a
\* connection that ended without a response, which is a protocol error.  One that
\* the daemon's end reset before it read the request is an I/O error: tried again.
ReadReply(h) ==
  LET r == reply[Asked(h)]
  IN /\ hook[h].at = "reply" /\ pc[Asked(h)] = "done"
     /\ \/ r.verdict \in Verdict /\ Quit(h, r.verdict, FALSE)
        \/ r.reason = "http_500" /\ Retry(h)
        \/ r.reason = "eof" /\ Quit(h, "protocol", FALSE)
        \/ r.reason = "eof" /\ permId[Asked(h)] = NoId /\ Retry(h)
     /\ UNCHANGED <<vars, socket>>

HookStep(h) == Start(h) \/ Connect(h) \/ ConnectFails(h) \/ ReadReply(h)

-----------------------------------------------------------------------------
(* The daemon *)

\* The process ends.  Replies that were not on the wire yet are lost with it;
\* only an orderly end removes the socket file.
Die ==
  /\ Crash
  /\ socket' \in {socket, FALSE}
  /\ \E lost \in SUBSET {h \in Hook : hook[h].at = "reply"} :
       hook' = [h \in Hook |->
                  IF h \in lost THEN [hook[h] EXCEPT !.at = "exit", !.code = "protocol"]
                  ELSE hook[h]]

\* The daemon starts again and binds its socket anew.
ComeBack ==
  /\ Restart
  /\ socket' = TRUE
  /\ UNCHANGED hook

Work == Proceed /\ UNCHANGED hookVars

HookNext == (\E h \in Hook : HookStep(h)) \/ Work \/ Die \/ ComeBack

\* The hook's own steps are one thread; the daemon is fair as in PermCheck.
HookFairness ==
  /\ \A h \in Hook : WF_allVars(HookStep(h))
  /\ \A c \in Check : WF_allVars(CheckStep(c) /\ UNCHANGED hookVars)
                      /\ WF_allVars(Elapse(c) /\ UNCHANGED hookVars)
  /\ \A r \in Resolver : WF_allVars(ResolverStep(r) /\ UNCHANGED hookVars)

HookSafety == HookInit /\ [][HookNext]_allVars
HookSpec == HookSafety /\ HookFairness

-----------------------------------------------------------------------------
(* Properties *)

HookTypeOK == hook \in [Hook -> HookType] /\ socket \in BOOLEAN

\* A gated command with a needle of both lists is let through only by an
\* approval that the state actor accepted for a perm of this very tool call,
\* whatever the daemon does meanwhile (local_fallback, is_cached_destructive).
NeedleNeedsApproval ==
  \A h \in Hook :
    hook[h].code = "approve" /\ ClassOf(h) = "needle"
      => \E n \in 1 .. Attempts :
           permId[<<h, n>>] # NoId /\ "approve" \in accepted[permId[<<h, n>>]]

\* A hook decides by itself only when no attempt was ever given a verdict: a
\* verdict of the daemon is not overruled by a retry or by the fallback.
FallbackOnlyUnanswered ==
  \A h \in Hook :
    hook[h].at = "exit" /\ hook[h].alone
      => \A n \in 1 .. Attempts : reply[<<h, n>>].verdict = "none"

\* The daemon works for one attempt of a tool call at a time: a retry never
\* leaves an earlier request waiting for the owner beside it.
OneAttemptAtATime ==
  \A h \in Hook, n \in 1 .. Attempts, k \in 1 .. Attempts :
    pc[<<h, n>>] \in Live /\ pc[<<h, k>>] \in Live => n = k

\* Every tool call is decided in the end, daemon or not.
HookEnds == \A h \in Hook : <>(hook[h].at = "exit")

\* A command of a rule with the destructive flag is not approved by a hook
\* that finds the daemon down.
FlagDeniesWhenDown ==
  \A h \in Hook :
    hook[h].alone /\ ClassOf(h) = "flagged" => hook[h].code # "approve"
=============================================================================
