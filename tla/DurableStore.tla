---------------------------- MODULE DurableStore ----------------------------
(***************************************************************************)
(* What the state actor promises its callers: a call takes effect at one   *)
(* moment between its start and its end, on the value every reader sees,   *)
(* and what was acknowledged survives the end of the process and of the    *)
(* machine.  `may' holds the values such an end may bring back: more than  *)
(* one while a write is under way or after one has failed.                 *)
(***************************************************************************)
EXTENDS StateCommands

CONSTANTS Caller, Commands

VARIABLES
  value,         \* what readers see
  may,           \* what a crash may leave
  client         \* the last call of each caller

vars == <<value, may, client>>

Acknowledged == {"ok", "won"}

Init ==
  /\ value \in State
  /\ may = {value}
  /\ client = [k \in Caller |-> [at |-> "idle", cmd |-> <<>>, out |-> "none"]]

Ask(k) ==
  /\ client[k].at = "idle"
  /\ \E c \in Commands :
       client' = [client EXCEPT ![k] = [at |-> "asked", cmd |-> c, out |-> "none"]]
  /\ UNCHANGED <<value, may>>

\* The call takes effect; from now on a crash may leave the new value.
Apply(k) ==
  LET c == client[k].cmd
  IN /\ client[k].at = "asked"
     /\ value' = After(c, value)
     /\ client' = [client EXCEPT ![k] = [at |-> "applied", cmd |-> c, out |-> Outcome(c, value)]]
     /\ may' \in (SUBSET (may \cup {value'})) \ {{}}

\* Less is in doubt, or a write has failed.
Settle ==
  /\ may' \in (SUBSET may) \ {{}}
  /\ \/ UNCHANGED client
     \/ \E k \in Caller : /\ client[k].at = "applied"
                          /\ client' = [client EXCEPT ![k].out = "error"]
  /\ UNCHANGED value

\* The caller is answered; an acknowledgement means that nothing is in doubt.
Answer(k) ==
  /\ client[k].at = "applied"
  /\ client[k].out \in Acknowledged => may = {value}
  /\ client' = [client EXCEPT ![k].at = "idle"]
  /\ UNCHANGED <<value, may>>

\* Process or machine end: calls that were not answered have no answer.
Crash ==
  /\ value' \in may
  /\ may' \in SUBSET may
  /\ value' \in may'
  /\ client' = [k \in Caller |-> IF client[k].at = "idle" THEN client[k]
                                 ELSE [at |-> "idle", cmd |-> client[k].cmd, out |-> "lost"]]

Next == (\E k \in Caller : Ask(k) \/ Apply(k) \/ Answer(k)) \/ Settle \/ Crash

Spec == Init /\ [][Next]_vars
=============================================================================
