------------------------------ MODULE Delivery ------------------------------
(***************************************************************************)
(* What the chats promise of a message, whatever handlers, tasks, locks,   *)
(* buttons and restarts are behind it: it comes to one place and once.  An *)
(* agent is given it, or it is put at the end of the inbox it was addressed*)
(* to, which keeps all it had, and at that very moment its chat is told;   *)
(* or it comes to nothing, and then its chat was told nothing.  A message  *)
(* without an address goes to no agent but the lead its chat had set.      *)
(* Chat implements this specification.                                     *)
(***************************************************************************)
EXTENDS Integers, Sequences

CONSTANTS
  Inbox,        \* the inboxes
  None          \* the lead of a chat that has set none

VARIABLES
  sent,         \* the messages, each with its inbox (to) and the lead of its chat
  heard,        \* what agents were given: the message, the agent, and whether it
                \* was plain, that is without an address
  inbox,        \* inbox -> the messages in it, the oldest first
  told          \* the messages whose chats were told that they are in an inbox

deliveryVars == <<sent, heard, inbox, told>>

Init == sent = <<>> /\ heard = {} /\ inbox = [b \in Inbox |-> <<>>] /\ told = {}

\* The message is there, and came to no place yet.
Open(m) == m \in DOMAIN sent /\ m \notin told /\ \A x \in heard : x.msg # m

Send ==
  /\ Len(sent') = Len(sent) + 1 /\ \A m \in DOMAIN sent : sent'[m] = sent[m]
  /\ UNCHANGED <<heard, inbox, told>>

\* An agent is given the message.
Hear(x) ==
  /\ Open(x.msg) /\ heard' = heard \cup {x}
  /\ x.plain /\ sent[x.msg].lead # None => x.agent = sent[x.msg].lead
  /\ UNCHANGED <<sent, inbox, told>>

\* The message is in the inbox it names, behind all the others, and its chat is told.
Put(m) ==
  /\ Open(m) /\ sent[m].to \in Inbox
  /\ inbox' = [inbox EXCEPT ![sent[m].to] = Append(@, m)] /\ told' = told \cup {m}
  /\ UNCHANGED <<sent, heard>>

Next == Send \/ (\E x \in heard' : Hear(x)) \/ (\E m \in told' : Put(m))

Spec == Init /\ [][Next]_deliveryVars
=============================================================================
