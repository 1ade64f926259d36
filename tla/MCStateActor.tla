---------------------------- MODULE MCStateActor ----------------------------
(* StateActor for TLC. *)
EXTENDS StateActor, TLC

CONSTANTS perm, approval, k1, k2, k3

Deciders ==
  [op : {"resolve"}, slot : {perm}, val : {"approved", "denied"}]
    \cup [op : {"expire"}, slot : {perm}, val : {"timedout"}]
    \cup [op : {"insert"}, slot : {approval}, val : {"open"}]

\* Every kind of command.
Each ==
  [op : {"put"}, slot : {perm}, val : {"open"}]
    \cup [op : {"set", "resolve"}, slot : {perm}, val : {"approved"}]
    \cup [op : {"expire", "clear"}, slot : {perm}, val : {"none"}]
    \cup [op : {"insert"}, slot : {perm}, val : {"open"}]
=============================================================================
