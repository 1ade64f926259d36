----------------------------- MODULE MCGateFiles ----------------------------
(* GateFiles for TLC. *)
EXTENDS GateFiles

CONSTANTS machine, repo, p, q, t1, t2

Strict == [pattern |-> p, destructive |-> TRUE]
Loose  == [pattern |-> p, destructive |-> FALSE]
Other  == [pattern |-> q, destructive |-> TRUE]

Edits  == [kind : {"add", "remove"}, gate : {machine, repo}, rule : {Strict}]
            \cup [kind : {"add"}, gate : {machine}, rule : {Loose}]
            \cup [kind : {"add"}, gate : {repo}, rule : {Other}]
Keys   == [kind : {"init", "rotate"}, gate : {machine}]
Adds   == [kind : {"add"}, gate : {machine, repo}, rule : {Strict, Other}]
All    == Edits \cup Keys
Alone  == [kind : {"add"}, gate : {machine}, rule : {Strict}]
            \cup [kind : {"rotate"}, gate : {machine}]
=============================================================================
