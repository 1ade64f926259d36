----------------------------- MODULE MCRunner -------------------------------
EXTENDS AgentRunner
CONSTANTS c1, c2, c3
InFile == <<c1, c2, c3>>
Small  == {[requests |-> {1, 2}, events |-> 1, rotations |-> 0],
           [requests |-> {1}, events |-> 1, rotations |-> 1]}
Pair   == <<c1, c2>>
TwoMessages == {[requests |-> {1, 2}, events |-> 0, rotations |-> 0]}
Costs  == [quota |-> 2, rate |-> 1]
=============================================================================
