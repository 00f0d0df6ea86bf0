------------------------------ MODULE MCServer ------------------------------
(* Instances of Server for TLC.  Clients are numbered in the order in      *)
(* which they connect, so there is no symmetry left to declare, and        *)
(* liveness can be checked.                                                *)
EXTENDS Server

OneLineEach == [c \in Clients |-> 1]

\* The client that connects first may send a command and then EXIT, or EXIT
\* again after it failed; the last one only connects.
FewerAndFewer == [c \in Clients |-> ClientCount - c]
=============================================================================
