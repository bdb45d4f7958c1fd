------------------------------ MODULE MCProcess ------------------------------
(* Process on a small instance, and what the comments of the code say of it. *)
EXTENDS Process

(* main.cpp:129, "now there are two apps": both get started. *)
BothAppsStart == <>(app2 # NoProc /\ boot = "loop")

=============================================================================
