------------------------------- MODULE MCProbe -------------------------------
(* Three callers, one with a deadline, before four servers: one that is not*)
(* supported, one without privileges of its own, one that grants its user  *)
(* everything and is read by a reader, and one that grants part of the     *)
(* graph to a user with more roles than that.                              *)
EXTENDS Probe

Server(l, e, g, r) == [line |-> l, edition |-> e, grants |-> g, roles |-> r]

SomeServers ==
  {Server("legacy", "community", "scoped", "more"), Server("5", "community", "scoped", "more"),
   Server("calendar", "enterprise", "full", "reader"), Server("5", "enterprise", "scoped", "more")}
==============================================================================
