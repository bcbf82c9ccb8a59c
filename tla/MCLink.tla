------------------------------- MODULE MCLink -------------------------------
(* A network of 4 addresses that crosses the end of the address space, and  *)
(* the daemons of other networks on the same link.                          *)
EXTENDS Link

Daemon(id, layout, order) == [node_id |-> id, layout |-> layout, order |-> order]

Here == Configure(254, 6, 1)

Receiver == Daemon(1, Here, "little")

Neighbours ==
  {Daemon(2, Here, "little"),
   Daemon(3, Here, "big"),
   Daemon(4, Configure(254, 6, 0), "little"),
   Daemon(5, Configure(254, 7, 1), "little"),
   Daemon(6, Configure(252, 6, 1), "little")}
=============================================================================
