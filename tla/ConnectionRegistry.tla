-------------------------- MODULE ConnectionRegistry --------------------------
(***************************************************************************)
(* What AsyncSocketServer promises its users about connections, without   *)
(* threads, pools or sockets.  A client comes in at most once per          *)
(* connection identifier: it is online from the moment it can be found by  *)
(* its identifier until it is retired, and what has been retired or        *)
(* refused never comes back.  At most Capacity clients are online.         *)
(***************************************************************************)
EXTENDS Naturals, FiniteSets

CONSTANTS Clients,  \* the connections ever attempted, one identifier each
          Capacity  \* maxConnections

VARIABLES online,   \* clients that IsOnline(connectionId) reports
          over      \* clients whose connection is over

registryVars == <<online, over>>

Init == online = {} /\ over = {}

Admit(c) ==
    /\ c \notin online \cup over
    /\ Cardinality(online) < Capacity
    /\ online' = online \cup {c}
    /\ UNCHANGED over

Refuse(c) ==
    /\ c \notin online \cup over
    /\ over' = over \cup {c}
    /\ UNCHANGED online

Retire(c) ==
    /\ c \in online
    /\ online' = online \ {c}
    /\ over' = over \cup {c}

Next == \E c \in Clients : Admit(c) \/ Refuse(c) \/ Retire(c)

Spec == Init /\ [][Next]_registryVars
===============================================================================
