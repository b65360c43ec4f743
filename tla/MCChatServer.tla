----------------------------- MODULE MCChatServer -----------------------------
(* Every server of ChatServer with three connections and three uids for TLC: the *)
(* third connection sees what two of one uid do to each other.  Where several    *)
(* client programs fit a server, all that differ meet on it.                   *)
EXTENDS ChatServer, TLC

CONSTANTS c1, c2, c3, u1, u2, u3

Everywhere(p) == [c \in Conns |-> {p}]
Mixed(ps, qs, rs) == (c1 :> ps) @@ (c2 :> qs) @@ (c3 :> rs)

ClientPrograms ==
    [tcp |-> Everywhere("tcp-client"),
     ws |-> Mixed({"ws-client"}, {"ws-client", "ws-client2"}, {"ws-client2"}),
     wsn |-> Mixed({"wsn-client"}, {"wsn-w3c-client", "ws-client2"},
                   {"wsn-client", "ws-client2"}),
     protobuf |-> Everywhere("protobuf-client"),
     sio |-> Everywhere("sio-client"),
     wsd |-> Everywhere("ws-client")]

Symmetry == Permutations({u1, u2, u3})
===============================================================================
