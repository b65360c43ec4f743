-------------------------------- MODULE PrpcApp --------------------------------
(***************************************************************************)
(* The RPC application: prpc.js, the programs prpc-server.js and           *)
(* prpc-client.js, and the remote objects under app/.  pomelo-rpc is       *)
(* external: client.start calls back on the next tick, before the event    *)
(* loop takes connections; a call to a server that does not listen calls   *)
(* back with an error.                                                     *)
(***************************************************************************)
EXTENDS FiniteSets, Naturals

CONSTANTS Clients,    \* processes that run prpc-client.js
          Config      \* servers.json: the servers of each type

ServerTypes == {"connector", "data"}
Host == "prpc-server"
Processes == Clients \cup {Host}

ASSUME PrpcAssumption ==
    /\ Host \notin Clients
    /\ DOMAIN Config = ServerTypes
    /\ \A t \in ServerTypes : Config[t] # {}
    /\ Config["connector"] \cap Config["data"] = {}

ServerIds == Config["connector"] \cup Config["data"]

VARIABLES
    begun,       \* processes whose main program has run
    listening,   \* servers that accept calls
    starting,    \* [process -> types whose client.start has not called back]
    rpc,         \* app.rpc of each process: the types it has proxies for
    calls,       \* calls on their way: of whom, what, to which server
    results,     \* callbacks on their way to the clients: of whom, what, without error?
    said         \* what each client has logged

prpcVars == <<begun, listening, starting, rpc, calls, results, said>>

Methods == {"login", "friends", "db.friends"}
Call == [by : Clients, method : Methods, to : ServerIds]
Result == [by : Clients, method : {"login", "friends"}, ok : BOOLEAN]

PrpcTypeOK ==
    /\ begun \subseteq Processes
    /\ listening \subseteq ServerIds
    /\ starting \in [Processes -> SUBSET ServerTypes]
    /\ rpc \in [Processes -> SUBSET ServerTypes]
    /\ calls \subseteq Call
    /\ results \subseteq Result
    /\ said \in [Clients -> SUBSET {"logged in", "friends"}]

PrpcInit ==
    /\ begun = {} /\ listening = {}
    /\ starting = [p \in Processes |-> {}]
    /\ rpc = [p \in Processes |-> {}]
    /\ calls = {} /\ results = {}
    /\ said = [k \in Clients |-> {}]

-----------------------------------------------------------------------------
\* The router picks any server of the type; cb(null, serverId).
Route(type) == Config[type]

\* registerClient, up to client.start.
RegisterClient(p, type) ==
    starting' = [starting EXCEPT ![p] = @ \cup {type}]

\* client.start has called back.
AddProxies(p, type) == rpc' = [rpc EXCEPT ![p] = @ \cup {type}]

\* Fault: the process does not register as a client of the data servers.
RunServerAlone ==
    /\ Host \notin begun
    /\ begun' = begun \cup {Host}
    /\ UNCHANGED <<starting, listening, rpc, calls, results, said>>

\* prpc-server.js: registerServer creates and starts every server of the
\* configuration, and then the process registers as a client of the data servers.
RunServer ==
    /\ Host \notin begun
    /\ begun' = begun \cup {Host}
    /\ RegisterClient(Host, "data")
    /\ UNCHANGED <<listening, rpc, calls, results, said>>

ServerStarted ==
    /\ "data" \in starting[Host]
    /\ starting' = [starting EXCEPT ![Host] = @ \ {"data"}]
    /\ AddProxies(Host, "data")
    /\ UNCHANGED <<begun, listening, calls, results, said>>

\* startServer's app.server.start(): a server listens once the loop turns.
StartServer(s) ==
    /\ Host \in begun
    /\ starting[Host] = {}
    /\ s \notin listening
    /\ listening' = listening \cup {s}
    /\ UNCHANGED <<begun, starting, rpc, calls, results, said>>

\* prpc-client.js.
RunClient(k) ==
    /\ k \notin begun
    /\ begun' = begun \cup {k}
    /\ RegisterClient(k, "connector")
    /\ UNCHANGED <<listening, rpc, calls, results, said>>

\* The callback given to registerClient logs in.
ClientStarted(k) ==
    /\ "connector" \in starting[k]
    /\ starting' = [starting EXCEPT ![k] = {}]
    /\ AddProxies(k, "connector")
    /\ \E s \in Route("connector") :
          calls' = calls \cup {[by |-> k, method |-> "login", to |-> s]}
    /\ UNCHANGED <<begun, listening, results, said>>

\* Fault: friends is asked for only after a login without error.
LoginResultIfOk(r) ==
    /\ said' = [said EXCEPT ![r.by] = @ \cup {"logged in"}]
    /\ \/ ~r.ok /\ UNCHANGED calls
       \/ /\ r.ok
          /\ \E s \in Route("connector") :
                calls' = calls \cup {[by |-> r.by, method |-> "friends", to |-> s]}

\* The callbacks of prpc-client.js do not look at err.
LoginResult(r) ==
    /\ said' = [said EXCEPT ![r.by] = @ \cup {"logged in"}]
    /\ \E s \in Route("connector") :
          calls' = calls \cup {[by |-> r.by, method |-> "friends", to |-> s]}

FriendsResult(r) ==
    /\ said' = [said EXCEPT ![r.by] = @ \cup {"friends"}]
    /\ UNCHANGED calls

TakeResult(r) ==
    /\ r \in results
    /\ results' = results \ {r}
    /\ \/ r.method = "login" /\ LoginResult(r)
       \/ r.method = "friends" /\ FriendsResult(r)
    /\ UNCHANGED <<begun, listening, starting, rpc>>

\* Fault: the data server's error goes to the client by itself.
FailPastServer(q) ==
    /\ q \in calls
    /\ q.to \notin listening
    /\ calls' = calls \ {q}
    /\ results' = results \cup {[by |-> q.by, ok |-> FALSE, method |-> q.method]}
    /\ UNCHANGED <<begun, listening, starting, rpc, said>>

\* A call fails when nobody listens at its server; connector/user.js hands the error
\* of the data server on to its own caller.
Fail(q) ==
    /\ q \in calls
    /\ q.to \notin listening
    /\ calls' = calls \ {q}
    /\ results' = results \cup {[by |-> q.by, ok |-> FALSE,
                                 method |-> IF q.method = "login" THEN "login" ELSE "friends"]}
    /\ UNCHANGED <<begun, listening, starting, rpc, said>>

\* connector/user.js and data/db.js.  friends uses app.rpc.data: without it the call
\* would throw; ProxyBeforeUse says that this does not happen.
Serve(q) ==
    /\ q \in calls
    /\ q.to \in listening
    /\ \/ /\ q.method = "login"
          /\ calls' = calls \ {q}
          /\ results' = results \cup {[by |-> q.by, method |-> "login", ok |-> TRUE]}
       \/ /\ q.method = "friends" /\ "data" \in rpc[Host]
          /\ \E s \in Route("data") :
                calls' = (calls \ {q}) \cup {[by |-> q.by, method |-> "db.friends", to |-> s]}
          /\ UNCHANGED results
       \/ /\ q.method = "db.friends"
          /\ calls' = calls \ {q}
          /\ results' = results \cup {[by |-> q.by, method |-> "friends", ok |-> TRUE]}
    /\ UNCHANGED <<begun, listening, starting, rpc, said>>

Progress ==
    \/ ServerStarted
    \/ \E s \in ServerIds : StartServer(s)
    \/ \E k \in Clients : ClientStarted(k)
    \/ \E r \in results : TakeResult(r)
    \/ \E q \in calls : Fail(q) \/ Serve(q)

PrpcNext == RunServer \/ (\E k \in Clients : RunClient(k)) \/ Progress

PrpcSpec == PrpcInit /\ [][PrpcNext]_prpcVars

\* Callbacks and calls that are due are taken; nobody has to start a program.
PrpcFairSpec == PrpcSpec /\ WF_prpcVars(Progress)

-----------------------------------------------------------------------------
(* Properties. *)

\* connector/user.js finds app.rpc.data when it is asked for friends: the proxies are
\* there before any server takes a call.
ProxyBeforeUse ==
    \A q \in calls : q.method = "friends" /\ q.to \in listening => "data" \in rpc[Host]

\* Every prpc-client.js that has started gets to the end of its callbacks, whichever
\* servers are up, down or come up in between.
CallsEnd == \A k \in Clients : "connector" \in rpc[k] ~> "friends" \in said[k]
=============================================================================
