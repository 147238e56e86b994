-------------------------- MODULE ClientConnections --------------------------
(***************************************************************************)
(* How a socket becomes a client connection, and the pool of a worker's    *)
(* connections.  The handshake (ValidateNewWebsocket and its commands) is  *)
(* checked and answered step by step, with other handshakes in between     *)
(* wherever it awaits something; a connection that is established is       *)
(* registered in three maps of its worker's ClientConnectionPool and taken *)
(* out of them when it begins to close.  All are of one context.           *)
(***************************************************************************)
EXTENDS Integers, FiniteSets

CONSTANTS
    Workers,            \* ids of the worker processes
    Sockets,            \* sockets that ask for an upgrade
    Keys,               \* values of sec-websocket-key: the connection ids
    ExternalIds,        \* ids the operator may give in its handshake
    NoOne,              \* no socket, no id
    maxConnectionCount  \* of the context, 0 for no limit

ASSUME ConnectionsAssumption ==
    /\ Workers \subseteq Nat \ {0}
    /\ maxConnectionCount \in Nat
    /\ NoOne \notin Sockets \cup ExternalIds

VARIABLES
    alive,      \* workers that run
    stage,      \* of a socket: "away", "lookup", "counted", "authorized",
                \* "refused", "stuck", "open", "shadow" or "closed"
    home,       \* its worker, 0 before it has one
    key,        \* its connection id
    externalId, \* its external id or NoOne
    byId,       \* pool: worker and id to the connection or NoOne
    byContext,  \* pool: worker to its connections
    byExternal, \* pool: worker and external id to an entry
    before,     \* the connections a socket was counted with (history)
    spoilt      \* ids of which a refused duplicate has closed (history)

handshakeVars == <<stage, home, key, externalId, before>>
poolVars == <<byId, byContext, byExternal, spoilt>>
connectionVars == <<alive, handshakeVars, poolVars>>

(* An entry by external id: nothing, one connection, or a Set of them. *)
NoEntry == [isSet |-> FALSE, members |-> {}]

ConnectionsInit ==
    /\ alive = Workers
    /\ stage = [s \in Sockets |-> "away"]
    /\ home = [s \in Sockets |-> 0]
    /\ key \in [Sockets -> Keys]
    /\ externalId = [s \in Sockets |-> NoOne]
    /\ byId = [w \in Workers |-> [k \in Keys |-> NoOne]]
    /\ byContext = [w \in Workers |-> {}]
    /\ byExternal = [w \in Workers |-> [x \in ExternalIds |-> NoEntry]]
    /\ before = [s \in Sockets |-> {}]
    /\ spoilt = {}

(***************************************************************************)
(* The pool.                                                               *)
(***************************************************************************)
ReplacedEntry(entry, s) == [isSet |-> FALSE, members |-> {s}]

WithExternal(entry, s) ==
    [isSet |-> entry.members # {}, members |-> entry.members \cup {s}]

(* A duplicate id is refused when its listeners are already attached: its   *)
(* connection is open, but not registered.                                  *)
registerConnection(s, w, x) ==
    IF byId[w][key[s]] # NoOne
    THEN /\ stage' = [stage EXCEPT ![s] = "shadow"]
         /\ UNCHANGED poolVars
    ELSE /\ stage' = [stage EXCEPT ![s] = "open"]
         /\ byId' = [byId EXCEPT ![w][key[s]] = s]
         /\ byContext' = [byContext EXCEPT ![w] = @ \cup {s}]
         /\ byExternal' = IF x = NoOne THEN byExternal
                          ELSE [byExternal EXCEPT ![w][x] = WithExternal(@, s)]
         /\ UNCHANGED spoilt

(* The last of a Set takes the entry with it, and so does whoever closes    *)
(* while the entry is not a Set.                                            *)
WithoutExternal(entry, s) ==
    IF ~entry.isSet \/ Cardinality(entry.members) = 1 THEN NoEntry
    ELSE [entry EXCEPT !.members = @ \ {s}]

(* When nobody of the context is left in the second map, its look-up throws *)
(* and the third map is not reached.                                        *)
removeConnection(s, w) ==
    /\ byId' = [byId EXCEPT ![w][key[s]] = NoOne]
    /\ byContext' = [byContext EXCEPT ![w] = @ \ {s}]
    /\ byExternal' = IF byContext[w] = {} \/ externalId[s] = NoOne THEN byExternal
                     ELSE [byExternal EXCEPT
                              ![w][externalId[s]] = WithoutExternal(@, s)]
    /\ spoilt' = IF stage[s] = "shadow"
                 THEN spoilt \cup {<<w, key[s]>>, <<w, externalId[s]>>} ELSE spoilt

getConnectionById(w, k) == byId[w][k]
getConnectionsByContext(w) == byContext[w]
getConnectionsByContextAndExternalId(w, x) == byExternal[w][x].members

(***************************************************************************)
(* The handshake.                                                          *)
(***************************************************************************)
(* An upgrade request whose headers are not right is refused; else the      *)
(* context of its url is looked up.                                         *)
ValidateConnectionHeaders(s, w) ==
    /\ stage[s] = "away"
    /\ w \in alive
    /\ home' = [home EXCEPT ![s] = w]
    /\ stage' \in {[stage EXCEPT ![s] = "lookup"], [stage EXCEPT ![s] = "refused"]}
    /\ UNCHANGED <<alive, key, externalId, before, poolVars>>

OneTooMany(s, w) ==
    \/ maxConnectionCount = 0
    \/ Cardinality(getConnectionsByContext(w)) <= maxConnectionCount

validateConnectionCount(s, w) ==
    \/ maxConnectionCount = 0
    \/ Cardinality(getConnectionsByContext(w)) < maxConnectionCount

Refused(s) == stage' = [stage EXCEPT ![s] = "refused"]

(* The context is there or not, and its connections are counted. *)
AuthorizeConnectionContext(s) ==
    /\ stage[s] = "lookup"
    /\ before' = [before EXCEPT ![s] = getConnectionsByContext(home[s])]
    /\ \/ Refused(s)
       \/ /\ validateConnectionCount(s, home[s])
          /\ stage' = [stage EXCEPT ![s] = "counted"]
    /\ UNCHANGED <<alive, home, key, externalId, poolVars>>

(* An operator that is asked answers with an external id, without one or    *)
(* with another status; or cannot be reached, and the handshake never ends. *)
validateWithExternalApi(s) ==
    /\ stage[s] = "counted"
    /\ \/ \E x \in ExternalIds \cup {NoOne} :
             /\ externalId' = [externalId EXCEPT ![s] = x]
             /\ stage' = [stage EXCEPT ![s] = "authorized"]
       \/ /\ Refused(s) \/ stage' = [stage EXCEPT ![s] = "stuck"]
          /\ UNCHANGED externalId
    /\ UNCHANGED <<alive, home, key, before, poolVars>>

(* A socket that has gone ends the handshake; else it is answered and the   *)
(* connection is registered.                                                *)
RespondToHandshake(s) ==
    \/ Refused(s) /\ UNCHANGED poolVars
    \/ registerConnection(s, home[s], externalId[s])

(* So do extensions that cannot be agreed on.  The two last commands touch  *)
(* nothing shared before the registration: they are one step.               *)
PrepareWebsocketExtensions(s) ==
    /\ stage[s] = "authorized"
    /\ \/ Refused(s) /\ UNCHANGED poolVars
       \/ RespondToHandshake(s)
    /\ UNCHANGED <<alive, home, key, externalId, before>>

(***************************************************************************)
(* The end.                                                                *)
(***************************************************************************)
(* The connection begins to close, for whatever reason, and its listener    *)
(* takes it out of the pool.                                                *)
CloseConnection(s) ==
    /\ stage[s] \in {"open", "shadow"}
    /\ stage' = [stage EXCEPT ![s] = "closed"]
    /\ removeConnection(s, home[s])
    /\ UNCHANGED <<home, key, externalId, before>>

(* A worker that dies takes its sockets and its pool with it. *)
WorkerDies(w) ==
    /\ w \in alive
    /\ alive' = alive \ {w}
    /\ stage' = [s \in Sockets |-> IF home[s] = w THEN "closed" ELSE stage[s]]
    /\ byId' = [byId EXCEPT ![w] = [k \in Keys |-> NoOne]]
    /\ byContext' = [byContext EXCEPT ![w] = {}]
    /\ byExternal' = [byExternal EXCEPT ![w] = [x \in ExternalIds |-> NoEntry]]
    /\ UNCHANGED <<home, key, externalId, before, spoilt>>

Handshake(s) ==
    \/ \E w \in Workers : ValidateConnectionHeaders(s, w)
    \/ AuthorizeConnectionContext(s)
    \/ validateWithExternalApi(s)
    \/ PrepareWebsocketExtensions(s)

(***************************************************************************)
(* Properties.                                                             *)
(***************************************************************************)
(* The three maps of a pool hold open connections only, and a connection is *)
(* found by its id, its context and its external id for as long as it is    *)
(* open - unless a refused duplicate of the id, or one with that external   *)
(* id, has closed on that worker and taken the entry with it.               *)
PoolFindsConnections ==
    \A w \in Workers :
        /\ \A k \in Keys : byId[w][k] # NoOne => byId[w][k] \in byContext[w]
        /\ \A x \in ExternalIds : byExternal[w][x].members \subseteq byContext[w]
        /\ byContext[w] = {s \in Sockets : home[s] = w /\ stage[s] = "open"}
        /\ \A s \in byContext[w] :
              /\ <<w, key[s]>> \notin spoilt => getConnectionById(w, key[s]) = s
              /\ externalId[s] # NoOne /\ <<w, externalId[s]>> \notin spoilt =>
                    s \in getConnectionsByContextAndExternalId(w, externalId[s])

(* A worker has more connections than maxConnectionCount only if, of those, *)
(* two were counted each without the other: handshakes that overlapped      *)
(* while the operator was asked or the commands awaited one another.        *)
OverLimitOnlyTogether ==
    \A w \in Workers :
        maxConnectionCount > 0 /\ Cardinality(byContext[w]) > maxConnectionCount =>
            \E s, t \in byContext[w] : s # t /\ s \notin before[t] /\ t \notin before[s]
==============================================================================
