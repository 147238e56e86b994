---------------------------- MODULE ConnectionApi ----------------------------
(***************************************************************************)
(* The platform API for the status of a connection and for dropping it.    *)
(* The worker that gets a request looks into its own pool and otherwise    *)
(* asks the master, which polls the other workers one after another        *)
(* (ConnectionDataUtilInWorker, ForwardGetStatusIpcMessage,                *)
(* ForwardDropConnectionIpcMessage and the two handlers in the workers).   *)
(* Question and answers all travel under the id of the request, and a      *)
(* message nobody waits for is taken for a question.                       *)
(***************************************************************************)
EXTENDS ClientConnections, Sequences

CONSTANTS
    Requests, \* requests of the API
    MaxExits  \* bound: workers that die

ASSUME ConnectionApiAssumption == MaxExits \in Nat

VARIABLES
    request, \* [kind, id, at, state] of a request
    up,      \* worker to the messages on their way to the master
    down,    \* worker to the messages on their way from the master
    task,    \* request to the poll of the master
    late,    \* requests of which a timer has run out (history)
    there    \* request to the connections with its id that have been in a
             \* pool ever since it came (history)

apiVars == <<request, up, down, task, late, there>>

NoTask == [origin |-> 0, todo |-> {}, asks |-> 0]

ConnectionApiInit ==
    /\ ConnectionsInit
    /\ request = [r \in Requests |-> [kind |-> "status", id |-> NoOne, at |-> 0, state |-> "none"]]
    /\ up = [w \in Workers |-> <<>>]
    /\ down = [w \in Workers |-> <<>>]
    /\ task = [r \in Requests |-> NoTask]
    /\ late = {}
    /\ there = [r \in Requests |-> {}]

(* A message says "asked", or what was found out: "found" or "missing". *)
Message(r, says) == [of |-> r, says |-> says]

Registered(k) == {byId[w][k] : w \in Workers} \ {NoOne}

Still(r) == {s \in there[r] : \E w \in Workers : byId'[w][request'[r].id] = s}
StillThere == there' = [r \in Requests |-> Still(r)]

(* A request to drop the connection closes it, if there is one. *)
Drops(kind, s) ==
    IF kind = "drop" /\ s # NoOne
    THEN CloseConnection(s) ELSE UNCHANGED <<handshakeVars, poolVars>>

(***************************************************************************)
(* The worker with the request.                                            *)
(***************************************************************************)
Ask(r, w, kind, k) ==
    LET found == getConnectionById(w, k) IN
    /\ request[r].state = "none"
    /\ w \in alive
    /\ request' = [request EXCEPT ![r] =
           [kind |-> kind, id |-> k, at |-> w,
            state |-> IF found # NoOne THEN "found" ELSE "waiting"]]
    /\ Drops(kind, found)
    /\ up' = IF found # NoOne THEN up
             ELSE [up EXCEPT ![w] = Append(@, Message(r, "asked"))]
    /\ there' = [q \in Requests |->
           IF q = r THEN Registered(k) \ {found} ELSE Still(q)]
    /\ UNCHANGED <<alive, down, task, late>>

OriginTimeout(r) ==
    /\ request[r].state = "waiting"
    /\ request' = [request EXCEPT ![r].state = "failed"]
    /\ late' = late \cup {r}
    /\ UNCHANGED <<connectionVars, up, down, task, there>>

(***************************************************************************)
(* The master.                                                             *)
(***************************************************************************)
AnyAnswer(r, says) == says = "found" \/ request[r].kind = "status"

(* A status of null is a status as well. *)
Meaningful(r, says) ==
    says = "found" \/ (says = "missing" /\ request[r].kind = "status")

(* The guards of the modules take it for a question if it validates as one: *)
(* an answer about a drop does; one about a status has a key of which the   *)
(* validator (of ugd10a) does not know, and is ignored or not.              *)
Ignorable(m) == request[m.of].kind = "status" /\ m.says # "asked"

(* The poll goes on with the next worker, and ends with a failure when there *)
(* is none; a worker that has died has no messenger, and the poll throws.    *)
Poll(r, origin, todo, m) ==
    \/ \E w \in todo :
          /\ \A v \in todo : w <= v
          /\ \/ /\ w \in alive
                /\ task' = [task EXCEPT ![r] =
                       [origin |-> origin, todo |-> todo \ {w}, asks |-> w]]
                /\ down' = [down EXCEPT ![w] = Append(@, m)]
             \/ /\ w \notin alive
                /\ task' = [task EXCEPT ![r] = NoTask]
                /\ UNCHANGED down
    \/ /\ todo = {}
       /\ task' = [task EXCEPT ![r] = NoTask]
       /\ down' = IF origin \in alive
                  THEN [down EXCEPT ![origin] = Append(@, Message(r, "missing"))]
                  ELSE down

Winner(r, origin, m) ==
    /\ task' = [task EXCEPT ![r] = NoTask]
    /\ down' = IF origin \in alive THEN [down EXCEPT ![origin] = Append(@, m)] ELSE down

(* Mutant of Others: the worker with the request is polled as well. *)
Everyone(w) == alive

Others(w) == alive \ {w}

MasterReceives(w) ==
    /\ up[w] # <<>>
    /\ up' = [up EXCEPT ![w] = Tail(@)]
    /\ LET m == Head(up[w])
           poll == task[m.of]
       IN \/ /\ poll.asks = w
             /\ IF Meaningful(m.of, m.says) THEN Winner(m.of, poll.origin, m)
                ELSE Poll(m.of, poll.origin, poll.todo, Message(m.of, "asked"))
          \/ /\ poll.asks # w
             /\ Poll(m.of, w, Others(w), m)
          \/ /\ poll.asks # w /\ Ignorable(m)
             /\ UNCHANGED <<task, down>>
    /\ UNCHANGED <<connectionVars, request, late, there>>

MasterTimeout(r) ==
    /\ task[r] # NoTask
    /\ task' = [task EXCEPT ![r] = NoTask]
    /\ late' = late \cup {r}
    /\ UNCHANGED <<connectionVars, request, up, down, there>>

(***************************************************************************)
(* A worker that gets a message: the answer to its own request, or what it *)
(* takes for a question.                                                   *)
(***************************************************************************)
WorkerReceives(w) ==
    /\ down[w] # <<>>
    /\ down' = [down EXCEPT ![w] = Tail(@)]
    /\ LET m == Head(down[w])
           r == m.of
           found == getConnectionById(w, request[r].id)
       IN \/ /\ request[r].at = w /\ request[r].state = "waiting"
             /\ request' = [request EXCEPT ![r].state =
                    IF m.says = "found" THEN "found" ELSE "missing"]
             /\ UNCHANGED <<up, handshakeVars, poolVars>>
          \/ /\ request[r].at # w \/ request[r].state # "waiting"
             /\ Drops(request[r].kind, found)
             /\ up' = [up EXCEPT ![w] =
                    Append(@, IF found # NoOne THEN Message(r, "found") ELSE m)]
             /\ UNCHANGED request
          \/ /\ request[r].at # w \/ request[r].state # "waiting"
             /\ Ignorable(m)
             /\ UNCHANGED <<up, request, handshakeVars, poolVars>>
    /\ StillThere
    /\ UNCHANGED <<alive, task, late>>

(***************************************************************************)
(* What else happens to the connections.                                   *)
(***************************************************************************)
ConnectionStep ==
    /\ \E s \in Sockets :
          \/ Handshake(s)
          \/ CloseConnection(s) /\ UNCHANGED alive
    /\ UNCHANGED <<request, up, down, task, late>>
    /\ StillThere

(* What the worker has sent still reaches the master. *)
WorkerExit(w) ==
    /\ Cardinality(Workers \ alive) < MaxExits
    /\ WorkerDies(w)
    /\ down' = [down EXCEPT ![w] = <<>>]
    /\ request' = [r \in Requests |->
           IF request[r].at = w /\ request[r].state = "waiting"
           THEN [request[r] EXCEPT !.state = "failed"] ELSE request[r]]
    /\ StillThere
    /\ UNCHANGED <<up, task, late>>

ConnectionApiNext ==
    \/ ConnectionStep
    \/ \E r \in Requests :
          \/ OriginTimeout(r)
          \/ MasterTimeout(r)
          \/ \E w \in Workers, kind \in {"status", "drop"}, k \in Keys : Ask(r, w, kind, k)
    \/ \E w \in Workers : MasterReceives(w) \/ WorkerReceives(w) \/ WorkerExit(w)

ConnectionApiSpec == ConnectionApiInit /\ [][ConnectionApiNext]_<<connectionVars, apiVars>>

(***************************************************************************)
(* Properties.                                                             *)
(***************************************************************************)
(* "Not found" is said in time only of a connection that no pool has had by *)
(* that id from the request to the answer.                                  *)
TruthfulAnswer ==
    \A r \in Requests : request[r].state = "missing" /\ r \notin late => there[r] = {}

InFlight(r) ==
    LET Of(queue) == {i \in 1 .. Len(queue) : queue[i].of = r} IN
    (UNION {{w} \X Of(up[w]) : w \in Workers})
        \cup (UNION {{0 - w} \X Of(down[w]) : w \in Workers})

(* A request is one conversation: never two messages of it at a time, and   *)
(* while the master polls, only one with the worker it asks.  When it has   *)
(* been answered without a timer of it running out, nothing of it is left   *)
(* that anybody could take for a question.  (After a timeout the late       *)
(* answer is asked again, for ever if nobody dies.)                         *)
EchoOnlyAfterTimeout ==
    \A r \in Requests :
        /\ Cardinality(InFlight(r)) <= 1
        /\ task[r] # NoTask => \A p \in InFlight(r) : p[1] \in {task[r].asks, 0 - task[r].asks}
        /\ request[r].state \in {"found", "missing"} /\ r \notin late =>
              InFlight(r) = {} /\ task[r] = NoTask
==============================================================================
