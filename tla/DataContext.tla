------------------------------ MODULE DataContext ------------------------------
(***************************************************************************)
(* The connections and subscriptions of one context in one process:        *)
(* DataContextManager, and DataContextManagerProvider, which loads the     *)
(* context's configuration when the manager is first needed and drops the  *)
(* manager with its last connection.                                       *)
(*                                                                         *)
(* Every command (HandleNewConnection, HandleRemovedConnection,            *)
(* UpdateClientSubscriptions, BroadcastOutgoingMessage) first awaits       *)
(* getContextManager.  Commands that wait for the same load all resume     *)
(* with the manager it made, in the order in which they were dispatched,   *)
(* within one drain of the microtask queue: `resumed` is that queue, and   *)
(* no other event is handled before it is empty, save for the broadcasts   *)
(* that resumed commands dispatch themselves.                              *)
(***************************************************************************)
EXTENDS Naturals, Sequences

CONSTANTS
    Conns,       \* connections of the context
    Channels,    \* channels they subscribe to
    Global,      \* globalMessageChannel: every connection of the context
    MaxManagers, \* bound: managers created
    MaxWaiting   \* bound: commands waiting for one load

ASSUME GlobalAssumption == Global \notin Channels
ASSUME BoundsAssumption == MaxManagers \in Nat /\ MaxWaiting \in Nat

VARIABLES
    conn,     \* conn[c]: "new", "open" (in the pool), "refused" or "removed"
    entity,   \* entities: the current manager, 0 when there is none
    created,  \* number of managers created
    load,     \* entityPromise: "none", "pending", or "failed" (and kept)
    waiting,  \* commands awaiting entityPromise, in order
    resumed,  \* commands that hold a manager and run next, in order
    held,     \* the manager they hold
    members,  \* members[m]: the keys of m.contextChannelsByConnection
    byConnection,    \* byConnection[m]: its pairs <<connection, channel>>
    contextChannels, \* contextChannels[m]: the pairs of the inverse map
    wants,    \* history: the subscriptions dispatched so far
    stranded  \* history: connections whose registration came to nothing

provider == <<entity, created, load, waiting, resumed, held>>
managers == <<members, byConnection, contextChannels>>
vars == <<conn, provider, managers, wants, stranded>>

Managers == 1..MaxManagers

Pairs == Conns \X Channels

Open == {c \in Conns : conn[c] = "open"}

(* The pool listens to c.                                                   *)
Heard(c) == conn[c] \in {"open", "refused"}

(* A dispatched command; `expected` is who should get a broadcast, by the   *)
(* subscriptions dispatched before it.                                      *)
Command ==
    [kind: {"new", "removed"}, conn: Conns]
        \cup [kind: {"subscribe", "unsubscribe"}, conn: Conns, channel: Channels]
        \cup [kind: {"broadcast"}, channel: Channels \cup {Global},
              expected: SUBSET Conns]

Init ==
    /\ conn = [c \in Conns |-> "new"]
    /\ entity = 0
    /\ created = 0
    /\ load = "none"
    /\ waiting = <<>>
    /\ resumed = <<>>
    /\ held = 0
    /\ members = [m \in Managers |-> {}]
    /\ byConnection = [m \in Managers |-> {}]
    /\ contextChannels = [m \in Managers |-> {}]
    /\ wants = {}
    /\ stranded = {}

------------------------------------------------------------------------------
(* DataContextManagerProvider                                                *)

(* The connections that the commands of a queue were to register.           *)
Registering(queue) ==
    {c \in Conns : \E i \in 1..Len(queue) :
        queue[i].kind = "new" /\ queue[i].conn = c}

(* Mutant of Wait: the newest command resumes first.                        *)
WaitAhead(command) == waiting' = <<command>> \o waiting

Wait(command) == waiting' = Append(waiting, command)

(* getContextManager up to its await: the manager of this moment, the load  *)
(* that is pending, a new load, or the rejection of a load that failed.     *)
GetContextManager(command) ==
    \/ /\ entity # 0
       /\ resumed' = Append(resumed, command)
       /\ held' = entity
       /\ UNCHANGED <<load, waiting, stranded>>
    \/ /\ entity = 0 /\ load # "failed"
       /\ created < MaxManagers
       /\ Len(waiting) < MaxWaiting
       /\ load' = "pending"
       /\ Wait(command)
       /\ UNCHANGED <<resumed, held, stranded>>
    \/ /\ entity = 0 /\ load = "failed"
       /\ stranded' = stranded \cup Registering(<<command>>)
       /\ UNCHANGED <<load, waiting, resumed, held>>

(* Mutant of Served: only the command that started the load resumes.        *)
ServedFirst(queue) == SubSeq(queue, 1, 1)

(* Who resumes when the load is done: everyone who waits, in order.         *)
Served(queue) == queue

(* The configuration is there: everyone who waits resumes with the manager. *)
LoadSucceeds ==
    /\ load = "pending"
    /\ resumed = <<>>
    /\ created' = created + 1
    /\ entity' = created + 1
    /\ held' = created + 1
    /\ load' = "none"
    /\ resumed' = Served(waiting)
    /\ waiting' = <<>>
    /\ UNCHANGED <<conn, managers, wants, stranded>>

(* Mutant of LoadFails: a failed read leaves the promise pending.           *)
LoadHangs ==
    /\ load = "pending"
    /\ resumed = <<>>
    /\ load' = "failed"
    /\ UNCHANGED <<conn, entity, created, waiting, resumed, held, managers,
                   wants, stranded>>

(* The read is rejected, and so is everyone who waits. entityPromise keeps  *)
(* the rejected promise.                                                    *)
LoadFails ==
    /\ load = "pending"
    /\ resumed = <<>>
    /\ load' = "failed"
    /\ waiting' = <<>>
    /\ stranded' = stranded \cup Registering(waiting)
    /\ UNCHANGED <<conn, entity, created, resumed, held, managers, wants>>

------------------------------------------------------------------------------
(* Events that dispatch a command                                            *)

Quiet == resumed = <<>>

(* registerConnection.  An id that a connection of any context has is       *)
(* refused, when the pool already listens to the new connection.            *)
NewConnection(c) ==
    /\ Quiet
    /\ conn[c] = "new"
    /\ \/ /\ conn' = [conn EXCEPT ![c] = "open"]
          /\ GetContextManager([kind |-> "new", conn |-> c])
       \/ /\ conn' = [conn EXCEPT ![c] = "refused"]
          /\ stranded' = stranded \cup {c}
          /\ UNCHANGED <<load, waiting, resumed, held>>
    /\ UNCHANGED <<entity, created, managers, wants>>

(* removeConnection, once the connection is closing.  For one that was      *)
(* refused it throws before the event, when the context has no connection   *)
(* in the pool or has never had one with an external id.                    *)
ConnectionRemoved(c) ==
    /\ Quiet
    /\ Heard(c)
    /\ conn' = [conn EXCEPT ![c] = "removed"]
    /\ wants' = wants \ ({c} \X Channels)
    /\ \/ /\ Open # {}
          /\ GetContextManager([kind |-> "removed", conn |-> c])
       \/ /\ conn[c] = "refused"
          /\ UNCHANGED <<load, waiting, resumed, held, stranded>>
    /\ UNCHANGED <<entity, created, managers>>

Subscribe(c, ch) ==
    /\ Quiet
    /\ Heard(c)
    /\ wants' = wants \cup {<<c, ch>>}
    /\ GetContextManager([kind |-> "subscribe", conn |-> c, channel |-> ch])
    /\ UNCHANGED <<conn, entity, created, managers>>

Unsubscribe(c, ch) ==
    /\ Quiet
    /\ Heard(c)
    /\ wants' = wants \ {<<c, ch>>}
    /\ GetContextManager([kind |-> "unsubscribe", conn |-> c, channel |-> ch])
    /\ UNCHANGED <<conn, entity, created, managers>>

(* An outgoing message of the API, of a client or of another process.       *)
Broadcast(ch) ==
    /\ Len(resumed) < MaxWaiting
    /\ LET expected == IF ch = Global THEN Open
                       ELSE {c \in Conns : <<c, ch>> \in wants}
       IN  GetContextManager([kind |-> "broadcast", channel |-> ch,
                              expected |-> expected])
    /\ UNCHANGED <<conn, entity, created, managers, wants>>

------------------------------------------------------------------------------
(* Commands after their await: operations of the manager m they hold         *)

AddConnection(m, c) ==
    /\ members' = [members EXCEPT ![m] = @ \cup {c}]
    /\ byConnection' = [byConnection EXCEPT ![m] = @ \ ({c} \X Channels)]
    /\ UNCHANGED <<entity, contextChannels, stranded>>

(* Mutant of Leave: the channels of the connection keep it.                 *)
LeaveChannels(m, c) ==
    /\ members' = [members EXCEPT ![m] = @ \ {c}]
    /\ byConnection' = [byConnection EXCEPT ![m] = @ \ ({c} \X Channels)]
    /\ UNCHANGED contextChannels

(* removeConnection: the connection and the channels it is known to be in.  *)
Leave(m, c) ==
    /\ members' = [members EXCEPT ![m] = @ \ {c}]
    /\ byConnection' = [byConnection EXCEPT ![m] = @ \ ({c} \X Channels)]
    /\ contextChannels' = [contextChannels EXCEPT ![m] =
                             @ \ (byConnection[m] \cap ({c} \X Channels))]

(* Mutant of Deserted: the last subscription, not the last connection.      *)
Unsubscribed(m) == byConnection'[m] = {}

(* connectionCount is 0 after the removal.                                  *)
Deserted(m) == members'[m] = {}

(* resetContextManager, whoever still waits behind the removal.             *)
ResetContextManager ==
    /\ entity' = 0
    /\ stranded' = stranded \cup Registering(Tail(resumed))

(* HandleRemovedConnection; an unknown connection throws in                 *)
(* removeConnection, before the count is looked at.                         *)
RemoveConnection(m, c) ==
    IF c \in members[m]
    THEN /\ Leave(m, c)
         /\ IF Deserted(m) THEN ResetContextManager
                           ELSE UNCHANGED <<entity, stranded>>
    ELSE UNCHANGED <<entity, managers, stranded>>

(* Mutant of SubscribeToChannel: the inverse map gets it the wrong way      *)
(* round.                                                                   *)
SubscribeSwapped(m, c, ch) ==
    /\ contextChannels' = [contextChannels EXCEPT ![m] = @ \cup {<<ch, c>>}]
    /\ byConnection' = [byConnection EXCEPT ![m] = @ \cup {<<c, ch>>}]
    /\ UNCHANGED <<entity, members, stranded>>

(* subscribeToChannel: for an unknown connection it throws half way.        *)
SubscribeToChannel(m, c, ch) ==
    /\ contextChannels' = [contextChannels EXCEPT ![m] = @ \cup {<<c, ch>>}]
    /\ byConnection' = [byConnection EXCEPT ![m] =
                          IF c \in members[m] THEN @ \cup {<<c, ch>>} ELSE @]
    /\ UNCHANGED <<entity, members, stranded>>

(* unsubscribeFromChannel: skipped for a channel nobody is in.              *)
UnsubscribeFromChannel(m, c, ch) ==
    /\ contextChannels' = [contextChannels EXCEPT ![m] = @ \ {<<c, ch>>}]
    /\ byConnection' = [byConnection EXCEPT ![m] =
                          IF \E d \in Conns : <<d, ch>> \in contextChannels[m]
                          THEN @ \ {<<c, ch>>} ELSE @]
    /\ UNCHANGED <<entity, members, stranded>>

(* getChannelConnections.                                                   *)
ChannelConnections(m, ch) ==
    IF ch = Global THEN members[m]
    ELSE {c \in Conns : <<c, ch>> \in contextChannels[m]}

Execute(command, m) ==
    \/ command.kind = "new" /\ AddConnection(m, command.conn)
    \/ command.kind = "removed" /\ RemoveConnection(m, command.conn)
    \/ /\ command.kind = "subscribe"
       /\ SubscribeToChannel(m, command.conn, command.channel)
    \/ /\ command.kind = "unsubscribe"
       /\ UnsubscribeFromChannel(m, command.conn, command.channel)
    \/ /\ command.kind = "broadcast" \* sends to ChannelConnections
       /\ UNCHANGED <<entity, managers, stranded>>

Resume ==
    /\ resumed # <<>>
    /\ resumed' = Tail(resumed)
    /\ Execute(Head(resumed), held)
    /\ UNCHANGED <<conn, created, load, waiting, held, wants>>

------------------------------------------------------------------------------

Next ==
    \/ \E c \in Conns :
          \/ NewConnection(c)
          \/ ConnectionRemoved(c)
          \/ \E ch \in Channels : Subscribe(c, ch) \/ Unsubscribe(c, ch)
    \/ \E ch \in Channels \cup {Global} : Broadcast(ch)
    \/ LoadSucceeds
    \/ LoadFails
    \/ Resume

(* The database answers, one way or the other, and microtasks run.          *)
Fairness == WF_vars(LoadSucceeds \/ LoadFails) /\ WF_vars(Resume)

Spec == Init /\ [][Next]_vars /\ Fairness

------------------------------------------------------------------------------
(* Properties                                                                *)

TypeOK ==
    /\ conn \in [Conns -> {"new", "open", "refused", "removed"}]
    /\ entity \in 0..created
    /\ created \in 0..MaxManagers
    /\ load \in {"none", "pending", "failed"}
    /\ waiting \in Seq(Command)
    /\ resumed \in Seq(Command)
    /\ held \in 0..created
    /\ members \in [Managers -> SUBSET Conns]
    /\ byConnection \in [Managers -> SUBSET Pairs]
    /\ contextChannels \in [Managers -> SUBSET Pairs]
    /\ wants \subseteq Pairs
    /\ stranded \subseteq Conns

(* The two maps of a manager are inverse to each other, but for the         *)
(* channels of a connection whose registration came to nothing: one that    *)
(* the pool refused for its id or whose command found no manager can        *)
(* subscribe all the same, and subscribeToChannel throws between the maps.  *)
MapsAgree ==
    \A m \in Managers :
        /\ byConnection[m] \subseteq contextChannels[m]
        /\ \A p \in contextChannels[m] :
              p \in byConnection[m] \/ p[1] \in stranded

(* When no command is pending, the current manager knows the pool's         *)
(* connections: no removal, reset or reload loses one or keeps one, except  *)
(* a connection whose registration waited behind the removal that emptied   *)
(* the manager, or whose load failed.                                       *)
ManagerKnowsPool ==
    Quiet /\ entity # 0 => members[entity] = Open \ stranded

(* With no manager and no load under way, nobody is connected.              *)
NobodyForgotten ==
    Quiet /\ entity = 0 /\ load = "none" => Open \subseteq stranded

(* A broadcast reaches those whose subscription was dispatched before it    *)
(* and not taken back, however long the load they all waited for; nothing   *)
(* is said of connections whose registration came to nothing, which stay in *)
(* their channels when they close.                                          *)
BroadcastReachesSubscribers ==
    resumed # <<>> /\ Head(resumed).kind = "broadcast" =>
        ChannelConnections(held, Head(resumed).channel) \ stranded
            = Head(resumed).expected \ stranded

(* Every command that waits for a load is resumed or rejected.              *)
WaitersAreServed == waiting # <<>> ~> waiting = <<>>

==============================================================================
