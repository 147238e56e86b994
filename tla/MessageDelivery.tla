---------------------------- MODULE MessageDelivery ----------------------------
(***************************************************************************)
(* Publishing of messages across workers.  The worker that has a message   *)
(* broadcasts it to its own clients and asks the master to forward it      *)
(* (ForwardOutgoingMessage); the master asks every other worker            *)
(* (ForwardDataSyncMessageToNodes), adds up the recipients they report and *)
(* answers the first worker, which then has the number of recipients       *)
(* (OutgoingMessageEvent.getRecipientCount).                               *)
(*                                                                         *)
(* Questions and answers go through IpcMessenger.sendAndReceive, whose     *)
(* timers may fire at any time: a process can be slow.  A broadcast waits  *)
(* for the manager of the data context (module DataContext), which here is *)
(* only a load that succeeds or fails.  How many connections a broadcast   *)
(* finds is arbitrary.                                                     *)
(***************************************************************************)
EXTENDS Integers, FiniteSets, SequencesExt

CONSTANTS
    Workers,
    MaxMessages,   \* bound: messages published
    MaxRecipients, \* bound: connections a broadcast finds
    MaxExits       \* bound: workers that die

ASSUME BoundsAssumption ==
    /\ IsFiniteSet(Workers)
    /\ MaxMessages \in Nat
    /\ MaxRecipients \in Nat
    /\ MaxExits \in Nat

VARIABLES
    alive,     \* cluster.workers
    origin,    \* the workers that published, message n being the n-th
    manager,   \* per worker: "none", "loading", "ready" or "failed"
    waiting,   \* per worker: messages whose broadcast awaits the manager
    broadcast, \* per worker: messages sent to its clients, in order
    found,     \* per message and worker: recipients its broadcast reported
    toMaster,  \* per worker: IPC messages on their way to the master
    toWorker,  \* per worker: IPC messages on their way from the master
    targets,   \* per message: the workers the master has asked
    asked,     \* per message: those still in the master's responseQueues
    responses, \* per message: the numbers of ForwardDataSyncMessageToNodes
    forwarded  \* per message: the promise of ForwardOutgoingMessage

ipc == <<toMaster, toWorker>>
clients == <<manager, waiting, broadcast, found>>
master == <<targets, asked, responses>>
vars == <<alive, origin, ipc, clients, master, forwarded>>

Messages == 1..MaxMessages
Unknown == -1 \* a promise that is pending
Lost == -2    \* one that will be pending for ever: its question timed out
Recipients == 0..MaxRecipients

(* The payloads: a message to forward, or a number of recipients.           *)
ForwardClientMessage(m) ==
    [type |-> "forward", message |-> m, data |-> Unknown]
(* Mutant of the report: sent before the number is known.                           *)
EarlyReport(m, n) == [type |-> "report", message |-> m, data |-> Unknown]

ClientMessageDeliveryReport(m, n) ==
    [type |-> "report", message |-> m, data |-> n]

Published(m) == m <= Len(origin)
Foreign(w, m) == Published(m) /\ origin[m] # w

Init ==
    /\ alive = Workers
    /\ origin = <<>>
    /\ manager = [w \in Workers |-> "none"]
    /\ waiting = [w \in Workers |-> <<>>]
    /\ broadcast = [w \in Workers |-> <<>>]
    /\ found = [m \in Messages |-> [w \in Workers |-> Unknown]]
    /\ toMaster = [w \in Workers |-> <<>>]
    /\ toWorker = [w \in Workers |-> <<>>]
    /\ targets = [m \in Messages |-> {}]
    /\ asked = [m \in Messages |-> {}]
    /\ responses = [m \in Messages |-> <<>>]
    /\ forwarded = [m \in Messages |-> Unknown]

------------------------------------------------------------------------------
(* Broadcasts                                                                *)

(* The reports of HandleForwardedMessage behind what is on the channel: one  *)
(* for each message that came from another worker.                          *)
Reported(w, messages, recipients, channel) ==
    LET UpTo[i \in 0..Len(messages)] ==
            IF i = 0 THEN channel
            ELSE IF Foreign(w, messages[i])
                 THEN Append(UpTo[i - 1],
                             ClientMessageDeliveryReport(
                                 messages[i], recipients[messages[i]]))
                 ELSE UpTo[i - 1]
    IN  UpTo[Len(messages)]

(* BroadcastOutgoingMessage after its await, for one message after another. *)
Deliver(w, messages, recipients, channel) ==
    /\ broadcast' = [broadcast EXCEPT ![w] = @ \o messages]
    /\ found' = [m \in Messages |->
                    IF Contains(messages, m)
                    THEN [found[m] EXCEPT ![w] = recipients[m]]
                    ELSE found[m]]
    /\ toMaster' = [toMaster EXCEPT ![w] =
                       Reported(w, messages, recipients, channel)]

(* Mutant of Await: the latest comer is served first.                       *)
AwaitAhead(w, m) == waiting' = [waiting EXCEPT ![w] = <<m>> \o @]

Await(w, m) == waiting' = [waiting EXCEPT ![w] = Append(@, m)]

(* An OutgoingMessageEvent is dispatched.  `channel` is what is on its way  *)
(* to the master once the event's commands have run up to their awaits.  A  *)
(* manager that failed to load fails every later broadcast.                 *)
Broadcast(w, m, channel) ==
    \/ /\ manager[w] = "ready"
       /\ \E n \in Recipients :
             Deliver(w, <<m>>, [i \in Messages |-> n], channel)
       /\ UNCHANGED <<manager, waiting>>
    \/ /\ manager[w] \in {"none", "loading"}
       /\ manager' = [manager EXCEPT ![w] = "loading"]
       /\ Await(w, m)
       /\ toMaster' = [toMaster EXCEPT ![w] = channel]
       /\ UNCHANGED <<broadcast, found>>
    \/ /\ manager[w] = "failed"
       /\ toMaster' = [toMaster EXCEPT ![w] = channel]
       /\ UNCHANGED clients

(* A connection's command asks for the manager (HandleNewConnection,        *)
(* UpdateClientSubscriptions): the load begins before any broadcast.        *)
BeginLoad(w) ==
    /\ w \in alive
    /\ manager[w] = "none"
    /\ manager' = [manager EXCEPT ![w] = "loading"]
    /\ UNCHANGED <<alive, origin, waiting, broadcast, found, ipc, master,
                   forwarded>>

LoadSucceeds(w) ==
    /\ w \in alive
    /\ manager[w] = "loading"
    /\ manager' = [manager EXCEPT ![w] = "ready"]
    /\ waiting' = [waiting EXCEPT ![w] = <<>>]
    /\ \E recipients \in [Messages -> Recipients] :
          Deliver(w, waiting[w], recipients, toMaster[w])
    /\ UNCHANGED <<alive, origin, toWorker, master, forwarded>>

(* The rejection reaches all that wait: their broadcasts never report.      *)
LoadFails(w) ==
    /\ w \in alive
    /\ manager[w] = "loading"
    /\ manager' = [manager EXCEPT ![w] = "failed"]
    /\ waiting' = [waiting EXCEPT ![w] = <<>>]
    /\ UNCHANGED <<alive, origin, broadcast, found, ipc, master, forwarded>>

(* The last connection of the context leaves the worker.                    *)
ResetContextManager(w) ==
    /\ w \in alive
    /\ manager[w] = "ready"
    /\ manager' = [manager EXCEPT ![w] = "none"]
    /\ UNCHANGED <<alive, origin, waiting, broadcast, found, ipc, master,
                   forwarded>>

------------------------------------------------------------------------------
(* The publishing worker                                                     *)

(* A registered message is dispatched: broadcast here, and forwarded.       *)
Publish(w) ==
    LET m == Len(origin) + 1 IN
    /\ w \in alive
    /\ m \in Messages
    /\ origin' = Append(origin, w)
    /\ Broadcast(w, m, Append(toMaster[w], ForwardClientMessage(m)))
    /\ UNCHANGED <<alive, toWorker, master, forwarded>>

(* sendAndReceive gives up after 5 seconds; nobody catches its rejection,   *)
(* and the promise given to addRecipientProvider stays pending.             *)
ForwardTimesOut(m) ==
    /\ Published(m)
    /\ origin[m] \in alive
    /\ forwarded[m] = Unknown
    /\ forwarded' = [forwarded EXCEPT ![m] = Lost]
    /\ UNCHANGED <<alive, origin, ipc, clients, master>>

(* The sum once the master has answered, or the timer has fired: the answer *)
(* then is no valid message to forward and is dropped.                      *)
ReceiveAnswer(w) ==
    LET answer == Head(toWorker[w]) IN
    /\ toWorker[w] # <<>>
    /\ answer.type = "report"
    /\ forwarded' = [forwarded EXCEPT ![answer.message] =
                        IF @ = Unknown THEN answer.data ELSE @]
    /\ toWorker' = [toWorker EXCEPT ![w] = Tail(@)]
    /\ UNCHANGED <<alive, origin, toMaster, clients, master>>

(* Unknown until both providers have reported.                              *)
GetRecipientCount(m) ==
    IF found[m][origin[m]] = Unknown \/ forwarded[m] \in {Unknown, Lost}
    THEN Unknown
    ELSE found[m][origin[m]] + forwarded[m]

------------------------------------------------------------------------------
(* The other workers                                                         *)

HandleForwardedMessage(w) ==
    LET question == Head(toWorker[w]) IN
    /\ toWorker[w] # <<>>
    /\ question.type = "forward"
    /\ toWorker' = [toWorker EXCEPT ![w] = Tail(@)]
    /\ Broadcast(w, question.message, toMaster[w])
    /\ UNCHANGED <<alive, origin, master, forwarded>>

------------------------------------------------------------------------------
(* The master                                                                *)

(* Mutants of AskedWorkers: the publisher is asked too; only one is.        *)
AskedAll(w) == alive
AskedOne(w) == {v \in alive \ {w} : v = CHOOSE u \in alive \ {w} : TRUE}
AskedWorkers(w) == alive \ {w}

(* With nobody to ask nothing will happen any more.                         *)
ForwardDataSyncMessageToNodes(w) ==
    LET question == Head(toMaster[w])
        m == question.message
    IN
    /\ toMaster[w] # <<>>
    /\ question.type = "forward"
    /\ toMaster' = [toMaster EXCEPT ![w] = Tail(@)]
    /\ targets' = [targets EXCEPT ![m] = AskedWorkers(w)]
    /\ asked' = [asked EXCEPT ![m] = AskedWorkers(w)]
    /\ toWorker' = [v \in Workers |->
                       IF v \in AskedWorkers(w)
                       THEN Append(toWorker[v], question)
                       ELSE toWorker[v]]
    /\ UNCHANGED <<alive, origin, clients, responses, forwarded>>

(* A mutant of Complete: one response more is needed.                       *)
CompleteBeyond(m, n) == n = Cardinality(targets[m]) + 1

(* responses.length === workerIds.length - 1, of the workers alive when the *)
(* question was forwarded.                                                  *)
Complete(m, n) == n = Cardinality(targets[m])

(* A mutant of SumOf: the last response only.                               *)
LastOf(numbers) == numbers[Len(numbers)]

SumOf(numbers) ==
    LET Sum[i \in 0..Len(numbers)] ==
            IF i = 0 THEN 0 ELSE Sum[i - 1] + numbers[i]
    IN  Sum[Len(numbers)]

(* A report from w resolves the master's promise, unless that has timed     *)
(* out: then it is no message to forward and is dropped.  The answer to a   *)
(* worker that is gone goes nowhere.                                        *)
ReceiveReport(w) ==
    LET report == Head(toMaster[w])
        m == report.message
        numbers == Append(responses[m], report.data)
    IN
    /\ toMaster[w] # <<>>
    /\ report.type = "report"
    /\ toMaster' = [toMaster EXCEPT ![w] = Tail(@)]
    /\ asked' = [asked EXCEPT ![m] = @ \ {w}]
    /\ IF w \in asked[m]
       THEN responses' = [responses EXCEPT ![m] = numbers]
       ELSE UNCHANGED responses
    /\ IF w \in asked[m] /\ Complete(m, Len(numbers)) /\ origin[m] \in alive
       THEN toWorker' = [toWorker EXCEPT ![origin[m]] =
                            Append(@, ClientMessageDeliveryReport(m, SumOf(numbers)))]
       ELSE UNCHANGED toWorker
    /\ UNCHANGED <<alive, origin, clients, targets, forwarded>>

(* The rejection ends the callback: its response is never counted.          *)
QuestionTimesOut(m, v) ==
    /\ v \in asked[m]
    /\ asked' = [asked EXCEPT ![m] = @ \ {v}]
    /\ UNCHANGED <<alive, origin, ipc, clients, targets, responses, forwarded>>

(* A worker dies; cluster.workers forgets it when its channel is closed.    *)
(* It is not respawned.                                                     *)
Exit(w) ==
    /\ w \in alive
    /\ Cardinality(Workers \ alive) < MaxExits
    /\ alive' = alive \ {w}
    /\ toMaster' = [toMaster EXCEPT ![w] = <<>>]
    /\ toWorker' = [toWorker EXCEPT ![w] = <<>>]
    /\ UNCHANGED <<origin, clients, master, forwarded>>

------------------------------------------------------------------------------

Load(w) == LoadSucceeds(w) \/ LoadFails(w)
WorkerStep(w) == ReceiveAnswer(w) \/ HandleForwardedMessage(w)
MasterStep(w) == ForwardDataSyncMessageToNodes(w) \/ ReceiveReport(w)

Next ==
    \/ \E w \in Workers :
          \/ Publish(w)
          \/ BeginLoad(w)
          \/ LoadSucceeds(w)
          \/ LoadFails(w)
          \/ ResetContextManager(w)
          \/ ReceiveAnswer(w)
          \/ HandleForwardedMessage(w)
          \/ ForwardDataSyncMessageToNodes(w)
          \/ ReceiveReport(w)
          \/ Exit(w)
    \/ \E m \in Messages : ForwardTimesOut(m)
    \/ \E m \in Messages, v \in Workers : QuestionTimesOut(m, v)

Spec == Init /\ [][Next]_vars

(* IPC messages are handled and loads settle.                               *)
Fairness ==
    \A w \in Workers :
        WF_vars(Load(w)) /\ WF_vars(WorkerStep(w)) /\ WF_vars(MasterStep(w))

FairSpec == Spec /\ Fairness

(* Timers that are not cleared fire.                                        *)
TimersFire ==
    /\ \A m \in Messages : WF_vars(ForwardTimesOut(m))
    /\ \A m \in Messages, v \in Workers : WF_vars(QuestionTimesOut(m, v))

TimedSpec == FairSpec /\ TimersFire

------------------------------------------------------------------------------
(* Properties                                                                *)

IpcMessage == [type : {"forward"}, message : Messages, data : {Unknown}]
    \cup [type : {"report"}, message : Messages, data : Nat]

(* Every variable keeps its type; IPC messages are questions or numbers.    *)
TypeOK ==
    /\ alive \subseteq Workers
    /\ origin \in Seq(Workers) /\ Len(origin) <= MaxMessages
    /\ manager \in [Workers -> {"none", "loading", "ready", "failed"}]
    /\ waiting \in [Workers -> Seq(Messages)]
    /\ broadcast \in [Workers -> Seq(Messages)]
    /\ found \in [Messages -> [Workers -> Recipients \cup {Unknown}]]
    /\ toMaster \in [Workers -> Seq(IpcMessage)]
    /\ toWorker \in [Workers -> Seq(IpcMessage)]
    /\ targets \in [Messages -> SUBSET Workers]
    /\ asked \in [Messages -> SUBSET Workers]
    /\ responses \in [Messages -> Seq(Nat)]
    /\ forwarded \in [Messages -> Nat \cup {Unknown, Lost}]

Total(f, S) == MapThenSumSet(LAMBDA x : f[x], S)

Answered(m) == Published(m) /\ GetRecipientCount(m) # Unknown

(* The number of recipients a publisher is given is the sum of what the     *)
(* broadcasts of its own worker and of every worker the master asked found, *)
(* each counted once and none missing, whatever order the reports come in   *)
(* and whoever else is dead, late or asked about another message            *)
(* (ForwardDataSyncMessageToNodes, getRecipientCount).                      *)
AnswerCountsEveryone ==
    \A m \in Messages :
        Answered(m) =>
            LET counted == targets[m] \cup {origin[m]} IN
            /\ \A w \in counted : found[m][w] # Unknown
            /\ GetRecipientCount(m) = Total(found[m], counted)

(* The clients of every worker get a message at most once, and messages of  *)
(* one publishing worker in the order in which they were published, though  *)
(* broadcasts wait for managers and messages pass two channels.             *)
EachOnceInOrder ==
    \A w \in Workers : \A i, j \in DOMAIN broadcast[w] :
        i < j /\ origin[broadcast[w][i]] = origin[broadcast[w][j]] =>
            broadcast[w][i] < broadcast[w][j]

(* A published message is broadcast in every worker, unless that worker or  *)
(* the publishing one dies, or the worker's manager failed to load.         *)
MessageReachesWorkers ==
    \A m \in Messages, w \in Workers :
        Published(m) ~> \/ Contains(broadcast[w], m)
                        \/ manager[w] = "failed"
                        \/ w \notin alive
                        \/ Published(m) /\ origin[m] \notin alive

(* What may keep a publisher waiting for ever: a question of its own or of  *)
(* the master that timed out, a worker that died, a manager that failed, or *)
(* no other worker to ask.                                                  *)
Excused(m) ==
    \/ forwarded[m] = Lost
    \/ Cardinality(targets[m] \ asked[m]) # Len(responses[m])
    \/ alive # Workers
    \/ \E w \in Workers : manager[w] = "failed"
    \/ Cardinality(Workers) = 1

(* Nothing else does: without them the publisher gets its number.           *)
AnsweredUnlessExcused ==
    \A m \in Messages :
        Published(m) ~> Answered(m) \/ Excused(m)

(* The publishing API promises a report with the number of recipients       *)
(* (platform-api.yaml, MessageDeliveryReport) to whoever publishes, as long *)
(* as the worker that handles the request lives and its context loads.      *)
PublisherIsAnswered ==
    \A m \in Messages :
        Published(m) ~> \/ Answered(m)
                        \/ alive # Workers
                        \/ \E w \in Workers : manager[w] = "failed"

==============================================================================
