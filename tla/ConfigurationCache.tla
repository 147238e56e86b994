-------------------------- MODULE ConfigurationCache --------------------------
(***************************************************************************)
(* The configuration of one context, as cached by every worker process:    *)
(* ConfigurationContextProvider with its asynchronous read of the shared   *)
(* database, and the invalidation that a save or delete sends from its     *)
(* worker through the master to every other worker.                        *)
(*                                                                         *)
(* Processes share only the database and the IPC channels, so the steps of *)
(* different workers interleave freely; within a worker, everything        *)
(* between two awaits is one action.  A configuration is its version: the  *)
(* number of the write that stored it, 0 when there is none.  Messages     *)
(* are all alike (update and delete both only reset the cache), so a       *)
(* channel is the number of messages in it.                                *)
(***************************************************************************)
EXTENDS Naturals

CONSTANTS
    Workers,   \* worker processes
    Slots,     \* calls of getConfigurationContext one worker can have in flight
    MaxWrites  \* bound: saves and deletes

ASSUME WritesAssumption == MaxWrites \in Nat

VARIABLES
    alive,     \* alive[w]: the process of worker w runs; it is never respawned
    stored,    \* version in the table context_config, 0 when there is no row
    writes,    \* number of writes so far
    saved,     \* saved[w]: writes of w's API whose continuation has not run
    toMaster,  \* toMaster[w]: invalidations on their way from w to the master
    toWorker,  \* toWorker[w]: invalidations on their way from the master to w
    cache,     \* cache[w]: version in contextCache of w, 0 when there is none
    call,      \* call[w][s]: a pending getConfigurationContext of w
    late       \* history: w's entry was read before, and is older than the row
               \* at, the latest reset of w's cache

vars == <<alive, stored, writes, saved, toMaster, toWorker, cache, call, late>>

Call == [phase: {"idle", "asked", "answered"}, value: Nat, late: BOOLEAN]

Idle == [phase |-> "idle", value |-> 0, late |-> FALSE]

Init ==
    /\ alive = [w \in Workers |-> TRUE]
    /\ stored \in 0..1
    /\ writes = stored
    /\ saved = [w \in Workers |-> 0]
    /\ toMaster = [w \in Workers |-> 0]
    /\ toWorker = [w \in Workers |-> 0]
    /\ cache = [w \in Workers |-> 0]
    /\ call = [w \in Workers |-> [s \in Slots |-> Idle]]
    /\ late = [w \in Workers |-> FALSE]

------------------------------------------------------------------------------
(* Writers: the configuration API of a worker                                *)

(* setConfig up to its await: INSERT OR REPLACE.                            *)
Save(w) ==
    /\ alive[w]
    /\ writes < MaxWrites
    /\ writes' = writes + 1
    /\ stored' = writes + 1
    /\ saved' = [saved EXCEPT ![w] = @ + 1]
    /\ UNCHANGED <<alive, toMaster, toWorker, cache, call, late>>

(* deleteConfig up to its await; without a row it answers NotFound and      *)
(* nothing follows.                                                         *)
Delete(w) ==
    /\ alive[w]
    /\ writes < MaxWrites
    /\ stored # 0
    /\ writes' = writes + 1
    /\ stored' = 0
    /\ saved' = [saved EXCEPT ![w] = @ + 1]
    /\ UNCHANGED <<alive, toMaster, toWorker, cache, call, late>>

(* A call of w has read a row that the database no longer holds.            *)
Overtaken(w, s) ==
    call[w][s].phase = "answered" /\ call[w][s].value # stored

(* resetConfiguration. A call already answered keeps what it has read.      *)
Reset(w) ==
    /\ cache' = [cache EXCEPT ![w] = 0]
    /\ late' = [late EXCEPT ![w] = FALSE]
    /\ call' = [call EXCEPT ![w] = [s \in Slots |->
                  [call[w][s] EXCEPT !.late = @ \/ Overtaken(w, s)]]]

(* Mutant of Dispatch: only updates are announced, not deletes.             *)
DispatchUpdate(w) ==
    /\ alive[w]
    /\ saved[w] > 0
    /\ stored # 0
    /\ saved' = [saved EXCEPT ![w] = @ - 1]
    /\ toMaster' = [toMaster EXCEPT ![w] = @ + 1]
    /\ Reset(w)
    /\ UNCHANGED <<alive, stored, writes, toWorker>>

(* Mutant of Dispatch: announced without waiting for the write.             *)
DispatchEarly(w) ==
    /\ alive[w]
    /\ toMaster[w] = 0
    /\ saved' = [saved EXCEPT ![w] = @ - 1]
    /\ toMaster' = [toMaster EXCEPT ![w] = @ + 1]
    /\ Reset(w)
    /\ UNCHANGED <<alive, stored, writes, toWorker>>

(* setConfig or deleteConfig after its await: the event resets this         *)
(* worker's cache and tells the master.                                     *)
Dispatch(w) ==
    /\ alive[w]
    /\ saved[w] > 0
    /\ saved' = [saved EXCEPT ![w] = @ - 1]
    /\ toMaster' = [toMaster EXCEPT ![w] = @ + 1]
    /\ Reset(w)
    /\ UNCHANGED <<alive, stored, writes, toWorker>>

------------------------------------------------------------------------------
(* Invalidation through the master                                           *)

(* Mutant of Relayed: the message goes back to the worker it came from.     *)
RelayedToSender(w, v) == alive[v] /\ v = w

(* The master sends a message of worker w on to every other live worker.    *)
Relayed(w, v) == alive[v] /\ v # w

Forward(w) ==
    /\ toMaster[w] > 0
    /\ toMaster' = [toMaster EXCEPT ![w] = @ - 1]
    /\ toWorker' = [v \in Workers |->
                      IF Relayed(w, v) THEN toWorker[v] + 1 ELSE toWorker[v]]
    /\ UNCHANGED <<alive, stored, writes, saved, cache, call, late>>

(* A worker resets its cache. The event is marked isForwarded, so it is not *)
(* sent to the master again.                                                *)
Receive(w) ==
    /\ toWorker[w] > 0
    /\ toWorker' = [toWorker EXCEPT ![w] = @ - 1]
    /\ Reset(w)
    /\ UNCHANGED <<alive, stored, writes, saved, toMaster>>

------------------------------------------------------------------------------
(* Readers: getConfigurationContext on a cache miss                          *)

Ask(w, s) ==
    /\ alive[w]
    /\ cache[w] = 0
    /\ call[w][s].phase = "idle"
    /\ call' = [call EXCEPT ![w][s].phase = "asked"]
    /\ UNCHANGED <<alive, stored, writes, saved, toMaster, toWorker, cache, late>>

(* The database answers with the row of this moment.                        *)
ReadRow(w, s) ==
    /\ call[w][s].phase = "asked"
    /\ call' = [call EXCEPT ![w][s] =
                  [phase |-> "answered", value |-> stored, late |-> FALSE]]
    /\ UNCHANGED <<alive, stored, writes, saved, toMaster, toWorker, cache, late>>

(* The continuation caches the row, unless there was none.                  *)
Install(w, s) ==
    /\ call[w][s].phase = "answered"
    /\ IF call[w][s].value # 0
       THEN /\ cache' = [cache EXCEPT ![w] = call[w][s].value]
            /\ late' = [late EXCEPT ![w] = call[w][s].late]
       ELSE UNCHANGED <<cache, late>>
    /\ call' = [call EXCEPT ![w][s] = Idle]
    /\ UNCHANGED <<alive, stored, writes, saved, toMaster, toWorker>>

(* A worker dies. What it sent is still read by the master; a write it has  *)
(* not announced never will be, so saved[w] stays.                          *)
Exit(w) ==
    /\ alive[w]
    /\ alive' = [alive EXCEPT ![w] = FALSE]
    /\ toWorker' = [toWorker EXCEPT ![w] = 0]
    /\ cache' = [cache EXCEPT ![w] = 0]
    /\ call' = [call EXCEPT ![w] = [s \in Slots |-> Idle]]
    /\ late' = [late EXCEPT ![w] = FALSE]
    /\ UNCHANGED <<stored, writes, saved, toMaster>>

------------------------------------------------------------------------------

Next ==
    \E w \in Workers :
        \/ Save(w)
        \/ Delete(w)
        \/ Dispatch(w)
        \/ Forward(w)
        \/ Receive(w)
        \/ \E s \in Slots : Ask(w, s) \/ ReadRow(w, s) \/ Install(w, s)
        \/ Exit(w)

(* Continuations run and messages of a live channel are read; nobody is     *)
(* obliged to write or to read the configuration.                           *)
Fairness ==
    \A w \in Workers :
        WF_vars(Dispatch(w)) /\ WF_vars(Forward(w)) /\ WF_vars(Receive(w))

Spec == Init /\ [][Next]_vars /\ Fairness

------------------------------------------------------------------------------
(* Properties                                                                *)

TypeOK ==
    /\ alive \in [Workers -> BOOLEAN]
    /\ stored \in Nat
    /\ writes \in Nat
    /\ saved \in [Workers -> Nat]
    /\ toMaster \in [Workers -> Nat]
    /\ toWorker \in [Workers -> Nat]
    /\ cache \in [Workers -> Nat]
    /\ call \in [Workers -> [Slots -> Call]]
    /\ late \in [Workers -> BOOLEAN]

(* An invalidation that will reach w is under way or owed.                  *)
Owed(w) ==
    \/ \E v \in Workers : saved[v] > 0
    \/ \E v \in Workers \ {w} : toMaster[v] > 0
    \/ toWorker[w] > 0

Stale(w) == cache[w] \notin {0, stored}

(* An entry that differs from the database is about to be dropped, whatever *)
(* the order of writes, relays, crashes and reads, unless it was installed  *)
(* by an answer that the cache's reset overtook (late).                     *)
StaleOnlyByLateAnswer ==
    \A w \in Workers : Stale(w) /\ ~late[w] => Owed(w)

(* Such an entry is dropped, unless a worker died before announcing a write.*)
StaleEntryIsDropped ==
    \A w \in Workers :
        Stale(w) /\ ~late[w] ~>
            \/ ~Stale(w)
            \/ late[w]
            \/ \E v \in Workers : ~alive[v] /\ saved[v] > 0

Settled ==
    /\ \A w \in Workers : saved[w] = 0 /\ toMaster[w] = 0 /\ toWorker[w] = 0
    /\ \A w \in Workers, s \in Slots : call[w][s] = Idle

(* ConfigurationContextProvider.ts:36-41: resetConfiguration clears the     *)
(* entry for good until it is refreshed from the storage. Once every        *)
(* message and call is done with, a cached entry is the stored one.         *)
SettledCacheIsCoherent ==
    Settled => \A w \in Workers : ~Stale(w)

==============================================================================
