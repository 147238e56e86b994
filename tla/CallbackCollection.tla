------------------------- MODULE CallbackCollection -------------------------
(***************************************************************************)
(* The list of callbacks that connections, buffers and messengers hand     *)
(* their events out with (utils/CallbackCollection.ts).  Executing it      *)
(* iterates over a Map while the callbacks themselves, and the onComplete  *)
(* of a limit, may add, remove and execute callbacks or throw: executions  *)
(* nest.  A registration is a number, given out in the order in which the  *)
(* Map holds them.                                                         *)
(***************************************************************************)
EXTENDS Naturals, Sequences, FiniteSets

CONSTANTS
    Callbacks,  \* the functions
    Data,       \* what they are executed with
    Guards,     \* sets of data that a guard lets pass
    CallLimits,   \* limits of executions, 0 for none
    MaxAdded,   \* bound: registrations
    MaxExecuted,\* bound: executions
    MaxNested   \* bound: executions within executions

ASSUME CallbackAssumption ==
    /\ Guards \subseteq SUBSET Data
    /\ CallLimits \subseteq Nat
    /\ MaxAdded \in Nat /\ MaxExecuted \in Nat /\ MaxNested \in Nat

VARIABLES
    registered, \* the registrations of the Map
    properties, \* all registrations: [callback, guard, limit, count], and
                \* what has happened to one with a limit: its calls that
                \* `begun` and did not throw; and whether it is `excused`:
                \* called within a call of its own, or onComplete has thrown
    executing,  \* executions under way, the innermost last: [data, last,
                \* calls, completing (it is in onComplete), since, called]
    executed    \* executions so far (bound)

callbackVars == <<registered, properties, executing, executed>>

CallbacksInit ==
    /\ registered = {}
    /\ properties = <<>>
    /\ executing = <<>>
    /\ executed = 0

(* Outside of any execution, or in the body of the callback that the        *)
(* innermost one has called, or in its onComplete.                          *)
Free == executing # <<>> => executing[Len(executing)].calls # 0
Top == executing[Len(executing)]
SetTop(execution) == executing' = [executing EXCEPT ![Len(executing)] = execution]

has(callback) == \E r \in registered : properties[r].callback = callback

add(callback, guard, limit) ==
    /\ Free
    /\ Len(properties) < MaxAdded
    /\ ~has(callback)
    /\ registered' = registered \cup {Len(properties) + 1}
    /\ properties' = Append(properties,
           [callback |-> callback, guard |-> guard, limit |-> limit, count |-> 0,
            begun |-> 0, excused |-> FALSE])
    /\ UNCHANGED <<executing, executed>>

Without(callback) == {r \in registered : properties[r].callback # callback}

remove(callback) ==
    /\ Free
    /\ has(callback)
    /\ registered' = Without(callback)
    /\ UNCHANGED <<properties, executing, executed>>

clear ==
    /\ Free
    /\ registered' = {}
    /\ UNCHANGED <<properties, executing, executed>>

execute(data) ==
    /\ Free
    /\ executed < MaxExecuted
    /\ Len(executing) <= MaxNested
    /\ executing' = Append(executing,
           [data |-> data, last |-> 0, calls |-> 0, completing |-> FALSE,
            since |-> registered, called |-> <<>>])
    /\ executed' = executed + 1
    /\ UNCHANGED <<registered, properties>>

Ahead == {r \in registered : r > Top.last}

(* An iterator by position: what is removed behind it makes it skip.        *)
IsNextByPosition(r) ==
    /\ r \in registered
    /\ Cardinality({q \in registered : q < r}) = Cardinality(
           {q \in 1 .. Top.last : q \in Top.since})

(* The Map's iterator goes to the entry after the last one that is still    *)
(* there, or has come meanwhile.                                            *)
IsNext(r) == r \in Ahead /\ \A q \in Ahead : r <= q

(* Only with a limit is there anything to count.                            *)
Tally(r, registration) ==
    properties' = IF properties[r].limit = 0 THEN properties
                  ELSE [properties EXCEPT ![r] = registration]

UnderWay(r) == \E i \in 1 .. Len(executing) : executing[i].calls = r

CallNext(r) ==
    /\ ~Free
    /\ IsNext(r)
    /\ IF Top.data \in properties[r].guard
       THEN /\ SetTop([Top EXCEPT !.last = r, !.calls = r, !.called = Append(@, r)])
            /\ Tally(r, [properties[r] EXCEPT !.begun = @ + 1,
                                              !.excused = @ \/ UnderWay(r)])
       ELSE /\ SetTop([Top EXCEPT !.last = r])
            /\ UNCHANGED properties
    /\ UNCHANGED <<registered, executed>>

Reached(r) == properties[r].limit # 0 /\ properties[r].count + 1 = properties[r].limit

(* The callback returns.  Whoever reaches the limit is deleted, after its    *)
(* onComplete if it has one.                                                *)
Return ==
    /\ executing # <<>> /\ Free /\ ~Top.completing
    /\ Tally(Top.calls, [properties[Top.calls] EXCEPT !.count = @ + 1])
    /\ \/ /\ Reached(Top.calls)
          /\ SetTop([Top EXCEPT !.completing = TRUE])
          /\ UNCHANGED registered
       \/ /\ SetTop([Top EXCEPT !.calls = 0])
          /\ registered' = IF Reached(Top.calls)
                           THEN Without(properties[Top.calls].callback) ELSE registered
    /\ UNCHANGED executed

(* onComplete returns.  It is the key that is deleted: also when it has      *)
(* been registered anew meanwhile.                                          *)
Completed ==
    /\ executing # <<>> /\ Free /\ Top.completing
    /\ SetTop([Top EXCEPT !.calls = 0, !.completing = FALSE])
    /\ registered' = Without(properties[Top.calls].callback)
    /\ UNCHANGED <<properties, executed>>

Pop == executing' = SubSeq(executing, 1, Len(executing) - 1)

(* The callback or its onComplete throws: execute is left, nothing is        *)
(* counted or deleted, and the callback that had called it may catch or     *)
(* throw on.                                                                *)
Throw ==
    /\ executing # <<>> /\ Free
    /\ Pop
    /\ Tally(Top.calls,
             IF Top.completing THEN [properties[Top.calls] EXCEPT !.excused = TRUE]
             ELSE [properties[Top.calls] EXCEPT !.begun = @ - 1])
    /\ UNCHANGED <<registered, executed>>

Exhausted == ~\E r \in registered : IsNext(r)

End ==
    /\ ~Free
    /\ Exhausted
    /\ Pop
    /\ UNCHANGED <<registered, properties, executed>>

CallbacksNext ==
    \/ \E f \in Callbacks, guard \in Guards, limit \in CallLimits : add(f, guard, limit)
    \/ \E f \in Callbacks : remove(f)
    \/ clear
    \/ \E data \in Data : execute(data)
    \/ \E r \in registered : CallNext(r)
    \/ Return \/ Completed
    \/ Throw
    \/ End

CallbacksSpec == CallbacksInit /\ [][CallbacksNext]_callbackVars

------------------------------------------------------------------------------
(* Each execution calls a registration once at most, in the order of        *)
(* registration.                                                            *)
CalledInOrder ==
    \A i \in 1 .. Len(executing) :
        \A j, k \in 1 .. Len(executing[i].called) :
            j < k => executing[i].called[j] < executing[i].called[k]

(* When an execution has nothing left, everyone who was registered all the  *)
(* while and whose guard lets the data pass has been called.                *)
NobodySkipped ==
    (executing # <<>> /\ ~Free /\ Exhausted) =>
        \A r \in Top.since \cap registered :
            Top.data \in properties[r].guard =>
                \E k \in 1 .. Len(Top.called) : Top.called[k] = r

(* No registration, of those ever made, is called more often than its limit, *)
(* a call counting from its beginning, however executions nest.  Excepted    *)
(* are calls that threw, which execute does not count either; a callback     *)
(* that is called from within its own call or onComplete, because execute    *)
(* counts and deletes only afterwards; and one whose onComplete threw, which *)
(* is never deleted.                                                        *)
LimitsKept ==
    \A r \in 1 .. Len(properties) :
        properties[r].limit # 0 /\ ~properties[r].excused =>
            properties[r].begun <= properties[r].limit

(* Handing an event out: everyone concerned, once, in order, and nobody      *)
(* beyond its limit but those LimitsKept excepts, although callbacks add,    *)
(* remove, clear, execute and throw while execute iterates.                 *)
CallbacksServed == CalledInOrder /\ NobodySkipped /\ LimitsKept
==============================================================================
