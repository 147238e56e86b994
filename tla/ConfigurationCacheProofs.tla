----------------------- MODULE ConfigurationCacheProofs -----------------------
(***************************************************************************)
(* The invalidation of cached configurations, for any number of workers,   *)
(* of concurrent readers and of writes.                                    *)
(*                                                                         *)
(* That stale entries are about to be dropped is not inductive: an entry   *)
(* may be installed by a call that has been pending for long.  IInv says   *)
(* the same of the rows that pending calls hold, and that a dead worker    *)
(* has neither an entry nor a pending call.                                *)
(***************************************************************************)
EXTENDS ConfigurationCache, TLAPS

(* A pending call that holds an outdated row, unless a reset has overtaken  *)
(* it, is to be overtaken by one.                                           *)
OutdatedAnswersOwed ==
    \A w \in Workers, s \in Slots :
        Overtaken(w, s) /\ ~call[w][s].late => Owed(w)

DeadHoldNothing ==
    \A w \in Workers :
        ~alive[w] => /\ cache[w] = 0
                     /\ \A s \in Slots : call[w][s].phase = "idle"

IInv == /\ TypeOK
        /\ StaleOnlyByLateAnswer
        /\ OutdatedAnswersOwed
        /\ DeadHoldNothing

------------------------------------------------------------------------------

LEMMA InitHolds == Init => IInv
  BY DEF Init, IInv, TypeOK, StaleOnlyByLateAnswer, OutdatedAnswersOwed,
         DeadHoldNothing, Stale, Overtaken, Call, Idle

(* What a reset leaves of w's calls.                                        *)
LEMMA ResetEffect ==
    ASSUME TypeOK, NEW w \in Workers, Reset(w)
    PROVE  /\ cache' = [cache EXCEPT ![w] = 0]
           /\ late' = [late EXCEPT ![w] = FALSE]
           /\ call' \in [Workers -> [Slots -> Call]]
           /\ \A v \in Workers \ {w} : call'[v] = call[v]
           /\ \A s \in Slots :
                 /\ call'[w][s].phase = call[w][s].phase
                 /\ call'[w][s].value = call[w][s].value
                 /\ call'[w][s].late <=> call[w][s].late \/ Overtaken(w, s)
<1> DEFINE marked(s) == [call[w][s] EXCEPT !.late = @ \/ Overtaken(w, s)]
<1>1. call \in [Workers -> [Slots -> Call]] /\ \A s \in Slots : call[w][s] \in Call
  BY DEF TypeOK
<1>2. ASSUME NEW s \in Slots
      PROVE  /\ marked(s) \in Call
             /\ marked(s).phase = call[w][s].phase
             /\ marked(s).value = call[w][s].value
             /\ marked(s).late = (call[w][s].late \/ Overtaken(w, s))
  <2>1. call[w][s] \in Call
    BY <1>1
  <2>2. call[w][s].late \in BOOLEAN
    BY <2>1 DEF Call
  <2>3. (call[w][s].late \/ Overtaken(w, s)) \in BOOLEAN
    BY <2>2 DEF Overtaken
  <2> QED
    BY <2>1, <2>3 DEF Call
<1>3. call' = [call EXCEPT ![w] = [s \in Slots |-> marked(s)]]
  BY DEF Reset
<1> HIDE DEF marked
<1>4. [s \in Slots |-> marked(s)] \in [Slots -> Call]
  BY <1>2
<1>5. call' \in [Workers -> [Slots -> Call]]
  BY <1>1, <1>3, <1>4
<1>6. \A v \in Workers \ {w} : call'[v] = call[v]
  BY <1>1, <1>3
<1>7. \A s \in Slots : call'[w][s] = marked(s)
  BY <1>1, <1>3
<1> QED
  BY <1>2, <1>5, <1>6, <1>7 DEF Reset

(* Replacing one call of w.                                                 *)
LEMMA CallEffect ==
    ASSUME TypeOK, NEW w \in Workers, NEW s \in Slots, NEW c \in Call,
           call' = [call EXCEPT ![w][s] = c]
    PROVE  /\ call' \in [Workers -> [Slots -> Call]]
           /\ call'[w][s] = c
           /\ \A v \in Workers, t \in Slots :
                 v # w \/ t # s => call'[v][t] = call[v][t]
<1>1. call \in [Workers -> [Slots -> Call]]
  BY DEF TypeOK
<1>2. [call[w] EXCEPT ![s] = c] \in [Slots -> Call]
  BY <1>1
<1>3. call' = [call EXCEPT ![w] = [call[w] EXCEPT ![s] = c]]
  BY <1>1
<1> QED
  BY <1>1, <1>2, <1>3

(* Replacing every call of w by an idle one.                                *)
LEMMA ExitEffect ==
    ASSUME TypeOK, NEW w \in Workers, Exit(w)
    PROVE  /\ call' \in [Workers -> [Slots -> Call]]
           /\ \A s \in Slots : call'[w][s] = Idle
           /\ \A v \in Workers \ {w} : call'[v] = call[v]
<1>1. call \in [Workers -> [Slots -> Call]]
  BY DEF TypeOK
<1>2. [s \in Slots |-> Idle] \in [Slots -> Call]
  BY DEF Idle, Call
<1> QED
  BY <1>1, <1>2 DEF Exit

(* Ask is the replacement of one call by an asked one.                      *)
LEMMA AskEffect ==
    ASSUME TypeOK, NEW w \in Workers, NEW s \in Slots, Ask(w, s)
    PROVE  \E c \in Call :
              c.phase = "asked" /\ call' = [call EXCEPT ![w][s] = c]
<1> DEFINE c == [call[w][s] EXCEPT !.phase = "asked"]
<1>1. call \in [Workers -> [Slots -> Call]] /\ call[w][s] \in Call
  BY DEF TypeOK
<1>2. c \in Call /\ c.phase = "asked"
  BY <1>1 DEF Call
<1>3. call' = [call EXCEPT ![w][s] = c]
  BY <1>1 DEF Ask
<1> QED
  BY <1>2, <1>3

------------------------------------------------------------------------------

(* Every step keeps the types.                                              *)
LEMMA TypeStep == TypeOK /\ [Next]_vars => TypeOK'
<1> SUFFICES ASSUME TypeOK, [Next]_vars
             PROVE  TypeOK'
  OBVIOUS
<1>1. ASSUME NEW w \in Workers, Save(w)
      PROVE  TypeOK'
  BY <1>1 DEF Save, TypeOK
<1>2. ASSUME NEW w \in Workers, Delete(w)
      PROVE  TypeOK'
  BY <1>2 DEF Delete, TypeOK
<1>3. ASSUME NEW w \in Workers, Reset(w)
      PROVE  /\ cache' \in [Workers -> Nat]
             /\ call' \in [Workers -> [Slots -> Call]]
             /\ late' \in [Workers -> BOOLEAN]
  <2>1. /\ cache' = [cache EXCEPT ![w] = 0]
        /\ late' = [late EXCEPT ![w] = FALSE]
        /\ call' \in [Workers -> [Slots -> Call]]
    BY <1>3, ResetEffect
  <2>2. cache \in [Workers -> Nat] /\ late \in [Workers -> BOOLEAN]
    BY DEF TypeOK
  <2>3. cache' \in [Workers -> Nat]
    BY <2>1, <2>2
  <2>4. late' \in [Workers -> BOOLEAN]
    BY <2>1, <2>2
  <2> QED
    BY <2>1, <2>3, <2>4
<1>4. ASSUME NEW w \in Workers, Dispatch(w)
      PROVE  TypeOK'
  BY <1>3, <1>4 DEF Dispatch, TypeOK
<1>5. ASSUME NEW w \in Workers, Forward(w)
      PROVE  TypeOK'
  BY <1>5 DEF Forward, TypeOK
<1>6. ASSUME NEW w \in Workers, Receive(w)
      PROVE  TypeOK'
  BY <1>3, <1>6 DEF Receive, TypeOK
<1>7. ASSUME NEW w \in Workers, NEW s \in Slots, Ask(w, s)
      PROVE  TypeOK'
  <2>1. call' \in [Workers -> [Slots -> Call]]
    BY <1>7, AskEffect, CallEffect
  <2> QED
    BY <1>7, <2>1 DEF Ask, TypeOK
<1>8. ASSUME NEW w \in Workers, NEW s \in Slots, ReadRow(w, s)
      PROVE  TypeOK'
  <2>1. [phase |-> "answered", value |-> stored, late |-> FALSE] \in Call
    BY DEF Call, TypeOK
  <2>2. call' \in [Workers -> [Slots -> Call]]
    BY <1>8, <2>1, CallEffect DEF ReadRow
  <2> QED
    BY <1>8, <2>2 DEF ReadRow, TypeOK
<1>9. ASSUME NEW w \in Workers, NEW s \in Slots, Install(w, s)
      PROVE  TypeOK'
  <2>1. Idle \in Call
    BY DEF Call, Idle
  <2>2. call' \in [Workers -> [Slots -> Call]]
    BY <1>9, <2>1, CallEffect DEF Install
  <2>3. call[w][s].value \in Nat /\ call[w][s].late \in BOOLEAN
    BY DEF TypeOK, Call
  <2>4. cache' \in [Workers -> Nat] /\ late' \in [Workers -> BOOLEAN]
    BY <1>9, <2>3 DEF Install, TypeOK
  <2> QED
    BY <1>9, <2>2, <2>4 DEF Install, TypeOK
<1>10. ASSUME NEW w \in Workers, Exit(w)
       PROVE  TypeOK'
  BY <1>10, ExitEffect DEF Exit, TypeOK
<1>11. CASE UNCHANGED vars
  BY <1>11 DEF vars, TypeOK
<1> QED
  BY <1>1, <1>2, <1>4, <1>5, <1>6, <1>7, <1>8, <1>9, <1>10, <1>11 DEF Next

(* What the cache, late and the calls of one worker must satisfy.           *)
WorkerInv(w) ==
    /\ Stale(w) /\ ~late[w] => Owed(w)
    /\ \A s \in Slots : Overtaken(w, s) /\ ~call[w][s].late => Owed(w)
    /\ ~alive[w] => cache[w] = 0
    /\ ~alive[w] => \A s \in Slots : call[w][s].phase = "idle"

LEMMA InvByWorker ==
    IInv <=> TypeOK /\ \A w \in Workers : WorkerInv(w)
  BY DEF IInv, WorkerInv, StaleOnlyByLateAnswer, OutdatedAnswersOwed,
         DeadHoldNothing

(* A worker whose cache is reset has nothing to wait for.                   *)
LEMMA ResetSettles ==
    ASSUME IInv, NEW w \in Workers, Reset(w), UNCHANGED <<alive, stored>>
    PROVE  WorkerInv(w)'
<1>1. cache'[w] = 0
  BY ResetEffect DEF IInv, TypeOK
<1>2. \A s \in Slots : Overtaken(w, s)' => call'[w][s].late
  BY ResetEffect DEF IInv, Overtaken
<1>3. ~alive'[w] => \A s \in Slots : call'[w][s].phase = "idle"
  BY ResetEffect DEF IInv, DeadHoldNothing
<1> QED
  BY <1>1, <1>2, <1>3 DEF WorkerInv, Stale

(* A worker that a step leaves alone keeps its invariant, if what it is     *)
(* owed it is still owed.                                                   *)
LEMMA Undisturbed ==
    ASSUME NEW w \in Workers, WorkerInv(w), UNCHANGED stored,
           cache'[w] = cache[w], late'[w] = late[w], call'[w] = call[w],
           alive'[w] = alive[w], Owed(w) => Owed(w)'
    PROVE  WorkerInv(w)'
  BY DEF WorkerInv, Stale, Overtaken

------------------------------------------------------------------------------

LEMMA InvStep == IInv /\ [Next]_vars => IInv'
<1> SUFFICES ASSUME IInv, [Next]_vars
             PROVE  IInv'
  OBVIOUS
<1>1. TypeOK /\ TypeOK' /\ \A v \in Workers : WorkerInv(v)
  BY TypeStep, InvByWorker
<1>2. SUFFICES \A v \in Workers : WorkerInv(v)'
  BY <1>1, <1>2 DEF IInv, WorkerInv, StaleOnlyByLateAnswer,
                    OutdatedAnswersOwed, DeadHoldNothing
(* A write is owed to everyone.                                             *)
<1>3. ASSUME NEW w \in Workers, Save(w) \/ Delete(w)
      PROVE  \A v \in Workers : WorkerInv(v)'
  <2>1. saved'[w] > 0
    BY <1>1, <1>3 DEF Save, Delete, TypeOK
  <2>2. \A v \in Workers : Owed(v)'
    BY <2>1 DEF Owed
  <2>3. UNCHANGED <<alive, cache, call, late>>
    BY <1>3 DEF Save, Delete
  <2> QED
    BY <1>1, <2>2, <2>3 DEF WorkerInv
(* The invalidation passes from saved[w] to toMaster[w]; w's own is done.   *)
<1>4. ASSUME NEW w \in Workers, Dispatch(w)
      PROVE  \A v \in Workers : WorkerInv(v)'
  <2>1. WorkerInv(w)'
    BY <1>4, ResetSettles DEF Dispatch
  <2>2. ASSUME NEW v \in Workers \ {w}
        PROVE  WorkerInv(v)'
    <3>1. toMaster'[w] > 0
      BY <1>1, <1>4 DEF Dispatch, TypeOK
    <3>2. Owed(v)'
      BY <3>1 DEF Owed
    <3>3. /\ cache'[v] = cache[v] /\ late'[v] = late[v]
          /\ call'[v] = call[v] /\ UNCHANGED <<alive, stored>>
      BY <1>1, <1>4, ResetEffect DEF Dispatch, TypeOK
    <3> QED
      BY <1>1, <3>2, <3>3, Undisturbed
  <2> QED
    BY <2>1, <2>2
(* It passes on from toMaster[w] to every live worker but w.                *)
<1>5. ASSUME NEW w \in Workers, Forward(w)
      PROVE  \A v \in Workers : WorkerInv(v)'
  <2> SUFFICES ASSUME NEW v \in Workers
               PROVE  WorkerInv(v)'
    OBVIOUS
  <2>1. UNCHANGED <<alive, stored, saved, cache, call, late>>
    BY <1>5 DEF Forward
  <2>2. CASE ~alive[v]
    BY <1>1, <2>1, <2>2 DEF WorkerInv, Stale, Overtaken
  <2>3. CASE alive[v] /\ v # w
    <3>1. toWorker'[v] > 0
      BY <1>1, <1>5, <2>3 DEF Forward, Relayed, TypeOK
    <3> QED
      BY <1>1, <2>1, <3>1, Undisturbed DEF Owed
  <2>4. CASE v = w
    <3>1. /\ toWorker'[v] = toWorker[v]
          /\ \A u \in Workers \ {v} : toMaster'[u] = toMaster[u]
      BY <1>1, <1>5, <2>4 DEF Forward, Relayed, TypeOK
    <3>2. Owed(v) => Owed(v)'
      BY <2>1, <3>1 DEF Owed
    <3> QED
      BY <1>1, <2>1, <3>2, Undisturbed
  <2> QED
    BY <1>1, <2>2, <2>3, <2>4 DEF TypeOK
<1>6. ASSUME NEW w \in Workers, Receive(w)
      PROVE  \A v \in Workers : WorkerInv(v)'
  <2>1. WorkerInv(w)'
    BY <1>6, ResetSettles DEF Receive
  <2>2. ASSUME NEW v \in Workers \ {w}
        PROVE  WorkerInv(v)'
    <3>1. /\ cache'[v] = cache[v] /\ late'[v] = late[v]
          /\ call'[v] = call[v] /\ toWorker'[v] = toWorker[v]
          /\ UNCHANGED <<alive, stored, saved, toMaster>>
      BY <1>1, <1>6, ResetEffect DEF Receive, TypeOK
    <3>2. Owed(v) => Owed(v)'
      BY <3>1 DEF Owed
    <3> QED
      BY <1>1, <3>1, <3>2, Undisturbed
  <2> QED
    BY <2>1, <2>2
<1>7. ASSUME NEW w \in Workers, NEW s \in Slots, NEW c \in Call,
             call' = [call EXCEPT ![w][s] = c],
             c.phase = "answered" => c.value = stored,
             alive[w],
             UNCHANGED <<alive, stored, saved, toMaster, toWorker>>,
             \A v \in Workers :
                \/ cache'[v] = cache[v] /\ late'[v] = late[v]
                \/ v = w /\ (Stale(w)' /\ ~late'[w] => Owed(w))
      PROVE  \A v \in Workers : WorkerInv(v)'
  <2> SUFFICES ASSUME NEW v \in Workers
               PROVE  WorkerInv(v)'
    OBVIOUS
  <2>1. Owed(v)' <=> Owed(v)
    BY <1>7 DEF Owed
  <2>2. \A t \in Slots :
           \/ v = w /\ t = s /\ call'[v][t] = c
           \/ call'[v][t] = call[v][t]
    BY <1>1, <1>7, CallEffect
  <2>3. \A t \in Slots : Overtaken(v, t)' /\ ~call'[v][t].late => Owed(v)'
    BY <1>1, <1>7, <2>1, <2>2 DEF WorkerInv, Overtaken
  <2>4. Stale(v)' /\ ~late'[v] => Owed(v)'
    BY <1>1, <1>7, <2>1 DEF WorkerInv, Stale
  <2>5. ~alive'[v] =>
           cache'[v] = 0 /\ \A t \in Slots : call'[v][t].phase = "idle"
    BY <1>1, <1>7, <2>2 DEF WorkerInv
  <2> QED
    BY <2>3, <2>4, <2>5 DEF WorkerInv
<1>8. ASSUME NEW w \in Workers, NEW s \in Slots, call[w][s].phase # "idle"
      PROVE  alive[w]
  BY <1>1, <1>8 DEF WorkerInv
<1>9. ASSUME NEW w \in Workers, NEW s \in Slots, Ask(w, s)
      PROVE  \A v \in Workers : WorkerInv(v)'
  <2>1. PICK c \in Call :
           c.phase = "asked" /\ call' = [call EXCEPT ![w][s] = c]
    BY <1>1, <1>9, AskEffect
  <2> QED
    BY <1>7, <1>9, <2>1 DEF Ask
<1>10. ASSUME NEW w \in Workers, NEW s \in Slots, ReadRow(w, s)
       PROVE  \A v \in Workers : WorkerInv(v)'
  <2> DEFINE c == [phase |-> "answered", value |-> stored, late |-> FALSE]
  <2>1. c \in Call
    BY <1>1 DEF TypeOK, Call
  <2>2. alive[w]
    BY <1>8, <1>10 DEF ReadRow
  <2>3. call' = [call EXCEPT ![w][s] = c] /\ c.value = stored
    BY <1>10 DEF ReadRow
  <2> HIDE DEF c
  <2> QED
    BY <1>7, <1>10, <2>1, <2>2, <2>3 DEF ReadRow
(* The row of the call becomes the entry, and is owed what the call was.    *)
<1>11. ASSUME NEW w \in Workers, NEW s \in Slots, Install(w, s)
       PROVE  \A v \in Workers : WorkerInv(v)'
  <2>1. alive[w]
    BY <1>8, <1>11 DEF Install
  <2>2. Idle \in Call /\ Idle.phase = "idle"
    BY DEF Idle, Call
  <2>3. ASSUME NEW v \in Workers
        PROVE  \/ cache'[v] = cache[v] /\ late'[v] = late[v]
               \/ v = w /\ (Stale(w)' /\ ~late'[w] => Owed(w))
    <3>1. CASE call[w][s].value = 0 \/ v # w
      BY <1>1, <1>11, <3>1 DEF Install, TypeOK
    <3>2. CASE call[w][s].value # 0 /\ v = w
      <4>1. /\ cache'[w] = call[w][s].value
            /\ late'[w] = call[w][s].late
            /\ stored' = stored
        BY <1>1, <1>11, <3>2 DEF Install, TypeOK
      <4>2. Stale(w)' => Overtaken(w, s)
        BY <1>11, <4>1 DEF Install, Stale, Overtaken
      <4> QED
        BY <1>1, <3>2, <4>1, <4>2 DEF WorkerInv
    <3> QED
      BY <3>1, <3>2
  <2>4. /\ call' = [call EXCEPT ![w][s] = Idle]
        /\ UNCHANGED <<alive, stored, saved, toMaster, toWorker>>
    BY <1>11 DEF Install
  <2> QED
    BY <1>7, <2>1, <2>2, <2>3, <2>4
<1>12. ASSUME NEW w \in Workers, Exit(w)
       PROVE  \A v \in Workers : WorkerInv(v)'
  <2>1. WorkerInv(w)'
    BY <1>1, <1>12, ExitEffect DEF Exit, WorkerInv, Stale, Overtaken, Idle, TypeOK
  <2>2. ASSUME NEW v \in Workers \ {w}
        PROVE  WorkerInv(v)'
    <3>1. /\ cache'[v] = cache[v] /\ late'[v] = late[v]
          /\ call'[v] = call[v] /\ toWorker'[v] = toWorker[v]
          /\ alive'[v] = alive[v] /\ UNCHANGED <<stored, saved, toMaster>>
      BY <1>1, <1>12, ExitEffect DEF Exit, TypeOK
    <3>2. Owed(v) => Owed(v)'
      BY <3>1 DEF Owed
    <3> QED
      BY <1>1, <3>1, <3>2, Undisturbed
  <2> QED
    BY <2>1, <2>2
<1>13. CASE UNCHANGED vars
  BY <1>1, <1>13 DEF vars, WorkerInv, Stale, Overtaken, Owed
<1> QED
  BY <1>3, <1>4, <1>5, <1>6, <1>9, <1>10, <1>11, <1>12, <1>13 DEF Next

THEOREM Invariance == Spec => []IInv
<1>1. Init => IInv
  BY InitHolds
<1>2. IInv /\ [Next]_vars => IInv'
  BY InvStep
<1> QED
  BY <1>1, <1>2, PTL DEF Spec

(* Every variable keeps its type, for any number of workers, of concurrent  *)
(* readers and of writes.                                                   *)
THEOREM TypeCorrect == Spec => []TypeOK
<1>1. IInv => TypeOK
  BY DEF IInv
<1> QED
  BY <1>1, Invariance, PTL

(* A cached configuration that differs from the stored one is about to be   *)
(* dropped, or was installed by an answer that a reset had overtaken: the   *)
(* only way in which the relay through the master leaves a stale entry.     *)
THEOREM OnlyLateAnswersLinger == Spec => []StaleOnlyByLateAnswer
<1>1. IInv => StaleOnlyByLateAnswer
  BY DEF IInv
<1> QED
  BY <1>1, Invariance, PTL

==============================================================================
