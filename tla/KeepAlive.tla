------------------------------- MODULE KeepAlive -------------------------------
(***************************************************************************)
(* KeepAliveManager of one websocket connection: after PingTimeout without *)
(* a frame from the peer it sends a ping, and PingTimeout after the ping's *)
(* sendDataFrame has resolved it takes the connection for lost, unless a   *)
(* frame clears the timer.                                                 *)
(*                                                                         *)
(* Time is a number of ticks; a timer is the ticks it has left, and time   *)
(* stands still while one is due.  A ping goes through the outgoing queue  *)
(* of the connection (module WebsocketConnection): it may wait there       *)
(* behind other frames, and its promise may wait for "drain" after it is   *)
(* on the wire.                                                            *)
(***************************************************************************)
EXTENDS Integers

CONSTANTS
    PingTimeout, \* context.pingTimeout, in ticks
    MaxFrames    \* bound: frames of the peer

ASSUME TimeoutAssumption == PingTimeout \in Nat \ {0}
ASSUME FramesAssumption == MaxFrames \in Nat

VARIABLES
    state,      \* state of the connection
    peer,       \* "live", or "dead": it neither sends nor reads any more
    blocked,    \* the socket's buffer is full: nothing leaves the queue
    received,   \* number of frames handled
    nextPing,   \* timer of nextPingTimeoutId
    errorTimer, \* timer of connectivityErrorTimoutId
    orphans,    \* error timers whose id has been overwritten
    queued,     \* sendPing calls whose ping is still on the outgoing queue
    flushing,   \* a sendPing call whose written ping waits for "drain"
    owes,       \* history: ticks for which a written ping has gone unanswered
    overtaken   \* history: a frame was handled while a ping was on its way out,
                \* and the timers it may have left behind are not yet gone

timers == <<nextPing, errorTimer, orphans>>
vars == <<state, peer, blocked, received, timers, queued, flushing, owes,
          overtaken>>

Off == -1

Timer == {Off} \cup 0..PingTimeout

Due == nextPing = 0 \/ errorTimer = 0 \/ 0 \in orphans

OnItsWay == queued > 0 \/ flushing

(* The constructor arms the ping timer of a new connection.                 *)
Init ==
    /\ state = "Open"
    /\ peer = "live"
    /\ blocked = FALSE
    /\ received = 0
    /\ nextPing = PingTimeout
    /\ errorTimer = Off
    /\ orphans = {}
    /\ queued = 0
    /\ flushing = FALSE
    /\ owes = Off
    /\ overtaken = FALSE

------------------------------------------------------------------------------

(* stop().                                                                  *)
Stop ==
    /\ nextPing' = Off
    /\ errorTimer' = Off
    /\ UNCHANGED orphans

(* close() of an open connection: the state listener stops the timers.      *)
Close ==
    IF state = "Open"
    THEN state' = "Closing" /\ Stop
    ELSE UNCHANGED <<state, timers>>

(* sendPing after its await: the id of a timer that still runs is lost.     *)
ArmErrorTimer ==
    /\ errorTimer' = PingTimeout
    /\ orphans' = IF errorTimer = Off THEN orphans
                                      ELSE orphans \cup {errorTimer}

(* Mutant of SendPing: pings repeat until the timer is cleared.             *)
SendPingRepeats ==
    /\ nextPing = 0
    /\ nextPing' = PingTimeout
    /\ IF state = "Open"
       THEN queued' = queued + 1 /\ UNCHANGED <<errorTimer, orphans>>
       ELSE ArmErrorTimer /\ UNCHANGED queued
    /\ UNCHANGED <<state, peer, blocked, received, flushing, owes, overtaken>>

(* sendPing. A closing connection drops the ping and resolves at once.      *)
SendPing ==
    /\ nextPing = 0
    /\ nextPing' = Off
    /\ IF state = "Open"
       THEN queued' = queued + 1 /\ UNCHANGED <<errorTimer, orphans>>
       ELSE ArmErrorTimer /\ UNCHANGED queued
    /\ UNCHANGED <<state, peer, blocked, received, flushing, owes, overtaken>>

(* The ping reaches the head of the queue and is written; the promise       *)
(* resolves, or waits for "drain".  A socket that has been ended, or that   *)
(* is closed, is not written to.                                            *)
PingWritten ==
    /\ queued > 0
    /\ ~flushing
    /\ ~blocked \/ state # "Open"
    /\ queued' = queued - 1
    /\ owes' = IF owes = Off /\ state # "Closed" THEN 0 ELSE owes
    /\ \/ /\ ArmErrorTimer
          /\ UNCHANGED flushing
       \/ /\ state # "Closed"
          /\ flushing' = TRUE
          /\ UNCHANGED <<errorTimer, orphans>>
    /\ UNCHANGED <<state, peer, blocked, received, nextPing, overtaken>>

(* "drain", for a ping that is on the wire.                                 *)
PingFlushed ==
    /\ flushing
    /\ peer = "live"
    /\ state # "Closed"
    /\ flushing' = FALSE
    /\ ArmErrorTimer
    /\ UNCHANGED <<state, peer, blocked, received, nextPing, queued, owes,
                   overtaken>>

(* Mutant of Rearm: the error timer is left alone.                          *)
RearmPingOnly ==
    /\ nextPing' = PingTimeout
    /\ UNCHANGED <<errorTimer, orphans>>

(* Mutant of Rearm: the ping timer is extended, not restarted.              *)
RearmExtends ==
    /\ errorTimer' = Off
    /\ nextPing' = IF nextPing = Off THEN PingTimeout ELSE nextPing + PingTimeout
    /\ UNCHANGED orphans

(* Mutant of Rearm: the ping timer is restarted only if it still runs.      *)
RearmIfArmed ==
    /\ errorTimer' = Off
    /\ nextPing' = IF nextPing = Off THEN Off ELSE PingTimeout
    /\ UNCHANGED orphans

(* handleIncomingMessage: any frame proves the peer alive.                  *)
Rearm ==
    /\ errorTimer' = Off
    /\ nextPing' = PingTimeout
    /\ UNCHANGED orphans

(* A frame is dispatched. The listener runs before the frame is processed,  *)
(* and for a Close frame even when the connection is closing.               *)
Receive(isClose) ==
    /\ peer = "live"
    /\ received < MaxFrames
    /\ received' = received + 1
    /\ isClose \/ state = "Open"
    /\ IF isClose /\ state = "Open" THEN Close  \* undoes Rearm
       ELSE Rearm /\ UNCHANGED state
    /\ owes' = Off
    /\ overtaken' = (OnItsWay \/ orphans # {})
    /\ UNCHANGED <<peer, blocked, queued, flushing>>

(* Mutant of ErrorTimerFires: reported only, the connection is kept.        *)
ErrorTimerReports ==
    /\ errorTimer = 0
    /\ errorTimer' = Off
    /\ UNCHANGED <<state, peer, blocked, received, nextPing, orphans, queued,
                   flushing, owes, overtaken>>

(* handleLostConnection, by the timer whose id is known...                  *)
ErrorTimerFires ==
    /\ errorTimer = 0
    /\ errorTimer' = Off
    /\ state' = IF state = "Open" THEN "Closing" ELSE state
    /\ nextPing' = IF state = "Open" THEN Off ELSE nextPing
    /\ UNCHANGED <<peer, blocked, received, orphans, queued, flushing, owes,
                   overtaken>>

(* ...and by one that nothing could clear.                                  *)
OrphanFires ==
    /\ 0 \in orphans
    /\ orphans' = orphans \ {0}
    /\ state' = IF state = "Open" THEN "Closing" ELSE state
    /\ nextPing' = IF state = "Open" THEN Off ELSE nextPing
    /\ errorTimer' = IF state = "Open" THEN Off ELSE errorTimer
    /\ UNCHANGED <<peer, blocked, received, queued, flushing, owes, overtaken>>

(* The application closes the connection, or the socket is gone.            *)
AppClose ==
    /\ state = "Open"
    /\ Close
    /\ UNCHANGED <<peer, blocked, received, queued, flushing, owes, overtaken>>

SocketClose ==
    /\ state # "Closed"
    /\ state' = "Closed"
    /\ Stop
    /\ UNCHANGED <<peer, blocked, received, queued, flushing, owes, overtaken>>

------------------------------------------------------------------------------
(* The environment                                                           *)

PeerDies ==
    /\ peer = "live"
    /\ peer' = "dead"
    /\ UNCHANGED <<state, blocked, received, timers, queued, flushing, owes,
                   overtaken>>

(* Frames ahead of the pings fill the buffer; a peer that reads empties it. *)
Block ==
    /\ ~blocked
    /\ state = "Open"
    /\ blocked' = TRUE
    /\ UNCHANGED <<state, peer, received, timers, queued, flushing, owes,
                   overtaken>>

Unblock ==
    /\ blocked
    /\ peer = "live"
    /\ blocked' = FALSE
    /\ UNCHANGED <<state, peer, received, timers, queued, flushing, owes,
                   overtaken>>

Elapse(timer) == IF timer = Off THEN Off ELSE timer - 1

Tick ==
    /\ ~Due
    /\ nextPing' = Elapse(nextPing)
    /\ errorTimer' = Elapse(errorTimer)
    /\ orphans' = {Elapse(t) : t \in orphans}
    /\ owes' = IF owes \in {Off, PingTimeout} THEN owes ELSE owes + 1
    /\ UNCHANGED <<state, peer, blocked, received, queued, flushing, overtaken>>

------------------------------------------------------------------------------

Next ==
    \/ SendPing
    \/ PingWritten
    \/ PingFlushed
    \/ \E isClose \in BOOLEAN : Receive(isClose)
    \/ ErrorTimerFires
    \/ OrphanFires
    \/ AppClose
    \/ SocketClose
    \/ PeerDies
    \/ Block
    \/ Unblock
    \/ Tick

(* Time passes, due timers fire and the outgoing queue moves on when the    *)
(* socket lets it; the peer owes nothing.                                   *)
Fairness ==
    /\ WF_vars(Tick)
    /\ WF_vars(SendPing)
    /\ WF_vars(ErrorTimerFires)
    /\ WF_vars(OrphanFires)
    /\ WF_vars(PingWritten)

Spec == Init /\ [][Next]_vars /\ Fairness

------------------------------------------------------------------------------
(* Properties                                                                *)

TypeOK ==
    /\ state \in {"Open", "Closing", "Closed"}
    /\ peer \in {"live", "dead"}
    /\ blocked \in BOOLEAN
    /\ received \in Nat
    /\ nextPing \in Timer
    /\ errorTimer \in Timer
    /\ orphans \subseteq 0..PingTimeout
    /\ queued \in Nat
    /\ flushing \in BOOLEAN
    /\ owes \in Timer
    /\ overtaken \in BOOLEAN

(* A connection is given up only when a written ping has gone unanswered    *)
(* for PingTimeout, except when a frame was handled while a ping was on its *)
(* way out: then the error timer may be started for a ping already          *)
(* answered, or lose its id to the next ping's.                             *)
LostOnlyAfterSilence ==
    \A timer \in orphans \cup {errorTimer} :
        state = "Open" /\ timer = 0 => owes = PingTimeout \/ overtaken

(* An open connection is never left without a timer or a ping on its way.   *)
AlwaysWatched ==
    state = "Open" =>
        nextPing # Off \/ errorTimer # Off \/ orphans # {} \/ OnItsWay

(* A dead peer is noticed, unless its full buffer keeps a ping from being   *)
(* written or its promise from resolving.                                   *)
DeadPeerNoticed ==
    peer = "dead" ~> state # "Open" \/ blocked \/ flushing

(* Timers started after stop() (by a Close frame handled while closing, or  *)
(* by a ping written late) run out.                                         *)
TimersRunOut ==
    state = "Closed" ~> nextPing = Off /\ errorTimer = Off /\ orphans = {}

==============================================================================
