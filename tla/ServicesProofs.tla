----------------------------- MODULE ServicesProofs -----------------------------
(***************************************************************************)
(* Three services that share no state: the negotiation of compression, the *)
(* platform API and the callback collections.                              *)
(*                                                                         *)
(* Compression: the agent is always the one of the answer that was given.  *)
(*                                                                         *)
(* Calls of the platform API are handled with their own id and rights      *)
(* although the locals are shared, and their log ends with their answer.   *)
(* The inductive invariant says of a call, at each of its stages, what it  *)
(* has read so far; of the log, that nothing is saved before the answer    *)
(* and that the timer does not outlive it.                                 *)
(*                                                                         *)
(* An event is handed out, however callbacks add, remove, clear, execute   *)
(* and throw meanwhile.  The invariant says of every execution under way,  *)
(* not only of the innermost one, that whoever was there from its start    *)
(* and is behind its iterator has been called; and of every registration   *)
(* with a limit, how its calls that have begun, those that are under way   *)
(* and those that execute has counted belong together.                     *)
(***************************************************************************)
EXTENDS WebsocketExtensions, PlatformApi, CallbackCollection, SequenceTheorems,
        WellFoundedInduction, TLAPS

-----------------------------------------------------------------------------
(* Negotiated compression.                                                  *)

ExtensionsInv ==
    /\ {answer.client_max_window_bits, answer.server_max_window_bits} \subseteq Bits \cup {Absent}
    /\ negotiated = "deflate" => agent = Agent(answer)
    /\ negotiated = "no" => unreadable = {}
    /\ AgreedCompression

LEMMA AnswerTypes ==
    ASSUME NEW values, validateConfiguration(values)
    PROVE  {Answer(values).client_max_window_bits, Answer(values).server_max_window_bits}
              \subseteq Bits \cup {Absent}
BY ExtensionsAssumption
DEF Answer, AnsweredBits, validateConfiguration, Known, Bits, DefaultBits, Absent, Bare, Quoted

LEMMA ExtensionsInvInit == ExtensionsInit => ExtensionsInv
BY DEF ExtensionsInit, ExtensionsInv, AgreedCompression, NoAnswer, Absent

LEMMA ExtensionsInvStep == ExtensionsInv /\ [ExtensionsNext]_extensionVars => ExtensionsInv'
<1> SUFFICES ASSUME ExtensionsInv, [ExtensionsNext]_extensionVars PROVE ExtensionsInv'
  OBVIOUS
<1>0. /\ {answer.client_max_window_bits, answer.server_max_window_bits} \subseteq Bits \cup {Absent}
      /\ negotiated = "deflate" => agent = Agent(answer)
      /\ negotiated = "no" => unreadable = {}
      /\ AgreedCompression
  BY DEF ExtensionsInv
<1>1. CASE getExtensionAgentsForConfiguration
  <2>1. UNCHANGED unreadable /\ unreadable = {}
    BY <1>0, <1>1 DEF getExtensionAgentsForConfiguration
  <2>2. \/ negotiated' \in {"plain", "refused"} /\ UNCHANGED <<answer, agent>>
        \/ /\ negotiated' = "deflate" /\ agent' = Agent(answer')
           /\ \E values : validateConfiguration(values) /\ answer' = Answer(values)
    BY <1>1 DEF getExtensionAgentsForConfiguration
  <2>3. {answer'.client_max_window_bits, answer'.server_max_window_bits} \subseteq Bits \cup {Absent}
    BY <1>0, <2>2, AnswerTypes
  <2>. QED
    BY <2>1, <2>2, <2>3 DEF ExtensionsInv, AgreedCompression, Agent
<1>2. CASE incomingDataPipe
  <2>1. /\ negotiated = "deflate" /\ UNCHANGED <<negotiated, answer, agent>>
        /\ \/ UNCHANGED unreadable
           \/ \E window \in 8 .. Window(answer.client_max_window_bits),
                 refers \in {FALSE, messages.in > 0 /\ ~answer.client_no_context_takeover} :
                Inflated(window, refers)
    BY <1>2 DEF incomingDataPipe
  <2>2. agent.peerWindowBits = Window(answer.client_max_window_bits)
    BY <1>0, <2>1 DEF Agent
  <2>3. ASSUME NEW window \in 8 .. Window(answer.client_max_window_bits),
               NEW refers \in {FALSE, messages.in > 0 /\ ~answer.client_no_context_takeover},
               Inflated(window, refers)
        PROVE  /\ unreadable' \subseteq {"context"}
               /\ answer.client_no_context_takeover => unreadable' = {}
    <3>1. Window(answer.client_max_window_bits) \in Nat
      BY <1>0 DEF Window, Bits, DefaultBits, Absent
    <3>2. ~(window > agent.peerWindowBits)
      BY <2>2, <3>1
    <3>3. unreadable' = unreadable \cup (IF refers THEN {"context"} ELSE {})
      BY <2>3, <3>2 DEF Inflated
    <3>4. answer.client_no_context_takeover => ~refers
      BY <2>3
    <3>. QED
      BY <1>0, <3>3, <3>4 DEF AgreedCompression
  <2>4. AgreedCompression'
    BY <1>0, <2>1, <2>3 DEF AgreedCompression
  <2>. QED
    BY <1>0, <2>1, <2>4 DEF ExtensionsInv, Agent
<1>3. CASE outgoingDataPipe
  <2>1. /\ negotiated = "deflate" /\ UNCHANGED <<negotiated, answer, agent>>
        /\ unreadable' = unreadable \cup
               (IF agent.ownWindowBits > Window(answer.server_max_window_bits)
                THEN {"window"} ELSE {})
    BY <1>3 DEF outgoingDataPipe
  <2>2. agent.ownWindowBits = Window(answer.server_max_window_bits)
    BY <1>0, <2>1 DEF Agent
  <2>3. Window(answer.server_max_window_bits) \in Nat
    BY <1>0 DEF Window, Bits, DefaultBits, Absent
  <2>4. unreadable' = unreadable
    BY <2>1, <2>2, <2>3
  <2>. QED
    BY <1>0, <2>1, <2>4 DEF ExtensionsInv, AgreedCompression, Agent
<1>4. CASE ExtensionsDone
  BY <1>4 DEF ExtensionsDone, ExtensionsInv, AgreedCompression, NoAnswer, Absent
<1>5. CASE UNCHANGED extensionVars
  BY <1>0, <1>5 DEF extensionVars, ExtensionsInv, AgreedCompression, Agent
<1>. QED
  BY <1>1, <1>2, <1>3, <1>4, <1>5 DEF ExtensionsNext

(* Whatever is offered and configured, what one side compresses by the      *)
(* answer the other expands, but for messages that refer to earlier ones.   *)
THEOREM CompressionAgrees == ExtensionsSpec => []AgreedCompression
<1>1. ExtensionsInv => AgreedCompression
  BY DEF ExtensionsInv
<1>. QED
  BY <1>1, ExtensionsInvInit, ExtensionsInvStep, PTL DEF ExtensionsSpec

-----------------------------------------------------------------------------
(* The platform API.                                                        *)


Rows == TokenData \cup {Missing}
CallStates == {"none", "registering", "validating", "context", "working", "refused",
               "done", "unauthorized", "unanswered"}
CallRecord == [state : CallStates, kind : Kinds \cup {"drop"}, token : Tokens \cup {Missing},
               id : ApiCalls \cup {Missing}, data : Rows]
AdminRecord == [state : {"none", "checking", "reading", "choosing", "inserting", "deleting",
                         "answered"},
                op : {"create", "delete", "info"}, context : Contexts \cup {Missing},
                token : Tokens \cup {Missing}, data : Rows]

Answered(c) == apiCalls[c].state \in {"unauthorized", "refused", "done"}

(* What is logged is any text.                                              *)
LogTypes ==
    /\ loggers = [c \in ApiCalls |->
           [dataLog |-> loggers[c].dataLog, committed |-> loggers[c].committed,
            timer |-> loggers[c].timer]]
    /\ logs = [c \in ApiCalls |-> logs[c]]

PlatformTypes ==
    /\ apiCalls \in [ApiCalls -> CallRecord]
    /\ locals \in [id : ApiCalls \cup {Missing}, data : Rows]
    /\ held \in [ApiCalls -> SUBSET Rows]
    /\ LogTypes

TokensInv ==
    /\ tokens \in [Tokens -> Rows]
    /\ admins \in [Admins -> AdminRecord]
    /\ \A a \in Admins :
          /\ admins[a].state # "none" => admins[a].token \in Tokens
          /\ admins[a].state = "checking" => admins[a].context \in Contexts
          /\ admins[a].state \in {"choosing", "inserting"} => admins[a].data \in TokenData

(* What a call has read so far is its own.                                  *)
CallOK(c) ==
    /\ apiCalls[c].state # "none" => apiCalls[c].kind \in Kinds
    /\ apiCalls[c].state # "none" /\ apiCalls[c].token # Missing =>
          tokens[apiCalls[c].token] \in held[c]
    /\ apiCalls[c].state \in {"validating", "context"} =>
          apiCalls[c].id = c /\ apiCalls[c].token # Missing
    /\ apiCalls[c].state = "context" =>
          apiCalls[c].data \in held[c] /\ apiCalls[c].data # Missing
    /\ apiCalls[c].state \in {"working", "refused", "done"} =>
          apiCalls[c].id = c /\ apiCalls[c].data \in held[c]
    /\ apiCalls[c].state \in {"working", "done"} =>
          Granted(apiCalls[c].data.accessRights, apiCalls[c].kind)

CallInv == \A c \in ApiCalls : CallOK(c)

(* Nothing is saved before the answer, and nothing but the answer.          *)
LogInv ==
    \A c \in ApiCalls :
        /\ ~Answered(c) =>
              /\ loggers[c].dataLog = <<>>
              /\ logs[c] = <<>>
              /\ \A w \in writes : w.of # c
        /\ Answered(c) =>
              /\ loggers[c].timer = FALSE
              /\ \A w \in writes : w.of = c => w.data = loggers[c].dataLog
              /\ logs[c] = loggers[c].dataLog \/ \E w \in writes : w.of = c

PlatformInv == PlatformTypes /\ TokensInv /\ CallInv /\ LogInv

-----------------------------------------------------------------------------

LEMMA PlatformInvInit == PlatformApiInit => PlatformInv
<1> SUFFICES ASSUME PlatformApiInit PROVE PlatformInv
  OBVIOUS
<1>1. NoCall \in CallRecord
  BY DEF NoCall, CallRecord, CallStates, Rows
<1>2. NoRequest \in AdminRecord
  BY DEF NoRequest, AdminRecord, Rows
<1>3. PlatformTypes
  BY <1>1 DEF PlatformTypes, PlatformApiInit, Rows, LogTypes
<1>4. TokensInv
  <2>1. [contextId : Contexts, accessRights : {"all"}] \subseteq TokenData
    BY DEF TokenData, AccessRights
  <2>2. tokens \in [Tokens -> Rows]
    BY <2>1 DEF PlatformApiInit, Rows
  <2>. QED
    BY <1>2, <2>2 DEF TokensInv, PlatformApiInit, NoRequest
<1>5. CallInv /\ LogInv
  BY DEF CallInv, CallOK, LogInv, PlatformApiInit, NoCall, Answered
<1>. QED
  BY <1>3, <1>4, <1>5 DEF PlatformInv

(* When call d is answered, everyone else's log is as it was.               *)
LEMMA CommitKeepsLog ==
    ASSUME PlatformInv, NEW d \in ApiCalls, ~Answered(d), Answered(d)',
           \A c \in ApiCalls \ {d} : apiCalls'[c] = apiCalls[c],
           NEW logged, commit(d, logged)
    PROVE  LogInv' /\ LogTypes'
<1> DEFINE dataLog == loggers[d].dataLog \o <<logged, "commit">>
           saved == [of |-> d, data |-> dataLog]
<1>2. /\ loggers' = [loggers EXCEPT ![d] =
            [dataLog |-> dataLog, committed |-> TRUE, timer |-> FALSE]]
      /\ writes' = writes \cup {saved}
      /\ logs' = logs
  BY DEF commit, Saved
<1>3. saved.of = d /\ saved.data = dataLog
  OBVIOUS
<1> HIDE DEF dataLog, saved
<1>4. LogTypes'
  BY <1>2 DEF PlatformInv, PlatformTypes, LogTypes
<1>5. /\ loggers'[d].timer = FALSE /\ loggers'[d].dataLog = dataLog
      /\ \A c \in ApiCalls \ {d} : loggers'[c] = loggers[c]
  BY <1>2 DEF PlatformInv, PlatformTypes, LogTypes
<1>6. \A w \in writes : w.of # d
  BY DEF PlatformInv, LogInv
<1>7. ASSUME NEW c \in ApiCalls
      PROVE  /\ ~Answered(c)' =>
                   /\ loggers'[c].dataLog = <<>>
                   /\ logs'[c] = <<>>
                   /\ \A w \in writes' : w.of # c
             /\ Answered(c)' =>
                   /\ loggers'[c].timer = FALSE
                   /\ \A w \in writes' : w.of = c => w.data = loggers'[c].dataLog
                   /\ logs'[c] = loggers'[c].dataLog \/ \E w \in writes' : w.of = c
  <2>1. CASE c = d
    <3>1. \A w \in writes' : w.of = d => w.data = dataLog
      BY <1>2, <1>3, <1>6
    <3>2. \E w \in writes' : w.of = d
      BY <1>2, <1>3
    <3>. QED
      BY <1>5, <2>1, <3>1, <3>2
  <2>2. CASE c # d
    <3>1. apiCalls'[c] = apiCalls[c] /\ loggers'[c] = loggers[c] /\ logs'[c] = logs[c]
      BY <1>2, <1>5, <2>2
    <3>2. \A w \in writes' : w.of = c => w \in writes
      BY <1>2, <1>3, <2>2
    <3>3. \A w \in writes : w \in writes'
      BY <1>2
    <3>. QED
      BY <3>1, <3>2, <3>3 DEF PlatformInv, LogInv, Answered
  <2>. QED
    BY <2>1, <2>2
<1>. QED
  BY <1>4, <1>7 DEF LogInv

LEMMA QuietLog ==
    ASSUME PlatformInv, UNCHANGED logVars, \A c \in ApiCalls : Answered(c)' <=> Answered(c)
    PROVE  LogInv' /\ LogTypes'
BY DEF PlatformInv, PlatformTypes, LogTypes, LogInv, logVars

LEMMA TimerSet ==
    ASSUME PlatformInv, NEW d \in ApiCalls, NEW running \in BOOLEAN,
           loggers' = [loggers EXCEPT ![d].timer = running], UNCHANGED logs
    PROVE  /\ LogTypes'
           /\ loggers'[d].timer = running
           /\ loggers'[d].dataLog = loggers[d].dataLog
           /\ \A c \in ApiCalls \ {d} : loggers'[c] = loggers[c]
<1> DEFINE Record(c) == [dataLog |-> loggers[c].dataLog,
                         committed |-> loggers[c].committed, timer |-> loggers[c].timer]
           changed == [Record(d) EXCEPT !.timer = running]
<1>1. loggers = [c \in ApiCalls |-> Record(c)]
  BY DEF PlatformInv, PlatformTypes, LogTypes
<1>2. \A c \in ApiCalls : loggers[c] = Record(c)
  BY <1>1
<1>3. /\ changed.timer = running /\ changed.dataLog = loggers[d].dataLog
      /\ changed = [dataLog |-> changed.dataLog, committed |-> changed.committed,
                    timer |-> changed.timer]
  OBVIOUS
<1>4. loggers' = [loggers EXCEPT ![d] = changed]
  BY <1>2
<1> HIDE DEF changed, Record
<1>5. loggers'[d] = changed /\ \A c \in ApiCalls \ {d} : loggers'[c] = loggers[c]
  BY <1>1, <1>4
<1>6. \A c \in ApiCalls :
         loggers'[c] = [dataLog |-> loggers'[c].dataLog,
                        committed |-> loggers'[c].committed, timer |-> loggers'[c].timer]
  BY <1>2, <1>3, <1>5 DEF Record
<1>7. loggers' = [c \in ApiCalls |-> loggers'[c]]
  BY <1>1, <1>4
<1>8. LogTypes'
  BY <1>6, <1>7 DEF PlatformInv, PlatformTypes, LogTypes
<1>. QED
  BY <1>3, <1>5, <1>8

LEMMA QuietTokens ==
    ASSUME PlatformInv, UNCHANGED <<tokens, admins>>
    PROVE  TokensInv'
BY DEF PlatformInv, TokensInv

LEMMA OthersKept ==
    ASSUME PlatformInv, UNCHANGED <<tokens, held>>, NEW d \in ApiCalls,
           \A c \in ApiCalls \ {d} : apiCalls'[c] = apiCalls[c], CallOK(d)'
    PROVE  CallInv'
<1>1. \A c \in ApiCalls \ {d} : CallOK(c)'
  BY DEF PlatformInv, CallInv, CallOK
<1>. QED
  BY <1>1 DEF CallInv

LEMMA CallMoves ==
    ASSUME PlatformInv, NEW d \in ApiCalls, NEW state \in CallStates, Moves(d, state)
    PROVE  /\ apiCalls' \in [ApiCalls -> CallRecord]
           /\ \A c \in ApiCalls \ {d} : apiCalls'[c] = apiCalls[c]
           /\ apiCalls'[d].state = state
           /\ apiCalls'[d].kind = apiCalls[d].kind
           /\ apiCalls'[d].token = apiCalls[d].token
           /\ apiCalls'[d].id = apiCalls[d].id
           /\ apiCalls'[d].data = apiCalls[d].data
BY DEF PlatformInv, PlatformTypes, Moves, CallRecord

(* Nobody answers: also nothing is logged.                                  *)
LEMMA UnansweredStep ==
    ASSUME PlatformInv, NEW d \in ApiCalls, ~Answered(d), apiCalls[d].state # "none",
           Unanswered(d), UNCHANGED <<tokens, admins, held>>,
           locals' \in [id : ApiCalls \cup {Missing}, data : Rows]
    PROVE  PlatformInv'
<1>1. Moves(d, "unanswered") /\ UNCHANGED logVars
  BY DEF Unanswered
<1>2. "unanswered" \in CallStates
  BY DEF CallStates
<1>3. CallOK(d)'
  BY <1>1, <1>2, CallMoves DEF PlatformInv, CallInv, CallOK
<1>4. CallInv'
  BY <1>1, <1>2, <1>3, CallMoves, OthersKept
<1>5. \A c \in ApiCalls : Answered(c)' <=> Answered(c)
  BY <1>1, <1>2, CallMoves DEF Answered
<1>6. LogInv' /\ LogTypes'
  BY <1>1, <1>5, QuietLog
<1>7. PlatformTypes'
  BY <1>1, <1>2, <1>6, CallMoves DEF PlatformInv, PlatformTypes
<1>. QED
  BY <1>4, <1>6, <1>7, QuietTokens DEF PlatformInv

(* A call is answered without having been handled.                          *)
LEMMA UnauthorizedStep ==
    ASSUME PlatformInv, NEW d \in ApiCalls, ~Answered(d), apiCalls[d].state # "none",
           NEW logged, Answers(d, "unauthorized", logged), UNCHANGED <<tokens, admins, held>>,
           locals' \in [id : ApiCalls \cup {Missing}, data : Rows]
    PROVE  PlatformInv'
<1>1. Moves(d, "unauthorized") /\ commit(d, logged)
  BY DEF Answers
<1>2. "unauthorized" \in CallStates
  BY DEF CallStates
<1>3. CallOK(d)'
  BY <1>1, <1>2, CallMoves DEF PlatformInv, CallInv, CallOK
<1>4. CallInv'
  BY <1>1, <1>2, <1>3, CallMoves, OthersKept
<1>5. LogInv' /\ LogTypes'
  BY <1>1, <1>2, CallMoves, CommitKeepsLog DEF Answered
<1>6. PlatformTypes'
  BY <1>1, <1>2, <1>5, CallMoves DEF PlatformInv, PlatformTypes
<1>. QED
  BY <1>4, <1>5, <1>6, QuietTokens DEF PlatformInv

-----------------------------------------------------------------------------
(* The way of a call.                                                        *)

LEMMA ArrivesStep ==
    ASSUME PlatformInv, NEW d \in ApiCalls, Arrives(d)
    PROVE  PlatformInv'
<1>1. PICK kind \in Kinds, t \in Tokens \cup {Missing} :
         /\ apiCalls' = [apiCalls EXCEPT ![d] =
                [NoCall EXCEPT !.state = "registering", !.kind = kind, !.token = t]]
         /\ held' = [held EXCEPT ![d] = IF t = Missing THEN {} ELSE {tokens[t]}]
  BY DEF Arrives
<1>2. apiCalls[d].state = "none" /\ UNCHANGED <<locals, tokens, admins, logVars>>
  BY DEF Arrives
<1> DEFINE new == [NoCall EXCEPT !.state = "registering", !.kind = kind, !.token = t]
<1>3. /\ new \in CallRecord /\ new.state = "registering"
      /\ new.kind = kind /\ new.token = t
  BY DEF NoCall, CallRecord, CallStates, Rows
<1> HIDE DEF new
<1>4. /\ apiCalls' \in [ApiCalls -> CallRecord]
      /\ apiCalls'[d] = new
      /\ \A c \in ApiCalls \ {d} : apiCalls'[c] = apiCalls[c]
  BY <1>1, <1>3 DEF PlatformInv, PlatformTypes, new
<1>5. /\ held' \in [ApiCalls -> SUBSET Rows]
      /\ t # Missing => tokens[t] \in held'[d]
      /\ \A c \in ApiCalls \ {d} : held'[c] = held[c]
  BY <1>1 DEF PlatformInv, PlatformTypes, TokensInv
<1>6. CallInv'
  <2>1. CallOK(d)'
    BY <1>2, <1>3, <1>4, <1>5 DEF CallOK
  <2>2. \A c \in ApiCalls \ {d} : CallOK(c)'
    BY <1>2, <1>4, <1>5 DEF PlatformInv, CallInv, CallOK
  <2>. QED
    BY <2>1, <2>2 DEF CallInv
<1>7. \A c \in ApiCalls : Answered(c)' <=> Answered(c)
  BY <1>2, <1>3, <1>4 DEF Answered
<1>8. LogInv' /\ LogTypes'
  BY <1>2, <1>7, QuietLog
<1>. QED
  BY <1>2, <1>4, <1>5, <1>6, <1>8, QuietTokens DEF PlatformInv, PlatformTypes

LEMMA RegisterStep ==
    ASSUME PlatformInv, NEW d \in ApiCalls, registerApiCall(d)
    PROVE  PlatformInv'
<1>1. /\ apiCalls[d].state = "registering" /\ ~Answered(d)
      /\ UNCHANGED <<tokens, admins, held>>
  BY DEF registerApiCall, Answered
<1>2. CASE Unanswered(d) /\ UNCHANGED locals
  BY <1>1, <1>2, UnansweredStep DEF PlatformInv, PlatformTypes
<1>3. ASSUME locals' = [id |-> d, data |-> Missing]
      PROVE  locals' \in [id : ApiCalls \cup {Missing}, data : Rows]
  BY <1>3 DEF Rows
<1>4. CASE /\ locals' = [id |-> d, data |-> Missing]
           /\ Answers(d, "unauthorized", "API key is not set")
  BY <1>1, <1>3, <1>4, UnauthorizedStep
<1>5. CASE /\ locals' = [id |-> d, data |-> Missing]
           /\ apiCalls[d].token # Missing
           /\ apiCalls' = [apiCalls EXCEPT ![d].state = "validating", ![d].id = locals'.id]
           /\ loggers' = [loggers EXCEPT ![d].timer = TRUE]
           /\ UNCHANGED <<writes, logs>>
  <2>1. /\ apiCalls' \in [ApiCalls -> CallRecord]
        /\ apiCalls'[d].state = "validating" /\ apiCalls'[d].id = d
        /\ apiCalls'[d].kind = apiCalls[d].kind
        /\ apiCalls'[d].token = apiCalls[d].token
        /\ \A c \in ApiCalls \ {d} : apiCalls'[c] = apiCalls[c]
    <3>1. locals'.id = d
      BY <1>5
    <3>2. apiCalls' = [apiCalls EXCEPT ![d] =
             [apiCalls[d] EXCEPT !.state = "validating", !.id = d]]
      BY <1>5, <3>1 DEF PlatformInv, PlatformTypes
    <3>3. "validating" \in CallStates
      BY DEF CallStates
    <3>. QED
      BY <3>2, <3>3 DEF PlatformInv, PlatformTypes, CallRecord
  <2>2. CallOK(d)'
    BY <1>1, <1>5, <2>1 DEF PlatformInv, CallInv, CallOK
  <2>3. CallInv'
    BY <1>1, <2>1, <2>2, OthersKept
  <2>4. /\ LogTypes'
        /\ loggers'[d].dataLog = loggers[d].dataLog
        /\ \A c \in ApiCalls \ {d} : loggers'[c] = loggers[c]
    BY <1>5, TimerSet
  <2>5. \A c \in ApiCalls : Answered(c)' <=> Answered(c)
    BY <1>1, <2>1 DEF Answered
  <2>6. LogInv'
    BY <1>1, <1>5, <2>4, <2>5 DEF PlatformInv, LogInv
  <2>. QED
    BY <1>1, <1>3, <1>5, <2>1, <2>3, <2>4, <2>6, QuietTokens DEF PlatformInv, PlatformTypes
<1>. QED
  BY <1>2, <1>4, <1>5 DEF registerApiCall

LEMMA TokenDataStep ==
    ASSUME PlatformInv, NEW d \in ApiCalls, getTokenData(d)
    PROVE  PlatformInv'
<1> DEFINE row == tokens[apiCalls[d].token]
<1>1. /\ apiCalls[d].state = "validating" /\ ~Answered(d)
      /\ UNCHANGED <<locals, tokens, admins, held>>
  BY DEF getTokenData, Answered
<1>2. locals' \in [id : ApiCalls \cup {Missing}, data : Rows]
  BY <1>1 DEF PlatformInv, PlatformTypes
<1>3. row \in held[d] /\ row \in Rows
  BY <1>1 DEF PlatformInv, CallInv, CallOK, PlatformTypes
<1> HIDE DEF row
<1>4. CASE Unanswered(d)
  BY <1>1, <1>2, <1>4, UnansweredStep
<1>5. CASE Answers(d, "unauthorized", "API key is invalid")
  BY <1>1, <1>2, <1>5, UnauthorizedStep
<1>6. CASE /\ row # Missing
           /\ apiCalls' = [apiCalls EXCEPT ![d].state = "context", ![d].data = row]
           /\ UNCHANGED logVars
  <2>1. /\ apiCalls' \in [ApiCalls -> CallRecord]
        /\ apiCalls'[d].state = "context" /\ apiCalls'[d].data = row
        /\ apiCalls'[d].id = apiCalls[d].id
        /\ apiCalls'[d].kind = apiCalls[d].kind
        /\ apiCalls'[d].token = apiCalls[d].token
        /\ \A c \in ApiCalls \ {d} : apiCalls'[c] = apiCalls[c]
    BY <1>3, <1>6 DEF PlatformInv, PlatformTypes, CallRecord, CallStates
  <2>2. CallOK(d)'
    BY <1>1, <1>3, <1>6, <2>1 DEF PlatformInv, CallInv, CallOK
  <2>3. CallInv'
    BY <1>1, <2>1, <2>2, OthersKept
  <2>4. \A c \in ApiCalls : Answered(c)' <=> Answered(c)
    BY <1>1, <2>1 DEF Answered
  <2>5. LogInv' /\ LogTypes'
    BY <1>6, <2>4, QuietLog
  <2>. QED
    BY <1>1, <1>2, <2>1, <2>3, <2>5, QuietTokens DEF PlatformInv, PlatformTypes
<1>. QED
  BY <1>4, <1>5, <1>6 DEF getTokenData, row

(* The handler reads the locals of its own call: they have been replaced in *)
(* this very turn.                                                          *)
LEMMA HandlerKeeps ==
    ASSUME PlatformInv, NEW d \in ApiCalls, apiCalls[d].state = "context",
           locals' = AuthorizedLocals(d), NEW state \in {"working", "refused", "unanswered"},
           apiCalls' = [apiCalls EXCEPT ![d] =
               [@ EXCEPT !.state = state, !.id = locals'.id, !.data = locals'.data]]
    PROVE  /\ apiCalls' \in [ApiCalls -> CallRecord]
           /\ apiCalls'[d].state = state /\ apiCalls'[d].id = d
           /\ apiCalls'[d].data = apiCalls[d].data
           /\ apiCalls'[d].kind = apiCalls[d].kind
           /\ apiCalls'[d].token = apiCalls[d].token
           /\ \A c \in ApiCalls \ {d} : apiCalls'[c] = apiCalls[c]
<1>1. locals'.id = d /\ locals'.data = apiCalls[d].data /\ d = apiCalls[d].id
  BY DEF PlatformInv, CallInv, CallOK, AuthorizedLocals
<1>2. apiCalls' = [apiCalls EXCEPT ![d] =
         [apiCalls[d] EXCEPT !.state = state, !.id = d, !.data = apiCalls[d].data]]
  BY <1>1
<1>3. state \in CallStates
  BY DEF CallStates
<1>4. apiCalls[d] \in CallRecord
  BY DEF PlatformInv, PlatformTypes
<1> DEFINE after == [apiCalls[d] EXCEPT !.state = state, !.id = d, !.data = apiCalls[d].data]
<1>5. /\ after \in CallRecord
      /\ after.state = state /\ after.id = d /\ after.data = apiCalls[d].data
      /\ after.kind = apiCalls[d].kind /\ after.token = apiCalls[d].token
  BY <1>3, <1>4 DEF CallRecord
<1> HIDE DEF after
<1>6. apiCalls' = [apiCalls EXCEPT ![d] = after]
  BY <1>2 DEF after
<1>7. apiCalls \in [ApiCalls -> CallRecord]
  BY DEF PlatformInv, PlatformTypes
<1>8. /\ apiCalls' \in [ApiCalls -> CallRecord] /\ apiCalls'[d] = after
      /\ \A c \in ApiCalls \ {d} : apiCalls'[c] = apiCalls[c]
  BY <1>5, <1>6, <1>7
<1>. QED
  BY <1>5, <1>8

LEMMA HandleStep ==
    ASSUME PlatformInv, NEW d \in ApiCalls, apiCalls[d].state = "context",
           locals' = AuthorizedLocals(d), Handle(d), UNCHANGED <<tokens, admins, held>>
    PROVE  PlatformInv'
<1> DEFINE accessRights == apiCalls[d].data.accessRights
           Keeps(state) == [apiCalls EXCEPT ![d] =
               [@ EXCEPT !.state = state, !.id = locals'.id, !.data = locals'.data]]
<1>1. /\ locals'.data = apiCalls[d].data /\ locals'.id = d
      /\ locals' \in [id : ApiCalls \cup {Missing}, data : Rows]
  BY DEF AuthorizedLocals, PlatformInv, PlatformTypes, CallRecord, CallInv, CallOK
<1>2. ~Answered(d)
  BY DEF Answered
<1>3. /\ apiCalls[d].kind \in Kinds
      /\ apiCalls[d].data \in held[d]
      /\ apiCalls[d].token # Missing => tokens[apiCalls[d].token] \in held[d]
  BY DEF PlatformInv, CallInv, CallOK
<1>4. CASE apiCalls' = Keeps("working") /\ Granted(accessRights, apiCalls[d].kind)
           /\ UNCHANGED logVars
  <2>1. /\ apiCalls' \in [ApiCalls -> CallRecord]
        /\ apiCalls'[d].state = "working" /\ apiCalls'[d].id = d
        /\ apiCalls'[d].data = apiCalls[d].data
        /\ apiCalls'[d].kind = apiCalls[d].kind
        /\ apiCalls'[d].token = apiCalls[d].token
        /\ \A c \in ApiCalls \ {d} : apiCalls'[c] = apiCalls[c]
    BY <1>4, HandlerKeeps
  <2>2. CallOK(d)'
    BY <1>3, <1>4, <2>1 DEF CallOK
  <2>3. CallInv'
    BY <2>1, <2>2, OthersKept
  <2>4. \A c \in ApiCalls : Answered(c)' <=> Answered(c)
    BY <2>1 DEF Answered
  <2>5. LogInv' /\ LogTypes'
    BY <1>4, <2>4, QuietLog
  <2>. QED
    BY <1>1, <2>1, <2>3, <2>5, QuietTokens DEF PlatformInv, PlatformTypes
<1>5. ASSUME apiCalls' = Keeps("refused"), NEW logged, commit(d, logged)
      PROVE  PlatformInv'
  <2>1. /\ apiCalls' \in [ApiCalls -> CallRecord]
        /\ apiCalls'[d].state = "refused" /\ apiCalls'[d].id = d
        /\ apiCalls'[d].data = apiCalls[d].data
        /\ apiCalls'[d].kind = apiCalls[d].kind
        /\ apiCalls'[d].token = apiCalls[d].token
        /\ \A c \in ApiCalls \ {d} : apiCalls'[c] = apiCalls[c]
    BY <1>5, HandlerKeeps
  <2>2. CallOK(d)'
    BY <1>3, <2>1 DEF CallOK
  <2>3. CallInv'
    BY <2>1, <2>2, OthersKept
  <2>4. LogInv' /\ LogTypes'
    BY <1>2, <1>5, <2>1, CommitKeepsLog DEF Answered
  <2>. QED
    BY <1>1, <2>1, <2>3, <2>4, QuietTokens DEF PlatformInv, PlatformTypes
<1>6. CASE apiCalls' = Keeps("unanswered") /\ UNCHANGED logVars
  <2>1. /\ apiCalls' \in [ApiCalls -> CallRecord]
        /\ apiCalls'[d].state = "unanswered" /\ apiCalls'[d].id = d
        /\ apiCalls'[d].kind = apiCalls[d].kind
        /\ apiCalls'[d].token = apiCalls[d].token
        /\ \A c \in ApiCalls \ {d} : apiCalls'[c] = apiCalls[c]
    BY <1>6, HandlerKeeps
  <2>2. CallOK(d)'
    BY <1>3, <2>1 DEF CallOK
  <2>3. CallInv'
    BY <2>1, <2>2, OthersKept
  <2>4. \A c \in ApiCalls : Answered(c)' <=> Answered(c)
    BY <2>1 DEF Answered
  <2>5. LogInv' /\ LogTypes'
    BY <1>6, <2>4, QuietLog
  <2>. QED
    BY <1>1, <2>1, <2>3, <2>5, QuietTokens DEF PlatformInv, PlatformTypes
<1>7. \/ apiCalls' = Keeps("working") /\ Granted(accessRights, apiCalls[d].kind)
         /\ UNCHANGED logVars
      \/ apiCalls' = Keeps("refused") /\ \E logged : commit(d, logged)
      \/ apiCalls' = Keeps("unanswered") /\ UNCHANGED logVars
  BY <1>1, ZenonT(30) DEF Handle
<1>. QED
  BY <1>4, <1>5, <1>6, <1>7

LEMMA ValidateStep ==
    ASSUME PlatformInv, NEW d \in ApiCalls, validateAccessToken(d)
    PROVE  PlatformInv'
<1>1. /\ apiCalls[d].state = "context" /\ ~Answered(d)
      /\ UNCHANGED <<tokens, admins, held>>
  BY DEF validateAccessToken, Answered
<1>2. UNCHANGED locals => locals' \in [id : ApiCalls \cup {Missing}, data : Rows]
  BY DEF PlatformInv, PlatformTypes
<1>3. CASE Unanswered(d) /\ UNCHANGED locals
  BY <1>1, <1>2, <1>3, UnansweredStep
<1>4. CASE Answers(d, "unauthorized", "its data context is invalid") /\ UNCHANGED locals
  BY <1>1, <1>2, <1>4, UnauthorizedStep
<1>5. CASE locals' = AuthorizedLocals(d) /\ Handle(d)
  BY <1>1, <1>5, HandleStep
<1>. QED
  BY <1>3, <1>4, <1>5 DEF validateAccessToken

LEMMA WorksStep ==
    ASSUME PlatformInv, NEW d \in ApiCalls, Works(d)
    PROVE  PlatformInv'
<1>1. /\ apiCalls[d].state = "working" /\ ~Answered(d)
      /\ UNCHANGED <<locals, tokens, admins, held>>
  BY DEF Works, Answered
<1>2. locals' \in [id : ApiCalls \cup {Missing}, data : Rows]
  BY <1>1 DEF PlatformInv, PlatformTypes
<1>3. CASE Unanswered(d)
  BY <1>1, <1>2, <1>3, UnansweredStep
<1>4. ASSUME Moves(d, "done"), NEW logged, commit(apiCalls[d].id, logged)
      PROVE  PlatformInv'
  <2>1. "done" \in CallStates /\ commit(d, logged)
    BY <1>1, <1>4 DEF CallStates, PlatformInv, CallInv, CallOK
  <2>2. CallOK(d)'
    BY <1>1, <1>4, <2>1, CallMoves DEF PlatformInv, CallInv, CallOK
  <2>3. CallInv'
    BY <1>1, <1>4, <2>1, <2>2, CallMoves, OthersKept
  <2>4. LogInv' /\ LogTypes'
    BY <1>1, <1>4, <2>1, CallMoves, CommitKeepsLog DEF Answered
  <2>. QED
    BY <1>1, <1>2, <1>4, <2>1, <2>3, <2>4, CallMoves, QuietTokens DEF PlatformInv, PlatformTypes
<1>. QED
  BY <1>3, <1>4 DEF Works

-----------------------------------------------------------------------------
(* The log, and the access tokens.                                           *)

(* The timer finds nothing to save: before the answer nothing is logged,    *)
(* and with the answer it has been stopped.                                 *)
LEMMA AutoCommitStep ==
    ASSUME PlatformInv, NEW d \in ApiCalls, autoCommit(d)
    PROVE  PlatformInv'
<1>1. /\ loggers[d].timer /\ UNCHANGED <<callVars, tokens, admins, held, logs>>
  BY DEF autoCommit
<1>2. ~Answered(d) /\ loggers[d].dataLog = <<>>
  BY <1>1 DEF PlatformInv, LogInv
<1>3. loggers' = [loggers EXCEPT ![d].timer = FALSE] /\ UNCHANGED writes
  BY <1>2 DEF autoCommit
<1>4. UNCHANGED <<apiCalls, locals>>
  BY <1>1 DEF callVars
<1>5. /\ LogTypes'
      /\ loggers'[d].dataLog = loggers[d].dataLog
      /\ \A c \in ApiCalls \ {d} : loggers'[c] = loggers[c]
  BY <1>1, <1>3, TimerSet
<1>6. LogInv'
  BY <1>1, <1>2, <1>3, <1>4, <1>5 DEF PlatformInv, LogInv, Answered
<1>7. CallInv'
  BY <1>1, <1>4 DEF PlatformInv, CallInv, CallOK
<1>. QED
  BY <1>1, <1>4, <1>5, <1>6, <1>7, QuietTokens DEF PlatformInv, PlatformTypes

LEMMA SaveEndsStep ==
    ASSUME PlatformInv, SaveEnds
    PROVE  PlatformInv'
<1>1. PICK w \in writes :
         /\ logs' = [logs EXCEPT ![w.of] = w.data]
         /\ writes' = writes \ {w}
         /\ UNCHANGED <<callVars, tokens, admins, held, loggers>>
  BY DEF SaveEnds
<1>2. UNCHANGED <<apiCalls, locals>>
  BY <1>1 DEF callVars
<1>3. LogTypes'
  BY <1>1 DEF PlatformInv, PlatformTypes, LogTypes
<1>4. \A c \in ApiCalls : logs'[c] = IF w.of = c THEN w.data ELSE logs[c]
  BY <1>1 DEF PlatformInv, PlatformTypes, LogTypes
<1>5. LogInv'
  BY <1>1, <1>2, <1>4 DEF PlatformInv, LogInv, Answered
<1>6. CallInv'
  BY <1>1, <1>2 DEF PlatformInv, CallInv, CallOK
<1>. QED
  BY <1>1, <1>2, <1>3, <1>5, <1>6, QuietTokens DEF PlatformInv, PlatformTypes

(* A request of an administrator, until it changes the table.               *)
LEMMA AdminQuiet ==
    ASSUME PlatformInv, UNCHANGED <<callVars, logVars, tokens, held>>, TokensInv'
    PROVE  PlatformInv'
<1>1. CallInv'
  BY DEF PlatformInv, CallInv, CallOK, callVars
<1>2. LogInv' /\ LogTypes'
  BY QuietLog DEF Answered, callVars
<1>. QED
  BY <1>1, <1>2 DEF PlatformInv, PlatformTypes, callVars

(* A row changes: whoever has come with the token has had both.             *)
LEMMA TableStep ==
    ASSUME PlatformInv, NEW t \in Tokens, NEW row \in Rows, Table(t, row),
           UNCHANGED <<callVars, logVars>>
    PROVE  /\ tokens' \in [Tokens -> Rows]
           /\ held' \in [ApiCalls -> SUBSET Rows]
           /\ CallInv'
<1>1. /\ tokens' = [tokens EXCEPT ![t] = row]
      /\ held' = [c \in ApiCalls |->
            IF apiCalls[c].token = t THEN held[c] \cup {row} ELSE held[c]]
      /\ UNCHANGED apiCalls
  BY DEF Table, callVars
<1>2. tokens' \in [Tokens -> Rows] /\ held' \in [ApiCalls -> SUBSET Rows]
  BY <1>1 DEF PlatformInv, TokensInv, PlatformTypes
<1>3. ASSUME NEW c \in ApiCalls PROVE CallOK(c)'
  <2>1. held[c] \subseteq held'[c]
    BY <1>1
  <2>2. apiCalls[c].state # "none" /\ apiCalls[c].token # Missing =>
           tokens'[apiCalls[c].token] \in held'[c]
    <3>1. apiCalls[c].token \in Tokens \cup {Missing}
      BY DEF PlatformInv, PlatformTypes, CallRecord
    <3>. QED
      BY <1>1, <3>1 DEF PlatformInv, TokensInv, CallInv, CallOK
  <2>. QED
    BY <1>1, <2>1, <2>2 DEF PlatformInv, CallInv, CallOK
<1>. QED
  BY <1>2, <1>3 DEF CallInv

LEMMA AdminStep ==
    ASSUME PlatformInv, NEW a \in Admins,
           \/ AdminAsks(a) \/ createAccessConfiguration(a) \/ createNewToken(a)
           \/ createAccessEntry(a) \/ getTokenInfo(a) \/ deleteToken(a)
    PROVE  PlatformInv'
<1>1. admins[a] \in AdminRecord /\ tokens \in [Tokens -> Rows]
  BY DEF PlatformInv, TokensInv
<1>2. ASSUME NEW state \in {"answered", "inserting", "deleting"}, AdminMoves(a, state),
             admins[a].state # "none",
             state = "inserting" => admins[a].state = "choosing",
             tokens' \in [Tokens -> Rows]
      PROVE  TokensInv'
  BY <1>1, <1>2 DEF PlatformInv, TokensInv, AdminMoves, AdminRecord
<1>3. CASE AdminAsks(a)
  <2>1. PICK op \in {"create", "delete", "info"}, x \in Contexts, t \in Tokens :
           admins' = [admins EXCEPT ![a] =
              [NoRequest EXCEPT !.op = op, !.context = x, !.token = t,
                                !.state = IF op = "create" THEN "checking" ELSE "reading"]]
    BY <1>3 DEF AdminAsks
  <2>2. UNCHANGED <<callVars, logVars, tokens, held>>
    BY <1>3 DEF AdminAsks
  <2>3. TokensInv'
    BY <2>1, <2>2 DEF PlatformInv, TokensInv, NoRequest, AdminRecord, Rows
  <2>. QED
    BY <2>2, <2>3, AdminQuiet
<1>4. CASE createAccessConfiguration(a)
  <2>1. UNCHANGED <<callVars, logVars, tokens, held>> /\ admins[a].state = "checking"
    BY <1>4 DEF createAccessConfiguration
  <2>2. CASE AdminMoves(a, "answered")
    BY <1>1, <1>2, <2>1, <2>2, AdminQuiet
  <2>3. ASSUME NEW accessRights \in AccessRights,
               admins' = [admins EXCEPT ![a].state = "choosing", ![a].data =
                   [contextId |-> admins[a].context, accessRights |-> accessRights]]
        PROVE  PlatformInv'
    <3>1. [contextId |-> admins[a].context, accessRights |-> accessRights] \in TokenData
      BY <2>1, <2>3 DEF PlatformInv, TokensInv, TokenData
    <3>2. TokensInv'
      BY <1>1, <2>1, <2>3, <3>1 DEF PlatformInv, TokensInv, AdminRecord, Rows
    <3>. QED
      BY <2>1, <3>2, AdminQuiet
  <2>. QED
    BY <1>4, <2>2, <2>3 DEF createAccessConfiguration
<1>5. CASE createNewToken(a)
  <2>1. UNCHANGED <<callVars, logVars, tokens, held>> /\ admins[a].state = "choosing"
    BY <1>5 DEF createNewToken
  <2>2. AdminMoves(a, "inserting") \/ AdminMoves(a, "answered")
    BY <1>5 DEF createNewToken
  <2>. QED
    BY <1>1, <1>2, <2>1, <2>2, AdminQuiet
<1>6. CASE createAccessEntry(a)
  <2>1. /\ UNCHANGED <<callVars, logVars>> /\ admins[a].state = "inserting"
        /\ AdminMoves(a, "answered")
    BY <1>6 DEF createAccessEntry
  <2>2. CASE UNCHANGED <<tokens, held>>
    BY <1>1, <1>2, <2>1, <2>2, AdminQuiet
  <2>3. CASE Table(admins[a].token, admins[a].data)
    <3>1. admins[a].token \in Tokens /\ admins[a].data \in Rows
      BY <2>1 DEF PlatformInv, TokensInv, Rows
    <3>2. /\ tokens' \in [Tokens -> Rows]
          /\ held' \in [ApiCalls -> SUBSET Rows]
          /\ CallInv'
      BY <2>1, <2>3, <3>1, TableStep
    <3>3. TokensInv'
      BY <1>2, <2>1, <3>2
    <3>4. LogInv' /\ LogTypes'
      BY <2>1, QuietLog DEF Answered, callVars
    <3>. QED
      BY <2>1, <3>2, <3>3, <3>4 DEF PlatformInv, PlatformTypes, callVars
  <2>. QED
    BY <1>6, <2>2, <2>3 DEF createAccessEntry
<1>7. CASE getTokenInfo(a)
  <2>1. UNCHANGED <<callVars, logVars, tokens, held>> /\ admins[a].state = "reading"
    BY <1>7 DEF getTokenInfo
  <2>2. AdminMoves(a, "deleting") \/ AdminMoves(a, "answered")
    BY <1>7 DEF getTokenInfo
  <2>. QED
    BY <1>1, <1>2, <2>1, <2>2, AdminQuiet
<1>8. CASE deleteToken(a)
  <2>1. /\ UNCHANGED <<callVars, logVars>> /\ admins[a].state = "deleting"
        /\ AdminMoves(a, "answered") /\ Table(admins[a].token, Missing)
    BY <1>8 DEF deleteToken
  <2>2. admins[a].token \in Tokens /\ Missing \in Rows
    BY <2>1 DEF PlatformInv, TokensInv, Rows
  <2>3. /\ tokens' \in [Tokens -> Rows]
        /\ held' \in [ApiCalls -> SUBSET Rows]
        /\ CallInv'
    BY <2>1, <2>2, TableStep
  <2>4. TokensInv'
    BY <1>2, <2>1, <2>3
  <2>5. LogInv' /\ LogTypes'
    BY <2>1, QuietLog DEF Answered, callVars
  <2>. QED
    BY <2>1, <2>3, <2>4, <2>5 DEF PlatformInv, PlatformTypes, callVars
<1>. QED
  BY <1>3, <1>4, <1>5, <1>6, <1>7, <1>8

-----------------------------------------------------------------------------

LEMMA PlatformInvStep == PlatformInv /\ [PlatformApiNext]_platformVars => PlatformInv'
<1> SUFFICES ASSUME PlatformInv, [PlatformApiNext]_platformVars PROVE PlatformInv'
  OBVIOUS
<1>1. ASSUME NEW c \in ApiCalls,
             \/ Arrives(c) \/ registerApiCall(c) \/ getTokenData(c)
             \/ validateAccessToken(c) \/ Works(c) \/ autoCommit(c)
      PROVE  PlatformInv'
  BY <1>1, ArrivesStep, RegisterStep, TokenDataStep, ValidateStep, WorksStep, AutoCommitStep
<1>2. CASE UNCHANGED platformVars
  <2>1. UNCHANGED <<callVars, logVars, tokens, admins, held>>
    BY <1>2 DEF platformVars
  <2>. QED
    BY <2>1, QuietTokens, AdminQuiet
<1>. QED
  BY <1>1, <1>2, SaveEndsStep, AdminStep DEF PlatformApiNext

LEMMA PlatformInvariance == PlatformApiSpec => []PlatformInv
BY PlatformInvInit, PlatformInvStep, PTL DEF PlatformApiSpec

(* Whoever handles a call has the id and the logger of that call and the    *)
(* rights of its own token, for any number of calls that overwrite the      *)
(* locals of one another and of administrators that change the tokens.      *)
THEOREM CallsHandledAsAuthorized == PlatformApiSpec => []HandledAsAuthorized
<1>1. PlatformInv => HandledAsAuthorized
  BY DEF PlatformInv, CallInv, CallOK, HandledAsAuthorized
<1>. QED
  BY <1>1, PlatformInvariance, PTL

(* No save of a log, however late it ends, replaces the answer.             *)
THEOREM AnswerStaysInLog == PlatformApiSpec => []LogHoldsAnswer
<1>1. PlatformInv => LogHoldsAnswer
  BY DEF PlatformInv, LogInv, Answered, LogHoldsAnswer
<1>. QED
  BY <1>1, PlatformInvariance, PTL

-----------------------------------------------------------------------------
(* Callback collections.                                                    *)


Registration == [callback : Callbacks, guard : Guards, limit : CallLimits, count : Nat,
                 begun : Int, excused : BOOLEAN]
Execution == [data : Data, last : Nat, calls : Nat, completing : BOOLEAN,
              since : SUBSET (Nat \ {0}), called : Seq(Nat)]

CallbackTypes ==
    /\ properties \in Seq(Registration)
    /\ registered \subseteq 1 .. Len(properties)
    /\ executing \in Seq(Execution)

Served(e) ==
    /\ e.calls <= Len(properties)
    /\ e.since \subseteq 1 .. Len(properties)
    /\ \A k \in 1 .. Len(e.called) : e.called[k] <= e.last
    /\ \A j, k \in 1 .. Len(e.called) : j < k => e.called[j] < e.called[k]
    /\ \A r \in e.since \cap registered :
          r <= e.last /\ e.data \in properties[r].guard =>
              \E k \in 1 .. Len(e.called) : e.called[k] = r

ServedInv == \A i \in 1 .. Len(executing) : Served(executing[i])

(* An execution calls r, and r has not returned or it has and its           *)
(* onComplete has not.                                                      *)
Calls(e, r) == e.calls = r
InBody(e, r) == Calls(e, r) /\ ~e.completing
InComplete(e, r) == Calls(e, r) /\ e.completing
Calling(r) == \E i \in 1 .. Len(executing) : InBody(executing[i], r)
Completing(r) == \E i \in 1 .. Len(executing) : InComplete(executing[i], r)

Limited(r) == properties[r].limit # 0 /\ ~properties[r].excused
Counted(r) ==
    /\ \A i, j \in 1 .. Len(executing) :
          Calls(executing[i], r) /\ Calls(executing[j], r) => i = j
    /\ Calling(r) => properties[r].begun = properties[r].count + 1
    /\ ~Calling(r) => properties[r].begun = properties[r].count
    /\ properties[r].count <= properties[r].limit
    /\ Calling(r) \/ (r \in registered /\ ~Completing(r)) =>
          properties[r].count < properties[r].limit
LimitInv ==
    /\ \A i \in 1 .. Len(executing) : executing[i].calls = 0 => ~executing[i].completing
    /\ \A r \in 1 .. Len(properties) : Limited(r) => Counted(r)

HandedOut == CallbackTypes /\ ServedInv
CallbackInv == HandedOut /\ LimitInv

-----------------------------------------------------------------------------
(* Whenever somebody is ahead of the iterator there is a first one.         *)
LEMMA NextExists ==
    ASSUME NEW T, T \subseteq Nat, T # {}
    PROVE  \E r \in T : \A q \in T : r <= q
<1>1. PICK r \in T : \A q \in T : ~(<<q, r>> \in OpToRel(<, Nat))
  BY NatLessThanWellFounded, WFMin
<1>2. ASSUME NEW q \in T PROVE r <= q
  <2>1. ~(q < r)
    BY <1>1 DEF OpToRel
  <2>. QED
    BY <2>1
<1>. QED
  BY <1>2

LEMMA ExecutionTypes ==
    ASSUME NEW e \in Execution
    PROVE  /\ e.last \in Nat /\ e.calls \in Nat /\ e.called \in Seq(Nat)
           /\ e.data \in Data /\ e.since \subseteq Nat \ {0}
BY DEF Execution

LEMMA TopTypes ==
    ASSUME CallbackTypes, executing # <<>>
    PROVE  Len(executing) \in 1 .. Len(executing) /\ Top \in Execution
<1>1. executing \in Seq(Execution)
  BY DEF CallbackTypes
<1>2. Len(executing) \in 1 .. Len(executing)
  BY <1>1
<1>. QED
  BY <1>1, <1>2 DEF Top

LEMMA ExhaustedIsBehind ==
    ASSUME CallbackTypes, executing # <<>>, Exhausted
    PROVE  \A r \in registered : r <= Top.last
<1>1. Top \in Execution /\ Top.last \in Nat
  BY TopTypes, ExecutionTypes
<1>2. registered \subseteq Nat
  BY DEF CallbackTypes
<1>3. Ahead = {}
  <2>1. SUFFICES ASSUME Ahead # {} PROVE FALSE
    OBVIOUS
  <2>2. Ahead \subseteq Nat /\ Ahead \subseteq registered
    BY <1>2 DEF Ahead
  <2>3. PICK r \in Ahead : \A q \in Ahead : r <= q
    BY <2>1, <2>2, NextExists
  <2>. QED
    BY <2>2, <2>3 DEF Exhausted, IsNext
<1>. QED
  BY <1>1, <1>2, <1>3 DEF Ahead

(* Registrations stay what they are, but for what is counted of them.       *)
Alike ==
    /\ properties' \in Seq(Registration) /\ Len(properties') = Len(properties)
    /\ \A r \in 1 .. Len(properties) : /\ properties'[r].guard = properties[r].guard
                                       /\ properties'[r].limit = properties[r].limit

LEMMA StillServed ==
    ASSUME CallbackTypes, NEW e, Served(e), registered' \subseteq registered, Alike
    PROVE  /\ e.calls <= Len(properties')
           /\ e.since \subseteq 1 .. Len(properties')
           /\ \A k \in 1 .. Len(e.called) : e.called[k] <= e.last
           /\ \A j, k \in 1 .. Len(e.called) : j < k => e.called[j] < e.called[k]
           /\ \A r \in e.since \cap registered' :
                 r <= e.last /\ e.data \in properties'[r].guard =>
                     \E k \in 1 .. Len(e.called) : e.called[k] = r
BY DEF CallbackTypes, Alike, Served

(* Whoever is deregistered or done is no execution's concern any more.      *)
LEMMA FewerServed ==
    ASSUME CallbackTypes, registered' \subseteq registered, Alike, executing' \in Seq(Execution),
           \A i \in 1 .. Len(executing') : Served(executing'[i])
    PROVE  HandedOut'
<1>1. ServedInv'
  BY StillServed DEF ServedInv, Served
<1>2. registered' \subseteq 1 .. Len(properties')
  BY DEF CallbackTypes, Alike
<1>. QED
  BY <1>1, <1>2 DEF HandedOut, CallbackTypes, Alike

LEMMA CallbackInvInit == CallbacksInit => CallbackInv
BY DEF CallbacksInit, CallbackInv, HandedOut, CallbackTypes, ServedInv, LimitInv

(* What is counted of a registration that a step does not touch.            *)
LEMMA OthersCounted ==
    ASSUME NEW r, Counted(r), UNCHANGED <<properties[r].count, properties[r].begun, properties[r].limit>>,
           r \in registered' => r \in registered,
           \A i \in 1 .. Len(executing') : Calls(executing'[i], r) =>
               /\ i \in 1 .. Len(executing) /\ Calls(executing[i], r)
               /\ executing'[i].completing = executing[i].completing,
           \A i \in 1 .. Len(executing) : Calls(executing[i], r) =>
               /\ i \in 1 .. Len(executing') /\ Calls(executing'[i], r)
    PROVE  Counted(r)'
<1>1. (Calling(r) <=> Calling(r)') /\ (Completing(r) <=> Completing(r)')
  BY DEF Calling, Completing, InBody, InComplete, Calls
<1>2. \A i, j \in 1 .. Len(executing') :
          Calls(executing'[i], r) /\ Calls(executing'[j], r) => i = j
  BY DEF Counted
<1>. QED
  BY <1>1, <1>2 DEF Counted, Calls

LEMMA AddStep ==
    ASSUME CallbackInv, NEW f \in Callbacks, NEW guard \in Guards, NEW limit \in CallLimits,
           add(f, guard, limit)
    PROVE  CallbackInv'
<1> DEFINE n == Len(properties) + 1
           new == [callback |-> f, guard |-> guard, limit |-> limit, count |-> 0,
                   begun |-> 0, excused |-> FALSE]
<1>1. /\ registered' = registered \cup {n}
      /\ properties' = Append(properties, new)
      /\ UNCHANGED executing
  BY DEF add
<1>2. new \in Registration /\ new.limit = limit /\ new.count = 0 /\ new.begun = 0 /\ limit \in Nat
  BY CallbackAssumption DEF Registration
<1>3. /\ properties \in Seq(Registration) /\ registered \subseteq 1 .. Len(properties)
      /\ Len(properties) \in Nat
  BY DEF CallbackInv, HandedOut, CallbackTypes
<1> HIDE DEF new
<1>4. /\ properties' \in Seq(Registration)
      /\ Len(properties') = n
      /\ \A r \in 1 .. Len(properties) : properties'[r] = properties[r]
      /\ properties'[n] = new
  BY <1>1, <1>2, <1>3, AppendProperties
<1>5. CallbackTypes'
  <2>1. ASSUME NEW r \in registered' PROVE r \in 1 .. Len(properties')
    <3>1. r \in registered \/ r = n
      BY <1>1
    <3>2. n \in Nat /\ n >= 1 /\ \A q \in registered : q \in Nat /\ q >= 1 /\ q <= n
      BY <1>3
    <3> HIDE DEF n
    <3>3. r \in 1 .. n
      BY <3>1, <3>2
    <3>. QED
      BY <1>4, <3>3
  <2>. QED
    BY <1>1, <1>4, <2>1 DEF CallbackInv, HandedOut, CallbackTypes
<1>6. LimitInv'
  <2>1. \A i \in 1 .. Len(executing) : executing[i].calls \in Nat /\ executing[i].calls # n
    <3>1. ASSUME NEW i \in 1 .. Len(executing)
          PROVE  executing[i] \in Execution /\ Served(executing[i])
      BY DEF CallbackInv, HandedOut, CallbackTypes, ServedInv
    <3>. QED
      BY <1>3, <3>1, ExecutionTypes DEF Served
  <2>2. ASSUME NEW r \in 1 .. Len(properties'), Limited(r)' PROVE Counted(r)'
    <3>1. CASE r = n
      <4>1. \A i \in 1 .. Len(executing') : ~Calls(executing'[i], r)
        BY <1>1, <2>1, <3>1 DEF Calls
      <4>2. ~Calling(r)' /\ ~Completing(r)'
        BY <4>1 DEF Calling, Completing, InBody, InComplete
      <4>3. properties'[r].begun = 0 /\ properties'[r].count = 0 /\ properties'[r].limit \in Nat \ {0}
        BY <1>2, <1>4, <2>2, <3>1 DEF Limited
      <4>. QED
        BY <4>1, <4>2, <4>3 DEF Counted
    <3>2. CASE r # n
      <4>1. r \in 1 .. Len(properties) /\ properties'[r] = properties[r]
        BY <1>3, <1>4, <2>2, <3>2
      <4>2. Counted(r) /\ (r \in registered' => r \in registered)
        BY <1>1, <2>2, <3>2, <4>1 DEF CallbackInv, LimitInv, Limited
      <4>. QED
        BY <1>1, <4>1, <4>2, OthersCounted
    <3>. QED
      BY <3>1, <3>2
  <2>. QED
    BY <1>1, <2>2 DEF CallbackInv, LimitInv
<1>7. ASSUME NEW i \in 1 .. Len(executing) PROVE Served(executing[i])'
  <2> DEFINE e == executing[i]
  <2>1. Served(e) /\ e \in Execution /\ e.calls \in Nat
    <3>1. Served(e) /\ e \in Execution
      BY DEF CallbackInv, HandedOut, CallbackTypes, ServedInv
    <3> HIDE DEF e
    <3>. QED
      BY <3>1, ExecutionTypes
  <2> HIDE DEF e
  <2>2. \A r \in e.since \cap registered' : r \in registered /\ properties'[r] = properties[r]
    BY <1>1, <1>3, <1>4, <2>1 DEF Served
  <2>3. e.calls <= Len(properties') /\ e.since \subseteq 1 .. Len(properties')
    BY <1>3, <1>4, <2>1 DEF Served
  <2>4. \A r \in e.since \cap registered' :
          r <= e.last /\ e.data \in properties'[r].guard =>
              \E k \in 1 .. Len(e.called) : e.called[k] = r
    BY <2>1, <2>2 DEF Served
  <2>5. Served(e)'
    <3>1. e' = e
      BY <1>1 DEF e
    <3>. QED
      BY <2>1, <2>3, <2>4, <3>1 DEF Served
  <2>. QED
    BY <2>5 DEF e
<1>. QED
  BY <1>1, <1>5, <1>6, <1>7 DEF CallbackInv, HandedOut, ServedInv

(* remove and clear.                                                        *)
LEMMA RemoveStep ==
    ASSUME CallbackInv, registered' \subseteq registered, UNCHANGED <<properties, executing>>
    PROVE  CallbackInv'
<1>1. HandedOut'
  BY FewerServed DEF CallbackInv, HandedOut, CallbackTypes, Alike, ServedInv
<1>2. ASSUME NEW r, Counted(r) PROVE Counted(r)'
  BY <1>2, OthersCounted
<1>3. LimitInv'
  BY <1>2 DEF CallbackInv, LimitInv, Limited
<1>. QED
  BY <1>1, <1>3 DEF CallbackInv

LEMMA ExecuteStep ==
    ASSUME CallbackInv, NEW data \in Data, execute(data)
    PROVE  CallbackInv'
<1> DEFINE new == [data |-> data, last |-> 0, calls |-> 0, completing |-> FALSE,
                   since |-> registered, called |-> <<>>]
<1>1. executing' = Append(executing, new) /\ UNCHANGED <<registered, properties>>
  BY DEF execute
<1>2. /\ properties \in Seq(Registration) /\ registered \subseteq 1 .. Len(properties)
      /\ executing \in Seq(Execution)
  BY DEF CallbackInv, HandedOut, CallbackTypes
<1>3. new \in Execution
  BY <1>2 DEF Execution
<1>4. Served(new)
  BY <1>2 DEF Served
<1>7. new.calls = 0 /\ ~new.completing
  OBVIOUS
<1> HIDE DEF new
<1>5. /\ executing' \in Seq(Execution) /\ Len(executing') = Len(executing) + 1
      /\ \A i \in 1 .. Len(executing) : executing'[i] = executing[i]
      /\ executing'[Len(executing) + 1] = new
  BY <1>1, <1>2, <1>3, AppendProperties
<1>6. \A i \in 1 .. Len(executing') : Served(executing'[i])
  BY <1>2, <1>4, <1>5 DEF CallbackInv, HandedOut, ServedInv
<1>8. HandedOut'
  BY <1>1, <1>2, <1>5, <1>6, FewerServed DEF CallbackInv, HandedOut, Alike
<1>9. ASSUME NEW r \in 1 .. Len(properties), Counted(r) PROVE Counted(r)'
  <2>1. \A i \in 1 .. Len(executing') : i \in 1 .. Len(executing) \/ i = Len(executing) + 1
    BY <1>2, <1>5
  <2>2. \A i \in 1 .. Len(executing) : i \in 1 .. Len(executing')
    BY <1>2, <1>5
  <2>. QED
    BY <1>1, <1>5, <1>7, <1>9, <2>1, <2>2, OthersCounted DEF Calls
<1>10. LimitInv'
  <2>1. \A i \in 1 .. Len(executing') : i \in 1 .. Len(executing) \/ i = Len(executing) + 1
    BY <1>2, <1>5
  <2>. QED
    BY <1>1, <1>5, <1>7, <1>9, <2>1 DEF CallbackInv, LimitInv, Limited
<1>. QED
  BY <1>8, <1>10 DEF CallbackInv

(* The innermost execution changes.                                         *)
LEMMA SetTopTypes ==
    ASSUME HandedOut, executing # <<>>, NEW e \in Execution, SetTop(e)
    PROVE  /\ executing' \in Seq(Execution) /\ Len(executing') = Len(executing)
           /\ Len(executing) \in 1 .. Len(executing) /\ Top = executing[Len(executing)]
           /\ \A i \in 1 .. Len(executing) :
                 executing'[i] = IF i = Len(executing) THEN e ELSE executing[i]
<1>1. executing' = [executing EXCEPT ![Len(executing)] = e] /\ executing \in Seq(Execution)
  BY DEF SetTop, HandedOut, CallbackTypes
<1>. QED
  BY <1>1 DEF Top

LEMMA SetTopServed ==
    ASSUME HandedOut, executing # <<>>, NEW e \in Execution, Served(e), SetTop(e),
           registered' \subseteq registered, Alike
    PROVE  HandedOut'
<1>1. /\ executing' \in Seq(Execution) /\ Len(executing') = Len(executing)
      /\ \A i \in 1 .. Len(executing) :
            executing'[i] = IF i = Len(executing) THEN e ELSE executing[i]
  BY SetTopTypes
<1>2. \A i \in 1 .. Len(executing') : Served(executing'[i])
  BY <1>1 DEF HandedOut, ServedInv
<1>. QED
  BY <1>1, <1>2, FewerServed DEF HandedOut

(* What Tally does: to the registration r, if it has a limit.               *)
LEMMA Tallied ==
    ASSUME HandedOut, NEW r \in 1 .. Len(properties), NEW p, Tally(r, p),
           p \in Registration,
           p.guard = properties[r].guard, p.limit = properties[r].limit
    PROVE  /\ Alike
           /\ properties[r].limit # 0 => properties'[r] = p
           /\ \A q \in 1 .. Len(properties) : q # r => properties'[q] = properties[q]
<1>1. properties \in Seq(Registration)
  BY DEF HandedOut, CallbackTypes
<1>2. CASE properties[r].limit = 0
  BY <1>1, <1>2 DEF Tally, Alike
<1>3. CASE properties[r].limit # 0
  <2>1. properties' = [properties EXCEPT ![r] = p]
    BY <1>3 DEF Tally
  <2>2. /\ properties' \in Seq(Registration) /\ Len(properties') = Len(properties)
        /\ \A q \in 1 .. Len(properties) :
              properties'[q] = IF q = r THEN p ELSE properties[q]
    BY <1>1, <2>1
  <2>. QED
    BY <1>3, <2>2 DEF Alike
<1>. QED
  BY <1>2, <1>3

LEMMA RegistrationTypes ==
    ASSUME HandedOut, NEW r \in 1 .. Len(properties)
    PROVE  /\ properties[r] \in Registration
           /\ properties[r].count \in Nat /\ properties[r].limit \in Nat
           /\ properties[r].begun \in Int /\ properties[r].excused \in BOOLEAN
<1>1. properties[r] \in Registration
  BY DEF HandedOut, CallbackTypes
<1>. QED
  BY <1>1, CallbackAssumption DEF Registration

(* The innermost execution goes from one registration (or none) to another  *)
(* (or none): what counts is what becomes of these two.                     *)
LEMMA TopCounted ==
    ASSUME CallbackInv, executing # <<>>, NEW e \in Execution, SetTop(e), Alike,
           registered' \subseteq registered, e.calls = 0 => ~e.completing,
           NEW c,
           \A q \in 1 .. Len(properties) : q # c =>
               properties'[q] = properties[q] /\ e.calls # q /\ Top.calls # q,
           c \in 1 .. Len(properties) /\ Limited(c)' => Counted(c)'
    PROVE  LimitInv'
<1>1. /\ executing' \in Seq(Execution) /\ Len(executing') = Len(executing)
      /\ Top = executing[Len(executing)]
      /\ \A i \in 1 .. Len(executing) :
            executing'[i] = IF i = Len(executing) THEN e ELSE executing[i]
  BY SetTopTypes DEF CallbackInv
<1>2. ASSUME NEW q \in 1 .. Len(properties), q # c, Limited(q)' PROVE Counted(q)'
  <2>1. properties'[q] = properties[q] /\ e.calls # q /\ Top.calls # q
    BY <1>2
  <2>2. Counted(q)
    BY <1>2, <2>1 DEF CallbackInv, LimitInv, Limited
  <2>. QED
    BY <1>1, <2>1, <2>2, OthersCounted DEF Calls
<1>3. Len(properties') = Len(properties)
  BY DEF Alike
<1>. QED
  BY <1>1, <1>2, <1>3 DEF CallbackInv, LimitInv

(* The iterator goes on: nobody is between it and the next one.             *)
LEMMA CallNextStep ==
    ASSUME CallbackInv, NEW r \in registered, CallNext(r)
    PROVE  CallbackInv'
<1>8. PICK p : p = [properties[r] EXCEPT !.begun = @ + 1, !.excused = @ \/ UnderWay(r)]
  OBVIOUS
<1>1. /\ executing # <<>> /\ IsNext(r) /\ UNCHANGED registered /\ Top.calls = 0
      /\ IF Top.data \in properties[r].guard
         THEN /\ SetTop([Top EXCEPT !.last = r, !.calls = r, !.called = Append(@, r)])
              /\ Tally(r, p)
         ELSE SetTop([Top EXCEPT !.last = r]) /\ UNCHANGED properties
  BY <1>8 DEF CallNext, Free, Top
<1>0. HandedOut /\ r \in 1 .. Len(properties)
  BY DEF CallbackInv, HandedOut, CallbackTypes
<1>7. ~Top.completing
  <2>1. Len(executing) \in 1 .. Len(executing) /\ Top = executing[Len(executing)]
    BY <1>0, <1>1, TopTypes DEF HandedOut, Top
  <2>. QED
    BY <1>1, <2>1 DEF CallbackInv, LimitInv
<1>2. /\ Top \in Execution /\ Served(Top)
      /\ Top.last \in Nat /\ Top.calls \in Nat /\ Top.called \in Seq(Nat)
  BY <1>1, TopTypes, ExecutionTypes DEF CallbackInv, HandedOut, ServedInv, Top
<1>3. /\ r \in Nat /\ r > Top.last /\ r <= Len(properties)
      /\ registered \subseteq 1 .. Len(properties) /\ Len(properties) \in Nat
  BY <1>1 DEF IsNext, Ahead, CallbackInv, HandedOut, CallbackTypes
<1>4. \A q \in registered : q <= r => q <= Top.last \/ q = r
  BY <1>1, <1>2, <1>3 DEF IsNext, Ahead
<1>5. CASE Top.data \in properties[r].guard
  <2> DEFINE called == Append(Top.called, r)
             e == [Top EXCEPT !.last = r, !.calls = r, !.called = called]
  <2>0. /\ called \in Seq(Nat) /\ Len(called) = Len(Top.called) + 1
        /\ \A k \in 1 .. Len(Top.called) : called[k] = Top.called[k]
        /\ called[Len(Top.called) + 1] = r
    BY <1>2, <1>3, AppendProperties
  <2>1. SetTop(e)
    BY <1>1, <1>5
  <2> HIDE DEF called
  <2>2. /\ e.last = r /\ e.calls = r /\ e.called = called /\ e.completing = Top.completing
        /\ e.data = Top.data /\ e.since = Top.since
    BY <1>2 DEF Execution
  <2>3. e \in Execution
    BY <1>2, <1>3, <2>0 DEF Execution
  <2> HIDE DEF e
  <2>5. /\ Len(Top.called) \in Nat
        /\ \A k \in 1 .. Len(Top.called) : Top.called[k] \in Nat /\ Top.called[k] <= Top.last
        /\ \A j, k \in 1 .. Len(Top.called) : j < k => Top.called[j] < Top.called[k]
    BY <1>2 DEF Served
  <2>6. ASSUME NEW k \in 1 .. Len(called)
        PROVE  k \in 1 .. Len(Top.called) \/ k = Len(Top.called) + 1
    BY <2>0, <2>5
  <2>7. ASSUME NEW k \in 1 .. Len(Top.called)
        PROVE  called[k] \in Nat /\ called[k] < r
    <3>1. called[k] = Top.called[k]
      BY <2>0
    <3>2. Top.called[k] \in Nat /\ Top.called[k] <= Top.last
      BY <2>5
    <3>. QED
      BY <1>2, <1>3, <3>1, <3>2
  <2>8. ASSUME NEW k \in 1 .. Len(called) PROVE called[k] <= r
    BY <1>3, <2>0, <2>6, <2>7, SMTT(30)
  <2>9. ASSUME NEW j \in 1 .. Len(called), NEW k \in 1 .. Len(called), j < k
        PROVE  called[j] < called[k]
    <3>1. j \in 1 .. Len(Top.called)
      BY <2>0, <2>5, <2>9
    <3>2. CASE k \in 1 .. Len(Top.called)
      BY <2>0, <2>5, <2>9, <3>1, <3>2
    <3>3. CASE k = Len(Top.called) + 1
      BY <2>0, <2>7, <3>1, <3>3
    <3>. QED
      BY <2>6, <3>2, <3>3
  <2>10. ASSUME NEW q \in Top.since \cap registered, q <= r, Top.data \in properties[q].guard
         PROVE  \E k \in 1 .. Len(called) : called[k] = q
    <3>1. CASE q = r
      <4>1. Len(Top.called) + 1 \in 1 .. Len(called)
        BY <2>0, <2>5
      <4>. QED
        BY <2>0, <3>1, <4>1
    <3>2. CASE q <= Top.last
      <4>1. PICK k \in 1 .. Len(Top.called) : Top.called[k] = q
        BY <1>2, <2>10, <3>2 DEF Served
      <4>2. k \in 1 .. Len(called) /\ called[k] = q
        BY <2>0, <2>5, <4>1
      <4>. QED
        BY <4>2
    <3>. QED
      BY <1>4, <2>10, <3>1, <3>2
  <2>11. Served(e)
    BY <1>2, <1>3, <2>2, <2>8, <2>9, <2>10 DEF Served
  <2>12. /\ properties[r].count \in Nat /\ properties[r].limit \in Nat
         /\ properties[r].begun \in Int /\ properties[r].excused \in BOOLEAN
         /\ properties[r] \in Registration
    BY <1>0, RegistrationTypes
  <2>13. /\ p \in Registration /\ p.guard = properties[r].guard /\ p.limit = properties[r].limit
         /\ p.count = properties[r].count /\ p.begun = properties[r].begun + 1
         /\ p.excused = (properties[r].excused \/ UnderWay(r))
    <3>1. PICK b \in BOOLEAN : b = (properties[r].excused \/ UnderWay(r))
      OBVIOUS
    <3>2. p = [properties[r] EXCEPT !.begun = @ + 1, !.excused = b]
      BY ONLY <1>8, <3>1
    <3>3. p = [callback |-> properties[r].callback, guard |-> properties[r].guard,
               limit |-> properties[r].limit, count |-> properties[r].count,
               begun |-> properties[r].begun + 1, excused |-> b]
      BY <2>12, <3>2 DEF Registration
    <3>4. /\ properties[r].callback \in Callbacks /\ properties[r].guard \in Guards
          /\ properties[r].limit \in CallLimits /\ properties[r].begun + 1 \in Int
      BY <2>12 DEF Registration
    <3>5. p \in Registration
      BY <2>12, <3>1, <3>3, <3>4 DEF Registration
    <3>6. /\ p.guard = properties[r].guard /\ p.limit = properties[r].limit
          /\ p.count = properties[r].count /\ p.begun = properties[r].begun + 1
          /\ p.excused = b
      BY ONLY <3>3
    <3>. QED
      BY <3>1, <3>5, <3>6
  <2>14. Tally(r, p)
    BY <1>1, <1>5
  <2>15. /\ Alike /\ (properties[r].limit # 0 => properties'[r] = p)
         /\ \A q \in 1 .. Len(properties) : q # r => properties'[q] = properties[q]
    BY <1>0, <2>13, <2>14, Tallied
  <2>16. HandedOut'
    BY <1>0, <1>1, <2>1, <2>3, <2>11, <2>15, SetTopServed
  <2>17. ASSUME Limited(r)' PROVE Counted(r)'
    <3>1. properties[r].limit # 0 /\ properties'[r] = p /\ Limited(r) /\ ~UnderWay(r)
      BY <1>0, <2>13, <2>15, <2>17 DEF Limited, Alike
    <3>2. Counted(r) /\ \A i \in 1 .. Len(executing) : ~Calls(executing[i], r)
      BY <1>0, <3>1 DEF CallbackInv, LimitInv, UnderWay, Calls
    <3>3. ~Calling(r) /\ ~Completing(r)
      BY <3>2 DEF Calling, Completing, InBody, InComplete
    <3>4. /\ properties[r].begun = properties[r].count
          /\ properties[r].count < properties[r].limit
      BY <3>2, <3>3 DEF Counted
    <3>5. /\ Len(executing') = Len(executing) /\ Len(executing) \in 1 .. Len(executing)
          /\ \A i \in 1 .. Len(executing) :
                executing'[i] = IF i = Len(executing) THEN e ELSE executing[i]
      BY <1>0, <1>1, <2>1, <2>3, SetTopTypes
    <3>6. \A i \in 1 .. Len(executing') : Calls(executing'[i], r) <=> i = Len(executing)
      BY <2>2, <3>2, <3>5 DEF Calls
    <3>7. Calling(r)' /\ ~Completing(r)'
      BY <1>7, <2>2, <3>5, <3>6 DEF Calling, Completing, InBody, InComplete
    <3>8. properties'[r].begun = properties[r].count + 1 /\ properties'[r].count = properties[r].count
          /\ properties'[r].limit = properties[r].limit
      BY <2>13, <3>1, <3>4
    <3>. QED
      BY <2>12, <3>4, <3>6, <3>7, <3>8 DEF Counted
  <2>18. LimitInv'
    <3>1. \A q \in 1 .. Len(properties) : q # r =>
              properties'[q] = properties[q] /\ e.calls # q /\ Top.calls # q
      BY <1>1, <2>2, <2>15
    <3>. QED
      BY <1>1, <1>7, <2>1, <2>2, <2>3, <2>15, <2>17, <3>1, TopCounted
  <2>. QED
    BY <2>16, <2>18 DEF CallbackInv
<1>6. CASE Top.data \notin properties[r].guard
  <2> DEFINE e == [Top EXCEPT !.last = r]
  <2>1. /\ e.last = r /\ e.calls = Top.calls /\ e.called = Top.called
        /\ e.completing = Top.completing
        /\ e.data = Top.data /\ e.since = Top.since
    BY <1>2 DEF Execution
  <2>2. e \in Execution
    BY <1>2, <1>3 DEF Execution
  <2>3. SetTop(e)
    BY <1>1, <1>6
  <2> HIDE DEF e
  <2>4. \A k \in 1 .. Len(Top.called) : Top.called[k] \in Nat /\ Top.called[k] <= Top.last
    BY <1>2 DEF Served
  <2>5. \A k \in 1 .. Len(e.called) : e.called[k] <= e.last
    BY <1>2, <1>3, <2>1, <2>4
  <2>6. \A q \in e.since \cap registered :
           q <= e.last /\ e.data \in properties[q].guard =>
               \E k \in 1 .. Len(e.called) : e.called[k] = q
    BY <1>2, <1>4, <1>6, <2>1 DEF Served
  <2>7. Served(e)
    BY <1>2, <2>1, <2>5, <2>6 DEF Served
  <2>8. Alike /\ properties' = properties
    BY <1>0, <1>1, <1>6 DEF Alike, HandedOut, CallbackTypes
  <2>9. HandedOut'
    BY <1>0, <1>1, <2>2, <2>3, <2>7, <2>8, SetTopServed
  <2>10. LimitInv'
    <3>1. \A q \in 1 .. Len(properties) : q # 0 =>
              properties'[q] = properties[q] /\ e.calls # q /\ Top.calls # q
      BY <1>1, <2>1, <2>8
    <3>2. 0 \notin 1 .. Len(properties)
      OBVIOUS
    <3>. QED
      BY <1>1, <1>7, <2>1, <2>2, <2>3, <2>8, <3>1, <3>2, TopCounted
  <2>. QED
    BY <2>9, <2>10 DEF CallbackInv
<1>. QED
  BY <1>5, <1>6

(* The innermost execution is in r, which becomes p; whoever is deleted has *)
(* r's callback.                                                            *)
LEMMA TopCalls ==
    ASSUME CallbackInv, executing # <<>>, Free
    PROVE  /\ Top \in Execution /\ Served(Top) /\ Top = executing[Len(executing)]
           /\ Len(executing) \in 1 .. Len(executing)
           /\ Top.calls \in 1 .. Len(properties) /\ Top.calls # 0
           /\ Top.completing \in BOOLEAN
<1>1. Top.calls # 0
  BY DEF Free, Top
<1>2. /\ Top \in Execution /\ Len(executing) \in 1 .. Len(executing)
      /\ Top.calls \in Nat
  BY TopTypes, ExecutionTypes DEF CallbackInv, HandedOut
<1>3. Served(Top)
  BY <1>2 DEF CallbackInv, HandedOut, ServedInv, Top
<1>4. Len(properties) \in Nat
  BY DEF CallbackInv, HandedOut, CallbackTypes
<1>. QED
  BY <1>1, <1>2, <1>3, <1>4 DEF Top, Served, Execution

(* A call or an onComplete ends: the one under way, of a registration that  *)
(* is not excused, is the only one.                                         *)
LEMMA OnlyTopCalls ==
    ASSUME CallbackInv, executing # <<>>, Free, Limited(Top.calls)
    PROVE  /\ Counted(Top.calls)
           /\ \A i \in 1 .. Len(executing) : Calls(executing[i], Top.calls) <=> i = Len(executing)
           /\ Calling(Top.calls) <=> ~Top.completing
           /\ Completing(Top.calls) <=> Top.completing
<1>1. /\ Top = executing[Len(executing)] /\ Len(executing) \in 1 .. Len(executing)
      /\ Top.calls \in 1 .. Len(properties)
  BY TopCalls
<1>2. Counted(Top.calls)
  BY <1>1 DEF CallbackInv, LimitInv
<1>3. \A i \in 1 .. Len(executing) : Calls(executing[i], Top.calls) <=> i = Len(executing)
  BY <1>1, <1>2 DEF Counted, Calls
<1>. QED
  BY <1>1, <1>2, <1>3 DEF Calling, Completing, InBody, InComplete, Calls

(* Whoever reaches its limit with this call is registered no more, or its   *)
(* onComplete is called.                                                    *)
LEMMA ReturnStep ==
    ASSUME CallbackInv, Return
    PROVE  CallbackInv'
<1>0. PICK c : c = Top.calls
  OBVIOUS
<1>12. PICK p : p = [properties[c] EXCEPT !.count = @ + 1]
  OBVIOUS
<1>1. /\ executing # <<>> /\ Free /\ ~Top.completing /\ Tally(c, p)
  BY <1>0, <1>12 DEF Return
<1>2. PICK e : /\ SetTop(e)
               /\ \/ /\ e = [Top EXCEPT !.completing = TRUE] /\ Reached(c)
                     /\ registered' = registered
                  \/ /\ e = [Top EXCEPT !.calls = 0]
                     /\ registered' = IF Reached(c) THEN Without(properties[c].callback)
                                      ELSE registered
  BY <1>0, <1>12 DEF Return
<1>3. /\ Top \in Execution /\ Served(Top) /\ c \in 1 .. Len(properties) /\ c # 0
      /\ HandedOut
  BY <1>0, <1>1, TopCalls DEF CallbackInv
<1>4. /\ e \in Execution /\ e.last = Top.last /\ e.called = Top.called
      /\ e.data = Top.data /\ e.since = Top.since
      /\ \/ e.calls = c /\ e.completing /\ Reached(c)
         \/ e.calls = 0 /\ ~e.completing /\ (Reached(c) => c \notin registered')
      /\ registered' \subseteq registered
  <2>1. CASE e = [Top EXCEPT !.completing = TRUE] /\ Reached(c) /\ registered' = registered
    BY <1>0, <1>3, <2>1 DEF Execution
  <2>2. CASE /\ e = [Top EXCEPT !.calls = 0]
             /\ registered' = IF Reached(c) THEN Without(properties[c].callback) ELSE registered
    <3>1. /\ e \in Execution /\ e.last = Top.last /\ e.called = Top.called
          /\ e.data = Top.data /\ e.since = Top.since /\ e.calls = 0
          /\ e.completing = Top.completing
      BY <1>3, <2>2 DEF Execution
    <3>2. registered' \subseteq registered /\ (Reached(c) => c \notin registered')
      BY <2>2 DEF Without
    <3>. QED
      BY <1>1, <3>1, <3>2
  <2>. QED
    BY <1>2, <2>1, <2>2
<1>5. Served(e)
  BY <1>3, <1>4 DEF Served, HandedOut, CallbackTypes
<1>6. /\ properties[c].count \in Nat /\ properties[c].limit \in Nat
      /\ properties[c].begun \in Int /\ properties[c] \in Registration
  BY <1>3, RegistrationTypes
<1>7. /\ p \in Registration /\ p.guard = properties[c].guard /\ p.limit = properties[c].limit
      /\ p.count = properties[c].count + 1 /\ p.begun = properties[c].begun
      /\ p.excused = properties[c].excused
  BY <1>6, <1>12 DEF Registration
<1>8. /\ Alike /\ (properties[c].limit # 0 => properties'[c] = p)
      /\ \A q \in 1 .. Len(properties) : q # c => properties'[q] = properties[q]
  BY <1>1, <1>3, <1>7, Tallied
<1>9. HandedOut'
  BY <1>1, <1>2, <1>3, <1>4, <1>5, <1>8, SetTopServed
<1>10. ASSUME Limited(c)' PROVE Counted(c)'
  <2>1. properties[c].limit # 0 /\ properties'[c] = p /\ Limited(c)
    BY <1>3, <1>7, <1>8, <1>10 DEF Limited, Alike
  <2>2. /\ Counted(c) /\ Calling(c)
        /\ \A i \in 1 .. Len(executing) : Calls(executing[i], c) <=> i = Len(executing)
    BY <1>0, <1>1, <2>1, OnlyTopCalls
  <2>3. properties[c].begun = properties[c].count + 1 /\ properties[c].count < properties[c].limit
    BY <2>2 DEF Counted
  <2>4. /\ Len(executing') = Len(executing) /\ Len(executing) \in 1 .. Len(executing)
        /\ \A i \in 1 .. Len(executing) :
              executing'[i] = IF i = Len(executing) THEN e ELSE executing[i]
    BY <1>1, <1>2, <1>3, <1>4, SetTopTypes
  <2>5. ~Calling(c)'
    BY <1>3, <1>4, <2>2, <2>4 DEF Calling, InBody, Calls
  <2>6. \A i, j \in 1 .. Len(executing') :
            Calls(executing'[i], c) /\ Calls(executing'[j], c) => i = j
    BY <2>2, <2>4 DEF Calls
  <2>7. /\ properties'[c].begun = properties'[c].count
        /\ properties'[c].count = properties[c].count + 1
        /\ properties'[c].limit = properties[c].limit
    BY <1>7, <2>1, <2>3
  <2>8. c \in registered' /\ ~Completing(c)' => ~Reached(c)
    BY <1>4, <2>4 DEF Completing, InComplete, Calls
  <2>9. ~Reached(c) => properties[c].count + 1 # properties[c].limit
    BY <2>1 DEF Reached
  <2>10. /\ properties'[c].count <= properties'[c].limit
         /\ c \in registered' /\ ~Completing(c)' => properties'[c].count < properties'[c].limit
    BY <1>6, <2>3, <2>7, <2>8, <2>9
  <2>. QED
    BY <2>5, <2>6, <2>7, <2>10 DEF Counted
<1>11. LimitInv'
  <2>1. \A q \in 1 .. Len(properties) : q # c =>
            properties'[q] = properties[q] /\ e.calls # q /\ Top.calls # q
    BY <1>0, <1>4, <1>8
  <2>. QED
    BY <1>1, <1>2, <1>3, <1>4, <1>8, <1>10, <2>1, TopCounted
<1>. QED
  BY <1>9, <1>11 DEF CallbackInv

LEMMA CompletedStep ==
    ASSUME CallbackInv, Completed
    PROVE  CallbackInv'
<1>0. PICK c : c = Top.calls
  OBVIOUS
<1>10. PICK e : e = [Top EXCEPT !.calls = 0, !.completing = FALSE]
  OBVIOUS
<1>1. /\ executing # <<>> /\ Free /\ Top.completing /\ SetTop(e)
      /\ registered' = Without(properties[c].callback) /\ UNCHANGED properties
  BY <1>0, <1>10 DEF Completed
<1>2. /\ Top \in Execution /\ Served(Top) /\ c \in 1 .. Len(properties) /\ c # 0
      /\ HandedOut
  BY <1>0, <1>1, TopCalls DEF CallbackInv
<1>3. /\ e \in Execution /\ e.last = Top.last /\ e.called = Top.called
      /\ e.data = Top.data /\ e.since = Top.since /\ e.calls = 0 /\ ~e.completing
  BY <1>2, <1>10 DEF Execution
<1>4. registered' \subseteq registered /\ c \notin registered'
  BY <1>1 DEF Without
<1>5. Served(e)
  BY <1>2, <1>3 DEF Served, HandedOut, CallbackTypes
<1>6. Alike
  BY <1>1, <1>2 DEF Alike, HandedOut, CallbackTypes
<1>7. HandedOut'
  BY <1>1, <1>2, <1>3, <1>4, <1>5, <1>6, SetTopServed
<1>8. ASSUME Limited(c)' PROVE Counted(c)'
  <2>1. Limited(c)
    BY <1>1, <1>8 DEF Limited
  <2>2. /\ Counted(c) /\ ~Calling(c)
        /\ \A i \in 1 .. Len(executing) : Calls(executing[i], c) <=> i = Len(executing)
    BY <1>0, <1>1, <2>1, OnlyTopCalls
  <2>3. /\ Len(executing') = Len(executing)
        /\ \A i \in 1 .. Len(executing) :
              executing'[i] = IF i = Len(executing) THEN e ELSE executing[i]
    BY <1>1, <1>2, <1>3, SetTopTypes
  <2>4. \A i \in 1 .. Len(executing') : ~Calls(executing'[i], c)
    BY <1>2, <1>3, <2>2, <2>3 DEF Calls
  <2>5. ~Calling(c)'
    BY <2>4 DEF Calling, InBody
  <2>. QED
    BY <1>1, <1>4, <2>2, <2>4, <2>5 DEF Counted
<1>9. LimitInv'
  <2>1. \A q \in 1 .. Len(properties) : q # c =>
            properties'[q] = properties[q] /\ e.calls # q /\ Top.calls # q
    BY <1>0, <1>1, <1>3
  <2>. QED
    BY <1>1, <1>3, <1>4, <1>6, <1>8, <2>1, TopCounted
<1>. QED
  BY <1>7, <1>9 DEF CallbackInv

(* Throw and End: the innermost execution is left.                          *)
LEMMA Popped ==
    ASSUME HandedOut, executing # <<>>, Pop, UNCHANGED registered, Alike
    PROVE  /\ executing' \in Seq(Execution) /\ Len(executing') = Len(executing) - 1
           /\ Len(executing) \in Nat
           /\ \A i \in 1 .. Len(executing') :
                 i \in 1 .. Len(executing) /\ i # Len(executing) /\ executing'[i] = executing[i]
           /\ \A i \in 1 .. Len(executing) : i # Len(executing) => i \in 1 .. Len(executing')
           /\ HandedOut'
<1>1. executing' = SubSeq(executing, 1, Len(executing) - 1) /\ executing \in Seq(Execution)
  BY DEF Pop, HandedOut, CallbackTypes
<1>2. Len(executing) \in Nat /\ Len(executing) >= 1
  BY <1>1
<1>3. /\ executing' \in Seq(Execution) /\ Len(executing') = Len(executing) - 1
      /\ \A i \in 1 .. Len(executing) - 1 : executing'[i] = executing[i]
  <2> DEFINE n == Len(executing) - 1
  <2>1. n \in Nat /\ \A i \in 1 .. n : executing[i] \in Execution
    BY <1>1, <1>2
  <2> HIDE DEF n
  <2>2. /\ SubSeq(executing, 1, n) \in Seq(Execution)
        /\ Len(SubSeq(executing, 1, n)) = IF 1 <= n THEN n - 1 + 1 ELSE 0
        /\ \A i \in 1 .. n - 1 + 1 : SubSeq(executing, 1, n)[i] = executing[1 + i - 1]
    BY <2>1, SubSeqProperties
  <2>3. \A i \in 1 .. n : i \in 1 .. n - 1 + 1 /\ 1 + i - 1 = i
    BY <2>1
  <2>4. executing' = SubSeq(executing, 1, n)
    BY <1>1 DEF n
  <2>5. Len(executing') = n
    BY <2>1, <2>2, <2>4
  <2>. QED
    BY <2>2, <2>3, <2>4, <2>5 DEF n
<1>4. \A i \in 1 .. Len(executing') : Served(executing'[i])
  BY <1>2, <1>3 DEF HandedOut, ServedInv
<1>5. HandedOut'
  BY <1>3, <1>4, FewerServed DEF HandedOut
<1>. QED
  BY <1>2, <1>3, <1>5

LEMMA EndStep ==
    ASSUME CallbackInv, End
    PROVE  CallbackInv'
<1>1. executing # <<>> /\ Pop /\ UNCHANGED <<registered, properties>> /\ Top.calls = 0
  BY DEF End, Free, Top
<1>2. HandedOut /\ Alike
  BY <1>1 DEF CallbackInv, HandedOut, Alike, CallbackTypes
<1>3. /\ Len(executing') = Len(executing) - 1 /\ Len(executing) \in Nat
      /\ \A i \in 1 .. Len(executing') :
            i \in 1 .. Len(executing) /\ i # Len(executing) /\ executing'[i] = executing[i]
      /\ \A i \in 1 .. Len(executing) : i # Len(executing) => i \in 1 .. Len(executing')
      /\ HandedOut'
  BY <1>1, <1>2, Popped
<1>4. ASSUME NEW r \in 1 .. Len(properties), Counted(r) PROVE Counted(r)'
  <2>1. \A i \in 1 .. Len(executing) : Calls(executing[i], r) => i # Len(executing)
    BY <1>1 DEF Calls, Top
  <2>. QED
    BY <1>1, <1>3, <1>4, <2>1, OthersCounted DEF Calls
<1>5. LimitInv'
  BY <1>1, <1>3, <1>4 DEF CallbackInv, LimitInv, Limited
<1>. QED
  BY <1>3, <1>5 DEF CallbackInv

LEMMA ThrowStep ==
    ASSUME CallbackInv, Throw
    PROVE  CallbackInv'
<1>0. PICK c : c = Top.calls
  OBVIOUS
<1>1. executing # <<>> /\ Free /\ Pop /\ UNCHANGED registered
  BY DEF Throw
<1>2. /\ Top = executing[Len(executing)] /\ Len(executing) \in 1 .. Len(executing)
      /\ c \in 1 .. Len(properties) /\ HandedOut /\ Top.completing \in BOOLEAN
  BY <1>0, <1>1, TopCalls DEF CallbackInv
<1>3. /\ properties[c].count \in Nat /\ properties[c].limit \in Nat
      /\ properties[c].begun \in Int /\ properties[c].excused \in BOOLEAN
      /\ properties[c] \in Registration
  BY <1>2, RegistrationTypes
<1>4. PICK p : /\ Tally(c, p)
               /\ p = IF Top.completing THEN [properties[c] EXCEPT !.excused = TRUE]
                      ELSE [properties[c] EXCEPT !.begun = @ - 1]
  BY <1>0 DEF Throw
<1>5. /\ p \in Registration /\ p.guard = properties[c].guard /\ p.limit = properties[c].limit
      /\ p.count = properties[c].count
      /\ ~p.excused => /\ ~properties[c].excused /\ ~Top.completing
                       /\ p.begun = properties[c].begun - 1
  <2>1. CASE Top.completing /\ p = [properties[c] EXCEPT !.excused = TRUE]
    BY <1>3, <2>1 DEF Registration
  <2>2. CASE ~Top.completing /\ p = [properties[c] EXCEPT !.begun = @ - 1]
    BY <1>3, <2>2 DEF Registration
  <2>. QED
    BY <1>4, <2>1, <2>2
<1>6. /\ Alike /\ (properties[c].limit # 0 => properties'[c] = p)
      /\ \A q \in 1 .. Len(properties) : q # c => properties'[q] = properties[q]
  BY <1>2, <1>4, <1>5, Tallied
<1>7. /\ Len(executing') = Len(executing) - 1 /\ Len(executing) \in Nat
      /\ \A i \in 1 .. Len(executing') :
            i \in 1 .. Len(executing) /\ i # Len(executing) /\ executing'[i] = executing[i]
      /\ \A i \in 1 .. Len(executing) : i # Len(executing) => i \in 1 .. Len(executing')
      /\ HandedOut'
  BY <1>1, <1>2, <1>6, Popped
<1>8. ASSUME Limited(c)' PROVE Counted(c)'
  <2>1. /\ properties[c].limit # 0 /\ properties'[c] = p /\ Limited(c) /\ ~p.excused
    BY <1>2, <1>5, <1>6, <1>8 DEF Limited, Alike
  <2>2. /\ Counted(c) /\ Calling(c) /\ ~Completing(c)
        /\ \A i \in 1 .. Len(executing) : Calls(executing[i], c) <=> i = Len(executing)
    BY <1>0, <1>1, <1>5, <2>1, OnlyTopCalls
  <2>3. properties[c].begun = properties[c].count + 1 /\ properties[c].count < properties[c].limit
    BY <2>2 DEF Counted
  <2>4. \A i \in 1 .. Len(executing') : ~Calls(executing'[i], c)
    BY <1>7, <2>2
  <2>5. ~Calling(c)'
    BY <2>4 DEF Calling, InBody
  <2>6. /\ properties'[c].begun = properties'[c].count
        /\ properties'[c].count = properties[c].count
        /\ properties'[c].limit = properties[c].limit
    BY <1>3, <1>5, <2>1, <2>3
  <2>7. properties'[c].count <= properties'[c].limit /\ properties'[c].count < properties'[c].limit
    BY <1>3, <2>3, <2>6
  <2>. QED
    BY <2>4, <2>5, <2>6, <2>7 DEF Counted
<1>9. ASSUME NEW r \in 1 .. Len(properties), r # c, Counted(r) PROVE Counted(r)'
  <2>1. \A i \in 1 .. Len(executing) : Calls(executing[i], r) => i # Len(executing)
    BY <1>0, <1>2, <1>9 DEF Calls
  <2>2. properties'[r] = properties[r]
    BY <1>6, <1>9
  <2>. QED
    BY <1>1, <1>7, <1>9, <2>1, <2>2, OthersCounted DEF Calls
<1>10. LimitInv'
  <2>1. \A r \in 1 .. Len(properties) : r # c => properties'[r] = properties[r]
    BY <1>6
  <2>2. Len(properties') = Len(properties)
    BY <1>6 DEF Alike
  <2>. QED
    BY <1>7, <1>8, <1>9, <2>1, <2>2 DEF CallbackInv, LimitInv, Limited
<1>. QED
  BY <1>7, <1>10 DEF CallbackInv

-----------------------------------------------------------------------------

LEMMA CallbackInvStep == CallbackInv /\ [CallbacksNext]_callbackVars => CallbackInv'
<1> SUFFICES ASSUME CallbackInv, [CallbacksNext]_callbackVars PROVE CallbackInv'
  OBVIOUS
<1>1. ASSUME NEW f \in Callbacks, remove(f) PROVE CallbackInv'
  BY <1>1, RemoveStep DEF remove, Without
<1>2. CASE clear
  BY <1>2, RemoveStep DEF clear
<1>3. CASE Throw \/ End
  BY <1>3, ThrowStep, EndStep
<1>4. CASE Return \/ Completed
  BY <1>4, ReturnStep, CompletedStep
<1>5. CASE UNCHANGED callbackVars
  BY <1>5, RemoveStep DEF callbackVars
<1>. QED
  BY <1>1, <1>2, <1>3, <1>4, <1>5, AddStep, ExecuteStep, CallNextStep
  DEF CallbacksNext

(* Everyone concerned is called, once, in order and never beyond its limit   *)
(* unless it calls itself or its onComplete throws, for any number of       *)
(* callbacks and any nesting of executions.                                 *)
THEOREM EventsHandedOut == CallbacksSpec => []CallbacksServed
<1>1. CallbackInv => CallbacksServed
  <2> SUFFICES ASSUME CallbackInv PROVE CallbacksServed
    OBVIOUS
  <2>1. CalledInOrder
    BY DEF CallbackInv, HandedOut, ServedInv, Served, CalledInOrder
  <2>2. NobodySkipped
    <3>1. SUFFICES ASSUME executing # <<>>, Exhausted, NEW r \in Top.since \cap registered,
                          Top.data \in properties[r].guard
                   PROVE  \E k \in 1 .. Len(Top.called) : Top.called[k] = r
      BY DEF NobodySkipped
    <3>2. Served(Top)
      BY <3>1, TopTypes DEF CallbackInv, HandedOut, ServedInv, Top
    <3>3. r <= Top.last
      BY <3>1, ExhaustedIsBehind DEF CallbackInv, HandedOut
    <3>. QED
      BY <3>1, <3>2, <3>3 DEF Served
  <2>3. LimitsKept
    <3>1. SUFFICES ASSUME NEW r \in 1 .. Len(properties), Limited(r)
                   PROVE  properties[r].begun <= properties[r].limit
      BY DEF LimitsKept, Limited
    <3>2. /\ properties[r].count \in Nat /\ properties[r].limit \in Nat
          /\ properties[r].begun \in Int
      BY RegistrationTypes DEF CallbackInv
    <3>3. Counted(r)
      BY <3>1 DEF CallbackInv, LimitInv
    <3>. QED
      BY <3>2, <3>3 DEF Counted
  <2>. QED
    BY <2>1, <2>2, <2>3 DEF CallbacksServed
<1>. QED
  BY <1>1, CallbackInvInit, CallbackInvStep, PTL DEF CallbacksSpec
=============================================================================
