----------------------------- MODULE PlatformApi -----------------------------
(***************************************************************************)
(* Calls of the platform API within one process, and the access tokens     *)
(* they are made with.  A call is registered, its token validated and then *)
(* handled, each part awaiting the database; what one part leaves for the  *)
(* next is in the locals of the express application, which all calls       *)
(* share.  The log of a call is written without anybody waiting for it.    *)
(***************************************************************************)
EXTENDS Naturals, Sequences

CONSTANTS
    ApiCalls,  \* requests of the platform API
    Admins,    \* requests of the access token API, with the right api key
    Tokens,    \* access tokens
    Contexts,  \* ids of contexts
    Kinds,     \* the operations called, each by the access right it needs
    Missing    \* no token, no row, nothing

ASSUME PlatformApiAssumption ==
    /\ Kinds \subseteq {"postToIndividual", "postToChannel", "postMultiChannel",
                        "requestChannelCacheStats", "clearChannelCache",
                        "retrieveStatus", "drop"}
    /\ Missing \notin Tokens \cup Contexts

VARIABLES
    apiCalls, \* call to [state, kind, token, id, data]
    locals,   \* of the application: [id, data]
    tokens,   \* the table access_token
    admins,   \* request to [state, op, context, token, data]
    loggers,  \* call to its ScopedLogger [dataLog, committed, timer]
    writes,   \* saves of a log that are under way
    logs,     \* the column log of the table of calls
    held      \* the rows the token of a call has had since it came (history)

callVars == <<apiCalls, locals>>
logVars == <<loggers, writes, logs>>
platformVars == <<callVars, logVars, tokens, admins, held>>

(* Access rights are everything, nothing, one right, or not given at all. *)
AccessRights == Kinds \cup {"all", "none", "undefined"}
TokenData == [contextId : Contexts, accessRights : AccessRights]

NoCall == [state |-> "none", kind |-> "drop", token |-> Missing, id |-> Missing, data |-> Missing]
NoRequest == [state |-> "none", op |-> "info", context |-> Missing, token |-> Missing, data |-> Missing]

PlatformApiInit ==
    /\ apiCalls = [c \in ApiCalls |-> NoCall]
    /\ locals = [id |-> Missing, data |-> Missing]
    /\ tokens \in [Tokens -> {Missing} \cup [contextId : Contexts, accessRights : {"all"}]]
    /\ admins = [a \in Admins |-> NoRequest]
    /\ loggers = [c \in ApiCalls |-> [dataLog |-> <<>>, committed |-> FALSE, timer |-> FALSE]]
    /\ writes = {}
    /\ logs = [c \in ApiCalls |-> <<>>]
    /\ held = [c \in ApiCalls |-> {}]

Moves(c, state) == apiCalls' = [apiCalls EXCEPT ![c].state = state]

(***************************************************************************)
(* The log of a call.                                                      *)
(***************************************************************************)
Saved(c, dataLog) == writes' = writes \cup {[of |-> c, data |-> dataLog]}

commit(c, logged) ==
    LET dataLog == loggers[c].dataLog \o <<logged, "commit">> IN
    /\ loggers' = [loggers EXCEPT ![c] =
           [dataLog |-> dataLog, committed |-> TRUE, timer |-> FALSE]]
    /\ Saved(c, dataLog)
    /\ UNCHANGED logs

AlwaysSaved(c) ==
    /\ loggers[c].timer
    /\ LET dataLog == Append(loggers[c].dataLog, "auto-commit") IN
       /\ loggers' = [loggers EXCEPT ![c].timer = FALSE, ![c].dataLog = dataLog]
       /\ Saved(c, dataLog)
    /\ UNCHANGED <<callVars, tokens, admins, held, logs>>

(* After ten seconds what has been logged is saved, if anything has. *)
autoCommit(c) ==
    /\ loggers[c].timer
    /\ IF loggers[c].dataLog = <<>>
       THEN /\ loggers' = [loggers EXCEPT ![c].timer = FALSE]
            /\ UNCHANGED writes
       ELSE LET dataLog == Append(loggers[c].dataLog, "auto-commit") IN
            /\ loggers' = [loggers EXCEPT ![c].timer = FALSE, ![c].dataLog = dataLog]
            /\ Saved(c, dataLog)
    /\ UNCHANGED <<callVars, tokens, admins, held, logs>>

(* The statements of a connection are not serialized: any one is the next. *)
SaveEnds ==
    \E w \in writes :
        /\ logs' = [logs EXCEPT ![w.of] = w.data]
        /\ writes' = writes \ {w}
        /\ UNCHANGED <<callVars, tokens, admins, held, loggers>>

(* The answer, and then the log. *)
Answers(c, state, logged) == Moves(c, state) /\ commit(c, logged)

(* An exception or a rejected promise, of the database for one: nobody      *)
(* answers.                                                                 *)
Unanswered(c) == Moves(c, "unanswered") /\ UNCHANGED logVars

(***************************************************************************)
(* The way of a call.                                                      *)
(***************************************************************************)
Arrives(c) ==
    /\ apiCalls[c].state = "none"
    /\ \E kind \in Kinds, t \in Tokens \cup {Missing} :
          /\ apiCalls' = [apiCalls EXCEPT ![c] =
                 [NoCall EXCEPT !.state = "registering", !.kind = kind, !.token = t]]
          /\ held' = [held EXCEPT ![c] = IF t = Missing THEN {} ELSE {tokens[t]}]
    /\ UNCHANGED <<locals, tokens, admins, logVars>>

(* The row of the call is inserted, and the locals are replaced; the next   *)
(* handler reads them before anything else happens.                         *)
registerApiCall(c) ==
    /\ apiCalls[c].state = "registering"
    /\ \/ Unanswered(c) /\ UNCHANGED locals
       \/ /\ locals' = [id |-> c, data |-> Missing]
          /\ \/ apiCalls[c].token = Missing /\ Answers(c, "unauthorized", "API key is not set")
             \/ /\ apiCalls[c].token # Missing
                /\ apiCalls' = [apiCalls EXCEPT ![c].state = "validating", ![c].id = locals'.id]
                /\ loggers' = [loggers EXCEPT ![c].timer = TRUE]
                /\ UNCHANGED <<writes, logs>>
    /\ UNCHANGED <<tokens, admins, held>>

(* The first half of validateToken: the row of the token. *)
getTokenData(c) ==
    /\ apiCalls[c].state = "validating"
    /\ LET row == tokens[apiCalls[c].token] IN
       \/ Unanswered(c)
       \/ row = Missing /\ Answers(c, "unauthorized", "API key is invalid")
       \/ /\ row # Missing
          /\ apiCalls' = [apiCalls EXCEPT ![c].state = "context", ![c].data = row]
          /\ UNCHANGED logVars
    /\ UNCHANGED <<locals, tokens, admins, held>>

StaleLocals(c) == [id |-> locals.id, data |-> apiCalls[c].data]

(* What the locals are replaced with when the token is valid: what the call *)
(* has read of them before it waited, and the row of its token.             *)
AuthorizedLocals(c) == [id |-> apiCalls[c].id, data |-> apiCalls[c].data]

(***************************************************************************)
(* The handlers: what they answer instead of working, and what they log    *)
(* when they have worked.                                                  *)
(***************************************************************************)
individualMessageHandler ==
    [refuses |-> {"BadRequest", "PayloadTooLarge"}, logs |-> {"recipients"}]
channelMessageHandler ==
    [refuses |-> {"BadRequest", "PayloadTooLarge"}, logs |-> {"recipients"}]
(* (The recipients of an empty list of messages cannot be reduced: it       *)
(* throws.)                                                                 *)
multiChannelMessageHandler ==
    [refuses |-> {"BadRequest", "PayloadTooLarge"}, logs |-> {"recipients"}]
(* (Nor can the sizes of the messages of an empty cache.) *)
getMessageCache == [refuses |-> {}, logs |-> {"NotFound", "channelStats"}]
clearMessageCache == [refuses |-> {}, logs |-> {"NotFound", "messages"}]
(* (The other processes may not answer in time: the look-up is rejected.) *)
getConnectionStatus == [refuses |-> {}, logs |-> {"NotFound", "status"}]
deleteClientConnection == [refuses |-> {}, logs |-> {"NotFound", "Ok"}]

handler ==
    [postToIndividual |-> individualMessageHandler,
     postToChannel |-> channelMessageHandler,
     postMultiChannel |-> multiChannelMessageHandler,
     requestChannelCacheStats |-> getMessageCache,
     clearChannelCache |-> clearMessageCache,
     retrieveStatus |-> getConnectionStatus,
     drop |-> deleteClientConnection]

Granted(accessRights, kind) == accessRights \in {"all", kind}

(* Only multiChannelMessageHandler looks into access rights that are not    *)
(* there.                                                                   *)
Handle(c) ==
    LET kind == apiCalls[c].kind
        accessRights == locals'.data.accessRights
        Keeps(state) == [apiCalls EXCEPT ![c] =
            [@ EXCEPT !.state = state, !.id = locals'.id, !.data = locals'.data]]
    IN \/ /\ Granted(accessRights, kind)
          /\ apiCalls' = Keeps("working")
          /\ UNCHANGED logVars
       \/ /\ Granted(accessRights, kind)
          /\ apiCalls' = Keeps("refused")
          /\ \E refusal \in handler[kind].refuses : commit(locals'.id, refusal)
       \/ /\ ~Granted(accessRights, kind)
          /\ ~(kind = "postMultiChannel" /\ accessRights = "undefined")
          /\ apiCalls' = Keeps("refused")
          /\ commit(locals'.id, "MethodNotAllowed")
       \/ /\ kind = "postMultiChannel" /\ accessRights = "undefined"
          /\ apiCalls' = Keeps("unanswered")
          /\ UNCHANGED logVars

(* The rest of validateToken: the context of the token.  When it is there,  *)
(* the locals are replaced and the handler of the route reads them at once. *)
validateAccessToken(c) ==
    /\ apiCalls[c].state = "context"
    /\ \/ Unanswered(c) /\ UNCHANGED locals
       \/ Answers(c, "unauthorized", "its data context is invalid") /\ UNCHANGED locals
       \/ locals' = AuthorizedLocals(c) /\ Handle(c)
    /\ UNCHANGED <<tokens, admins, held>>

Works(c) ==
    /\ apiCalls[c].state = "working"
    /\ \/ Unanswered(c)
       \/ /\ Moves(c, "done")
          /\ \E logged \in handler[apiCalls[c].kind].logs : commit(apiCalls[c].id, logged)
    /\ UNCHANGED <<locals, tokens, admins, held>>

(***************************************************************************)
(* The access token API.                                                   *)
(***************************************************************************)
AdminMoves(a, state) == admins' = [admins EXCEPT ![a].state = state]

Table(t, row) ==
    /\ tokens' = [tokens EXCEPT ![t] = row]
    /\ held' = [c \in ApiCalls |-> IF apiCalls[c].token = t THEN held[c] \cup {row} ELSE held[c]]

AdminAsks(a) ==
    /\ admins[a].state = "none"
    /\ \E op \in {"create", "delete", "info"}, x \in Contexts, t \in Tokens :
          admins' = [admins EXCEPT ![a] =
              [NoRequest EXCEPT !.op = op, !.context = x, !.token = t,
                                !.state = IF op = "create" THEN "checking" ELSE "reading"]]
    /\ UNCHANGED <<callVars, logVars, tokens, held>>

(* A context that is not there, or a bad configuration, ends it. *)
createAccessConfiguration(a) ==
    /\ admins[a].state = "checking"
    /\ \/ AdminMoves(a, "answered")
       \/ \E accessRights \in AccessRights :
             admins' = [admins EXCEPT ![a].state = "choosing", ![a].data =
                 [contextId |-> admins[a].context, accessRights |-> accessRights]]
    /\ UNCHANGED <<callVars, logVars, tokens, held>>

(* The token is drawn once and looked up again and again while it is taken, *)
(* twelve times at most; this is the last time.                             *)
createNewToken(a) ==
    /\ admins[a].state = "choosing"
    /\ AdminMoves(a, IF tokens[admins[a].token] = Missing THEN "inserting" ELSE "answered")
    /\ UNCHANGED <<callVars, logVars, tokens, held>>

(* A token that has come up meanwhile makes the statement fail. *)
createAccessEntry(a) ==
    /\ admins[a].state = "inserting"
    /\ AdminMoves(a, "answered")
    /\ IF tokens[admins[a].token] = Missing
       THEN Table(admins[a].token, admins[a].data)
       ELSE UNCHANGED <<tokens, held>>
    /\ UNCHANGED <<callVars, logVars>>

(* getTokenInfo ends here, and so does deleteToken for a token of another   *)
(* context.                                                                 *)
getTokenInfo(a) ==
    /\ admins[a].state = "reading"
    /\ LET row == tokens[admins[a].token] IN
       AdminMoves(a, IF admins[a].op = "delete" /\ row # Missing
                        /\ row.contextId = admins[a].context
                     THEN "deleting" ELSE "answered")
    /\ UNCHANGED <<callVars, logVars, tokens, held>>

deleteToken(a) ==
    /\ admins[a].state = "deleting"
    /\ AdminMoves(a, "answered")
    /\ Table(admins[a].token, Missing)
    /\ UNCHANGED <<callVars, logVars>>

PlatformApiNext ==
    \/ \E c \in ApiCalls :
          \/ Arrives(c) \/ registerApiCall(c) \/ getTokenData(c)
          \/ validateAccessToken(c) \/ Works(c) \/ autoCommit(c)
    \/ SaveEnds
    \/ \E a \in Admins :
          \/ AdminAsks(a) \/ createAccessConfiguration(a) \/ createNewToken(a)
          \/ createAccessEntry(a) \/ getTokenInfo(a) \/ deleteToken(a)

PlatformApiSpec == PlatformApiInit /\ [][PlatformApiNext]_platformVars

(***************************************************************************)
(* Properties.                                                             *)
(***************************************************************************)
(* Although the locals are shared, whoever handles a call has its own id    *)
(* and logger and the rights its own token has had since it came; it works  *)
(* only when they grant the operation.                                      *)
HandledAsAuthorized ==
    \A c \in ApiCalls :
        apiCalls[c].state \in {"working", "refused", "done"} =>
            /\ apiCalls[c].id = c
            /\ apiCalls[c].data \in held[c]
            /\ apiCalls[c].state # "refused" =>
                  Granted(apiCalls[c].data.accessRights, apiCalls[c].kind)

(* When all saves have ended, the table has the answer of every call that   *)
(* was answered, and nothing of the others.                                 *)
LogHoldsAnswer ==
    writes = {} => \A c \in ApiCalls :
        logs[c] = IF apiCalls[c].state \in {"unauthorized", "refused", "done"}
                  THEN loggers[c].dataLog ELSE <<>>
==============================================================================
