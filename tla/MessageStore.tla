----------------------------- MODULE MessageStore -----------------------------
(***************************************************************************)
(* The message store (MessageManagerSqLite) of one data context, with all  *)
(* that uses it: publishing by clients and by API calls, the restoring of  *)
(* channels by a client, and the two ways messages leave the cache.        *)
(*                                                                         *)
(* A database statement is executed at one moment, between the call that   *)
(* starts it and the callback that awaits it; statements that nobody       *)
(* awaits (the recipients of a message) are executed in any order.  A      *)
(* message is its id; a row whose payload is cleared and one that is       *)
(* deleted read the same.  Time is in seconds, as the table keeps it; a    *)
(* configuration says how many the local zone of the server is east of UTC. *)
(***************************************************************************)
EXTENDS Integers, FiniteSets, SequencesExt

CONSTANTS
    Channels,
    ExternalChannels, \* those of an external id
    Publishers,       \* handlers of a client's message or of an API call
    Unset,            \* a caching policy that is not configured
    NoFilter,         \* getCachedMessages without a filter
    Configurations,   \* caching policies, where the ids of the table go on, zone
    Calls,            \* per publisher: the channels of each message of a call
    Targets,          \* channels a client restores, in order
    Filters,          \* ages and lengths it asks for, 0 is none
    MaxMessages,      \* bound: messages registered
    MaxTime,          \* bound: seconds
    MaxRemovals       \* bound: cache deletions and clean-ups

(* A number that is not configured is 0.                                    *)
CachingPolicy == [time : Nat, size : Nat]
CacheFilter == [maxAge : Nat, maxLength : Nat]

ASSUME StoreAssumption ==
    /\ IsFiniteSet(Channels) /\ ExternalChannels \subseteq Channels
    /\ Unset \notin CachingPolicy
    /\ Configurations \subseteq
          [general : CachingPolicy \cup {Unset}, individual : CachingPolicy \cup {Unset},
           channel : [Channels -> CachingPolicy \cup {Unset}] \cup {Unset},
           firstId : Nat \ {0}, zone : Int]
    /\ MaxMessages \in Nat /\ MaxTime \in Nat /\ MaxRemovals \in Nat
    /\ Calls \in [Publishers -> SUBSET Seq(SUBSET Channels)]
    /\ Targets \subseteq Seq(Channels)
    /\ Filters \subseteq CacheFilter
    /\ NoFilter = [maxAge |-> 0, maxLength |-> 0]

VARIABLES
    config,     \* one of the configurations, fixed
    now,
    rows,       \* table messages: row i has id firstId + i - 1
    recipients, \* table message_recipients: pairs of id and channel
    inserting,  \* inserts into it on their way
    calls,      \* per publisher: what it has left to register, and its stage
    delivering, \* messages dispatched and not yet broadcast to the client
    client,     \* a client that subscribes and restores
    deletion,   \* deleteChannelCache under way
    cleanup,    \* clearMessageCache under way: the pairs it has read
    removals    \* bound: deletions and clean-ups so far

storeVars == <<config, now, rows, recipients, inserting, calls, delivering, client,
          deletion, cleanup, removals>>

Idle == [stage |-> "idle", todo |-> <<>>, id |-> 0]
Nothing == [stage |-> "idle", channel |-> Unset, ids |-> {}]
NewClient == [stage |-> "new", targets |-> <<>>, subscribed |-> {}, live |-> {},
              since |-> 0, filter |-> NoFilter, fetched |-> <<>>, late |-> {},
              answer |-> <<>>]

StoreInit ==
    /\ config \in Configurations
    /\ now = 1
    /\ rows = <<>>
    /\ recipients = {} /\ inserting = {}
    /\ calls = [p \in Publishers |-> Idle]
    /\ delivering = {}
    /\ client = NewClient
    /\ deletion = Nothing
    /\ cleanup = {}
    /\ removals = 0

Ids == config.firstId .. config.firstId + Len(rows) - 1
Row(id) == rows[id - config.firstId + 1]
Cached(id) == id \in Ids /\ Row(id).cached

------------------------------------------------------------------------------
(* Caching policies.                                                        *)

(* A configuration need not have channelConfig; the store takes for granted *)
(* that it has.                                                             *)
Throws == config.channel = Unset

Enabled(policy) == policy # Unset /\ (policy.time # 0 \/ policy.size # 0)

(* What the store looks up: the channel's policy, else the general one.     *)
ChannelPolicy(c) ==
    IF config.channel[c] # Unset THEN config.channel[c] ELSE config.general

(* What the manager of the context says of the channel is only whether it   *)
(* has a policy.                                                            *)
HasPolicy(c) ==
    config.general # Unset \/ (~Throws /\ config.channel[c] # Unset)

IndividualPolicy ==
    IF config.individual # Unset THEN config.individual ELSE config.general

ShouldCacheMessage(channels) ==
    \/ \E c \in channels : Enabled(ChannelPolicy(c))
    \/ channels \cap ExternalChannels # {} /\ Enabled(IndividualPolicy)

(* `a && b ? op(a, b) : a ?? b`, for numbers where 0 is undefined.          *)
Least(a, b) == IF a # 0 /\ b # 0 THEN (IF a < b THEN a ELSE b) ELSE a + b

QueryMaxAge(policy, filter) == Least(policy.time, filter.maxAge)
(* Math.min with an undefined maxLength is NaN, which limits nothing.       *)
QueryLimit(policy, filter) ==
    IF policy.size # 0 /\ filter.maxAge # 0
    THEN IF filter.maxLength = 0 THEN 0 ELSE Least(policy.size, filter.maxLength)
    ELSE IF policy.size # 0 THEN policy.size ELSE filter.maxLength

(* The n newest of a set of ids, all of them if n is 0.                     *)
Newest(ids, n) ==
    IF n = 0 THEN ids
    ELSE {i \in ids : Cardinality({j \in ids : j > i}) < n}

InChannel(c) == {id \in Ids : Cached(id) /\ <<id, c>> \in recipients}

(* Mutant of GetCachedMessages: the limit is left to the clean-up.          *)
WithoutLimit(c, since, filter) ==
    IF ~Enabled(ChannelPolicy(c)) THEN {}
    ELSE LET age == QueryMaxAge(ChannelPolicy(c), filter)
         IN {id \in InChannel(c) : id > since /\
                (age = 0 \/ Row(id).time > now - age)}

GetCachedMessages(c, since, filter) ==
    IF ~Enabled(ChannelPolicy(c)) THEN {}
    ELSE LET age == QueryMaxAge(ChannelPolicy(c), filter)
         IN Newest({id \in InChannel(c) :
                      /\ id > since
                      /\ age = 0 \/ Row(id).time > now - age},
                   QueryLimit(ChannelPolicy(c), filter))

------------------------------------------------------------------------------
(* Publishing.  registerMessage awaits the insert of the message, starts    *)
(* the inserts of its recipients and returns; its caller dispatches.        *)

LastId == config.firstId + Len(rows)

(* A client's message or an API call, in a context without channelConfig.   *)
PublishFails(p) ==
    /\ calls[p].stage = "idle"
    /\ Throws
    /\ calls' = [calls EXCEPT ![p].stage = "failed"]
    /\ UNCHANGED <<config, now, rows, recipients, inserting, delivering, client,
                   deletion, cleanup, removals>>

(* The insert of the first message of todo, by a call that begins or goes   *)
(* on.                                                                      *)
InsertMessage(p, todo) ==
    /\ IF calls[p].stage = "idle" THEN todo \in Calls[p] /\ ~Throws
       ELSE calls[p].stage = "registering" /\ todo = calls[p].todo
    /\ todo # <<>>
    /\ Len(rows) < MaxMessages
    /\ rows' = Append(rows, [time |-> now, channels |-> Head(todo),
                             cached |-> ShouldCacheMessage(Head(todo))])
    /\ calls' = [calls EXCEPT ![p] = [stage |-> "registered", todo |-> todo,
                                     id |-> LastId]]
    /\ UNCHANGED <<config, now, recipients, inserting, delivering, client,
                   deletion, cleanup, removals>>

(* Mutant of Registered: of the channels only one is inserted.              *)
OneRecipient(p) ==
    LET id == calls[p].id
        c == CHOOSE c \in Row(id).channels : TRUE
    IN /\ calls[p].stage = "registered"
       /\ inserting' = inserting \cup {<<id, c>>}
       /\ delivering' = delivering \cup {id}
       /\ calls' = [calls EXCEPT
             ![p].todo = Tail(@),
             ![p].stage = IF Len(calls[p].todo) > 1 THEN "registering" ELSE "done"]
       /\ UNCHANGED <<config, now, rows, recipients, client, deletion, cleanup,
                      removals>>

(* The rest of registerMessage and its caller, up to the next message.      *)
Registered(p) ==
    LET id == calls[p].id
    IN /\ calls[p].stage = "registered"
       /\ inserting' = inserting \cup {<<id, c>> : c \in Row(id).channels}
       /\ delivering' = delivering \cup {id}
       /\ calls' = [calls EXCEPT
             ![p].todo = Tail(@),
             ![p].stage = IF Len(calls[p].todo) > 1 THEN "registering" ELSE "done"]
       /\ UNCHANGED <<config, now, rows, recipients, client, deletion, cleanup,
                      removals>>

InsertRecipient(r) ==
    /\ r \in inserting
    /\ inserting' = inserting \ {r}
    /\ recipients' = recipients \cup {r}
    /\ UNCHANGED <<config, now, rows, calls, delivering, client, deletion,
                   cleanup, removals>>

(* The broadcast in the client's worker (module MessageDelivery).           *)
Deliver(id) ==
    /\ id \in delivering
    /\ delivering' = delivering \ {id}
    /\ client' = IF Row(id).channels \cap client.subscribed # {}
                 THEN [client EXCEPT !.live = @ \cup {id}] ELSE client
    /\ UNCHANGED <<config, now, rows, recipients, inserting, calls, deletion,
                   cleanup, removals>>

------------------------------------------------------------------------------
(* The client: it subscribes to what it is going to restore, and restores   *)
(* what it has missed since a message it knows.                             *)

Subscribe(targets) ==
    /\ client.stage = "new"
    /\ client' = [client EXCEPT !.stage = "subscribed", !.targets = targets,
                                !.subscribed = ToSet(targets)]
    /\ UNCHANGED <<config, now, rows, recipients, inserting, calls, delivering,
                   deletion, cleanup, removals>>

(* Ids are sent as texts in base 32 and compared as such: by as many digits *)
(* as the shorter one has, then by their length.                            *)
Digits(id) == CHOOSE n \in 1..id : 32^(n - 1) <= id /\ id < 32^n
FirstDigits(id, n) == id \div 32^(Digits(id) - n)
SameDigits(a, b) == Digits(a) = Digits(b)
TextLess(a, b) ==
    IF SameDigits(a, b) THEN a < b
    ELSE IF Digits(a) < Digits(b) THEN a <= FirstDigits(b, Digits(a))
         ELSE FirstDigits(a, Digits(b)) < b

(* Mutant of SortedBefore: the time is left out.                            *)
ByText(a, b) == TextLess(a, b)
SortedBefore(a, b) ==
    \/ Row(a).time < Row(b).time
    \/ Row(a).time = Row(b).time /\ TextLess(a, b)

(* Every id once, in the order sort() gives.                                *)
Sorted(ids) ==
    {s \in [1..Cardinality(ids) -> ids] :
       /\ ToSet(s) = ids
       /\ \A i, j \in DOMAIN s : i < j => SortedBefore(s[i], s[j])}

Fetched(c, since, filter) ==
    [client EXCEPT
        !.stage = "restoring", !.since = since, !.filter = filter,
        !.fetched = Append(@, GetCachedMessages(c, since, filter)),
        !.late = @ \cup {r[1] : r \in {r \in inserting : r[2] = c}}]

(* The query of one channel.  The request is dropped if the manager has no  *)
(* policy for it, or fails as publishing does.  With the last channel the   *)
(* client gets its answer.                                                  *)
RestoreChannel(since, filter) ==
    LET n == Len(client.fetched) + 1
        c == client.targets[n]
        fetched == Fetched(c, since, filter)
        all == UNION ToSet(fetched.fetched)
    IN
    /\ \/ client.stage = "subscribed"
       \/ /\ client.stage = "restoring"
          /\ since = client.since /\ filter = client.filter
    /\ n <= Len(client.targets)
    /\ \/ /\ Throws \/ ~HasPolicy(c)
          /\ client' = [client EXCEPT !.stage = "ignored"]
       \/ /\ ~Throws /\ HasPolicy(c)
          /\ n < Len(client.targets)
          /\ client' = fetched
       \/ /\ ~Throws /\ HasPolicy(c)
          /\ n = Len(client.targets)
          /\ \E answer \in Sorted(all) :
                client' = [fetched EXCEPT !.stage = "answered", !.answer = answer]
    /\ UNCHANGED <<config, now, rows, recipients, inserting, calls, delivering,
                   deletion, cleanup, removals>>

(* The client goes, of itself or because a message of its was binary, not   *)
(* to be deserialized or too big.                                           *)
Leave ==
    /\ client.stage \in {"new", "subscribed", "restoring"}
    /\ client' = [NewClient EXCEPT !.stage = "gone"]
    /\ UNCHANGED <<config, now, rows, recipients, inserting, calls, delivering,
                   deletion, cleanup, removals>>

------------------------------------------------------------------------------
(* Leaving the cache.                                                       *)

Clear(ids) ==
    rows' = [i \in DOMAIN rows |->
               IF config.firstId + i - 1 \in ids
               THEN [rows[i] EXCEPT !.cached = FALSE] ELSE rows[i]]

(* The ids are bound to one parameter, as a text: with several of them it   *)
(* is no number and no row has it; alone it is a text in base 32, which the *)
(* database reads in base 10, an e (14) between digits as an exponent.      *)
Digit(id, i) == FirstDigits(id, i) % 32
Decimal(id, k, l) == MapThenSumSet(LAMBDA i : Digit(id, i) * 10^(l - i), k..l)
InBase10(id) ==
    LET n == Digits(id)
        letters == {i \in 1..n : Digit(id, i) > 9}
    IN IF letters = {} THEN {Decimal(id, 1, n)}
       ELSE {Decimal(id, 1, e - 1) * 10^Decimal(id, e + 1, n) :
                e \in {e \in 2..(n - 1) : letters = {e} /\ Digit(id, e) = 14}}

BoundIds(ids) ==
    IF Cardinality(ids) # 1 THEN {} ELSE InBase10(CHOOSE id \in ids : TRUE)

(* deleteChannelCache: the read, and the two deletes if there is anything.  *)
DeleteChannelCache(c) ==
    LET found == GetCachedMessages(c, 0, NoFilter)
    IN /\ deletion.stage = "idle"
       /\ removals < MaxRemovals
       /\ ~Throws
       /\ found # {}
       /\ deletion' = [stage |-> "messages", channel |-> c, ids |-> found]
       /\ removals' = removals + 1
       /\ UNCHANGED <<config, now, rows, recipients, inserting, calls,
                      delivering, client, cleanup>>

DeleteMessages ==
    /\ deletion.stage = "messages"
    /\ deletion' = [deletion EXCEPT !.stage = "recipients"]
    /\ Clear(BoundIds(deletion.ids))
    /\ UNCHANGED <<config, now, recipients, inserting, calls, delivering, client,
                   cleanup, removals>>

DeleteRecipients ==
    /\ deletion.stage = "recipients"
    /\ deletion' = Nothing
    /\ recipients' = {r \in recipients : r[1] \notin BoundIds(deletion.ids)}
    /\ UNCHANGED <<config, now, rows, inserting, calls, delivering, client,
                   cleanup, removals>>

(* clearMessageCache reads all cached messages with their channels, looks   *)
(* up the policies and clears what is overdue or too many.                  *)
BeginCleanup ==
    /\ cleanup = {}
    /\ removals < MaxRemovals
    /\ cleanup' = {r \in recipients : Cached(r[1])}
    /\ cleanup' # {}
    /\ removals' = removals + 1
    /\ UNCHANGED <<config, now, rows, recipients, inserting, calls, delivering,
                   client, deletion>>

Policies(id) ==
    {ChannelPolicy(r[2]) :
        r \in {r \in cleanup : r[1] = id /\ Enabled(ChannelPolicy(r[2]))}}
CacheTime(id) ==
    LET times == {p.time : p \in Policies(id)}
    IN CHOOSE t \in times : \A u \in times : u <= t

(* Mutant of Overdue: it is not cached for any time.                        *)
OverdueAtOnce(id, late) ==
    \/ Policies(id) = {}
    \/ CacheTime(id) # 0 /\ Row(id).time - config.zone < now + late

(* A message without any policy, or older than its most generous one: the   *)
(* time of the table, in UTC, is read as local time, and compared to the    *)
(* clock's milliseconds, so that the whole second may be over (late = 0) or *)
(* not (1).                                                                 *)
Overdue(id, late) ==
    \/ Policies(id) = {}
    \/ CacheTime(id) # 0 /\ Row(id).time - config.zone + CacheTime(id) < now + late

TooMany(c) ==
    LET ids == {r[1] : r \in {r \in cleanup : r[2] = c}}
        size == IF Enabled(ChannelPolicy(c)) THEN ChannelPolicy(c).size ELSE 0
    IN ids \ Newest(ids, size)

ClearMessageCache ==
    \E late \in {0, 1} :
       LET ids == {r[1] : r \in cleanup}
           overdue == {id \in ids : Overdue(id, late)}
       IN /\ cleanup # {}
          /\ cleanup' = {}
          /\ IF overdue = ids THEN UNCHANGED rows
             ELSE Clear(overdue \cup UNION {TooMany(c) : c \in Channels})
          /\ UNCHANGED <<config, now, recipients, inserting, calls, delivering,
                         client, deletion, removals>>

Tick ==
    /\ now < MaxTime
    /\ now' = now + 1
    /\ UNCHANGED <<config, rows, recipients, inserting, calls, delivering,
                   client, deletion, cleanup, removals>>

StoreNext ==
    \/ \E p \in Publishers :
          \/ PublishFails(p)
          \/ \E todo \in Calls[p] \cup {calls[p].todo} : InsertMessage(p, todo)
          \/ Registered(p)
    \/ \E r \in inserting : InsertRecipient(r)
    \/ \E id \in delivering : Deliver(id)
    \/ \E targets \in Targets : Subscribe(targets)
    \/ \E since \in {0} \cup Ids, filter \in Filters :
          RestoreChannel(since, filter)
    \/ Leave
    \/ \E c \in Channels : DeleteChannelCache(c)
    \/ DeleteMessages \/ DeleteRecipients
    \/ BeginCleanup \/ ClearMessageCache
    \/ Tick

StoreSpec == StoreInit /\ [][StoreNext]_storeVars

------------------------------------------------------------------------------
(* Properties.                                                              *)

(* Messages that follow a message in a channel.                             *)
Followers(id, c) == {j \in Ids : j > id /\ c \in Row(j).channels}
Expired(id, c) ==
    ChannelPolicy(c).time # 0 /\ Row(id).time + ChannelPolicy(c).time <= now
Displaced(id, c) ==
    /\ ChannelPolicy(c).size # 0
    /\ Cardinality(Followers(id, c)) >= ChannelPolicy(c).size

(* No id of a table reads higher in base 10 than it is: 1e4, the id 1476,   *)
(* is the first that does.                                                  *)
PlainIds ==
    \A c \in Configurations :
       \A id \in c.firstId .. c.firstId + MaxMessages - 1 : InBase10(id) \subseteq 0..id

(* A client that subscribes and then restores what came after a message it  *)
(* knows misses nothing that is cached: what the store did not return is    *)
(* broadcast to it.  Excepted are messages whose recipients were still      *)
(* being inserted when the store was read (registerMessage does not await   *)
(* them), and what the policy of the channel lets go.                       *)
NothingMissed ==
    client.stage = "answered" /\ client.filter = NoFilter =>
       \A c \in client.subscribed, id \in Ids :
          /\ Cached(id) /\ id > client.since /\ c \in Row(id).channels
          /\ Enabled(ChannelPolicy(c))
          => \/ id \in client.live \cup delivering \cup ToSet(client.answer)
             \/ \E p \in Publishers :
                   calls[p].stage = "registered" /\ calls[p].id = id
             \/ id \in client.late
             \/ Expired(id, c) \/ Displaced(id, c)

(* Restored messages are in the order of their ids, and none comes twice,   *)
(* though they come from several channels.  Excepted are two messages of    *)
(* the same second whose ids differ in their number of digits: they are     *)
(* sorted as strings.                                                       *)
RestoredInOrder ==
    \A i, j \in DOMAIN client.answer :
       i < j => LET a == client.answer[i]
                    b == client.answer[j]
                IN a < b \/ (Row(a).time = Row(b).time /\ ~SameDigits(a, b))

(* A channel gives no more messages than its cache may hold, nor more than  *)
(* the client asked for.  Excepted are a request with an age and without a  *)
(* length for the first, one with a length and without an age for the       *)
(* second: the two limits are combined by testing the age.                  *)
AnswersWithinPolicy ==
    \A i \in DOMAIN client.fetched :
       LET n == Cardinality(client.fetched[i])
           size == ChannelPolicy(client.targets[i]).size
           filter == client.filter
       IN Enabled(ChannelPolicy(client.targets[i])) =>
             /\ size # 0 /\ (filter.maxAge = 0 \/ filter.maxLength # 0) => n <= size
             /\ filter.maxLength # 0 /\ (filter.maxAge # 0 \/ size = 0)
                => n <= filter.maxLength

(* A message leaves the cache only if a deletion of its channel has read    *)
(* it; if in one of its channels it has enough followers or is older than   *)
(* the policy allows; or if none of the channels that the clean-up has read *)
(* with it has a policy: whatever is published, deleted and cleaned up at   *)
(* the same time.  (A deletion also hits the message whose id reads in base *)
(* 10 as the id it means reads in base 32; east of UTC a clean-up takes a   *)
(* message to be older by the offset of the zone; and channels whose insert *)
(* has not been done are not read.)                                         *)
Old(id, c) ==
    /\ ChannelPolicy(c).time # 0
    /\ \/ Expired(id, c)
       \/ Row(id).time + ChannelPolicy(c).time <= now + config.zone
Unkept(id) ==
    LET read == {r[2] : r \in {r \in cleanup : r[1] = id}}
    IN read # {} /\ \A c \in read : ~Enabled(ChannelPolicy(c))
ClearedOnlyWhenDue ==
    [][\A id \in Ids : Cached(id) /\ ~Cached(id)' =>
          \/ deletion.stage = "messages"
             /\ id \in deletion.ids \cup BoundIds(deletion.ids)
          \/ Unkept(id)
          \/ \E c \in Row(id).channels : Old(id, c) \/ Displaced(id, c)]_storeVars
=============================================================================
