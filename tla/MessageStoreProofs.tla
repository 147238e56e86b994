--------------------------- MODULE MessageStoreProofs ---------------------------
(***************************************************************************)
(* The message store of a data context.  Rows only grow: times never go    *)
(* back, channels stay, and what has left the cache does not return.  From *)
(* this follow the order of what is restored and what clears a message.    *)
(* That a client misses nothing needs to follow a message from its insert  *)
(* to the table of recipients and, at the same time, to the client.        *)
(***************************************************************************)
EXTENDS MessageStore, FiniteSetTheorems, SequenceTheorems, WellFoundedInduction, TLAPS

-----------------------------------------------------------------------------
(* Types.                                                                   *)

Message == [time : Nat, channels : SUBSET Channels, cached : BOOLEAN]
Call == [stage : {"idle", "failed", "registering", "registered", "done"},
         todo : Seq(SUBSET Channels), id : Nat]
Client == [stage : {"new", "subscribed", "restoring", "answered", "ignored", "gone"},
           targets : Seq(Channels), subscribed : SUBSET Channels, live : SUBSET Nat,
           since : Nat, filter : CacheFilter, fetched : Seq(SUBSET Nat),
           late : SUBSET Nat, answer : Seq(Nat)]
Deletion == [stage : {"idle", "messages", "recipients"}, channel : Channels \cup {Unset},
             ids : SUBSET Nat]

(* Pairs of a message and one of its channels.                              *)
Addressed(pairs) ==
    /\ pairs \subseteq Nat \X Channels
    /\ \A r \in pairs : r[1] \in Ids /\ r[2] \in Row(r[1]).channels

TypesInv ==
    /\ config \in Configurations
    /\ now \in Nat
    /\ rows \in Seq(Message)
    /\ Addressed(recipients) /\ Addressed(inserting) /\ Addressed(cleanup)
    /\ calls \in [Publishers -> Call]
    /\ \A p \in Publishers :
          calls[p].stage = "registered" => calls[p].todo # <<>> /\ calls[p].id \in Ids
    /\ delivering \in SUBSET Ids
    /\ client \in Client
    /\ \A i \in 1..Len(client.fetched) : client.fetched[i] \subseteq Ids
    /\ \A i \in 1..Len(client.answer) : client.answer[i] \in Ids
    /\ deletion \in Deletion /\ deletion.ids \subseteq Ids

(* Rows are in the order of their times; without channelConfig there are    *)
(* none.                                                                    *)
RowsInv ==
    /\ Len(rows) <= MaxMessages
    /\ \A i \in 1..Len(rows) : rows[i].time <= now
    /\ \A i, j \in 1..Len(rows) : i <= j => rows[i].time <= rows[j].time
    /\ \A p \in Publishers :
          calls[p].stage \in {"registering", "registered"} => ~Throws
    /\ rows # <<>> => ~Throws

(* What the client has fetched is bounded by what its query asked for, and  *)
(* what it is answered is all of it, sorted.                                *)
Limited(c, filter, ids) ==
    Enabled(ChannelPolicy(c)) /\ QueryLimit(ChannelPolicy(c), filter) # 0
       => Cardinality(ids) <= QueryLimit(ChannelPolicy(c), filter)
Within(i) == Limited(client.targets[i], client.filter, client.fetched[i])
InOrder(s) == \A i, j \in 1..Len(s) : i < j => SortedBefore(s[i], s[j])

ClientInv ==
    /\ client.stage \in {"new", "subscribed"} => client.fetched = <<>>
    /\ client.stage \in {"subscribed", "restoring", "answered"} =>
          client.subscribed = ToSet(client.targets)
    /\ client.fetched # <<>> => ~Throws
    /\ Len(client.fetched) <= Len(client.targets)
    /\ \A i \in 1..Len(client.fetched) : Within(i)
    /\ client.stage # "answered" => client.answer = <<>>
    /\ client.stage = "answered" =>
          /\ Len(client.fetched) = Len(client.targets)
          /\ ToSet(client.answer) = UNION ToSet(client.fetched)
    /\ InOrder(client.answer)

(* A message whose recipients no call has begun to insert.                  *)
Entered(id) == \E p \in Publishers : calls[p].stage = "registered" /\ calls[p].id = id

(* What a deletion takes from the table of recipients is not cached: rows   *)
(* that come while it is under way have higher ids.                         *)
RecipientsInv ==
    /\ deletion.stage = "recipients" =>
          \A id \in BoundIds(deletion.ids) : id < LastId /\ ~Cached(id)
    /\ \A id \in Ids : Cached(id) =>
          \A c \in Row(id).channels :
             Entered(id) \/ <<id, c>> \in inserting \cup recipients

(* What the client needs of a channel it has asked for and has not got is   *)
(* on its way, or let go.                                                   *)
Needed(c, id) ==
    /\ Cached(id) /\ id > client.since /\ c \in Row(id).channels
    /\ Enabled(ChannelPolicy(c))
Accounted(i, c, id) ==
    \/ id \in client.live \/ id \in delivering \/ id \in client.late
    \/ id \in client.fetched[i]
    \/ Entered(id) \/ Expired(id, c) \/ Displaced(id, c)
MissedInv ==
    client.stage \in {"restoring", "answered"} /\ client.filter = NoFilter =>
       \A i \in 1..Len(client.fetched) : \A id \in Ids :
          Needed(client.targets[i], id) => Accounted(i, client.targets[i], id)

LEMMA ConfigTypes ==
    ASSUME TypesInv
    PROVE  /\ config.firstId \in Nat /\ config.firstId >= 1
           /\ config.general \in CachingPolicy \cup {Unset}
           /\ config.channel \in [Channels -> CachingPolicy \cup {Unset}] \cup {Unset}
BY StoreAssumption DEF TypesInv

LEMMA IdsTypes ==
    ASSUME TypesInv
    PROVE  /\ Ids \in SUBSET Nat /\ IsFiniteSet(Ids)
           /\ LastId \in Nat /\ LastId \notin Ids
           /\ \A id \in Ids : /\ id \in Nat /\ id < LastId
                              /\ id - config.firstId + 1 \in 1..Len(rows)
                              /\ Row(id) = rows[id - config.firstId + 1]
                              /\ Row(id) \in Message
<1>1. config.firstId \in Nat /\ config.firstId >= 1
  BY ConfigTypes
<1>2. rows \in Seq(Message) /\ Len(rows) \in Nat
  BY DEF TypesInv
<1>3. IsFiniteSet(Ids)
  <2>1. config.firstId \in Int /\ config.firstId + Len(rows) - 1 \in Int
    BY <1>1, <1>2
  <2>. QED
    BY <2>1, FS_Interval DEF Ids
<1>4. ASSUME NEW id \in Ids
      PROVE  /\ id \in Nat /\ id < LastId
             /\ id - config.firstId + 1 \in 1..Len(rows) /\ Row(id) \in Message
  <2>1. id \in Nat /\ id - config.firstId + 1 \in 1..Len(rows) /\ id < LastId
    BY <1>1, <1>2 DEF Ids, LastId
  <2>. QED
    BY <1>2, <2>1 DEF Row
<1>5. LastId \in Nat /\ LastId \notin Ids /\ Ids \in SUBSET Nat
  BY <1>1, <1>2 DEF LastId, Ids
<1>. QED
  BY <1>3, <1>4, <1>5 DEF Row

LEMMA FoundTypes ==
    ASSUME NEW c, NEW since, NEW filter
    PROVE  /\ GetCachedMessages(c, since, filter) \subseteq InChannel(c)
           /\ GetCachedMessages(c, since, filter) \subseteq Ids
           /\ InChannel(c) \subseteq Ids
BY DEF GetCachedMessages, Newest, InChannel

LEMMA TypesInit == StoreInit => TypesInv
<1> SUFFICES ASSUME StoreInit PROVE TypesInv
  OBVIOUS
<1>1. client \in Client /\ client.fetched = <<>> /\ client.answer = <<>>
  BY StoreAssumption, EmptySeq DEF StoreInit, NewClient, Client, CacheFilter
<1>2. calls \in [Publishers -> Call] /\ \A p \in Publishers : calls[p].stage # "registered"
  BY EmptySeq DEF StoreInit, Idle, Call
<1>3. deletion \in Deletion /\ deletion.ids = {}
  BY DEF StoreInit, Nothing, Deletion
<1>4. rows \in Seq(Message) /\ now \in Nat
  BY EmptySeq DEF StoreInit
<1>5. Addressed({})
  BY DEF Addressed
<1>. QED
  BY <1>1, <1>2, <1>3, <1>4, <1>5 DEF StoreInit, TypesInv

(* Rows that are cleared stay rows.                                         *)
LEMMA ClearRows ==
    ASSUME TypesInv, NEW ids, Clear(ids)
    PROVE  /\ rows' \in Seq(Message) /\ Len(rows') = Len(rows)
           /\ \A i \in 1..Len(rows) :
                 /\ rows'[i].time = rows[i].time /\ rows'[i].channels = rows[i].channels
                 /\ rows'[i].cached = (rows[i].cached /\ config.firstId + i - 1 \notin ids)
<1>1. rows \in Seq(Message) /\ Len(rows) \in Nat /\ DOMAIN rows = 1..Len(rows)
  BY DEF TypesInv
<1>2. rows' = [i \in 1..Len(rows) |->
                 IF config.firstId + i - 1 \in ids
                 THEN [rows[i] EXCEPT !.cached = FALSE] ELSE rows[i]]
  BY <1>1 DEF Clear
<1>3. ASSUME NEW i \in 1..Len(rows)
      PROVE  /\ rows'[i] \in Message
             /\ rows'[i].time = rows[i].time /\ rows'[i].channels = rows[i].channels
             /\ rows'[i].cached = (rows[i].cached /\ config.firstId + i - 1 \notin ids)
  <2>1. rows[i] \in Message
    BY <1>1
  <2>2. rows'[i] = IF config.firstId + i - 1 \in ids
                   THEN [rows[i] EXCEPT !.cached = FALSE] ELSE rows[i]
    BY <1>2
  <2>3. CASE config.firstId + i - 1 \in ids
    BY <2>1, <2>2, <2>3 DEF Message
  <2>4. CASE config.firstId + i - 1 \notin ids
    BY <2>1, <2>2, <2>4 DEF Message
  <2>. QED
    BY <2>3, <2>4
<1>4. rows' \in [1..Len(rows) -> Message]
  BY <1>2, <1>3
<1>5. rows' \in Seq(Message) /\ Len(rows') = Len(rows)
  BY <1>1, <1>4, SeqDef
<1>. QED
  BY <1>3, <1>5

(* The row of the message that a call inserts.                              *)
Inserted(todo) ==
    [time |-> now, channels |-> Head(todo), cached |-> ShouldCacheMessage(Head(todo))]

LEMMA InsertedTypes ==
    ASSUME TypesInv, NEW p \in Publishers, NEW todo \in Calls[p] \cup {calls[p].todo},
           InsertMessage(p, todo)
    PROVE  /\ todo \in Seq(SUBSET Channels) /\ todo # <<>>
           /\ Inserted(todo) \in Message
           /\ rows' = Append(rows, Inserted(todo))
           /\ rows' \in Seq(Message) /\ Len(rows') = Len(rows) + 1
           /\ \A i \in 1..Len(rows) : rows'[i] = rows[i]
           /\ rows'[Len(rows) + 1] = Inserted(todo)
<1>1. todo \in Seq(SUBSET Channels) /\ todo # <<>>
  BY StoreAssumption DEF TypesInv, InsertMessage, Call
<1>2. Head(todo) \in SUBSET Channels
  BY <1>1, HeadTailProperties
<1>3. Inserted(todo) \in Message
  BY <1>2 DEF TypesInv, Message, Inserted, ShouldCacheMessage
<1>4. rows' = Append(rows, Inserted(todo)) /\ rows \in Seq(Message)
  BY DEF TypesInv, InsertMessage, Inserted
<1>. QED
  BY <1>1, <1>3, <1>4, AppendProperties

(* What a step may do to the rows.                                          *)
Kept == \A i \in 1..Len(rows) : rows'[i] = rows[i]
LEMMA RowsStep ==
    ASSUME TypesInv, [StoreNext]_storeVars
    PROVE  /\ config' = config /\ now' \in Nat /\ now <= now'
           /\ rows' \in Seq(Message) /\ Len(rows) <= Len(rows')
           /\ \A i \in 1..Len(rows) :
                 /\ rows'[i].time = rows[i].time /\ rows'[i].channels = rows[i].channels
                 /\ rows'[i].cached => rows[i].cached
           /\ Kept \/ DeleteMessages \/ ClearMessageCache
           /\ rows' # rows =>
                 \/ Len(rows') = Len(rows)
                 \/ \E p \in Publishers : \E todo \in Calls[p] \cup {calls[p].todo} :
                       InsertMessage(p, todo)
<1> DEFINE Same == config' = config /\ now' = now
           Result == /\ config' = config /\ now' \in Nat /\ now <= now'
                     /\ rows' \in Seq(Message) /\ Len(rows) <= Len(rows')
                     /\ \A i \in 1..Len(rows) :
                           /\ rows'[i].time = rows[i].time /\ rows'[i].channels = rows[i].channels
                           /\ rows'[i].cached => rows[i].cached
                     /\ Kept \/ DeleteMessages \/ ClearMessageCache
                     /\ rows' # rows =>
                           \/ Len(rows') = Len(rows)
                           \/ \E p \in Publishers : \E todo \in Calls[p] \cup {calls[p].todo} :
                                 InsertMessage(p, todo)
<1>0. now \in Nat /\ rows \in Seq(Message) /\ Len(rows) \in Nat
  BY DEF TypesInv
<1>1. ASSUME rows' = rows, config' = config, now' = now \/ now' = now + 1 PROVE Result
  BY <1>0, <1>1 DEF Kept
<1>2. ASSUME NEW p \in Publishers, NEW todo \in Calls[p] \cup {calls[p].todo}, InsertMessage(p, todo)
      PROVE  Result
  <2>1. config' = config /\ now' = now
    BY <1>2 DEF InsertMessage
  <2>2. /\ rows' \in Seq(Message) /\ Len(rows') = Len(rows) + 1
        /\ \A i \in 1..Len(rows) : rows'[i] = rows[i]
    BY <1>2, InsertedTypes
  <2>. QED
    BY <1>0, <1>2, <2>1, <2>2 DEF Kept
<1>3. ASSUME NEW ids, Clear(ids), Same, DeleteMessages \/ ClearMessageCache PROVE Result
  <2>1. /\ rows' \in Seq(Message) /\ Len(rows') = Len(rows)
        /\ \A i \in 1..Len(rows) :
              /\ rows'[i].time = rows[i].time /\ rows'[i].channels = rows[i].channels
              /\ rows'[i].cached => rows[i].cached
    BY <1>3, ClearRows
  <2>. QED
    BY <1>0, <1>3, <2>1
<1>4. CASE DeleteMessages
  BY <1>3, <1>4 DEF DeleteMessages
<1>5. CASE ClearMessageCache
  <2>1. Same /\ (rows' = rows \/ \E ids : Clear(ids))
    BY <1>5 DEF ClearMessageCache
  <2>. QED
    BY <1>1, <1>3, <1>5, <2>1
<1>6. CASE UNCHANGED storeVars
  BY <1>1, <1>6 DEF storeVars
<1>7. CASE \E p \in Publishers : PublishFails(p) \/ Registered(p)
  BY <1>1, <1>7 DEF PublishFails, Registered
<1>8. CASE \/ \E r \in inserting : InsertRecipient(r)
           \/ \E id \in delivering : Deliver(id)
  BY <1>1, <1>8 DEF InsertRecipient, Deliver
<1>9. CASE \/ \E targets \in Targets : Subscribe(targets)
           \/ \E since \in {0} \cup Ids, filter \in Filters : RestoreChannel(since, filter)
           \/ Leave
  BY <1>1, <1>9 DEF Subscribe, RestoreChannel, Leave
<1>10. CASE \/ \E c \in Channels : DeleteChannelCache(c)
            \/ DeleteRecipients \/ BeginCleanup \/ Tick
  BY <1>1, <1>10 DEF DeleteChannelCache, DeleteRecipients, BeginCleanup, Tick
<1>. QED
  BY <1>2, <1>4, <1>5, <1>6, <1>7, <1>8, <1>9, <1>10 DEF StoreNext

LEMMA IdsStep ==
    ASSUME TypesInv, [StoreNext]_storeVars
    PROVE  /\ Ids \subseteq Ids' /\ LastId <= LastId'
           /\ \A id \in Ids : /\ Row(id)'.time = Row(id).time
                              /\ Row(id)'.channels = Row(id).channels
                              /\ Cached(id)' => Cached(id)
<1>1. config.firstId \in Nat /\ config.firstId >= 1
  BY ConfigTypes
<1>2. rows \in Seq(Message) /\ Len(rows) \in Nat
  BY DEF TypesInv
<1>3. config' = config /\ rows' \in Seq(Message) /\ Len(rows) <= Len(rows')
  BY RowsStep
<1>4. Len(rows') \in Nat
  BY <1>3
<1>5. Ids \subseteq Ids' /\ LastId <= LastId'
  BY <1>1, <1>2, <1>3, <1>4 DEF Ids, LastId
<1>6. ASSUME NEW id \in Ids
      PROVE  /\ Row(id)'.time = Row(id).time
             /\ Row(id)'.channels = Row(id).channels
             /\ Cached(id)' => Cached(id)
  <2>1. id - config.firstId + 1 \in 1..Len(rows)
    BY <1>6, IdsTypes
  <2>2. Row(id) = rows[id - config.firstId + 1] /\ Row(id)' = rows'[id - config.firstId + 1]
    BY <1>3 DEF Row
  <2>3. /\ Row(id)'.time = Row(id).time
        /\ Row(id)'.channels = Row(id).channels
        /\ Row(id)'.cached => Row(id).cached
    BY <2>1, <2>2, RowsStep
  <2>. QED
    BY <1>6, <2>3 DEF Cached
<1>. QED
  BY <1>5, <1>6

LEMMA AddressedKept ==
    ASSUME TypesInv, [StoreNext]_storeVars, NEW pairs, Addressed(pairs)
    PROVE  /\ pairs \subseteq Nat \X Channels
           /\ \A r \in pairs : r[1] \in Ids' /\ r[2] \in Row(r[1])'.channels
BY IdsStep DEF Addressed

LEMMA CleanupTypes ==
    ASSUME TypesInv, NEW pairs, pairs \subseteq recipients
    PROVE  Addressed(pairs)
BY DEF TypesInv, Addressed

LEMMA RestoreTypes ==
    ASSUME TypesInv, NEW since \in {0} \cup Ids, NEW filter \in Filters,
           RestoreChannel(since, filter)
    PROVE  /\ client' \in Client
           /\ \A i \in 1..Len(client'.fetched) : client'.fetched[i] \subseteq Ids
           /\ \A i \in 1..Len(client'.answer) : client'.answer[i] \in Ids
<1>0. /\ client \in Client
      /\ \A i \in 1..Len(client.fetched) : client.fetched[i] \subseteq Ids
      /\ \A i \in 1..Len(client.answer) : client.answer[i] \in Ids
  BY DEF TypesInv
<1> DEFINE n == Len(client.fetched) + 1
           c == client.targets[n]
           found == GetCachedMessages(c, since, filter)
           late == client.late \cup {r[1] : r \in {r \in inserting : r[2] = c}}
           fetched == Fetched(c, since, filter)
           all == UNION ToSet(fetched.fetched)
<1>1. found \subseteq Ids /\ Ids \subseteq Nat /\ IsFiniteSet(Ids)
  BY FoundTypes, IdsTypes
<1>2. late \subseteq Nat
  BY <1>0 DEF TypesInv, Addressed, Client
<1>3. client.fetched \in Seq(SUBSET Nat) /\ client.fetched \in Seq(SUBSET Ids)
  <2>1. client.fetched \in Seq(SUBSET Nat)
    BY <1>0 DEF Client
  <2>2. client.fetched \in [1..Len(client.fetched) -> SUBSET Ids] /\ Len(client.fetched) \in Nat
    BY <1>0, <2>1
  <2>. QED
    BY <2>1, <2>2, SeqDef
<1>4. Append(client.fetched, found) \in Seq(SUBSET Ids) /\ Append(client.fetched, found) \in Seq(SUBSET Nat)
  BY <1>1, <1>3, AppendProperties
<1>5. since \in Nat /\ filter \in CacheFilter
  BY <1>1, StoreAssumption
<1>6. fetched = [client EXCEPT !.stage = "restoring", !.since = since, !.filter = filter,
                   !.fetched = Append(client.fetched, found), !.late = late]
  BY DEF Fetched
<1> HIDE DEF found, late, fetched, c, all
<1>7. /\ fetched \in Client /\ fetched.fetched = Append(client.fetched, found)
      /\ fetched.answer = client.answer
  <2> DEFINE begun == [client EXCEPT !.stage = "restoring", !.since = since, !.filter = filter]
             next == Append(client.fetched, found)
  <2>1. begun \in Client /\ begun.answer = client.answer
    BY <1>0, <1>5 DEF Client
  <2>2. fetched = [begun EXCEPT !.fetched = next, !.late = late]
    BY <1>0, <1>6 DEF Client
  <2>3. next \in Seq(SUBSET Nat)
    BY <1>4
  <2> HIDE DEF begun, next
  <2>4. fetched \in Client /\ fetched.fetched = next /\ fetched.answer = begun.answer
    BY <1>2, <2>1, <2>2, <2>3 DEF Client
  <2>. QED
    BY <2>1, <2>4 DEF next
<1>8. CASE client' = [client EXCEPT !.stage = "ignored"]
  BY <1>0, <1>8 DEF Client
<1>9. CASE client' = fetched
  <2>1. \A i \in 1..Len(client'.fetched) : client'.fetched[i] \in SUBSET Ids
    <3>1. client'.fetched \in Seq(SUBSET Ids)
      BY <1>4, <1>7, <1>9
    <3>. QED
      BY <3>1
  <2>2. client'.answer = client.answer
    BY <1>7, <1>9
  <2>. QED
    BY <1>0, <1>7, <1>9, <2>1, <2>2
<1>10. ASSUME NEW answer \in Sorted(all), client' = [fetched EXCEPT !.stage = "answered", !.answer = answer]
       PROVE  /\ client' \in Client
              /\ \A i \in 1..Len(client'.fetched) : client'.fetched[i] \subseteq Ids
              /\ \A i \in 1..Len(client'.answer) : client'.answer[i] \in Ids
  <2>1. all \subseteq Ids
    BY <1>4, <1>7 DEF ToSet, all
  <2>2. Cardinality(all) \in Nat
    BY <1>1, <2>1, FS_Subset, FS_CardinalityType
  <2>3. answer \in [1..Cardinality(all) -> all]
    BY DEF Sorted
  <2>4. answer \in [1..Cardinality(all) -> Ids] /\ answer \in [1..Cardinality(all) -> Nat]
    BY <1>1, <2>1, <2>3
  <2>5. answer \in Seq(Ids) /\ answer \in Seq(Nat)
    BY <2>2, <2>4, SeqDef
  <2>6. client' \in Client /\ client'.fetched = fetched.fetched /\ client'.answer = answer
    BY <1>7, <1>10, <2>5 DEF Client
  <2>. QED
    BY <1>4, <1>7, <2>5, <2>6
<1>11. \/ client' = [client EXCEPT !.stage = "ignored"]
       \/ client' = fetched
       \/ \E answer \in Sorted(all) : client' = [fetched EXCEPT !.stage = "answered", !.answer = answer]
  BY DEF RestoreChannel, fetched, c, all
<1>. QED
  BY <1>8, <1>9, <1>10, <1>11

LEMMA RegisteredTypes ==
    ASSUME TypesInv, NEW p \in Publishers, Registered(p)
    PROVE  /\ calls' \in [Publishers -> Call]
           /\ calls'[p].stage \in {"registering", "done"}
           /\ \A q \in Publishers : q # p => calls'[q] = calls[q]
           /\ calls[p].id \in Ids
           /\ inserting' = inserting \cup {<<calls[p].id, c>> : c \in Row(calls[p].id).channels}
           /\ delivering' = delivering \cup {calls[p].id}
<1>0. calls \in [Publishers -> Call] /\ calls[p].todo # <<>> /\ calls[p].id \in Ids
  BY DEF TypesInv, Registered
<1> DEFINE stage == IF Len(calls[p].todo) > 1 THEN "registering" ELSE "done"
<1>1. calls' = [calls EXCEPT ![p].todo = Tail(@), ![p].stage = stage]
  BY DEF Registered
<1>2. stage \in {"registering", "done"}
  OBVIOUS
<1>3. calls[p].todo \in Seq(SUBSET Channels) /\ Tail(calls[p].todo) \in Seq(SUBSET Channels)
  BY <1>0, HeadTailProperties DEF Call
<1> HIDE DEF stage
<1>4. calls' = [calls EXCEPT ![p] = [calls[p] EXCEPT !.todo = Tail(calls[p].todo), !.stage = stage]]
  BY <1>0, <1>1
<1>5. [calls[p] EXCEPT !.todo = Tail(calls[p].todo), !.stage = stage] \in Call
  BY <1>0, <1>2, <1>3 DEF Call
<1>6. [calls[p] EXCEPT !.todo = Tail(calls[p].todo), !.stage = stage].stage = stage
  BY <1>0 DEF Call
<1>. QED
  BY <1>0, <1>2, <1>4, <1>5, <1>6 DEF Registered

LEMMA TypesStep == TypesInv /\ [StoreNext]_storeVars => TypesInv'
<1> SUFFICES ASSUME TypesInv, [StoreNext]_storeVars PROVE TypesInv'
  OBVIOUS
<1>0. /\ config \in Configurations /\ now \in Nat /\ rows \in Seq(Message)
      /\ calls \in [Publishers -> Call] /\ delivering \in SUBSET Ids
      /\ client \in Client /\ deletion \in Deletion /\ deletion.ids \subseteq Ids
  BY DEF TypesInv
<1>1. /\ config' \in Configurations /\ now' \in Nat /\ rows' \in Seq(Message)
  BY <1>0, RowsStep
<1>2. Ids \subseteq Ids'
  BY IdsStep
<1> DEFINE Pairs == Addressed(recipients)' /\ Addressed(inserting)' /\ Addressed(cleanup)'
           CallsOk == /\ calls' \in [Publishers -> Call]
                      /\ \A p \in Publishers :
                            calls'[p].stage = "registered" => calls'[p].todo # <<>> /\ calls'[p].id \in Ids'
           ClientOk == /\ client' \in Client
                       /\ \A i \in 1..Len(client'.fetched) : client'.fetched[i] \subseteq Ids'
                       /\ \A i \in 1..Len(client'.answer) : client'.answer[i] \in Ids'
           DeletionOk == deletion' \in Deletion /\ deletion'.ids \subseteq Ids'
<1>3. ASSUME UNCHANGED <<recipients, inserting, cleanup>> PROVE Pairs
  BY <1>3, AddressedKept DEF TypesInv, Addressed
<1>4. ASSUME UNCHANGED calls PROVE CallsOk
  BY <1>2, <1>4 DEF TypesInv
<1>5. ASSUME UNCHANGED client PROVE ClientOk
  BY <1>2, <1>5 DEF TypesInv
<1>6. ASSUME UNCHANGED deletion PROVE DeletionOk
  BY <1>2, <1>6 DEF TypesInv
<1>7. ASSUME UNCHANGED delivering PROVE delivering' \in SUBSET Ids'
  BY <1>0, <1>2, <1>7
<1>8. ASSUME Pairs, CallsOk, ClientOk, DeletionOk, delivering' \in SUBSET Ids' PROVE TypesInv'
  BY <1>1, <1>8 DEF TypesInv
<1> HIDE DEF Pairs, CallsOk, ClientOk, DeletionOk
<1>10. ASSUME NEW p \in Publishers, PublishFails(p) PROVE TypesInv'
  <2>1. CallsOk
    <3>1. calls' = [calls EXCEPT ![p].stage = "failed"]
      BY <1>10 DEF PublishFails
    <3>2. [calls[p] EXCEPT !.stage = "failed"] \in Call
      BY <1>0 DEF Call
    <3>. QED
      BY <1>0, <1>2, <3>1, <3>2 DEF CallsOk, TypesInv, Call
  <2>. QED
    BY <1>3, <1>5, <1>6, <1>7, <1>8, <1>10, <2>1 DEF PublishFails
<1>11. ASSUME NEW p \in Publishers, NEW todo \in Calls[p] \cup {calls[p].todo}, InsertMessage(p, todo)
      PROVE  TypesInv'
  <2> DEFINE y == [stage |-> "registered", todo |-> todo, id |-> LastId]
  <2>1. todo \in Seq(SUBSET Channels) /\ todo # <<>> /\ Len(rows') = Len(rows) + 1
    BY <1>11, InsertedTypes
  <2>2. LastId \in Nat /\ LastId \in Ids'
    <3>1. config' = config /\ config.firstId \in Nat /\ Len(rows) \in Nat
      BY <1>0, <1>11, ConfigTypes DEF InsertMessage
    <3>. QED
      BY <2>1, <3>1 DEF LastId, Ids
  <2>3. y \in Call /\ y.todo # <<>> /\ y.id \in Ids'
    BY <2>1, <2>2 DEF Call
  <2>4. calls' = [calls EXCEPT ![p] = y]
    BY <1>11 DEF InsertMessage
  <2> HIDE DEF y
  <2>5. CallsOk
    BY <1>0, <1>2, <2>3, <2>4 DEF TypesInv, CallsOk
  <2>. QED
    BY <1>3, <1>5, <1>6, <1>7, <1>8, <1>11, <2>5 DEF InsertMessage
<1>12. ASSUME NEW p \in Publishers, Registered(p) PROVE TypesInv'
  <2>1. CallsOk
    BY <1>2, <1>12, RegisteredTypes DEF TypesInv, CallsOk
  <2>2. delivering' \in SUBSET Ids'
    BY <1>0, <1>2, <1>12, RegisteredTypes
  <2>3. Addressed({<<calls[p].id, c>> : c \in Row(calls[p].id).channels})
    BY <1>12, RegisteredTypes, IdsTypes DEF Addressed, Message
  <2>4. Addressed(inserting')
    BY <1>12, <2>3, RegisteredTypes DEF TypesInv, Addressed
  <2>5. UNCHANGED <<recipients, cleanup, rows, config>>
    BY <1>12 DEF Registered
  <2>6. Pairs
    BY <2>4, <2>5 DEF Pairs, Addressed, TypesInv, Ids, Row
  <2>. QED
    BY <1>5, <1>6, <1>8, <1>12, <2>1, <2>2, <2>6 DEF Registered
<1>13. ASSUME NEW r \in inserting, InsertRecipient(r) PROVE TypesInv'
  <2>1. Addressed(inserting') /\ Addressed(recipients') /\ UNCHANGED <<cleanup, rows, config>>
    BY <1>13 DEF TypesInv, Addressed, InsertRecipient
  <2>2. Pairs
    BY <2>1 DEF Pairs, Addressed, TypesInv, Ids, Row
  <2>. QED
    BY <1>4, <1>5, <1>6, <1>7, <1>8, <1>13, <2>2 DEF InsertRecipient
<1>14. ASSUME NEW id \in delivering, Deliver(id) PROVE TypesInv'
  <2>1. id \in Nat
    BY <1>0, <1>14, IdsTypes
  <2>2. [client EXCEPT !.live = client.live \cup {id}] \in Client
    BY <1>0, <2>1 DEF Client
  <2>3. client' = [client EXCEPT !.live = client.live \cup {id}] \/ client' = client
    BY <1>14 DEF Deliver
  <2>4. client' \in Client /\ client'.fetched = client.fetched /\ client'.answer = client.answer
    BY <1>0, <2>2, <2>3 DEF Client
  <2>5. ClientOk
    BY <1>2, <2>4 DEF ClientOk, TypesInv
  <2>6. delivering' \in SUBSET Ids'
    BY <1>0, <1>2, <1>14 DEF Deliver
  <2>. QED
    BY <1>3, <1>4, <1>6, <1>8, <1>14, <2>5, <2>6 DEF Deliver
<1>15. ASSUME NEW targets \in Targets, Subscribe(targets) PROVE TypesInv'
  <2>1. targets \in Seq(Channels) /\ ToSet(targets) \subseteq Channels
    BY StoreAssumption DEF ToSet
  <2>2. /\ client' \in Client /\ client'.fetched = client.fetched /\ client'.answer = client.answer
    BY <1>0, <1>15, <2>1 DEF Client, Subscribe
  <2>3. ClientOk
    BY <1>2, <2>2 DEF ClientOk, TypesInv
  <2>. QED
    BY <1>3, <1>4, <1>6, <1>7, <1>8, <1>15, <2>3 DEF Subscribe
<1>16. ASSUME NEW since \in {0} \cup Ids, NEW filter \in Filters, RestoreChannel(since, filter)
       PROVE  TypesInv'
  <2>1. ClientOk
    BY <1>2, <1>16, RestoreTypes DEF ClientOk
  <2>. QED
    BY <1>3, <1>4, <1>6, <1>7, <1>8, <1>16, <2>1 DEF RestoreChannel
<1>17. CASE Leave
  <2>1. client' \in Client /\ client'.fetched = <<>> /\ client'.answer = <<>>
    BY <1>17, StoreAssumption, EmptySeq DEF Leave, NewClient, Client, CacheFilter
  <2>2. ClientOk
    BY <2>1 DEF ClientOk
  <2>. QED
    BY <1>3, <1>4, <1>6, <1>7, <1>8, <1>17, <2>2 DEF Leave
<1>18. ASSUME NEW c \in Channels, DeleteChannelCache(c) PROVE TypesInv'
  <2>1. GetCachedMessages(c, 0, NoFilter) \subseteq Ids /\ Ids \subseteq Nat
    BY FoundTypes, IdsTypes
  <2>2. DeletionOk
    BY <1>2, <1>18, <2>1 DEF DeleteChannelCache, DeletionOk, Deletion
  <2>. QED
    BY <1>3, <1>4, <1>5, <1>7, <1>8, <1>18, <2>2 DEF DeleteChannelCache
<1>19. CASE DeleteMessages
  <2>1. DeletionOk
    BY <1>0, <1>2, <1>19 DEF DeleteMessages, DeletionOk, Deletion
  <2>. QED
    BY <1>3, <1>4, <1>5, <1>7, <1>8, <1>19, <2>1 DEF DeleteMessages
<1>20. CASE DeleteRecipients
  <2>1. DeletionOk
    BY <1>20 DEF DeleteRecipients, DeletionOk, Deletion, Nothing
  <2>2. recipients' \subseteq recipients /\ UNCHANGED <<inserting, cleanup, rows, config>>
    BY <1>20 DEF DeleteRecipients
  <2>3. Addressed(recipients')
    BY <2>2, CleanupTypes
  <2>4. Pairs
    BY <2>2, <2>3 DEF Pairs, Addressed, TypesInv, Ids, Row
  <2>. QED
    BY <1>4, <1>5, <1>7, <1>8, <1>20, <2>1, <2>4 DEF DeleteRecipients
<1>21. CASE BeginCleanup
  <2>1. cleanup' \subseteq recipients /\ UNCHANGED <<inserting, recipients, rows, config>>
    BY <1>21 DEF BeginCleanup
  <2>2. Addressed(cleanup')
    BY <2>1, CleanupTypes
  <2>3. Pairs
    BY <2>1, <2>2 DEF Pairs, Addressed, TypesInv, Ids, Row
  <2>. QED
    BY <1>4, <1>5, <1>6, <1>7, <1>8, <1>21, <2>3 DEF BeginCleanup
<1>22. CASE ClearMessageCache
  <2>1. cleanup' = {} /\ UNCHANGED <<inserting, recipients>>
    BY <1>22 DEF ClearMessageCache
  <2>2. Pairs
    BY <2>1, AddressedKept DEF TypesInv, Addressed, Pairs
  <2>. QED
    BY <1>4, <1>5, <1>6, <1>7, <1>8, <1>22, <2>2 DEF ClearMessageCache
<1>23. CASE Tick \/ UNCHANGED storeVars
  BY <1>3, <1>4, <1>5, <1>6, <1>7, <1>8, <1>23 DEF Tick, storeVars
<1>. QED
  BY <1>10, <1>11, <1>12, <1>13, <1>14, <1>15, <1>16, <1>17, <1>18, <1>19, <1>20, <1>21, <1>22, <1>23
  DEF StoreNext

-----------------------------------------------------------------------------
(* Rows.                                                                    *)

LEMMA RowTypes ==
    ASSUME TypesInv
    PROVE  /\ now \in Nat /\ rows \in Seq(Message) /\ Len(rows) \in Nat
           /\ \A i \in 1..Len(rows) : rows[i] \in Message /\ rows[i].time \in Nat
<1>1. now \in Nat /\ rows \in Seq(Message) /\ Len(rows) \in Nat
  BY DEF TypesInv
<1>2. ASSUME NEW i \in 1..Len(rows) PROVE rows[i] \in Message
  BY <1>1
<1>3. \A m \in Message : m.time \in Nat
  BY DEF Message
<1>. QED
  BY <1>1, <1>2, <1>3

LEMMA RowsInit == StoreInit => RowsInv
BY StoreAssumption DEF StoreInit, RowsInv, Idle

LEMMA RowsKept ==
    ASSUME TypesInv, RowsInv, [StoreNext]_storeVars,
           Len(rows') = Len(rows),
           \A p \in Publishers : calls'[p].stage \in {"registering", "registered"} => ~Throws
    PROVE  RowsInv'
<1>1. /\ config' = config /\ now' \in Nat /\ now <= now' /\ rows' \in Seq(Message)
      /\ \A i \in 1..Len(rows) : rows'[i].time = rows[i].time
  BY RowsStep
<1>2. now \in Nat /\ rows \in Seq(Message) /\ \A i \in 1..Len(rows) : rows[i].time \in Nat
  BY RowTypes
<1>3. rows' # <<>> => rows # <<>>
  BY <1>1, <1>2, EmptySeq
<1>4. Throws' = Throws
  BY <1>1 DEF Throws
<1>5. \A i \in 1..Len(rows') : rows'[i].time <= now'
  BY <1>1, <1>2 DEF RowsInv
<1>. QED
  BY <1>1, <1>2, <1>3, <1>4, <1>5 DEF RowsInv

LEMMA RowsInvStep == TypesInv /\ RowsInv /\ [StoreNext]_storeVars => RowsInv'
<1> SUFFICES ASSUME TypesInv, RowsInv, [StoreNext]_storeVars PROVE RowsInv'
  OBVIOUS
<1>1. ASSUME NEW p \in Publishers, NEW todo \in Calls[p] \cup {calls[p].todo}, InsertMessage(p, todo)
      PROVE  RowsInv'
  <2>1. /\ rows' \in Seq(Message) /\ Len(rows') = Len(rows) + 1
        /\ \A i \in 1..Len(rows) : rows'[i] = rows[i]
        /\ rows'[Len(rows) + 1].time = now
    <3>1. Inserted(todo).time = now
      BY DEF Inserted
    <3>. QED
      BY <1>1, <3>1, InsertedTypes
  <2>2. now' = now /\ config' = config /\ ~Throws /\ Len(rows) < MaxMessages
    <3>1. calls[p].stage = "registering" => ~Throws
      BY DEF RowsInv
    <3>. QED
      BY <1>1, <3>1 DEF InsertMessage
  <2>3. now \in Nat /\ rows \in Seq(Message) /\ \A i \in 1..Len(rows) : rows[i].time \in Nat
    BY RowTypes
  <2>4. Len(rows) \in Nat /\ MaxMessages \in Nat
    BY <2>3, StoreAssumption
  <2>5. \A i \in 1..Len(rows') : i \in 1..Len(rows) \/ i = Len(rows) + 1
    BY <2>1, <2>4
  <2>6. \A i \in 1..Len(rows') : rows'[i].time <= now'
    BY <2>1, <2>2, <2>3, <2>5 DEF RowsInv
  <2>7. \A i, j \in 1..Len(rows') : i <= j => rows'[i].time <= rows'[j].time
    BY <2>1, <2>2, <2>3, <2>4, <2>5 DEF RowsInv
  <2>8. ~Throws'
    BY <2>2 DEF Throws
  <2>. QED
    BY <2>1, <2>2, <2>4, <2>6, <2>7, <2>8 DEF RowsInv
<1>2. ASSUME NEW p \in Publishers, PublishFails(p) PROVE RowsInv'
  BY <1>2, RowsKept DEF PublishFails, RowsInv, TypesInv, Call
<1>3. ASSUME NEW p \in Publishers, Registered(p) PROVE RowsInv'
  <2>1. rows' = rows /\ ~Throws
    BY <1>3 DEF Registered, RowsInv
  <2>. QED
    BY <2>1, RowsKept
<1>4. ASSUME Len(rows') = Len(rows), calls' = calls PROVE RowsInv'
  BY <1>4, RowsKept DEF RowsInv
<1>5. CASE \/ \E r \in inserting : InsertRecipient(r)
           \/ \E id \in delivering : Deliver(id)
  BY <1>4, <1>5 DEF InsertRecipient, Deliver
<1>6. CASE \/ \E targets \in Targets : Subscribe(targets)
           \/ \E since \in {0} \cup Ids, filter \in Filters : RestoreChannel(since, filter)
           \/ Leave
  BY <1>4, <1>6 DEF Subscribe, RestoreChannel, Leave
<1>7. CASE \/ \E c \in Channels : DeleteChannelCache(c)
           \/ DeleteRecipients \/ BeginCleanup \/ Tick \/ UNCHANGED storeVars
  BY <1>4, <1>7 DEF DeleteChannelCache, DeleteRecipients, BeginCleanup, Tick, storeVars
<1>8. CASE DeleteMessages
  BY <1>4, <1>8, ClearRows DEF DeleteMessages
<1>9. CASE ClearMessageCache
  <2>1. calls' = calls /\ (rows' = rows \/ \E ids : Clear(ids))
    BY <1>9 DEF ClearMessageCache
  <2>. QED
    BY <1>4, <2>1, ClearRows
<1>. QED
  BY <1>1, <1>2, <1>3, <1>5, <1>6, <1>7, <1>8, <1>9 DEF StoreNext

(* Of two messages the one with the higher id is not the older one.         *)
LEMMA TimesInOrder ==
    ASSUME TypesInv, RowsInv, NEW a \in Ids, NEW b \in Ids, Row(a).time < Row(b).time
    PROVE  a < b
<1>1. /\ a \in Nat /\ b \in Nat /\ config.firstId \in Nat
      /\ a - config.firstId + 1 \in 1..Len(rows) /\ b - config.firstId + 1 \in 1..Len(rows)
      /\ Row(a) = rows[a - config.firstId + 1] /\ Row(b) = rows[b - config.firstId + 1]
      /\ Row(a).time \in Nat /\ Row(b).time \in Nat
  BY IdsTypes, ConfigTypes DEF Message
<1>2. SUFFICES ASSUME ~(a < b) PROVE FALSE
  OBVIOUS
<1>3. b - config.firstId + 1 <= a - config.firstId + 1
  BY <1>1, <1>2
<1>4. \A i, j \in 1..Len(rows) : i <= j => rows[i].time <= rows[j].time
  BY DEF RowsInv
<1>5. Row(b).time <= Row(a).time
  <2>1. rows[b - config.firstId + 1].time <= rows[a - config.firstId + 1].time
    BY <1>1, <1>3, <1>4
  <2>. QED
    BY <1>1, <2>1
<1>6. Row(a).time \in Nat /\ Row(b).time \in Nat
  BY <1>1
<1>. QED
  BY <1>5, <1>6

-----------------------------------------------------------------------------
(* What a client is answered.                                               *)

LEMMA LeastElement ==
    ASSUME NEW T, T \subseteq Nat, T # {}
    PROVE  \E r \in T : \A q \in T : r <= q
<1>1. PICK r \in T : \A q \in T : ~(<<q, r>> \in OpToRel(<, Nat))
  BY NatLessThanWellFounded, WFMin
<1>2. ASSUME NEW q \in T PROVE r <= q
  <2>1. ~(q < r)
    BY <1>1 DEF OpToRel
  <2>. QED
    BY <2>1
<1>. QED
  BY <1>2

(* The n newest are at most n: all but the oldest of them are newer.        *)
LEMMA NewestBound ==
    ASSUME NEW ids, ids \subseteq Nat, IsFiniteSet(ids), NEW n \in Nat, n # 0
    PROVE  Newest(ids, n) \subseteq ids /\ Cardinality(Newest(ids, n)) <= n
<1> DEFINE N == Newest(ids, n)
<1>1. N = {i \in ids : Cardinality({j \in ids : j > i}) < n}
  BY DEF Newest
<1> HIDE DEF N
<1>2. N \subseteq ids /\ IsFiniteSet(N)
  BY <1>1, FS_Subset
<1>3. CASE N = {}
  BY <1>2, <1>3, FS_EmptySet DEF N
<1>4. CASE N # {}
  <2>1. PICK m \in N : \A q \in N : m <= q
    BY <1>2, <1>4, LeastElement
  <2> DEFINE Newer == {j \in ids : j > m}
  <2>2. IsFiniteSet(Newer) /\ Cardinality(Newer) \in Nat /\ Cardinality(Newer) < n
    BY <1>1, <2>1, FS_Subset, FS_CardinalityType
  <2>3. N \ {m} \subseteq Newer
    BY <1>2, <2>1
  <2> HIDE DEF Newer
  <2>4. Cardinality(N \ {m}) <= Cardinality(Newer) /\ IsFiniteSet(N \ {m})
    BY <2>2, <2>3, FS_Subset
  <2>5. Cardinality(N \ {m}) = Cardinality(N) - 1 /\ Cardinality(N) \in Nat
    BY <1>2, <2>1, FS_RemoveElement, FS_CardinalityType
  <2>6. Cardinality(N) <= n
    BY <2>2, <2>4, <2>5
  <2>. QED
    BY <1>2, <2>6 DEF N
<1>. QED
  BY <1>3, <1>4

(* A number in a policy or a filter is a number.                            *)
LEMMA PolicyTypes ==
    ASSUME TypesInv, ~Throws, NEW c \in Channels, Enabled(ChannelPolicy(c))
    PROVE  /\ ChannelPolicy(c) \in CachingPolicy
           /\ ChannelPolicy(c).time \in Nat /\ ChannelPolicy(c).size \in Nat
<1>1. ChannelPolicy(c) \in CachingPolicy
  BY ConfigTypes DEF ChannelPolicy, Throws, Enabled
<1>. QED
  BY <1>1 DEF CachingPolicy

LEMMA LimitTypes ==
    ASSUME TypesInv, ~Throws, NEW c \in Channels, NEW filter \in CacheFilter, Enabled(ChannelPolicy(c))
    PROVE  /\ QueryLimit(ChannelPolicy(c), filter) \in Nat
           /\ QueryMaxAge(ChannelPolicy(c), filter) \in Nat
<1>1. /\ ChannelPolicy(c).time \in Nat /\ ChannelPolicy(c).size \in Nat
      /\ filter.maxAge \in Nat /\ filter.maxLength \in Nat
  BY PolicyTypes DEF CacheFilter
<1>. QED
  BY <1>1 DEF QueryLimit, QueryMaxAge, Least

LEMMA FetchedBound ==
    ASSUME TypesInv, ~Throws, NEW c \in Channels, NEW since, NEW filter \in CacheFilter,
           Enabled(ChannelPolicy(c)), QueryLimit(ChannelPolicy(c), filter) # 0
    PROVE  Cardinality(GetCachedMessages(c, since, filter)) <= QueryLimit(ChannelPolicy(c), filter)
<1> DEFINE age == QueryMaxAge(ChannelPolicy(c), filter)
           limit == QueryLimit(ChannelPolicy(c), filter)
           found == {id \in InChannel(c) : /\ id > since
                                           /\ age = 0 \/ Row(id).time > now - age}
<1>1. GetCachedMessages(c, since, filter) = Newest(found, limit)
  BY DEF GetCachedMessages
<1>2. found \subseteq Ids /\ Ids \subseteq Nat /\ IsFiniteSet(Ids)
  BY IdsTypes DEF InChannel
<1>3. limit \in Nat /\ limit # 0
  BY LimitTypes
<1>4. IsFiniteSet(found) /\ found \subseteq Nat
  BY <1>2, FS_Subset
<1> HIDE DEF found, limit
<1>5. Cardinality(Newest(found, limit)) <= limit
  BY <1>3, <1>4, NewestBound
<1>. QED
  BY <1>1, <1>5 DEF limit

(* The order of two messages stays as it is.                                *)
LEMMA OrderKept ==
    ASSUME TypesInv, [StoreNext]_storeVars, NEW a \in Ids, NEW b \in Ids, SortedBefore(a, b)
    PROVE  SortedBefore(a, b)'
BY IdsStep DEF SortedBefore

LEMMA PolicyKept ==
    ASSUME config' = config
    PROVE  /\ Throws' = Throws
           /\ \A c : ChannelPolicy(c)' = ChannelPolicy(c)
BY DEF Throws, ChannelPolicy

LEMMA InOrderKept ==
    ASSUME TypesInv, [StoreNext]_storeVars, NEW s, s = client'.answer,
           \A i \in 1..Len(s) : s[i] \in Ids, InOrder(s)
    PROVE  InOrder(client.answer)'
<1>1. SUFFICES ASSUME NEW i \in 1..Len(s), NEW j \in 1..Len(s), i < j
               PROVE  SortedBefore(s[i], s[j])'
  BY DEF InOrder, SortedBefore, Row
<1>2. \A a \in Ids, b \in Ids : SortedBefore(a, b) => SortedBefore(a, b)'
  BY OrderKept
<1>3. s[i] \in Ids /\ s[j] \in Ids /\ SortedBefore(s[i], s[j])
  BY <1>1 DEF InOrder
<1>. QED
  BY <1>2, <1>3

LEMMA WithinKept ==
    ASSUME config' = config, NEW i, NEW c, NEW filter, NEW ids, Limited(c, filter, ids),
           client'.targets[i] = c, client'.filter = filter, client'.fetched[i] = ids
    PROVE  Within(i)'
<1>1. ChannelPolicy(c)' = ChannelPolicy(c)
  BY PolicyKept
<1>2. Limited(c, filter, ids)'
  BY <1>1 DEF Limited
<1>. QED
  BY <1>2 DEF Within, Limited, ChannelPolicy

LEMMA ClientInit == StoreInit => ClientInv
<1> SUFFICES ASSUME StoreInit PROVE ClientInv
  OBVIOUS
<1>1. client.stage = "new" /\ client.fetched = <<>> /\ client.targets = <<>> /\ client.answer = <<>>
  BY DEF StoreInit, NewClient
<1>. QED
  BY <1>1 DEF ClientInv, InOrder

LEMMA ClientKept ==
    ASSUME TypesInv, ClientInv, [StoreNext]_storeVars,
           client'.stage = client.stage, client'.targets = client.targets,
           client'.subscribed = client.subscribed, client'.filter = client.filter,
           client'.fetched = client.fetched, client'.answer = client.answer
    PROVE  ClientInv'
<1>1. config' = config
  BY RowsStep
<1>2. Throws' = Throws /\ \A c : ChannelPolicy(c)' = ChannelPolicy(c)
  BY <1>1, PolicyKept
<1>3. InOrder(client.answer)'
  BY InOrderKept DEF TypesInv, ClientInv
<1>4. ASSUME NEW i \in 1..Len(client'.fetched) PROVE Within(i)'
  BY <1>1, <1>4, WithinKept DEF ClientInv, Within
<1>. QED
  BY <1>2, <1>3, <1>4 DEF ClientInv

LEMMA RestoredClient ==
    ASSUME TypesInv, ClientInv, NEW since \in {0} \cup Ids, NEW filter \in Filters,
           RestoreChannel(since, filter)
    PROVE  ClientInv'
<1> DEFINE n == Len(client.fetched) + 1
           c == client.targets[n]
           found == GetCachedMessages(c, since, filter)
           fetched == Fetched(c, since, filter)
           all == UNION ToSet(fetched.fetched)
<1>0. /\ client \in Client /\ config' = config /\ rows' = rows
      /\ client.stage \in {"subscribed", "restoring"} /\ n <= Len(client.targets)
      /\ client.stage = "restoring" => since = client.since /\ filter = client.filter
      /\ \/ client' = [client EXCEPT !.stage = "ignored"]
         \/ ~Throws /\ n < Len(client.targets) /\ client' = fetched
         \/ /\ ~Throws /\ n = Len(client.targets)
            /\ \E answer \in Sorted(all) :
                  client' = [fetched EXCEPT !.stage = "answered", !.answer = answer]
  BY DEF TypesInv, RestoreChannel
<1>12. [StoreNext]_storeVars
  BY DEF StoreNext
<1>1. Throws' = Throws /\ \A d : ChannelPolicy(d)' = ChannelPolicy(d)
  BY <1>0, PolicyKept
<1>2. /\ client.answer = <<>> /\ client.subscribed = ToSet(client.targets)
      /\ client.fetched \in Seq(SUBSET Nat) /\ Len(client.fetched) \in Nat
      /\ client.targets \in Seq(Channels) /\ Len(client.targets) \in Nat
  <2>1. client.targets \in Seq(Channels) /\ client.fetched \in Seq(SUBSET Nat)
    BY DEF TypesInv, Client
  <2>2. client.stage \in {"subscribed", "restoring"}
    BY <1>0
  <2>3. client.answer = <<>> /\ client.subscribed = ToSet(client.targets)
    BY <2>2 DEF ClientInv
  <2>4. Len(client.fetched) \in Nat
    BY <2>1
  <2>5. Len(client.targets) \in Nat
    BY <2>1
  <2>. QED
    BY <2>1, <2>3, <2>4, <2>5
<1>3. c \in Channels /\ filter \in CacheFilter
  <2>1. n \in 1..Len(client.targets)
    <3>1. n <= Len(client.targets) /\ Len(client.targets) \in Nat /\ Len(client.fetched) \in Nat
      BY <1>0, <1>2
    <3>. QED
      BY <3>1
  <2>2. c \in Channels
    BY <1>2, <2>1
  <2>. QED
    BY <2>2, StoreAssumption
<1>4. found \subseteq Ids /\ Ids \subseteq Nat /\ IsFiniteSet(Ids)
  BY FoundTypes, IdsTypes
<1>5. /\ fetched.fetched = Append(client.fetched, found) /\ fetched.filter = filter
      /\ fetched.stage = "restoring" /\ fetched.answer = client.answer
      /\ fetched.targets = client.targets /\ fetched.subscribed = client.subscribed
      /\ fetched = [fetched EXCEPT !.stage = "restoring"]
      /\ \A answer : /\ [fetched EXCEPT !.stage = "answered", !.answer = answer].stage = "answered"
                     /\ [fetched EXCEPT !.stage = "answered", !.answer = answer].answer = answer
                     /\ [fetched EXCEPT !.stage = "answered", !.answer = answer].fetched = fetched.fetched
                     /\ [fetched EXCEPT !.stage = "answered", !.answer = answer].filter = fetched.filter
                     /\ [fetched EXCEPT !.stage = "answered", !.answer = answer].targets = fetched.targets
                     /\ [fetched EXCEPT !.stage = "answered", !.answer = answer].subscribed
                           = fetched.subscribed
  BY <1>0 DEF Client, Fetched
<1> HIDE DEF found, fetched, c
<1>6. /\ Append(client.fetched, found) # <<>>
      /\ Len(Append(client.fetched, found)) = n
      /\ \A i \in 1..n : Append(client.fetched, found)[i]
                           = IF i = n THEN found ELSE client.fetched[i]
  BY <1>2, <1>4, AppendProperties
<1>7. ASSUME ~Throws, NEW i \in 1..n
      PROVE  Limited(client.targets[i], filter, Append(client.fetched, found)[i])
  <2>1. CASE i = n
    BY <1>3, <1>6, <1>7, <2>1, FetchedBound DEF found, c, Limited
  <2>2. CASE i # n
    <3>1. i \in 1..Len(client.fetched)
      BY <1>2, <1>7, <2>2
    <3>2. client.fetched # <<>>
      BY <1>2, <3>1
    <3>3. filter = client.filter
      BY <1>0, <3>2 DEF ClientInv
    <3>. QED
      BY <1>6, <1>7, <2>2, <3>1, <3>3 DEF ClientInv, Within
  <2>. QED
    BY <2>1, <2>2
<1>8. CASE client' = [client EXCEPT !.stage = "ignored"]
  <2>1. /\ client'.stage = "ignored" /\ client'.targets = client.targets
        /\ client'.filter = client.filter /\ client'.fetched = client.fetched
        /\ client'.answer = <<>>
    BY <1>0, <1>2, <1>8 DEF Client
  <2>2. \A i \in 1..Len(client'.fetched) : Within(i)'
    BY <1>0, <2>1, WithinKept DEF ClientInv, Within
  <2>. QED
    BY <1>1, <2>1, <2>2 DEF ClientInv, InOrder
<1>9. ASSUME ~Throws, client'.stage \in {"restoring", "answered"},
             client'.fetched = Append(client.fetched, found), client'.filter = filter,
             client'.targets = client.targets, client'.subscribed = client.subscribed,
             client'.stage = "restoring" => client'.answer = <<>>,
             client'.stage = "answered" => n = Len(client.targets) /\ client'.answer \in Sorted(all)
      PROVE  ClientInv'
  <2>1. \A i \in 1..Len(client'.fetched) : Within(i)'
    BY <1>0, <1>6, <1>7, <1>9, WithinKept
  <2>2. ASSUME client'.stage = "answered"
        PROVE  /\ ToSet(client'.answer) = UNION ToSet(client'.fetched)
               /\ InOrder(client.answer)'
    <3>1. all \subseteq Ids
      <4>1. \A i \in 1..n : Append(client.fetched, found)[i] \subseteq Ids
        <5>1. \A i \in 1..Len(client.fetched) : client.fetched[i] \subseteq Ids
          BY DEF TypesInv
        <5>2. \A i \in 1..n : i = n \/ i \in 1..Len(client.fetched)
          BY <1>2
        <5>. QED
          BY <1>4, <1>6, <5>1, <5>2
      <4>2. Append(client.fetched, found) \in Seq(SUBSET Nat)
        BY <1>2, <1>4, AppendProperties
      <4>. QED
        BY <1>5, <1>6, <4>1, <4>2 DEF ToSet
    <3>2. Cardinality(all) \in Nat
      BY <1>4, <3>1, FS_Subset, FS_CardinalityType
    <3>3. /\ client'.answer \in [1..Cardinality(all) -> all]
          /\ ToSet(client'.answer) = all
          /\ \A i, j \in DOMAIN client'.answer :
                i < j => SortedBefore(client'.answer[i], client'.answer[j])
      BY <1>9, <2>2 DEF Sorted
    <3>4. Len(client'.answer) = Cardinality(all) /\ DOMAIN client'.answer = 1..Len(client'.answer)
      BY <3>2, <3>3, SeqDef
    <3>5. InOrder(client'.answer) /\ \A i \in 1..Len(client'.answer) : client'.answer[i] \in Ids
      BY <3>1, <3>3, <3>4 DEF InOrder
    <3>6. InOrder(client.answer)'
      BY <3>5, <1>12, InOrderKept
    <3>. QED
      BY <1>5, <1>9, <3>3, <3>6
  <2>3. client'.subscribed = ToSet(client'.targets) /\ Len(client'.fetched) = n
    BY <1>2, <1>6, <1>9
  <2>4. client'.stage = "restoring" => InOrder(client.answer)'
    BY <1>9 DEF InOrder
  <2>5. Len(client'.fetched) <= Len(client'.targets)
    BY <1>0, <1>9, <2>3
  <2>. QED
    BY <1>1, <1>9, <2>1, <2>2, <2>3, <2>4, <2>5 DEF ClientInv
<1>10. CASE ~Throws /\ client' = fetched
  BY <1>2, <1>5, <1>9, <1>10
<1>11. ASSUME ~Throws, n = Len(client.targets), NEW answer \in Sorted(all),
              client' = [fetched EXCEPT !.stage = "answered", !.answer = answer]
       PROVE  ClientInv'
  <2>1. /\ client'.stage = "answered" /\ client'.answer = answer
        /\ client'.fetched = fetched.fetched /\ client'.filter = fetched.filter
        /\ client'.targets = fetched.targets /\ client'.subscribed = fetched.subscribed
    BY <1>5, <1>11
  <2>. QED
    BY <1>5, <1>9, <1>11, <2>1
<1>. QED
  BY <1>0, <1>8, <1>10, <1>11

LEMMA ClientInvStep == TypesInv /\ ClientInv /\ [StoreNext]_storeVars => ClientInv'
<1> SUFFICES ASSUME TypesInv, ClientInv, [StoreNext]_storeVars PROVE ClientInv'
  OBVIOUS
<1>0. client \in Client
  BY DEF TypesInv
<1>1. ASSUME UNCHANGED client PROVE ClientInv'
  BY <1>1, ClientKept
<1>2. CASE \E p \in Publishers : PublishFails(p) \/ Registered(p)
  BY <1>1, <1>2 DEF PublishFails, Registered
<1>3. CASE \E p \in Publishers : \E todo \in Calls[p] \cup {calls[p].todo} : InsertMessage(p, todo)
  BY <1>1, <1>3 DEF InsertMessage
<1>4. CASE \E r \in inserting : InsertRecipient(r)
  BY <1>1, <1>4 DEF InsertRecipient
<1>5. ASSUME NEW id \in delivering, Deliver(id) PROVE ClientInv'
  <2>1. client' = client \/ client' = [client EXCEPT !.live = client.live \cup {id}]
    BY <1>5 DEF Deliver
  <2>2. /\ client'.stage = client.stage /\ client'.targets = client.targets
        /\ client'.subscribed = client.subscribed /\ client'.filter = client.filter
        /\ client'.fetched = client.fetched /\ client'.answer = client.answer
    BY <1>0, <2>1 DEF Client
  <2>. QED
    BY <2>2, ClientKept
<1>6. ASSUME NEW targets \in Targets, Subscribe(targets) PROVE ClientInv'
  <2>1. /\ client.stage = "new" /\ client'.stage = "subscribed" /\ client'.targets = targets
        /\ client'.subscribed = ToSet(targets) /\ client'.fetched = client.fetched
        /\ client'.answer = client.answer
    BY <1>0, <1>6 DEF Client, Subscribe
  <2>2. client'.fetched = <<>> /\ client'.answer = <<>> /\ Len(targets) \in Nat
    BY <2>1, StoreAssumption DEF ClientInv
  <2>. QED
    BY <2>1, <2>2 DEF ClientInv, InOrder
<1>7. CASE \E since \in {0} \cup Ids, filter \in Filters : RestoreChannel(since, filter)
  BY <1>7, RestoredClient
<1>8. CASE Leave
  <2>1. /\ client'.stage = "gone" /\ client'.targets = <<>>
        /\ client'.fetched = <<>> /\ client'.answer = <<>>
    BY <1>8 DEF Leave, NewClient
  <2>. QED
    BY <2>1 DEF ClientInv, InOrder
<1>9. CASE \/ \E c \in Channels : DeleteChannelCache(c)
           \/ DeleteMessages \/ DeleteRecipients \/ BeginCleanup \/ ClearMessageCache
           \/ Tick \/ UNCHANGED storeVars
  BY <1>1, <1>9 DEF DeleteChannelCache, DeleteMessages, DeleteRecipients, BeginCleanup, ClearMessageCache,
     Tick, storeVars
<1>. QED
  BY <1>2, <1>3, <1>4, <1>5, <1>6, <1>7, <1>8, <1>9 DEF StoreNext

-----------------------------------------------------------------------------
(* What clears a message.                                                   *)

(* A finite set of numbers has a greatest.                                  *)
LEMMA GreatestElement ==
    ASSUME NEW T, T \subseteq Nat, T # {}, IsFiniteSet(T)
    PROVE  \E t \in T : \A u \in T : u <= t
<1> DEFINE Greatest(S) == \E t \in S : \A u \in S : u <= t
           Bad == {k \in Nat : \E S \in SUBSET Nat : /\ S # {} /\ IsFiniteSet(S)
                                                     /\ Cardinality(S) = k /\ ~Greatest(S)}
<1>1. SUFFICES ASSUME Bad # {} PROVE FALSE
  <2>1. Cardinality(T) \in Nat
    BY FS_CardinalityType
  <2>. QED
    BY <2>1
<1>2. PICK k \in Bad : \A q \in Bad : k <= q
  <2>1. Bad \subseteq Nat
    OBVIOUS
  <2> HIDE DEF Bad
  <2>. QED
    BY <1>1, <2>1, LeastElement
<1>3. PICK S \in SUBSET Nat : S # {} /\ IsFiniteSet(S) /\ Cardinality(S) = k /\ ~Greatest(S)
  BY <1>2
<1>4. PICK x \in S : TRUE
  BY <1>3
<1>5. /\ IsFiniteSet(S \ {x}) /\ Cardinality(S \ {x}) = k - 1
      /\ k \in Nat /\ Cardinality(S \ {x}) \in Nat
  BY <1>3, <1>4, FS_RemoveElement, FS_CardinalityType
<1>6. CASE S \ {x} = {}
  <2>1. \A u \in S : u <= x
    BY <1>3, <1>6
  <2>. QED
    BY <1>3, <1>4, <2>1
<1>7. CASE S \ {x} # {}
  <2>1. k - 1 \in Nat /\ k - 1 \notin Bad
    BY <1>2, <1>5
  <2>2. Greatest(S \ {x})
    BY <1>3, <1>5, <1>7, <2>1
  <2>3. PICK t \in S \ {x} : \A u \in S \ {x} : u <= t
    BY <2>2
  <2>4. CASE x <= t
    BY <1>3, <2>3, <2>4
  <2>5. CASE ~(x <= t)
    <3>1. \A u \in S : u <= x
      BY <1>3, <1>4, <2>3, <2>5
    <3>. QED
      BY <1>3, <1>4, <3>1
  <2>. QED
    BY <2>4, <2>5
<1>. QED
  BY <1>6, <1>7

(* The time after which a message is overdue is that of the policy of one   *)
(* of its channels.                                                         *)
LEMMA CacheTimeOfChannel ==
    ASSUME TypesInv, ~Throws, NEW id, Policies(id) # {}
    PROVE  \E r \in cleanup : /\ r[1] = id /\ Enabled(ChannelPolicy(r[2]))
                              /\ CacheTime(id) = ChannelPolicy(r[2]).time
<1> DEFINE times == {p.time : p \in Policies(id)}
           time == [c \in Channels |-> ChannelPolicy(c).time]
           all == {time[c] : c \in Channels}
<1>1. \A r \in cleanup : r[2] \in Channels
  BY DEF TypesInv, Addressed
<1>2. times \subseteq all
  BY <1>1 DEF Policies
<1>3. IsFiniteSet(all)
  <2>1. time \in Surjection(Channels, all)
    BY DEF Surjection
  <2> HIDE DEF time, all
  <2>. QED
    BY <2>1, StoreAssumption, FS_Surjection
<1>5. IsFiniteSet(times)
  BY <1>2, <1>3, FS_Subset
<1>6. times \subseteq Nat /\ times # {}
  <2>1. \A p \in Policies(id) : p.time \in Nat
    BY <1>1, PolicyTypes DEF Policies
  <2>. QED
    BY <2>1
<1> HIDE DEF times
<1>7. \E t \in times : \A u \in times : u <= t
  BY <1>5, <1>6, GreatestElement
<1>8. CacheTime(id) = CHOOSE t \in times : \A u \in times : u <= t
  BY DEF CacheTime, times
<1>9. CacheTime(id) \in times
  BY <1>7, <1>8
<1>. QED
  BY <1>9 DEF times, Policies

LEMMA OverdueExpired ==
    ASSUME TypesInv, ~Throws, NEW r \in cleanup, NEW late \in {0, 1}, Overdue(r[1], late)
    PROVE  Unkept(r[1]) \/ \E c \in Row(r[1]).channels : Old(r[1], c)
<1> DEFINE id == r[1]
<1>1. id \in Ids /\ r[2] \in Row(id).channels /\ r[2] \in Channels
  BY DEF TypesInv, Addressed
<1>2. CASE Policies(id) = {}
  <2>1. \A q \in cleanup : q[1] = id => ~Enabled(ChannelPolicy(q[2]))
    BY <1>2 DEF Policies
  <2>. QED
    BY <2>1 DEF Unkept
<1>3. CASE Policies(id) # {}
  <2>1. PICK q \in cleanup : /\ q[1] = id /\ Enabled(ChannelPolicy(q[2]))
                             /\ CacheTime(id) = ChannelPolicy(q[2]).time
    BY <1>3, CacheTimeOfChannel
  <2>2. q[2] \in Row(id).channels /\ q[2] \in Channels
    BY <2>1 DEF TypesInv, Addressed
  <2>4. ChannelPolicy(q[2]).time \in Nat
    BY <2>1, <2>2, PolicyTypes
  <2>5. Row(id).time \in Nat /\ now \in Nat /\ config.zone \in Int
    BY <1>1, IdsTypes, StoreAssumption DEF TypesInv, Message
  <2>6. CacheTime(id) # 0 /\ Row(id).time - config.zone + CacheTime(id) < now + late
    BY <1>3 DEF Overdue
  <2>7. Old(id, q[2])
    BY <2>1, <2>4, <2>5, <2>6 DEF Old
  <2>. QED
    BY <2>2, <2>7
<1>. QED
  BY <1>2, <1>3

LEMMA TooManyDisplaced ==
    ASSUME TypesInv, ~Throws, NEW c \in Channels, NEW id \in TooMany(c)
    PROVE  c \in Row(id).channels /\ Displaced(id, c)
<1> DEFINE ids == {r[1] : r \in {r \in cleanup : r[2] = c}}
           size == IF Enabled(ChannelPolicy(c)) THEN ChannelPolicy(c).size ELSE 0
           newer == {j \in ids : j > id}
<1>1. TooMany(c) = ids \ Newest(ids, size)
  BY DEF TooMany
<1>2. \A j \in ids : j \in Ids /\ c \in Row(j).channels
  BY DEF TypesInv, Addressed
<1> HIDE DEF ids, size
<1>3. id \in ids /\ size # 0 /\ ~(Cardinality(newer) < size)
  <2>1. id \in ids /\ id \notin Newest(ids, size)
    BY <1>1
  <2>. QED
    BY <2>1 DEF Newest
<1>4. Enabled(ChannelPolicy(c)) /\ size = ChannelPolicy(c).size
  BY <1>3 DEF size
<1>5. size \in Nat
  BY <1>4, PolicyTypes
<1>6. newer \subseteq Followers(id, c) /\ Followers(id, c) \subseteq Ids
  BY <1>2 DEF Followers
<1>7. IsFiniteSet(Followers(id, c))
  BY <1>6, IdsTypes, FS_Subset
<1> HIDE DEF newer
<1>8. /\ Cardinality(newer) <= Cardinality(Followers(id, c))
      /\ Cardinality(newer) \in Nat /\ Cardinality(Followers(id, c)) \in Nat
  BY <1>6, <1>7, FS_Subset, FS_CardinalityType
<1>9. Cardinality(Followers(id, c)) >= size
  BY <1>3, <1>5, <1>8
<1>. QED
  BY <1>2, <1>3, <1>4, <1>9 DEF Displaced

LEMMA ClearedByCleanup ==
    ASSUME TypesInv, RowsInv, ClearMessageCache, NEW id \in Ids, Cached(id), ~Cached(id)'
    PROVE  Unkept(id) \/ \E c \in Row(id).channels : Old(id, c) \/ Displaced(id, c)
<1>0. PICK late \in {0, 1} :
         LET ids == {r[1] : r \in cleanup}
             overdue == {i \in ids : Overdue(i, late)}
         IN /\ config' = config
            /\ rows' = rows \/ Clear(overdue \cup UNION {TooMany(c) : c \in Channels})
  BY DEF ClearMessageCache
<1> DEFINE ids == {r[1] : r \in cleanup}
           overdue == {i \in ids : Overdue(i, late)}
           gone == overdue \cup UNION {TooMany(c) : c \in Channels}
<1>1. config' = config /\ (rows' = rows \/ Clear(gone))
  BY <1>0
<1>2. ~Throws
  <2>1. rows # <<>>
    BY IdsTypes DEF TypesInv
  <2>. QED
    BY <2>1 DEF RowsInv
<1> HIDE DEF gone
<1>3. id \in gone
  <2>1. CASE rows' = rows
    BY <1>1, <2>1 DEF Cached, Ids, Row
  <2>2. CASE Clear(gone)
    <3>1. id - config.firstId + 1 \in 1..Len(rows) /\ Row(id) = rows[id - config.firstId + 1]
      BY IdsTypes
    <3>2. /\ Len(rows') = Len(rows)
          /\ rows'[id - config.firstId + 1].cached =
                (rows[id - config.firstId + 1].cached
                   /\ config.firstId + (id - config.firstId + 1) - 1 \notin gone)
      BY <2>2, <3>1, ClearRows
    <3>3. config.firstId + (id - config.firstId + 1) - 1 = id
      BY ConfigTypes, IdsTypes
    <3>4. Ids' = Ids /\ Row(id)' = rows'[id - config.firstId + 1]
      BY <1>1, <3>2 DEF Ids, Row
    <3>. QED
      BY <3>1, <3>2, <3>3, <3>4 DEF Cached
  <2>. QED
    BY <1>1, <2>1, <2>2
<1>4. CASE id \in overdue
  BY <1>2, <1>4, OverdueExpired
<1>5. CASE \E c \in Channels : id \in TooMany(c)
  BY <1>2, <1>5, TooManyDisplaced
<1>. QED
  BY <1>3, <1>4, <1>5 DEF gone

LEMMA ClearedByDeletion ==
    ASSUME TypesInv, DeleteMessages, NEW id \in Ids, Cached(id), ~Cached(id)'
    PROVE  deletion.stage = "messages" /\ id \in BoundIds(deletion.ids)
<1>1. config' = config /\ Clear(BoundIds(deletion.ids)) /\ deletion.stage = "messages"
  BY DEF DeleteMessages
<1>2. id - config.firstId + 1 \in 1..Len(rows) /\ Row(id) = rows[id - config.firstId + 1]
  BY IdsTypes
<1>3. /\ Len(rows') = Len(rows)
      /\ rows'[id - config.firstId + 1].cached =
            (rows[id - config.firstId + 1].cached
               /\ config.firstId + (id - config.firstId + 1) - 1 \notin BoundIds(deletion.ids))
  BY <1>1, <1>2, ClearRows
<1>4. config.firstId + (id - config.firstId + 1) - 1 = id
  BY ConfigTypes, IdsTypes
<1>5. Ids' = Ids /\ Row(id)' = rows'[id - config.firstId + 1]
  BY <1>1, <1>3 DEF Ids, Row
<1>. QED
  BY <1>1, <1>2, <1>3, <1>4, <1>5 DEF Cached

LEMMA KeptCached ==
    ASSUME TypesInv, [StoreNext]_storeVars, Kept, NEW id \in Ids, Cached(id)
    PROVE  Cached(id)'
<1>1. config' = config /\ Ids \subseteq Ids'
  BY RowsStep, IdsStep
<1>2. id - config.firstId + 1 \in 1..Len(rows) /\ Row(id) = rows[id - config.firstId + 1]
  BY IdsTypes
<1>3. Row(id)' = Row(id)
  BY <1>1, <1>2 DEF Row, Kept
<1>. QED
  BY <1>1, <1>3 DEF Cached

-----------------------------------------------------------------------------
(* The recipients of a message.                                             *)

(* A deletion is bound to no id above the one it means: an id that reads as *)
(* a number in base 10 reads smaller than in base 32, but for an exponent   *)
(* (1e4, the id 1476, is the first to read higher).                         *)
LEMMA BoundBelow ==
    ASSUME TypesInv, RowsInv, PlainIds
    PROVE  \A id \in BoundIds(deletion.ids) : id \in Nat /\ id < LastId
<1>1. SUFFICES ASSUME NEW id \in BoundIds(deletion.ids) PROVE id \in Nat /\ id < LastId
  OBVIOUS
<1>2. Cardinality(deletion.ids) = 1 /\ id \in InBase10(CHOOSE d \in deletion.ids : TRUE)
  BY <1>1 DEF BoundIds
<1>3. deletion.ids # {}
  BY <1>2, FS_EmptySet
<1>4. PICK d \in deletion.ids : id \in InBase10(d)
  BY <1>2, <1>3
<1>5. d \in Ids
  BY DEF TypesInv
<1>6. d \in config.firstId .. config.firstId + MaxMessages - 1
  <2>1. /\ config.firstId \in Nat /\ Len(rows) \in Nat /\ Len(rows) <= MaxMessages
        /\ MaxMessages \in Nat
    BY ConfigTypes, RowTypes, StoreAssumption DEF RowsInv
  <2>2. d \in config.firstId .. config.firstId + Len(rows) - 1
    BY <1>5 DEF Ids
  <2>. QED
    BY <2>1, <2>2
<1>7. InBase10(d) \subseteq 0..d
  BY <1>6 DEF PlainIds, TypesInv
<1>8. d \in Nat /\ d < LastId /\ LastId \in Nat
  BY <1>5, IdsTypes
<1>. QED
  BY <1>4, <1>7, <1>8

LEMMA RecipientsInit == StoreInit => RecipientsInv
<1> SUFFICES ASSUME StoreInit PROVE RecipientsInv
  OBVIOUS
<1>1. deletion.stage = "idle"
  BY DEF StoreInit, Nothing
<1>2. Ids = {}
  BY StoreAssumption DEF StoreInit, Ids
<1>. QED
  BY <1>1, <1>2 DEF RecipientsInv

(* What is cached after a step was cached before, or has been inserted.     *)
LEMMA CachedBefore ==
    ASSUME TypesInv, [StoreNext]_storeVars, NEW id \in Ids', Cached(id)'
    PROVE  \/ id \in Ids /\ Cached(id) /\ Row(id)'.channels = Row(id).channels
           \/ /\ id = LastId
              /\ \E p \in Publishers : \E todo \in Calls[p] \cup {calls[p].todo} :
                    InsertMessage(p, todo)
<1>1. CASE id \in Ids
  BY <1>1, IdsStep
<1>2. CASE id \notin Ids
  <2>1. /\ config' = config /\ rows' \in Seq(Message) /\ Len(rows) <= Len(rows')
        /\ config.firstId \in Nat /\ Len(rows) \in Nat /\ Len(rows') \in Nat
    BY RowsStep, ConfigTypes, RowTypes
  <2>2. Len(rows') # Len(rows)
    BY <1>2, <2>1 DEF Ids
  <2>3. PICK p \in Publishers : \E todo \in Calls[p] \cup {calls[p].todo} : InsertMessage(p, todo)
    BY <2>2, RowsStep
  <2>4. PICK todo \in Calls[p] \cup {calls[p].todo} : InsertMessage(p, todo)
    BY <2>3
  <2>5. Len(rows') = Len(rows) + 1
    BY <2>4, InsertedTypes
  <2>6. id = LastId
    BY <1>2, <2>1, <2>5 DEF Ids, LastId
  <2>. QED
    BY <2>4, <2>6
<1>. QED
  BY <1>1, <1>2

(* A step other than Registered leaves a call's message entered.            *)
LEMMA EnteredKept ==
    ASSUME TypesInv, [StoreNext]_storeVars, NEW id, Entered(id)
    PROVE  \/ Entered(id)'
           \/ \E p \in Publishers : Registered(p) /\ calls[p].id = id
<1>1. PICK p \in Publishers : calls[p].stage = "registered" /\ calls[p].id = id
  BY DEF Entered
<1>2. ASSUME calls'[p] = calls[p] PROVE Entered(id)'
  BY <1>1, <1>2 DEF Entered
<1>3. ASSUME NEW q \in Publishers, PublishFails(q) PROVE Entered(id)'
  BY <1>1, <1>2, <1>3 DEF PublishFails, TypesInv
<1>4. ASSUME NEW q \in Publishers, NEW todo, InsertMessage(q, todo) PROVE Entered(id)'
  <2>1. q # p
    BY <1>1, <1>4 DEF InsertMessage
  <2>. QED
    BY <1>2, <1>4, <2>1 DEF InsertMessage, TypesInv
<1>5. ASSUME NEW q \in Publishers, Registered(q), q # p PROVE Entered(id)'
  BY <1>2, <1>5, RegisteredTypes
<1>6. ASSUME UNCHANGED calls PROVE Entered(id)'
  BY <1>2, <1>6
<1>7. CASE \/ \E r \in inserting : InsertRecipient(r)
           \/ \E i \in delivering : Deliver(i)
  BY <1>6, <1>7 DEF InsertRecipient, Deliver
<1>8. CASE \/ \E targets \in Targets : Subscribe(targets)
           \/ \E since \in {0} \cup Ids, filter \in Filters : RestoreChannel(since, filter)
           \/ Leave
  BY <1>6, <1>8 DEF Subscribe, RestoreChannel, Leave
<1>9. CASE \/ \E c \in Channels : DeleteChannelCache(c)
           \/ DeleteMessages \/ DeleteRecipients \/ BeginCleanup \/ ClearMessageCache
           \/ Tick \/ UNCHANGED storeVars
  BY <1>6, <1>9 DEF DeleteChannelCache, DeleteMessages, DeleteRecipients, BeginCleanup, ClearMessageCache,
     Tick, storeVars
<1>. QED
  BY <1>1, <1>3, <1>4, <1>5, <1>7, <1>8, <1>9 DEF StoreNext

(* A pair moves from the inserts to the table, and leaves it by a deletion. *)
LEMMA PairsKept ==
    ASSUME TypesInv, [StoreNext]_storeVars, NEW r \in inserting \cup recipients
    PROVE  \/ r \in inserting' \cup recipients'
           \/ deletion.stage = "recipients" /\ r[1] \in BoundIds(deletion.ids)
<1>1. ASSUME UNCHANGED <<inserting, recipients>> PROVE r \in inserting' \cup recipients'
  BY <1>1
<1>2. CASE \E p \in Publishers : PublishFails(p)
  BY <1>1, <1>2 DEF PublishFails
<1>3. CASE \E p \in Publishers : \E todo \in Calls[p] \cup {calls[p].todo} : InsertMessage(p, todo)
  BY <1>1, <1>3 DEF InsertMessage
<1>4. ASSUME NEW p \in Publishers, Registered(p) PROVE r \in inserting' \cup recipients'
  BY <1>4 DEF Registered
<1>5. ASSUME NEW q \in inserting, InsertRecipient(q) PROVE r \in inserting' \cup recipients'
  BY <1>5 DEF InsertRecipient
<1>6. CASE DeleteRecipients
  BY <1>6 DEF DeleteRecipients
<1>7. CASE \/ \E id \in delivering : Deliver(id)
           \/ \E targets \in Targets : Subscribe(targets)
           \/ \E since \in {0} \cup Ids, filter \in Filters : RestoreChannel(since, filter)
           \/ Leave
  BY <1>1, <1>7 DEF Deliver, Subscribe, RestoreChannel, Leave
<1>8. CASE \/ \E c \in Channels : DeleteChannelCache(c)
           \/ DeleteMessages \/ BeginCleanup \/ ClearMessageCache
           \/ Tick \/ UNCHANGED storeVars
  BY <1>1, <1>8 DEF DeleteChannelCache, DeleteMessages, BeginCleanup, ClearMessageCache, Tick, storeVars
<1>. QED
  BY <1>2, <1>3, <1>4, <1>5, <1>6, <1>7, <1>8 DEF StoreNext

(* A deletion between its two deletes was there before, or has just made    *)
(* the first.                                                               *)
LEMMA DeletionBefore ==
    ASSUME TypesInv, [StoreNext]_storeVars, deletion'.stage = "recipients"
    PROVE  \/ deletion' = deletion
           \/ DeleteMessages /\ deletion'.ids = deletion.ids
<1>1. CASE \E c \in Channels : DeleteChannelCache(c)
  BY <1>1 DEF DeleteChannelCache
<1>2. CASE DeleteMessages
  BY <1>2 DEF DeleteMessages, TypesInv, Deletion
<1>3. CASE DeleteRecipients
  BY <1>3 DEF DeleteRecipients, Nothing
<1>4. CASE \/ \E p \in Publishers :
                 \/ PublishFails(p)
                 \/ \E todo \in Calls[p] \cup {calls[p].todo} : InsertMessage(p, todo)
                 \/ Registered(p)
           \/ \E r \in inserting : InsertRecipient(r)
           \/ \E id \in delivering : Deliver(id)
  BY <1>4 DEF PublishFails, InsertMessage, Registered, InsertRecipient, Deliver
<1>5. CASE \/ \E targets \in Targets : Subscribe(targets)
           \/ \E since \in {0} \cup Ids, filter \in Filters : RestoreChannel(since, filter)
           \/ Leave
  BY <1>5 DEF Subscribe, RestoreChannel, Leave
<1>6. CASE BeginCleanup \/ ClearMessageCache \/ Tick \/ UNCHANGED storeVars
  BY <1>6 DEF BeginCleanup, ClearMessageCache, Tick, storeVars
<1>. QED
  BY <1>1, <1>2, <1>3, <1>4, <1>5, <1>6 DEF StoreNext

LEMMA RecipientsInvStep ==
    ASSUME TypesInv, RowsInv, RecipientsInv, PlainIds, [StoreNext]_storeVars
    PROVE  RecipientsInv'
<1>1. ASSUME deletion'.stage = "recipients", NEW id \in BoundIds(deletion'.ids)
      PROVE  id < LastId' /\ ~Cached(id)'
  <2>0. LastId \in Nat /\ LastId' \in Nat /\ LastId <= LastId'
    BY TypesStep, IdsStep, IdsTypes, RowsStep, ConfigTypes DEF LastId
  <2>1. ASSUME id \in BoundIds(deletion.ids), id \in Nat, id < LastId, Cached(id)'
        PROVE  id \in Ids /\ Cached(id)
    BY <2>0, <2>1, CachedBefore DEF Cached
  <2>2. id \in BoundIds(deletion.ids)
    BY <1>1, DeletionBefore
  <2>3. id \in Nat /\ id < LastId
    BY <2>2, BoundBelow
  <2>4. CASE deletion' = deletion
    BY <1>1, <2>0, <2>1, <2>2, <2>3, <2>4 DEF RecipientsInv
  <2>5. CASE DeleteMessages
    <3>1. Cached(id)' => Cached(id) /\ id \in Ids
      BY <2>1, <2>2, <2>3
    <3>2. ASSUME id \in Ids, Cached(id), Cached(id)' PROVE FALSE
      <4>1. config' = config /\ Clear(BoundIds(deletion.ids))
        BY <2>5 DEF DeleteMessages
      <4>2. id - config.firstId + 1 \in 1..Len(rows)
        BY <3>2, IdsTypes
      <4>3. rows'[id - config.firstId + 1].cached =
              (rows[id - config.firstId + 1].cached
                 /\ config.firstId + (id - config.firstId + 1) - 1 \notin BoundIds(deletion.ids))
        BY <4>1, <4>2, ClearRows
      <4>4. config.firstId + (id - config.firstId + 1) - 1 = id
        BY <2>3, ConfigTypes
      <4>. QED
        BY <2>2, <3>2, <4>1, <4>3, <4>4 DEF Cached, Row
    <3>. QED
      BY <2>0, <2>3, <3>1, <3>2
  <2>. QED
    BY <1>1, <2>4, <2>5, DeletionBefore
<1>2. ASSUME NEW id \in Ids', Cached(id)', NEW c \in Row(id)'.channels
      PROVE  Entered(id)' \/ <<id, c>> \in inserting' \cup recipients'
  <2>1. CASE id \in Ids /\ Cached(id) /\ Row(id)'.channels = Row(id).channels
    <3>1. Entered(id) \/ <<id, c>> \in inserting \cup recipients
      BY <1>2, <2>1 DEF RecipientsInv
    <3>2. CASE Entered(id)
      <4>1. ASSUME NEW p \in Publishers, Registered(p), calls[p].id = id
            PROVE  <<id, c>> \in inserting'
        BY <1>2, <2>1, <4>1 DEF Registered
      <4>. QED
        BY <3>2, <4>1, EnteredKept
    <3>3. CASE <<id, c>> \in inserting \cup recipients
      <4>1. \/ <<id, c>> \in inserting' \cup recipients'
            \/ deletion.stage = "recipients" /\ id \in BoundIds(deletion.ids)
        BY <3>3, PairsKept
      <4>. QED
        BY <2>1, <4>1 DEF RecipientsInv
    <3>. QED
      BY <3>1, <3>2, <3>3
  <2>2. ASSUME id = LastId, NEW p \in Publishers, NEW todo \in Calls[p] \cup {calls[p].todo},
               InsertMessage(p, todo)
        PROVE  Entered(id)'
    <3>1. calls' = [calls EXCEPT ![p] = [stage |-> "registered", todo |-> todo, id |-> LastId]]
      BY <2>2 DEF InsertMessage
    <3>2. calls'[p].stage = "registered" /\ calls'[p].id = LastId
      BY <3>1 DEF TypesInv
    <3>. QED
      BY <2>2, <3>2 DEF Entered
  <2>. QED
    BY <1>2, <2>1, <2>2, CachedBefore
<1>. QED
  BY <1>1, <1>2 DEF RecipientsInv

-----------------------------------------------------------------------------
(* What a client misses.                                                    *)

LEMMA NewEntered ==
    ASSUME TypesInv, [StoreNext]_storeVars, NEW id \in Ids', Cached(id)', id \notin Ids
    PROVE  Entered(id)'
<1>1. PICK p \in Publishers : \E todo \in Calls[p] \cup {calls[p].todo} : InsertMessage(p, todo)
  BY CachedBefore
<1>2. id = LastId
  BY CachedBefore
<1>3. PICK todo \in Calls[p] \cup {calls[p].todo} : InsertMessage(p, todo)
  BY <1>1
<1>4. calls' = [calls EXCEPT ![p] = [stage |-> "registered", todo |-> todo, id |-> LastId]]
  BY <1>3 DEF InsertMessage
<1>5. calls'[p].stage = "registered" /\ calls'[p].id = LastId
  BY <1>4 DEF TypesInv
<1>. QED
  BY <1>2, <1>5 DEF Entered

(* The store returns every cached message of a channel, but those whose     *)
(* recipients are not there yet, and those its policy lets go.              *)
LEMMA FetchComplete ==
    ASSUME TypesInv, RecipientsInv, ~Throws, NEW c \in Channels, NEW since,
           NEW id \in Ids, Cached(id), id > since, c \in Row(id).channels, Enabled(ChannelPolicy(c))
    PROVE  \/ id \in GetCachedMessages(c, since, NoFilter)
           \/ <<id, c>> \in inserting \/ Entered(id)
           \/ Expired(id, c) \/ Displaced(id, c)
<1> DEFINE time == ChannelPolicy(c).time
           size == ChannelPolicy(c).size
           found == {j \in InChannel(c) : j > since /\ (time = 0 \/ Row(j).time > now - time)}
           newer == {j \in found : j > id}
<1>1. time \in Nat /\ size \in Nat
  BY PolicyTypes
<1>2. NoFilter.maxAge = 0 /\ NoFilter.maxLength = 0
  BY StoreAssumption
<1>3. QueryMaxAge(ChannelPolicy(c), NoFilter) = time /\ QueryLimit(ChannelPolicy(c), NoFilter) = size
  BY <1>1, <1>2 DEF QueryMaxAge, QueryLimit, Least
<1>4. GetCachedMessages(c, since, NoFilter) = Newest(found, size)
  BY <1>3 DEF GetCachedMessages
<1>5. SUFFICES ASSUME <<id, c>> \in recipients, ~Expired(id, c)
               PROVE  id \in Newest(found, size) \/ Displaced(id, c)
  BY <1>4 DEF RecipientsInv
<1>6. Row(id).time \in Nat /\ now \in Nat
  BY IdsTypes DEF TypesInv, Message
<1>7. time = 0 \/ Row(id).time > now - time
  BY <1>1, <1>5, <1>6 DEF Expired
<1>8. id \in found
  BY <1>5, <1>7 DEF InChannel
<1>9. newer \subseteq Followers(id, c) /\ Followers(id, c) \subseteq Ids
  BY DEF InChannel, Followers, TypesInv, Addressed
<1>10. IsFiniteSet(Followers(id, c))
  BY <1>9, IdsTypes, FS_Subset
<1> HIDE DEF newer
<1>11. /\ Cardinality(newer) <= Cardinality(Followers(id, c))
       /\ Cardinality(newer) \in Nat /\ Cardinality(Followers(id, c)) \in Nat
  BY <1>9, <1>10, FS_Subset, FS_CardinalityType
<1> HIDE DEF time, size, found
<1>12. CASE size = 0 \/ Cardinality(newer) < size
  BY <1>8, <1>12 DEF Newest, newer
<1>13. CASE size # 0 /\ ~(Cardinality(newer) < size)
  <2>1. Cardinality(Followers(id, c)) >= size
    BY <1>1, <1>11, <1>13
  <2>. QED
    BY <1>13, <2>1 DEF Displaced, size
<1>. QED
  BY <1>12, <1>13

LEMMA DeliveringKept ==
    ASSUME TypesInv, [StoreNext]_storeVars, NEW id \in delivering
    PROVE  id \in delivering' \/ Deliver(id)
<1>1. CASE \E p \in Publishers :
              \/ PublishFails(p)
              \/ \E todo \in Calls[p] \cup {calls[p].todo} : InsertMessage(p, todo)
              \/ Registered(p)
  BY <1>1 DEF PublishFails, InsertMessage, Registered
<1>2. ASSUME NEW i \in delivering, Deliver(i) PROVE id \in delivering' \/ Deliver(id)
  BY <1>2 DEF Deliver
<1>3. CASE \/ \E r \in inserting : InsertRecipient(r)
           \/ \E targets \in Targets : Subscribe(targets)
           \/ \E since \in {0} \cup Ids, filter \in Filters : RestoreChannel(since, filter)
           \/ Leave
  BY <1>3 DEF InsertRecipient, Subscribe, RestoreChannel, Leave
<1>4. CASE \/ \E c \in Channels : DeleteChannelCache(c)
           \/ DeleteMessages \/ DeleteRecipients \/ BeginCleanup \/ ClearMessageCache
           \/ Tick \/ UNCHANGED storeVars
  BY <1>4 DEF DeleteChannelCache, DeleteMessages, DeleteRecipients, BeginCleanup, ClearMessageCache,
     Tick, storeVars
<1>. QED
  BY <1>1, <1>2, <1>3, <1>4 DEF StoreNext

(* What a policy has let go stays let go.                                   *)
LEMMA GoneKept ==
    ASSUME TypesInv, ~Throws, [StoreNext]_storeVars, NEW c \in Channels, NEW id \in Ids,
           Enabled(ChannelPolicy(c))
    PROVE  /\ Expired(id, c) => Expired(id, c)'
           /\ Displaced(id, c) => Displaced(id, c)'
<1>1. /\ config' = config /\ now <= now' /\ now' \in Nat /\ now \in Nat
      /\ ChannelPolicy(c)' = ChannelPolicy(c)
      /\ ChannelPolicy(c).time \in Nat /\ ChannelPolicy(c).size \in Nat
  BY RowsStep, RowTypes, PolicyKept, PolicyTypes
<1>2. Row(id).time \in Nat /\ Row(id)'.time = Row(id).time
  BY IdsTypes, IdsStep DEF Message
<1>3. Expired(id, c) => Expired(id, c)'
  BY <1>1, <1>2 DEF Expired
<1>4. Followers(id, c) \subseteq Followers(id, c)'
  BY IdsStep DEF Followers
<1>5. IsFiniteSet(Ids')
  <2>1. config' = config /\ config.firstId \in Nat /\ Len(rows') \in Nat
    BY RowsStep, ConfigTypes
  <2>2. Ids' = config.firstId .. config.firstId + Len(rows') - 1
    BY <2>1 DEF Ids
  <2>3. config.firstId \in Int /\ config.firstId + Len(rows') - 1 \in Int
    BY <2>1
  <2>. QED
    BY <2>2, <2>3, FS_Interval
<1>6. Followers(id, c)' \subseteq Ids'
  BY DEF Followers
<1>7. IsFiniteSet(Followers(id, c)')
  BY <1>5, <1>6, FS_Subset
<1>8. /\ Cardinality(Followers(id, c)) <= Cardinality(Followers(id, c)')
      /\ Cardinality(Followers(id, c)) \in Nat /\ Cardinality(Followers(id, c)') \in Nat
  BY <1>4, <1>7, FS_Subset, FS_CardinalityType
<1>9. Displaced(id, c) => Displaced(id, c)'
  BY <1>1, <1>8 DEF Displaced
<1>. QED
  BY <1>3, <1>9

LEMMA AccountedKept ==
    ASSUME TypesInv, ~Throws, [StoreNext]_storeVars,
           NEW i, NEW c \in Channels, NEW id \in Ids, c \in Row(id).channels,
           c \in client.subscribed, Enabled(ChannelPolicy(c)),
           client'.fetched[i] = client.fetched[i],
           client.live \subseteq client'.live, client.late \subseteq client'.late,
           Accounted(i, c, id)
    PROVE  Accounted(i, c, id)'
<1>1. CASE id \in client.live \/ id \in client.late \/ id \in client.fetched[i]
  BY <1>1 DEF Accounted
<1>2. CASE id \in delivering
  <2>1. CASE Deliver(id)
    <3>1. client' = [client EXCEPT !.live = client.live \cup {id}]
      BY <2>1 DEF Deliver
    <3>2. id \in client'.live
      BY <3>1 DEF TypesInv, Client
    <3>. QED
      BY <3>2 DEF Accounted
  <2>2. CASE id \in delivering'
    BY <2>2 DEF Accounted
  <2>. QED
    BY <1>2, <2>1, <2>2, DeliveringKept
<1>3. CASE Entered(id)
  <2>1. ASSUME NEW p \in Publishers, Registered(p), calls[p].id = id PROVE id \in delivering'
    BY <2>1 DEF Registered
  <2>2. Entered(id)' \/ id \in delivering'
    BY <1>3, <2>1, EnteredKept
  <2>. QED
    BY <2>2 DEF Accounted
<1>4. CASE Expired(id, c) \/ Displaced(id, c)
  BY <1>4, GoneKept DEF Accounted
<1>. QED
  BY <1>1, <1>2, <1>3, <1>4 DEF Accounted

LEMMA MissedInit == StoreInit => MissedInv
BY DEF StoreInit, MissedInv, NewClient

LEMMA MissedKept ==
    ASSUME TypesInv, ClientInv, MissedInv, [StoreNext]_storeVars,
           client'.stage = client.stage, client'.targets = client.targets,
           client'.fetched = client.fetched, client'.since = client.since,
           client'.filter = client.filter,
           client.live \subseteq client'.live, client.late \subseteq client'.late
    PROVE  MissedInv'
<1>1. SUFFICES ASSUME client.stage \in {"restoring", "answered"}, client.filter = NoFilter,
                      NEW i \in 1..Len(client.fetched), NEW c, c = client.targets[i],
                      NEW id \in Ids', Needed(c, id)'
               PROVE  Accounted(i, c, id)'
  BY DEF MissedInv, Needed, Accounted
<1>2. c \in Channels /\ c \in client.subscribed
  <2>1. client.targets \in Seq(Channels) /\ client.fetched \in Seq(SUBSET Nat)
    BY DEF TypesInv, Client
  <2>2. Len(client.targets) \in Nat /\ Len(client.fetched) \in Nat
    BY <2>1
  <2>3. i \in 1..Len(client.targets)
    BY <1>1, <2>2 DEF ClientInv
  <2>4. client.subscribed = ToSet(client.targets)
    BY <1>1 DEF ClientInv
  <2>. QED
    BY <1>1, <2>1, <2>3, <2>4 DEF ToSet
<1>3. CASE id \notin Ids
  <2>1. Cached(id)'
    BY <1>1 DEF Needed
  <2>. QED
    BY <1>1, <1>3, <2>1, NewEntered DEF Accounted
<1>4. CASE id \in Ids
  <2>1. /\ ChannelPolicy(c)' = ChannelPolicy(c)
    BY RowsStep, PolicyKept
  <2>2. Needed(c, id)
    BY <1>1, <1>4, <2>1, IdsStep DEF Needed
  <2>3. Accounted(i, c, id)
    BY <1>1, <1>4, <2>2 DEF MissedInv
  <2>4. ~Throws
    BY <1>1 DEF ClientInv, TypesInv, Client
  <2>. QED
    BY <1>2, <1>4, <2>2, <2>3, <2>4, AccountedKept DEF Needed
<1>. QED
  BY <1>3, <1>4

(* A query of the client accounts for its channel; those before it stay     *)
(* accounted for.                                                           *)
LEMMA RestoredMissed ==
    ASSUME TypesInv, RecipientsInv, ClientInv, MissedInv,
           NEW since \in {0} \cup Ids, NEW filter \in Filters, RestoreChannel(since, filter)
    PROVE  MissedInv'
<1> DEFINE n == Len(client.fetched) + 1
           found == GetCachedMessages(client.targets[n], since, filter)
<1>0. [StoreNext]_storeVars
  BY DEF StoreNext
<1>1. /\ UNCHANGED <<config, now, rows, recipients, inserting, calls, delivering>>
      /\ client.stage \in {"subscribed", "restoring"} /\ n <= Len(client.targets)
      /\ client.stage = "restoring" => since = client.since /\ filter = client.filter
  BY DEF RestoreChannel
<1>2. \/ client' = [client EXCEPT !.stage = "ignored"]
      \/ /\ ~Throws
         /\ \/ client' = Fetched(client.targets[n], since, filter)
            \/ \E answer : client' = [Fetched(client.targets[n], since, filter) EXCEPT
                                          !.stage = "answered", !.answer = answer]
  BY DEF RestoreChannel
<1>3. client \in Client
  BY DEF TypesInv
<1>4. CASE client' = [client EXCEPT !.stage = "ignored"]
  BY <1>3, <1>4 DEF MissedInv, Client
<1>5. CASE client'.stage # "ignored"
  <2>1. ~Throws
    BY <1>2, <1>3, <1>5 DEF Client
  <2>2. /\ client'.targets = client.targets /\ client'.since = since
        /\ client'.filter = filter /\ client'.fetched = Append(client.fetched, found)
        /\ client'.live = client.live
        /\ client'.late = client.late \cup
              {r[1] : r \in {r \in inserting : r[2] = client.targets[n]}}
    BY <1>2, <1>3, <1>5 DEF Client, Fetched
  <2>3. /\ client.fetched \in Seq(SUBSET Nat) /\ Len(client.fetched) \in Nat
        /\ client.targets \in Seq(Channels) /\ Len(client.targets) \in Nat
    <3>1. client.targets \in Seq(Channels) /\ client.fetched \in Seq(SUBSET Nat)
      BY <1>3 DEF Client
    <3>2. Len(client.fetched) \in Nat
      BY <3>1
    <3>3. Len(client.targets) \in Nat
      BY <3>1
    <3>. QED
      BY <3>1, <3>2, <3>3
  <2>4. found \in SUBSET Nat
    BY FoundTypes, IdsTypes
  <2> HIDE DEF found
  <2>5. /\ Len(client'.fetched) = n
        /\ client'.fetched[n] = found
        /\ \A i \in 1..Len(client.fetched) : client'.fetched[i] = client.fetched[i]
    BY <2>2, <2>3, <2>4, AppendProperties
  <2>6. SUFFICES ASSUME filter = NoFilter,
                        NEW i \in 1..n, NEW c, c = client.targets[i],
                        NEW id \in Ids', Needed(c, id)'
                 PROVE  Accounted(i, c, id)'
    BY <2>2, <2>5 DEF MissedInv, Needed, Accounted
  <2>7. id \in Ids /\ Ids' = Ids /\ ChannelPolicy(c)' = ChannelPolicy(c)
    BY <1>1, <2>6 DEF Ids, ChannelPolicy
  <2>8. /\ Cached(id) /\ id > since /\ c \in Row(id).channels
        /\ Enabled(ChannelPolicy(c))
    BY <1>1, <2>2, <2>6, <2>7 DEF Needed, Cached, Ids, Row
  <2>9. i \in 1..Len(client.targets) /\ c \in Channels
    <3>1. n <= Len(client.targets) /\ Len(client.targets) \in Nat /\ Len(client.fetched) \in Nat
      BY <1>1, <2>3
    <3>2. i \in 1..Len(client.targets)
      BY <3>1
    <3>. QED
      BY <2>3, <2>6, <3>2
  <2>10. CASE i = n
    <3>1. \/ id \in found
          \/ <<id, c>> \in inserting \/ Entered(id)
          \/ Expired(id, c) \/ Displaced(id, c)
      BY <2>1, <2>6, <2>7, <2>8, <2>9, <2>10, FetchComplete DEF found
    <3>2. <<id, c>> \in inserting => id \in client'.late
      BY <2>2, <2>6, <2>10
    <3>3. Entered(id) => Entered(id)'
      BY <1>1 DEF Entered
    <3>4. (Expired(id, c) => Expired(id, c)') /\ (Displaced(id, c) => Displaced(id, c)')
      BY <1>0, <2>1, <2>7, <2>8, <2>9, GoneKept
    <3>. QED
      BY <2>5, <2>10, <3>1, <3>2, <3>3, <3>4 DEF Accounted
  <2>11. CASE i # n
    <3>1. i \in 1..Len(client.fetched)
      BY <2>3, <2>6, <2>11
    <3>2. client.fetched # <<>>
      BY <2>3, <3>1
    <3>3. client.stage = "restoring"
      BY <1>1, <3>2 DEF ClientInv
    <3>4. Needed(c, id)
      BY <1>1, <2>8, <3>3 DEF Needed
    <3>5. Accounted(i, c, id)
      BY <1>1, <2>6, <2>7, <3>1, <3>3, <3>4 DEF MissedInv
    <3>6. c \in client.subscribed
      BY <2>6, <2>9, <2>3, <3>3 DEF ClientInv, ToSet
    <3>7. client.live \subseteq client'.live /\ client.late \subseteq client'.late
      BY <2>2
    <3>. QED
      BY <1>0, <2>1, <2>5, <2>7, <2>8, <2>9, <3>1, <3>5, <3>6, <3>7, AccountedKept
  <2>. QED
    BY <2>10, <2>11
<1>. QED
  BY <1>4, <1>5, <1>2, <1>3 DEF Client, MissedInv

LEMMA MissedInvStep ==
    ASSUME TypesInv, RecipientsInv, ClientInv, MissedInv, [StoreNext]_storeVars
    PROVE  MissedInv'
<1>0. client \in Client
  BY DEF TypesInv
<1>1. ASSUME UNCHANGED client PROVE MissedInv'
  BY <1>1, MissedKept
<1>2. CASE \E p \in Publishers :
              \/ PublishFails(p)
              \/ \E todo \in Calls[p] \cup {calls[p].todo} : InsertMessage(p, todo)
              \/ Registered(p)
  BY <1>1, <1>2 DEF PublishFails, InsertMessage, Registered
<1>3. CASE \E r \in inserting : InsertRecipient(r)
  BY <1>1, <1>3 DEF InsertRecipient
<1>4. ASSUME NEW id \in delivering, Deliver(id) PROVE MissedInv'
  <2>1. client' = client \/ client' = [client EXCEPT !.live = client.live \cup {id}]
    BY <1>4 DEF Deliver
  <2>2. /\ client'.stage = client.stage /\ client'.targets = client.targets
        /\ client'.fetched = client.fetched /\ client'.since = client.since
        /\ client'.filter = client.filter
        /\ client.live \subseteq client'.live /\ client.late \subseteq client'.late
    BY <1>0, <2>1 DEF Client
  <2>. QED
    BY <2>2, MissedKept
<1>5. CASE \E targets \in Targets : Subscribe(targets)
  <2>1. client'.stage = "subscribed"
    BY <1>0, <1>5 DEF Subscribe, Client
  <2>. QED
    BY <2>1 DEF MissedInv
<1>6. CASE \E since \in {0} \cup Ids, filter \in Filters : RestoreChannel(since, filter)
  BY <1>6, RestoredMissed
<1>7. CASE Leave
  <2>1. client'.stage = "gone"
    BY <1>7 DEF Leave, NewClient
  <2>. QED
    BY <2>1 DEF MissedInv
<1>8. CASE \/ \E c \in Channels : DeleteChannelCache(c)
           \/ DeleteMessages \/ DeleteRecipients \/ BeginCleanup \/ ClearMessageCache
           \/ Tick \/ UNCHANGED storeVars
  BY <1>1, <1>8 DEF DeleteChannelCache, DeleteMessages, DeleteRecipients, BeginCleanup, ClearMessageCache,
     Tick, storeVars
<1>. QED
  BY <1>2, <1>3, <1>4, <1>5, <1>6, <1>7, <1>8 DEF StoreNext

-----------------------------------------------------------------------------
(* Theorems.                                                                *)

StoreInv == TypesInv /\ RowsInv /\ ClientInv

LEMMA StoreInvariant == StoreSpec => []StoreInv
<1>1. StoreInit => StoreInv
  BY TypesInit, RowsInit, ClientInit DEF StoreInv
<1>2. StoreInv /\ [StoreNext]_storeVars => StoreInv'
  BY TypesStep, RowsInvStep, ClientInvStep DEF StoreInv
<1>. QED
  BY <1>1, <1>2, PTL DEF StoreSpec

(* Every variable of the store keeps its type.                              *)
THEOREM StoreTypes == StoreSpec => []TypesInv
<1>1. StoreInv => TypesInv
  BY DEF StoreInv
<1>. QED
  BY <1>1, StoreInvariant, PTL

(* Restored messages are in the order of their ids, up to messages of the   *)
(* same second: whichever order sort() gives, times are in the order of the *)
(* ids.                                                                     *)
THEOREM RestoredSorted == StoreSpec => []RestoredInOrder
<1>1. StoreInv => RestoredInOrder
  <2>1. SUFFICES ASSUME StoreInv, NEW i \in DOMAIN client.answer, NEW j \in DOMAIN client.answer, i < j
                 PROVE  LET a == client.answer[i]
                            b == client.answer[j]
                        IN a < b \/ (Row(a).time = Row(b).time /\ ~SameDigits(a, b))
    BY DEF RestoredInOrder
  <2> DEFINE a == client.answer[i]
             b == client.answer[j]
  <2>2. TypesInv /\ RowsInv /\ ClientInv
    BY <2>1 DEF StoreInv
  <2>3. client.answer \in Seq(Nat)
    BY <2>2 DEF TypesInv, Client
  <2>4. i \in 1..Len(client.answer) /\ j \in 1..Len(client.answer)
    BY <2>1, <2>3
  <2>5. a \in Ids /\ b \in Ids /\ SortedBefore(a, b)
    BY <2>1, <2>2, <2>4 DEF TypesInv, ClientInv, InOrder
  <2>6. Row(a).time < Row(b).time => a < b
    BY <2>2, <2>5, TimesInOrder
  <2>7. Row(a).time < Row(b).time
        \/ (Row(a).time = Row(b).time /\ (SameDigits(a, b) => a < b))
    BY <2>5 DEF SortedBefore, TextLess
  <2>. QED
    BY <2>6, <2>7
<1>. QED
  BY <1>1, StoreInvariant, PTL

(* No channel gives more messages than its policy or the client's filter    *)
(* allow.                                                                   *)
THEOREM AnswersAreLimited == StoreSpec => []AnswersWithinPolicy
<1>1. StoreInv => AnswersWithinPolicy
  <2> DEFINE policy(i) == ChannelPolicy(client.targets[i])
             n(i) == Cardinality(client.fetched[i])
  <2>1. SUFFICES ASSUME StoreInv, NEW i \in DOMAIN client.fetched, Enabled(policy(i))
                 PROVE  /\ policy(i).size # 0 /\ (client.filter.maxAge = 0 \/ client.filter.maxLength # 0)
                           => n(i) <= policy(i).size
                        /\ client.filter.maxLength # 0 /\ (client.filter.maxAge # 0 \/ policy(i).size = 0)
                           => n(i) <= client.filter.maxLength
    BY DEF AnswersWithinPolicy
  <2>2. TypesInv /\ RowsInv /\ ClientInv
    BY <2>1 DEF StoreInv
  <2>3. /\ client.fetched \in Seq(SUBSET Nat) /\ client.targets \in Seq(Channels)
        /\ client.filter \in CacheFilter
    BY <2>2 DEF TypesInv, Client
  <2>4. Len(client.targets) \in Nat /\ Len(client.fetched) \in Nat
    BY <2>3
  <2>5. i \in 1..Len(client.fetched)
    BY <2>1, <2>3
  <2>6. Len(client.fetched) <= Len(client.targets) /\ Within(i)
    BY <2>2, <2>5 DEF ClientInv
  <2>7. client.targets[i] \in Channels
    BY <2>3, <2>4, <2>5, <2>6
  <2>8. ~Throws
    BY <2>2, <2>5 DEF ClientInv
  <2>9. policy(i).size \in Nat
    BY <2>1, <2>2, <2>7, <2>8, PolicyTypes
  <2>10. client.filter.maxAge \in Nat /\ client.filter.maxLength \in Nat
    BY <2>3 DEF CacheFilter
  <2>11. n(i) \in Nat
    <3>1. client.fetched[i] \subseteq Ids
      BY <2>2, <2>5 DEF TypesInv
    <3>. QED
      BY <2>2, <3>1, IdsTypes, FS_Subset, FS_CardinalityType
  <2> DEFINE limit == QueryLimit(policy(i), client.filter)
  <2>12. limit # 0 => n(i) <= limit
    BY <2>1, <2>6 DEF Within, Limited
  <2>. QED
    BY <2>9, <2>10, <2>11, <2>12 DEF QueryLimit, Least
<1>. QED
  BY <1>1, StoreInvariant, PTL

(* A message leaves the cache only if a deletion has read it, if it is due   *)
(* in one of its channels (east of UTC, by the offset of the zone too       *)
(* early) or has none with a policy, whatever else happens between the      *)
(* queries and updates of deletions and clean-ups.                          *)
THEOREM OnlyDueAreCleared == StoreSpec => ClearedOnlyWhenDue
<1> DEFINE Due(id) ==
              \/ deletion.stage = "messages"
                 /\ id \in deletion.ids \cup BoundIds(deletion.ids)
              \/ Unkept(id)
              \/ \E c \in Row(id).channels : Old(id, c) \/ Displaced(id, c)
           Step == \A id \in Ids : Cached(id) /\ ~Cached(id)' => Due(id)
<1>1. StoreInv /\ [StoreNext]_storeVars => [Step]_storeVars
  <2> SUFFICES ASSUME StoreInv, [StoreNext]_storeVars, NEW id \in Ids, Cached(id), ~Cached(id)'
               PROVE  Due(id)
    OBVIOUS
  <2>1. TypesInv /\ RowsInv
    BY DEF StoreInv
  <2>2. CASE Kept
    BY <2>1, <2>2, KeptCached
  <2>3. CASE DeleteMessages
    BY <2>1, <2>3, ClearedByDeletion
  <2>4. CASE ClearMessageCache
    BY <2>1, <2>4, ClearedByCleanup
  <2>. QED
    BY <2>1, <2>2, <2>3, <2>4, RowsStep
<1>2. StoreInv /\ StoreInv' /\ [StoreNext]_storeVars => [Step]_storeVars
  BY <1>1
<1>. QED
  BY <1>2, StoreInvariant, PTL DEF StoreSpec, ClearedOnlyWhenDue

(* A client that subscribes and then restores misses no cached message:     *)
(* what a query did not return was on its way to the client, or to the      *)
(* table, or let go by the policy.                                          *)
THEOREM NoneMissed ==
    ASSUME PlainIds
    PROVE  StoreSpec => []NothingMissed
<1> DEFINE Inv == StoreInv /\ RecipientsInv /\ MissedInv
<1>1. StoreInit => Inv
  BY TypesInit, RowsInit, ClientInit, RecipientsInit, MissedInit DEF StoreInv
<1>2. Inv /\ [StoreNext]_storeVars => Inv'
  BY TypesStep, RowsInvStep, ClientInvStep, RecipientsInvStep, MissedInvStep DEF StoreInv
<1>3. Inv => NothingMissed
  <2>1. SUFFICES ASSUME StoreInv, RecipientsInv, MissedInv,
                        client.stage = "answered", client.filter = NoFilter,
                        NEW c \in client.subscribed, NEW id \in Ids,
                        Needed(c, id)
                 PROVE  \/ id \in client.live \cup delivering \cup ToSet(client.answer)
                        \/ Entered(id) \/ id \in client.late
                        \/ Expired(id, c) \/ Displaced(id, c)
    BY DEF NothingMissed, Needed, Entered
  <2>2. TypesInv /\ ClientInv
    BY <2>1 DEF StoreInv
  <2>3. /\ client.targets \in Seq(Channels) /\ client.fetched \in Seq(SUBSET Nat)
        /\ client.subscribed = ToSet(client.targets)
        /\ Len(client.fetched) = Len(client.targets)
        /\ ToSet(client.answer) = UNION ToSet(client.fetched)
    BY <2>1, <2>2 DEF TypesInv, Client, ClientInv
  <2>4. PICK i \in 1..Len(client.targets) : c = client.targets[i]
    BY <2>3 DEF ToSet
  <2>5. Accounted(i, c, id)
    BY <2>1, <2>3, <2>4 DEF MissedInv
  <2>6. client.fetched[i] \subseteq ToSet(client.answer)
    <3>1. i \in DOMAIN client.fetched
      BY <2>3, <2>4
    <3>2. client.fetched[i] \in ToSet(client.fetched)
      BY <3>1 DEF ToSet
    <3>. QED
      BY <2>3, <3>2
  <2>. QED
    BY <2>5, <2>6 DEF Accounted
<1>. QED
  BY <1>1, <1>2, <1>3, PTL DEF StoreSpec
=============================================================================
