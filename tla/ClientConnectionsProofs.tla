------------------------- MODULE ClientConnectionsProofs -------------------------
(***************************************************************************)
(* A connection is found in the pool by whatever it is looked up with, and *)
(* the platform API overlooks no worker that has it.                       *)
(* PoolInv adds to PoolFindsConnections that an entry is kept under the    *)
(* key and the external id of its own connection, and that an entry that   *)
(* is not a Set has at most one connection: why it may be dropped when one *)
(* of that external id closes.  CountInv says who was counted with whom;   *)
(* MailInv what is in the channels; ApiInv how far the conversation of a   *)
(* request has come, and that the connections it may still find are of the *)
(* workers that are still to be asked.                                     *)
(***************************************************************************)
EXTENDS ConnectionApi, FiniteSetTheorems, SequenceTheorems, TLAPS

Stages == {"away", "lookup", "counted", "authorized", "refused", "stuck", "open", "shadow",
           "closed"}
Entry == [isSet : BOOLEAN, members : SUBSET Sockets]

TypesInv ==
    /\ stage \in [Sockets -> Stages]
    /\ home \in [Sockets -> Workers \cup {0}]
    /\ key \in [Sockets -> Keys]
    /\ externalId \in [Sockets -> ExternalIds \cup {NoOne}]
    /\ byId \in [Workers -> [Keys -> Sockets \cup {NoOne}]]
    /\ byContext \in [Workers -> SUBSET Sockets]
    /\ byExternal \in [Workers -> [ExternalIds -> Entry]]
    /\ \A s \in Sockets : stage[s] # "away" => home[s] \in Workers

EntryOK(entry) ==
    /\ IsFiniteSet(entry.members)
    /\ ~entry.isSet => \A s, t \in entry.members : s = t

OpenAt(w) == {s \in Sockets : home[s] = w /\ stage[s] = "open"}

Found(w, s) ==
    /\ <<w, key[s]>> \notin spoilt => byId[w][key[s]] = s
    /\ externalId[s] # NoOne /\ <<w, externalId[s]>> \notin spoilt =>
          s \in byExternal[w][externalId[s]].members

PoolOK(w) ==
    /\ \A k \in Keys : byId[w][k] # NoOne => byId[w][k] \in byContext[w] /\ key[byId[w][k]] = k
    /\ \A x \in ExternalIds :
          /\ EntryOK(byExternal[w][x])
          /\ \A s \in byExternal[w][x].members : s \in byContext[w] /\ externalId[s] = x
    /\ byContext[w] = OpenAt(w)
    /\ \A s \in byContext[w] : Found(w, s)

PoolInv == TypesInv /\ \A w \in Workers : PoolOK(w)

-----------------------------------------------------------------------------

LEMMA PoolInvInit == ConnectionsInit => PoolInv
<1> SUFFICES ASSUME ConnectionsInit PROVE PoolInv
  OBVIOUS
<1>1. NoEntry \in Entry /\ NoEntry.members = {}
  BY DEF NoEntry, Entry
<1>2. EntryOK(NoEntry)
  BY <1>1, FS_EmptySet DEF EntryOK
<1>3. TypesInv
  BY <1>1 DEF ConnectionsInit, TypesInv, Stages
<1>4. ASSUME NEW w \in Workers PROVE PoolOK(w)
  <2>1. /\ \A k \in Keys : byId[w][k] = NoOne
        /\ \A x \in ExternalIds : byExternal[w][x] = NoEntry
        /\ byContext[w] = {} /\ \A s \in Sockets : stage[s] = "away"
    BY DEF ConnectionsInit
  <2>2. OpenAt(w) = {}
    BY <2>1 DEF OpenAt
  <2>. QED
    BY <1>1, <1>2, <2>1, <2>2 DEF PoolOK
<1>. QED
  BY <1>3, <1>4 DEF PoolInv

(* A pool whose maps and whose open connections are as they were.           *)
LEMMA PoolKept ==
    ASSUME PoolInv, NEW w \in Workers,
           byId'[w] = byId[w], byContext'[w] = byContext[w], byExternal'[w] = byExternal[w],
           spoilt \subseteq spoilt', UNCHANGED key,
           \A s \in Sockets : s \in OpenAt(w)' <=> s \in OpenAt(w),
           \A s \in OpenAt(w) : externalId'[s] = externalId[s]
    PROVE  PoolOK(w)'
<1>1. OpenAt(w)' = OpenAt(w)
  BY DEF OpenAt
<1>2. /\ PoolOK(w) /\ byContext[w] = OpenAt(w)
      /\ byId[w] \in [Keys -> Sockets \cup {NoOne}]
  BY DEF PoolInv, PoolOK, TypesInv
<1>3. \A s \in byContext[w] : externalId'[s] = externalId[s] /\ Found(w, s)
  BY <1>2 DEF PoolOK
<1>4. \A s \in byContext[w] : Found(w, s)'
  BY <1>3 DEF Found
<1>5. \A k \in Keys : byId[w][k] # NoOne => byId[w][k] \in byContext[w] /\ key[byId[w][k]] = k
  BY <1>2 DEF PoolOK
<1>6. \A x \in ExternalIds :
         /\ EntryOK(byExternal[w][x])
         /\ \A s \in byExternal[w][x].members : s \in byContext[w] /\ externalId'[s] = x
  BY <1>2, <1>3 DEF PoolOK
<1>7. \A x \in ExternalIds : EntryOK(byExternal[w][x])'
  BY <1>6 DEF EntryOK
<1>. QED
  BY <1>1, <1>2, <1>4, <1>5, <1>6, <1>7 DEF PoolOK

(* A step of a handshake that leaves the pool alone.                        *)
LEMMA HandshakeGoesOn ==
    ASSUME PoolInv, UNCHANGED <<key, poolVars>>, TypesInv',
           NEW d \in Sockets, stage[d] # "open", stage'[d] # "open",
           \A s \in Sockets \ {d} :
               stage'[s] = stage[s] /\ home'[s] = home[s] /\ externalId'[s] = externalId[s]
    PROVE  PoolInv'
<1>1. ASSUME NEW w \in Workers PROVE PoolOK(w)'
  <2>1. \A s \in Sockets : s \in OpenAt(w)' <=> s \in OpenAt(w)
    BY DEF OpenAt
  <2>2. \A s \in OpenAt(w) : externalId'[s] = externalId[s]
    BY DEF OpenAt
  <2>. QED
    BY <2>1, <2>2, PoolKept DEF poolVars
<1>. QED
  BY <1>1 DEF PoolInv

(* An entry that gets another connection.                                   *)
LEMMA EntryGrows ==
    ASSUME NEW entry \in Entry, EntryOK(entry), NEW s \in Sockets
    PROVE  /\ WithExternal(entry, s) \in Entry
           /\ EntryOK(WithExternal(entry, s))
           /\ WithExternal(entry, s).members = entry.members \cup {s}
<1> DEFINE after == WithExternal(entry, s)
<1>1. after = [isSet |-> entry.members # {}, members |-> entry.members \cup {s}]
  BY DEF WithExternal
<1>2. /\ after \in Entry /\ after.members = entry.members \cup {s}
      /\ ~after.isSet => entry.members = {}
  <2>1. CASE entry.members = {}
    <3>1. after = [isSet |-> FALSE, members |-> entry.members \cup {s}]
      BY <1>1, <2>1
    <3>. QED
      BY <2>1, <3>1 DEF Entry
  <2>2. CASE entry.members # {}
    <3>1. after = [isSet |-> TRUE, members |-> entry.members \cup {s}]
      BY <1>1, <2>2
    <3>. QED
      BY <3>1 DEF Entry
  <2>. QED
    BY <2>1, <2>2
<1>3. IsFiniteSet(after.members)
  BY <1>2, FS_AddElement DEF EntryOK
<1> HIDE DEF after
<1>4. EntryOK(after)
  BY <1>2, <1>3 DEF EntryOK
<1>. QED
  BY <1>2, <1>4 DEF after

(* An entry that s leaves: whoever stays was there, and if s was there all  *)
(* others stay.                                                             *)
LEMMA EntryShrinks ==
    ASSUME NEW entry \in Entry, EntryOK(entry), NEW s
    PROVE  /\ WithoutExternal(entry, s) \in Entry
           /\ EntryOK(WithoutExternal(entry, s))
           /\ WithoutExternal(entry, s).members \subseteq entry.members
           /\ s \notin WithoutExternal(entry, s).members
              \/ WithoutExternal(entry, s).members = {}
           /\ s \in entry.members =>
                 WithoutExternal(entry, s).members = entry.members \ {s}
<1> DEFINE after == WithoutExternal(entry, s)
<1>1. CASE ~entry.isSet \/ Cardinality(entry.members) = 1
  <2>1. after = NoEntry
    BY <1>1 DEF WithoutExternal
  <2>2. after \in Entry /\ after.members = {}
    BY <2>1 DEF NoEntry, Entry
  <2>3. EntryOK(after)
    BY <2>2, FS_EmptySet DEF EntryOK
  <2>4. ASSUME s \in entry.members PROVE entry.members \subseteq {s}
    <3>1. CASE ~entry.isSet
      BY <2>4, <3>1 DEF EntryOK
    <3>2. CASE Cardinality(entry.members) = 1
      <4>1. PICK t : entry.members = {t}
        BY <3>2, FS_Singleton DEF EntryOK
      <4>. QED
        BY <2>4, <4>1
    <3>. QED
      BY <1>1, <3>1, <3>2
  <2>. QED
    BY <2>2, <2>3, <2>4
<1>2. CASE ~(~entry.isSet \/ Cardinality(entry.members) = 1)
  <2>1. after = [entry EXCEPT !.members = entry.members \ {s}]
    BY <1>2 DEF WithoutExternal
  <2>2. after \in Entry /\ after.members = entry.members \ {s} /\ after.isSet
    BY <1>2, <2>1 DEF Entry
  <2>3. EntryOK(after)
    BY <2>2, FS_RemoveElement DEF EntryOK
  <2>. QED
    BY <2>2, <2>3
<1>. QED
  BY <1>1, <1>2

-----------------------------------------------------------------------------

LEMMA RegisterStep ==
    ASSUME PoolInv, NEW d \in Sockets, stage[d] = "authorized",
           registerConnection(d, home[d], externalId[d]),
           UNCHANGED <<home, key, externalId>>
    PROVE  PoolInv'
<1> DEFINE h == home[d]
           k == key[d]
           x == externalId[d]
<1>1. h \in Workers /\ k \in Keys /\ x \in ExternalIds \cup {NoOne}
  BY DEF PoolInv, TypesInv
<1>2. CASE byId[h][k] # NoOne
  <2>1. stage' = [stage EXCEPT ![d] = "shadow"] /\ UNCHANGED poolVars
    BY <1>2 DEF registerConnection
  <2>2. /\ \A s \in Sockets \ {d} : stage'[s] = stage[s]
        /\ stage'[d] = "shadow" /\ stage' \in [Sockets -> Stages]
    BY <2>1 DEF PoolInv, TypesInv, Stages
  <2>3. TypesInv'
    BY <1>1, <2>1, <2>2 DEF PoolInv, TypesInv, poolVars
  <2>. QED
    BY <2>1, <2>2, <2>3, HandshakeGoesOn
<1>3. CASE byId[h][k] = NoOne
  <2>1. /\ stage' = [stage EXCEPT ![d] = "open"]
        /\ byId' = [byId EXCEPT ![h][k] = d]
        /\ byContext' = [byContext EXCEPT ![h] = byContext[h] \cup {d}]
        /\ byExternal' = IF x = NoOne THEN byExternal
                         ELSE [byExternal EXCEPT ![h][x] = WithExternal(byExternal[h][x], d)]
        /\ UNCHANGED spoilt
    BY <1>3, <1>1 DEF registerConnection, PoolInv, TypesInv
  <2>2. /\ stage' \in [Sockets -> Stages] /\ stage'[d] = "open"
        /\ \A s \in Sockets \ {d} : stage'[s] = stage[s]
    BY <2>1 DEF PoolInv, TypesInv, Stages
  <2>3. /\ byId' \in [Workers -> [Keys -> Sockets \cup {NoOne}]]
        /\ \A w \in Workers \ {h} : byId'[w] = byId[w]
        /\ \A i \in Keys : byId'[h][i] = IF i = k THEN d ELSE byId[h][i]
    BY <1>1, <2>1 DEF PoolInv, TypesInv
  <2>4. /\ byContext' \in [Workers -> SUBSET Sockets]
        /\ \A w \in Workers \ {h} : byContext'[w] = byContext[w]
        /\ byContext'[h] = byContext[h] \cup {d}
    BY <1>1, <2>1 DEF PoolInv, TypesInv
  <2>5. /\ byExternal' \in [Workers -> [ExternalIds -> Entry]]
        /\ \A w \in Workers \ {h} : byExternal'[w] = byExternal[w]
        /\ \A y \in ExternalIds :
              /\ EntryOK(byExternal'[h][y])
              /\ byExternal'[h][y].members =
                    IF y = x THEN byExternal[h][y].members \cup {d}
                             ELSE byExternal[h][y].members
    <3>1. byExternal \in [Workers -> [ExternalIds -> Entry]]
      BY DEF PoolInv, TypesInv
    <3>2. \A y \in ExternalIds : byExternal[h][y] \in Entry /\ EntryOK(byExternal[h][y])
      BY <1>1, <3>1 DEF PoolInv, PoolOK
    <3>3. CASE x = NoOne
      BY <1>1, <2>1, <3>1, <3>2, <3>3, ConnectionsAssumption
    <3>4. CASE x # NoOne
      <4> DEFINE after == WithExternal(byExternal[h][x], d)
      <4>1. x \in ExternalIds
        BY <1>1, <3>4
      <4>2. after \in Entry /\ EntryOK(after) /\ after.members = byExternal[h][x].members \cup {d}
        BY <3>2, <4>1, EntryGrows
      <4>3. byExternal' = [byExternal EXCEPT ![h][x] = after]
        BY <2>1, <3>4
      <4> HIDE DEF after
      <4>4. /\ byExternal' \in [Workers -> [ExternalIds -> Entry]]
            /\ \A w \in Workers \ {h} : byExternal'[w] = byExternal[w]
            /\ \A y \in ExternalIds :
                  byExternal'[h][y] = IF y = x THEN after ELSE byExternal[h][y]
        BY <1>1, <3>1, <4>1, <4>2, <4>3
      <4>. QED
        BY <3>2, <4>2, <4>4
    <3>. QED
      BY <3>3, <3>4
  <2>6. TypesInv'
    BY <1>1, <2>2, <2>3, <2>4, <2>5 DEF PoolInv, TypesInv
  <2>7. PoolOK(h)'
    <3>1. /\ PoolOK(h) /\ NoOne \notin Sockets /\ d # NoOne
          /\ byContext[h] = OpenAt(h) /\ d \notin byContext[h]
          /\ byContext[h] \subseteq Sockets
      <4>1. PoolOK(h) /\ byContext[h] = OpenAt(h)
        BY <1>1 DEF PoolInv, PoolOK
      <4>2. NoOne \notin Sockets /\ d # NoOne
        BY ConnectionsAssumption
      <4>. QED
        BY <4>1, <4>2 DEF OpenAt
    <3>2. \A i \in Keys : byId'[h][i] # NoOne =>
             byId'[h][i] \in byContext'[h] /\ key[byId'[h][i]] = i
      BY <2>3, <2>4, <3>1 DEF PoolOK
    <3>3. ASSUME NEW y \in ExternalIds, NEW s \in byExternal'[h][y].members
          PROVE  s \in byContext'[h] /\ externalId[s] = y
      <4>1. CASE s \in byExternal[h][y].members
        BY <2>4, <3>1, <4>1 DEF PoolOK
      <4>2. CASE y = x /\ s = d
        BY <2>4, <4>2
      <4>. QED
        BY <2>5, <4>1, <4>2
    <3>4. byContext'[h] = OpenAt(h)'
      BY <1>1, <2>2, <2>4, <3>1 DEF OpenAt
    <3>5. ASSUME NEW s \in byContext'[h], <<h, key[s]>> \notin spoilt
          PROVE  byId'[h][key[s]] = s
      <4>1. CASE s = d
        BY <1>1, <2>3, <4>1
      <4>2. CASE s # d
        <5>1. s \in byContext[h] /\ key[s] \in Keys
          BY <2>4, <3>1, <4>2 DEF PoolInv, TypesInv
        <5>2. byId[h][key[s]] = s
          BY <3>1, <3>5, <5>1 DEF PoolOK, Found
        <5>. QED
          BY <1>3, <2>3, <3>1, <5>1, <5>2
      <4>. QED
        BY <4>1, <4>2
    <3>6. ASSUME NEW s \in byContext'[h], externalId[s] # NoOne,
                 <<h, externalId[s]>> \notin spoilt
          PROVE  s \in byExternal'[h][externalId[s]].members
      <4>1. externalId[s] \in ExternalIds
        BY <2>4, <3>1, <3>6 DEF PoolInv, TypesInv
      <4>2. CASE s = d
        BY <2>5, <4>1, <4>2
      <4>3. CASE s # d
        <5>1. s \in byContext[h]
          BY <2>4, <4>3
        <5>2. s \in byExternal[h][externalId[s]].members
          BY <3>1, <3>6, <5>1 DEF PoolOK, Found
        <5>. QED
          BY <2>5, <4>1, <5>2
      <4>. QED
        BY <4>2, <4>3
    <3>7. \A s \in byContext'[h] : Found(h, s)'
      BY <2>1, <3>5, <3>6 DEF Found
    <3>8. \A y \in ExternalIds : EntryOK(byExternal[h][y])'
      BY <2>5 DEF EntryOK
    <3>. QED
      BY <3>2, <3>3, <3>4, <3>7, <3>8 DEF PoolOK
  <2>8. ASSUME NEW w \in Workers, w # h PROVE PoolOK(w)'
    <3>1. \A s \in Sockets : s \in OpenAt(w)' <=> s \in OpenAt(w)
      BY <2>2, <2>8 DEF OpenAt
    <3>. QED
      BY <2>1, <2>3, <2>4, <2>5, <2>8, <3>1, PoolKept
  <2>. QED
    BY <2>6, <2>7, <2>8 DEF PoolInv
<1>. QED
  BY <1>2, <1>3

LEMMA HandshakeStep ==
    ASSUME PoolInv, NEW d \in Sockets, Handshake(d)
    PROVE  PoolInv'
<1>1. /\ stage \in [Sockets -> Stages]
      /\ \A s \in Sockets : stage[s] # "away" => home[s] \in Workers
      /\ home \in [Sockets -> Workers \cup {0}]
      /\ externalId \in [Sockets -> ExternalIds \cup {NoOne}]
  BY DEF PoolInv, TypesInv
<1>2. ASSUME UNCHANGED <<key, poolVars>>, UNCHANGED <<home, externalId>>, stage[d] # "open",
             stage[d] # "away",
             NEW after \in Stages \ {"open"}, stage' = [stage EXCEPT ![d] = after]
      PROVE  PoolInv'
  <2>1. /\ stage' \in [Sockets -> Stages] /\ stage'[d] = after
        /\ \A s \in Sockets \ {d} : stage'[s] = stage[s]
    BY <1>1, <1>2
  <2>2. TypesInv'
    BY <1>1, <1>2, <2>1 DEF PoolInv, TypesInv, poolVars
  <2>. QED
    BY <1>2, <2>1, <2>2, HandshakeGoesOn
<1>3. ASSUME NEW w \in Workers, ValidateConnectionHeaders(d, w) PROVE PoolInv'
  <2>1. /\ stage[d] = "away" /\ home' = [home EXCEPT ![d] = w]
        /\ UNCHANGED <<key, externalId, poolVars>>
        /\ \E after \in {"lookup", "refused"} : stage' = [stage EXCEPT ![d] = after]
    BY <1>3 DEF ValidateConnectionHeaders
  <2>2. /\ stage' \in [Sockets -> Stages] /\ stage'[d] # "open"
        /\ home' \in [Sockets -> Workers \cup {0}] /\ home'[d] = w
        /\ \A s \in Sockets \ {d} : stage'[s] = stage[s] /\ home'[s] = home[s]
    BY <1>1, <2>1 DEF Stages
  <2>3. TypesInv'
    BY <1>1, <2>1, <2>2 DEF PoolInv, TypesInv, poolVars
  <2>. QED
    BY <2>1, <2>2, <2>3, HandshakeGoesOn
<1>4. CASE AuthorizeConnectionContext(d)
  <2>1. /\ stage[d] = "lookup" /\ UNCHANGED <<home, key, externalId, poolVars>>
        /\ \E after \in Stages \ {"open"} : stage' = [stage EXCEPT ![d] = after]
    BY <1>4 DEF AuthorizeConnectionContext, Refused, Stages
  <2>. QED
    BY <1>2, <2>1
<1>5. CASE validateWithExternalApi(d)
  <2>1. stage[d] = "counted" /\ UNCHANGED <<home, key, poolVars>>
    BY <1>5 DEF validateWithExternalApi
  <2>2. ASSUME NEW x \in ExternalIds \cup {NoOne}, externalId' = [externalId EXCEPT ![d] = x],
               stage' = [stage EXCEPT ![d] = "authorized"]
        PROVE  PoolInv'
    <3>1. /\ stage' \in [Sockets -> Stages] /\ stage'[d] = "authorized"
          /\ externalId' \in [Sockets -> ExternalIds \cup {NoOne}]
          /\ \A s \in Sockets \ {d} : stage'[s] = stage[s] /\ externalId'[s] = externalId[s]
      BY <1>1, <2>2 DEF Stages
    <3>2. TypesInv'
      BY <1>1, <2>1, <3>1 DEF PoolInv, TypesInv, poolVars
    <3>. QED
      BY <2>1, <3>1, <3>2, HandshakeGoesOn
  <2>3. ASSUME UNCHANGED externalId, NEW after \in {"refused", "stuck"},
               stage' = [stage EXCEPT ![d] = after]
        PROVE  PoolInv'
    BY <1>2, <2>1, <2>3 DEF Stages
  <2>. QED
    BY <1>5, <2>2, <2>3 DEF validateWithExternalApi, Refused
<1>6. CASE PrepareWebsocketExtensions(d)
  <2>1. stage[d] = "authorized" /\ UNCHANGED <<home, key, externalId>>
    BY <1>6 DEF PrepareWebsocketExtensions
  <2>2. CASE Refused(d) /\ UNCHANGED poolVars
    BY <1>2, <2>1, <2>2 DEF Refused, Stages
  <2>3. CASE registerConnection(d, home[d], externalId[d])
    BY <2>1, <2>3, RegisterStep
  <2>. QED
    BY <1>6, <2>2, <2>3 DEF PrepareWebsocketExtensions, RespondToHandshake
<1>. QED
  BY <1>3, <1>4, <1>5, <1>6 DEF Handshake

-----------------------------------------------------------------------------
(* The end of a connection that is registered, or of a refused duplicate.   *)

LEMMA CloseStep ==
    ASSUME PoolInv, NEW d \in Sockets, CloseConnection(d)
    PROVE  PoolInv'
<1> DEFINE h == home[d]
           k == key[d]
           x == externalId[d]
           touched == byContext[h] # {} /\ x # NoOne
<1>1. /\ stage[d] \in {"open", "shadow"} /\ UNCHANGED <<home, key, externalId>>
      /\ stage' = [stage EXCEPT ![d] = "closed"]
      /\ byId' = [byId EXCEPT ![h][k] = NoOne]
      /\ byContext' = [byContext EXCEPT ![h] = byContext[h] \ {d}]
      /\ byExternal' = IF ~touched THEN byExternal
                       ELSE [byExternal EXCEPT ![h][x] = WithoutExternal(byExternal[h][x], d)]
      /\ spoilt' = IF stage[d] = "shadow" THEN spoilt \cup {<<h, k>>, <<h, x>>} ELSE spoilt
  <2>1. h \in Workers
    BY DEF CloseConnection, PoolInv, TypesInv
  <2>. QED
    BY <2>1 DEF CloseConnection, removeConnection, PoolInv, TypesInv
<1>2. /\ h \in Workers /\ k \in Keys /\ x \in ExternalIds \cup {NoOne}
      /\ \A s \in Sockets : key[s] \in Keys /\ externalId[s] \in ExternalIds \cup {NoOne}
  BY <1>1 DEF PoolInv, TypesInv
<1>3. /\ stage' \in [Sockets -> Stages] /\ stage'[d] = "closed"
      /\ \A s \in Sockets \ {d} : stage'[s] = stage[s]
  BY <1>1 DEF PoolInv, TypesInv, Stages
<1>4. /\ byId' \in [Workers -> [Keys -> Sockets \cup {NoOne}]]
      /\ \A w \in Workers \ {h} : byId'[w] = byId[w]
      /\ \A i \in Keys : byId'[h][i] = IF i = k THEN NoOne ELSE byId[h][i]
  BY <1>1, <1>2 DEF PoolInv, TypesInv
<1>5. /\ byContext' \in [Workers -> SUBSET Sockets]
      /\ \A w \in Workers \ {h} : byContext'[w] = byContext[w]
      /\ byContext'[h] = byContext[h] \ {d}
  BY <1>1, <1>2 DEF PoolInv, TypesInv
<1>6. /\ PoolOK(h) /\ byContext[h] = OpenAt(h) /\ byContext[h] \subseteq Sockets
      /\ d \in byContext[h] <=> stage[d] = "open"
  <2>1. PoolOK(h) /\ byContext[h] = OpenAt(h)
    BY <1>2 DEF PoolInv, PoolOK
  <2>. QED
    BY <2>1 DEF OpenAt
<1>7. /\ byExternal' \in [Workers -> [ExternalIds -> Entry]]
      /\ \A w \in Workers \ {h} : byExternal'[w] = byExternal[w]
      /\ \A y \in ExternalIds :
            /\ EntryOK(byExternal'[h][y])
            /\ byExternal'[h][y].members \subseteq byExternal[h][y].members
            /\ y # x => byExternal'[h][y].members = byExternal[h][y].members
            /\ d \notin byExternal'[h][y].members
            /\ d \in byExternal[h][y].members =>
                  byExternal'[h][y].members = byExternal[h][y].members \ {d}
  <2>1. byExternal \in [Workers -> [ExternalIds -> Entry]]
    BY DEF PoolInv, TypesInv
  <2>2. ASSUME NEW y \in ExternalIds
        PROVE  /\ byExternal[h][y] \in Entry /\ EntryOK(byExternal[h][y])
               /\ d \in byExternal[h][y].members => y = x /\ touched
    <3>1. \A s \in byExternal[h][y].members : s \in byContext[h] /\ externalId[s] = y
      BY <1>6 DEF PoolOK
    <3>2. y # NoOne
      BY ConnectionsAssumption
    <3>3. byExternal[h][y] \in Entry /\ EntryOK(byExternal[h][y])
      BY <1>2, <1>6, <2>1 DEF PoolOK
    <3>. QED
      BY <3>1, <3>2, <3>3
  <2>3. CASE ~touched
    BY <1>1, <2>1, <2>2, <2>3
  <2>4. CASE touched
    <3> DEFINE after == WithoutExternal(byExternal[h][x], d)
    <3>1. x \in ExternalIds
      BY <1>2, <2>4
    <3>2. /\ after \in Entry /\ EntryOK(after)
          /\ after.members \subseteq byExternal[h][x].members
          /\ d \notin after.members
          /\ d \in byExternal[h][x].members => after.members = byExternal[h][x].members \ {d}
      BY <2>2, <3>1, EntryShrinks
    <3>3. byExternal' = [byExternal EXCEPT ![h][x] = after]
      BY <1>1, <2>4
    <3> HIDE DEF after
    <3>4. /\ byExternal' \in [Workers -> [ExternalIds -> Entry]]
          /\ \A w \in Workers \ {h} : byExternal'[w] = byExternal[w]
          /\ \A y \in ExternalIds :
                byExternal'[h][y] = IF y = x THEN after ELSE byExternal[h][y]
      BY <1>2, <2>1, <3>1, <3>2, <3>3
    <3>. QED
      BY <2>2, <3>2, <3>4
  <2>. QED
    BY <2>3, <2>4
<1>8. TypesInv'
  BY <1>1, <1>3, <1>4, <1>5, <1>7 DEF PoolInv, TypesInv
<1>9. spoilt \subseteq spoilt' /\ (stage[d] = "shadow" => <<h, k>> \in spoilt' /\ <<h, x>> \in spoilt')
  BY <1>1
<1> HIDE DEF touched
<1>0. UNCHANGED <<home, key, externalId>>
  BY <1>1
<1>10. PoolOK(h)'
  <2>1. ASSUME NEW i \in Keys, byId'[h][i] # NoOne
        PROVE  byId'[h][i] \in byContext'[h] /\ key[byId'[h][i]] = i
    <3>1. i # k /\ byId'[h][i] = byId[h][i]
      BY <1>4, <2>1
    <3>2. byId[h][i] \in byContext[h] /\ key[byId[h][i]] = i
      BY <1>6, <2>1, <3>1 DEF PoolOK
    <3>. QED
      BY <1>5, <3>1, <3>2
  <2>2. ASSUME NEW y \in ExternalIds, NEW s \in byExternal'[h][y].members
        PROVE  s \in byContext'[h] /\ externalId[s] = y
    <3>1. s \in byExternal[h][y].members /\ s # d
      BY <1>7, <2>2
    <3>2. s \in byContext[h] /\ externalId[s] = y
      BY <1>6, <3>1 DEF PoolOK
    <3>. QED
      BY <1>5, <3>1, <3>2
  <2>3. byContext'[h] = OpenAt(h)'
    BY <1>1, <1>3, <1>5, <1>6 DEF OpenAt
  <2>4. ASSUME NEW s \in byContext'[h] PROVE Found(h, s)'
    <3>1. s \in byContext[h] /\ s # d /\ s \in Sockets /\ Found(h, s)
      BY <1>5, <1>6 DEF PoolOK
    <3>2. ASSUME <<h, key[s]>> \notin spoilt' PROVE byId'[h][key[s]] = s
      <4>1. byId[h][key[s]] = s
        BY <1>9, <3>1, <3>2 DEF Found
      <4>2. key[s] # k
        <5>1. SUFFICES ASSUME key[s] = k PROVE FALSE
          OBVIOUS
        <5>2. stage[d] = "open"
          BY <1>1, <1>9, <3>2, <5>1
        <5>3. Found(h, d) /\ <<h, key[d]>> \notin spoilt
          BY <1>6, <1>9, <3>2, <5>1, <5>2 DEF PoolOK
        <5>. QED
          BY <3>1, <4>1, <5>1, <5>3 DEF Found
      <4>. QED
        BY <1>2, <1>4, <3>1, <4>1, <4>2
    <3>3. ASSUME externalId[s] # NoOne, <<h, externalId[s]>> \notin spoilt'
          PROVE  s \in byExternal'[h][externalId[s]].members
      <4>1. externalId[s] \in ExternalIds
        BY <1>2, <3>1, <3>3
      <4>2. s \in byExternal[h][externalId[s]].members
        BY <1>9, <3>1, <3>3 DEF Found
      <4>3. CASE externalId[s] # x
        BY <1>7, <4>1, <4>2, <4>3
      <4>4. CASE externalId[s] = x
        <5>1. stage[d] = "open"
          BY <1>1, <1>9, <3>3, <4>4
        <5>2. Found(h, d) /\ x # NoOne /\ <<h, x>> \notin spoilt
          BY <1>6, <1>9, <3>3, <4>4, <5>1 DEF PoolOK
        <5>3. d \in byExternal[h][x].members
          BY <5>2 DEF Found
        <5>. QED
          BY <1>7, <3>1, <4>1, <4>2, <4>4, <5>3
      <4>. QED
        BY <4>3, <4>4
    <3>4. home'[d] = home[d] /\ key'[s] = key[s] /\ externalId'[s] = externalId[s]
      BY <1>0
    <3>5. <<h, key'[s]>> \notin spoilt' => byId'[h][key'[s]] = s
      BY <3>2, <3>4
    <3>6. externalId'[s] # NoOne /\ <<h, externalId'[s]>> \notin spoilt' =>
             s \in byExternal'[h][externalId'[s]].members
      BY <3>3, <3>4
    <3>. QED
      BY <3>4, <3>5, <3>6 DEF Found
  <2>5. \A y \in ExternalIds : EntryOK(byExternal[h][y])'
    BY <1>0, <1>7 DEF EntryOK
  <2>. QED
    BY <1>0, <2>1, <2>2, <2>3, <2>4, <2>5 DEF PoolOK
<1>11. ASSUME NEW w \in Workers, w # h PROVE PoolOK(w)'
  <2>1. \A s \in Sockets : s \in OpenAt(w)' <=> s \in OpenAt(w)
    BY <1>1, <1>3, <1>11 DEF OpenAt
  <2>2. \A s \in OpenAt(w) : externalId'[s] = externalId[s]
    BY <1>0
  <2>3. byId'[w] = byId[w] /\ byContext'[w] = byContext[w] /\ byExternal'[w] = byExternal[w]
    BY <1>4, <1>5, <1>7, <1>11
  <2>4. spoilt \subseteq spoilt' /\ UNCHANGED key
    BY <1>9, <1>0
  <2>. QED
    BY <1>11, <2>1, <2>2, <2>3, <2>4, PoolKept
<1>. QED
  BY <1>0, <1>8, <1>10, <1>11 DEF PoolInv

LEMMA DeathStep ==
    ASSUME PoolInv, NEW d \in Workers, WorkerDies(d)
    PROVE  PoolInv'
<1>1. /\ stage' = [s \in Sockets |-> IF home[s] = d THEN "closed" ELSE stage[s]]
      /\ byId' = [byId EXCEPT ![d] = [k \in Keys |-> NoOne]]
      /\ byContext' = [byContext EXCEPT ![d] = {}]
      /\ byExternal' = [byExternal EXCEPT ![d] = [x \in ExternalIds |-> NoEntry]]
      /\ UNCHANGED <<home, key, externalId, spoilt>>
  BY DEF WorkerDies
<1>2. NoEntry \in Entry /\ NoEntry.members = {}
  BY DEF NoEntry, Entry
<1>3. EntryOK(NoEntry)
  BY <1>2, FS_EmptySet DEF EntryOK
<1>4. TypesInv'
  BY <1>1, <1>2 DEF PoolInv, TypesInv, Stages
<1>5. PoolOK(d)'
  <2>1. /\ \A k \in Keys : byId'[d][k] = NoOne
        /\ \A x \in ExternalIds : byExternal'[d][x] = NoEntry
        /\ byContext'[d] = {}
    BY <1>1 DEF PoolInv, TypesInv
  <2>2. OpenAt(d)' = {}
    BY <1>1 DEF OpenAt
  <2>3. \A x \in ExternalIds : EntryOK(byExternal[d][x])'
    BY <1>3, <2>1 DEF EntryOK
  <2>. QED
    BY <1>2, <2>1, <2>2, <2>3 DEF PoolOK
<1>6. ASSUME NEW w \in Workers, w # d PROVE PoolOK(w)'
  <2>1. byId'[w] = byId[w] /\ byContext'[w] = byContext[w] /\ byExternal'[w] = byExternal[w]
    BY <1>1, <1>6 DEF PoolInv, TypesInv
  <2>2. \A s \in Sockets : s \in OpenAt(w)' <=> s \in OpenAt(w)
    BY <1>1, <1>6 DEF OpenAt
  <2>. QED
    BY <1>1, <2>1, <2>2, PoolKept
<1>. QED
  BY <1>4, <1>5, <1>6 DEF PoolInv

-----------------------------------------------------------------------------

LEMMA QuietStep ==
    ASSUME PoolInv, UNCHANGED <<stage, home, key, externalId, poolVars>>
    PROVE  PoolInv'
<1>1. TypesInv'
  BY DEF PoolInv, TypesInv, poolVars
<1>2. ASSUME NEW w \in Workers PROVE PoolOK(w)'
  BY PoolKept DEF OpenAt, poolVars
<1>. QED
  BY <1>1, <1>2 DEF PoolInv

(* A request to drop a connection that has been found.                      *)
LEMMA DropStep ==
    ASSUME PoolInv, NEW kind, NEW w \in Workers, NEW k \in Keys,
           Drops(kind, getConnectionById(w, k))
    PROVE  PoolInv'
<1> DEFINE s == getConnectionById(w, k)
<1>1. s \in Sockets \cup {NoOne}
  BY DEF getConnectionById, PoolInv, TypesInv
<1> HIDE DEF s
<1>2. CASE UNCHANGED <<handshakeVars, poolVars>>
  BY <1>2, QuietStep DEF handshakeVars
<1>3. CASE s # NoOne /\ CloseConnection(s)
  BY <1>1, <1>3, CloseStep
<1>. QED
  BY <1>2, <1>3 DEF Drops, s

(* Messages are about requests that have been made, so the id they are      *)
(* about is a key.                                                          *)
Mail == {m \in [of : Requests, says : {"asked", "found", "missing"}] : request[m.of].id \in Keys}

RequestType ==
    [kind : {"status", "drop"}, id : Keys \cup {NoOne}, at : Workers \cup {0},
     state : {"none", "waiting", "found", "missing", "failed"}]

MailInv ==
    /\ request \in [Requests -> RequestType]
    /\ up \in [Workers -> Seq(Mail)]
    /\ down \in [Workers -> Seq(Mail)]

LEMMA MailGrows ==
    ASSUME MailInv, \A r \in Requests : request[r].id \in Keys => request'[r].id \in Keys
    PROVE  \A queue \in Seq(Mail) : queue \in Seq(Mail')
<1>1. Mail \subseteq Mail'
  BY DEF Mail
<1>. QED
  BY <1>1, SeqMonotonic

LEMMA Posted ==
    ASSUME NEW M, NEW box \in [Workers -> Seq(M)], NEW m \in M, NEW w
    PROVE  [box EXCEPT ![w] = Append(@, m)] \in [Workers -> Seq(M)]
<1>1. w \in Workers => Append(box[w], m) \in Seq(M)
  BY AppendProperties
<1>. QED
  BY <1>1

LEMMA Taken ==
    ASSUME NEW M, NEW box \in [Workers -> Seq(M)], NEW w \in Workers, box[w] # <<>>
    PROVE  Head(box[w]) \in M /\ [box EXCEPT ![w] = Tail(@)] \in [Workers -> Seq(M)]
<1>1. Head(box[w]) \in M /\ Tail(box[w]) \in Seq(M)
  BY HeadTailProperties
<1>. QED
  BY <1>1

LEMMA MailInvInit == ConnectionApiInit => MailInv
<1> SUFFICES ASSUME ConnectionApiInit PROVE MailInv
  OBVIOUS
<1>1. <<>> \in Seq(Mail)
  BY EmptySeq
<1>. QED
  BY <1>1 DEF ConnectionApiInit, MailInv, RequestType

(* The messages stay what they are while the ids of the requests do.        *)
LEMMA MailKept ==
    ASSUME MailInv, UNCHANGED <<up, down>>, \A r \in Requests : request'[r].id = request[r].id,
           request' \in [Requests -> RequestType]
    PROVE  MailInv'
<1>1. Mail' = Mail
  BY DEF Mail
<1>. QED
  BY <1>1 DEF MailInv

LEMMA PollStep ==
    ASSUME MailInv, NEW r \in Requests, NEW origin, NEW todo, NEW m \in Mail,
           Poll(r, origin, todo, m) \/ Winner(r, origin, m), m.of = r
    PROVE  down' \in [Workers -> Seq(Mail)]
<1>1. Message(r, "missing") \in Mail
  BY DEF Message, Mail
<1>2. ASSUME NEW w, NEW n \in Mail, down' = [down EXCEPT ![w] = Append(@, n)]
      PROVE  down' \in [Workers -> Seq(Mail)]
  BY <1>2, Posted DEF MailInv
<1>. QED
  BY <1>1, <1>2 DEF Poll, Winner, MailInv

LEMMA MailInvStep ==
    MailInv /\ [ConnectionApiNext]_<<connectionVars, apiVars>> => MailInv'
<1> SUFFICES ASSUME MailInv, [ConnectionApiNext]_<<connectionVars, apiVars>> PROVE MailInv'
  OBVIOUS
<1>0. /\ request \in [Requests -> RequestType]
      /\ up \in [Workers -> Seq(Mail)] /\ down \in [Workers -> Seq(Mail)]
  BY DEF MailInv
<1>1. CASE UNCHANGED <<request, up, down>>
  BY <1>0, <1>1, MailKept
<1>2. ASSUME NEW r \in Requests, OriginTimeout(r) PROVE MailInv'
  <2>1. /\ UNCHANGED <<up, down>> /\ request' = [request EXCEPT ![r].state = "failed"]
    BY <1>2 DEF OriginTimeout
  <2>2. /\ request' \in [Requests -> RequestType]
        /\ \A q \in Requests : request'[q].id = request[q].id
    BY <1>0, <2>1, ZenonT(30) DEF RequestType
  <2>. QED
    BY <2>1, <2>2, MailKept
<1>3. ASSUME NEW r \in Requests, NEW w \in Workers, NEW kind \in {"status", "drop"},
             NEW k \in Keys, Ask(r, w, kind, k)
      PROVE  MailInv'
  <2>1. PICK state \in {"found", "waiting"} :
            request' = [request EXCEPT ![r] = [kind |-> kind, id |-> k, at |-> w, state |-> state]]
    BY <1>3 DEF Ask
  <2>2. /\ request' \in [Requests -> RequestType] /\ request'[r].id \in Keys
        /\ \A q \in Requests : request[q].id \in Keys => request'[q].id \in Keys
    BY <1>0, <2>1 DEF RequestType
  <2>3. \A queue \in Seq(Mail) : queue \in Seq(Mail')
    BY <2>2, MailGrows
  <2>4. up \in [Workers -> Seq(Mail')] /\ down \in [Workers -> Seq(Mail')]
    BY <1>0, <2>3
  <2>5. Message(r, "asked") \in Mail'
    BY <2>2 DEF Message, Mail
  <2> HIDE DEF Mail
  <2>6. UNCHANGED down /\ (UNCHANGED up \/ up' = [up EXCEPT ![w] = Append(@, Message(r, "asked"))])
    BY <1>3 DEF Ask
  <2> DEFINE after == Mail'
  <2>7. [up EXCEPT ![w] = Append(@, Message(r, "asked"))] \in [Workers -> Seq(after)]
    <3> HIDE DEF after
    <3>1. Message(r, "asked") \in after /\ up \in [Workers -> Seq(after)]
      BY <2>4, <2>5 DEF after
    <3>. QED
      BY <3>1, Posted
  <2>8. up' \in [Workers -> Seq(Mail')]
    BY <2>4, <2>6, <2>7
  <2>. QED
    BY <2>2, <2>4, <2>6, <2>8 DEF MailInv
<1>4. ASSUME NEW w \in Workers, MasterReceives(w) PROVE MailInv'
  <2> DEFINE m == Head(up[w])
             r == m.of
  <2>1. up[w] # <<>> /\ up' = [up EXCEPT ![w] = Tail(@)] /\ UNCHANGED request
    BY <1>4 DEF MasterReceives
  <2>2. m \in Mail /\ up' \in [Workers -> Seq(Mail)]
    BY <1>0, <2>1, Taken
  <2>3. /\ r \in Requests /\ Message(r, "asked") \in Mail
        /\ Message(r, "asked").of = r
    BY <2>2 DEF Mail, Message
  <2>4. \/ /\ task[r].asks = w
              /\ \/ Winner(r, task[r].origin, m)
                 \/ Poll(r, task[r].origin, task[r].todo, Message(r, "asked"))
        \/ Poll(r, w, Others(w), m)
        \/ UNCHANGED down
    BY <1>4 DEF MasterReceives
  <2> DEFINE question == Message(r, "asked")
  <2>5. m \in Mail /\ m.of = r /\ r \in Requests /\ question \in Mail /\ question.of = r
    BY <2>2, <2>3
  <2> HIDE DEF question, m, r
  <2>6. down' \in [Workers -> Seq(Mail)]
    <3>1. CASE Winner(r, task[r].origin, m)
      BY <2>5, <3>1, PollStep
    <3>2. CASE Poll(r, task[r].origin, task[r].todo, question)
      BY <2>5, <3>2, PollStep
    <3>3. CASE Poll(r, w, Others(w), m)
      BY <2>5, <3>3, PollStep
    <3>. QED
      BY <1>0, <2>4, <3>1, <3>2, <3>3 DEF question
  <2>7. Mail' = Mail
    BY <2>1 DEF Mail
  <2>. QED
    BY <1>0, <2>1, <2>2, <2>6, <2>7 DEF MailInv
<1>5. ASSUME NEW w \in Workers, WorkerReceives(w) PROVE MailInv'
  <2> DEFINE m == Head(down[w])
  <2>1. down[w] # <<>> /\ down' = [down EXCEPT ![w] = Tail(@)]
    BY <1>5 DEF WorkerReceives
  <2>2. m \in Mail /\ down' \in [Workers -> Seq(Mail)]
    BY <1>0, <2>1, Taken
  <2>3. m.of \in Requests /\ Message(m.of, "found") \in Mail
    BY <2>2 DEF Mail, Message
  <2>4. \/ UNCHANGED up
        \/ \E n \in {m, Message(m.of, "found")} : up' = [up EXCEPT ![w] = Append(@, n)]
    BY <1>5 DEF WorkerReceives
  <2>5. up' \in [Workers -> Seq(Mail)]
    <3>1. ASSUME NEW n \in Mail, up' = [up EXCEPT ![w] = Append(@, n)]
          PROVE  up' \in [Workers -> Seq(Mail)]
      BY <1>0, <3>1, Posted
    <3>. QED
      BY <1>0, <2>2, <2>3, <2>4, <3>1
  <2>6. \/ UNCHANGED request
        \/ \E state \in {"found", "missing"} :
              request' = [request EXCEPT ![m.of].state = state]
    BY <1>5 DEF WorkerReceives
  <2> DEFINE r == m.of
  <2>0. r \in Requests
    BY <2>3
  <2> HIDE DEF r
  <2>7. /\ request' \in [Requests -> RequestType]
        /\ \A q \in Requests : request'[q].id = request[q].id
    <3>1. CASE UNCHANGED request
      BY <1>0, <3>1
    <3>2. ASSUME NEW state \in {"found", "missing"}, request' = [request EXCEPT ![r].state = state]
          PROVE  /\ request' \in [Requests -> RequestType]
                 /\ \A q \in Requests : request'[q].id = request[q].id
      BY <1>0, <2>0, <3>2, ZenonT(30) DEF RequestType
    <3>. QED
      BY <2>6, <3>1, <3>2 DEF r
  <2>8. Mail' = Mail
    BY <2>7 DEF Mail
  <2>. QED
    BY <2>2, <2>5, <2>7, <2>8 DEF MailInv
<1>6. ASSUME NEW w \in Workers, WorkerExit(w) PROVE MailInv'
  <2>1. /\ down' = [down EXCEPT ![w] = <<>>] /\ UNCHANGED up
        /\ request' = [r \in Requests |->
               IF request[r].at = w /\ request[r].state = "waiting"
               THEN [request[r] EXCEPT !.state = "failed"] ELSE request[r]]
    BY <1>6 DEF WorkerExit
  <2>2. /\ request' \in [Requests -> RequestType]
        /\ \A q \in Requests : request'[q].id = request[q].id
    BY <1>0, <2>1 DEF RequestType
  <2>3. Mail' = Mail
    BY <2>2 DEF Mail
  <2>4. down' \in [Workers -> Seq(Mail)]
    BY <1>0, <2>1, EmptySeq
  <2>. QED
    BY <1>0, <2>1, <2>2, <2>3, <2>4 DEF MailInv
<1>. QED
  BY <1>1, <1>2, <1>3, <1>4, <1>5, <1>6 DEF ConnectionApiNext, MasterTimeout, ConnectionStep, apiVars

LEMMA PoolInvStep ==
    PoolInv /\ MailInv /\ [ConnectionApiNext]_<<connectionVars, apiVars>> => PoolInv'
<1> SUFFICES ASSUME PoolInv, MailInv, [ConnectionApiNext]_<<connectionVars, apiVars>> PROVE PoolInv'
  OBVIOUS
<1>1. CASE ConnectionStep
  BY <1>1, HandshakeStep, CloseStep DEF ConnectionStep
<1>2. ASSUME NEW r \in Requests, OriginTimeout(r) \/ MasterTimeout(r) PROVE PoolInv'
  BY <1>2, QuietStep DEF OriginTimeout, MasterTimeout, connectionVars, handshakeVars
<1>3. ASSUME NEW r \in Requests, NEW w \in Workers, NEW kind, NEW k \in Keys, Ask(r, w, kind, k)
      PROVE  PoolInv'
  BY <1>3, DropStep DEF Ask
<1>4. ASSUME NEW w \in Workers, MasterReceives(w) PROVE PoolInv'
  BY <1>4, QuietStep DEF MasterReceives, connectionVars, handshakeVars
<1>5. ASSUME NEW w \in Workers, WorkerExit(w) PROVE PoolInv'
  BY <1>5, DeathStep DEF WorkerExit
<1>6. ASSUME NEW w \in Workers, WorkerReceives(w) PROVE PoolInv'
  <2> DEFINE m == Head(down[w])
  <2>1. down[w] # <<>> /\ down \in [Workers -> Seq(Mail)]
    BY <1>6 DEF WorkerReceives, MailInv
  <2>2. m \in Mail
    BY <2>1, Taken
  <2>0. request[m.of].id \in Keys
    BY <2>2 DEF Mail
  <2>3. CASE UNCHANGED <<handshakeVars, poolVars>>
    BY <2>3, QuietStep DEF handshakeVars
  <2>4. CASE Drops(request[m.of].kind, getConnectionById(w, request[m.of].id))
    BY <2>0, <2>4, DropStep
  <2>. QED
    BY <1>6, <2>3, <2>4 DEF WorkerReceives
<1>7. CASE UNCHANGED <<connectionVars, apiVars>>
  BY <1>7, QuietStep DEF connectionVars, handshakeVars
<1>. QED
  BY <1>1, <1>2, <1>3, <1>4, <1>5, <1>6, <1>7 DEF ConnectionApiNext

(* Connections are found by whatever they are looked up with, unless a      *)
(* refused duplicate has closed: for any number of workers, sockets, keys   *)
(* and external ids, and while the API drops connections.                   *)
THEOREM ConnectionsAreFound == ConnectionApiSpec => []PoolFindsConnections
<1>1. ConnectionApiInit => PoolInv
  BY PoolInvInit DEF ConnectionApiInit
<1>2. PoolInv => PoolFindsConnections
  BY DEF PoolInv, PoolOK, OpenAt, Found, PoolFindsConnections, getConnectionById,
         getConnectionsByContextAndExternalId
<1>. QED
  BY <1>1, <1>2, MailInvInit, MailInvStep, PoolInvStep, PTL DEF ConnectionApiSpec

-----------------------------------------------------------------------------
(* The limit of connections.  Of any sockets there is one that the others   *)
(* were counted without: the one that was counted last.                     *)

Admitted == {"counted", "authorized", "open", "shadow"}

LastCounted == \A T \in SUBSET Sockets :
    T # {} => \E t \in T : \A s \in T : t \notin before[s]

CountInv ==
    /\ before \in [Sockets -> SUBSET Sockets]
    /\ \A w \in Workers : IsFiniteSet(byContext[w])
    /\ \A s \in Sockets : IsFiniteSet(before[s])
    /\ maxConnectionCount > 0 =>
          \A s \in Sockets : stage[s] \in Admitted => Cardinality(before[s]) < maxConnectionCount
    /\ \A s, t \in Sockets : s \in before[t] => stage[s] \in {"open", "closed"}
    /\ LastCounted

LEMMA CountInvInit == ConnectionsInit => CountInv
<1> SUFFICES ASSUME ConnectionsInit PROVE CountInv
  OBVIOUS
<1>1. /\ before = [s \in Sockets |-> {}]
      /\ byContext = [w \in Workers |-> {}]
      /\ stage = [s \in Sockets |-> "away"]
  BY DEF ConnectionsInit
<1>2. IsFiniteSet({})
  BY FS_EmptySet
<1>. QED
  BY <1>1, <1>2 DEF CountInv, LastCounted, Admitted

(* Nobody is counted, and nobody gets further who was not counted.          *)
LEMMA CountKept ==
    ASSUME CountInv, before' = before,
           \A s \in Sockets :
              /\ stage'[s] \in Admitted => stage[s] \in Admitted
              /\ stage[s] \in {"open", "closed"} => stage'[s] \in {"open", "closed"},
           \A w \in Workers : IsFiniteSet(byContext'[w])
    PROVE  CountInv'
<1>1. LastCounted'
  BY DEF CountInv, LastCounted
<1>. QED
  BY <1>1 DEF CountInv

LEMMA Counted ==
    ASSUME PoolInv, CountInv, NEW s \in Sockets, AuthorizeConnectionContext(s)
    PROVE  CountInv'
<1>1. /\ before' = [before EXCEPT ![s] = byContext[home[s]]]
      /\ stage[s] = "lookup" /\ byContext' = byContext
      /\ \A t \in Sockets \ {s} : stage'[t] = stage[t]
      /\ \/ stage'[s] = "refused"
         \/ /\ stage'[s] = "counted"
            /\ maxConnectionCount = 0 \/ Cardinality(byContext[home[s]]) < maxConnectionCount
  BY DEF AuthorizeConnectionContext, getConnectionsByContext, validateConnectionCount, Refused,
         poolVars, PoolInv, TypesInv
<1>2. /\ before \in [Sockets -> SUBSET Sockets] /\ home[s] \in Workers
      /\ byContext[home[s]] \subseteq Sockets
      /\ \A t \in byContext[home[s]] : stage[t] = "open"
      /\ IsFiniteSet(byContext[home[s]])
  BY <1>1 DEF PoolInv, TypesInv, PoolOK, OpenAt, CountInv
<1>3. /\ before'[s] = byContext[home[s]]
      /\ \A t \in Sockets \ {s} : before'[t] = before[t]
  BY <1>1, <1>2
<1>4. \A t \in Sockets : s \notin before'[t]
  BY <1>1, <1>2, <1>3 DEF CountInv
<1>5. LastCounted'
  <2> SUFFICES ASSUME NEW T \in SUBSET Sockets, T # {}
               PROVE  \E t \in T : \A q \in T : t \notin before'[q]
    BY DEF LastCounted
  <2>1. CASE s \in T
    BY <1>4, <2>1
  <2>2. CASE s \notin T
    BY <1>3, <2>2 DEF CountInv, LastCounted
  <2>. QED
    BY <2>1, <2>2
<1>6. before' \in [Sockets -> SUBSET Sockets]
  BY <1>1, <1>2
<1>7. /\ \A w \in Workers : IsFiniteSet(byContext'[w])
      /\ \A t \in Sockets : IsFiniteSet(before'[t])
  BY <1>1, <1>2, <1>3 DEF CountInv
<1>8. maxConnectionCount > 0 =>
          \A t \in Sockets : stage'[t] \in Admitted => Cardinality(before'[t]) < maxConnectionCount
  BY <1>1, <1>3, ConnectionsAssumption DEF CountInv, Admitted
<1>9. \A q, t \in Sockets : q \in before'[t] => stage'[q] \in {"open", "closed"}
  BY <1>1, <1>2, <1>3, <1>4 DEF CountInv
<1>. QED
  BY <1>5, <1>6, <1>7, <1>8, <1>9 DEF CountInv

LEMMA CountedHandshake ==
    ASSUME PoolInv, CountInv, NEW s \in Sockets, Handshake(s)
    PROVE  CountInv'
<1>1. CASE AuthorizeConnectionContext(s)
  BY <1>1, Counted
<1>2. ASSUME NEW w \in Workers, ValidateConnectionHeaders(s, w) PROVE CountInv'
  <2>1. /\ before' = before /\ byContext' = byContext /\ stage[s] = "away"
        /\ stage'[s] \in {"lookup", "refused"}
        /\ \A t \in Sockets \ {s} : stage'[t] = stage[t]
    BY <1>2 DEF ValidateConnectionHeaders, poolVars, PoolInv, TypesInv
  <2>. QED
    BY <2>1, CountKept DEF Admitted, CountInv
<1>3. CASE validateWithExternalApi(s)
  <2>1. /\ before' = before /\ byContext' = byContext /\ stage[s] = "counted"
        /\ \A t \in Sockets \ {s} : stage'[t] = stage[t]
    BY <1>3 DEF validateWithExternalApi, Refused, poolVars, PoolInv, TypesInv
  <2>. QED
    BY <2>1, CountKept DEF Admitted, CountInv
<1>4. CASE PrepareWebsocketExtensions(s)
  <2>1. /\ before' = before /\ stage[s] = "authorized"
        /\ \A t \in Sockets \ {s} : stage'[t] = stage[t]
        /\ byContext' = byContext \/ byContext' = [byContext EXCEPT ![home[s]] = @ \cup {s}]
    BY <1>4 DEF PrepareWebsocketExtensions, RespondToHandshake, registerConnection, Refused,
                poolVars, PoolInv, TypesInv
  <2>2. ASSUME NEW w \in Workers PROVE IsFiniteSet(byContext'[w])
    <3>1. byContext'[w] = byContext[w] \/ byContext'[w] = byContext[w] \cup {s}
      BY <2>1 DEF PoolInv, TypesInv
    <3>2. IsFiniteSet(byContext[w])
      BY DEF CountInv
    <3>3. IsFiniteSet(byContext[w] \cup {s})
      BY <3>2, FS_AddElement
    <3>. QED
      BY <3>1, <3>2, <3>3
  <2>. QED
    BY <2>1, <2>2, CountKept DEF Admitted
<1>. QED
  BY <1>1, <1>2, <1>3, <1>4 DEF Handshake

LEMMA CountedClose ==
    ASSUME PoolInv, CountInv, NEW s \in Sockets, CloseConnection(s)
    PROVE  CountInv'
<1>1. /\ before' = before /\ stage'[s] = "closed"
      /\ \A t \in Sockets \ {s} : stage'[t] = stage[t]
      /\ byContext' = [byContext EXCEPT ![home[s]] = @ \ {s}]
  BY DEF CloseConnection, removeConnection, PoolInv, TypesInv
<1>2. ASSUME NEW w \in Workers PROVE IsFiniteSet(byContext'[w])
  <2>1. byContext'[w] = byContext[w] \/ byContext'[w] = byContext[w] \ {s}
    BY <1>1 DEF PoolInv, TypesInv
  <2>2. IsFiniteSet(byContext[w])
    BY DEF CountInv
  <2>3. IsFiniteSet(byContext[w] \ {s})
    BY <2>2, FS_RemoveElement
  <2>. QED
    BY <2>1, <2>2, <2>3
<1>. QED
  BY <1>1, <1>2, CountKept DEF Admitted

LEMMA CountedDeath ==
    ASSUME PoolInv, CountInv, NEW v \in Workers, WorkerDies(v)
    PROVE  CountInv'
<1>1. /\ before' = before
      /\ \A s \in Sockets : stage'[s] \in {"closed", stage[s]}
      /\ byContext' = [byContext EXCEPT ![v] = {}]
  BY DEF WorkerDies
<1>2. ASSUME NEW w \in Workers PROVE IsFiniteSet(byContext'[w])
  <2>1. byContext'[w] = byContext[w] \/ byContext'[w] = {}
    BY <1>1 DEF PoolInv, TypesInv
  <2>. QED
    BY <2>1, FS_EmptySet DEF CountInv
<1>. QED
  BY <1>1, <1>2, CountKept DEF Admitted

LEMMA CountedQuiet ==
    ASSUME CountInv, UNCHANGED <<handshakeVars, poolVars>>
    PROVE  CountInv'
<1>1. before' = before /\ stage' = stage /\ byContext' = byContext
  BY DEF handshakeVars, poolVars
<1>. QED
  BY <1>1, CountKept DEF CountInv

LEMMA CountedDrop ==
    ASSUME PoolInv, CountInv, NEW kind, NEW w \in Workers, NEW k \in Keys,
           Drops(kind, getConnectionById(w, k))
    PROVE  CountInv'
<1> DEFINE s == getConnectionById(w, k)
<1>1. s \in Sockets \cup {NoOne}
  BY DEF getConnectionById, PoolInv, TypesInv
<1> HIDE DEF s
<1>2. CASE UNCHANGED <<handshakeVars, poolVars>>
  BY <1>2, CountedQuiet
<1>3. CASE s # NoOne /\ CloseConnection(s)
  BY <1>1, <1>3, CountedClose
<1>. QED
  BY <1>2, <1>3 DEF Drops, s

LEMMA CountInvStep ==
    PoolInv /\ MailInv /\ CountInv /\ [ConnectionApiNext]_<<connectionVars, apiVars>>
        => CountInv'
<1> SUFFICES ASSUME PoolInv, MailInv, CountInv, [ConnectionApiNext]_<<connectionVars, apiVars>>
             PROVE  CountInv'
  OBVIOUS
<1>1. CASE ConnectionStep
  BY <1>1, CountedHandshake, CountedClose DEF ConnectionStep
<1>2. ASSUME NEW r \in Requests, OriginTimeout(r) \/ MasterTimeout(r) PROVE CountInv'
  BY <1>2, CountedQuiet DEF OriginTimeout, MasterTimeout, connectionVars
<1>3. ASSUME NEW r \in Requests, NEW w \in Workers, NEW kind, NEW k \in Keys, Ask(r, w, kind, k)
      PROVE  CountInv'
  BY <1>3, CountedDrop DEF Ask
<1>4. ASSUME NEW w \in Workers, MasterReceives(w) PROVE CountInv'
  BY <1>4, CountedQuiet DEF MasterReceives, connectionVars
<1>5. ASSUME NEW w \in Workers, WorkerExit(w) PROVE CountInv'
  BY <1>5, CountedDeath DEF WorkerExit
<1>6. ASSUME NEW w \in Workers, WorkerReceives(w) PROVE CountInv'
  <2> DEFINE m == Head(down[w])
  <2>1. down[w] # <<>> /\ down \in [Workers -> Seq(Mail)]
    BY <1>6 DEF WorkerReceives, MailInv
  <2>2. m \in Mail
    BY <2>1, Taken
  <2>0. request[m.of].id \in Keys
    BY <2>2 DEF Mail
  <2>3. CASE UNCHANGED <<handshakeVars, poolVars>>
    BY <2>3, CountedQuiet
  <2>4. CASE Drops(request[m.of].kind, getConnectionById(w, request[m.of].id))
    BY <2>0, <2>4, CountedDrop
  <2>. QED
    BY <1>6, <2>3, <2>4 DEF WorkerReceives
<1>7. CASE UNCHANGED <<connectionVars, apiVars>>
  BY <1>7, CountedQuiet DEF connectionVars
<1>. QED
  BY <1>1, <1>2, <1>3, <1>4, <1>5, <1>6, <1>7 DEF ConnectionApiNext

(* If of any two connections one was counted with the other, the last one   *)
(* counted was counted with all others, and let in: they are not too many.  *)
LEMMA NotTooMany == PoolInv /\ CountInv => OverLimitOnlyTogether
<1> SUFFICES ASSUME PoolInv, CountInv, NEW w \in Workers, maxConnectionCount > 0,
                    Cardinality(byContext[w]) > maxConnectionCount,
                    \A s, t \in byContext[w] : s # t => s \in before[t] \/ t \in before[s]
             PROVE  FALSE
  BY DEF OverLimitOnlyTogether
<1> DEFINE T == byContext[w]
<1>1. /\ T \subseteq Sockets /\ IsFiniteSet(T) /\ maxConnectionCount \in Nat
      /\ \A s \in T : stage[s] = "open"
  BY ConnectionsAssumption DEF PoolInv, TypesInv, PoolOK, OpenAt, CountInv
<1>2. T # {}
  BY <1>1, FS_EmptySet
<1>3. PICK t \in T : \A s \in T : t \notin before[s]
  BY <1>1, <1>2 DEF CountInv, LastCounted
<1>4. T \ {t} \subseteq before[t]
  BY <1>3
<1>5. t \in Sockets /\ IsFiniteSet(before[t]) /\ Cardinality(before[t]) < maxConnectionCount
  BY <1>1 DEF CountInv, Admitted
<1>6. Cardinality(T \ {t}) <= Cardinality(before[t])
  BY <1>4, <1>5, FS_Subset
<1>7. Cardinality(T \ {t}) = Cardinality(T) - 1
  BY <1>1, FS_RemoveElement
<1>8. Cardinality(T) \in Nat /\ Cardinality(before[t]) \in Nat
  BY <1>1, <1>5, FS_CardinalityType
<1> HIDE DEF T
<1>9. Cardinality(T) > maxConnectionCount
  BY DEF T
<1>. QED
  BY <1>1, <1>5, <1>6, <1>7, <1>8, <1>9

(* The limit of connections is exceeded only by handshakes that overlapped, *)
(* for any limit and any number of workers and sockets.                     *)
THEOREM LimitHolds == ConnectionApiSpec => []OverLimitOnlyTogether
<1>1. ConnectionApiInit => PoolInv /\ MailInv /\ CountInv
  BY PoolInvInit, MailInvInit, CountInvInit DEF ConnectionApiInit
<1>. QED
  BY <1>1, MailInvStep, PoolInvStep, CountInvStep, NotTooMany, PTL DEF ConnectionApiSpec

-----------------------------------------------------------------------------
(* Requests.  A request is a conversation of one message at a time.  What   *)
(* the message says, where it is and what the master still has to ask tell  *)
(* which workers have not been asked yet: only there can a connection be    *)
(* that the request has overlooked so far.                                  *)

Held(queue, r) == \E i \in 1..Len(queue) : queue[i].of = r
Once(queue, r) ==
    \A i, j \in 1..Len(queue) : queue[i].of = r /\ queue[j].of = r => i = j
Contains(queue, m) == \E i \in 1..Len(queue) : queue[i] = m

(* Nothing of a request is on its way, in either direction.                 *)
Silent(r) == \A w \in Workers : ~Held(up[w], r) /\ ~Held(down[w], r)

(* A request has one message, in one channel of one worker: the worker the  *)
(* master asks, if it asks anybody.                                         *)
OneMessageIn(ups, downs, t, r) ==
    /\ \A w \in Workers : Once(ups[w], r) /\ Once(downs[w], r)
    /\ \A v, w \in Workers : ~(Held(ups[v], r) /\ Held(downs[w], r))
    /\ \A v, w \in Workers : v # w => /\ ~(Held(ups[v], r) /\ Held(ups[w], r))
                                      /\ ~(Held(downs[v], r) /\ Held(downs[w], r))
    /\ t # NoTask =>
          \A w \in Workers : Held(ups[w], r) \/ Held(downs[w], r) => w = t.asks

(* The connections a request may still find are of these workers.           *)
AtOneOf(r, W) == \A s \in there[r] : home[s] \in W

(* The message to the master and the one from it, at the worker with the    *)
(* request and at the one that is asked.                                    *)
Upward(r, w, says) ==
    IF w = request[r].at THEN says = "asked" /\ task[r] = NoTask
    ELSE /\ task[r].asks = w /\ says # "missing"
         /\ says = "asked" => AtOneOf(r, task[r].todo)
Downward(r, w, says) ==
    IF w = request[r].at
    THEN says # "asked" /\ task[r] = NoTask /\ (says = "missing" => there[r] = {})
    ELSE task[r].asks = w /\ says = "asked" /\ AtOneOf(r, task[r].todo \cup {w})

Conversation(r) ==
    /\ request[r].at \in Workers
    /\ \A s \in there[r] : home[s] # request[r].at
    /\ task[r] # NoTask => /\ task[r].origin = request[r].at
                           /\ request[r].at \notin task[r].todo \cup {task[r].asks}
    /\ request[r].state = "failed" => request[r].at \notin alive
    /\ \A w \in Workers, says \in {"asked", "found", "missing"} :
          /\ Contains(up[w], Message(r, says)) => Upward(r, w, says)
          /\ Contains(down[w], Message(r, says)) => Downward(r, w, says)

Task == [origin : Workers, todo : SUBSET Workers, asks : Workers] \cup {NoTask}

RequestInv(r) ==
    /\ there[r] \subseteq Sockets
    /\ \A s \in there[r] : \E w \in Workers : byId[w][request[r].id] = s
    /\ OneMessageIn(up, down, task[r], r)
    /\ request[r].state # "none" => request[r].id \in Keys
    /\ request[r].state = "none" =>
          Silent(r) /\ task[r] = NoTask /\ r \notin late /\ there[r] = {}
    /\ r \notin late /\ request[r].state \in {"found", "missing"} =>
          /\ Silent(r) /\ task[r] = NoTask
          /\ request[r].state = "missing" => there[r] = {}
    /\ r \notin late /\ request[r].state \in {"waiting", "failed"} => Conversation(r)

(* A worker that has died has no connections and gets no messages.          *)
DeadInv ==
    /\ alive \subseteq Workers
    /\ \A s \in Sockets : stage[s] \notin {"away", "closed"} => home[s] \in alive
    /\ \A w \in Workers \ alive : down[w] = <<>>

ApiInv == DeadInv /\ task \in [Requests -> Task] /\ \A r \in Requests : RequestInv(r)

-----------------------------------------------------------------------------
(* Channels.                                                                *)

(* A channel that has lost messages of a request, at most.                  *)
Keeps(before_, after, r) ==
    /\ Once(before_, r) => Once(after, r)
    /\ \A i \in 1..Len(after) : after[i].of = r => Contains(before_, after[i])

LEMMA KeepsSame == ASSUME NEW q, NEW r PROVE Keeps(q, q, r)
BY DEF Keeps, Contains

LEMMA KeepsNone == ASSUME NEW q, NEW r PROVE Keeps(q, <<>>, r)
BY EmptySeq DEF Keeps, Once

LEMMA KeepsHeld == ASSUME NEW q, NEW p, NEW r, Keeps(q, p, r), Held(p, r) PROVE Held(q, r)
BY DEF Keeps, Held, Contains

LEMMA KeepsContained ==
    ASSUME NEW q, NEW p, NEW r, Keeps(q, p, r), NEW m, m.of = r, Contains(p, m)
    PROVE  Contains(q, m)
BY DEF Keeps, Contains

LEMMA Holding ==
    ASSUME NEW M, NEW q \in Seq(M), NEW m, Contains(q, m)
    PROVE  Held(q, m.of)
BY DEF Contains, Held

(* The first message is taken.                                              *)
LEMMA TailKeeps ==
    ASSUME NEW M, NEW q \in Seq(M), q # <<>>
    PROVE  /\ \A r : Keeps(q, Tail(q), r)
           /\ Once(q, Head(q).of) => ~Held(Tail(q), Head(q).of)
           /\ Contains(q, Head(q))
<1> DEFINE p == Tail(q)
<1>1. /\ p \in Seq(M) /\ Len(q) \in Nat /\ Len(q) >= 1 /\ Len(p) = Len(q) - 1
      /\ \A i \in 1..Len(p) : p[i] = q[i + 1]
      /\ Head(q) = q[1]
  BY HeadTailProperties, LenProperties, EmptySeq
<1> HIDE DEF p
<1>2. \A i \in 1..Len(p) : i + 1 \in 1..Len(q) /\ i + 1 # 1
  BY <1>1
<1>3. 1 \in 1..Len(q)
  BY <1>1
<1>4. ASSUME NEW r PROVE Keeps(q, p, r)
  <2>1. ASSUME Once(q, r), NEW i \in 1..Len(p), NEW j \in 1..Len(p), p[i].of = r, p[j].of = r
        PROVE  i = j
    <3>1. i + 1 = j + 1
      BY <1>1, <1>2, <2>1 DEF Once
    <3>. QED
      BY <1>1, <3>1
  <2>2. ASSUME NEW i \in 1..Len(p) PROVE Contains(q, p[i])
    BY <1>1, <1>2 DEF Contains
  <2>. QED
    BY <2>1, <2>2 DEF Keeps, Once
<1>5. ASSUME Once(q, Head(q).of), NEW i \in 1..Len(p) PROVE p[i].of # Head(q).of
  BY <1>1, <1>2, <1>3, <1>5 DEF Once
<1>. QED
  BY <1>1, <1>3, <1>4, <1>5 DEF Held, Contains, p

(* A message is appended.                                                   *)
LEMMA AppendKeeps ==
    ASSUME NEW M, NEW q \in Seq(M), NEW n \in M
    PROVE  /\ \A r : r # n.of => Keeps(q, Append(q, n), r)
           /\ ~Held(q, n.of) => /\ Once(Append(q, n), n.of)
                                /\ \A m : m.of = n.of /\ Contains(Append(q, n), m) => m = n
<1> DEFINE p == Append(q, n)
<1>1. /\ Len(q) \in Nat /\ Len(p) = Len(q) + 1 /\ p[Len(q) + 1] = n
      /\ \A i \in 1..Len(q) : p[i] = q[i]
  BY AppendProperties, LenProperties
<1> HIDE DEF p
<1>2. \A i \in 1..Len(p) : i \in 1..Len(q) \/ i = Len(q) + 1
  BY <1>1
<1>3. ASSUME NEW r, r # n.of PROVE Keeps(q, p, r)
  BY <1>1, <1>2, <1>3 DEF Keeps, Once, Contains
<1>4. ASSUME ~Held(q, n.of) PROVE \A i \in 1..Len(p) : p[i].of = n.of => i = Len(q) + 1
  BY <1>1, <1>2, <1>4 DEF Held
<1>. QED
  BY <1>1, <1>3, <1>4 DEF Once, Contains, p

(* A request of which there is a message at one worker only.                *)
LEMMA OneMessageAt ==
    ASSUME NEW ups, NEW downs, NEW t, NEW r, NEW v,
           \A w \in Workers : Once(ups[w], r) /\ Once(downs[w], r),
           \A w \in Workers : Held(ups[w], r) \/ Held(downs[w], r) => w = v,
           ~(Held(ups[v], r) /\ Held(downs[v], r)),
           t # NoTask => t.asks = v
    PROVE  OneMessageIn(ups, downs, t, r)
BY DEF OneMessageIn

LEMMA NotHeldOnce == ASSUME NEW q, NEW r, ~Held(q, r) PROVE Once(q, r)
BY DEF Held, Once

-----------------------------------------------------------------------------
(* Workers and connections.                                                 *)

(* A worker's pool has its own open connections only.                       *)
LEMMA PoolHomes ==
    ASSUME PoolInv, NEW w \in Workers, NEW k \in Keys, byId[w][k] # NoOne
    PROVE  /\ byId[w][k] \in Sockets /\ home[byId[w][k]] = w /\ key[byId[w][k]] = k
           /\ stage[byId[w][k]] = "open"
BY DEF PoolInv, PoolOK, OpenAt

LEMMA HomesKept ==
    ASSUME NEW s \in Sockets, Handshake(s)
    PROVE  \A t \in Sockets : stage[t] # "away" => home'[t] = home[t]
<1>1. ASSUME NEW w \in Workers, ValidateConnectionHeaders(s, w), NEW t \in Sockets, stage[t] # "away"
      PROVE  home'[t] = home[t]
  BY <1>1 DEF ValidateConnectionHeaders
<1>2. CASE UNCHANGED home
  BY <1>2
<1>. QED
  BY <1>1, <1>2 DEF Handshake, AuthorizeConnectionContext, validateWithExternalApi,
                    PrepareWebsocketExtensions

LEMMA DeadInvInit == ConnectionApiInit => DeadInv
BY DEF ConnectionApiInit, ConnectionsInit, DeadInv

(* Whoever is in a handshake or in a pool lives.                            *)
Lives == \A s \in Sockets : stage[s] \notin {"away", "closed"} => home[s] \in alive

LEMMA LivesHandshake ==
    ASSUME PoolInv, Lives, NEW s \in Sockets, Handshake(s)
    PROVE  Lives' /\ UNCHANGED alive
<1>1. /\ stage \in [Sockets -> Stages] /\ home \in [Sockets -> Workers \cup {0}]
  BY DEF PoolInv, TypesInv
<1>2. ASSUME NEW w \in Workers, ValidateConnectionHeaders(s, w) PROVE Lives' /\ UNCHANGED alive
  BY <1>1, <1>2 DEF ValidateConnectionHeaders, Lives
<1>3. ASSUME stage[s] \in {"lookup", "counted", "authorized"}, UNCHANGED <<alive, home>>,
             \E c \in Stages : stage' = [stage EXCEPT ![s] = c]
      PROVE  Lives' /\ UNCHANGED alive
  BY <1>1, <1>3 DEF Lives
<1>4. ASSUME AuthorizeConnectionContext(s) PROVE Lives' /\ UNCHANGED alive
  BY <1>3, <1>4 DEF AuthorizeConnectionContext, Refused, Stages
<1>5. ASSUME validateWithExternalApi(s) PROVE Lives' /\ UNCHANGED alive
  BY <1>3, <1>5 DEF validateWithExternalApi, Refused, Stages
<1>6. ASSUME PrepareWebsocketExtensions(s) PROVE Lives' /\ UNCHANGED alive
  BY <1>3, <1>6 DEF PrepareWebsocketExtensions, RespondToHandshake, registerConnection, Refused,
                    Stages
<1>. QED
  BY <1>2, <1>4, <1>5, <1>6 DEF Handshake

LEMMA LivesClose ==
    ASSUME PoolInv, Lives, NEW s \in Sockets, CloseConnection(s), UNCHANGED alive
    PROVE  Lives' /\ UNCHANGED home
<1>1. stage' = [stage EXCEPT ![s] = "closed"] /\ UNCHANGED home
  BY DEF CloseConnection
<1>. QED
  BY <1>1 DEF Lives, PoolInv, TypesInv

LEMMA LivesDrop ==
    ASSUME PoolInv, Lives, NEW kind, NEW w \in Workers, NEW k \in Keys,
           Drops(kind, getConnectionById(w, k)), UNCHANGED alive
    PROVE  Lives' /\ UNCHANGED home
<1> DEFINE s == getConnectionById(w, k)
<1>1. s \in Sockets \cup {NoOne}
  BY DEF getConnectionById, PoolInv, TypesInv
<1> HIDE DEF s
<1>2. CASE UNCHANGED <<handshakeVars, poolVars>>
  BY <1>2 DEF handshakeVars, Lives
<1>3. CASE s # NoOne /\ CloseConnection(s)
  BY <1>1, <1>3, LivesClose
<1>. QED
  BY <1>2, <1>3 DEF Drops, s

(* Messages only go to the living.                                          *)
LEMMA PollReaches ==
    ASSUME NEW r, NEW origin, NEW todo, NEW m,
           Poll(r, origin, todo, m) \/ Winner(r, origin, m), NEW v, v \notin alive
    PROVE  down'[v] = down[v] \/ down' = down
<1>1. ASSUME NEW w, NEW n, w \in alive, down' = [down EXCEPT ![w] = Append(@, n)]
      PROVE  down'[v] = down[v] \/ down' = down
  BY <1>1
<1>. QED
  BY <1>1 DEF Poll, Winner

LEMMA DeadInvStep ==
    PoolInv /\ MailInv /\ DeadInv /\ [ConnectionApiNext]_<<connectionVars, apiVars>> => DeadInv'
<1> SUFFICES ASSUME PoolInv, MailInv, DeadInv, [ConnectionApiNext]_<<connectionVars, apiVars>>
             PROVE  DeadInv'
  OBVIOUS
<1>0. /\ Lives /\ alive \subseteq Workers /\ \A v \in Workers \ alive : down[v] = <<>>
      /\ down \in [Workers -> Seq(Mail)]
  BY DEF DeadInv, Lives, MailInv
<1>1. CASE ConnectionStep
  <2>1. UNCHANGED down
    BY <1>1 DEF ConnectionStep
  <2>2. Lives' /\ UNCHANGED alive
    BY <1>0, <1>1, LivesHandshake, LivesClose DEF ConnectionStep
  <2>. QED
    BY <1>0, <2>1, <2>2 DEF DeadInv, Lives
<1>2. ASSUME UNCHANGED <<connectionVars, down>> PROVE DeadInv'
  BY <1>2 DEF DeadInv, connectionVars, handshakeVars
<1>3. ASSUME NEW r \in Requests, OriginTimeout(r) \/ MasterTimeout(r) PROVE DeadInv'
  BY <1>2, <1>3 DEF OriginTimeout, MasterTimeout
<1>4. ASSUME NEW r \in Requests, NEW w \in Workers, NEW kind, NEW k \in Keys, Ask(r, w, kind, k)
      PROVE  DeadInv'
  <2>1. UNCHANGED <<alive, down>>
    BY <1>4 DEF Ask
  <2>2. Lives'
    BY <1>0, <1>4, LivesDrop DEF Ask
  <2>. QED
    BY <1>0, <2>1, <2>2 DEF DeadInv, Lives
<1>5. ASSUME NEW w \in Workers, MasterReceives(w) PROVE DeadInv'
  <2> DEFINE m == Head(up[w])
  <2>1. UNCHANGED connectionVars
    BY <1>5 DEF MasterReceives
  <2>2. ASSUME NEW v \in Workers \ alive PROVE down'[v] = down[v]
    BY <1>5, <2>2, PollReaches DEF MasterReceives
  <2>. QED
    BY <1>0, <2>1, <2>2 DEF DeadInv, Lives, connectionVars, handshakeVars
<1>6. ASSUME NEW w \in Workers, WorkerExit(w) PROVE DeadInv'
  <2>1. /\ down' = [down EXCEPT ![w] = <<>>] /\ alive' = alive \ {w} /\ UNCHANGED home
        /\ stage' = [s \in Sockets |-> IF home[s] = w THEN "closed" ELSE stage[s]]
    BY <1>6 DEF WorkerExit, WorkerDies
  <2>2. Lives'
    BY <1>0, <2>1 DEF Lives
  <2>3. \A v \in Workers \ alive' : down'[v] = <<>>
    BY <1>0, <2>1
  <2>. QED
    BY <1>0, <2>1, <2>2, <2>3 DEF DeadInv, Lives
<1>7. ASSUME NEW w \in Workers, WorkerReceives(w) PROVE DeadInv'
  <2> DEFINE m == Head(down[w])
  <2>1. down[w] # <<>> /\ down' = [down EXCEPT ![w] = Tail(@)] /\ UNCHANGED alive
    BY <1>7 DEF WorkerReceives
  <2>2. m \in Mail
    BY <1>0, <2>1, Taken
  <2>3. request[m.of].id \in Keys
    BY <2>2 DEF Mail
  <2>4. CASE UNCHANGED <<handshakeVars, poolVars>>
    BY <1>0, <2>1, <2>4 DEF DeadInv, Lives, handshakeVars
  <2>5. CASE Drops(request[m.of].kind, getConnectionById(w, request[m.of].id))
    <3>1. Lives'
      BY <1>0, <2>1, <2>3, <2>5, LivesDrop
    <3>. QED
      BY <1>0, <2>1, <3>1 DEF DeadInv, Lives
  <2>. QED
    BY <1>7, <2>4, <2>5 DEF WorkerReceives
<1>8. CASE UNCHANGED <<connectionVars, apiVars>>
  BY <1>2, <1>8 DEF apiVars
<1>. QED
  BY <1>1, <1>3, <1>4, <1>5, <1>6, <1>7, <1>8 DEF ConnectionApiNext

-----------------------------------------------------------------------------
(* What a step that does not concern a request leaves of its invariant.     *)

(* The connections a request may find only get fewer and stay where they are. *)
ThereKept(r) ==
    /\ there'[r] \subseteq there[r]
    /\ \A s \in there'[r] :
          home'[s] = home[s] /\ \E w \in Workers : byId'[w][request'[r].id] = s

(* All that is still there is at home in the worker whose pool has it.      *)
LEMMA ThereHomes ==
    ASSUME PoolInv, NEW r \in Requests, RequestInv(r), NEW s \in there[r]
    PROVE  /\ s \in Sockets /\ stage[s] = "open" /\ home[s] \in Workers
           /\ request[r].id \in Keys /\ byId[home[s]][request[r].id] = s
<1>1. /\ s \in Sockets /\ request[r].id \in Keys
      /\ \E w \in Workers : byId[w][request[r].id] = s
  BY DEF RequestInv
<1>2. s # NoOne
  BY <1>1, ConnectionsAssumption
<1>. QED
  BY <1>1, <1>2, PoolHomes

LEMMA ThereStill ==
    ASSUME PoolInv, NEW r \in Requests, RequestInv(r), there'[r] = Still(r),
           \A s \in Sockets : stage[s] # "away" => home'[s] = home[s]
    PROVE  ThereKept(r)
<1>1. ASSUME NEW s \in there'[r]
      PROVE  /\ s \in there[r] /\ home'[s] = home[s]
             /\ \E w \in Workers : byId'[w][request'[r].id] = s
  <2>1. s \in there[r] /\ \E w \in Workers : byId'[w][request'[r].id] = s
    BY DEF Still
  <2>2. s \in Sockets /\ stage[s] # "away"
    BY <2>1, ThereHomes
  <2>. QED
    BY <2>1, <2>2
<1>. QED
  BY <1>1 DEF ThereKept

LEMMA ThereSame ==
    ASSUME NEW r \in Requests, RequestInv(r), UNCHANGED <<there, home, byId>>,
           request'[r].id = request[r].id
    PROVE  ThereKept(r)
BY DEF ThereKept, RequestInv

AllKept(r) ==
    \A w \in Workers : Keeps(up[w], up'[w], r) /\ Keeps(down[w], down'[w], r)

(* Fewer messages, and the master asks the same worker or nobody.           *)
LEMMA FewerMessages ==
    ASSUME NEW r \in Requests, OneMessageIn(up, down, task[r], r), AllKept(r),
           NEW t, t \in {task[r], NoTask}
    PROVE  /\ OneMessageIn(up', down', t, r)
           /\ Silent(r) => Silent(r)'
<1>1. \A w \in Workers : /\ Once(up'[w], r) /\ Once(down'[w], r)
                         /\ Held(up'[w], r) => Held(up[w], r)
                         /\ Held(down'[w], r) => Held(down[w], r)
  BY KeepsHeld DEF AllKept, OneMessageIn, Keeps
<1>2. OneMessageIn(up', down', t, r)
  BY <1>1 DEF OneMessageIn
<1>3. ASSUME Silent(r) PROVE Silent(r)'
  <2>1. \A w \in Workers : ~Held(up'[w], r) /\ ~Held(down'[w], r)
    BY <1>1, <1>3 DEF Silent
  <2>. QED
    BY <2>1 DEF Silent
<1>. QED
  BY <1>2, <1>3

LEMMA FewerHomes ==
    ASSUME NEW r, NEW W, ThereKept(r), AtOneOf(r, W)
    PROVE  AtOneOf(r, W)'
BY DEF ThereKept, AtOneOf

(* A request that nothing happens to, or that fails with its worker.        *)
LEMMA RequestKept ==
    ASSUME MailInv, NEW r \in Requests, RequestInv(r), AllKept(r), ThereKept(r),
           task'[r] = task[r], r \in late' <=> r \in late, alive' \subseteq alive,
           \/ request'[r] = request[r]
           \/ /\ request[r].state = "waiting" /\ request[r].at \notin alive'
              /\ request'[r] = [request[r] EXCEPT !.state = "failed"]
    PROVE  RequestInv(r)'
<1>0. request[r] \in RequestType
  BY DEF MailInv
<1>1. /\ request'[r].id = request[r].id /\ request'[r].at = request[r].at
      /\ request'[r].kind = request[r].kind
      /\ \/ request'[r].state = request[r].state
         \/ /\ request[r].state = "waiting" /\ request'[r].state = "failed"
            /\ request[r].at \notin alive'
  BY <1>0 DEF RequestType
<1>2. /\ OneMessageIn(up', down', task'[r], r)
      /\ Silent(r) => Silent(r)'
  BY FewerMessages DEF RequestInv
<1>3. there'[r] \subseteq Sockets /\ \A s \in there'[r] : \E w \in Workers : byId'[w][request'[r].id] = s
  BY DEF RequestInv, ThereKept
<1>4. there[r] = {} => there'[r] = {}
  BY DEF ThereKept
<1>5. ASSUME Conversation(r) PROVE Conversation(r)'
  <2>1. /\ request'[r].at \in Workers
        /\ \A s \in there'[r] : home'[s] # request'[r].at
        /\ task'[r] # NoTask => /\ task'[r].origin = request'[r].at
                                /\ request'[r].at \notin task'[r].todo \cup {task'[r].asks}
    BY <1>1, <1>5 DEF Conversation, ThereKept
  <2>2. request'[r].state = "failed" => request'[r].at \notin alive'
    BY <1>1, <1>5 DEF Conversation
  <2>3. ASSUME NEW w \in Workers, NEW says \in {"asked", "found", "missing"},
               Contains(up'[w], Message(r, says))
        PROVE  Upward(r, w, says)'
    <3>1. Message(r, says).of = r
      BY DEF Message
    <3>2. Contains(up[w], Message(r, says))
      BY <2>3, <3>1, KeepsContained DEF AllKept
    <3>3. Upward(r, w, says)
      BY <1>5, <3>2 DEF Conversation
    <3>4. AtOneOf(r, task[r].todo) => AtOneOf(r, task[r].todo)'
      BY DEF AtOneOf, ThereKept
    <3>. QED
      BY <1>1, <3>3, <3>4 DEF Upward, AtOneOf
  <2>4. ASSUME NEW w \in Workers, NEW says \in {"asked", "found", "missing"},
               Contains(down'[w], Message(r, says))
        PROVE  Downward(r, w, says)'
    <3>1. Message(r, says).of = r
      BY DEF Message
    <3>2. Contains(down[w], Message(r, says))
      BY <2>4, <3>1, KeepsContained DEF AllKept
    <3>3. Downward(r, w, says)
      BY <1>5, <3>2 DEF Conversation
    <3>4. AtOneOf(r, task[r].todo \cup {w}) => AtOneOf(r, task[r].todo \cup {w})'
      BY DEF AtOneOf, ThereKept
    <3>. QED
      BY <1>1, <1>4, <3>3, <3>4 DEF Downward, AtOneOf
  <2>. QED
    BY <2>1, <2>2, <2>3, <2>4 DEF Conversation, Contains
<1>6. /\ request'[r].state # "none" => request'[r].id \in Keys
      /\ request'[r].state = "none" =>
          Silent(r)' /\ task'[r] = NoTask /\ r \notin late' /\ there'[r] = {}
      /\ r \notin late' /\ request'[r].state \in {"found", "missing"} =>
          /\ Silent(r)' /\ task'[r] = NoTask
          /\ request'[r].state = "missing" => there'[r] = {}
  BY <1>1, <1>2, <1>4 DEF RequestInv
<1>7. r \notin late' /\ request'[r].state \in {"waiting", "failed"} => Conversation(r)'
  BY <1>1, <1>5 DEF RequestInv
<1>. QED
  BY <1>2, <1>3, <1>6, <1>7 DEF RequestInv

(* A request of which a timer has run out keeps only its one message.       *)
LEMMA LateRequest ==
    ASSUME NEW r \in Requests, RequestInv(r), r \in late', request'[r].state # "none",
           request'[r].id = request[r].id, request[r].id \in Keys, ThereKept(r),
           OneMessageIn(up', down', task'[r], r)
    PROVE  RequestInv(r)'
<1>1. there'[r] \subseteq Sockets /\ \A s \in there'[r] : \E w \in Workers : byId'[w][request'[r].id] = s
  BY DEF RequestInv, ThereKept
<1>. QED
  BY <1>1 DEF RequestInv

-----------------------------------------------------------------------------
(* A message that is taken from one channel and answered in another.        *)

(* after is box without the first message of w's channel, or with one more  *)
(* message at the end of it.                                                *)
Takes(box, after, w) ==
    after[w] = Tail(box[w]) /\ \A u \in Workers : u # w => after[u] = box[u]
Posts(box, after, w, n) ==
    after[w] = Append(box[w], n) /\ \A u \in Workers : u # w => after[u] = box[u]

TookFrom(M, box, after, w) ==
    LET m == Head(box[w]) IN
    /\ \A u \in Workers : \A r : Keeps(box[u], after[u], r)
    /\ Contains(box[w], m) /\ Held(box[w], m.of) /\ m \in M
    /\ Once(box[w], m.of) /\ (\A u \in Workers : u # w => ~Held(box[u], m.of))
       => \A u \in Workers : ~Held(after[u], m.of)

LEMMA TakenFrom ==
    ASSUME NEW M, NEW box \in [Workers -> Seq(M)], NEW w \in Workers, box[w] # <<>>,
           NEW after, Takes(box, after, w)
    PROVE  TookFrom(M, box, after, w)
<1> DEFINE m == Head(box[w])
<1>1. box[w] \in Seq(M) /\ after[w] = Tail(box[w]) /\ \A u \in Workers : u # w => after[u] = box[u]
  BY DEF Takes
<1>2. /\ \A r : Keeps(box[w], Tail(box[w]), r)
      /\ Once(box[w], m.of) => ~Held(Tail(box[w]), m.of)
      /\ Contains(box[w], m)
  BY <1>1, TailKeeps
<1>3. m \in M
  BY <1>1, HeadTailProperties
<1>4. Held(box[w], m.of)
  BY <1>1, <1>2, Holding
<1> HIDE DEF m
<1>5. ASSUME NEW u \in Workers, NEW r PROVE Keeps(box[u], after[u], r)
  BY <1>1, <1>2, KeepsSame
<1>6. ASSUME Once(box[w], m.of), \A u \in Workers : u # w => ~Held(box[u], m.of), NEW u \in Workers
      PROVE  ~Held(after[u], m.of)
  BY <1>1, <1>2, <1>6
<1>. QED
  BY <1>2, <1>3, <1>4, <1>5, <1>6 DEF m, TookFrom

PostedNow(box, after, v, n) ==
    /\ \A u \in Workers : \A r : r # n.of => Keeps(box[u], after[u], r)
    /\ (\A u \in Workers : ~Held(box[u], n.of)) =>
          \A u \in Workers :
             /\ Once(after[u], n.of)
             /\ Held(after[u], n.of) => u = v
             /\ \A m : m.of = n.of /\ Contains(after[u], m) => u = v /\ m = n

LEMMA PostedTo ==
    ASSUME NEW M, NEW box \in [Workers -> Seq(M)], NEW v \in Workers, NEW n \in M,
           NEW after, Posts(box, after, v, n)
    PROVE  PostedNow(box, after, v, n)
<1>1. /\ box[v] \in Seq(M) /\ after[v] = Append(box[v], n)
      /\ \A u \in Workers : u # v => after[u] = box[u]
  BY DEF Posts
<1>2. /\ \A r : r # n.of => Keeps(box[v], after[v], r)
      /\ ~Held(box[v], n.of) => /\ Once(after[v], n.of)
                                /\ \A m : m.of = n.of /\ Contains(after[v], m) => m = n
  BY <1>1, AppendKeeps
<1>3. ASSUME NEW u \in Workers, NEW r, r # n.of PROVE Keeps(box[u], after[u], r)
  BY <1>1, <1>2, <1>3, KeepsSame
<1>4. ASSUME \A u \in Workers : ~Held(box[u], n.of), NEW u \in Workers
      PROVE  /\ Once(after[u], n.of)
             /\ Held(after[u], n.of) => u = v
             /\ \A m : m.of = n.of /\ Contains(after[u], m) => u = v /\ m = n
  <2>1. CASE u = v
    BY <1>2, <1>4, <2>1
  <2>2. CASE u # v
    <3>1. after[u] = box[u] /\ ~Held(after[u], n.of) /\ box[u] \in Seq(M)
      BY <1>1, <1>4, <2>2
    <3>2. ASSUME NEW m, m.of = n.of, Contains(after[u], m) PROVE FALSE
      BY <3>1, <3>2, Holding
    <3>. QED
      BY <3>1, <3>2, NotHeldOnce
  <2>. QED
    BY <2>1, <2>2
<1>. QED
  BY <1>3, <1>4 DEF PostedNow

(* What is known of the request whose message the master or a worker takes. *)
LEMMA MailSays ==
    ASSUME NEW m \in Mail
    PROVE  /\ m.of \in Requests /\ m = Message(m.of, m.says)
           /\ m.says \in {"asked", "found", "missing"} /\ request[m.of].id \in Keys
BY DEF Mail, Message

UpTook(w) ==
    LET m == Head(up[w])
        r == m.of
    IN  /\ m \in Mail
        /\ \A u \in Workers : \A x : Keeps(up[u], up'[u], x)
        /\ \A u \in Workers : ~Held(up'[u], r) /\ ~Held(down[u], r)
        /\ task[r] # NoTask => task[r].asks = w
        /\ request[r].state # "none"
        /\ r \notin late => /\ request[r].state \in {"waiting", "failed"}
                           /\ Conversation(r) /\ Upward(r, w, m.says)

LEMMA UpTaken ==
    ASSUME MailInv, ApiInv, NEW w \in Workers, up[w] # <<>>, up' = [up EXCEPT ![w] = Tail(@)]
    PROVE  UpTook(w)
<1> DEFINE m == Head(up[w])
           r == m.of
<1>0. up \in [Workers -> Seq(Mail)]
  BY DEF MailInv
<1>1. /\ \A u \in Workers : \A x : Keeps(up[u], up'[u], x)
      /\ Contains(up[w], m) /\ Held(up[w], r) /\ m \in Mail
      /\ Once(up[w], r) /\ (\A u \in Workers : u # w => ~Held(up[u], r))
              => \A u \in Workers : ~Held(up'[u], r)
  <2>1. Takes(up, up', w)
    BY <1>0 DEF Takes
  <2>2. TookFrom(Mail, up, up', w)
    BY <1>0, <2>1, TakenFrom
  <2>. QED
    BY <2>2 DEF TookFrom
<1> HIDE DEF m
<1>2. r \in Requests /\ m = Message(r, m.says) /\ m.says \in {"asked", "found", "missing"}
  BY <1>1, MailSays
<1>3. RequestInv(r)
  BY <1>2 DEF ApiInv
<1> HIDE DEF r
<1>4. /\ Once(up[w], r) /\ \A u \in Workers : u # w => ~Held(up[u], r)
      /\ \A u \in Workers : ~Held(down[u], r)
      /\ task[r] # NoTask => task[r].asks = w
  BY <1>1, <1>3 DEF RequestInv, OneMessageIn
<1>5. ~Silent(r)
  BY <1>1 DEF Silent
<1>6. request[r].state # "none"
  BY <1>3, <1>5 DEF RequestInv
<1>7. ASSUME r \notin late PROVE Conversation(r) /\ request[r].state \in {"waiting", "failed"}
  <2>1. request[r].state \in {"none", "waiting", "found", "missing", "failed"}
    BY <1>2 DEF MailInv, RequestType
  <2>. QED
    BY <1>3, <1>5, <1>6, <1>7, <2>1 DEF RequestInv
<1>8. ASSUME r \notin late PROVE Upward(r, w, m.says)
  BY <1>1, <1>2, <1>7, <1>8 DEF Conversation
<1>. QED
  BY <1>1, <1>4, <1>6, <1>7, <1>8 DEF m, r, UpTook

DownTook(w) ==
    LET m == Head(down[w])
        r == m.of
    IN  /\ m \in Mail
        /\ \A u \in Workers : \A x : Keeps(down[u], down'[u], x)
        /\ \A u \in Workers : ~Held(down'[u], r) /\ ~Held(up[u], r)
        /\ task[r] # NoTask => task[r].asks = w
        /\ request[r].state # "none"
        /\ r \notin late => /\ request[r].state \in {"waiting", "failed"}
                           /\ Conversation(r) /\ Downward(r, w, m.says)

LEMMA DownTaken ==
    ASSUME MailInv, ApiInv, NEW w \in Workers, down[w] # <<>>, down' = [down EXCEPT ![w] = Tail(@)]
    PROVE  DownTook(w)
<1> DEFINE m == Head(down[w])
           r == m.of
<1>0. down \in [Workers -> Seq(Mail)]
  BY DEF MailInv
<1>1. /\ \A u \in Workers : \A x : Keeps(down[u], down'[u], x)
      /\ Contains(down[w], m) /\ Held(down[w], r) /\ m \in Mail
      /\ Once(down[w], r) /\ (\A u \in Workers : u # w => ~Held(down[u], r))
              => \A u \in Workers : ~Held(down'[u], r)
  <2>1. Takes(down, down', w)
    BY <1>0 DEF Takes
  <2>2. TookFrom(Mail, down, down', w)
    BY <1>0, <2>1, TakenFrom
  <2>. QED
    BY <2>2 DEF TookFrom
<1> HIDE DEF m
<1>2. r \in Requests /\ m = Message(r, m.says) /\ m.says \in {"asked", "found", "missing"}
  BY <1>1, MailSays
<1>3. RequestInv(r)
  BY <1>2 DEF ApiInv
<1> HIDE DEF r
<1>4. /\ Once(down[w], r) /\ \A u \in Workers : u # w => ~Held(down[u], r)
      /\ \A u \in Workers : ~Held(up[u], r)
      /\ task[r] # NoTask => task[r].asks = w
  BY <1>1, <1>3 DEF RequestInv, OneMessageIn
<1>5. ~Silent(r)
  BY <1>1 DEF Silent
<1>6. request[r].state # "none"
  BY <1>3, <1>5 DEF RequestInv
<1>7. ASSUME r \notin late PROVE Conversation(r) /\ request[r].state \in {"waiting", "failed"}
  <2>1. request[r].state \in {"none", "waiting", "found", "missing", "failed"}
    BY <1>2 DEF MailInv, RequestType
  <2>. QED
    BY <1>3, <1>5, <1>6, <1>7, <2>1 DEF RequestInv
<1>8. ASSUME r \notin late PROVE Downward(r, w, m.says)
  BY <1>1, <1>2, <1>7, <1>8 DEF Conversation
<1>. QED
  BY <1>1, <1>4, <1>6, <1>7, <1>8 DEF m, r, DownTook

-----------------------------------------------------------------------------
(* The master.                                                              *)

(* The message of a request has been taken from its channel to the master.  *)
Received(r) ==
    /\ \A u \in Workers : ~Held(up'[u], r) /\ ~Held(down[u], r)
    /\ UNCHANGED <<connectionVars, request, late, there>>
    /\ request[r].state # "none"
    /\ r \notin late => request[r].state \in {"waiting", "failed"} /\ Conversation(r)

(* It is not answered.                                                      *)
LEMMA NoNewMessage ==
    ASSUME NEW r \in Requests, RequestInv(r), Received(r), UNCHANGED down, task'[r] = NoTask
    PROVE  RequestInv(r)'
<1>1. \A u \in Workers : ~Held(up'[u], r) /\ ~Held(down'[u], r)
  BY DEF Received
<1>2. OneMessageIn(up', down', task'[r], r)
  BY <1>1, NotHeldOnce DEF OneMessageIn
<1>3. UNCHANGED <<byId, home, alive, request, late, there>>
  BY DEF Received, connectionVars, handshakeVars, poolVars
<1>4. ASSUME r \notin late' PROVE Conversation(r)'
  <2>1. Conversation(r)
    BY <1>3, <1>4 DEF Received
  <2>2. ASSUME NEW w \in Workers, NEW says \in {"asked", "found", "missing"}
        PROVE  ~Contains(up'[w], Message(r, says)) /\ ~Contains(down'[w], Message(r, says))
    BY <1>1 DEF Contains, Held, Message
  <2>3. ASSUME NEW w \in Workers, NEW says \in {"asked", "found", "missing"}
        PROVE  /\ Contains(up[w], Message(r, says))' => Upward(r, w, says)'
               /\ Contains(down[w], Message(r, says))' => Downward(r, w, says)'
    BY <2>2 DEF Message
  <2>4. /\ request[r].at \in Workers
        /\ \A s \in there[r] : home[s] # request[r].at
        /\ request[r].state = "failed" => request[r].at \notin alive
    BY <2>1 DEF Conversation
  <2>. QED
    BY <1>3, <2>3, <2>4 DEF Conversation
<1>. QED
  BY <1>2, <1>3, <1>4 DEF RequestInv, Received

(* It is answered to one worker.                                            *)
LEMMA NewDownward ==
    ASSUME MailInv, NEW r \in Requests, RequestInv(r), Received(r),
           NEW v \in Workers, NEW n \in Mail, n.of = r, down' = [down EXCEPT ![v] = Append(@, n)],
           task'[r] # NoTask => task'[r].asks = v,
           r \notin late =>
              /\ task'[r] # NoTask => /\ task'[r].origin = request[r].at
                                      /\ request[r].at \notin task'[r].todo \cup {v}
              /\ Downward(r, v, n.says)'
    PROVE  RequestInv(r)'
<1>0. down \in [Workers -> Seq(Mail)]
  BY DEF MailInv
<1>1. PostedNow(down, down', v, n)
  <2>1. Posts(down, down', v, n)
    BY <1>0 DEF Posts
  <2>. QED
    BY <1>0, <2>1, PostedTo
<1>2. \A u \in Workers : ~Held(up'[u], r) /\ ~Held(down[u], r)
  BY DEF Received
<1>3. \A u \in Workers : /\ Once(down'[u], r)
                         /\ Held(down'[u], r) => u = v
                         /\ \A m : m.of = r /\ Contains(down'[u], m) => u = v /\ m = n
  BY <1>1, <1>2 DEF PostedNow
<1>4. OneMessageIn(up', down', task'[r], r)
  <2>1. \A u \in Workers : Once(up'[u], r) /\ ~Held(up'[u], r)
    BY <1>2, NotHeldOnce
  <2>. QED
    BY <1>3, <2>1 DEF OneMessageIn
<1>5. UNCHANGED <<byId, home, alive, request, late, there>>
  BY DEF Received, connectionVars, handshakeVars, poolVars
<1>6. ASSUME r \notin late' PROVE Conversation(r)'
  <2>1. Conversation(r)
    BY <1>5, <1>6 DEF Received
  <2>2. ASSUME NEW w \in Workers, NEW says \in {"asked", "found", "missing"}
        PROVE  /\ ~Contains(up'[w], Message(r, says))
               /\ Contains(down'[w], Message(r, says)) => w = v /\ says = n.says
    <3>1. Message(r, says).of = r /\ Message(r, says).says = says
      BY DEF Message
    <3>2. ~Contains(up'[w], Message(r, says))
      BY <1>2, <3>1 DEF Contains, Held
    <3>. QED
      BY <1>3, <3>1, <3>2
  <2>3. Downward(r, v, n.says)'
    BY <1>5, <1>6
  <2>4. ASSUME NEW w \in Workers, NEW says \in {"asked", "found", "missing"}
        PROVE  /\ Contains(up'[w], Message(r, says)) => Upward(r, w, says)'
               /\ Contains(down'[w], Message(r, says)) => Downward(r, w, says)'
    BY <2>2, <2>3
  <2>5. /\ request[r].at \in Workers
        /\ \A s \in there[r] : home[s] # request[r].at
        /\ request[r].state = "failed" => request[r].at \notin alive
    BY <2>1 DEF Conversation
  <2>6. task'[r] # NoTask => /\ task'[r].origin = request[r].at
                             /\ request[r].at \notin task'[r].todo \cup {task'[r].asks}
    BY <1>5, <1>6
  <2>. QED
    BY <1>5, <2>4, <2>5, <2>6 DEF Conversation, Message
<1>. QED
  BY <1>4, <1>5, <1>6 DEF RequestInv, Received

(* The poll goes on: who has not been asked yet is asked or stays to be     *)
(* asked, and when nobody is left nothing has been overlooked.              *)
LEMMA PollRequest ==
    ASSUME MailInv, task \in [Requests -> Task], NEW r \in Requests, RequestInv(r), Received(r),
           NEW origin \in Workers, NEW todo \in SUBSET Workers, NEW m \in Mail, m.of = r,
           Poll(r, origin, todo, m),
           r \notin late => /\ origin = request[r].at /\ origin \notin todo
                            /\ AtOneOf(r, todo) /\ m.says = "asked"
    PROVE  RequestInv(r)' /\ task'[r] \in Task
<1>0. UNCHANGED <<home, request, late, there>>
  BY DEF Received, connectionVars, handshakeVars
<1>1. ASSUME NEW w \in todo,
             task' = [task EXCEPT ![r] = [origin |-> origin, todo |-> todo \ {w}, asks |-> w]],
             down' = [down EXCEPT ![w] = Append(@, m)]
      PROVE  RequestInv(r)' /\ task'[r] \in Task
  <2>1. task'[r] = [origin |-> origin, todo |-> todo \ {w}, asks |-> w]
    BY <1>1
  <2>2. w \in Workers /\ task'[r] \in Task
    BY <2>1 DEF Task
  <2>3. r \notin late => Downward(r, w, m.says)'
    <3> SUFFICES ASSUME r \notin late PROVE Downward(r, w, m.says)'
      OBVIOUS
    <3>1. w # request'[r].at /\ m.says = "asked"
      BY <1>0
    <3>2. AtOneOf(r, task[r].todo \cup {w})'
      BY <1>0, <2>1 DEF AtOneOf
    <3>. QED
      BY <2>1, <3>1, <3>2 DEF Downward
  <2>4. RequestInv(r)'
    BY <1>0, <1>1, <2>1, <2>2, <2>3, NewDownward
  <2>. QED
    BY <2>2, <2>4
<1>2. ASSUME task' = [task EXCEPT ![r] = NoTask], UNCHANGED down
      PROVE  RequestInv(r)' /\ task'[r] \in Task
  BY <1>2, NoNewMessage DEF Task
<1>3. ASSUME todo = {}, task' = [task EXCEPT ![r] = NoTask],
             down' = [down EXCEPT ![origin] = Append(@, Message(r, "missing"))]
      PROVE  RequestInv(r)' /\ task'[r] \in Task
  <2> DEFINE n == Message(r, "missing")
  <2>1. n \in Mail /\ n.of = r /\ n.says = "missing"
    BY MailSays DEF Message, Mail
  <2>2. task'[r] = NoTask
    BY <1>3
  <2>3. r \notin late => Downward(r, origin, "missing")'
    <3> SUFFICES ASSUME r \notin late PROVE Downward(r, origin, "missing")'
      OBVIOUS
    <3>1. there[r] = {}
      BY <1>3 DEF AtOneOf
    <3>. QED
      BY <1>0, <2>2, <3>1 DEF Downward
  <2>4. down' = [down EXCEPT ![origin] = Append(@, n)]
    BY <1>3
  <2> HIDE DEF n
  <2>5. RequestInv(r)'
    BY <2>1, <2>2, <2>3, <2>4, NewDownward
  <2>. QED
    BY <2>2, <2>5 DEF Task
<1>. QED
  BY <1>1, <1>2, <1>3 DEF Poll

LEMMA WinnerRequest ==
    ASSUME MailInv, task \in [Requests -> Task], NEW r \in Requests, RequestInv(r), Received(r),
           NEW origin \in Workers, NEW m \in Mail, m.of = r, Winner(r, origin, m),
           r \notin late => origin = request[r].at /\ m.says = "found"
    PROVE  RequestInv(r)' /\ task'[r] \in Task
<1>0. UNCHANGED <<request, late>> /\ task'[r] = NoTask /\ task'[r] \in Task
  BY DEF Received, Winner, Task
<1>1. CASE UNCHANGED down
  BY <1>0, <1>1, NoNewMessage
<1>2. CASE down' = [down EXCEPT ![origin] = Append(@, m)]
  <2>1. r \notin late => Downward(r, origin, m.says)'
    BY <1>0 DEF Downward
  <2>. QED
    BY <1>0, <1>2, <2>1, NewDownward
<1>. QED
  BY <1>1, <1>2 DEF Winner

LEMMA MasterStep ==
    ASSUME PoolInv, MailInv, ApiInv, NEW w \in Workers, MasterReceives(w), MailInv'
    PROVE  task' \in [Requests -> Task] /\ \A q \in Requests : RequestInv(q)'
<1>0. /\ task \in [Requests -> Task] /\ \A q \in Requests : RequestInv(q)
      /\ DeadInv
  BY DEF ApiInv
<1>1. up[w] # <<>> /\ up' = [up EXCEPT ![w] = Tail(@)]
  BY DEF MasterReceives
<1>2. UpTook(w)
  BY <1>1, UpTaken
<1>3. PICK m \in Mail : m = Head(up[w])
  BY <1>2 DEF UpTook
<1>4. PICK r \in Requests : r = m.of
  BY MailSays
<1> DEFINE poll == task[r]
<1>5. /\ UNCHANGED <<connectionVars, request, late, there>>
      /\ \/ /\ poll.asks = w
            /\ IF Meaningful(r, m.says) THEN Winner(r, poll.origin, m)
               ELSE Poll(r, poll.origin, poll.todo, Message(r, "asked"))
         \/ poll.asks # w /\ Poll(r, w, Others(w), m)
         \/ poll.asks # w /\ Ignorable(m) /\ UNCHANGED <<task, down>>
  BY <1>3, <1>4 DEF MasterReceives
<1>6. /\ m \in Mail /\ r \in Requests /\ m = Message(r, m.says)
      /\ m.says \in {"asked", "found", "missing"} /\ request[r].id \in Keys
      /\ Message(r, "asked") \in Mail
      /\ Message(r, "asked").of = r /\ Message(r, "asked").says = "asked"
  BY <1>4, MailSays DEF Message, Mail
<1>7. /\ \A u \in Workers : \A x : Keeps(up[u], up'[u], x)
      /\ Received(r)
      /\ poll # NoTask => poll.asks = w
      /\ r \notin late => Upward(r, w, m.says)
  BY <1>3, <1>4, <1>5, <1>2 DEF UpTook, Received
<1>8. RequestInv(r) /\ poll \in Task /\ w # 0
  BY <1>0, <1>6, ConnectionsAssumption
<1>9. poll.asks = w => poll.origin \in Workers /\ poll.todo \in SUBSET Workers /\ poll # NoTask
  BY <1>8 DEF Task, NoTask
<1>10. r \notin late /\ poll.asks = w =>
        /\ poll.origin = request[r].at /\ request[r].at \notin poll.todo
        /\ w # request[r].at /\ m.says # "missing" /\ (m.says = "asked" => AtOneOf(r, poll.todo))
  BY <1>7, <1>9 DEF Received, Conversation, Upward
<1>11. r \notin late /\ poll.asks # w => /\ w = request[r].at /\ m.says = "asked"
                                        /\ AtOneOf(r, Others(w))
  <2> SUFFICES ASSUME r \notin late, poll.asks # w
               PROVE  w = request[r].at /\ m.says = "asked" /\ AtOneOf(r, Others(w))
    OBVIOUS
  <2>1. w = request[r].at /\ m.says = "asked"
    BY <1>7 DEF Upward
  <2>2. ASSUME NEW s \in there[r] PROVE home[s] \in alive \ {w}
    <3>1. s \in Sockets /\ stage[s] = "open"
      BY <1>6, <1>8, ThereHomes
    <3>2. home[s] \in alive
      BY <1>0, <3>1 DEF DeadInv
    <3>3. home[s] # w
      BY <1>7, <2>1 DEF Received, Conversation
    <3>. QED
      BY <3>2, <3>3
  <2>. QED
    BY <2>1, <2>2 DEF AtOneOf, Others
<1> HIDE DEF poll
<1>12. RequestInv(r)' /\ task'[r] \in Task
  <2>0. task \in [Requests -> Task] /\ r \in Requests /\ RequestInv(r) /\ Received(r)
    BY <1>0, <1>6, <1>7, <1>8
  <2>1. CASE poll.asks = w /\ Winner(r, poll.origin, m) /\ Meaningful(r, m.says)
    <3>1. r \notin late => poll.origin = request[r].at /\ m.says = "found"
      BY <1>10, <2>1 DEF Meaningful
    <3>2. m.of = r
      BY <1>4
    <3>3. poll.origin \in Workers /\ m \in Mail /\ Winner(r, poll.origin, m)
      BY <1>6, <1>9, <2>1
    <3>. QED
      BY <2>0, <3>1, <3>2, <3>3, WinnerRequest
  <2>2. CASE /\ poll.asks = w /\ ~Meaningful(r, m.says)
             /\ Poll(r, poll.origin, poll.todo, Message(r, "asked"))
    <3>1. r \notin late => /\ poll.origin = request[r].at /\ poll.origin \notin poll.todo
                           /\ AtOneOf(r, poll.todo)
      BY <1>6, <1>10, <2>2 DEF Meaningful
    <3>2. /\ poll.origin \in Workers /\ poll.todo \in SUBSET Workers
          /\ Poll(r, poll.origin, poll.todo, Message(r, "asked"))
      BY <1>9, <2>2
    <3>3. /\ Message(r, "asked") \in Mail
          /\ Message(r, "asked").of = r /\ Message(r, "asked").says = "asked"
      BY <1>6
    <3>. QED
      BY <2>0, <3>1, <3>2, <3>3, PollRequest
  <2>3. CASE poll.asks # w /\ Poll(r, w, Others(w), m)
    <3>1. Others(w) \in SUBSET Workers /\ w \notin Others(w)
      BY <1>0 DEF Others, DeadInv
    <3>2. m.of = r
      BY <1>4
    <3>3. r \notin late => w = request[r].at /\ AtOneOf(r, Others(w)) /\ m.says = "asked"
      BY <1>11, <2>3
    <3>4. m \in Mail /\ Poll(r, w, Others(w), m)
      BY <1>6, <2>3
    <3>. QED
      BY <2>0, <3>1, <3>2, <3>3, <3>4, PollRequest
  <2>4. CASE poll.asks # w /\ Ignorable(m) /\ UNCHANGED <<task, down>>
    <3>1. poll = NoTask /\ task'[r] = NoTask
      BY <1>7, <2>4 DEF poll
    <3>2. RequestInv(r)'
      BY <2>0, <2>4, <3>1, NoNewMessage
    <3>. QED
      BY <3>1, <3>2 DEF Task
  <2>. QED
    BY <1>5, <2>1, <2>2, <2>3, <2>4
<1>13. ASSUME NEW q \in Requests, q # r PROVE RequestInv(q)' /\ task'[q] = task[q]
  <2>1. task'[q] = task[q]
    BY <1>0, <1>5, <1>13 DEF Winner, Poll
  <2>2. ASSUME NEW u \in Workers PROVE Keeps(down[u], down'[u], q)
    <3>1. CASE UNCHANGED down
      BY <3>1, KeepsSame
    <3>2. ASSUME NEW v \in Workers, NEW n \in Mail, n.of = r, down' = [down EXCEPT ![v] = Append(@, n)]
          PROVE  Keeps(down[u], down'[u], q)
      <4>1. down \in [Workers -> Seq(Mail)]
        BY DEF MailInv
      <4>2. Posts(down, down', v, n)
        BY <3>2, <4>1 DEF Posts
      <4>3. PostedNow(down, down', v, n)
        BY <3>2, <4>1, <4>2, PostedTo
      <4>. QED
        BY <1>13, <3>2, <4>3 DEF PostedNow
    <3>3. Message(r, "missing") \in Mail /\ Message(r, "missing").of = r
      BY <1>6 DEF Mail, Message
    <3>4. ASSUME NEW origin \in Workers, NEW todo \in SUBSET Workers, NEW n \in Mail, n.of = r,
                 Poll(r, origin, todo, n) \/ Winner(r, origin, n)
          PROVE  Keeps(down[u], down'[u], q)
      BY <3>1, <3>2, <3>3, <3>4 DEF Poll, Winner
    <3>5. Others(w) \in SUBSET Workers /\ m.of = r
      BY <1>0, <1>4 DEF Others, DeadInv
    <3>. QED
      BY <1>5, <1>6, <1>9, <3>1, <3>4, <3>5
  <2>3. AllKept(q)
    BY <1>7, <2>2 DEF AllKept
  <2>4. ThereKept(q)
    BY <1>0, <1>5, <1>13, ThereSame DEF connectionVars, handshakeVars, poolVars
  <2>5. RequestInv(q)'
    BY <1>0, <1>5, <1>13, <2>1, <2>3, <2>4, RequestKept DEF connectionVars
  <2>. QED
    BY <2>1, <2>5
<1>14. task' \in [Requests -> Task]
  <2>1. \A q \in Requests : task'[q] \in Task
    BY <1>0, <1>12, <1>13
  <2>2. \E t : task' = [task EXCEPT ![r] = t]
    BY <1>0, <1>5, <1>6 DEF Winner, Poll
  <2>. QED
    BY <1>0, <1>6, <2>1, <2>2
<1>. QED
  BY <1>12, <1>13, <1>14

-----------------------------------------------------------------------------
(* The workers.                                                             *)

(* The message of a request has been taken from a channel to a worker.      *)
Got(r, w) ==
    /\ \A u \in Workers : ~Held(down'[u], r) /\ ~Held(up[u], r)
    /\ request[r].state # "none" /\ request[r].id \in Keys
    /\ task[r] # NoTask => task[r].asks = w
    /\ UNCHANGED <<alive, task, late>>
    /\ ThereKept(r)
    /\ r \notin late => request[r].state \in {"waiting", "failed"} /\ Conversation(r)

(* It was the answer: the request is settled.                               *)
LEMMA Settled ==
    ASSUME MailInv, NEW r \in Requests, RequestInv(r), NEW w \in Workers, Got(r, w), UNCHANGED up,
           NEW state \in {"found", "missing"}, request' = [request EXCEPT ![r].state = state],
           r \notin late => task[r] = NoTask /\ (state = "missing" => there[r] = {})
    PROVE  RequestInv(r)'
<1>1. request'[r].state = state /\ request'[r].id = request[r].id
  BY DEF MailInv, RequestType
<1>2. \A u \in Workers : ~Held(up'[u], r) /\ ~Held(down'[u], r)
  BY DEF Got
<1>3. OneMessageIn(up', down', task'[r], r)
  BY <1>2, NotHeldOnce DEF OneMessageIn
<1>4. CASE r \in late
  BY <1>1, <1>3, <1>4, LateRequest DEF Got
<1>5. CASE r \notin late
  <2>1. Silent(r)'
    BY <1>2 DEF Silent
  <2>2. task'[r] = NoTask /\ r \notin late' /\ (state = "missing" => there'[r] = {})
    BY <1>5 DEF Got, ThereKept
  <2>3. /\ there'[r] \subseteq Sockets /\ request'[r].id \in Keys
        /\ \A s \in there'[r] : \E u \in Workers : byId'[u][request'[r].id] = s
    BY <1>1 DEF RequestInv, ThereKept, Got
  <2>. QED
    BY <1>1, <1>3, <2>1, <2>2, <2>3 DEF RequestInv
<1>. QED
  BY <1>4, <1>5

(* It was taken for a question, and is answered.                            *)
LEMMA NewUpward ==
    ASSUME MailInv, NEW r \in Requests, RequestInv(r), NEW w \in Workers, Got(r, w),
           NEW n \in Mail, n.of = r, up' = [up EXCEPT ![w] = Append(@, n)], UNCHANGED request,
           r \notin late => Upward(r, w, n.says)'
    PROVE  RequestInv(r)'
<1>0. up \in [Workers -> Seq(Mail)]
  BY DEF MailInv
<1>1. PostedNow(up, up', w, n)
  <2>1. Posts(up, up', w, n)
    BY <1>0 DEF Posts
  <2>. QED
    BY <1>0, <2>1, PostedTo
<1>2. \A u \in Workers : ~Held(down'[u], r) /\ ~Held(up[u], r)
  BY DEF Got
<1>3. \A u \in Workers : /\ Once(up'[u], r)
                         /\ Held(up'[u], r) => u = w
                         /\ \A m : m.of = r /\ Contains(up'[u], m) => u = w /\ m = n
  BY <1>1, <1>2 DEF PostedNow
<1>4. OneMessageIn(up', down', task'[r], r)
  <2>1. \A u \in Workers : Once(down'[u], r) /\ ~Held(down'[u], r)
    BY <1>2, NotHeldOnce
  <2>2. task'[r] # NoTask => task'[r].asks = w
    BY DEF Got
  <2>. QED
    BY <1>3, <2>1, <2>2 DEF OneMessageIn
<1>5. CASE r \in late
  BY <1>4, <1>5, LateRequest DEF Got
<1>6. CASE r \notin late
  <2>1. Conversation(r) /\ UNCHANGED <<alive, task, late>>
    BY <1>6 DEF Got
  <2>2. ASSUME NEW u \in Workers, NEW says \in {"asked", "found", "missing"}
        PROVE  /\ ~Contains(down'[u], Message(r, says))
               /\ Contains(up'[u], Message(r, says)) => u = w /\ says = n.says
    <3>1. Message(r, says).of = r /\ Message(r, says).says = says
      BY DEF Message
    <3>2. ~Contains(down'[u], Message(r, says))
      BY <1>2, <3>1 DEF Contains, Held
    <3>. QED
      BY <1>3, <3>1, <3>2
  <2>3. Upward(r, w, n.says)'
    BY <1>6
  <2>4. ASSUME NEW u \in Workers, NEW says \in {"asked", "found", "missing"}
        PROVE  /\ Contains(up'[u], Message(r, says)) => Upward(r, u, says)'
               /\ Contains(down'[u], Message(r, says)) => Downward(r, u, says)'
    BY <2>2, <2>3
  <2>5. /\ request[r].at \in Workers
        /\ \A s \in there'[r] : home'[s] # request[r].at
        /\ request[r].state = "failed" => request[r].at \notin alive
        /\ task[r] # NoTask => /\ task[r].origin = request[r].at
                               /\ request[r].at \notin task[r].todo \cup {task[r].asks}
    BY <2>1 DEF Conversation, ThereKept, Got
  <2>6. Conversation(r)'
    BY <2>1, <2>4, <2>5 DEF Conversation, Message
  <2>7. /\ there'[r] \subseteq Sockets /\ request[r].id \in Keys
        /\ \A s \in there'[r] : \E u \in Workers : byId'[u][request'[r].id] = s
    BY DEF RequestInv, ThereKept, Got
  <2>8. request[r].state \in {"waiting", "failed"}
    BY <1>6 DEF Got
  <2>. QED
    BY <1>4, <2>6, <2>7, <2>8 DEF RequestInv
<1>. QED
  BY <1>5, <1>6

LEMMA WorkerStep ==
    ASSUME PoolInv, PoolInv', MailInv, ApiInv, NEW w \in Workers, WorkerReceives(w)
    PROVE  task' \in [Requests -> Task] /\ \A q \in Requests : RequestInv(q)'
<1>0. /\ task \in [Requests -> Task] /\ \A q \in Requests : RequestInv(q) /\ DeadInv
      /\ request \in [Requests -> RequestType]
  BY DEF ApiInv, MailInv
<1>1. /\ down[w] # <<>> /\ down' = [down EXCEPT ![w] = Tail(@)]
      /\ UNCHANGED <<alive, task, late>> /\ StillThere
  BY DEF WorkerReceives
<1>2. DownTook(w)
  BY <1>1, DownTaken
<1>3. PICK m \in Mail : m = Head(down[w])
  BY <1>2 DEF DownTook
<1>4. PICK r \in Requests : r = m.of
  BY MailSays
<1> DEFINE found == getConnectionById(w, request[r].id)
<1>5. \/ /\ request[r].at = w /\ request[r].state = "waiting"
         /\ request' = [request EXCEPT ![r].state = IF m.says = "found" THEN "found" ELSE "missing"]
         /\ UNCHANGED <<up, handshakeVars, poolVars>>
      \/ /\ request[r].at # w \/ request[r].state # "waiting"
         /\ Drops(request[r].kind, found)
         /\ up' = [up EXCEPT ![w] = Append(@, IF found # NoOne THEN Message(r, "found") ELSE m)]
         /\ UNCHANGED request
      \/ /\ request[r].at # w \/ request[r].state # "waiting"
         /\ Ignorable(m)
         /\ UNCHANGED <<up, request, handshakeVars, poolVars>>
  BY <1>3, <1>4 DEF WorkerReceives
<1>6. /\ m = Message(r, m.says) /\ m.says \in {"asked", "found", "missing"}
      /\ request[r].id \in Keys
      /\ Message(r, "found") \in Mail
      /\ Message(r, "found").of = r /\ Message(r, "found").says = "found"
  BY <1>4, MailSays DEF Message, Mail
<1>7. UNCHANGED home
  <2>1. found \in Sockets \cup {NoOne}
    BY <1>6 DEF getConnectionById, PoolInv, TypesInv
  <2>. QED
    BY <1>5 DEF Drops, CloseConnection, handshakeVars
<1>8. \A q \in Requests : ThereKept(q)
  BY <1>0, <1>1, <1>7, ThereStill DEF StillThere
<1>9. /\ Got(r, w)
      /\ \A u \in Workers : \A x : Keeps(down[u], down'[u], x)
      /\ r \notin late => Downward(r, w, m.says)
  BY <1>1, <1>2, <1>3, <1>4, <1>6, <1>8 DEF DownTook, Got
<1>10. r \notin late /\ (request[r].at # w \/ request[r].state # "waiting") =>
          w # request[r].at /\ task[r].asks = w /\ m.says = "asked" /\ AtOneOf(r, task[r].todo \cup {w})
  <2> SUFFICES ASSUME r \notin late, request[r].at # w \/ request[r].state # "waiting"
               PROVE  /\ w # request[r].at /\ task[r].asks = w /\ m.says = "asked"
                      /\ AtOneOf(r, task[r].todo \cup {w})
    OBVIOUS
  <2>1. w \in alive
    BY <1>0, <1>1 DEF DeadInv
  <2>2. w # request[r].at
    BY <1>9, <2>1 DEF Got, Conversation
  <2>. QED
    BY <1>9, <2>2 DEF Downward
<1> HIDE DEF found
<1>11. RequestInv(r)'
  <2>1. CASE /\ request[r].at = w /\ request[r].state = "waiting"
             /\ request' = [request EXCEPT ![r].state = IF m.says = "found" THEN "found" ELSE "missing"]
             /\ UNCHANGED <<up, handshakeVars, poolVars>>
    <3>1. PICK state \in {"found", "missing"} : state = IF m.says = "found" THEN "found" ELSE "missing"
      OBVIOUS
    <3>2. r \notin late => task[r] = NoTask /\ (state = "missing" => there[r] = {})
      BY <1>6, <1>9, <2>1, <3>1 DEF Downward
    <3>. QED
      BY <1>0, <1>9, <2>1, <3>1, <3>2, Settled
  <2>2. CASE /\ request[r].at # w \/ request[r].state # "waiting"
             /\ Drops(request[r].kind, found)
             /\ up' = [up EXCEPT ![w] = Append(@, IF found # NoOne THEN Message(r, "found") ELSE m)]
             /\ UNCHANGED request
    <3>1. CASE found # NoOne
      <4>1. r \notin late => Upward(r, w, "found")'
        BY <1>1, <1>10, <2>2 DEF Upward
      <4>. QED
        BY <1>0, <1>6, <1>9, <2>2, <3>1, <4>1, NewUpward
    <3>2. CASE found = NoOne
      <4>1. UNCHANGED byId
        BY <2>2, <3>2 DEF Drops, poolVars
      <4>2. ASSUME r \notin late, NEW s \in there'[r] PROVE home'[s] \in task'[r].todo
        <5>1. /\ s \in there[r] /\ home'[s] = home[s]
              /\ \E u \in Workers : byId'[u][request'[r].id] = s
          BY <1>8 DEF ThereKept
        <5>2. s \in Sockets /\ byId[home[s]][request[r].id] = s
          BY <1>0, <5>1, ThereHomes
        <5>3. home[s] # w
          BY <3>2, <5>2, ConnectionsAssumption DEF found, getConnectionById
        <5>. QED
          BY <1>1, <1>10, <2>2, <4>2, <5>1, <5>3 DEF AtOneOf
      <4>3. r \notin late => Upward(r, w, m.says)'
        BY <1>1, <1>10, <2>2, <4>2 DEF Upward, AtOneOf
      <4>. QED
        BY <1>0, <1>4, <1>9, <2>2, <3>2, <4>3, NewUpward
    <3>. QED
      BY <3>1, <3>2
  <2>3. CASE /\ request[r].at # w \/ request[r].state # "waiting"
             /\ Ignorable(m)
             /\ UNCHANGED <<up, request, handshakeVars, poolVars>>
    <3>1. r \in late
      BY <1>10, <2>3 DEF Ignorable
    <3>2. OneMessageIn(up', down', task'[r], r)
      <4>1. \A u \in Workers : ~Held(up'[u], r) /\ ~Held(down'[u], r)
        BY <1>9, <2>3 DEF Got
      <4>. QED
        BY <4>1, NotHeldOnce DEF OneMessageIn
    <3>. QED
      BY <1>0, <1>1, <1>6, <1>8, <1>9, <2>3, <3>1, <3>2, LateRequest DEF Got
  <2>. QED
    BY <1>5, <2>1, <2>2, <2>3
<1>12. ASSUME NEW q \in Requests, q # r PROVE RequestInv(q)'
  <2>1. request'[q] = request[q]
    BY <1>0, <1>5, <1>12
  <2>2. ASSUME NEW u \in Workers PROVE Keeps(up[u], up'[u], q)
    <3>1. CASE UNCHANGED up
      BY <3>1, KeepsSame
    <3>2. ASSUME NEW n \in Mail, n.of = r, up' = [up EXCEPT ![w] = Append(@, n)]
          PROVE  Keeps(up[u], up'[u], q)
      <4>1. up \in [Workers -> Seq(Mail)]
        BY DEF MailInv
      <4>2. Posts(up, up', w, n)
        BY <3>2, <4>1 DEF Posts
      <4>3. PostedNow(up, up', w, n)
        BY <3>2, <4>1, <4>2, PostedTo
      <4>. QED
        BY <1>12, <3>2, <4>3 DEF PostedNow
    <3>. QED
      BY <1>4, <1>5, <1>6, <3>1, <3>2
  <2>3. AllKept(q)
    BY <1>9, <2>2 DEF AllKept
  <2>. QED
    BY <1>0, <1>1, <1>8, <2>1, <2>3, RequestKept
<1>. QED
  BY <1>0, <1>1, <1>11, <1>12

-----------------------------------------------------------------------------
(* A request comes.                                                         *)

(* Dropping the one that was found takes nobody else out of a pool.         *)
LEMMA OthersStay ==
    ASSUME PoolInv, NEW kind, NEW w \in Workers, NEW k \in Keys, Drops(kind, getConnectionById(w, k)),
           NEW v \in Workers, byId[v][k] # NoOne, byId[v][k] # getConnectionById(w, k)
    PROVE  byId'[v][k] = byId[v][k] /\ byId[v][k] \in Sockets
<1> DEFINE found == getConnectionById(w, k)
<1>1. found = byId[w][k] /\ byId[v][k] \in Sockets
  BY PoolHomes DEF getConnectionById
<1> HIDE DEF found
<1>2. CASE UNCHANGED <<handshakeVars, poolVars>>
  BY <1>1, <1>2 DEF poolVars
<1>3. CASE found # NoOne /\ CloseConnection(found)
  <2>1. home[found] = w
    BY <1>1, <1>3, PoolHomes
  <2>2. byId' = [byId EXCEPT ![w][key[found]] = NoOne]
    BY <1>3, <2>1 DEF CloseConnection, removeConnection
  <2>3. v # w
    BY <1>1 DEF found
  <2>4. byId \in [Workers -> [Keys -> Sockets \cup {NoOne}]]
    BY DEF PoolInv, TypesInv
  <2>. QED
    BY <1>1, <2>2, <2>3, <2>4
<1>. QED
  BY <1>2, <1>3 DEF Drops, found

LEMMA NewRequest ==
    ASSUME PoolInv, MailInv, NEW r \in Requests, RequestInv(r), NEW w \in Workers,
           NEW kind \in {"status", "drop"}, NEW k \in Keys, Ask(r, w, kind, k)
    PROVE  RequestInv(r)'
<1> DEFINE found == getConnectionById(w, k)
<1>1. /\ request[r].state = "none" /\ UNCHANGED <<alive, down, task, late>>
      /\ Drops(kind, found)
      /\ up' = IF found # NoOne THEN up ELSE [up EXCEPT ![w] = Append(@, Message(r, "asked"))]
      /\ there'[r] = Registered(k) \ {found}
      /\ request'[r] = [kind |-> kind, id |-> k, at |-> w,
                        state |-> IF found # NoOne THEN "found" ELSE "waiting"]
  BY DEF Ask, MailInv
<1>2. found = byId[w][k]
  BY DEF getConnectionById
<1> HIDE DEF found
<1>3. /\ request'[r].id = k /\ request'[r].at = w
      /\ request'[r].state = IF found # NoOne THEN "found" ELSE "waiting"
  BY <1>1
<1>4. /\ Silent(r) /\ task[r] = NoTask /\ r \notin late /\ OneMessageIn(up, down, task[r], r)
  BY <1>1 DEF RequestInv
<1>5. ASSUME NEW s \in there'[r]
      PROVE  s \in Sockets /\ \E v \in Workers : byId'[v][k] = s /\ byId[v][k] = s /\ s # found
  <2>1. PICK v \in Workers : s = byId[v][k] /\ s # NoOne /\ s # found
    BY <1>1 DEF Registered
  <2>2. byId'[v][k] = s /\ s \in Sockets
    BY <1>1, <2>1, OthersStay DEF found
  <2>. QED
    BY <2>1, <2>2
<1>6. CASE found # NoOne
  <2>1. Silent(r)'
    BY <1>1, <1>4, <1>6 DEF Silent
  <2>2. OneMessageIn(up', down', task'[r], r)
    BY <1>1, <1>4, <1>6
  <2>3. /\ request'[r].id \in Keys /\ request'[r].state = "found"
        /\ task'[r] = NoTask /\ r \notin late'
    BY <1>1, <1>3, <1>4, <1>6
  <2>. QED
    BY <1>3, <1>5, <2>1, <2>2, <2>3 DEF RequestInv
<1>7. CASE found = NoOne
  <2> DEFINE n == Message(r, "asked")
  <2>0. n \in Mail' /\ n.of = r /\ n.says = "asked"
    BY <1>3 DEF Mail, Message
  <2>1. up \in [Workers -> Seq(Mail)] /\ up' = [up EXCEPT ![w] = Append(@, n)]
    BY <1>1, <1>7 DEF MailInv
  <2>2. Mail \subseteq Mail'
    <3>1. \A q \in Requests : request[q].id \in Keys => request'[q].id \in Keys
      BY <1>3 DEF Ask, MailInv
    <3>. QED
      BY <3>1 DEF Mail
  <2> HIDE DEF n
  <2>3. PostedNow(up, up', w, n)
    <3>1. Posts(up, up', w, n)
      BY <2>1 DEF Posts
    <3>2. up \in [Workers -> Seq(Mail')]
      BY <2>1, <2>2
    <3>. QED
      BY <2>0, <3>1, <3>2, PostedTo
  <2>4. \A u \in Workers : ~Held(up[u], r) /\ ~Held(down'[u], r)
    BY <1>1, <1>4 DEF Silent
  <2>5. \A u \in Workers : /\ Once(up'[u], r)
                           /\ Held(up'[u], r) => u = w
                           /\ \A m : m.of = r /\ Contains(up'[u], m) => u = w /\ m = n
    BY <2>0, <2>3, <2>4 DEF PostedNow
  <2>6. OneMessageIn(up', down', task'[r], r)
    <3>1. task'[r] = NoTask /\ \A u \in Workers : Once(down'[u], r)
      BY <1>1, <1>4, <2>4, NotHeldOnce
    <3>. QED
      BY <2>4, <2>5, <3>1 DEF OneMessageIn
  <2>7. ASSUME NEW s \in there'[r] PROVE home'[s] # w
    <3>1. PICK v \in Workers : byId[v][k] = s /\ s # NoOne
      BY <1>5, <1>7, <2>7
    <3>2. v # w /\ home[s] = v
      BY <1>2, <1>7, <3>1, PoolHomes
    <3>. QED
      BY <1>1, <1>7, <3>2 DEF Drops, handshakeVars
  <2>8. ASSUME NEW u \in Workers, NEW says \in {"asked", "found", "missing"}
        PROVE  /\ ~Contains(down'[u], Message(r, says))
               /\ Contains(up'[u], Message(r, says)) => u = w /\ says = "asked"
    <3>1. Message(r, says).of = r /\ Message(r, says).says = says
      BY DEF Message
    <3>2. ~Contains(down'[u], Message(r, says))
      BY <2>4, <3>1 DEF Contains, Held
    <3>. QED
      BY <2>0, <2>5, <3>1, <3>2
  <2>9. /\ request'[r].id \in Keys /\ request'[r].state = "waiting" /\ request'[r].at = w
        /\ task'[r] = NoTask /\ r \notin late'
    BY <1>1, <1>3, <1>4, <1>7
  <2>10. ASSUME NEW u \in Workers, NEW says \in {"asked", "found", "missing"}
         PROVE  /\ Contains(up'[u], Message(r, says)) => Upward(r, u, says)'
                /\ Contains(down'[u], Message(r, says)) => Downward(r, u, says)'
    BY <2>8, <2>9 DEF Upward
  <2>11. Conversation(r)'
    BY <2>7, <2>9, <2>10 DEF Conversation, Message
  <2>. QED
    BY <1>3, <1>5, <2>6, <2>9, <2>11 DEF RequestInv
<1>. QED
  BY <1>6, <1>7

LEMMA AskStep ==
    ASSUME PoolInv, MailInv, ApiInv, NEW r \in Requests, NEW w \in Workers,
           NEW kind \in {"status", "drop"}, NEW k \in Keys, Ask(r, w, kind, k)
    PROVE  \A q \in Requests : RequestInv(q)'
<1>1. \A q \in Requests : RequestInv(q)
  BY DEF ApiInv
<1>2. RequestInv(r)'
  BY <1>1, NewRequest
<1>3. ASSUME NEW q \in Requests, q # r PROVE RequestInv(q)'
  <2>1. /\ UNCHANGED <<alive, down, task, late>> /\ request'[q] = request[q]
        /\ there'[q] = Still(q)
        /\ Drops(kind, getConnectionById(w, k))
        /\ UNCHANGED up \/ up' = [up EXCEPT ![w] = Append(@, Message(r, "asked"))]
    BY <1>3 DEF Ask, MailInv
  <2>2. UNCHANGED home
    BY <2>1 DEF Drops, CloseConnection, handshakeVars
  <2>3. ThereKept(q)
    BY <1>1, <2>1, <2>2, ThereStill
  <2>4. ASSUME NEW u \in Workers PROVE Keeps(up[u], up'[u], q)
    <3>1. CASE UNCHANGED up
      BY <3>1, KeepsSame
    <3>2. CASE up' = [up EXCEPT ![w] = Append(@, Message(r, "asked"))]
      <4> DEFINE n == Message(r, "asked")
      <4>1. n.of = r /\ up \in [Workers -> Seq(Mail \cup {n})]
        BY DEF MailInv, Message
      <4>2. Posts(up, up', w, n)
        BY <3>2, <4>1 DEF Posts
      <4> HIDE DEF n
      <4>3. n \in Mail \cup {n}
        OBVIOUS
      <4>4. PostedNow(up, up', w, n)
        BY <4>1, <4>2, <4>3, PostedTo
      <4>. QED
        BY <1>3, <4>1, <4>4 DEF PostedNow
    <3>. QED
      BY <2>1, <3>1, <3>2
  <2>5. AllKept(q)
    BY <2>1, <2>4, KeepsSame DEF AllKept
  <2>. QED
    BY <1>1, <2>1, <2>3, <2>5, RequestKept
<1>. QED
  BY <1>2, <1>3

-----------------------------------------------------------------------------
(* Time-outs and the rest.                                                  *)

LEMMA TimeoutStep ==
    ASSUME MailInv, ApiInv, NEW r \in Requests, OriginTimeout(r) \/ MasterTimeout(r)
    PROVE  task' \in [Requests -> Task] /\ \A q \in Requests : RequestInv(q)'
<1>1. /\ UNCHANGED <<connectionVars, up, down, there>> /\ late' = late \cup {r}
      /\ \/ /\ request[r].state = "waiting" /\ UNCHANGED task
            /\ request' = [request EXCEPT ![r].state = "failed"]
         \/ task[r] # NoTask /\ task' = [task EXCEPT ![r] = NoTask] /\ UNCHANGED request
  BY DEF OriginTimeout, MasterTimeout
<1>2. /\ task \in [Requests -> Task] /\ NoTask \in Task /\ \A q \in Requests : RequestInv(q)
      /\ request \in [Requests -> RequestType]
  BY DEF ApiInv, Task, MailInv
<1>3. task' \in [Requests -> Task]
  BY <1>1, <1>2
<1>4. \A q \in Requests : AllKept(q)
  BY <1>1, KeepsSame DEF AllKept
<1>5. \A q \in Requests : request'[q].id = request[q].id
  BY <1>1, <1>2 DEF RequestType
<1>6. \A q \in Requests : ThereKept(q)
  BY <1>1, <1>2, <1>5, ThereSame DEF connectionVars, handshakeVars, poolVars
<1>7. RequestInv(r)'
  <2>1. request[r].state # "none" /\ request'[r].state # "none" /\ request[r].id \in Keys
    <3>1. request[r].state # "none"
      BY <1>1, <1>2 DEF RequestInv
    <3>2. request'[r].state \in {"failed", request[r].state}
      BY <1>1, <1>2 DEF RequestType
    <3>3. request[r].id \in Keys
      BY <1>2, <3>1 DEF RequestInv
    <3>. QED
      BY <3>1, <3>2, <3>3
  <2>2. task'[r] \in {task[r], NoTask} /\ OneMessageIn(up, down, task[r], r)
    BY <1>1, <1>2 DEF RequestInv
  <2>3. OneMessageIn(up', down', task'[r], r)
    BY <1>4, <2>2, FewerMessages
  <2>4. r \in late'
    BY <1>1
  <2>. QED
    BY <1>2, <1>5, <1>6, <2>1, <2>3, <2>4, LateRequest
<1>8. ASSUME NEW q \in Requests, q # r PROVE RequestInv(q)'
  <2>1. /\ task'[q] = task[q] /\ request'[q] = request[q] /\ alive' \subseteq alive
        /\ q \in late' <=> q \in late
    BY <1>1, <1>2, <1>8 DEF connectionVars
  <2>. QED
    BY <1>2, <1>4, <1>6, <2>1, RequestKept
<1>. QED
  BY <1>3, <1>7, <1>8

LEMMA ExitStep ==
    ASSUME PoolInv, MailInv, ApiInv, NEW w \in Workers, WorkerExit(w)
    PROVE  \A q \in Requests : RequestInv(q)'
<1>1. /\ UNCHANGED <<home, up, task, late>> /\ StillThere /\ alive' = alive \ {w}
      /\ down' = [down EXCEPT ![w] = <<>>]
      /\ request' = [r \in Requests |->
             IF request[r].at = w /\ request[r].state = "waiting"
             THEN [request[r] EXCEPT !.state = "failed"] ELSE request[r]]
  BY DEF WorkerExit, WorkerDies
<1>2. \A q \in Requests : RequestInv(q)
  BY DEF ApiInv
<1>3. ASSUME NEW q \in Requests PROVE RequestInv(q)'
  <2>1. ThereKept(q)
    BY <1>1, <1>2, ThereStill DEF StillThere
  <2>2. AllKept(q)
    <3>1. ASSUME NEW u \in Workers PROVE down'[u] = down[u] \/ down'[u] = <<>>
      BY <1>1 DEF MailInv
    <3>. QED
      BY <1>1, <3>1, KeepsSame, KeepsNone DEF AllKept
  <2>3. \/ request'[q] = request[q]
        \/ /\ request[q].state = "waiting" /\ request[q].at \notin alive'
           /\ request'[q] = [request[q] EXCEPT !.state = "failed"]
    BY <1>1
  <2>4. task'[q] = task[q] /\ (q \in late' <=> q \in late) /\ alive' \subseteq alive
    BY <1>1
  <2>. QED
    BY <1>2, <2>1, <2>2, <2>3, <2>4, RequestKept
<1>. QED
  BY <1>3

LEMMA HandshakesStep ==
    ASSUME PoolInv, MailInv, ApiInv, ConnectionStep
    PROVE  \A q \in Requests : RequestInv(q)'
<1>1. UNCHANGED <<request, up, down, task, late>> /\ StillThere
  BY DEF ConnectionStep
<1>2. (\A s \in Sockets : stage[s] # "away" => home'[s] = home[s]) /\ UNCHANGED alive
  <2>1. Lives
    BY DEF ApiInv, DeadInv, Lives
  <2>. QED
    BY <2>1, HomesKept, LivesHandshake, LivesClose DEF ConnectionStep
<1>3. \A q \in Requests : RequestInv(q)
  BY DEF ApiInv
<1>4. ASSUME NEW q \in Requests PROVE RequestInv(q)'
  <2>1. ThereKept(q)
    BY <1>1, <1>2, <1>3, ThereStill DEF StillThere
  <2>2. AllKept(q)
    BY <1>1, KeepsSame DEF AllKept
  <2>. QED
    BY <1>1, <1>2, <1>3, <2>1, <2>2, RequestKept
<1>. QED
  BY <1>4

LEMMA ApiInvInit == ConnectionApiInit => ApiInv
<1> SUFFICES ASSUME ConnectionApiInit PROVE ApiInv
  OBVIOUS
<1>1. task \in [Requests -> Task]
  BY DEF ConnectionApiInit, Task
<1>2. ASSUME NEW r \in Requests PROVE RequestInv(r)
  <2>1. /\ request[r].state = "none" /\ task[r] = NoTask /\ late = {} /\ there[r] = {}
        /\ \A w \in Workers : up[w] = <<>> /\ down[w] = <<>>
    BY <1>2 DEF ConnectionApiInit
  <2>2. \A w \in Workers : /\ ~Held(up[w], r) /\ ~Held(down[w], r)
                           /\ Once(up[w], r) /\ Once(down[w], r)
    BY <2>1, EmptySeq DEF Held, Once
  <2>3. Silent(r) /\ OneMessageIn(up, down, task[r], r)
    BY <2>2 DEF Silent, OneMessageIn
  <2>. QED
    BY <2>1, <2>3 DEF RequestInv
<1>. QED
  BY <1>1, <1>2, DeadInvInit DEF ApiInv

LEMMA ApiInvStep ==
    PoolInv /\ MailInv /\ ApiInv /\ [ConnectionApiNext]_<<connectionVars, apiVars>> => ApiInv'
<1> SUFFICES ASSUME PoolInv, MailInv, ApiInv, [ConnectionApiNext]_<<connectionVars, apiVars>>
             PROVE  ApiInv'
  OBVIOUS
<1>1. PoolInv' /\ MailInv' /\ DeadInv'
  BY PoolInvStep, MailInvStep, DeadInvStep DEF ApiInv
<1>2. task \in [Requests -> Task] /\ \A q \in Requests : RequestInv(q)
  BY DEF ApiInv
<1> DEFINE Goal == task' \in [Requests -> Task] /\ \A q \in Requests : RequestInv(q)'
<1>3. ASSUME ConnectionStep PROVE Goal
  BY <1>2, <1>3, HandshakesStep DEF ConnectionStep
<1>4. ASSUME NEW r \in Requests, OriginTimeout(r) \/ MasterTimeout(r) PROVE Goal
  BY <1>4, TimeoutStep
<1>5. ASSUME NEW r \in Requests, NEW w \in Workers, NEW kind \in {"status", "drop"}, NEW k \in Keys,
             Ask(r, w, kind, k)
      PROVE  Goal
  <2>1. UNCHANGED task
    BY <1>5 DEF Ask
  <2>2. \A q \in Requests : RequestInv(q)'
    BY <1>5, AskStep
  <2>. QED
    BY <1>2, <2>1, <2>2
<1>6. ASSUME NEW w \in Workers, MasterReceives(w) PROVE Goal
  BY <1>1, <1>6, MasterStep
<1>7. ASSUME NEW w \in Workers, WorkerReceives(w) PROVE Goal
  BY <1>1, <1>7, WorkerStep
<1>8. ASSUME NEW w \in Workers, WorkerExit(w) PROVE Goal
  BY <1>2, <1>8, ExitStep DEF WorkerExit
<1>9. ASSUME UNCHANGED <<connectionVars, apiVars>> PROVE Goal
  <2>1. UNCHANGED <<home, byId, alive, request, up, down, task, late, there>>
    BY <1>9 DEF connectionVars, handshakeVars, poolVars, apiVars
  <2>2. ASSUME NEW q \in Requests PROVE RequestInv(q)'
    <3>1. AllKept(q)
      BY <2>1, KeepsSame DEF AllKept
    <3>2. ThereKept(q)
      BY <1>2, <2>1, ThereSame
    <3>. QED
      BY <1>2, <2>1, <3>1, <3>2, RequestKept
  <2>. QED
    BY <1>2, <2>1, <2>2
<1>10. Goal
  BY <1>3, <1>4, <1>5, <1>6, <1>7, <1>8, <1>9 DEF ConnectionApiNext
<1>. QED
  BY <1>1, <1>10 DEF ApiInv

(* When the master has asked everybody and nobody has the connection, it is *)
(* nowhere: no worker is overlooked and no two answers are mixed up, for    *)
(* any number of workers, connections and requests, while connections come, *)
(* are dropped and workers die.                                             *)
THEOREM NobodyIsOverlooked == ConnectionApiSpec => []TruthfulAnswer
<1>1. ConnectionApiInit => PoolInv /\ MailInv /\ ApiInv
  BY PoolInvInit, MailInvInit, ApiInvInit DEF ConnectionApiInit
<1>2. ApiInv => TruthfulAnswer
  BY DEF ApiInv, RequestInv, TruthfulAnswer
<1>. QED
  BY <1>1, <1>2, MailInvStep, PoolInvStep, ApiInvStep, PTL DEF ConnectionApiSpec

(* The places of a request's messages, as the property counts them.         *)
LEMMA OneInFlight ==
    ASSUME MailInv, ApiInv, NEW r \in Requests
    PROVE  /\ Cardinality(InFlight(r)) <= 1
           /\ task[r] # NoTask => \A p \in InFlight(r) : p[1] \in {task[r].asks, 0 - task[r].asks}
           /\ Silent(r) => InFlight(r) = {}
<1> DEFINE Of(queue) == {i \in 1 .. Len(queue) : queue[i].of = r}
<1>1. OneMessageIn(up, down, task[r], r)
  BY DEF ApiInv, RequestInv
<1>2. ASSUME NEW p \in InFlight(r)
      PROVE  \E w \in Workers, i \in Nat :
                \/ p = <<w, i>> /\ i \in Of(up[w]) /\ Held(up[w], r)
                \/ p = <<0 - w, i>> /\ i \in Of(down[w]) /\ Held(down[w], r)
  <2>1. \E w \in Workers : p \in {w} \X Of(up[w]) \/ p \in {0 - w} \X Of(down[w])
    BY <1>2 DEF InFlight
  <2>2. \A w \in Workers : Len(up[w]) \in Nat /\ Len(down[w]) \in Nat
    BY LenProperties DEF MailInv
  <2>. QED
    BY <2>1, <2>2 DEF Held
<1> HIDE DEF Of
<1>3. ASSUME NEW p \in InFlight(r), NEW q \in InFlight(r) PROVE p = q
  <2>1. PICK v \in Workers, i \in Nat :
                \/ p = <<v, i>> /\ i \in Of(up[v]) /\ Held(up[v], r)
                \/ p = <<0 - v, i>> /\ i \in Of(down[v]) /\ Held(down[v], r)
    BY <1>2
  <2>2. PICK w \in Workers, j \in Nat :
                \/ q = <<w, j>> /\ j \in Of(up[w]) /\ Held(up[w], r)
                \/ q = <<0 - w, j>> /\ j \in Of(down[w]) /\ Held(down[w], r)
    BY <1>2
  <2>3. v = w
    BY <1>1, <2>1, <2>2 DEF OneMessageIn
  <2>4. ~(Held(up[v], r) /\ Held(down[w], r)) /\ ~(Held(up[w], r) /\ Held(down[v], r))
    BY <1>1 DEF OneMessageIn
  <2>5. (i \in Of(up[w]) /\ j \in Of(up[w])) \/ (i \in Of(down[w]) /\ j \in Of(down[w])) => i = j
    BY <1>1 DEF OneMessageIn, Once, Of
  <2>6. CASE p = <<v, i>> /\ i \in Of(up[v]) /\ Held(up[v], r)
    BY <2>2, <2>3, <2>4, <2>5, <2>6
  <2>7. CASE p = <<0 - v, i>> /\ i \in Of(down[v]) /\ Held(down[v], r)
    BY <2>2, <2>3, <2>4, <2>5, <2>7
  <2>. QED
    BY <2>1, <2>6, <2>7
<1>4. Cardinality(InFlight(r)) <= 1
  <2>1. CASE InFlight(r) = {}
    BY <2>1, FS_EmptySet
  <2>2. ASSUME NEW p \in InFlight(r) PROVE Cardinality(InFlight(r)) <= 1
    <3>1. InFlight(r) = {p}
      BY <1>3
    <3>2. Cardinality({p}) = 1
      BY FS_Singleton
    <3>. QED
      BY <3>1, <3>2
  <2>. QED
    BY <2>1, <2>2
<1>5. ASSUME task[r] # NoTask, NEW p \in InFlight(r)
      PROVE  p[1] \in {task[r].asks, 0 - task[r].asks}
  <2>1. PICK w \in Workers : p[1] \in {w, 0 - w} /\ (Held(up[w], r) \/ Held(down[w], r))
    BY <1>2
  <2>2. w = task[r].asks
    BY <1>1, <1>5, <2>1 DEF OneMessageIn
  <2>. QED
    BY <2>1, <2>2
<1>6. Silent(r) => InFlight(r) = {}
  BY <1>2 DEF Silent
<1>. QED
  BY <1>4, <1>5, <1>6

(* A request stays one conversation of one message with one worker, and     *)
(* leaves nothing behind that could be taken for a question once it has     *)
(* been answered in time: whatever the workers, requests and connections.   *)
THEOREM OneConversation == ConnectionApiSpec => []EchoOnlyAfterTimeout
<1>1. ConnectionApiInit => PoolInv /\ MailInv /\ ApiInv
  BY PoolInvInit, MailInvInit, ApiInvInit DEF ConnectionApiInit
<1>2. MailInv /\ ApiInv => EchoOnlyAfterTimeout
  <2> SUFFICES ASSUME MailInv, ApiInv, NEW r \in Requests
               PROVE  /\ Cardinality(InFlight(r)) <= 1
                      /\ task[r] # NoTask =>
                            \A p \in InFlight(r) : p[1] \in {task[r].asks, 0 - task[r].asks}
                      /\ request[r].state \in {"found", "missing"} /\ r \notin late =>
                            InFlight(r) = {} /\ task[r] = NoTask
    BY DEF EchoOnlyAfterTimeout
  <2>1. request[r].state \in {"found", "missing"} /\ r \notin late => Silent(r) /\ task[r] = NoTask
    BY DEF ApiInv, RequestInv
  <2>. QED
    BY <2>1, OneInFlight
<1>. QED
  BY <1>1, <1>2, MailInvStep, PoolInvStep, ApiInvStep, PTL DEF ConnectionApiSpec
================================================================================
