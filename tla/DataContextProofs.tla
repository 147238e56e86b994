--------------------------- MODULE DataContextProofs ---------------------------
(***************************************************************************)
(* A manager knows the connections of the pool and their subscriptions.    *)
(* What it will know is what it knows now, changed by the commands that    *)
(* are queued for it; the invariant says that this is what the events      *)
(* dispatched so far have asked for, and that every command finds in its   *)
(* turn what it was dispatched for.  It says so of two queues: that of     *)
(* resumed commands, about the manager they hold, and that of commands     *)
(* waiting for a load, about a manager that knows nothing yet.             *)
(***************************************************************************)
EXTENDS DataContext, SequenceTheorems, TLAPS

Joins(c) == {x \in Command : x.kind = "new" /\ x.conn = c}
Leaves(c) == {x \in Command : x.kind = "removed" /\ x.conn = c}
Enters(c, ch) == {x \in Command : x.kind = "subscribe" /\ x.conn = c /\ x.channel = ch}
Quits(c, ch) ==
    {x \in Command : x.kind = "unsubscribe" /\ x.conn = c /\ x.channel = ch} \cup Leaves(c)

(* Whether e is in a set that is S now, when command number i is reached:   *)
(* the commands in On put it there, those in Off take it out.               *)
At(queue, S, e, On, Off, i) ==
    \/ \E j \in 1..(i - 1) :
          queue[j] \in On /\ \A k \in (j + 1)..(i - 1) : queue[k] \notin Off
    \/ e \in S /\ \A k \in 1..(i - 1) : queue[k] \notin Off

Joined(queue, S, c, i) == At(queue, S, c, Joins(c), Leaves(c), i)
Subscribed(queue, P, c, ch, i) == At(queue, P, <<c, ch>>, Enters(c, ch), Quits(c, ch), i)

(* The commands of a queue find what they were dispatched for, in a manager *)
(* that has the members S and the channels P; states and lost are conn and  *)
(* stranded.                                                                *)
NewOK(queue, S, states, i) ==
    LET c == queue[i].conn IN
    /\ states[c] # "new"
    /\ c \notin S
    /\ \A j \in 1..Len(queue) : queue[j] \in Joins(c) => j = i

BroadcastOK(queue, S, P, lost, i) ==
    LET x == queue[i] IN
    \A c \in Conns \ lost :
        c \in x.expected <=> IF x.channel = Global THEN Joined(queue, S, c, i)
                             ELSE Subscribed(queue, P, c, x.channel, i)

QueueOK(queue, S, P, states, lost) ==
    \A i \in 1..Len(queue) :
        /\ queue[i].kind = "new" => NewOK(queue, S, states, i)
        /\ queue[i].kind = "subscribe" /\ queue[i].conn \notin lost =>
              Joined(queue, S, queue[i].conn, i)
        /\ queue[i].kind = "broadcast" => BroadcastOK(queue, S, P, lost, i)

(* At its end a queue leads to what has been asked for.                     *)
EndOK(queue, S, P, states, lost, asked) ==
    /\ \A c \in Conns \ lost :
          /\ Joined(queue, S, c, Len(queue) + 1) <=> states[c] = "open"
          /\ \A ch \in Channels :
                Subscribed(queue, P, c, ch, Len(queue) + 1) <=> <<c, ch>> \in asked
    /\ \A c \in lost :
          /\ states[c] # "new"
          /\ c \notin S
          /\ \A j \in 1..Len(queue) : queue[j] \notin Joins(c)

MembersOf(m) == IF m = 0 THEN {} ELSE members[m]
ChannelsOf(m) == IF m = 0 THEN {} ELSE contextChannels[m]

Live == IF entity = 0 THEN waiting ELSE resumed

ControlOK ==
    /\ entity # 0 => load = "none"
    /\ waiting # <<>> => load = "pending"
    /\ load = "pending" => created < MaxManagers
    /\ load = "failed" => resumed = <<>>
    /\ resumed # <<>> => held # 0 /\ (entity # 0 => held = entity)
    /\ resumed # <<>> => \A i \in 1..Len(waiting) : waiting[i].kind = "broadcast"

ManagerOK(m) ==
    /\ byConnection[m] \subseteq contextChannels[m]
    /\ \A c \in Conns, ch \in Channels :
          /\ <<c, ch>> \in byConnection[m] => c \in members[m]
          /\ <<c, ch>> \in contextChannels[m] => <<c, ch>> \in byConnection[m] \/ c \in stranded
    /\ \A c \in members[m] : conn[c] # "new"
    /\ m > created => members[m] = {} /\ contextChannels[m] = {}

RefusedOK == \A c \in Conns : conn[c] = "refused" => c \in stranded

WantsOK ==
    \A c \in Conns, ch \in Channels :
        <<c, ch>> \in wants => conn[c] = "open" \/ c \in stranded

IInv ==
    /\ TypeOK
    /\ ControlOK
    /\ \A m \in Managers : ManagerOK(m)
    /\ RefusedOK
    /\ WantsOK
    /\ QueueOK(resumed, MembersOf(held), ChannelsOf(held), conn, stranded)
    /\ QueueOK(waiting, {}, {}, conn, stranded)
    /\ EndOK(Live, MembersOf(entity), ChannelsOf(entity), conn, stranded, wants)

-----------------------------------------------------------------------------
(* Queues.                                                                  *)

LEMMA Fields ==
    ASSUME NEW x \in Command
    PROVE  /\ x.kind \in {"new", "removed", "subscribe", "unsubscribe", "broadcast"}
           /\ x.kind # "broadcast" => x.conn \in Conns
           /\ x.kind \in {"subscribe", "unsubscribe"} => x.channel \in Channels
           /\ x.kind = "broadcast" =>
                 x.channel \in Channels \cup {Global} /\ x.expected \subseteq Conns
BY DEF Command

LEMMA Opposite ==
    ASSUME NEW c, NEW ch
    PROVE  Joins(c) \cap Leaves(c) = {} /\ Enters(c, ch) \cap Quits(c, ch) = {}
BY DEF Joins, Leaves, Enters, Quits

LEMMA AtFirst ==
    ASSUME NEW queue, NEW S, NEW e, NEW On, NEW Off
    PROVE  At(queue, S, e, On, Off, 1) <=> e \in S
BY DEF At

(* With an empty queue the manager's connections are those it has.          *)
LEMMA NothingWaits ==
    ASSUME NEW S, NEW c
    PROVE  Joined(<<>>, S, c, Len(<<>>) + 1) <=> c \in S
<1>1. Len(<<>>) + 1 = 1
  BY EmptySeq
<1>2. Joined(<<>>, S, c, 1) <=> c \in S
  BY AtFirst DEF Joined
<1>. QED
  BY <1>1, <1>2

(* The first command has been executed.                                     *)
LEMMA AtTail ==
    ASSUME NEW T, NEW queue \in Seq(T), queue # <<>>, NEW S, NEW after, NEW e, NEW On, NEW Off,
           On \cap Off = {},
           e \in after <=> Head(queue) \in On \/ (e \in S /\ Head(queue) \notin Off),
           NEW i \in 1..Len(queue)
    PROVE  At(Tail(queue), after, e, On, Off, i) <=> At(queue, S, e, On, Off, i + 1)
<1> DEFINE t == Tail(queue)
<1>1. /\ Len(queue) \in Nat /\ Len(t) = Len(queue) - 1 /\ Head(queue) = queue[1]
      /\ \A k \in 1..Len(t) : t[k] = queue[k + 1]
  BY HeadTailProperties
<1>2. \A k \in 1..(i - 1) : t[k] = queue[k + 1]
  BY <1>1
<1> HIDE DEF t
<1>3. ASSUME NEW j \in 0..(i - 1)
      PROVE  (\A k \in (j + 1)..(i - 1) : t[k] \notin Off)
             <=> (\A k \in ((j + 1) + 1)..i : queue[k] \notin Off)
  <2>1. ASSUME \A k \in (j + 1)..(i - 1) : t[k] \notin Off, NEW k \in ((j + 1) + 1)..i
        PROVE  queue[k] \notin Off
    <3>1. k - 1 \in (j + 1)..(i - 1) /\ k - 1 \in 1..(i - 1) /\ (k - 1) + 1 = k
      OBVIOUS
    <3>. QED
      BY <1>2, <2>1, <3>1
  <2>2. ASSUME \A k \in ((j + 1) + 1)..i : queue[k] \notin Off, NEW k \in (j + 1)..(i - 1)
        PROVE  t[k] \notin Off
    <3>1. k + 1 \in ((j + 1) + 1)..i /\ k \in 1..(i - 1)
      OBVIOUS
    <3>. QED
      BY <1>2, <2>2, <3>1
  <2>. QED
    BY <2>1, <2>2
<1> DEFINE A(j) == \A k \in (j + 1)..(i - 1) : t[k] \notin Off
           B(j) == \A k \in (j + 1)..i : queue[k] \notin Off
<1>4. At(t, after, e, On, Off, i) <=>
          (\E j \in 1..(i - 1) : t[j] \in On /\ A(j)) \/ (e \in after /\ A(0))
  BY DEF At
<1>5. At(queue, S, e, On, Off, i + 1) <=>
          (\E j \in 1..i : queue[j] \in On /\ B(j)) \/ (e \in S /\ B(0))
  BY DEF At
<1>6. \A j \in 0..(i - 1) : A(j) <=> B(j + 1)
  BY <1>3
<1>7. B(0) <=> queue[1] \notin Off /\ B(1)
  <2>1. \A k \in 1..i : k = 1 \/ k \in 2..i
    OBVIOUS
  <2>2. 1 \in 1..i /\ 2..i \subseteq 1..i
    OBVIOUS
  <2>. QED
    BY <2>1, <2>2
<1> HIDE DEF A, B
<1>8. (\E j \in 1..i : queue[j] \in On /\ B(j)) <=>
          (queue[1] \in On /\ B(1)) \/ (\E j \in 1..(i - 1) : t[j] \in On /\ A(j))
  <2>1. ASSUME NEW j \in 1..i, queue[j] \in On, B(j), j # 1
        PROVE  \E l \in 1..(i - 1) : t[l] \in On /\ A(l)
    <3>1. j - 1 \in 1..(i - 1) /\ j - 1 \in 0..(i - 1) /\ (j - 1) + 1 = j
      BY <2>1
    <3>2. t[j - 1] \in On /\ A(j - 1)
      BY <1>2, <1>6, <2>1, <3>1
    <3>. QED
      BY <3>1, <3>2
  <2>2. ASSUME NEW l \in 1..(i - 1), t[l] \in On, A(l)
        PROVE  \E j \in 1..i : queue[j] \in On /\ B(j)
    <3>1. l + 1 \in 1..i /\ l \in 0..(i - 1)
      OBVIOUS
    <3>2. queue[l + 1] \in On /\ B(l + 1)
      BY <1>2, <1>6, <2>2, <3>1
    <3>. QED
      BY <3>1, <3>2
  <2>3. 1 \in 1..i
    OBVIOUS
  <2>. QED
    BY <2>1, <2>2, <2>3
<1>9. A(0) <=> B(1)
  <2>1. 0 \in 0..(i - 1) /\ 0 + 1 = 1
    OBVIOUS
  <2>. QED
    BY <1>6, <2>1
<1>. QED
  BY <1>1, <1>4, <1>5, <1>7, <1>8, <1>9 DEF t

(* Another command is queued.                                               *)
LEMMA AtAppend ==
    ASSUME NEW T, NEW queue \in Seq(T), NEW x \in T, NEW S, NEW e, NEW On, NEW Off
    PROVE  /\ \A i \in 1..(Len(queue) + 1) :
                 At(Append(queue, x), S, e, On, Off, i) <=> At(queue, S, e, On, Off, i)
           /\ At(Append(queue, x), S, e, On, Off, Len(queue) + 2) <=>
                 x \in On \/ (At(queue, S, e, On, Off, Len(queue) + 1) /\ x \notin Off)
<1> DEFINE q == Append(queue, x)
           n == Len(queue)
<1>1. /\ n \in Nat /\ q[n + 1] = x
      /\ \A k \in 1..n : q[k] = queue[k]
  BY AppendProperties
<1> HIDE DEF q, n
<1>2. ASSUME NEW i \in 1..(n + 1)
      PROVE  At(q, S, e, On, Off, i) <=> At(queue, S, e, On, Off, i)
  <2>1. \A k \in 1..(i - 1) : q[k] = queue[k]
    BY <1>1
  <2>2. \A j \in 0..(i - 1) : (j + 1)..(i - 1) \subseteq 1..(i - 1)
    OBVIOUS
  <2>3. \A j \in 1..(i - 1) : (\A k \in (j + 1)..(i - 1) : q[k] \notin Off)
            <=> (\A k \in (j + 1)..(i - 1) : queue[k] \notin Off)
    BY <2>1, <2>2
  <2>. QED
    BY <2>1, <2>3 DEF At
<1>3. At(q, S, e, On, Off, n + 2) <=> x \in On \/ (At(q, S, e, On, Off, n + 1) /\ x \notin Off)
  <2> DEFINE A(j) == \A k \in (j + 1)..n : q[k] \notin Off
             B(j) == \A k \in (j + 1)..(n + 1) : q[k] \notin Off
  <2>1. At(q, S, e, On, Off, n + 1) <=>
            (\E j \in 1..n : q[j] \in On /\ A(j)) \/ (e \in S /\ A(0))
    BY <1>1 DEF At
  <2>2. At(q, S, e, On, Off, n + 2) <=>
            (\E j \in 1..(n + 1) : q[j] \in On /\ B(j)) \/ (e \in S /\ B(0))
    <3>1. (n + 2) - 1 = n + 1
      BY <1>1
    <3>. QED
      BY <3>1 DEF At
  <2>3. \A j \in 0..n : B(j) <=> A(j) /\ x \notin Off
    <3> SUFFICES ASSUME NEW j \in 0..n PROVE B(j) <=> A(j) /\ x \notin Off
      OBVIOUS
    <3>1. \A k \in (j + 1)..(n + 1) : k \in (j + 1)..n \/ k = n + 1
      BY <1>1
    <3>2. (j + 1)..n \subseteq (j + 1)..(n + 1) /\ n + 1 \in (j + 1)..(n + 1)
      BY <1>1
    <3>. QED
      BY <1>1, <3>1, <3>2
  <2>4. B(n + 1)
    BY <1>1
  <2> HIDE DEF A, B
  <2>5. /\ \A j \in 1..(n + 1) : j = n + 1 \/ (j \in 1..n /\ j \in 0..n)
        /\ 1..n \subseteq 1..(n + 1) /\ n + 1 \in 1..(n + 1) /\ 0 \in 0..n
    BY <1>1
  <2>6. (\E j \in 1..(n + 1) : q[j] \in On /\ B(j)) <=>
            x \in On \/ (x \notin Off /\ \E j \in 1..n : q[j] \in On /\ A(j))
    BY <1>1, <2>3, <2>4, <2>5
  <2>. QED
    BY <2>1, <2>2, <2>3, <2>5, <2>6
<1>4. n + 1 \in 1..(n + 1)
  BY <1>1
<1>. QED
  BY <1>2, <1>3, <1>4 DEF q, n

(* A queue without its first command.                                       *)
LEMMA TailOK ==
    ASSUME NEW queue \in Seq(Command), queue # <<>>,
           NEW S, NEW P, NEW S1, NEW P1, NEW states, NEW lost, NEW lost1, lost \subseteq lost1,
           QueueOK(queue, S, P, states, lost),
           \A c \in Conns :
               c \in S1 <=> Head(queue) \in Joins(c) \/ (c \in S /\ Head(queue) \notin Leaves(c)),
           \A c \in Conns \ lost1, ch \in Channels :
               <<c, ch>> \in P1 <=>
                   \/ Head(queue) \in Enters(c, ch)
                   \/ <<c, ch>> \in P /\ Head(queue) \notin Quits(c, ch)
    PROVE  /\ QueueOK(Tail(queue), S1, P1, states, lost1)
           /\ \A c \in Conns : Joined(Tail(queue), S1, c, Len(Tail(queue)) + 1)
                                <=> Joined(queue, S, c, Len(queue) + 1)
           /\ \A c \in Conns \ lost1, ch \in Channels :
                 Subscribed(Tail(queue), P1, c, ch, Len(Tail(queue)) + 1)
                     <=> Subscribed(queue, P, c, ch, Len(queue) + 1)
<1> DEFINE t == Tail(queue)
           n == Len(queue)
<1>1. /\ n \in Nat /\ Len(t) = n - 1 /\ Head(queue) = queue[1] /\ n # 0
      /\ \A k \in 1..Len(t) : t[k] = queue[k + 1]
  BY HeadTailProperties, EmptySeq
<1>2. \A c \in Conns, i \in 1..n : Joined(t, S1, c, i) <=> Joined(queue, S, c, i + 1)
  BY AtTail, Opposite DEF Joined
<1>3. \A c \in Conns \ lost1, ch \in Channels, i \in 1..n :
          Subscribed(t, P1, c, ch, i) <=> Subscribed(queue, P, c, ch, i + 1)
  BY AtTail, Opposite DEF Subscribed
<1> HIDE DEF t, n
<1>4. ASSUME NEW i \in 1..Len(t)
      PROVE  /\ t[i].kind = "new" => NewOK(t, S1, states, i)
             /\ t[i].kind = "subscribe" /\ t[i].conn \notin lost1 => Joined(t, S1, t[i].conn, i)
             /\ t[i].kind = "broadcast" => BroadcastOK(t, S1, P1, lost1, i)
  <2> DEFINE x == t[i]
  <2>1. /\ i \in 1..n /\ i + 1 \in 1..n /\ x = queue[i + 1] /\ x \in Command /\ 1 \in 1..n
    BY <1>1, ElementOfSeq DEF n
  <2>2. /\ x.kind = "new" => NewOK(queue, S, states, i + 1)
        /\ x.kind = "subscribe" /\ x.conn \notin lost => Joined(queue, S, x.conn, i + 1)
        /\ x.kind = "broadcast" => BroadcastOK(queue, S, P, lost, i + 1)
    BY <2>1 DEF QueueOK, n
  <2>3. ASSUME x.kind = "new" PROVE NewOK(t, S1, states, i)
    <3> DEFINE c == x.conn
    <3>1. /\ c \in Conns /\ states[c] # "new" /\ c \notin S
          /\ \A j \in 1..n : queue[j] \in Joins(c) => j = i + 1
      BY <2>1, <2>2, <2>3, Fields DEF NewOK, n
    <3> HIDE DEF c
    <3>2. queue[1] \notin Joins(c)
      BY <2>1, <3>1
    <3>3. c \notin S1
      BY <1>1, <3>1, <3>2
    <3>4. ASSUME NEW j \in 1..Len(t), t[j] \in Joins(c) PROVE j = i
      BY <1>1, <3>1, <3>4, SMTT(30)
    <3>. QED
      BY <3>1, <3>3, <3>4 DEF NewOK, c
  <2>4. ASSUME x.kind = "subscribe", x.conn \notin lost1 PROVE Joined(t, S1, x.conn, i)
    BY <1>2, <2>1, <2>2, <2>4, Fields
  <2>5. ASSUME x.kind = "broadcast" PROVE BroadcastOK(t, S1, P1, lost1, i)
    <3>1. x.channel \in Channels \cup {Global}
      BY <2>1, <2>5, Fields
    <3>. QED
      BY <1>2, <1>3, <2>1, <2>2, <2>5, <3>1 DEF BroadcastOK
  <2>. QED
    BY <2>3, <2>4, <2>5
<1>5. n \in 1..n /\ Len(t) + 1 = n
  BY <1>1
<1>. QED
  BY <1>2, <1>3, <1>4, <1>5 DEF QueueOK, t, n

(* A queue with another command, x, and what its event asks for.            *)
LEMMA AppendOK ==
    ASSUME NEW queue \in Seq(Command), NEW x \in Command, NEW S, NEW P, NEW states, NEW states1,
           NEW lost, NEW asked, NEW asked1,
           QueueOK(queue, S, P, states, lost), EndOK(queue, S, P, states, lost, asked),
           \A c \in Conns : states[c] # "new" => states1[c] # "new",
           lost \subseteq Conns, \A c \in S : states[c] # "new",
           x.kind = "new" => states[x.conn] = "new" /\ states1[x.conn] # "new",
           x.kind = "subscribe" => states[x.conn] = "open" \/ x.conn \in lost,
           x.kind = "broadcast" => \A c \in Conns :
               c \in x.expected <=> IF x.channel = Global THEN states[c] = "open"
                                    ELSE <<c, x.channel>> \in asked,
           \A c \in Conns :
               states1[c] = "open" <=> x \in Joins(c) \/ (states[c] = "open" /\ x \notin Leaves(c)),
           \A c \in Conns, ch \in Channels :
               <<c, ch>> \in asked1 <=>
                   x \in Enters(c, ch) \/ (<<c, ch>> \in asked /\ x \notin Quits(c, ch))
    PROVE  /\ QueueOK(Append(queue, x), S, P, states1, lost)
           /\ EndOK(Append(queue, x), S, P, states1, lost, asked1)
<1> DEFINE q == Append(queue, x)
           n == Len(queue)
<1>1. /\ n \in Nat /\ Len(q) = n + 1 /\ q[n + 1] = x
      /\ \A k \in 1..n : q[k] = queue[k] /\ queue[k] \in Command
  BY AppendProperties, ElementOfSeq
<1>2. \A c \in Conns :
          /\ \A i \in 1..(n + 1) : Joined(q, S, c, i) <=> Joined(queue, S, c, i)
          /\ Joined(q, S, c, n + 2) <=>
                x \in Joins(c) \/ (Joined(queue, S, c, n + 1) /\ x \notin Leaves(c))
  BY AtAppend DEF Joined
<1>3. \A c \in Conns, ch \in Channels :
          /\ \A i \in 1..(n + 1) : Subscribed(q, P, c, ch, i) <=> Subscribed(queue, P, c, ch, i)
          /\ Subscribed(q, P, c, ch, n + 2) <=>
                x \in Enters(c, ch) \/ (Subscribed(queue, P, c, ch, n + 1) /\ x \notin Quits(c, ch))
  <2> TAKE c \in Conns, ch \in Channels
  <2> DEFINE On == Enters(c, ch)
             Off == Quits(c, ch)
             e == <<c, ch>>
  <2> HIDE DEF On, Off, e
  <2>1. /\ \A i \in 1..(n + 1) : At(q, P, e, On, Off, i) <=> At(queue, P, e, On, Off, i)
        /\ At(q, P, e, On, Off, n + 2) <=>
              x \in On \/ (At(queue, P, e, On, Off, n + 1) /\ x \notin Off)
    BY AtAppend
  <2>. QED
    BY <2>1 DEF Subscribed, On, Off, e
<1>4. \A i \in 1..n :
          /\ queue[i].kind = "new" => NewOK(queue, S, states, i)
          /\ queue[i].kind = "subscribe" /\ queue[i].conn \notin lost =>
                Joined(queue, S, queue[i].conn, i)
          /\ queue[i].kind = "broadcast" => BroadcastOK(queue, S, P, lost, i)
  BY DEF QueueOK
<1>5. /\ \A c \in Conns \ lost :
            /\ Joined(queue, S, c, n + 1) <=> states[c] = "open"
            /\ \A ch \in Channels : Subscribed(queue, P, c, ch, n + 1) <=> <<c, ch>> \in asked
      /\ \A c \in lost :
            /\ states[c] # "new" /\ c \notin S
            /\ \A j \in 1..n : queue[j] \notin Joins(c)
  BY DEF EndOK
<1> HIDE DEF q, n
<1>6. ASSUME NEW c \in Conns, NEW j \in 1..n, queue[j] \in Joins(c) PROVE states[c] # "new"
  <2>1. queue[j].kind = "new" /\ queue[j].conn = c
    BY <1>6 DEF Joins
  <2>. QED
    BY <1>4, <2>1 DEF NewOK
<1>7. ASSUME NEW c \in Conns, x \in Joins(c)
      PROVE  x.kind = "new" /\ x.conn = c /\ states[c] = "new"
  BY <1>7 DEF Joins
<1>8. ASSUME NEW i \in 1..n
      PROVE  /\ q[i].kind = "new" => NewOK(q, S, states1, i)
             /\ q[i].kind = "subscribe" /\ q[i].conn \notin lost => Joined(q, S, q[i].conn, i)
             /\ q[i].kind = "broadcast" => BroadcastOK(q, S, P, lost, i)
  <2> DEFINE y == queue[i]
  <2>1. q[i] = y /\ y \in Command /\ i \in 1..(n + 1)
    BY <1>1
  <2>2. /\ y.kind = "new" => NewOK(queue, S, states, i)
        /\ y.kind = "subscribe" /\ y.conn \notin lost => Joined(queue, S, y.conn, i)
        /\ y.kind = "broadcast" => BroadcastOK(queue, S, P, lost, i)
    BY <1>4
  <2>3. ASSUME y.kind = "new" PROVE NewOK(q, S, states1, i)
    <3> DEFINE c == y.conn
    <3>1. /\ c \in Conns /\ states[c] # "new" /\ c \notin S
          /\ \A j \in 1..n : queue[j] \in Joins(c) => j = i
      BY <2>1, <2>2, <2>3, Fields DEF NewOK, n
    <3> HIDE DEF c
    <3>2. x \notin Joins(c)
      BY <1>7, <3>1
    <3>3. ASSUME NEW j \in 1..Len(q), q[j] \in Joins(c) PROVE j = i
      <4>1. j \in 1..n \/ j = n + 1
        BY <1>1
      <4>. QED
        BY <1>1, <3>1, <3>2, <3>3, <4>1
    <3>4. states1[c] # "new"
      BY <3>1
    <3>. QED
      BY <2>1, <3>1, <3>3, <3>4 DEF NewOK, c
  <2>4. ASSUME y.kind = "subscribe", y.conn \notin lost PROVE Joined(q, S, y.conn, i)
    BY <1>2, <2>1, <2>2, <2>4, Fields
  <2>5. ASSUME y.kind = "broadcast" PROVE BroadcastOK(q, S, P, lost, i)
    <3>1. y.channel \in Channels \cup {Global}
      BY <2>1, <2>5, Fields
    <3>2. BroadcastOK(queue, S, P, lost, i)
      BY <2>2, <2>5
    <3>. QED
      BY <1>2, <1>3, <2>1, <3>1, <3>2 DEF BroadcastOK
  <2>. QED
    BY <2>1, <2>3, <2>4, <2>5
<1>9. /\ x.kind = "new" => NewOK(q, S, states1, n + 1)
      /\ x.kind = "subscribe" /\ x.conn \notin lost => Joined(q, S, x.conn, n + 1)
      /\ x.kind = "broadcast" => BroadcastOK(q, S, P, lost, n + 1)
  <2>0. n + 1 \in 1..(n + 1)
    BY <1>1
  <2>1. ASSUME x.kind = "new" PROVE NewOK(q, S, states1, n + 1)
    <3> DEFINE c == x.conn
    <3>1. c \in Conns /\ states[c] = "new" /\ states1[c] # "new" /\ c \notin S
      BY <2>1, Fields
    <3> HIDE DEF c
    <3>2. ASSUME NEW j \in 1..Len(q), q[j] \in Joins(c) PROVE j = n + 1
      <4>1. j \in 1..n \/ j = n + 1
        BY <1>1
      <4>. QED
        BY <1>1, <1>6, <3>1, <3>2, <4>1
    <3>. QED
      BY <1>1, <3>1, <3>2 DEF NewOK, c
  <2>2. ASSUME x.kind = "subscribe", x.conn \notin lost PROVE Joined(q, S, x.conn, n + 1)
    BY <1>2, <1>5, <2>0, <2>2, Fields
  <2>3. ASSUME x.kind = "broadcast" PROVE BroadcastOK(q, S, P, lost, n + 1)
    <3>1. x.channel \in Channels \cup {Global}
      BY <2>3, Fields
    <3>. QED
      BY <1>1, <1>2, <1>3, <1>5, <2>0, <2>3, <3>1 DEF BroadcastOK
  <2>. QED
    BY <2>1, <2>2, <2>3
<1>10. QueueOK(q, S, P, states1, lost)
  <2>1. \A i \in 1..Len(q) : i \in 1..n \/ i = n + 1
    BY <1>1
  <2>. QED
    BY <1>1, <1>8, <1>9, <2>1 DEF QueueOK
<1>11. EndOK(q, S, P, states1, lost, asked1)
  <2>1. Len(q) + 1 = n + 2
    BY <1>1
  <2>2. \A c \in Conns \ lost : Joined(q, S, c, n + 2) <=> states1[c] = "open"
    BY <1>2, <1>5
  <2>3. \A c \in Conns \ lost, ch \in Channels :
            Subscribed(q, P, c, ch, n + 2) <=> <<c, ch>> \in asked1
    BY <1>3, <1>5
  <2>4. ASSUME NEW c \in lost
        PROVE  /\ states1[c] # "new" /\ c \notin S
               /\ \A j \in 1..Len(q) : q[j] \notin Joins(c)
    <3>1. c \in Conns /\ states[c] # "new" /\ states1[c] # "new" /\ c \notin S
      BY <1>5
    <3>2. x \notin Joins(c)
      BY <1>7, <3>1
    <3>3. \A j \in 1..Len(q) : j \in 1..n \/ j = n + 1
      BY <1>1
    <3>. QED
      BY <1>1, <1>5, <3>1, <3>2, <3>3
  <2>. QED
    BY <2>1, <2>2, <2>3, <2>4 DEF EndOK
<1>. QED
  BY <1>10, <1>11 DEF q

-----------------------------------------------------------------------------
(* Steps.                                                                   *)

LEMMA IInvInit == Init => IInv
<1> SUFFICES ASSUME Init PROVE IInv
  OBVIOUS
<1>1. /\ <<>> \in Seq(Command) /\ Len(<<>>) = 0
  BY EmptySeq
<1>2. TypeOK
  BY <1>1, BoundsAssumption DEF Init, TypeOK, Pairs, Managers
<1>3. ControlOK
  BY DEF Init, ControlOK
<1>4. \A m \in Managers : ManagerOK(m)
  BY DEF Init, ManagerOK
<1>5. RefusedOK /\ WantsOK
  BY DEF Init, RefusedOK, WantsOK
<1>6. QueueOK(resumed, MembersOf(held), ChannelsOf(held), conn, stranded)
      /\ QueueOK(waiting, {}, {}, conn, stranded)
  BY <1>1 DEF Init, QueueOK
<1>7. EndOK(Live, MembersOf(entity), ChannelsOf(entity), conn, stranded, wants)
  <2>1. /\ Live = <<>> /\ MembersOf(entity) = {} /\ ChannelsOf(entity) = {} /\ stranded = {}
        /\ wants = {} /\ \A c \in Conns : conn[c] = "new"
    BY DEF Init, Live, MembersOf, ChannelsOf
  <2>2. EndOK(<<>>, {}, {}, conn, {}, {})
    BY <1>1, <2>1, AtFirst DEF EndOK, Joined, Subscribed
  <2>. QED
    BY <2>1, <2>2
<1>. QED
  BY <1>2, <1>3, <1>4, <1>5, <1>6, <1>7 DEF IInv

(* Nobody is connected but those whose registration came to nothing.        *)
LEMMA NothingLeft ==
    ASSUME NEW states, NEW lost, NEW asked,
           \A c \in Conns \ lost : states[c] # "open",
           \A c \in Conns, ch \in Channels :
               <<c, ch>> \in asked => states[c] = "open" \/ c \in lost,
           \A c \in lost : states[c] # "new"
    PROVE  EndOK(<<>>, {}, {}, states, lost, asked)
<1>1. Len(<<>>) = 0
  BY EmptySeq
<1>. QED
  BY <1>1, AtFirst DEF EndOK, Joined, Subscribed

(* An event dispatches the command x.                                       *)
LEMMA Dispatched ==
    ASSUME IInv, NEW x \in Command, GetContextManager(x),
           UNCHANGED <<entity, created, managers>>,
           Quiet \/ x.kind = "broadcast",
           conn' \in [Conns -> {"new", "open", "refused", "removed"}], wants' \subseteq Pairs,
           \A c \in Conns : conn[c] # "new" => conn'[c] # "new",
           \A c \in Conns : conn'[c] = "refused" => conn[c] = "refused",
           x.kind = "new" => conn[x.conn] = "new" /\ conn'[x.conn] # "new",
           x.kind = "subscribe" => conn[x.conn] = "open" \/ x.conn \in stranded,
           x.kind = "broadcast" => \A c \in Conns :
               c \in x.expected <=> IF x.channel = Global THEN conn[c] = "open"
                                    ELSE <<c, x.channel>> \in wants,
           \A c \in Conns :
               conn'[c] = "open" <=> x \in Joins(c) \/ (conn[c] = "open" /\ x \notin Leaves(c)),
           \A c \in Conns, ch \in Channels :
               <<c, ch>> \in wants' <=>
                   x \in Enters(c, ch) \/ (<<c, ch>> \in wants /\ x \notin Quits(c, ch)),
           \A c \in Conns, ch \in Channels :
               <<c, ch>> \in wants' => conn'[c] = "open" \/ c \in stranded
    PROVE  IInv'
<1>0. RefusedOK' /\ WantsOK'
  <2>1. stranded \subseteq stranded'
    BY DEF GetContextManager
  <2>. QED
    BY <2>1 DEF IInv, RefusedOK, WantsOK
<1>1. /\ TypeOK /\ ControlOK /\ \A m \in Managers : ManagerOK(m)
      /\ QueueOK(resumed, MembersOf(held), ChannelsOf(held), conn, stranded)
      /\ QueueOK(waiting, {}, {}, conn, stranded)
      /\ EndOK(Live, MembersOf(entity), ChannelsOf(entity), conn, stranded, wants)
  BY DEF IInv
<1>2. /\ waiting \in Seq(Command) /\ resumed \in Seq(Command) /\ stranded \subseteq Conns
      /\ entity \in 0..created /\ created \in 0..MaxManagers /\ held \in 0..created
      /\ load \in {"none", "pending", "failed"}
  BY <1>1 DEF TypeOK
<1>3. /\ Len(waiting) \in Nat /\ Len(resumed) \in Nat /\ Len(<<>>) = 0
  BY <1>2, EmptySeq, LenProperties
<1>4. ASSUME stranded' = stranded PROVE \A m \in Managers : ManagerOK(m)'
  BY <1>1, <1>4 DEF ManagerOK, managers, TypeOK
<1>5. ASSUME NEW S, NEW P, NEW states, NEW lost PROVE QueueOK(<<>>, S, P, states, lost)
  BY <1>3 DEF QueueOK
<1>6. ASSUME NEW queue \in Seq(Command), NEW S, NEW P, QueueOK(queue, S, P, conn, stranded)
      PROVE  QueueOK(queue, S, P, conn', stranded)
  <2>1. \A i \in 1..Len(queue) : queue[i] \in Command
    BY <1>6, ElementOfSeq
  <2>. QED
    BY <1>6, <2>1, Fields DEF QueueOK, NewOK
<1>7. CASE entity # 0
  <2>1. /\ resumed' = Append(resumed, x) /\ held' = entity
        /\ UNCHANGED <<load, waiting, stranded>>
    BY <1>7 DEF GetContextManager
  <2>2. /\ waiting = <<>> /\ load = "none" /\ entity \in Managers
        /\ Live = resumed /\ MembersOf(entity) = members[entity]
        /\ ChannelsOf(entity) = contextChannels[entity]
    BY <1>1, <1>2, <1>7, BoundsAssumption DEF ControlOK, Live, MembersOf, ChannelsOf, Managers
  <2> DEFINE S == MembersOf(entity)
             P == ChannelsOf(entity)
  <2>3. QueueOK(resumed, S, P, conn, stranded)
    <3>1. CASE resumed = <<>>
      BY <1>5, <3>1
    <3>2. CASE resumed # <<>>
      <4>1. held = entity
        BY <1>1, <1>7, <3>2 DEF ControlOK
      <4>. QED
        BY <1>1, <4>1
    <3>. QED
      BY <3>1, <3>2
  <2>4. \A c \in S : conn[c] # "new"
    BY <1>1, <2>2 DEF ManagerOK
  <2>5. EndOK(resumed, S, P, conn, stranded, wants)
    BY <1>1, <2>2
  <2>6. /\ MembersOf(held)' = S /\ ChannelsOf(held)' = P
        /\ MembersOf(entity)' = S /\ ChannelsOf(entity)' = P /\ Live' = resumed'
    BY <1>7, <2>1 DEF MembersOf, ChannelsOf, Live, managers
  <2> HIDE DEF S, P
  <2>7. /\ QueueOK(resumed', S, P, conn', stranded)
        /\ EndOK(resumed', S, P, conn', stranded, wants')
    BY <1>2, <2>1, <2>3, <2>4, <2>5, AppendOK
  <2>8. QueueOK(waiting, {}, {}, conn', stranded)
    BY <1>5, <2>2
  <2>9. resumed' \in Seq(Command) /\ resumed' # <<>>
    BY <1>2, <2>1, AppendProperties
  <2>10. TypeOK'
    BY <1>1, <2>1, <2>9 DEF TypeOK, managers
  <2>11. ControlOK'
    BY <1>1, <1>3, <1>7, <2>1, <2>2 DEF ControlOK
  <2>12. /\ QueueOK(resumed, MembersOf(held), ChannelsOf(held), conn, stranded)'
         /\ QueueOK(waiting, {}, {}, conn, stranded)'
         /\ EndOK(Live, MembersOf(entity), ChannelsOf(entity), conn, stranded, wants)'
    BY <2>1, <2>6, <2>7, <2>8
  <2>. QED
    BY <1>0, <1>4, <2>1, <2>10, <2>11, <2>12 DEF IInv
<1>8. CASE entity = 0 /\ load # "failed"
  <2>1. /\ created < MaxManagers /\ load' = "pending" /\ waiting' = Append(waiting, x)
        /\ UNCHANGED <<resumed, held, stranded>>
    BY <1>8 DEF GetContextManager, Wait
  <2>2. Live = waiting /\ MembersOf(entity) = {} /\ ChannelsOf(entity) = {}
    BY <1>8 DEF Live, MembersOf, ChannelsOf
  <2>3. /\ QueueOK(waiting', {}, {}, conn', stranded)
        /\ EndOK(waiting', {}, {}, conn', stranded, wants')
    <3>1. PICK none : none = {}
      OBVIOUS
    <3>2. /\ QueueOK(waiting, none, none, conn, stranded)
          /\ EndOK(waiting, none, none, conn, stranded, wants)
          /\ \A c \in none : conn[c] # "new"
      BY <1>1, <2>2, <3>1
    <3>3. /\ QueueOK(Append(waiting, x), none, none, conn', stranded)
          /\ EndOK(Append(waiting, x), none, none, conn', stranded, wants')
      BY <1>2, <3>2, AppendOK
    <3>. QED
      BY <2>1, <3>1, <3>3
  <2>4. /\ MembersOf(held)' = MembersOf(held) /\ ChannelsOf(held)' = ChannelsOf(held)
        /\ MembersOf(entity)' = {} /\ ChannelsOf(entity)' = {} /\ Live' = waiting'
    BY <1>8, <2>1 DEF MembersOf, ChannelsOf, Live, managers
  <2>5. QueueOK(resumed, MembersOf(held), ChannelsOf(held), conn', stranded)
    BY <1>1, <1>2, <1>6
  <2>6. waiting' \in Seq(Command)
    BY <1>2, <2>1, AppendProperties
  <2>7. TypeOK'
    BY <1>1, <2>1, <2>6 DEF TypeOK, managers
  <2>8. ASSUME resumed # <<>>, NEW i \in 1..Len(waiting') PROVE waiting'[i].kind = "broadcast"
    <3>1. /\ \A j \in 1..Len(waiting) : waiting[j].kind = "broadcast"
          /\ x.kind = "broadcast"
      BY <1>1, <2>8 DEF ControlOK, Quiet
    <3>2. Len(waiting') = Len(waiting) + 1 /\ waiting'[Len(waiting) + 1] = x
          /\ \A j \in 1..Len(waiting) : waiting'[j] = waiting[j]
      BY <1>2, <2>1, AppendProperties
    <3>3. i \in 1..Len(waiting) \/ i = Len(waiting) + 1
      BY <1>3, <2>8, <3>2
    <3>. QED
      BY <3>1, <3>2, <3>3
  <2>9. ControlOK'
    BY <1>1, <1>8, <2>1, <2>8 DEF ControlOK
  <2>10. /\ QueueOK(resumed, MembersOf(held), ChannelsOf(held), conn, stranded)'
         /\ QueueOK(waiting, {}, {}, conn, stranded)'
         /\ EndOK(Live, MembersOf(entity), ChannelsOf(entity), conn, stranded, wants)'
    BY <2>1, <2>3, <2>4, <2>5
  <2>. QED
    BY <1>0, <1>4, <2>1, <2>7, <2>9, <2>10 DEF IInv
<1>9. CASE entity = 0 /\ load = "failed"
  <2>1. /\ stranded' = stranded \cup Registering(<<x>>)
        /\ UNCHANGED <<load, waiting, resumed, held>>
    BY <1>9 DEF GetContextManager
  <2>2. waiting = <<>> /\ resumed = <<>>
    BY <1>1, <1>9 DEF ControlOK
  <2>3. \A c \in Conns : c \in Registering(<<x>>) <=> x \in Joins(c)
    BY DEF Registering, Joins
  <2>4. Registering(<<x>>) \subseteq Conns
    BY DEF Registering
  <2>5. /\ Live' = <<>> /\ MembersOf(entity)' = {} /\ ChannelsOf(entity)' = {}
    BY <1>9, <2>1, <2>2 DEF Live, MembersOf, ChannelsOf
  <2>6. /\ \A c \in Conns \ stranded : conn[c] # "open"
        /\ \A c \in stranded : conn[c] # "new"
    <3>1. Live = <<>> /\ MembersOf(entity) = {}
      BY <1>9, <2>2 DEF Live, MembersOf
    <3>. QED
      BY <1>1, <1>3, <3>1, AtFirst DEF EndOK, Joined
  <2>7. \A c \in Conns \ stranded' : conn'[c] # "open"
    BY <2>1, <2>3, <2>6
  <2>8. \A c \in stranded' : conn'[c] # "new"
    <3>1. \A c \in Conns : x \in Joins(c) => conn'[c] # "new"
      BY DEF Joins
    <3>. QED
      BY <1>2, <2>1, <2>3, <2>4, <2>6, <3>1
  <2>9. EndOK(<<>>, {}, {}, conn', stranded', wants')
    BY <1>0, <2>7, <2>8, NothingLeft DEF WantsOK
  <2>10. TypeOK'
    BY <1>1, <2>1, <2>4 DEF TypeOK, managers
  <2>11. ControlOK'
    BY <1>1, <1>9, <2>1 DEF ControlOK
  <2>12. \A m \in Managers : ManagerOK(m)'
    BY <1>1, <2>1 DEF ManagerOK, managers, TypeOK
  <2>13. /\ QueueOK(resumed, MembersOf(held), ChannelsOf(held), conn, stranded)'
         /\ QueueOK(waiting, {}, {}, conn, stranded)'
         /\ EndOK(Live, MembersOf(entity), ChannelsOf(entity), conn, stranded, wants)'
    BY <1>5, <2>1, <2>2, <2>5, <2>9
  <2>. QED
    BY <1>0, <2>10, <2>11, <2>12, <2>13 DEF IInv
<1>. QED
  BY <1>7, <1>8, <1>9

(* A connection is refused, or closes after it was: nothing is dispatched.   *)
LEMMA NotDispatched ==
    ASSUME IInv, NEW c \in Conns,
           UNCHANGED <<provider, managers>>,
           NEW to \in {"refused", "removed"}, conn' = [conn EXCEPT ![c] = to],
           conn[c] \in {"new", "refused"},
           stranded' = stranded \cup {c},
           wants' \in {wants, wants \ ({c} \X Channels)}
    PROVE  IInv'
<1>1. /\ TypeOK /\ ControlOK /\ \A m \in Managers : ManagerOK(m)
      /\ RefusedOK /\ WantsOK
      /\ QueueOK(resumed, MembersOf(held), ChannelsOf(held), conn, stranded)
      /\ QueueOK(waiting, {}, {}, conn, stranded)
      /\ EndOK(Live, MembersOf(entity), ChannelsOf(entity), conn, stranded, wants)
  BY DEF IInv
<1>2. /\ waiting \in Seq(Command) /\ resumed \in Seq(Command) /\ stranded \subseteq Conns
      /\ conn \in [Conns -> {"new", "open", "refused", "removed"}] /\ wants \subseteq Pairs
      /\ entity \in 0..created /\ created \in 0..MaxManagers
  BY <1>1 DEF TypeOK
<1>3. /\ conn'[c] = to /\ \A d \in Conns : d # c => conn'[d] = conn[d]
      /\ \A d \in Conns : (conn'[d] = "open" <=> conn[d] = "open")
                          /\ (conn[d] # "new" => conn'[d] # "new")
      /\ \A d \in Conns \ {c}, ch \in Channels : <<d, ch>> \in wants' <=> <<d, ch>> \in wants
      /\ wants' \subseteq wants
  BY <1>2
<1>4. /\ UNCHANGED <<entity, created, load, waiting, resumed, held, members, byConnection,
                     contextChannels>>
      /\ MembersOf(held)' = MembersOf(held) /\ ChannelsOf(held)' = ChannelsOf(held)
      /\ MembersOf(entity)' = MembersOf(entity) /\ ChannelsOf(entity)' = ChannelsOf(entity)
      /\ Live' = Live
  BY DEF provider, managers, MembersOf, ChannelsOf, Live
<1>5. TypeOK'
  BY <1>1, <1>2, <1>3, <1>4 DEF TypeOK
<1>6. ControlOK'
  BY <1>1, <1>4 DEF ControlOK
<1>7. \A m \in Managers : ManagerOK(m)'
  BY <1>1, <1>3, <1>4 DEF ManagerOK, TypeOK
<1>8. RefusedOK' /\ WantsOK'
  BY <1>1, <1>3 DEF RefusedOK, WantsOK
<1>9. ASSUME NEW queue \in Seq(Command), NEW S, NEW P, QueueOK(queue, S, P, conn, stranded)
      PROVE  QueueOK(queue, S, P, conn', stranded')
  <2>1. \A i \in 1..Len(queue) : queue[i] \in Command
    BY <1>9, ElementOfSeq
  <2>. QED
    BY <1>3, <1>9, <2>1, Fields DEF QueueOK, NewOK, BroadcastOK
<1>10. EndOK(Live, MembersOf(entity), ChannelsOf(entity), conn', stranded', wants')
  <2> DEFINE S == MembersOf(entity)
             P == ChannelsOf(entity)
  <2>1. EndOK(Live, S, P, conn, stranded, wants) /\ Live \in Seq(Command)
    BY <1>1, <1>2 DEF Live
  <2>2. QueueOK(Live, S, P, conn, stranded)
    <3>1. CASE entity = 0
      BY <1>1, <3>1 DEF Live, MembersOf, ChannelsOf
    <3>2. CASE entity # 0 /\ resumed # <<>>
      BY <1>1, <3>2 DEF Live, ControlOK
    <3>3. CASE entity # 0 /\ resumed = <<>>
      BY <3>3, EmptySeq DEF Live, QueueOK
    <3>. QED
      BY <3>1, <3>2, <3>3
  <2>3. c \notin stranded => conn[c] = "new"
    BY <1>1 DEF RefusedOK
  <2>4. \A d \in S : conn[d] # "new"
    BY <1>1, <1>2, BoundsAssumption DEF MembersOf, ManagerOK, Managers
  <2> HIDE DEF S, P
  <2>5. ASSUME c \notin stranded
        PROVE  c \notin S /\ \A j \in 1..Len(Live) : Live[j] \notin Joins(c)
    BY <2>2, <2>3, <2>4, <2>5 DEF QueueOK, NewOK, Joins
  <2>6. /\ conn'[c] # "new" /\ c \notin S
        /\ \A j \in 1..Len(Live) : Live[j] \notin Joins(c)
    BY <1>3, <2>1, <2>5 DEF EndOK
  <2>7. QED
    BY <1>2, <1>3, <2>1, <2>6 DEF EndOK, S, P
<1>11. /\ QueueOK(resumed, MembersOf(held), ChannelsOf(held), conn, stranded)'
       /\ QueueOK(waiting, {}, {}, conn, stranded)'
       /\ EndOK(Live, MembersOf(entity), ChannelsOf(entity), conn, stranded, wants)'
  BY <1>1, <1>2, <1>4, <1>9, <1>10
<1>. QED
  BY <1>5, <1>6, <1>7, <1>8, <1>11 DEF IInv

LEMMA EventStep ==
    ASSUME IInv, NEW c \in Conns,
           \/ NewConnection(c) \/ ConnectionRemoved(c)
           \/ \E ch \in Channels : Subscribe(c, ch) \/ Unsubscribe(c, ch)
    PROVE  IInv'
<1>1. /\ conn \in [Conns -> {"new", "open", "refused", "removed"}] /\ wants \subseteq Pairs
      /\ \A d \in Conns, ch \in Channels :
            <<d, ch>> \in wants => conn[d] = "open" \/ d \in stranded
      /\ \A d \in Conns : conn[d] = "refused" => d \in stranded
  BY DEF IInv, TypeOK, RefusedOK, WantsOK
<1>2. CASE NewConnection(c) /\ conn'[c] = "open"
  <2> DEFINE x == [kind |-> "new", conn |-> c]
  <2>1. /\ Quiet /\ conn[c] = "new" /\ conn' = [conn EXCEPT ![c] = "open"] /\ GetContextManager(x)
        /\ UNCHANGED <<entity, created, managers, wants>>
    BY <1>1, <1>2 DEF NewConnection
  <2>2. x \in Command /\ x.kind = "new" /\ x.conn = c
    BY DEF Command
  <2> HIDE DEF x
  <2>3. \A d \in Conns, ch \in Channels :
            /\ x \in Joins(d) <=> d = c
            /\ x \notin Leaves(d) /\ x \notin Enters(d, ch) /\ x \notin Quits(d, ch)
    BY <2>2 DEF Joins, Leaves, Enters, Quits
  <2>4. \A d \in Conns : x \notin Leaves(d)
    BY <2>2 DEF Leaves
  <2>5. \A d \in Conns : x \in Joins(d) <=> d = c
    BY <2>2 DEF Joins
  <2>6. \A d \in Conns, e \in Channels : <<d, e>> \in wants' => conn'[d] = "open" \/ d \in stranded
    BY <1>1, <2>1
  <2>. QED
    BY <1>1, <2>1, <2>2, <2>3, <2>4, <2>5, <2>6, Dispatched
<1>3. CASE ConnectionRemoved(c) /\ GetContextManager([kind |-> "removed", conn |-> c])
  <2> DEFINE x == [kind |-> "removed", conn |-> c]
  <2>1. /\ Quiet /\ conn[c] # "new" /\ conn' = [conn EXCEPT ![c] = "removed"]
        /\ wants' = wants \ ({c} \X Channels) /\ GetContextManager(x)
        /\ UNCHANGED <<entity, created, managers>>
    BY <1>3 DEF ConnectionRemoved, Heard
  <2>2. x \in Command /\ x.kind = "removed" /\ x.conn = c
    BY DEF Command
  <2> HIDE DEF x
  <2>3. \A d \in Conns, ch \in Channels :
            x \notin Enters(d, ch) /\ (x \in Quits(d, ch) <=> d = c)
    BY <2>2 DEF Leaves, Enters, Quits
  <2>4. \A d \in Conns : x \notin Joins(d) /\ (x \in Leaves(d) <=> d = c)
    BY <2>2 DEF Joins, Leaves
  <2>5. \A d \in Conns, ch \in Channels : <<d, ch>> \in wants' <=> <<d, ch>> \in wants /\ d # c
    BY <2>1
  <2>6. \A d \in Conns, e \in Channels : <<d, e>> \in wants' => conn'[d] = "open" \/ d \in stranded
    BY <1>1, <2>1, <2>5
  <2>. QED
    BY <1>1, <2>1, <2>2, <2>3, <2>4, <2>5, <2>6, Dispatched
<1>4. ASSUME NEW ch \in Channels, Subscribe(c, ch) PROVE IInv'
  <2> DEFINE x == [kind |-> "subscribe", conn |-> c, channel |-> ch]
  <2>1. /\ Quiet /\ (conn[c] = "open" \/ c \in stranded) /\ wants' = wants \cup {<<c, ch>>} /\ GetContextManager(x)
        /\ UNCHANGED <<conn, entity, created, managers>>
    BY <1>1, <1>4 DEF Subscribe, Heard
  <2>2. x \in Command /\ x.kind = "subscribe" /\ x.conn = c /\ x.channel = ch
    BY DEF Command
  <2> HIDE DEF x
  <2>3. \A d \in Conns, e \in Channels :
            x \notin Quits(d, e) /\ (x \in Enters(d, e) <=> d = c /\ e = ch)
    BY <2>2 DEF Leaves, Enters, Quits
  <2>4. \A d \in Conns : x \notin Joins(d) /\ x \notin Leaves(d)
    BY <2>2 DEF Joins, Leaves
  <2>5. \A d \in Conns, e \in Channels :
            <<d, e>> \in wants' <=> <<d, e>> \in wants \/ (d = c /\ e = ch)
    BY <2>1
  <2>6. /\ wants' \subseteq Pairs
        /\ \A d \in Conns, e \in Channels : <<d, e>> \in wants' => conn'[d] = "open" \/ d \in stranded
    BY <1>1, <2>1, <2>5 DEF Pairs
  <2>. QED
    BY <1>1, <2>1, <2>2, <2>3, <2>4, <2>5, <2>6, Dispatched
<1>5. ASSUME NEW ch \in Channels, Unsubscribe(c, ch) PROVE IInv'
  <2> DEFINE x == [kind |-> "unsubscribe", conn |-> c, channel |-> ch]
  <2>1. /\ Quiet /\ (conn[c] = "open" \/ c \in stranded) /\ wants' = wants \ {<<c, ch>>} /\ GetContextManager(x)
        /\ UNCHANGED <<conn, entity, created, managers>>
    BY <1>1, <1>5 DEF Unsubscribe, Heard
  <2>2. x \in Command /\ x.kind = "unsubscribe" /\ x.conn = c /\ x.channel = ch
    BY DEF Command
  <2> HIDE DEF x
  <2>3. \A d \in Conns, e \in Channels :
            x \notin Enters(d, e) /\ (x \in Quits(d, e) <=> d = c /\ e = ch)
    BY <2>2 DEF Leaves, Enters, Quits
  <2>4. \A d \in Conns : x \notin Joins(d) /\ x \notin Leaves(d)
    BY <2>2 DEF Joins, Leaves
  <2>5. \A d \in Conns, e \in Channels :
            <<d, e>> \in wants' <=> <<d, e>> \in wants /\ ~(d = c /\ e = ch)
    BY <2>1
  <2>6. \A d \in Conns, e \in Channels : <<d, e>> \in wants' => conn'[d] = "open" \/ d \in stranded
    BY <1>1, <2>1, <2>5
  <2>. QED
    BY <1>1, <2>1, <2>2, <2>3, <2>4, <2>5, <2>6, Dispatched
<1>6. CASE NewConnection(c) /\ conn'[c] # "open"
  <2>1. /\ conn[c] = "new" /\ conn' = [conn EXCEPT ![c] = "refused"]
        /\ stranded' = stranded \cup {c} /\ wants' = wants
        /\ UNCHANGED <<provider, managers>>
    BY <1>1, <1>6 DEF NewConnection, provider
  <2>. QED
    BY <2>1, NotDispatched
<1>7. CASE ConnectionRemoved(c) /\ ~GetContextManager([kind |-> "removed", conn |-> c])
  <2>1. /\ conn[c] = "refused" /\ conn' = [conn EXCEPT ![c] = "removed"]
        /\ wants' = wants \ ({c} \X Channels) /\ stranded' = stranded
        /\ UNCHANGED <<provider, managers>>
    BY <1>7 DEF ConnectionRemoved, provider
  <2>2. stranded' = stranded \cup {c}
    BY <1>1, <2>1
  <2>. QED
    BY <2>1, <2>2, NotDispatched
<1>. QED
  BY <1>2, <1>3, <1>4, <1>5, <1>6, <1>7

LEMMA BroadcastStep ==
    ASSUME IInv, NEW ch \in Channels \cup {Global}, Broadcast(ch)
    PROVE  IInv'
<1> DEFINE expected == IF ch = Global THEN Open ELSE {c \in Conns : <<c, ch>> \in wants}
           x == [kind |-> "broadcast", channel |-> ch, expected |-> expected]
<1>1. GetContextManager(x) /\ UNCHANGED <<conn, entity, created, managers, wants>>
  BY DEF Broadcast
<1>2. /\ conn \in [Conns -> {"new", "open", "refused", "removed"}] /\ wants \subseteq Pairs
      /\ \A d \in Conns, e \in Channels :
            <<d, e>> \in wants => conn[d] = "open" \/ d \in stranded
  BY DEF IInv, TypeOK, WantsOK
<1>3. expected \subseteq Conns
  BY DEF Open
<1>4. \A c \in Conns :
          c \in expected <=> IF ch = Global THEN conn[c] = "open" ELSE <<c, ch>> \in wants
  BY DEF Open
<1> HIDE DEF expected
<1>5. x \in Command /\ x.kind = "broadcast" /\ x.channel = ch /\ x.expected = expected
  BY <1>3 DEF Command
<1> HIDE DEF x
<1>6. \A d \in Conns, e \in Channels : x \notin Enters(d, e) /\ x \notin Quits(d, e)
  BY <1>5 DEF Leaves, Enters, Quits
<1>7. \A d \in Conns : x \notin Joins(d) /\ x \notin Leaves(d)
  BY <1>5 DEF Joins, Leaves
<1>8. \A d \in Conns, e \in Channels :
          <<d, e>> \in wants' => conn'[d] = "open" \/ d \in stranded
  BY <1>1, <1>2
<1>. QED
  BY <1>1, <1>2, <1>4, <1>5, <1>6, <1>7, <1>8, Dispatched

LEMMA LoadStep ==
    ASSUME IInv, LoadSucceeds \/ LoadFails
    PROVE  IInv'
<1>1. /\ TypeOK /\ ControlOK /\ \A m \in Managers : ManagerOK(m)
      /\ RefusedOK /\ WantsOK
      /\ QueueOK(waiting, {}, {}, conn, stranded)
      /\ EndOK(Live, MembersOf(entity), ChannelsOf(entity), conn, stranded, wants)
  BY DEF IInv
<1>2. /\ waiting \in Seq(Command) /\ created \in 0..MaxManagers /\ MaxManagers \in Nat
      /\ entity \in 0..created /\ held \in 0..created /\ stranded \subseteq Conns
  BY <1>1, BoundsAssumption DEF TypeOK
<1>3. load = "pending" /\ resumed = <<>>
  BY DEF LoadSucceeds, LoadFails
<1>4. /\ entity = 0 /\ created < MaxManagers /\ Live = waiting
      /\ MembersOf(entity) = {} /\ ChannelsOf(entity) = {}
  BY <1>1, <1>3 DEF ControlOK, Live, MembersOf, ChannelsOf
<1>5. Len(<<>>) = 0 /\ <<>> \in Seq(Command)
  BY EmptySeq
<1>6. ASSUME NEW S, NEW P, NEW states, NEW lost PROVE QueueOK(<<>>, S, P, states, lost)
  BY <1>5 DEF QueueOK
<1>7. CASE LoadSucceeds
  <2> DEFINE m == created + 1
  <2>1. /\ created' = m /\ entity' = m /\ held' = m /\ load' = "none"
        /\ resumed' = waiting /\ waiting' = <<>>
        /\ UNCHANGED <<conn, managers, wants, stranded>>
    BY <1>7 DEF LoadSucceeds, Served
  <2>2. /\ m \in Managers /\ m # 0 /\ m \in 0..MaxManagers /\ created \in 0..m /\ m \in 0..m
        /\ m > created /\ \A n \in Managers : n > m => n > created
    BY <1>2, <1>4 DEF Managers
  <2>3. members[m] = {} /\ contextChannels[m] = {}
    BY <1>1, <2>2 DEF ManagerOK
  <2> HIDE DEF m
  <2>4. /\ MembersOf(held)' = {} /\ ChannelsOf(held)' = {}
        /\ MembersOf(entity)' = {} /\ ChannelsOf(entity)' = {} /\ Live' = waiting
    BY <2>1, <2>2, <2>3 DEF MembersOf, ChannelsOf, Live, managers
  <2>5. TypeOK'
    BY <1>1, <1>5, <2>1, <2>2 DEF TypeOK, managers
  <2>6. ControlOK'
    BY <1>5, <2>1, <2>2 DEF ControlOK
  <2>7. \A n \in Managers : ManagerOK(n)'
    BY <1>1, <2>1, <2>2 DEF ManagerOK, managers
  <2>8. RefusedOK' /\ WantsOK'
    BY <1>1, <2>1 DEF RefusedOK, WantsOK
  <2>9. /\ QueueOK(resumed, MembersOf(held), ChannelsOf(held), conn, stranded)'
        /\ QueueOK(waiting, {}, {}, conn, stranded)'
        /\ EndOK(Live, MembersOf(entity), ChannelsOf(entity), conn, stranded, wants)'
    BY <1>1, <1>4, <1>6, <2>1, <2>4
  <2>. QED
    BY <2>5, <2>6, <2>7, <2>8, <2>9 DEF IInv
<1>8. CASE LoadFails
  <2>1. /\ load' = "failed" /\ waiting' = <<>> /\ stranded' = stranded \cup Registering(waiting)
        /\ UNCHANGED <<conn, entity, created, resumed, held, managers, wants>>
    BY <1>8 DEF LoadFails
  <2>2. /\ MembersOf(entity)' = {} /\ ChannelsOf(entity)' = {} /\ Live' = <<>>
    BY <1>4, <2>1 DEF MembersOf, ChannelsOf, Live
  <2>3. /\ Registering(waiting) \subseteq Conns
        /\ \A c \in Registering(waiting) : conn[c] # "new"
        /\ \A c \in Conns \ Registering(waiting), j \in 1..Len(waiting) : waiting[j] \notin Joins(c)
    BY <1>1 DEF Registering, QueueOK, NewOK, Joins
  <2>4. \A c \in Conns \ stranded' : conn[c] # "open"
    <3> SUFFICES ASSUME NEW c \in Conns, c \notin stranded' PROVE conn[c] # "open"
      OBVIOUS
    <3>1. Len(waiting) \in Nat /\ c \notin stranded /\ c \notin Registering(waiting)
      BY <1>2, <2>1, LenProperties
    <3>2. ~Joined(waiting, {}, c, Len(waiting) + 1)
      BY <2>3, <3>1 DEF Joined, At
    <3>. QED
      BY <1>1, <1>4, <3>1, <3>2 DEF EndOK
  <2>5. \A c \in stranded' : conn[c] # "new"
    BY <1>1, <2>1, <2>3 DEF EndOK
  <2>6. EndOK(<<>>, {}, {}, conn', stranded', wants')
    BY <1>1, <2>1, <2>4, <2>5, NothingLeft DEF WantsOK
  <2>7. TypeOK'
    BY <1>1, <1>5, <2>1, <2>3 DEF TypeOK, managers
  <2>8. ControlOK'
    BY <1>3, <1>4, <2>1 DEF ControlOK
  <2>9. \A m \in Managers : ManagerOK(m)'
    BY <1>1, <2>1 DEF ManagerOK, managers
  <2>10. RefusedOK' /\ WantsOK'
    BY <1>1, <2>1 DEF RefusedOK, WantsOK
  <2>11. /\ QueueOK(resumed, MembersOf(held), ChannelsOf(held), conn, stranded)'
         /\ QueueOK(waiting, {}, {}, conn, stranded)'
         /\ EndOK(Live, MembersOf(entity), ChannelsOf(entity), conn, stranded, wants)'
    BY <1>3, <1>6, <2>1, <2>2, <2>6
  <2>. QED
    BY <2>7, <2>8, <2>9, <2>10, <2>11 DEF IInv
<1>. QED
  BY <1>7, <1>8

-----------------------------------------------------------------------------

(* What a resumed command does to the manager it holds, and to the members  *)
(* and channels that commands behind it will find.                          *)
Executes ==
    /\ resumed # <<>> /\ resumed' = Tail(resumed)
    /\ UNCHANGED <<conn, created, load, waiting, held, wants>>
    /\ members' \in [Managers -> SUBSET Conns]
    /\ byConnection' \in [Managers -> SUBSET Pairs]
    /\ contextChannels' \in [Managers -> SUBSET Pairs]
    /\ \A m \in Managers \ {held} :
          /\ members'[m] = members[m] /\ byConnection'[m] = byConnection[m]
          /\ contextChannels'[m] = contextChannels[m]
    /\ \/ UNCHANGED <<entity, stranded>>
       \/ members'[held] = {} /\ ResetContextManager

ExecutesOK ==
    /\ byConnection'[held] \subseteq contextChannels'[held]
    /\ \A c \in Conns, ch \in Channels :
          /\ <<c, ch>> \in byConnection'[held] => c \in members'[held]
          /\ <<c, ch>> \in contextChannels'[held] =>
                <<c, ch>> \in byConnection'[held] \/ c \in stranded
    /\ \A c \in members'[held] : conn[c] # "new"
    /\ \A c \in Conns :
          c \in members'[held] <=>
              \/ Head(resumed) \in Joins(c)
              \/ c \in members[held] /\ Head(resumed) \notin Leaves(c)
    /\ \A c \in Conns \ stranded, ch \in Channels :
          <<c, ch>> \in contextChannels'[held] <=>
              \/ Head(resumed) \in Enters(c, ch)
              \/ <<c, ch>> \in contextChannels[held] /\ Head(resumed) \notin Quits(c, ch)

LEMMA Executed ==
    ASSUME IInv, Executes, ExecutesOK
    PROVE  IInv'
<1>. resumed # <<>> /\ resumed' = Tail(resumed)
     /\ UNCHANGED <<conn, created, load, waiting, held, wants>>
  BY DEF Executes
<1>16. UNCHANGED <<entity, stranded>> \/ (members'[held] = {} /\ ResetContextManager)
  BY DEF Executes
<1>1. /\ TypeOK /\ ControlOK /\ \A m \in Managers : ManagerOK(m)
      /\ RefusedOK /\ WantsOK
      /\ QueueOK(resumed, MembersOf(held), ChannelsOf(held), conn, stranded)
      /\ QueueOK(waiting, {}, {}, conn, stranded)
      /\ EndOK(Live, MembersOf(entity), ChannelsOf(entity), conn, stranded, wants)
  BY DEF IInv
<1>2. /\ waiting \in Seq(Command) /\ resumed \in Seq(Command) /\ stranded \subseteq Conns
      /\ entity \in 0..created /\ created \in 0..MaxManagers /\ MaxManagers \in Nat
      /\ held \in 0..created /\ held # 0
  BY <1>1, BoundsAssumption DEF TypeOK, ControlOK
<1>3. held \in Managers /\ ~(held > created)
  BY <1>2 DEF Managers
<1> DEFINE left == Registering(Tail(resumed))
<1>4. /\ resumed' \in Seq(Command) /\ Len(resumed') \in Nat /\ Len(resumed) = Len(resumed') + 1
      /\ \A i \in 1..Len(resumed') : resumed'[i] = resumed[i + 1] /\ i + 1 \in 1..Len(resumed)
  BY <1>2, HeadTailProperties, LenProperties
<1>5. /\ left \subseteq Conns
      /\ \A c \in left : conn[c] # "new"
      /\ \A c \in Conns \ left, j \in 1..Len(resumed') : resumed'[j] \notin Joins(c)
  <2>1. \A i \in 1..Len(resumed) : resumed[i].kind = "new" => conn[resumed[i].conn] # "new"
    BY <1>1 DEF QueueOK, NewOK
  <2>2. \A i \in 1..Len(resumed') : resumed'[i].kind = "new" => conn[resumed'[i].conn] # "new"
    BY <1>4, <2>1
  <2>3. \A i \in 1..Len(resumed') : resumed'[i] \in Command
    BY <1>4, ElementOfSeq
  <2>4. left = {c \in Conns : \E i \in 1..Len(resumed') :
                   resumed'[i].kind = "new" /\ resumed'[i].conn = c}
    BY DEF Registering
  <2> HIDE DEF left
  <2>5. \A c \in left : conn[c] # "new"
    BY <2>2, <2>4
  <2>6. \A c \in Conns \ left, j \in 1..Len(resumed') : resumed'[j] \notin Joins(c)
    BY <2>4 DEF Joins
  <2>. QED
    BY <2>4, <2>5, <2>6
<1>6. stranded \subseteq stranded' /\ stranded' \subseteq Conns /\ entity' \in {entity, 0}
      /\ \A c \in stranded' : conn[c] # "new"
  BY <1>1, <1>2, <1>5, <1>16 DEF ResetContextManager, EndOK
<1> DEFINE S == members[held]
           P == contextChannels[held]
           S1 == members'[held]
           P1 == contextChannels'[held]
<1>7. MembersOf(held) = S /\ ChannelsOf(held) = P /\ MembersOf(held)' = S1 /\ ChannelsOf(held)' = P1
  BY <1>2 DEF MembersOf, ChannelsOf
<1>0. /\ QueueOK(resumed, S, P, conn, stranded)
      /\ \A c \in Conns : c \in S1 <=>
             Head(resumed) \in Joins(c) \/ (c \in S /\ Head(resumed) \notin Leaves(c))
      /\ \A c \in Conns \ stranded, ch \in Channels :
             <<c, ch>> \in P1 <=>
                 \/ Head(resumed) \in Enters(c, ch)
                 \/ <<c, ch>> \in P /\ Head(resumed) \notin Quits(c, ch)
      /\ S1 \subseteq Conns
  BY <1>1, <1>3, <1>7 DEF Executes, ExecutesOK
<1> HIDE DEF S, P, S1, P1
<1>8. /\ QueueOK(resumed', S1, P1, conn, stranded')
      /\ \A c \in Conns :
            Joined(resumed', S1, c, Len(resumed') + 1) <=> Joined(resumed, S, c, Len(resumed) + 1)
      /\ \A c \in Conns \ stranded', ch \in Channels :
            Subscribed(resumed', P1, c, ch, Len(resumed') + 1)
                <=> Subscribed(resumed, P, c, ch, Len(resumed) + 1)
  <2>1. \A c \in Conns \ stranded', ch \in Channels :
            <<c, ch>> \in P1 <=>
                \/ Head(resumed) \in Enters(c, ch)
                \/ <<c, ch>> \in P /\ Head(resumed) \notin Quits(c, ch)
    BY <1>0, <1>6
  <2>. QED
    BY <1>0, <1>2, <1>6, <2>1, TailOK, SMTT(30)
<1>9. QueueOK(waiting, {}, {}, conn, stranded')
  <2>1. \A i \in 1..Len(waiting) : waiting[i].kind = "broadcast"
    BY <1>1 DEF ControlOK
  <2>. QED
    BY <1>1, <1>6, <2>1 DEF QueueOK, BroadcastOK
<1>10. TypeOK'
  BY <1>1, <1>2, <1>4, <1>6 DEF TypeOK, Executes
<1>11. ControlOK'
  BY <1>1, <1>6 DEF ControlOK
<1>12. ASSUME NEW m \in Managers PROVE ManagerOK(m)'
  <2>1. CASE m = held
    BY <1>3, <1>6, <2>1 DEF ManagerOK, ExecutesOK
  <2>2. CASE m # held
    <3>1. /\ members'[m] = members[m] /\ byConnection'[m] = byConnection[m]
          /\ contextChannels'[m] = contextChannels[m] /\ ManagerOK(m)
      BY <1>1, <2>2 DEF Executes
    <3>. QED
      BY <1>6, <3>1 DEF ManagerOK
  <2>. QED
    BY <2>1, <2>2
<1>13. RefusedOK' /\ WantsOK'
  BY <1>1, <1>6 DEF RefusedOK, WantsOK
<1>14. EndOK(Live', MembersOf(entity)', ChannelsOf(entity)', conn, stranded', wants)
  <2>1. CASE UNCHANGED <<entity, stranded>> /\ entity = 0
    <3>1. /\ Live' = Live /\ MembersOf(entity)' = MembersOf(entity)
          /\ ChannelsOf(entity)' = ChannelsOf(entity)
      BY <2>1 DEF Live, MembersOf, ChannelsOf
    <3>. QED
      BY <1>1, <2>1, <3>1
  <2>2. CASE UNCHANGED <<entity, stranded>> /\ entity # 0
    <3>1. /\ entity = held /\ Live = resumed /\ Live' = resumed'
          /\ MembersOf(entity) = S /\ ChannelsOf(entity) = P
          /\ MembersOf(entity)' = S1 /\ ChannelsOf(entity)' = P1
      BY <1>1, <1>7, <2>2 DEF ControlOK, Live
    <3>2. EndOK(resumed, S, P, conn, stranded, wants)
      BY <1>1, <3>1
    <3>3. 1 \in 1..Len(resumed) /\ Head(resumed) = resumed[1]
      BY <1>2, <1>4, HeadTailProperties
    <3>4. ASSUME NEW c \in stranded
          PROVE  /\ conn[c] # "new" /\ c \notin S1
                 /\ \A j \in 1..Len(resumed') : resumed'[j] \notin Joins(c)
      <4>1. /\ conn[c] # "new" /\ c \notin S
            /\ \A j \in 1..Len(resumed) : resumed[j] \notin Joins(c)
        BY <3>2 DEF EndOK
      <4>2. c \in Conns
        BY <1>2
      <4>. QED
        BY <1>0, <1>4, <3>3, <4>1, <4>2
    <3>5. \A c \in Conns \ stranded :
              /\ Joined(resumed', S1, c, Len(resumed') + 1) <=> conn[c] = "open"
              /\ \A ch \in Channels :
                    Subscribed(resumed', P1, c, ch, Len(resumed') + 1) <=> <<c, ch>> \in wants
      BY <1>8, <2>2, <3>2 DEF EndOK
    <3>6. EndOK(resumed', S1, P1, conn, stranded, wants)
      BY <3>4, <3>5 DEF EndOK
    <3>. QED
      BY <2>2, <3>1, <3>6
  <2>3. CASE S1 = {} /\ ResetContextManager
    <3>1. /\ entity' = 0 /\ stranded' = stranded \cup left /\ Live' = waiting
          /\ MembersOf(entity)' = {} /\ ChannelsOf(entity)' = {}
      BY <2>3 DEF ResetContextManager, Live, MembersOf, ChannelsOf
    <3>2. CASE entity = 0
      <4>1. /\ EndOK(waiting, {}, {}, conn, stranded, wants)
        BY <1>1, <3>2 DEF Live, MembersOf, ChannelsOf
      <4>2. \A c, j : j \in 1..Len(waiting) => waiting[j] \notin Joins(c)
        BY <1>1 DEF ControlOK, Joins
      <4>3. EndOK(waiting, {}, {}, conn, stranded', wants)
        BY <1>6, <4>1, <4>2 DEF EndOK
      <4>. QED
        BY <3>1, <4>3
    <3>3. CASE entity # 0
      <4>1. waiting = <<>> /\ entity = held /\ Live = resumed /\ MembersOf(entity) = S
        BY <1>1, <1>7, <3>3 DEF ControlOK, Live
      <4>0. EndOK(resumed, S, ChannelsOf(entity), conn, stranded, wants)
        BY <1>1, <4>1
      <4>2. ASSUME NEW c \in Conns, c \notin stranded' PROVE conn[c] # "open"
        <5>1. c \notin stranded /\ c \notin left
          BY <3>1, <4>2
        <5>2. ~Joined(resumed', S1, c, Len(resumed') + 1)
          BY <1>4, <1>5, <2>3, <5>1 DEF Joined, At
        <5>3. ~Joined(resumed, S, c, Len(resumed) + 1)
          BY <1>8, <5>2
        <5>4. Joined(resumed, S, c, Len(resumed) + 1) <=> conn[c] = "open"
          BY <4>0, <5>1 DEF EndOK
        <5>. QED
          BY <5>3, <5>4
      <4>3. EndOK(<<>>, {}, {}, conn, stranded', wants)
        BY <1>1, <1>6, <4>2, NothingLeft DEF WantsOK
      <4>. QED
        BY <3>1, <4>1, <4>3
    <3>. QED
      BY <3>2, <3>3
  <2>. QED
    BY <1>16, <2>1, <2>2, <2>3 DEF S1
<1>15. /\ QueueOK(resumed, MembersOf(held), ChannelsOf(held), conn, stranded)'
       /\ QueueOK(waiting, {}, {}, conn, stranded)'
       /\ EndOK(Live, MembersOf(entity), ChannelsOf(entity), conn, stranded, wants)'
  BY <1>7, <1>8, <1>9, <1>14
<1>. QED
  BY <1>10, <1>11, <1>12, <1>13, <1>15 DEF IInv

LEMMA ResumeStep ==
    ASSUME IInv, Resume
    PROVE  IInv'
<1> DEFINE x == Head(resumed)
           m == held
           S == members[m]
           B == byConnection[m]
           P == contextChannels[m]
<1>1. /\ resumed # <<>> /\ resumed' = Tail(resumed) /\ Execute(x, m)
      /\ UNCHANGED <<conn, created, load, waiting, held, wants>>
  BY DEF Resume
<1>2. /\ members \in [Managers -> SUBSET Conns] /\ byConnection \in [Managers -> SUBSET Pairs]
      /\ contextChannels \in [Managers -> SUBSET Pairs]
      /\ resumed \in Seq(Command)
  BY DEF IInv, TypeOK
<1>3. m \in Managers /\ m # 0
  BY <1>1, BoundsAssumption DEF IInv, TypeOK, ControlOK, Managers
<1>4. /\ B \subseteq P
      /\ \A c \in Conns, ch \in Channels :
            /\ <<c, ch>> \in B => c \in S
            /\ <<c, ch>> \in P => <<c, ch>> \in B \/ c \in stranded
      /\ \A c \in S : conn[c] # "new"
      /\ S \subseteq Conns /\ B \subseteq Pairs /\ P \subseteq Pairs
  BY <1>2, <1>3 DEF IInv, ManagerOK
<1>5. x \in Command /\ 1 \in 1..Len(resumed) /\ x = resumed[1]
  BY <1>1, <1>2, HeadTailProperties, EmptySeq, LenProperties
<1>6. /\ x.kind = "new" => conn[x.conn] # "new" /\ x.conn \notin S
      /\ x.kind = "subscribe" /\ x.conn \notin stranded => x.conn \in S
  <2>1. QueueOK(resumed, S, P, conn, stranded)
    BY <1>3 DEF IInv, MembersOf, ChannelsOf
  <2> HIDE DEF S, P
  <2>. QED
    BY <1>5, <2>1, AtFirst DEF QueueOK, NewOK, Joined
<1>7. x.kind # "broadcast" => x.conn \in Conns
  BY <1>5, Fields
<1> HIDE DEF x, m
<1>8. CASE x.kind = "new"
  <2> DEFINE c == x.conn
  <2>1. /\ members' = [members EXCEPT ![m] = S \cup {c}]
        /\ byConnection' = [byConnection EXCEPT ![m] = B \ ({c} \X Channels)]
        /\ UNCHANGED <<entity, contextChannels, stranded>>
    BY <1>1, <1>8 DEF Execute, AddConnection
  <2>2. c \in Conns /\ conn[c] # "new" /\ c \notin S
    BY <1>6, <1>7, <1>8
  <2>3. /\ \A d \in Conns : x \notin Leaves(d) /\ (x \in Joins(d) <=> d = c)
        /\ \A d \in Conns, ch \in Channels : x \notin Enters(d, ch) /\ x \notin Quits(d, ch)
    BY <1>5, <1>8 DEF Joins, Leaves, Enters, Quits
  <2> HIDE DEF c
  <2>4. members'[m] = S \cup {c} /\ contextChannels'[m] = P
    BY <1>2, <1>3, <2>1
  <2>5. byConnection'[m] = B
    <3>1. B \ ({c} \X Channels) = B
      BY <1>4, <2>2
    <3>. QED
      BY <1>2, <1>3, <2>1, <3>1
  <2>6. Executes
    BY <1>1, <1>2, <1>3, <1>4, <2>1, <2>2 DEF Executes, m
  <2>7. ExecutesOK
    BY <1>4, <2>2, <2>3, <2>4, <2>5 DEF ExecutesOK, m, x
  <2>. QED
    BY <2>6, <2>7, Executed
<1>9. CASE x.kind = "removed"
  <2> DEFINE c == x.conn
  <2>1. RemoveConnection(m, c) /\ c \in Conns
    BY <1>1, <1>7, <1>9 DEF Execute
  <2>2. /\ \A d \in Conns : x \notin Joins(d) /\ (x \in Leaves(d) <=> d = c)
        /\ \A d \in Conns, ch \in Channels :
              x \notin Enters(d, ch) /\ (x \in Quits(d, ch) <=> d = c)
    BY <1>5, <1>9 DEF Joins, Leaves, Enters, Quits
  <2> HIDE DEF c
  <2>3. CASE c \notin S
    <3>1. UNCHANGED <<entity, managers, stranded>>
      BY <2>1, <2>3 DEF RemoveConnection
    <3>2. Executes
      BY <1>1, <1>2, <3>1 DEF Executes, managers
    <3>3. /\ \A d \in Conns : d \in S => d # c
          /\ \A d \in Conns \ stranded, ch \in Channels : <<d, ch>> \in P => d # c
      BY <1>4, <2>3
    <3>4. members'[m] = S /\ byConnection'[m] = B /\ contextChannels'[m] = P
      BY <3>1 DEF managers
    <3>5. ExecutesOK
      BY <1>4, <2>2, <3>3, <3>4 DEF ExecutesOK, m, x
    <3>. QED
      BY <3>2, <3>5, Executed
  <2>4. CASE c \in S
    <3>1. /\ members' = [members EXCEPT ![m] = S \ {c}]
          /\ byConnection' = [byConnection EXCEPT ![m] = B \ ({c} \X Channels)]
          /\ contextChannels' = [contextChannels EXCEPT ![m] = P \ (B \cap ({c} \X Channels))]
      BY <2>1, <2>4 DEF RemoveConnection, Leave
    <3>2. /\ members'[m] = S \ {c} /\ byConnection'[m] = B \ ({c} \X Channels)
          /\ contextChannels'[m] = P \ (B \cap ({c} \X Channels))
      BY <1>2, <1>3, <3>1
    <3>3. UNCHANGED <<entity, stranded>> \/ (members'[m] = {} /\ ResetContextManager)
      BY <2>1, <2>4 DEF RemoveConnection, Deserted
    <3>4. Executes
      BY <1>1, <1>2, <1>3, <1>4, <3>1, <3>3 DEF Executes, m
    <3>5. \A d \in Conns, ch \in Channels :
              /\ <<d, ch>> \in byConnection'[m] <=> <<d, ch>> \in B /\ d # c
              /\ <<d, ch>> \in contextChannels'[m] <=>
                    <<d, ch>> \in P /\ ~(d = c /\ <<d, ch>> \in B)
      BY <3>2
    <3>6. byConnection'[m] \subseteq contextChannels'[m]
      BY <1>4, <3>2
    <3>7. \A d \in Conns : d \in members'[m] <=> d \in S /\ d # c
      BY <3>2
    <3>8. \A d \in members'[m] : conn[d] # "new"
      BY <1>4, <3>2
    <3>9. ExecutesOK
      BY <1>4, <2>2, <3>5, <3>6, <3>7, <3>8 DEF ExecutesOK, m, x
    <3>. QED
      BY <3>4, <3>9, Executed
  <2>. QED
    BY <2>3, <2>4
<1>10. CASE x.kind = "subscribe"
  <2> DEFINE c == x.conn
             e == x.channel
  <2>1. /\ contextChannels' = [contextChannels EXCEPT ![m] = P \cup {<<c, e>>}]
        /\ byConnection' = [byConnection EXCEPT ![m] = IF c \in S THEN B \cup {<<c, e>>} ELSE B]
        /\ UNCHANGED <<entity, members, stranded>>
    BY <1>1, <1>10 DEF Execute, SubscribeToChannel
  <2>2. c \in Conns /\ e \in Channels /\ (c \notin stranded => c \in S)
    BY <1>5, <1>6, <1>7, <1>10, Fields
  <2>3. /\ \A d \in Conns : x \notin Joins(d) /\ x \notin Leaves(d)
        /\ \A d \in Conns, ch \in Channels :
              x \notin Quits(d, ch) /\ (x \in Enters(d, ch) <=> d = c /\ ch = e)
    BY <1>5, <1>10 DEF Joins, Leaves, Enters, Quits
  <2> HIDE DEF c, e
  <2>4. /\ contextChannels'[m] = P \cup {<<c, e>>} /\ members'[m] = S
        /\ byConnection'[m] = IF c \in S THEN B \cup {<<c, e>>} ELSE B
    BY <1>2, <1>3, <2>1
  <2>5. <<c, e>> \in Pairs
    BY <2>2 DEF Pairs
  <2>6. Executes
    BY <1>1, <1>2, <1>3, <1>4, <2>1, <2>5 DEF Executes, m
  <2>7. \A d \in Conns, ch \in Channels :
            /\ <<d, ch>> \in byConnection'[m] <=>
                  <<d, ch>> \in B \/ (d = c /\ ch = e /\ c \in S)
            /\ <<d, ch>> \in contextChannels'[m] <=> <<d, ch>> \in P \/ (d = c /\ ch = e)
    BY <2>4
  <2>8. byConnection'[m] \subseteq contextChannels'[m]
    BY <1>4, <2>4
  <2>9. ExecutesOK
    BY <1>4, <2>2, <2>3, <2>4, <2>7, <2>8 DEF ExecutesOK, m, x
  <2>. QED
    BY <2>6, <2>9, Executed
<1>11. CASE x.kind = "unsubscribe"
  <2> DEFINE c == x.conn
             e == x.channel
             someone == \E d \in Conns : <<d, e>> \in P
  <2>1. /\ contextChannels' = [contextChannels EXCEPT ![m] = P \ {<<c, e>>}]
        /\ byConnection' = [byConnection EXCEPT ![m] = IF someone THEN B \ {<<c, e>>} ELSE B]
        /\ UNCHANGED <<entity, members, stranded>>
    BY <1>1, <1>11 DEF Execute, UnsubscribeFromChannel
  <2>2. c \in Conns /\ e \in Channels
    BY <1>5, <1>7, <1>11, Fields
  <2>3. /\ \A d \in Conns : x \notin Joins(d) /\ x \notin Leaves(d)
        /\ \A d \in Conns, ch \in Channels :
              x \notin Enters(d, ch) /\ (x \in Quits(d, ch) <=> d = c /\ ch = e)
    BY <1>5, <1>11 DEF Joins, Leaves, Enters, Quits
  <2> HIDE DEF c, e
  <2>4. (IF someone THEN B \ {<<c, e>>} ELSE B) = B \ {<<c, e>>}
    BY <1>4, <2>2
  <2> HIDE DEF someone
  <2>5. byConnection' = [byConnection EXCEPT ![m] = B \ {<<c, e>>}]
    BY <2>1, <2>4
  <2>6. /\ contextChannels'[m] = P \ {<<c, e>>} /\ members'[m] = S
        /\ byConnection'[m] = B \ {<<c, e>>}
    BY <1>2, <1>3, <2>1, <2>5
  <2>7. Executes
    BY <1>1, <1>2, <1>3, <1>4, <2>1, <2>5 DEF Executes, m
  <2>8. \A d \in Conns, ch \in Channels :
            /\ <<d, ch>> \in byConnection'[m] <=> <<d, ch>> \in B /\ ~(d = c /\ ch = e)
            /\ <<d, ch>> \in contextChannels'[m] <=> <<d, ch>> \in P /\ ~(d = c /\ ch = e)
    BY <2>6
  <2>9. byConnection'[m] \subseteq contextChannels'[m]
    BY <1>4, <2>6
  <2>10. ExecutesOK
    BY <1>4, <2>3, <2>6, <2>8, <2>9 DEF ExecutesOK, m, x
  <2>. QED
    BY <2>7, <2>10, Executed
<1>12. CASE x.kind = "broadcast"
  <2>1. UNCHANGED <<entity, managers, stranded>>
    BY <1>1, <1>12 DEF Execute
  <2>2. /\ \A d \in Conns : x \notin Joins(d) /\ x \notin Leaves(d)
        /\ \A d \in Conns, ch \in Channels : x \notin Enters(d, ch) /\ x \notin Quits(d, ch)
    BY <1>12 DEF Joins, Leaves, Enters, Quits
  <2>3. Executes
    BY <1>1, <1>2, <2>1 DEF Executes, managers
  <2>4. ExecutesOK
    BY <1>4, <2>1, <2>2 DEF ExecutesOK, managers, m, x
  <2>. QED
    BY <2>3, <2>4, Executed
<1>. QED
  BY <1>5, <1>8, <1>9, <1>10, <1>11, <1>12, Fields

LEMMA IInvStep == IInv /\ [Next]_vars => IInv'
<1> SUFFICES ASSUME IInv, [Next]_vars PROVE IInv'
  OBVIOUS
<1>1. CASE UNCHANGED vars
  BY <1>1 DEF vars, provider, managers, IInv, TypeOK, ControlOK, ManagerOK, RefusedOK,
              WantsOK, QueueOK, NewOK, BroadcastOK, EndOK, Live, MembersOf, ChannelsOf
<1>2. CASE Next
  BY <1>2, EventStep, BroadcastStep, LoadStep, ResumeStep DEF Next
<1>. QED
  BY <1>1, <1>2

LEMMA Invariance == Spec => []IInv
BY IInvInit, IInvStep, PTL DEF Spec

-----------------------------------------------------------------------------

(* Every variable keeps its type, for any number of connections, channels,  *)
(* managers and waiting commands.                                           *)
THEOREM TypeCorrect == Spec => []TypeOK
<1>1. IInv => TypeOK
  BY DEF IInv
<1>. QED
  BY <1>1, Invariance, PTL

(* The two maps of subscribeToChannel, unsubscribeFromChannel and           *)
(* removeConnection stay inverse to each other, but for connections whose   *)
(* registration came to nothing: their load failed, or their id was refused.*)
THEOREM InverseMaps == Spec => []MapsAgree
<1>1. IInv => MapsAgree
  <2> SUFFICES ASSUME IInv, NEW m \in Managers
               PROVE  /\ byConnection[m] \subseteq contextChannels[m]
                      /\ \A p \in contextChannels[m] : p \in byConnection[m] \/ p[1] \in stranded
    BY DEF MapsAgree
  <2>1. ManagerOK(m) /\ contextChannels[m] \subseteq Pairs
    BY DEF IInv, TypeOK
  <2>2. \A p \in contextChannels[m] :
            p[1] \in Conns /\ p[2] \in Channels /\ p = <<p[1], p[2]>>
    BY <2>1 DEF Pairs
  <2>. QED
    BY <2>1, <2>2 DEF ManagerOK
<1>. QED
  BY <1>1, Invariance, PTL

(* No removal, reset or reload of a manager loses a connection of the pool  *)
(* or keeps one that has left it.                                           *)
THEOREM PoolIsKnown == Spec => []ManagerKnowsPool
<1>1. IInv => ManagerKnowsPool
  <2> SUFFICES ASSUME IInv, resumed = <<>>, entity # 0 PROVE members[entity] = Open \ stranded
    BY DEF ManagerKnowsPool, Quiet
  <2>1. EndOK(<<>>, members[entity], contextChannels[entity], conn, stranded, wants)
    BY DEF IInv, Live, MembersOf, ChannelsOf
  <2>2. members[entity] \subseteq Conns
    BY BoundsAssumption DEF IInv, TypeOK, Managers
  <2>3. \A c \in Conns \ stranded : c \in members[entity] <=> conn[c] = "open"
    BY <2>1, NothingWaits DEF EndOK
  <2>4. \A c \in stranded : c \notin members[entity]
    BY <2>1 DEF EndOK
  <2>. QED
    BY <2>2, <2>3, <2>4 DEF Open
<1>. QED
  BY <1>1, Invariance, PTL

(* A context without a manager has no connections but the stranded ones.    *)
THEOREM NobodyIsForgotten == Spec => []NobodyForgotten
<1>1. IInv => NobodyForgotten
  <2> SUFFICES ASSUME IInv, entity = 0, load = "none" PROVE Open \subseteq stranded
    BY DEF NobodyForgotten
  <2>1. waiting = <<>>
    BY DEF IInv, ControlOK
  <2>2. EndOK(<<>>, {}, {}, conn, stranded, wants)
    BY <2>1 DEF IInv, Live, MembersOf, ChannelsOf
  <2>3. ASSUME NEW c \in Conns \ stranded PROVE conn[c] # "open"
    <3>1. Joined(<<>>, {}, c, Len(<<>>) + 1) <=> conn[c] = "open"
      BY <2>2 DEF EndOK
    <3>2. ~Joined(<<>>, {}, c, Len(<<>>) + 1)
      BY NothingWaits
    <3>. QED
      BY <3>1, <3>2
  <2>. QED
    BY <2>3 DEF Open
<1>. QED
  BY <1>1, Invariance, PTL

(* A broadcast finds those who had subscribed when it was dispatched, and   *)
(* nobody else but connections whose registration came to nothing.          *)
THEOREM SubscribersAreReached == Spec => []BroadcastReachesSubscribers
<1>1. IInv => BroadcastReachesSubscribers
  <2> SUFFICES ASSUME IInv, resumed # <<>>, Head(resumed).kind = "broadcast"
               PROVE  ChannelConnections(held, Head(resumed).channel) \ stranded
                          = Head(resumed).expected \ stranded
    BY DEF BroadcastReachesSubscribers
  <2> DEFINE x == Head(resumed)
             S == members[held]
             P == contextChannels[held]
  <2>1. /\ held # 0 /\ held \in Managers /\ resumed \in Seq(Command)
        /\ S \subseteq Conns
    BY BoundsAssumption DEF IInv, TypeOK, ControlOK, Managers
  <2>2. x \in Command /\ 1 \in 1..Len(resumed) /\ x = resumed[1]
    BY <2>1, HeadTailProperties, EmptySeq, LenProperties
  <2>3. QueueOK(resumed, S, P, conn, stranded)
    BY <2>1 DEF IInv, MembersOf, ChannelsOf
  <2>4. x.expected \subseteq Conns
    BY <2>2, Fields
  <2>5. ChannelConnections(held, x.channel) =
            IF x.channel = Global THEN S ELSE {c \in Conns : <<c, x.channel>> \in P}
    BY DEF ChannelConnections
  <2> HIDE DEF x, S, P
  <2>6. BroadcastOK(resumed, S, P, stranded, 1)
    BY <2>2, <2>3 DEF QueueOK, x
  <2>7. \A c \in Conns \ stranded :
            c \in x.expected <=> IF x.channel = Global THEN c \in S ELSE <<c, x.channel>> \in P
    BY <2>2, <2>6, AtFirst DEF BroadcastOK, Joined, Subscribed
  <2>8. ChannelConnections(held, x.channel) \ stranded = x.expected \ stranded
    BY <2>1, <2>4, <2>5, <2>7
  <2>. QED
    BY <2>8 DEF x
<1>. QED
  BY <1>1, Invariance, PTL
================================================================================
