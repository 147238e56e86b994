------------------------------ MODULE MCServices ------------------------------
(* Five parts that share no state: a behaviour is one of one of them, and    *)
(* the others stay as they are at the start.                                 *)
EXTENDS MessageStore, WebsocketFrames, WebsocketExtensions, PlatformApi,
        CallbackCollection

CONSTANTS chan, ext, NoPolicy, pub1, pub2

VARIABLE part

vars == <<part, storeVars, frameVars, extensionVars, platformVars,
          callbackVars>>

Init ==
    /\ StoreInit /\ FramesInit /\ ExtensionsInit /\ PlatformApiInit
    /\ CallbacksInit
    /\ part \in {"store", "frames", "extensions", "platform", "callbacks"}
    /\ part # "store" => config.firstId = 31
    /\ part # "platform" => \A t \in Tokens : tokens[t] = Missing

Next ==
    /\ UNCHANGED part
    /\ \/ /\ part = "store" /\ StoreNext
          /\ UNCHANGED <<frameVars, extensionVars, platformVars, callbackVars>>
       \/ /\ part = "frames" /\ FramesNext
          /\ UNCHANGED <<storeVars, extensionVars, platformVars, callbackVars>>
       \/ /\ part = "extensions" /\ ExtensionsNext
          /\ UNCHANGED <<storeVars, frameVars, platformVars, callbackVars>>
       \/ /\ part = "platform" /\ PlatformApiNext
          /\ UNCHANGED <<storeVars, frameVars, extensionVars, callbackVars>>
       \/ /\ part = "callbacks" /\ CallbacksNext
          /\ UNCHANGED <<storeVars, frameVars, extensionVars, platformVars>>

Spec == Init /\ [][Next]_vars

------------------------------------------------------------------------------
(* Values for the message store. *)
Limits(time, size) == [time |-> time, size |-> size]
Context(general, ofA, individual, firstId, zone) ==
    [general |-> general, channel |-> (chan :> ofA) @@ (ext :> NoPolicy),
     individual |-> individual, firstId |-> firstId, zone |-> zone]

(* A limit of time for all and one of size for a channel, in UTC and an hour *)
(* east of it; a channel and individual messages only; no channelConfig.    *)
MCConfigurations ==
    {Context(Limits(1, 0), Limits(0, 1), NoPolicy, 31, 0),
     Context(Limits(1, 0), Limits(0, 1), NoPolicy, 1, 3600),
     Context(NoPolicy, Limits(0, 1), Limits(1, 2), 1, -3600),
     [general |-> Limits(1, 0), channel |-> NoPolicy, individual |-> NoPolicy,
      firstId |-> 1, zone |-> 0]}
MCNoFilter == [maxAge |-> 0, maxLength |-> 0]
MCFilters == {MCNoFilter, [maxAge |-> 1, maxLength |-> 0],
              [maxAge |-> 2, maxLength |-> 1], [maxAge |-> 0, maxLength |-> 2]}
MCCalls == (pub1 :> {<<{chan}>>, <<{ext}, {chan, ext}>>}) @@ (pub2 :> {<<{chan}>>})
MCGuards == {{}, {1}}
MCTargets == {<<ext>>, <<ext, chan>>}

(* A frame in fragments and an empty one after it; masks, as clients apply  *)
(* them, on short frames only.                                              *)
MCFrame(n, rsv1, mask) ==
    [type |-> 1, rsv1 |-> rsv1, isFinal |-> TRUE, mask |-> mask,
     payload |-> [i \in 1..n |-> (7 * i) % 256]]
MCConversation(n, rsv1, mask, size) ==
    <<[frame |-> MCFrame(n, rsv1, mask), size |-> size],
      [frame |-> MCFrame(0, rsv1, mask), size |-> 0]>>
MCConversations ==
    {MCConversation(n, rsv1, <<>>, size) :
        n \in {0, 125, 126}, rsv1 \in BOOLEAN, size \in {0, 125}}
    \cup {MCConversation(n, FALSE, <<1, 128, 255, 0>>, size) :
            n \in {1, 5}, size \in {0, 2}}
    \cup {MCConversation(n, FALSE, <<>>, size) :
            n \in {65535, 65536}, size \in {0, 65535}}

ASSUME StorePlainIds == PlainIds
==============================================================================
