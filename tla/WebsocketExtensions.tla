------------------------- MODULE WebsocketExtensions -------------------------
(***************************************************************************)
(* Negotiation of permessage-deflate while a connection is established     *)
(* (the registry of extensions, PermessageDeflateExtension) and the frames *)
(* that pass its agent afterwards (PermessageDeflateAgent).  Of compressed *)
(* data only what decides whether the other side can expand it is kept:    *)
(* the window it was compressed with, and whether it refers to earlier     *)
(* messages.                                                               *)
(***************************************************************************)
EXTENDS Integers, Sequences

CONSTANTS
    clientMaxWindowBits, serverMaxWindowBits,         \* PermessageDeflateConfig:
    clientNoContextTakeover, serverNoContextTakeover, \* bits or Absent, and flags
    MaxOffers,     \* bound: offers in a header
    MaxCompressed  \* bound: messages in each direction

Absent == 0      \* the parameter is not there
Bare == 1        \* it is there, without a value
Quoted == 2      \* its value is not a number
DefaultBits == 15
Bits == 8 .. DefaultBits

ASSUME ExtensionsAssumption ==
    /\ {clientMaxWindowBits, serverMaxWindowBits} \subseteq Bits \cup {Absent}
    /\ {clientNoContextTakeover, serverNoContextTakeover} \subseteq BOOLEAN
    /\ MaxOffers \in Nat
    /\ MaxCompressed \in Nat

Params(values) ==
    [client_max_window_bits : values, server_max_window_bits : values,
     client_no_context_takeover : BOOLEAN, server_no_context_takeover : BOOLEAN]

(* Names of extensions: one that is registered and another.  Values: one of *)
(* each kind, the bounds, and a number out of bounds.                       *)
Offers == [name : {"permessage-deflate", "other"},
           values : Params({Absent, Bare, Quoted, 8, 12, 16})]

VARIABLES
    negotiated, \* "no", "plain", "deflate" or "refused"
    answer,     \* the configuration in the response
    agent,      \* AgentConfig
    messages,   \* messages that have passed, by direction
    unreadable  \* why messages could not be expanded: "window", "context"

extensionVars == <<negotiated, answer, agent, messages, unreadable>>

NoAnswer == [client_max_window_bits |-> Absent, server_max_window_bits |-> Absent,
             client_no_context_takeover |-> FALSE, server_no_context_takeover |-> FALSE]
NoAgent == [ownWindowBits |-> DefaultBits, peerWindowBits |-> DefaultBits,
            allowOwnContextTakeover |-> TRUE, allowPeerContextTakeover |-> TRUE]
NoMessages == [in |-> 0, out |-> 0]

ExtensionsInit ==
    /\ negotiated = "no"
    /\ answer = NoAnswer
    /\ agent = NoAgent
    /\ messages = NoMessages
    /\ unreadable = {}

(* Values that are not numbers are left out. *)
Known(value) == IF value = Quoted THEN Absent ELSE value

validateConfiguration(values) ==
    /\ Known(values.client_max_window_bits) \in Bits \cup {Absent, Bare}
    /\ Known(values.server_max_window_bits) \in Bits \cup {Absent}

AnsweredBits(offered, configured) ==
    CASE offered = Absent -> Absent
      [] offered # Absent /\ offered # Bare -> offered
      [] offered = Bare -> IF configured = Absent THEN DefaultBits ELSE configured

(* The answer to an offer.  A parameter that was not offered stays out of   *)
(* it, the flags of the configuration excepted.                             *)
Answer(values) ==
    [client_max_window_bits |->
        AnsweredBits(Known(values.client_max_window_bits), clientMaxWindowBits),
     server_max_window_bits |->
        AnsweredBits(Known(values.server_max_window_bits), serverMaxWindowBits),
     client_no_context_takeover |->
        values.client_no_context_takeover \/ clientNoContextTakeover,
     server_no_context_takeover |->
        values.server_no_context_takeover \/ serverNoContextTakeover]

Window(bits) == IF bits = Absent THEN DefaultBits ELSE bits

SwappedWindows(given) ==
    [peerWindowBits |-> Window(given.server_max_window_bits),
     ownWindowBits |-> Window(given.client_max_window_bits),
     allowPeerContextTakeover |-> ~given.client_no_context_takeover,
     allowOwnContextTakeover |-> ~given.server_no_context_takeover]

Agent(given) ==
    [peerWindowBits |-> Window(given.client_max_window_bits),
     ownWindowBits |-> Window(given.server_max_window_bits),
     allowPeerContextTakeover |-> ~given.client_no_context_takeover,
     allowOwnContextTakeover |-> ~given.server_no_context_takeover]

(* Offers of one extension are given to it together.  It refuses all when   *)
(* one is invalid, and otherwise takes the first.                           *)
getExtensionAgentsForConfiguration ==
    /\ negotiated = "no"
    /\ \E header \in UNION {[1..n -> Offers] : n \in 0..MaxOffers} :
         LET known == {i \in DOMAIN header : header[i].name = "permessage-deflate"}
         IN \/ /\ known = {}
               /\ negotiated' = "plain"
               /\ UNCHANGED <<answer, agent>>
            \/ /\ \E i \in known : ~validateConfiguration(header[i].values)
               /\ negotiated' = "refused"
               /\ UNCHANGED <<answer, agent>>
            \/ /\ \A i \in known : validateConfiguration(header[i].values)
               /\ \E first \in known :
                     /\ \A i \in known : first <= i
                     /\ answer' = Answer(header[first].values)
               /\ agent' = Agent(answer')
               /\ negotiated' = "deflate"
    /\ UNCHANGED <<messages, unreadable>>

(* Every message is expanded by a stream of its own: createInflateRaw is    *)
(* called for each, whether or not the executor that calls it is kept.      *)
Inflated(window, refers) ==
    unreadable' = unreadable
        \cup (IF window > agent.peerWindowBits THEN {"window"} ELSE {})
        \cup (IF refers THEN {"context"} ELSE {})

(* The peer may use a smaller window, and refer to earlier messages unless  *)
(* it was told not to.  A message without rsv1 is not compressed.           *)
incomingDataPipe ==
    /\ negotiated = "deflate"
    /\ messages.in < MaxCompressed
    /\ \/ UNCHANGED unreadable
       \/ \E window \in 8 .. Window(answer.client_max_window_bits),
             refers \in {FALSE, messages.in > 0 /\ ~answer.client_no_context_takeover} :
            Inflated(window, refers)
    /\ messages' = [messages EXCEPT !.in = @ + 1]
    /\ UNCHANGED <<negotiated, answer, agent>>

(* Nor does a message of ours refer to an earlier one.  The peer expands it *)
(* with the window of the answer.                                           *)
outgoingDataPipe ==
    /\ negotiated = "deflate"
    /\ messages.out < MaxCompressed
    /\ unreadable' = unreadable \cup
           (IF agent.ownWindowBits > Window(answer.server_max_window_bits)
            THEN {"window"} ELSE {})
    /\ messages' = [messages EXCEPT !.out = @ + 1]
    /\ UNCHANGED <<negotiated, answer, agent>>

ExtensionsDone ==
    /\ negotiated # "no"
    /\ negotiated' = "no"
    /\ answer' = NoAnswer
    /\ agent' = NoAgent
    /\ messages' = NoMessages
    /\ unreadable' = {}

ExtensionsNext ==
    \/ getExtensionAgentsForConfiguration
    \/ incomingDataPipe
    \/ outgoingDataPipe
    \/ ExtensionsDone

ExtensionsSpec == ExtensionsInit /\ [][ExtensionsNext]_extensionVars

(* What the two sides compress by the answer that was given, the other side *)
(* expands - except for a message that refers to an earlier one, where the  *)
(* answer has let the peer keep its context.                                *)
AgreedCompression ==
    /\ unreadable \subseteq {"context"}
    /\ answer.client_no_context_takeover => unreadable = {}
==============================================================================
