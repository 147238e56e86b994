---------------------------- MODULE OrderedChannel ----------------------------
(***************************************************************************)
(* What a websocket connection promises to those who use it.  In one       *)
(* direction frames are accepted while it is open and sent in the order in *)
(* which they were accepted, none left out as long as it is open; in the   *)
(* other, what the peer sent is delivered in its order, and only while the *)
(* connection is open.  A close by handshake ends the line when the last   *)
(* frame that was accepted, which is the Close frame, has been sent.       *)
(*                                                                         *)
(* WebsocketConnection implements it.                                      *)
(***************************************************************************)
EXTENDS Naturals

VARIABLES
    status,   \* "Open", "Closing" or "Closed"
    how,      \* how it was closed: "no", "handshake" or "immediate"
    line,     \* "up", "ended" by this side, or "broken"
    accepted, \* frames accepted
    sent,     \* the last frame that was sent as a whole
    delivered \* data frames of the peer that were delivered

vars == <<status, how, line, accepted, sent, delivered>>

Init ==
    /\ status = "Open"
    /\ how = "no"
    /\ line = "up"
    /\ accepted = 0
    /\ sent = 0
    /\ delivered = 0

Accept ==
    /\ status = "Open"
    /\ accepted' = accepted + 1
    /\ UNCHANGED <<status, how, line, sent, delivered>>

(* The Close frame is the last that is accepted.  If the line breaks, the   *)
(* handshake begins and will not end.                                       *)
Handshake ==
    /\ status = "Open"
    /\ status' = "Closing"
    /\ how' = "handshake"
    /\ accepted' = accepted + 1
    /\ line' \in {line, "broken"}
    /\ UNCHANGED <<sent, delivered>>

CloseImmediately ==
    /\ status = "Open"
    /\ status' = "Closing"
    /\ how' = "immediate"
    /\ line' = "ended"
    /\ UNCHANGED <<accepted, sent, delivered>>

(* While open the next frame; a failure closes, and then the frames that    *)
(* failed are left out.                                                     *)
Transmit ==
    /\ line = "up"
    /\ sent' \in sent + 1 .. accepted
    /\ status = "Open" => sent' = sent + 1
    /\ UNCHANGED <<status, how, line, accepted, delivered>>

Deliver ==
    /\ status = "Open"
    /\ delivered' \in Nat
    /\ delivered' > delivered
    /\ UNCHANGED <<status, how, line, accepted, sent>>

EndHandshake ==
    /\ how = "handshake"
    /\ line = "up"
    /\ sent = accepted
    /\ line' = "ended"
    /\ UNCHANGED <<status, how, accepted, sent, delivered>>

Break ==
    /\ status # "Open"
    /\ line' = "broken"
    /\ UNCHANGED <<status, how, accepted, sent, delivered>>

Shut ==
    /\ status' = "Closed"
    /\ line' = "broken"
    /\ UNCHANGED <<how, accepted, sent, delivered>>

Next == \/ Accept \/ Handshake \/ CloseImmediately
        \/ Transmit \/ Deliver \/ EndHandshake \/ Break \/ Shut

Spec == Init /\ [][Next]_vars
==============================================================================
