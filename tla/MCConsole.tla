----------------------------- MODULE MCConsole -----------------------------
(* The web console, in parts that share nothing: a direct-message room, the  *)
(* conversation a user is shown, and the negotiation of a direct link.  The  *)
(* parts that are not looked at stay in their initial state.                 *)
EXTENDS DmRooms, Conversations, WebrtcNegotiation

VARIABLE part

\* One side calls twice, the other once.
MCMaxStarted == [left |-> 2, right |-> 1]

ConsoleInit ==
    /\ part \in {"room", "conversation", "negotiation"}
    /\ RoomsInit /\ ConvInit /\ RtcInit
    /\ (part # "conversation" => stored = {})

ConsoleNext ==
    \/ part = "room" /\ RoomsNext /\ UNCHANGED <<part, convVars, rtcVars>>
    \/ part = "conversation" /\ ConvNext /\ UNCHANGED <<part, roomVars, rtcVars>>
    \/ part = "negotiation" /\ RtcNext /\ UNCHANGED <<part, roomVars, convVars>>

ConsoleSpec == ConsoleInit /\ [][ConsoleNext]_<<part, roomVars, convVars, rtcVars>>

=============================================================================
