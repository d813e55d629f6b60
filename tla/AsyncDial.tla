----------------------------- MODULE AsyncDial -----------------------------
(***************************************************************************)
(* async_dialer: client and server on one engine and one data handler.     *)
(* The client writes a message when its dial has ended, echoes the echo    *)
(* and closes the connection when it has been called echoCount times.  The *)
(* program says that it ignores the fragmentation of TCP: here it happens. *)
(***************************************************************************)
EXTENDS Naturals

CONSTANTS EchoCount,    \* the initial value of echoCount
          HelloLen      \* the length of "Hello!"
ASSUME SomeEchoes == EchoCount \in Nat \ {0} /\ HelloLen \in Nat \ {0}

VARIABLES dialer,       \* the client's connection
          echoCount,
          toEchoer, toDialer,   \* bytes on their way
          echoed,       \* bytes the client was given
          fragmented    \* OnData was called with a part of the message

dialVars == <<dialer, echoCount, toEchoer, toDialer, echoed, fragmented>>

AsyncTypeOK ==
    /\ dialer \in {"dialing", "failed", "connected", "closed"}
    /\ echoCount \in 0..EchoCount /\ fragmented \in BOOLEAN
    /\ toEchoer \in 0..HelloLen /\ toDialer \in 0..HelloLen /\ echoed \in 0..(EchoCount * HelloLen)
    /\ dialer = "connected" => toEchoer + toDialer = HelloLen

AsyncInit ==
    /\ dialer = "dialing" /\ echoCount = EchoCount
    /\ toEchoer = 0 /\ toDialer = 0 /\ echoed = 0 /\ fragmented = FALSE

(* The callback of DialAsync: an error is logged, or "Hello!" is written. *)
AsyncDialFails ==
    /\ dialer = "dialing" /\ dialer' = "failed"
    /\ UNCHANGED <<echoCount, toEchoer, toDialer, echoed, fragmented>>

AsyncDialConnects ==
    /\ dialer = "dialing" /\ dialer' = "connected" /\ toEchoer' = HelloLen
    /\ UNCHANGED <<echoCount, toDialer, echoed, fragmented>>

(* OnData of the server's side, which may still be called with what was    *)
(* written before the client closed.                                       *)
EchoerOnData ==
    \E n \in 1..toEchoer :
        /\ toEchoer' = toEchoer - n
        /\ toDialer' = IF dialer = "connected" THEN toDialer + n ELSE toDialer
        /\ fragmented' = (fragmented \/ n < HelloLen)
        /\ UNCHANGED <<dialer, echoCount, echoed>>

(* Mutant: the client closes with the last but one echo. *)
DialerClosesEarly ==
    /\ dialer = "connected"
    /\ \E n \in 1..toDialer :
          /\ echoed' = echoed + n /\ echoCount' = echoCount - 1
          /\ fragmented' = (fragmented \/ n < HelloLen)
          /\ dialer' = IF echoCount' =< 1 THEN "closed" ELSE dialer
          /\ toEchoer' = IF echoCount' =< 1 THEN toEchoer ELSE toEchoer + n
          /\ toDialer' = IF echoCount' =< 1 THEN 0 ELSE toDialer - n

(* Mutant: the client echoes after it has closed. *)
DialerEchoesOn ==
    /\ dialer = "connected"
    /\ \E n \in 1..toDialer :
          /\ echoed' = echoed + n /\ echoCount' = echoCount - 1
          /\ fragmented' = (fragmented \/ n < HelloLen)
          /\ dialer' = IF echoCount' = 0 THEN "closed" ELSE dialer
          /\ toEchoer' = toEchoer + HelloLen /\ toDialer' = toDialer - n

(* OnData of the client's side: each call counts, whatever it brings. *)
DialerOnData ==
    /\ dialer = "connected"
    /\ \E n \in 1..toDialer :
          /\ echoed' = echoed + n /\ echoCount' = echoCount - 1
          /\ fragmented' = (fragmented \/ n < HelloLen)
          /\ dialer' = IF echoCount' = 0 THEN "closed" ELSE dialer
          /\ toEchoer' = IF echoCount' = 0 THEN toEchoer ELSE toEchoer + n
          /\ toDialer' = IF echoCount' = 0 THEN 0 ELSE toDialer - n

AsyncNext == AsyncDialFails \/ AsyncDialConnects \/ EchoerOnData \/ DialerOnData

-----------------------------------------------------------------------------
(* The client has had all its echoes when it closes, unless TCP cut one up *)
(* and its parts were counted one by one.                                  *)
FewerEchoesNeedFragments ==
    dialer = "closed" /\ ~fragmented => echoed = EchoCount * HelloLen

(* But it does not go on for ever: it closes, or was never connected.      *)
DialerEnds == dialer \in {"failed", "closed"}
=============================================================================
