------------------------------ MODULE MCWsEcho ------------------------------
(***************************************************************************)
(* Model checking instance of WsEcho.  125, 0xFFFF and MAX_PAYLOAD, which  *)
(* is 0xFFFF + 1, become 1, 2 and 3.                                       *)
(***************************************************************************)
EXTENDS WsEcho

CONSTANTS c1, lfd

MCOneConn == {c1}

F(op, fin, len) ==
    [op |-> op, fin |-> fin, rsv |-> FALSE, masked |-> TRUE, form |-> Shortest(len),
     len |-> len, key |-> 1,
     data |-> IF len > MaxPayload THEN <<>> ELSE [i \in 1 .. len |-> (i + len) % 2]]

(* Messages whole and in fragments, at every length where a form changes    *)
Good == {F("TEXT", TRUE, 1), F("BIN", TRUE, 3), F("TEXT", FALSE, 1), F("BIN", FALSE, 2),
         F("CONT", FALSE, 0), F("CONT", TRUE, 2), F("PING", TRUE, 1)}

(* What ends a connection or is ignored *)
Odd == {F("PONG", TRUE, 0), F("CLOSE", TRUE, 1), F("CLOSE", TRUE, 0), F("BIN", TRUE, 4),
        F("PING", FALSE, 0), F("PING", TRUE, 2), F("RESERVED", TRUE, 0),
        [F("TEXT", TRUE, 1) EXCEPT !.rsv = TRUE],
        [F("TEXT", TRUE, 1) EXCEPT !.masked = FALSE],
        [F("TEXT", TRUE, 1) EXCEPT !.form = 16],
        [F("TEXT", TRUE, 2) EXCEPT !.form = 64],
        F("BIN", TRUE, TopBit)}

X == <<Cell("x", 0)>>
End == <<Cell("crlf1", 0), Cell("crlf2", 0)>>
Upgrade == <<Cell("upgrade", 0)>> \o End
FullUpgrade == <<Cell("upgrade", 0)>> \o X \o X \o X \o End

(* The request fills the buffer, ends one cell too late, is not an upgrade, *)
(* or never ends.                                                           *)
Requests ==
    {[request |-> r, frames |-> <<F("TEXT", TRUE, 1)>>] :
        r \in {FullUpgrade, X \o FullUpgrade, <<Cell("other", 0)>> \o End}}
    \cup {[request |-> <<Cell("upgrade", 0)>> \o X, frames |-> <<>>]}

Streams ==
    BoundedSeq(Good, 3) \cup {<<g, o>> : g \in Good, o \in Odd}
        \cup {<<o, F("TEXT", TRUE, 1)>> : o \in Odd}

MCScripts == Requests \cup {[request |-> Upgrade, frames |-> fs] : fs \in Streams}
=============================================================================
