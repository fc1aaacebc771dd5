----------------------------- MODULE Transport -----------------------------
(***************************************************************************)
(* The way of a message from the server to one client: the socket both the *)
(* main thread and a game thread write to (network.c, send_all), and the   *)
(* buffer the client cuts into lines (protocol.c, client/game.c).          *)
(*                                                                         *)
(* A message is two pieces, the second of which ends in the newline: the   *)
(* socket may be full before, between or after them.                       *)
(***************************************************************************)
EXTENDS Naturals, Sequences, SequencesExt

CONSTANTS SendBuf,    \* pieces the socket holds
          RecvBuf     \* pieces the client's line buffer holds

\* The line buffer is as long as the longest message (config.h).
ASSUME TransportAssumption == SendBuf \in Nat \ {0} /\ RecvBuf \in Nat \ {0, 1}

Threads == {"main", "game"}

VARIABLES out,        \* what is left of the message a thread is sending
          wire,       \* pieces in the socket
          buf,        \* buf of recv_thread_func()
          connected,  \* g_state.connected
          short       \* history: a send() took less than it was given

transportVars == <<out, wire, buf, connected, short>>

Piece(k, part) == [kind |-> k, part |-> part]
Message(k) == <<Piece(k, 1), Piece(k, 2)>>
EndsLine(p) == p.part = 2
Fewest(a, b) == IF a < b THEN a ELSE b

TransportInit ==
    /\ out = [t \in Threads |-> << >>]
    /\ wire = << >> /\ buf = << >>
    /\ connected = TRUE /\ short = FALSE

Sending(t) == out[t] # << >>

\* Mutant of SendSome: send() is called once.
SendOnce(t) ==
    LET n == Fewest(Len(out[t]), SendBuf - Len(wire))
    IN  /\ Sending(t)
        /\ wire' = wire \o SubSeq(out[t], 1, n)
        /\ out' = [out EXCEPT ![t] = << >>]
        /\ short' = (short \/ n = 0)
        /\ UNCHANGED <<buf, connected>>

\* One turn of the loop of send_all().  A full socket ends it: nothing of the
\* message was sent (-2, which the callers of player_send() do not look at), or a
\* part of it, and then the loop counts as a success.
SendSome(t) ==
    LET n == Fewest(Len(out[t]), SendBuf - Len(wire))
    IN  /\ Sending(t)
        /\ wire' = wire \o SubSeq(out[t], 1, n)
        /\ out' = [out EXCEPT ![t] = IF n = 0 THEN << >> ELSE SubSeq(@, n + 1, Len(@))]
        /\ short' = (short \/ n < Len(out[t]))
        /\ UNCHANGED <<buf, connected>>

\* protocol_extract_message() finds a newline.
HasLine == \E i \in 1..Len(buf) : EndsLine(buf[i])
FirstLine == SelectInSeq(buf, EndsLine)

\* network_recv(): what is there and fits.  A buffer full of one unfinished line
\* leaves no room, which is taken for the end of the connection.
Recv ==
    /\ connected /\ ~HasLine /\ wire # << >>
    /\ IF Len(buf) = RecvBuf
       THEN connected' = FALSE /\ UNCHANGED <<buf, wire>>
       ELSE /\ \E n \in 1..Fewest(Len(wire), RecvBuf - Len(buf)) :
                   /\ buf' = buf \o SubSeq(wire, 1, n)
                   /\ wire' = SubSeq(wire, n + 1, Len(wire))
            /\ UNCHANGED connected
    /\ UNCHANGED <<out, short>>

\* The line is taken out of the buffer.
TakeLine(line) ==
    /\ line = SubSeq(buf, 1, FirstLine)
    /\ buf' = SubSeq(buf, FirstLine + 1, Len(buf))

=============================================================================
