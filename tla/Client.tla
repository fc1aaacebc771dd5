------------------------------- MODULE Client -------------------------------
(***************************************************************************)
(* One client and what the server holds of it: the keys the player may     *)
(* press are chosen by the flags of the client (client/main.c), which      *)
(* follow the messages of the server (client/game.c); the server's main    *)
(* thread reads the commands (main.c), its game thread sends on its own.   *)
(* Rooms says what the server does; here it is what one player sees of it. *)
(***************************************************************************)
EXTENDS Transport

CONSTANTS RecvMax,    \* commands one recv() of the server takes
          MaxKeys     \* bound: keys pressed

ASSUME ClientAssumption == RecvMax \in Nat \ {0} /\ MaxKeys \in Nat

VARIABLES
    keys,       \* keys pressed
    up,         \* commands in the server's socket
    edge,       \* EPOLLIN has been raised and not been answered
    inbox,      \* player->recv_buf
    reading,    \* the main thread is in handle_client_data() for this player
    todo,       \* what is left of the handler: messages, and the start of the thread
    status,     \* player->status
    member,     \* player->room_id >= 0
    game,       \* the game thread of the player's room
    collected,  \* room_end_game() has collected the player
    screen,     \* in_room, is_ready, in_game of g_state
    burst,      \* history: more commands waited than one recv() takes
    leftGame,   \* history: LEAVE_ROOM reached the server during a game
    overtaken   \* history: GAME_END was sent before the GAME_START of a login
clientVars == <<keys, up, edge, screen>>
mainVars == <<inbox, reading, todo, burst, leftGame>>
gameVars == <<game, collected, overtaken>>
vars == <<clientVars, mainVars, gameVars, status, member, transportVars>>

Replies == {"room_info", "left", "ready", "not_ready", "err"}
Kinds == Replies \cup {"start", "state", "end"}
Commands == {"enter", "ready", "leave"}
Pieces == [kind : Kinds, part : 1..2]

TypeOK ==
    /\ keys \in 0..MaxKeys /\ edge \in BOOLEAN
    /\ up \in Seq(Commands) /\ inbox \in Seq(Commands) /\ Len(inbox) <= RecvMax
    /\ reading \in BOOLEAN /\ todo \in Seq(Kinds \cup {"thread"})
    /\ status \in {"lobby", "in_room", "ready", "gaming"} /\ member \in BOOLEAN
    /\ game \in {"none", "tick", "end"} /\ collected \in BOOLEAN
    /\ screen \in [in_room : BOOLEAN, is_ready : BOOLEAN, in_game : BOOLEAN]
    /\ burst \in BOOLEAN /\ leftGame \in BOOLEAN /\ overtaken \in BOOLEAN
    /\ out \in [Threads -> Seq(Pieces)] /\ \A t \in Threads : Len(out[t]) <= 2
    /\ wire \in Seq(Pieces) /\ Len(wire) <= SendBuf
    /\ buf \in Seq(Pieces) /\ Len(buf) <= RecvBuf
    /\ connected \in BOOLEAN /\ short \in BOOLEAN

\* Logged in, in the lobby; or back in a recovered game, the thread of which another
\* player has started, with the answer to the login not sent yet.
Init ==
    /\ TransportInit
    /\ keys = 0 /\ up = << >> /\ edge = FALSE /\ inbox = << >>
    /\ screen = [in_room |-> FALSE, is_ready |-> FALSE, in_game |-> FALSE]
    /\ collected = FALSE /\ burst = FALSE /\ leftGame = FALSE /\ overtaken = FALSE
    /\ \/ /\ status = "lobby" /\ member = FALSE /\ game = "none"
          /\ reading = FALSE /\ todo = << >>
       \/ /\ status = "gaming" /\ member = TRUE /\ game = "tick"
          /\ reading = TRUE /\ todo = <<"start", "room_info">>

-----------------------------------------------------------------------------
(* The client. *)

\* main_loop(): the key is read in one of three modes; what the keys of a game do
\* is left out.
Press(c) ==
    /\ connected /\ keys < MaxKeys /\ ~screen.in_game
    /\ IF screen.in_room THEN c \in {"ready", "leave"} ELSE c = "enter"
    /\ keys' = keys + 1
    /\ up' = Append(up, c) /\ edge' = TRUE
    /\ UNCHANGED <<screen, mainVars, gameVars, status, member, transportVars>>

\* Mutant of Shows: GAME_END leaves is_ready.
ShowsReady(k) ==
    screen' = CASE k = "room_info" -> [screen EXCEPT !.in_room = TRUE]
                [] k = "left" -> [screen EXCEPT !.in_room = FALSE, !.is_ready = FALSE]
                [] k = "ready" -> [screen EXCEPT !.is_ready = TRUE]
                [] k = "not_ready" -> [screen EXCEPT !.is_ready = FALSE]
                [] k = "start" -> [screen EXCEPT !.in_game = TRUE]
                [] k = "end" -> [screen EXCEPT !.in_game = FALSE]
                [] OTHER -> screen

\* game_update_from_server() and its handlers.
Shows(k) ==
    screen' = CASE k = "room_info" -> [screen EXCEPT !.in_room = TRUE]
                [] k = "left" -> [screen EXCEPT !.in_room = FALSE, !.is_ready = FALSE]
                [] k = "ready" -> [screen EXCEPT !.is_ready = TRUE]
                [] k = "not_ready" -> [screen EXCEPT !.is_ready = FALSE]
                [] k = "start" -> [screen EXCEPT !.in_game = TRUE]
                [] k = "end" -> [screen EXCEPT !.in_game = FALSE, !.is_ready = FALSE]
                [] OTHER -> screen

\* One line is handled.  A damaged one is not understood, unless the damage is
\* behind what its handler looks at.
HandleLine ==
    /\ connected /\ HasLine
    /\ \E line \in {SubSeq(buf, 1, FirstLine)} :
           /\ TakeLine(line)
           /\ LET k == line[1].kind
              IN  IF line = Message(k) THEN Shows(k)
                  ELSE \/ UNCHANGED screen
                       \/ line[1].part = 1 /\ k \in {"room_info", "left", "end"} /\ Shows(k)
    /\ UNCHANGED <<keys, up, edge, mainVars, gameVars, status, member,
                   out, wire, connected, short>>

-----------------------------------------------------------------------------
(* The main thread. *)

\* An edge: one recv(), however much there is.
Read ==
    /\ ~reading /\ edge
    /\ edge' = FALSE /\ reading' = TRUE
    /\ LET n == Fewest(RecvMax, Len(up))
       IN  /\ inbox' = SubSeq(up, 1, n)
           /\ up' = SubSeq(up, n + 1, Len(up))
           /\ burst' = (burst \/ n < Len(up))
    /\ UNCHANGED <<keys, screen, todo, leftGame, gameVars, status, member, transportVars>>

AtNextCommand == reading /\ todo = << >> /\ ~Sending("main") /\ inbox # << >>

\* What a handler makes of one command.
Answer(c, msgs) ==
    /\ AtNextCommand /\ Head(inbox) = c
    /\ inbox' = Tail(inbox) /\ todo' = msgs
    /\ UNCHANGED <<clientVars, reading, burst, collected, overtaken, transportVars>>

\* CREATE_ROOM, JOIN_ROOM.
Enter ==
    /\ status = "lobby"
    /\ status' = "in_room" /\ member' = TRUE
    /\ Answer("enter", <<"room_info">>)
    /\ UNCHANGED <<game, leftGame>>

\* READY; the last one starts the game and creates its thread.
Ready ==
    /\ member
    /\ UNCHANGED <<member, game, leftGame>>
    /\ \/ /\ status = "in_room" /\ status' = "ready"
          /\ Answer("ready", <<"ready">>)
       \/ /\ status = "in_room" /\ game = "none" /\ status' = "gaming"
          /\ Answer("ready", <<"ready", "start", "thread">>)
       \/ /\ status = "ready" /\ status' = "in_room"
          /\ Answer("ready", <<"not_ready">>)

\* LEAVE_ROOM, in a game too: its thread goes on without the player, unless it has
\* collected him already.
Leave ==
    /\ status # "lobby" /\ member
    /\ status' = "lobby" /\ member' = FALSE
    /\ game' = IF game = "tick" THEN "none" ELSE game
    /\ leftGame' = (leftGame \/ game # "none")
    /\ Answer("leave", <<"left">>)

Refuse ==
    /\ \E c \in Commands :
           /\ CASE c = "enter" -> status # "lobby"
                [] c = "ready" -> status \notin {"in_room", "ready"} \/ ~member
                [] c = "leave" -> status = "lobby" \/ ~member
           /\ Answer(c, <<"err">>)
    /\ UNCHANGED <<status, member, game, leftGame>>

\* The next of the handler's steps.
Step ==
    /\ todo # << >> /\ ~Sending("main")
    /\ todo' = Tail(todo)
    /\ IF Head(todo) = "thread"
       THEN game' = "tick" /\ UNCHANGED out
       ELSE out' = [out EXCEPT !["main"] = Message(Head(todo))] /\ UNCHANGED game
    /\ UNCHANGED <<clientVars, inbox, reading, burst, leftGame, collected, overtaken,
                   status, member, wire, buf, connected, short>>

\* Mutant of Wait: one command for each event.
WaitAfterOne ==
    /\ reading /\ todo = << >> /\ ~Sending("main")
    /\ reading' = FALSE
    /\ UNCHANGED <<clientVars, inbox, todo, burst, leftGame, gameVars, status, member,
                   transportVars>>

\* All that was read is handled: back to epoll_wait().
Wait ==
    /\ reading /\ todo = << >> /\ ~Sending("main") /\ inbox = << >>
    /\ reading' = FALSE
    /\ UNCHANGED <<clientVars, inbox, todo, burst, leftGame, gameVars, status, member,
                   transportVars>>

\* READY of another player starts the game.
OthersReady ==
    /\ ~reading /\ status = "ready" /\ member /\ game = "none"
    /\ status' = "gaming"
    /\ reading' = TRUE /\ todo' = <<"start", "thread">>
    /\ UNCHANGED <<clientVars, inbox, burst, leftGame, gameVars, member, transportVars>>

-----------------------------------------------------------------------------
(* The game thread. *)

\* game_broadcast_state()
Broadcast ==
    /\ game = "tick" /\ ~Sending("game") /\ member
    /\ out' = [out EXCEPT !["game"] = Message("state")]
    /\ UNCHANGED <<clientVars, mainVars, gameVars, status, member, wire, buf, connected, short>>

StartToSend == \/ "start" \in Range(todo)
               \/ Sending("main") /\ out["main"][1].kind = "start"

\* room_end_game(): the player is collected, GAME_END sent ...
EndGame ==
    /\ game = "tick" /\ ~Sending("game") /\ member
    /\ game' = "end" /\ collected' = TRUE
    /\ overtaken' = (overtaken \/ StartToSend)
    /\ out' = [out EXCEPT !["game"] = Message("end")]
    /\ UNCHANGED <<clientVars, mainVars, status, member, wire, buf, connected, short>>

\* ... and he is reset, gone or not.
Reset ==
    /\ game = "end" /\ ~Sending("game")
    /\ game' = "none" /\ collected' = FALSE
    /\ status' = "in_room"
    /\ UNCHANGED <<clientVars, mainVars, overtaken, member, transportVars>>

Send == /\ \E t \in Threads : SendSome(t)
        /\ UNCHANGED <<clientVars, mainVars, gameVars, status, member>>

Receive == Recv /\ UNCHANGED <<clientVars, mainVars, gameVars, status, member>>

Next ==
    \/ \E c \in Commands : Press(c)
    \/ Receive \/ HandleLine
    \/ Read \/ Enter \/ Ready \/ Leave \/ Refuse \/ Step \/ Wait \/ OthersReady
    \/ Broadcast \/ EndGame \/ Reset
    \/ Send

Spec == Init /\ [][Next]_vars

-----------------------------------------------------------------------------
Quiet == /\ ~reading /\ up = << >> /\ wire = << >> /\ buf = << >>
         /\ \A t \in Threads : ~Sending(t)
         /\ game # "end"

\* When nothing is under way the client is in the mode its player is in.  There are
\* three ways to get it wrong: a send that did not fit, LEAVE_ROOM sent before
\* GAME_START arrived ("Left room" clears in_room, not in_game), and the end of a
\* recovered game between the steps of a login.
ScreenFollows ==
    Quiet /\ connected /\ ~short /\ ~leftGame /\ ~overtaken =>
        /\ screen.in_room = member
        /\ screen.in_game = (status = "gaming")
        /\ status # "gaming" => screen.is_ready = (status = "ready")

\* The client splits the stream where the server joined it, however it arrives, as
\* long as no send was short; the two threads then never mix their messages.
LinesAreMessages ==
    ~short => /\ connected
              /\ HasLine => SubSeq(buf, 1, FirstLine) = Message(buf[1].kind)

\* A command is left in the socket or the buffer only when more arrived at once than
\* one recv() takes: the edge is not raised again for the rest.
NoCommandStuck == ~reading /\ ~edge /\ ~burst => up = << >> /\ inbox = << >>

=============================================================================
