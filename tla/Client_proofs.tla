--------------------------- MODULE Client_proofs ---------------------------
(***************************************************************************)
(* What holds of the stream of messages and of the commands of a client,   *)
(* and of what it shows, for buffers of any size and any number of keys.   *)
(***************************************************************************)
EXTENDS Client, SequenceTheorems, WellFoundedInduction, TLAPS

\* q may come behind p in the stream.
Follows(p, q) == IF p.part = 1 THEN q = Piece(p.kind, 2) ELSE q.part = 1

Alternates(s) == \A i \in 1..Len(s) : i + 1 <= Len(s) => Follows(s[i], s[i + 1])

\* Messages are sent whole.
Whole == \A t \in Threads : out[t] = << >> \/ \E k \in Kinds : out[t] = Message(k)

\* Buffer and socket together are messages one behind the other: the buffer begins
\* with one, the socket goes on where the buffer stops, and ends with one.
Stream ==
    /\ Alternates(buf) /\ Alternates(wire)
    /\ buf # << >> => buf[1].part = 1
    /\ wire # << >> => /\ wire[Len(wire)].part = 2
                      /\ IF buf = << >> THEN wire[1].part = 1
                                       ELSE Follows(buf[Len(buf)], wire[1])
    /\ wire = << >> /\ buf # << >> => buf[Len(buf)].part = 2

\* While no send was short, nothing tears the stream.
Unbroken == ~short => connected /\ Whole /\ Stream

\* Between two events everything that was read is handled, and what is left in the
\* socket without an edge is what did not fit.
Handled == /\ ~reading => inbox = << >>
           /\ ~edge /\ ~burst => up = << >>

IInv == TypeOK /\ Unbroken /\ Handled

-----------------------------------------------------------------------------
(* The types. *)

\* A message is two pieces.
LEMMA MessageType ==
    ASSUME NEW k \in Kinds
    PROVE  /\ Message(k) \in Seq(Pieces) /\ Len(Message(k)) = 2
           /\ Message(k)[1] = Piece(k, 1) /\ Message(k)[2] = Piece(k, 2)
BY DEF Message, Piece, Pieces

\* FirstLine is a place in the buffer, the first of its kind.
LEMMA FirstLineFound ==
    ASSUME buf \in Seq(Pieces), HasLine
    PROVE  /\ FirstLine \in 1..Len(buf)
           /\ EndsLine(buf[FirstLine])
           /\ \A i \in 1..Len(buf) : EndsLine(buf[i]) => FirstLine <= i
<1> DEFINE I == {i \in 1..Len(buf) : EndsLine(buf[i])}
<1>1. I # {} /\ I \subseteq Nat
  BY DEF HasLine
<1>2. PICK n \in I : \A m \in I : ~ (<<m, n>> \in OpToRel(<, Nat))
  BY <1>1, NatLessThanWellFounded, WFMin
<1>3. \A m \in I : n <= m
  <2> SUFFICES ASSUME NEW m \in I PROVE n <= m
    OBVIOUS
  <2>1. m \in Nat /\ n \in Nat
    BY <1>1
  <2>2. ~(m < n)
    BY <1>2, <2>1 DEF OpToRel
  <2> QED BY <2>1, <2>2
<1>4. FirstLine = Min(I)
  BY <1>1 DEF FirstLine, SelectInSeq
<1>5. Min(I) \in I /\ \A m \in I : Min(I) <= m
  BY <1>3 DEF Min
<1> QED BY <1>4, <1>5

\* A part of a sequence is one.
LEMMA Part ==
    ASSUME NEW S, NEW s \in Seq(S), NEW i \in 1..Len(s) + 1, NEW j \in 0..Len(s)
    PROVE  /\ SubSeq(s, i, j) \in Seq(S)
           /\ Len(SubSeq(s, i, j)) = IF i <= j THEN j - i + 1 ELSE 0
           /\ \A n \in 1..j - i + 1 : SubSeq(s, i, j)[n] = s[i + n - 1]
<1>1. \A n \in i..j : s[n] \in S
  BY ElementOfSeq
<1> QED BY <1>1, SubSeqProperties

\* send_all() takes from the front of a message what the socket has room for.
LEMMA SendTypes ==
    ASSUME TypeOK, NEW t \in Threads, SendSome(t)
    PROVE  /\ \A x \in Threads : out'[x] \in Seq(Pieces) /\ Len(out'[x]) <= 2
           /\ wire' \in Seq(Pieces) /\ Len(wire') <= SendBuf
           /\ short' \in BOOLEAN
<1> DEFINE n == Fewest(Len(out[t]), SendBuf - Len(wire))
<1>1. out[t] \in Seq(Pieces) /\ wire \in Seq(Pieces)
  BY DEF TypeOK
<1>2. Len(out[t]) \in Nat /\ Len(wire) \in Nat /\ Len(out[t]) <= 2 /\ Len(wire) <= SendBuf
  BY <1>1 DEF TypeOK
<1>3. n \in 0..Len(out[t]) /\ n <= SendBuf - Len(wire)
  BY <1>2, TransportAssumption DEF Fewest
<1> HIDE DEF n
<1>4. SubSeq(out[t], 1, n) \in Seq(Pieces) /\ Len(SubSeq(out[t], 1, n)) = n
  BY <1>1, <1>2, <1>3, Part
<1>5. /\ SubSeq(out[t], n + 1, Len(out[t])) \in Seq(Pieces)
      /\ Len(SubSeq(out[t], n + 1, Len(out[t]))) <= 2
  <2>1. n + 1 \in 1..Len(out[t]) + 1 /\ Len(out[t]) \in 0..Len(out[t])
    BY <1>2, <1>3
  <2> QED BY <1>1, <1>2, <1>3, <2>1, Part
<1>6. wire' = wire \o SubSeq(out[t], 1, n)
  BY DEF SendSome, n
<1>7. wire' \in Seq(Pieces) /\ Len(wire') <= SendBuf
  BY <1>1, <1>2, <1>3, <1>4, <1>6, ConcatProperties, TransportAssumption
<1>8. \A x \in Threads : out'[x] = out[x] \/ out'[x] = << >>
                           \/ out'[x] = SubSeq(out[t], n + 1, Len(out[t]))
  BY DEF SendSome, n, TypeOK
<1>9. << >> \in Seq(Pieces) /\ Len(<< >>) <= 2
  BY EmptySeq
<1>10. \A x \in Threads : out'[x] \in Seq(Pieces) /\ Len(out'[x]) <= 2
  BY <1>5, <1>8, <1>9 DEF TypeOK
<1>11. short' \in BOOLEAN
  BY DEF SendSome, TypeOK
<1> QED BY <1>7, <1>10, <1>11

\* network_recv() never writes behind the end of the buffer.
LEMMA RecvTypes ==
    ASSUME TypeOK, Recv
    PROVE  /\ wire' \in Seq(Pieces) /\ Len(wire') <= SendBuf
           /\ buf' \in Seq(Pieces) /\ Len(buf') <= RecvBuf
           /\ connected' \in BOOLEAN
<1>1. /\ wire \in Seq(Pieces) /\ buf \in Seq(Pieces)
      /\ Len(wire) <= SendBuf /\ Len(buf) <= RecvBuf
  BY DEF TypeOK
<1>2. Len(wire) \in Nat /\ Len(buf) \in Nat
  BY <1>1
<1>3. CASE UNCHANGED <<buf, wire>>
  BY <1>1, <1>3 DEF Recv, TypeOK
<1>4. ASSUME NEW n \in 1..Fewest(Len(wire), RecvBuf - Len(buf)), connected' = connected,
             buf' = buf \o SubSeq(wire, 1, n), wire' = SubSeq(wire, n + 1, Len(wire))
      PROVE  /\ wire' \in Seq(Pieces) /\ Len(wire') <= SendBuf
             /\ buf' \in Seq(Pieces) /\ Len(buf') <= RecvBuf
             /\ connected' \in BOOLEAN
  <2>1. n \in 1..Len(wire) /\ n <= RecvBuf - Len(buf)
    BY <1>1, <1>2, TransportAssumption DEF Fewest
  <2>2. SubSeq(wire, 1, n) \in Seq(Pieces) /\ Len(SubSeq(wire, 1, n)) = n
    BY <1>1, <1>2, <2>1, Part
  <2>3. n + 1 \in 1..Len(wire) + 1 /\ Len(wire) \in 0..Len(wire)
    BY <1>2, <2>1
  <2>4. wire' \in Seq(Pieces) /\ Len(wire') <= SendBuf
    BY <1>1, <1>2, <1>4, <2>1, <2>3, Part, TransportAssumption
  <2>5. buf' \in Seq(Pieces) /\ Len(buf') = Len(buf) + n
    BY <1>1, <1>4, <2>2, ConcatProperties
  <2>6. connected' \in BOOLEAN
    BY <1>4 DEF TypeOK
  <2>7. Len(buf') <= RecvBuf
    BY <1>2, <2>1, <2>5, TransportAssumption
  <2> QED BY <2>4, <2>5, <2>6, <2>7
<1> QED BY <1>3, <1>4 DEF Recv

\* What is left behind the line is a sequence of pieces.
LEMMA HandleTypes ==
    ASSUME TypeOK, HandleLine
    PROVE  /\ buf' \in Seq(Pieces) /\ Len(buf') <= RecvBuf
           /\ screen' \in [in_room : BOOLEAN, is_ready : BOOLEAN, in_game : BOOLEAN]
<1>1. buf \in Seq(Pieces) /\ Len(buf) <= RecvBuf /\ Len(buf) \in Nat
  BY DEF TypeOK
<1>2. FirstLine \in 1..Len(buf)
  BY <1>1, FirstLineFound DEF HandleLine
<1>3. buf' = SubSeq(buf, FirstLine + 1, Len(buf))
  BY DEF HandleLine, TakeLine
<1>4. FirstLine + 1 \in 1..Len(buf) + 1 /\ Len(buf) \in 0..Len(buf)
  BY <1>1, <1>2
<1>5. buf' \in Seq(Pieces) /\ Len(buf') <= RecvBuf
  BY <1>1, <1>2, <1>3, <1>4, Part, TransportAssumption
<1>6. UNCHANGED screen \/ \E k : Shows(k)
  BY DEF HandleLine
<1>7. ASSUME NEW k, Shows(k)
      PROVE  screen' \in [in_room : BOOLEAN, is_ready : BOOLEAN, in_game : BOOLEAN]
  BY <1>7 DEF Shows, TypeOK
<1> QED BY <1>5, <1>6, <1>7 DEF TypeOK

\* recv() takes the front of the commands.
LEMMA ReadTypes ==
    ASSUME TypeOK, Read
    PROVE  /\ inbox' \in Seq(Commands) /\ Len(inbox') <= RecvMax
           /\ up' \in Seq(Commands)
           /\ ~burst' => up' = << >>
<1> DEFINE n == Fewest(RecvMax, Len(up))
<1>1. up \in Seq(Commands) /\ Len(up) \in Nat
  BY DEF TypeOK
<1>2. n \in 0..Len(up) /\ n <= RecvMax
  BY <1>1, ClientAssumption DEF Fewest
<1>3. inbox' = SubSeq(up, 1, n) /\ up' = SubSeq(up, n + 1, Len(up)) /\ burst' = (burst \/ n < Len(up))
  BY DEF Read
<1>3b. n < Len(up) => burst'
  BY <1>3
<1> HIDE DEF n
<1>4. inbox' \in Seq(Commands) /\ Len(inbox') = n
  BY <1>1, <1>2, <1>3, Part
<1>5. n + 1 \in 1..Len(up) + 1 /\ Len(up) \in 0..Len(up)
  BY <1>1, <1>2
<1>6. up' \in Seq(Commands)
  BY <1>1, <1>3, <1>5, Part
<1>7. ASSUME ~burst' PROVE up' = << >>
  <2>1. n = Len(up)
    BY <1>1, <1>2, <1>3b, <1>7
  <2> QED BY <1>1, <1>3, <2>1, SubSeqEmpty
<1> QED BY <1>2, <1>4, <1>6, <1>7, ClientAssumption

\* A thread begins to send.
LEMMA OutType ==
    ASSUME TypeOK, NEW t \in Threads, NEW k \in Kinds, out' = [out EXCEPT ![t] = Message(k)]
    PROVE  out' \in [Threads -> Seq(Pieces)] /\ \A x \in Threads : Len(out'[x]) <= 2
<1>1. out' \in [Threads -> Seq(Pieces)]
  <2>1. Message(k) \in Seq(Pieces)
    BY MessageType
  <2> QED BY <2>1 DEF TypeOK
<1>2. ASSUME NEW x \in Threads PROVE Len(out'[x]) <= 2
  <2>1. out'[x] = Message(k) \/ out'[x] = out[x]
    BY DEF TypeOK
  <2>2. Len(Message(k)) = 2 /\ Len(out[x]) <= 2
    BY MessageType DEF TypeOK
  <2>3. CASE out'[x] = Message(k)
    <3>1. \A n : n = 2 => n <= 2
      OBVIOUS
    <3> QED BY <2>2, <2>3, <3>1, Zenon
  <2>4. CASE out'[x] = out[x]
    BY <2>2, <2>4
  <2> QED BY <2>1, <2>3, <2>4
<1> QED BY <1>1, <1>2

\* Every step keeps the types.
LEMMA TypeOKStep == TypeOK /\ [Next]_vars => TypeOK'
<1> SUFFICES ASSUME TypeOK, [Next]_vars PROVE TypeOK'
  OBVIOUS
<1> USE DEF clientVars, mainVars, gameVars, transportVars
<1>0. "main" \in Threads /\ "game" \in Threads
  BY DEF Threads
<1>1. ASSUME NEW c \in Commands, Press(c) PROVE TypeOK'
  <2>1. up' \in Seq(Commands)
    BY <1>1 DEF Press, TypeOK
  <2>2. keys' \in 0..MaxKeys
    BY <1>1, ClientAssumption DEF Press, TypeOK
  <2> QED BY <1>1, <2>1, <2>2 DEF Press, TypeOK
<1>2. CASE Receive
  <2>1. Recv /\ UNCHANGED <<clientVars, mainVars, gameVars, status, member, out, short>>
    BY <1>2 DEF Receive, Recv
  <2>2. /\ wire' \in Seq(Pieces) /\ Len(wire') <= SendBuf
        /\ buf' \in Seq(Pieces) /\ Len(buf') <= RecvBuf
        /\ connected' \in BOOLEAN
    BY <2>1, RecvTypes
  <2>3. UNCHANGED <<clientVars, mainVars, gameVars, status, member, out, short>>
    BY <2>1
  <2> QED BY <2>2, <2>3 DEF TypeOK
<1>3. CASE HandleLine
  <2>1. /\ buf' \in Seq(Pieces) /\ Len(buf') <= RecvBuf
        /\ screen' \in [in_room : BOOLEAN, is_ready : BOOLEAN, in_game : BOOLEAN]
    BY <1>3, HandleTypes
  <2>2. UNCHANGED <<keys, up, edge, mainVars, gameVars, status, member, out, wire, connected, short>>
    BY <1>3 DEF HandleLine
  <2> QED BY <2>1, <2>2 DEF TypeOK
<1>4. CASE Read
  <2>1. inbox' \in Seq(Commands) /\ Len(inbox') <= RecvMax /\ up' \in Seq(Commands)
    BY <1>4, ReadTypes
  <2>2. burst' \in BOOLEAN
    BY <1>4 DEF Read, TypeOK
  <2>3. /\ edge' = FALSE /\ reading' = TRUE
        /\ UNCHANGED <<keys, screen, todo, leftGame, gameVars, status, member, transportVars>>
    BY <1>4 DEF Read
  <2> QED BY <2>1, <2>2, <2>3, ZenonT(60) DEF TypeOK
<1>5. ASSUME NEW c \in Commands, NEW msgs \in Seq(Kinds \cup {"thread"}), Answer(c, msgs)
      PROVE  /\ inbox' \in Seq(Commands) /\ Len(inbox') <= RecvMax
             /\ todo' \in Seq(Kinds \cup {"thread"})
             /\ UNCHANGED <<keys, up, edge, screen, reading, burst, collected, overtaken,
                            transportVars>>
  <2>1. inbox \in Seq(Commands) /\ inbox # << >> /\ Len(inbox) <= RecvMax
    BY <1>5 DEF Answer, AtNextCommand, TypeOK
  <2>2. Tail(inbox) \in Seq(Commands) /\ Len(Tail(inbox)) <= RecvMax
    BY <2>1, HeadTailProperties, ClientAssumption
  <2> QED BY <1>5, <2>2 DEF Answer
<1>6. /\ <<"room_info">> \in Seq(Kinds \cup {"thread"}) /\ <<"left">> \in Seq(Kinds \cup {"thread"})
      /\ <<"ready">> \in Seq(Kinds \cup {"thread"}) /\ <<"not_ready">> \in Seq(Kinds \cup {"thread"})
      /\ <<"err">> \in Seq(Kinds \cup {"thread"})
      /\ <<"ready", "start", "thread">> \in Seq(Kinds \cup {"thread"})
      /\ <<"start", "thread">> \in Seq(Kinds \cup {"thread"})
  BY DEF Kinds, Replies
<1>7. CASE Enter
  <2>1. Answer("enter", <<"room_info">>)
    BY <1>7 DEF Enter
  <2>2. /\ inbox' \in Seq(Commands) /\ Len(inbox') <= RecvMax
        /\ todo' \in Seq(Kinds \cup {"thread"})
        /\ UNCHANGED <<keys, up, edge, screen, reading, burst, collected, overtaken, transportVars>>
    BY <1>5, <1>6, <2>1 DEF Commands
  <2> QED BY <1>7, <2>2 DEF Enter, TypeOK
<1>8. CASE Ready
  <2>1. \E msgs \in Seq(Kinds \cup {"thread"}) : Answer("ready", msgs)
    BY <1>6, <1>8 DEF Ready
  <2>2. /\ inbox' \in Seq(Commands) /\ Len(inbox') <= RecvMax
        /\ todo' \in Seq(Kinds \cup {"thread"})
        /\ UNCHANGED <<keys, up, edge, screen, reading, burst, collected, overtaken, transportVars>>
    BY <1>5, <2>1 DEF Commands
  <2> QED BY <1>8, <2>2 DEF Ready, TypeOK
<1>9. CASE Leave
  <2>1. Answer("leave", <<"left">>)
    BY <1>9 DEF Leave
  <2>2. /\ inbox' \in Seq(Commands) /\ Len(inbox') <= RecvMax
        /\ todo' \in Seq(Kinds \cup {"thread"})
        /\ UNCHANGED <<keys, up, edge, screen, reading, burst, collected, overtaken, transportVars>>
    BY <1>5, <1>6, <2>1 DEF Commands
  <2> QED BY <1>9, <2>2 DEF Leave, TypeOK
<1>10. CASE Refuse
  <2>1. PICK c \in Commands : Answer(c, <<"err">>)
    BY <1>10 DEF Refuse
  <2>2. /\ inbox' \in Seq(Commands) /\ Len(inbox') <= RecvMax
        /\ todo' \in Seq(Kinds \cup {"thread"})
        /\ UNCHANGED <<keys, up, edge, screen, reading, burst, collected, overtaken, transportVars>>
    BY <1>5, <1>6, <2>1
  <2> QED BY <1>10, <2>2 DEF Refuse, TypeOK
<1>11. CASE Step
  <2>1. todo \in Seq(Kinds \cup {"thread"}) /\ todo # << >>
    BY <1>11 DEF Step, TypeOK
  <2>2. Tail(todo) \in Seq(Kinds \cup {"thread"}) /\ Head(todo) \in Kinds \cup {"thread"}
    BY <2>1, HeadTailProperties
  <2>3. out' \in [Threads -> Seq(Pieces)] /\ \A t \in Threads : Len(out'[t]) <= 2
    <3>1. CASE Head(todo) = "thread"
      BY <1>11, <3>1 DEF Step, TypeOK
    <3>2. CASE Head(todo) # "thread"
      <4>1. PICK k \in Kinds : k = Head(todo)
        BY <2>2, <3>2
      <4>2. out' = [out EXCEPT !["main"] = Message(k)]
        BY <1>11, <3>2, <4>1 DEF Step
      <4> QED BY <1>0, <4>2, OutType
    <3> QED BY <3>1, <3>2
  <2>4. game' \in {"none", "tick", "end"}
    BY <1>11 DEF Step, TypeOK
  <2> QED BY <1>11, <2>2, <2>3, <2>4 DEF Step, TypeOK
<1>12. CASE Wait
  <2>1. UNCHANGED <<clientVars, inbox, todo, burst, leftGame, gameVars, status, member,
                    transportVars>>
    BY <1>12 DEF Wait
  <2>2. reading' \in BOOLEAN
    BY <1>12 DEF Wait
  <2> QED BY <2>1, <2>2 DEF TypeOK
<1>13. CASE OthersReady
  BY <1>6, <1>13 DEF OthersReady, TypeOK
<1>14. ASSUME NEW k \in {"state", "end"}, out' = [out EXCEPT !["game"] = Message(k)]
       PROVE  out' \in [Threads -> Seq(Pieces)] /\ \A t \in Threads : Len(out'[t]) <= 2
  <2>1. k \in Kinds
    BY DEF Kinds
  <2> QED BY <1>0, <1>14, <2>1, OutType
<1>15. CASE Broadcast
  BY <1>14, <1>15 DEF Broadcast, TypeOK
<1>16. CASE EndGame
  <2>1. overtaken' \in BOOLEAN
    BY <1>16 DEF EndGame, TypeOK
  <2> QED BY <1>14, <1>16, <2>1 DEF EndGame, TypeOK
<1>17. CASE Reset
  BY <1>17, ZenonT(60) DEF Reset, TypeOK
<1>18. CASE Send
  <2>1. PICK t \in Threads : SendSome(t)
    BY <1>18 DEF Send
  <2>2. out' \in [Threads -> Seq(Pieces)]
    BY <2>1, SendTypes DEF SendSome, TypeOK
  <2>3. /\ \A x \in Threads : Len(out'[x]) <= 2
        /\ wire' \in Seq(Pieces) /\ Len(wire') <= SendBuf
        /\ short' \in BOOLEAN
    BY <2>1, SendTypes
  <2>4. UNCHANGED <<clientVars, mainVars, gameVars, status, member, buf, connected>>
    BY <1>18, <2>1 DEF Send, SendSome
  <2> QED BY <2>2, <2>3, <2>4 DEF TypeOK
<1>19. CASE UNCHANGED vars
  BY <1>19 DEF vars, TypeOK
<1> QED BY <1>1, <1>2, <1>3, <1>4, <1>7, <1>8, <1>9, <1>10, <1>11, <1>12, <1>13, <1>15, <1>16,
           <1>17, <1>18, <1>19 DEF Next

-----------------------------------------------------------------------------
(* The stream. *)

\* A line of an unbroken stream is the message it begins with.
LEMMA FirstLineIsMessage ==
    ASSUME TypeOK, Stream, HasLine
    PROVE  /\ FirstLine = 2 /\ 2 <= Len(buf)
           /\ SubSeq(buf, 1, 2) = Message(buf[1].kind)
<1>1. buf \in Seq(Pieces) /\ Len(buf) \in Nat
  BY DEF TypeOK
<1>2. PICK i \in 1..Len(buf) : EndsLine(buf[i])
  BY DEF HasLine
<1>3. buf # << >>
  BY <1>1, <1>2
<1>4. buf[1].part = 1 /\ 1 \in 1..Len(buf)
  BY <1>1, <1>2, <1>3 DEF Stream
<1>5. i # 1
  BY <1>2, <1>4 DEF EndsLine
<1>6. 2 <= Len(buf)
  BY <1>1, <1>2, <1>5
<1>7. Follows(buf[1], buf[1 + 1])
  <2>1. \A j \in 1..Len(buf) : j + 1 <= Len(buf) => Follows(buf[j], buf[j + 1])
    BY DEF Stream, Alternates
  <2>2. 1 + 1 <= Len(buf)
    BY <1>6
  <2> QED BY <1>4, <2>1, <2>2
<1>8. buf[2] = Piece(buf[1].kind, 2)
  BY <1>4, <1>7 DEF Follows
<1>9. EndsLine(buf[2])
  BY <1>8 DEF EndsLine, Piece
<1>10. FirstLine = 2
  <2>1. FirstLine \in 1..Len(buf) /\ EndsLine(buf[FirstLine]) /\ FirstLine <= 2
    BY <1>1, <1>6, <1>9, FirstLineFound
  <2>2. FirstLine # 1
    BY <1>4, <2>1 DEF EndsLine
  <2> QED BY <1>1, <2>1, <2>2
<1>11. buf[1] \in Pieces
  BY <1>1, <1>4, ElementOfSeq
<1>12. buf[1] = Piece(buf[1].kind, 1) /\ buf[1].kind \in Kinds
  BY <1>4, <1>11 DEF Piece, Pieces
<1>13. /\ SubSeq(buf, 1, 2) \in Seq(Pieces) /\ Len(SubSeq(buf, 1, 2)) = 2
       /\ SubSeq(buf, 1, 2)[1] = buf[1] /\ SubSeq(buf, 1, 2)[2] = buf[2]
  <2>1. 2 \in 0..Len(buf) /\ 1 \in 1..Len(buf) + 1
    BY <1>1, <1>6
  <2>2. /\ SubSeq(buf, 1, 2) \in Seq(Pieces) /\ Len(SubSeq(buf, 1, 2)) = 2
        /\ \A n \in 1..2 - 1 + 1 : SubSeq(buf, 1, 2)[n] = buf[1 + n - 1]
    BY <1>1, <2>1, Part
  <2> QED BY <2>2
<1>14. SubSeq(buf, 1, 2) = Message(buf[1].kind)
  <2>1. PICK k \in Kinds : k = buf[1].kind
    BY <1>12
  <2>2. /\ Message(k) \in Seq(Pieces) /\ Len(Message(k)) = 2
        /\ Message(k)[1] = buf[1] /\ Message(k)[2] = buf[2]
    BY <1>8, <1>12, <2>1, MessageType
  <2>3. \A n \in 1..2 : SubSeq(buf, 1, 2)[n] = Message(k)[n]
    BY <1>13, <2>2
  <2>4. SubSeq(buf, 1, 2) = Message(k)
    BY <1>13, <2>2, <2>3, SeqEqual
  <2> QED BY <2>1, <2>4
<1> QED BY <1>6, <1>10, <1>14

\* In an unbroken stream two pieces make a line.
LEMMA ShortOfALine ==
    ASSUME TypeOK, Stream, ~HasLine
    PROVE  Len(buf) \in 0..1
<1>1. buf \in Seq(Pieces) /\ Len(buf) \in Nat
  BY DEF TypeOK
<1>2. ASSUME 2 <= Len(buf) PROVE FALSE
  <2>1. buf # << >>
    BY <1>1, <1>2
  <2>2. buf[1].part = 1 /\ 1 \in 1..Len(buf) /\ 2 \in 1..Len(buf)
    BY <1>1, <1>2, <2>1 DEF Stream
  <2>3. Follows(buf[1], buf[1 + 1])
    <3>1. \A j \in 1..Len(buf) : j + 1 <= Len(buf) => Follows(buf[j], buf[j + 1])
      BY DEF Stream, Alternates
    <3>2. 1 + 1 <= Len(buf)
      BY <1>2
    <3> QED BY <2>2, <3>1, <3>2
  <2>4. buf[2] = Piece(buf[1].kind, 2)
    BY <2>2, <2>3 DEF Follows
  <2>5. EndsLine(buf[2])
    BY <2>4 DEF EndsLine, Piece
  <2> QED BY <2>2, <2>5 DEF HasLine
<1>3. \A x \in Nat : ~(2 <= x) => x \in 0..1
  OBVIOUS
<1> QED BY <1>1, <1>2, <1>3, Zenon

\* A send that is not short puts the whole message into the socket.
LEMMA SendWhole ==
    ASSUME TypeOK, Unbroken, NEW t \in Threads, SendSome(t), ~short'
    PROVE  \E k \in Kinds : /\ out[t] = Message(k) /\ wire' = wire \o Message(k)
                            /\ out'[t] = << >> /\ \A x \in Threads \ {t} : out'[x] = out[x]
<1> DEFINE n == Fewest(Len(out[t]), SendBuf - Len(wire))
<1>1. ~short /\ ~(n < Len(out[t]))
  BY DEF SendSome
<1>2. Whole
  BY <1>1 DEF Unbroken
<1>3. PICK k \in Kinds : out[t] = Message(k)
  BY <1>2 DEF Whole, SendSome, Sending
<1>4. /\ Message(k) \in Seq(Pieces) /\ Len(Message(k)) = 2
      /\ Message(k)[1] = Piece(k, 1) /\ Message(k)[2] = Piece(k, 2)
  BY MessageType
<1>5. wire \in Seq(Pieces) /\ Len(wire) \in Nat /\ Len(wire) <= SendBuf
  BY DEF TypeOK
<1>6. n = 2
  <2>1. Len(out[t]) = 2
    BY <1>3, <1>4
  <2>2. n = IF 2 < SendBuf - Len(wire) THEN 2 ELSE SendBuf - Len(wire)
    BY <2>1 DEF Fewest
  <2>3. ~(n < 2)
    BY <1>1, <2>1
  <2> HIDE DEF n
  <2> QED BY <1>5, <2>2, <2>3, TransportAssumption
<1>7. wire' = wire \o SubSeq(out[t], 1, n)
  BY DEF SendSome
<1>8. out'[t] = SubSeq(out[t], n + 1, Len(out[t])) /\ \A x \in Threads \ {t} : out'[x] = out[x]
  BY <1>6, SMTT(60) DEF SendSome, TypeOK
<1> HIDE DEF n
<1>9. wire' = wire \o Message(k)
  <2>1. SubSeq(Message(k), 1, Len(Message(k))) = Message(k)
    BY <1>4, SubSeqFull
  <2> QED BY <1>3, <1>4, <1>6, <1>7, <2>1
<1>10. out'[t] = << >>
  <2>1. out'[t] = SubSeq(Message(k), 2 + 1, 2)
    BY <1>3, <1>4, <1>6, <1>8
  <2>2. SubSeq(Message(k), 2 + 1, 2) = << >>
    BY SubSeqEmpty
  <2> QED BY <2>1, <2>2
<1> QED BY <1>3, <1>8, <1>9, <1>10

\* It goes behind the others.
LEMMA SendUnbroken ==
    ASSUME TypeOK, Unbroken, NEW t \in Threads, SendSome(t), ~short'
    PROVE  connected' /\ Whole' /\ Stream'
<1>1. ~short
  BY DEF SendSome
<1>2. connected /\ Whole /\ Stream
  BY <1>1 DEF Unbroken
<1>3. PICK k \in Kinds : /\ wire' = wire \o Message(k)
                        /\ out'[t] = << >> /\ \A x \in Threads \ {t} : out'[x] = out[x]
  BY SendWhole
<1>4. /\ Message(k) \in Seq(Pieces) /\ Len(Message(k)) = 2
      /\ Message(k)[1] = Piece(k, 1) /\ Message(k)[2] = Piece(k, 2)
  BY MessageType
<1>5. wire \in Seq(Pieces) /\ Len(wire) \in Nat /\ Len(wire) <= SendBuf
  BY DEF TypeOK
<1>6. Whole'
  <2>1. ASSUME NEW x \in Threads PROVE out'[x] = << >> \/ \E j \in Kinds : out'[x] = Message(j)
    BY <1>2, <1>3 DEF Whole
  <2> QED BY <2>1 DEF Whole
<1>7. UNCHANGED <<buf, connected>>
  BY DEF SendSome
<1>8. /\ wire' \in Seq(Pieces) /\ Len(wire') = Len(wire) + 2
      /\ \A i \in 1..Len(wire) + 2 :
             wire'[i] = IF i <= Len(wire) THEN wire[i] ELSE Message(k)[i - Len(wire)]
  <2>1. PICK m : m = Message(k)
    OBVIOUS
  <2>2. /\ wire \o m \in Seq(Pieces) /\ Len(wire \o m) = Len(wire) + Len(m)
        /\ \A i \in 1..Len(wire) + Len(m) :
               (wire \o m)[i] = IF i <= Len(wire) THEN wire[i] ELSE m[i - Len(wire)]
    BY <1>4, <1>5, <2>1, ConcatProperties
  <2>3. Len(m) = 2 /\ wire' = wire \o m
    BY <1>3, <1>4, <2>1
  <2> QED BY <2>1, <2>2, <2>3
<1>9. /\ \A i \in 1..Len(wire) : wire'[i] = wire[i]
      /\ wire'[Len(wire) + 1] = Piece(k, 1) /\ wire'[Len(wire) + 2] = Piece(k, 2)
  BY <1>4, <1>5, <1>8
<1>10. Piece(k, 1).part = 1 /\ Piece(k, 1).kind = k /\ Piece(k, 2).part = 2
  BY DEF Piece
<1>11. wire = << >> \/ Len(wire) \in 1..Len(wire)
  BY <1>5
<1>12. Alternates(wire')
  <2>1. SUFFICES ASSUME NEW i \in 1..Len(wire) + 2, i + 1 <= Len(wire) + 2
                 PROVE  Follows(wire'[i], wire'[i + 1])
    BY <1>8 DEF Alternates
  <2>2. CASE i < Len(wire)
    <3>1. Follows(wire[i], wire[i + 1])
      BY <1>2, <1>5, <2>2 DEF Stream, Alternates
    <3>2. i \in 1..Len(wire) /\ i + 1 \in 1..Len(wire)
      BY <1>5, <2>2
    <3> QED BY <1>9, <3>1, <3>2
  <2>3. CASE i = Len(wire)
    <3>1. wire # << >>
      BY <1>5, <2>3
    <3>2. wire[i].part = 2
      BY <1>2, <2>3, <3>1 DEF Stream
    <3>3. wire'[i] = wire[i] /\ wire'[i + 1] = Piece(k, 1)
      BY <1>9, <1>11, <2>3, <3>1
    <3> QED BY <1>10, <3>2, <3>3 DEF Follows
  <2>4. CASE i = Len(wire) + 1
    <3>1. wire'[i] = Piece(k, 1) /\ wire'[i + 1] = Piece(k, 2)
      <4>1. i + 1 = Len(wire) + 2
        BY <1>5, <2>4
      <4> QED BY <1>9, <2>4, <4>1
    <3> QED BY <1>10, <3>1 DEF Follows
  <2> QED BY <1>5, <2>1, <2>2, <2>3, <2>4
<1>13. wire'[Len(wire')].part = 2 /\ wire' # << >>
  BY <1>5, <1>8, <1>9, <1>10
<1>14. IF buf = << >> THEN wire'[1].part = 1 ELSE Follows(buf[Len(buf)], wire'[1])
  <2>1. CASE wire # << >>
    <3>1. wire'[1] = wire[1]
      BY <1>5, <1>9, <1>11, <2>1
    <3> QED BY <1>2, <2>1, <3>1 DEF Stream
  <2>2. CASE wire = << >>
    <3>1. wire'[1] = Piece(k, 1)
      BY <1>9, <2>2
    <3> QED BY <1>2, <1>10, <2>2, <3>1 DEF Stream, Follows
  <2> QED BY <2>1, <2>2
<1>15. Alternates(buf)' /\ (buf # << >> => buf[1].part = 1)'
  BY <1>2, <1>7 DEF Stream, Alternates
<1>16. Stream'
  BY <1>7, <1>12, <1>13, <1>14, <1>15 DEF Stream, Alternates
<1> QED BY <1>2, <1>6, <1>7, <1>16

\* recv() moves the front of the socket behind the buffer.
LEMMA RecvUnbroken ==
    ASSUME TypeOK, Unbroken, Recv, ~short
    PROVE  connected' /\ Whole' /\ Stream'
<1>1. connected /\ Whole /\ Stream
  BY DEF Unbroken
<1>2. /\ buf \in Seq(Pieces) /\ Len(buf) \in Nat
      /\ wire \in Seq(Pieces) /\ Len(wire) \in Nat
  BY DEF TypeOK
<1>3. Len(buf) \in 0..1
  BY <1>1, ShortOfALine DEF Recv
<1>4. Len(buf) # RecvBuf
  <2>1. \A x \in 0..1 : x # RecvBuf
    BY TransportAssumption
  <2> QED BY <1>3, <2>1, Zenon
<1>5. PICK n \in 1..Fewest(Len(wire), RecvBuf - Len(buf)) :
          buf' = buf \o SubSeq(wire, 1, n) /\ wire' = SubSeq(wire, n + 1, Len(wire))
  BY <1>4 DEF Recv
<1>6. connected' = connected /\ out' = out
  BY <1>4 DEF Recv
<1>7. n \in 1..Len(wire) /\ wire # << >>
  BY <1>2, <1>5, TransportAssumption DEF Fewest, Recv
<1>8. PICK s : s = SubSeq(wire, 1, n)
  OBVIOUS
<1>9. s \in Seq(Pieces) /\ Len(s) = n /\ \A i \in 1..n : s[i] = wire[i]
  <2>1. 1 \in 1..Len(wire) + 1 /\ n \in 0..Len(wire)
    BY <1>2, <1>7
  <2>2. /\ s \in Seq(Pieces) /\ Len(s) = IF 1 <= n THEN n - 1 + 1 ELSE 0
        /\ \A i \in 1..n - 1 + 1 : s[i] = wire[1 + i - 1]
    BY <1>2, <1>8, <2>1, Part
  <2> QED BY <1>2, <1>7, <2>2
<1>10. /\ Len(buf') = Len(buf) + n
       /\ \A i \in 1..Len(buf) : buf'[i] = buf[i]
       /\ \A i \in 1..n : buf'[Len(buf) + i] = wire[i]
  <2>1. /\ Len(buf \o s) = Len(buf) + n
        /\ \A i \in 1..Len(buf) + n :
               (buf \o s)[i] = IF i <= Len(buf) THEN buf[i] ELSE s[i - Len(buf)]
    BY <1>2, <1>9, ConcatProperties
  <2>2. buf' = buf \o s
    BY <1>5, <1>8
  <2> QED BY <1>2, <1>7, <1>9, <2>1, <2>2
<1>11. /\ wire' \in Seq(Pieces) /\ Len(wire') = Len(wire) - n
       /\ \A i \in 1..Len(wire) - n : wire'[i] = wire[n + i]
  <2>1. n + 1 \in 1..Len(wire) + 1 /\ Len(wire) \in 0..Len(wire)
    BY <1>2, <1>7
  <2>2. /\ wire' \in Seq(Pieces)
        /\ Len(wire') = IF n + 1 <= Len(wire) THEN Len(wire) - (n + 1) + 1 ELSE 0
        /\ \A i \in 1..Len(wire) - (n + 1) + 1 : wire'[i] = wire[(n + 1) + i - 1]
    BY <1>2, <1>5, <2>1, Part
  <2> QED BY <1>2, <1>7, <2>2
<1>12. \A i \in 1..Len(wire) : i + 1 <= Len(wire) => Follows(wire[i], wire[i + 1])
  BY <1>1 DEF Stream, Alternates
<1>13. Alternates(wire')
  <2>1. SUFFICES ASSUME NEW i \in 1..Len(wire) - n, i + 1 <= Len(wire) - n
                 PROVE  Follows(wire'[i], wire'[i + 1])
    BY <1>11 DEF Alternates
  <2>2. n + i \in 1..Len(wire) /\ (n + i) + 1 <= Len(wire) /\ n + (i + 1) = (n + i) + 1
    BY <1>2, <1>7, <2>1
  <2>3. wire'[i] = wire[n + i] /\ wire'[i + 1] = wire[n + (i + 1)]
    BY <1>2, <1>7, <1>11, <2>1
  <2> QED BY <1>12, <2>2, <2>3
<1>14. buf = << >> <=> Len(buf) = 0
  BY <1>2
<1>15. Alternates(buf')
  <2>1. SUFFICES ASSUME NEW i \in 1..Len(buf) + n, i + 1 <= Len(buf) + n
                 PROVE  Follows(buf'[i], buf'[i + 1])
    BY <1>10 DEF Alternates
  <2>2. CASE i <= Len(buf)
    <3>1. i = 1 /\ Len(buf) = 1
      <4>1. \A x \in 0..1 : \A y \in 1..x + n : y <= x => y = 1 /\ x = 1
        BY <1>2, <1>7
      <4> QED BY <1>3, <2>1, <2>2, <4>1
    <3>2. Follows(buf[Len(buf)], wire[1])
      BY <1>1, <1>7, <1>14, <3>1 DEF Stream
    <3>3. buf'[i] = buf[1] /\ buf'[i + 1] = wire[1]
      BY <1>7, <1>10, <3>1
    <3> QED BY <3>1, <3>2, <3>3
  <2>3. CASE i > Len(buf)
    <3>1. PICK j \in 1..n : i = Len(buf) + j
      <4>1. i - Len(buf) \in 1..n /\ i = Len(buf) + (i - Len(buf))
        BY <1>2, <1>7, <2>1, <2>3
      <4> QED BY <4>1
    <3>2. j + 1 \in 1..n /\ i + 1 = Len(buf) + (j + 1)
      BY <1>2, <1>7, <2>1, <3>1
    <3>3. buf'[i] = wire[j] /\ buf'[i + 1] = wire[j + 1]
      BY <1>10, <3>1, <3>2
    <3>4. j \in 1..Len(wire) /\ j + 1 <= Len(wire)
      BY <1>2, <1>7, <3>2
    <3> QED BY <1>12, <3>3, <3>4
  <2> QED BY <1>2, <2>2, <2>3
<1>16. buf'[1].part = 1
  <2>1. CASE Len(buf) = 0
    <3>1. wire[1].part = 1
      BY <1>1, <1>7, <1>14, <2>1 DEF Stream
    <3>2. buf'[0 + 1] = wire[1]
      BY <1>7, <1>10, <2>1
    <3> QED BY <3>1, <3>2
  <2>2. CASE Len(buf) = 1
    BY <1>1, <1>10, <1>14, <2>2 DEF Stream
  <2> QED BY <1>3, <2>1, <2>2
<1>17. buf'[Len(buf')] = wire[n] /\ buf' # << >>
  <2>1. Len(buf') = Len(buf) + n /\ buf'[Len(buf) + n] = wire[n]
    BY <1>7, <1>10
  <2>2. Len(buf) + n # 0
    BY <1>2, <1>7
  <2> QED BY <2>1, <2>2, EmptySeq
<1>18. wire[Len(wire)].part = 2
  BY <1>1, <1>7 DEF Stream
<1>19. ASSUME wire' # << >>
       PROVE  wire'[Len(wire')].part = 2 /\ Follows(buf'[Len(buf')], wire'[1])
  <2>1. Len(wire) - n \in 1..Len(wire) - n
    BY <1>2, <1>7, <1>11, <1>19, EmptySeq
  <2>2. n + (Len(wire) - n) = Len(wire) /\ n \in 1..Len(wire) /\ n + 1 <= Len(wire)
    BY <1>2, <1>7, <2>1
  <2>3. wire'[Len(wire')] = wire[Len(wire)] /\ wire'[1] = wire[n + 1]
    BY <1>2, <1>7, <1>11, <2>1, <2>2
  <2>4. Follows(wire[n], wire[n + 1])
    BY <1>12, <2>2
  <2> QED BY <1>17, <1>18, <2>3, <2>4
<1>20. ASSUME wire' = << >> PROVE buf'[Len(buf')].part = 2
  <2>1. n = Len(wire)
    BY <1>2, <1>7, <1>11, <1>20, EmptySeq
  <2> QED BY <1>17, <1>18, <2>1
<1>21. Stream'
  BY <1>13, <1>15, <1>16, <1>17, <1>19, <1>20 DEF Stream, Alternates
<1>22. Whole'
  BY <1>1, <1>6 DEF Whole
<1> QED BY <1>1, <1>6, <1>21, <1>22

\* The client takes a whole message out of the buffer.
LEMMA HandleUnbroken ==
    ASSUME TypeOK, Unbroken, HandleLine, ~short
    PROVE  connected' /\ Whole' /\ Stream'
<1>1. connected /\ Whole /\ Stream
  BY DEF Unbroken
<1>2. /\ buf \in Seq(Pieces) /\ Len(buf) \in Nat
      /\ wire \in Seq(Pieces) /\ Len(wire) \in Nat
  BY DEF TypeOK
<1>3. FirstLine = 2 /\ 2 <= Len(buf)
  BY <1>1, FirstLineIsMessage DEF HandleLine
<1>4. /\ buf' = SubSeq(buf, FirstLine + 1, Len(buf))
      /\ UNCHANGED <<out, wire, connected>>
  BY DEF HandleLine, TakeLine
<1>5. /\ buf' \in Seq(Pieces) /\ Len(buf') = Len(buf) - 2
      /\ \A i \in 1..Len(buf) - 2 : buf'[i] = buf[2 + i]
  <2>1. 3 \in 1..Len(buf) + 1 /\ Len(buf) \in 0..Len(buf)
    BY <1>2, <1>3
  <2>2. buf' = SubSeq(buf, 3, Len(buf))
    BY <1>3, <1>4
  <2>3. /\ buf' \in Seq(Pieces)
        /\ Len(buf') = IF 3 <= Len(buf) THEN Len(buf) - 3 + 1 ELSE 0
        /\ \A i \in 1..Len(buf) - 3 + 1 : buf'[i] = buf[3 + i - 1]
    BY <1>2, <2>1, <2>2, Part
  <2>4. Len(buf') = Len(buf) - 2
    <3>1. \A x \in Nat : \A y : 2 <= x /\ y = (IF 3 <= x THEN x - 3 + 1 ELSE 0) => y = x - 2
      OBVIOUS
    <3>2. Len(buf') = IF 3 <= Len(buf) THEN Len(buf) - 3 + 1 ELSE 0
      BY <2>3
    <3> QED BY <1>2, <1>3, <3>1, <3>2, Zenon
  <2>5. ASSUME NEW i \in 1..Len(buf) - 2 PROVE buf'[i] = buf[2 + i]
    <3>1. i \in 1..Len(buf) - 3 + 1 /\ 3 + i - 1 = 2 + i
      BY <1>2
    <3>2. buf'[i] = buf[3 + i - 1]
      BY <2>3, <3>1
    <3> QED BY <3>1, <3>2, Zenon
  <2> QED BY <2>3, <2>4, <2>5
<1>6. \A i \in 1..Len(buf) : i + 1 <= Len(buf) => Follows(buf[i], buf[i + 1])
  BY <1>1 DEF Stream, Alternates
<1>7. Alternates(buf')
  <2>1. SUFFICES ASSUME NEW i \in 1..Len(buf) - 2, i + 1 <= Len(buf) - 2
                 PROVE  Follows(buf'[i], buf'[i + 1])
    BY <1>5 DEF Alternates
  <2>2. 2 + i \in 1..Len(buf) /\ (2 + i) + 1 <= Len(buf) /\ 2 + (i + 1) = (2 + i) + 1
    BY <1>2, <2>1
  <2>3. buf'[i] = buf[2 + i] /\ buf'[i + 1] = buf[2 + (i + 1)]
    BY <1>2, <1>5, <2>1
  <2> QED BY <1>6, <2>2, <2>3
<1>8. buf[2].part = 2
  <2>1. SubSeq(buf, 1, 2)[2] = buf[2]
    <3>1. 1 \in 1..Len(buf) + 1 /\ 2 \in 0..Len(buf)
      BY <1>2, <1>3
    <3>2. \A n \in 1..2 - 1 + 1 : SubSeq(buf, 1, 2)[n] = buf[1 + n - 1]
      BY <1>2, <3>1, Part
    <3> QED BY <3>2
  <2>2. SubSeq(buf, 1, 2) = Message(buf[1].kind)
    BY <1>1, FirstLineIsMessage DEF HandleLine
  <2>3. Message(buf[1].kind)[2].part = 2
    BY DEF Message, Piece
  <2> QED BY <2>1, <2>2, <2>3
<1>9. buf # << >>
  BY <1>2, <1>3
<1>10. ASSUME buf' # << >>
       PROVE  buf'[1].part = 1 /\ buf'[Len(buf')] = buf[Len(buf)]
  <2>1. Len(buf) - 2 \in 1..Len(buf) - 2
    BY <1>2, <1>3, <1>5, <1>10, EmptySeq
  <2>2. 2 + (Len(buf) - 2) = Len(buf) /\ 1 \in 1..Len(buf) - 2 /\ 2 \in 1..Len(buf) /\ 2 + 1 <= Len(buf)
    BY <1>2, <1>3, <2>1
  <2>3. buf'[1] = buf[2 + 1] /\ buf'[Len(buf')] = buf[Len(buf)]
    BY <1>5, <2>1, <2>2
  <2>4. Follows(buf[2], buf[2 + 1])
    BY <1>6, <2>2
  <2> QED BY <1>8, <2>3, <2>4 DEF Follows
<1>11. ASSUME buf' = << >>
       PROVE  Len(buf) = 2
  BY <1>2, <1>3, <1>5, <1>11, EmptySeq
<1>12. ASSUME wire # << >>
       PROVE  IF buf' = << >> THEN wire[1].part = 1 ELSE Follows(buf'[Len(buf')], wire[1])
  <2>1. Follows(buf[Len(buf)], wire[1])
    BY <1>1, <1>9, <1>12 DEF Stream
  <2>2. CASE buf' = << >>
    <3>1. Len(buf) = 2
      BY <1>11, <2>2
    <3>2. Follows(buf[2], wire[1])
      BY <2>1, <3>1, Zenon
    <3> QED BY <1>8, <2>2, <3>2 DEF Follows
  <2>3. CASE buf' # << >>
    BY <1>10, <2>1, <2>3
  <2> QED BY <2>2, <2>3
<1>13. ASSUME wire = << >>, buf' # << >> PROVE buf'[Len(buf')].part = 2
  BY <1>1, <1>9, <1>10, <1>13 DEF Stream
<1>14. Alternates(wire)' /\ (wire # << >> => wire[Len(wire)].part = 2)'
  BY <1>1, <1>4 DEF Stream, Alternates
<1>15. Stream'
  BY <1>4, <1>7, <1>10, <1>12, <1>13, <1>14 DEF Stream, Alternates
<1>16. Whole'
  BY <1>1, <1>4 DEF Whole
<1> QED BY <1>1, <1>4, <1>15, <1>16

\* What does not touch the stream, or begins to send a whole message.
LEMMA OthersUnbroken ==
    ASSUME TypeOK, Unbroken, UNCHANGED <<wire, buf, connected, short>>,
           out' = out \/ \E t \in Threads, k \in Kinds : out' = [out EXCEPT ![t] = Message(k)]
    PROVE  Unbroken'
<1>1. Stream => Stream'
  BY DEF Stream, Alternates
<1>2. ASSUME Whole PROVE Whole'
  <2>1. CASE out' = out
    BY <1>2, <2>1 DEF Whole
  <2>2. ASSUME NEW t \in Threads, NEW k \in Kinds, out' = [out EXCEPT ![t] = Message(k)]
        PROVE  Whole'
    <3>1. ASSUME NEW x \in Threads PROVE out'[x] = Message(k) \/ out'[x] = out[x]
      BY <2>2 DEF TypeOK
    <3> QED BY <1>2, <3>1 DEF Whole
  <2> QED BY <2>1, <2>2
<1> QED BY <1>1, <1>2 DEF Unbroken

\* Every step keeps the stream in one piece, or is a short send.
LEMMA UnbrokenStep == TypeOK /\ Unbroken /\ [Next]_vars => Unbroken'
<1> SUFFICES ASSUME TypeOK, Unbroken, [Next]_vars PROVE Unbroken'
  OBVIOUS
<1>1. CASE Receive
  <2>1. Recv /\ short' = short
    BY <1>1 DEF Receive, Recv
  <2> QED BY <2>1, RecvUnbroken DEF Unbroken
<1>2. CASE HandleLine
  <2>1. short' = short
    BY <1>2 DEF HandleLine
  <2> QED BY <1>2, <2>1, HandleUnbroken DEF Unbroken
<1>3. CASE Send
  BY <1>3, SendUnbroken DEF Send, Unbroken
<1>4. CASE Step
  <2>1. todo \in Seq(Kinds \cup {"thread"}) /\ todo # << >>
    BY <1>4 DEF Step, TypeOK
  <2>2. Head(todo) \in Kinds \cup {"thread"}
    BY <2>1, HeadTailProperties
  <2>3. UNCHANGED <<wire, buf, connected, short>>
    BY <1>4 DEF Step
  <2>4. CASE Head(todo) = "thread"
    <3>1. out' = out
      BY <1>4, <2>4 DEF Step
    <3> QED BY <2>3, <3>1, OthersUnbroken
  <2>5. CASE Head(todo) # "thread"
    <3>1. PICK k \in Kinds : k = Head(todo)
      BY <2>2, <2>5
    <3>2. out' = [out EXCEPT !["main"] = Message(k)]
      BY <1>4, <2>5, <3>1 DEF Step
    <3>3. "main" \in Threads
      BY DEF Threads
    <3> QED BY <2>3, <3>2, <3>3, OthersUnbroken
  <2> QED BY <2>4, <2>5
<1>5. CASE Broadcast \/ EndGame
  <2>1. "game" \in Threads /\ "state" \in Kinds /\ "end" \in Kinds
    BY DEF Threads, Kinds
  <2>2. \E t \in Threads, k \in Kinds : out' = [out EXCEPT ![t] = Message(k)]
    BY <1>5, <2>1 DEF Broadcast, EndGame
  <2>3. UNCHANGED <<wire, buf, connected, short>>
    BY <1>5 DEF Broadcast, EndGame
  <2> QED BY <2>2, <2>3, OthersUnbroken
<1>6. ASSUME \/ \E c \in Commands : Press(c)
             \/ Read \/ Enter \/ Ready \/ Leave \/ Refuse \/ Wait \/ OthersReady \/ Reset
             \/ UNCHANGED vars
      PROVE  UNCHANGED transportVars
  BY <1>6 DEF Press, Read, Enter, Ready, Leave, Refuse, Answer, Wait, OthersReady, Reset, vars
<1>7. ASSUME UNCHANGED transportVars PROVE Unbroken'
  BY <1>7, OthersUnbroken DEF transportVars
<1> QED BY <1>1, <1>2, <1>3, <1>4, <1>5, <1>6, <1>7 DEF Next

-----------------------------------------------------------------------------
(* The commands. *)

\* Nothing is left behind between two events.
LEMMA HandledStep == TypeOK /\ Handled /\ [Next]_vars => Handled'
<1> SUFFICES ASSUME TypeOK, Handled, [Next]_vars PROVE Handled'
  OBVIOUS
<1>1. ASSUME NEW c \in Commands, Press(c) PROVE Handled'
  BY <1>1 DEF Press, Handled, mainVars
<1>2. CASE Read
  <2>1. ~burst' => up' = << >>
    BY <1>2, ReadTypes
  <2>2. reading'
    BY <1>2 DEF Read
  <2> QED BY <2>1, <2>2 DEF Handled
<1>3. CASE Enter \/ Ready \/ Leave \/ Refuse
  <2>1. PICK c, msgs : Answer(c, msgs)
    BY <1>3 DEF Enter, Ready, Leave, Refuse
  <2> QED BY <2>1 DEF Answer, AtNextCommand, Handled, clientVars
<1>4. CASE Step
  BY <1>4 DEF Step, Handled, clientVars
<1>5. CASE Wait
  BY <1>5 DEF Wait, Handled, clientVars
<1>6. CASE OthersReady
  BY <1>6 DEF OthersReady, Handled, clientVars
<1>7. CASE Receive \/ HandleLine \/ Send \/ Broadcast \/ EndGame \/ Reset \/ UNCHANGED vars
  BY <1>7 DEF Receive, HandleLine, Send, Broadcast, EndGame, Reset, vars, clientVars, mainVars,
              Handled
<1> QED BY <1>1, <1>2, <1>3, <1>4, <1>5, <1>6, <1>7 DEF Next

-----------------------------------------------------------------------------
(* The theorems. *)

LEMMA InitIInv == Init => IInv
<1> SUFFICES ASSUME Init PROVE IInv
  OBVIOUS
<1>1. \A S : << >> \in Seq(S)
  BY EmptySeq
<1>2. Len(<< >>) = 0
  BY EmptySeq
<1>3. todo \in Seq(Kinds \cup {"thread"})
  <2>1. <<"start", "room_info">> \in Seq(Kinds \cup {"thread"})
    BY DEF Kinds, Replies
  <2> QED BY <1>1, <2>1 DEF Init
<1>4. out \in [Threads -> Seq(Pieces)] /\ \A t \in Threads : out[t] = << >>
  BY <1>1 DEF Init, TransportInit
<1>5. TypeOK
  <2>1. keys \in 0..MaxKeys /\ edge \in BOOLEAN /\ reading \in BOOLEAN
    <3>1. keys \in 0..MaxKeys
      BY ClientAssumption DEF Init
    <3>2. edge \in BOOLEAN /\ reading \in BOOLEAN
      BY Zenon DEF Init
    <3> QED BY <3>1, <3>2
  <2>2. up \in Seq(Commands) /\ inbox \in Seq(Commands) /\ Len(inbox) <= RecvMax
    BY <1>1, <1>2, ClientAssumption DEF Init
  <2>3. wire \in Seq(Pieces) /\ Len(wire) <= SendBuf /\ buf \in Seq(Pieces) /\ Len(buf) <= RecvBuf
    BY <1>1, <1>2, TransportAssumption DEF Init, TransportInit
  <2>4. \A t \in Threads : Len(out[t]) <= 2
    BY <1>2, <1>4
  <2>5. /\ status \in {"lobby", "in_room", "ready", "gaming"} /\ member \in BOOLEAN
        /\ game \in {"none", "tick", "end"} /\ collected \in BOOLEAN
        /\ screen \in [in_room : BOOLEAN, is_ready : BOOLEAN, in_game : BOOLEAN]
        /\ burst \in BOOLEAN /\ leftGame \in BOOLEAN /\ overtaken \in BOOLEAN
        /\ connected \in BOOLEAN /\ short \in BOOLEAN
    BY DEF Init, TransportInit
  <2> QED BY <1>3, <1>4, <2>1, <2>2, <2>3, <2>4, <2>5 DEF TypeOK
<1>6. Stream
  BY <1>2 DEF Init, TransportInit, Stream, Alternates
<1>7. Unbroken
  BY <1>4, <1>6 DEF Init, TransportInit, Unbroken, Whole
<1>8. Handled
  BY DEF Init, Handled
<1> QED BY <1>5, <1>7, <1>8 DEF IInv

\* network.c, protocol.c, client/game.c: the stream of messages and the commands stay
\* in order in every run.
THEOREM Invariant == Spec => []IInv
<1>1. IInv /\ [Next]_vars => IInv'
  BY TypeOKStep, UnbrokenStep, HandledStep DEF IInv
<1> QED BY <1>1, InitIInv, PTL DEF Spec

\* network.c, client/game.c: no buffer takes more than it holds, and all values are
\* what they are meant to be.
THEOREM TypeCorrect == Spec => []TypeOK
<1>1. IInv => TypeOK
  BY DEF IInv
<1> QED BY <1>1, Invariant, PTL

\* protocol_extract_message(): as long as no send was short, the client cuts the
\* stream into the messages the server sent, with buffers of any size.
THEOREM LinesComeWhole == Spec => []LinesAreMessages
<1>1. IInv => LinesAreMessages
  <2> SUFFICES ASSUME IInv, ~short
               PROVE  connected /\ (HasLine => SubSeq(buf, 1, FirstLine) = Message(buf[1].kind))
    BY DEF LinesAreMessages
  <2>1. TypeOK /\ connected /\ Stream
    BY DEF IInv, Unbroken
  <2> QED BY <2>1, FirstLineIsMessage
<1> QED BY <1>1, Invariant, PTL

\* handle_client_data(): a command is left behind only when more arrived than one
\* recv() takes, for any number of keys and a buffer of any size.
THEOREM CommandsAreHandled == Spec => []NoCommandStuck
<1>1. IInv => NoCommandStuck
  BY DEF IInv, Handled, NoCommandStuck
<1> QED BY <1>1, Invariant, PTL

-----------------------------------------------------------------------------
(* What the client will show once everything under way has arrived. *)

\* A flag that stands at b is raised when all the lines of s are handled, if the kinds
\* in raising set it and those in lowering clear it.
Ends(p, kinds) == p.part = 2 /\ p.kind \in kinds
Raised(raising, lowering, s, b) ==
    \/ b /\ \A j \in 1..Len(s) : ~Ends(s[j], lowering)
    \/ \E i \in 1..Len(s) : /\ Ends(s[i], raising)
                            /\ \A j \in 1..Len(s) : j > i => ~Ends(s[j], lowering)

\* The stream s once a message of kind k is behind it.
Sent(s, k) == s \o Message(k)
\* And t is what is left of s when such a message has been taken from its front.
Taken(s, t, k) == /\ Len(s) = Len(t) + 2 /\ s[1] = Piece(k, 1) /\ s[2] = Piece(k, 2)
                  /\ \A i \in 1..Len(t) : t[i] = s[2 + i]

\* The same, with the messages of owed still to be sent behind s.
Will(owed, s, raising, lowering, b) ==
    \/ owed \cap raising # {}
    \/ owed \cap lowering = {} /\ Raised(raising, lowering, s, b)

\* Of the messages owed none takes back what another says.
Agree(owed, raising, lowering) == owed \cap raising = {} \/ owed \cap lowering = {}

UnderWay == buf \o wire
SentBy(t) == IF Sending(t) THEN {out[t][1].kind} ELSE {}
Pending == SentBy("main") \cup Range(todo)
Owed == Pending \cup SentBy("game")

\* What lowers each flag.
LeavesRoom == {"left"}
EndsGame == {"end"}
Unreadies == {"left", "not_ready", "end"}

\* Where the game and the player's status can be while a handler is at it.
Course ==
    /\ \A i \in 1..Len(todo) : todo[i] = "thread" => i = Len(todo)
    /\ ~reading => Pending = {}
    /\ member <=> status # "lobby"
    /\ status = "gaming" <=> game # "none" \/ "thread" \in Range(todo)
    /\ "thread" \in Range(todo) => game = "none"
    /\ game # "none" => Pending \subseteq {"err", "start", "room_info"}
    /\ game = "none" => ~Sending("game")
    /\ SentBy("game") \subseteq IF game = "end" THEN {"end"} ELSE {"state"}
    /\ Agree(Owed, {"room_info"}, LeavesRoom)
    /\ Agree(Owed, {"start"}, EndsGame)
    /\ Agree(Owed, {"ready"}, Unreadies)

WillBeInRoom == Will(Owed, UnderWay, {"room_info"}, LeavesRoom, screen.in_room)
WillBeInGame == Will(Owed, UnderWay, {"start"}, EndsGame, screen.in_game)
WillBeReady == Will(Owed, UnderWay, {"ready"}, Unreadies, screen.is_ready)

Arriving ==
    /\ WillBeInRoom <=> member
    /\ WillBeInGame <=> status = "gaming" /\ game # "end"
    /\ status # "gaming" \/ game = "end" => (WillBeReady <=> status = "ready")

\* None of the three mishaps has happened.
Orderly == ~short /\ ~leftGame /\ ~overtaken

ScreenInv == Orderly => Course /\ Arriving

\* A message handled last decides, if it is one of those that do.
LEMMA RaisedAppend ==
    ASSUME NEW raising, NEW lowering, raising \cap lowering = {}, NEW b \in BOOLEAN,
           NEW k \in Kinds, NEW s \in Seq(Pieces), NEW t \in Seq(Pieces), t = Sent(s, k)
    PROVE  Raised(raising, lowering, t, b)
               <=> k \in raising \/ (k \notin lowering /\ Raised(raising, lowering, s, b))
<1>1. /\ Message(k) \in Seq(Pieces) /\ Len(Message(k)) = 2
      /\ Message(k)[1] = Piece(k, 1) /\ Message(k)[2] = Piece(k, 2)
  BY MessageType
<1>2. PICK m \in Seq(Pieces) : m = Message(k)
  BY <1>1
<1>3. /\ Len(t) = Len(s) + Len(m)
      /\ \A i \in 1..Len(s) + Len(m) : t[i] = IF i <= Len(s) THEN s[i] ELSE m[i - Len(s)]
  <2>1. t = s \o m
    BY <1>2 DEF Sent
  <2> QED BY <2>1, ConcatProperties
<1>4. PICK n \in Nat : n = Len(s)
  OBVIOUS
<1>5. Len(m) = 2 /\ m[1] = Piece(k, 1) /\ m[2] = Piece(k, 2)
  BY <1>1, <1>2
<1>6. /\ Len(t) = n + 2 /\ \A i \in 1..n : t[i] = s[i]
      /\ t[n + 1] = Piece(k, 1) /\ t[n + 2] = Piece(k, 2)
  <2>1. Len(t) = n + 2 /\ \A i \in 1..n + 2 : t[i] = IF i <= n THEN s[i] ELSE m[i - n]
    BY <1>3, <1>4, <1>5
  <2>2. /\ n + 1 \in 1..n + 2 /\ ~(n + 1 <= n) /\ (n + 1) - n = 1
        /\ n + 2 \in 1..n + 2 /\ ~(n + 2 <= n) /\ (n + 2) - n = 2
    OBVIOUS
  <2>3. t[n + 1] = m[1] /\ t[n + 2] = m[2]
    BY <2>1, <2>2
  <2> QED BY <1>5, <2>1, <2>3
<1>7. ~Ends(t[n + 1], raising) /\ ~Ends(t[n + 1], lowering)
  BY <1>6 DEF Ends, Piece
<1>8. /\ Ends(t[n + 2], raising) <=> k \in raising
      /\ Ends(t[n + 2], lowering) <=> k \in lowering
  BY <1>6 DEF Ends, Piece
<1>9. \A i \in 1..n : /\ Ends(t[i], raising) = Ends(s[i], raising)
                     /\ Ends(t[i], lowering) = Ends(s[i], lowering)
  BY <1>6
<1>10. \A i \in 1..n + 2 : i \in 1..n \/ i = n + 1 \/ i = n + 2
  OBVIOUS
<1>11. n + 2 \in 1..n + 2 /\ n + 2 > n + 1 /\ \A i \in 1..n : i \in 1..n + 2 /\ n + 2 > i
  OBVIOUS
<1>12. CASE k \in raising
  <2>1. \A j \in 1..n + 2 : ~(j > n + 2)
    OBVIOUS
  <2> QED BY <1>6, <1>8, <1>11, <1>12, <2>1 DEF Raised
<1>13. CASE k \notin raising /\ k \in lowering
  <2>1. ~Raised(raising, lowering, t, b)
    BY <1>6, <1>7, <1>8, <1>10, <1>11, <1>13 DEF Raised
  <2> QED BY <1>13, <2>1
<1>14. CASE k \notin raising /\ k \notin lowering
  <2>1. \A j \in 1..n + 2 : Ends(t[j], lowering) => j \in 1..n /\ Ends(s[j], lowering)
    BY <1>7, <1>8, <1>9, <1>10, <1>14
  <2>2. \A j \in 1..n : Ends(s[j], lowering) => Ends(t[j], lowering)
    BY <1>9
  <2>3. \A j \in 1..n + 2 : Ends(t[j], raising) => j \in 1..n /\ Ends(s[j], raising)
    BY <1>7, <1>8, <1>9, <1>10, <1>14
  <2>4. \A j \in 1..n : Ends(s[j], raising) => Ends(t[j], raising)
    BY <1>9
  <2> QED BY <1>4, <1>6, <1>11, <1>14, <2>1, <2>2, <2>3, <2>4 DEF Raised
<1> QED BY <1>12, <1>13, <1>14

\* A message handled first does what its handler does.
LEMMA RaisedTake ==
    ASSUME NEW raising, NEW lowering, raising \cap lowering = {}, NEW b \in BOOLEAN,
           NEW k \in Kinds, NEW s \in Seq(Pieces), NEW t \in Seq(Pieces),
           Taken(s, t, k),
           NEW c \in BOOLEAN, c <=> k \in raising \/ (k \notin lowering /\ b)
    PROVE  Raised(raising, lowering, s, b) <=> Raised(raising, lowering, t, c)
<1>0. /\ Len(s) = Len(t) + 2 /\ s[1] = Piece(k, 1) /\ s[2] = Piece(k, 2)
      /\ \A i \in 1..Len(t) : t[i] = s[2 + i]
  BY DEF Taken
<1>1. PICK n \in Nat : n = Len(t)
  OBVIOUS
<1>2. Len(s) = n + 2 /\ Len(t) = n
  BY <1>0, <1>1
<1>3. ~Ends(s[1], raising) /\ ~Ends(s[1], lowering)
  BY <1>0 DEF Ends, Piece
<1>4. /\ Ends(s[2], raising) <=> k \in raising
      /\ Ends(s[2], lowering) <=> k \in lowering
  BY <1>0 DEF Ends, Piece
<1>5. \A i \in 1..n : /\ Ends(t[i], raising) = Ends(s[2 + i], raising)
                     /\ Ends(t[i], lowering) = Ends(s[2 + i], lowering)
  BY <1>0, <1>2
<1>6. \A i \in 1..n + 2 : i = 1 \/ i = 2 \/ \E j \in 1..n : i = 2 + j
  <2> SUFFICES ASSUME NEW i \in 1..n + 2, i # 1, i # 2 PROVE \E j \in 1..n : i = 2 + j
    OBVIOUS
  <2>1. i - 2 \in 1..n /\ i = 2 + (i - 2)
    OBVIOUS
  <2> QED BY <2>1
<1>7. \A i \in 1..n : 2 + i \in 1..n + 2 /\ 2 + i > 2 /\ \A j \in 1..n : (2 + j > 2 + i <=> j > i)
  OBVIOUS
<1>8. 1 \in 1..n + 2 /\ 2 \in 1..n + 2 /\ ~(1 > 2) /\ ~(2 > 2)
  OBVIOUS
<1>9. (\A j \in 1..n + 2 : j > 2 => ~Ends(s[j], lowering)) <=> \A j \in 1..n : ~Ends(t[j], lowering)
  <2>1. ASSUME \A j \in 1..n + 2 : j > 2 => ~Ends(s[j], lowering), NEW x \in 1..n
        PROVE  ~Ends(t[x], lowering)
    BY <1>5, <1>7, <2>1
  <2>2. ASSUME \A j \in 1..n : ~Ends(t[j], lowering), NEW j \in 1..n + 2, j > 2
        PROVE  ~Ends(s[j], lowering)
    <3>1. PICK x \in 1..n : j = 2 + x
      BY <1>6, <1>8, <2>2
    <3> QED BY <1>5, <2>2, <3>1
  <2> QED BY <2>1, <2>2
<1>10. (\A j \in 1..n + 2 : ~Ends(s[j], lowering))
           <=> k \notin lowering /\ \A j \in 1..n : ~Ends(t[j], lowering)
  <2>1. (\A j \in 1..n + 2 : ~Ends(s[j], lowering))
            <=> /\ ~Ends(s[1], lowering) /\ ~Ends(s[2], lowering)
                /\ \A j \in 1..n + 2 : j > 2 => ~Ends(s[j], lowering)
    <3>1. \A j \in 1..n + 2 : j = 1 \/ j = 2 \/ j > 2
      OBVIOUS
    <3> QED BY <1>8, <3>1
  <2> QED BY <1>3, <1>4, <1>9, <2>1
<1>11. ASSUME NEW i \in 1..n
       PROVE  (\A j \in 1..n + 2 : j > 2 + i => ~Ends(s[j], lowering))
                  <=> \A j \in 1..n : j > i => ~Ends(t[j], lowering)
  <2>1. \A j \in 1..n : (2 + j > 2 + i <=> j > i) /\ 2 + j \in 1..n + 2
    OBVIOUS
  <2>2. ~(1 > 2 + i) /\ ~(2 > 2 + i)
    OBVIOUS
  <2>3. ASSUME \A j \in 1..n + 2 : j > 2 + i => ~Ends(s[j], lowering), NEW x \in 1..n, x > i
        PROVE  ~Ends(t[x], lowering)
    BY <1>5, <2>1, <2>3
  <2>4. ASSUME \A j \in 1..n : j > i => ~Ends(t[j], lowering), NEW j \in 1..n + 2, j > 2 + i
        PROVE  ~Ends(s[j], lowering)
    <3>1. PICK x \in 1..n : j = 2 + x
      BY <1>6, <2>2, <2>4
    <3> QED BY <1>5, <2>1, <2>4, <3>1
  <2> QED BY <2>3, <2>4
<1>12. (\E i \in 1..n + 2 : Ends(s[i], raising) /\ \A j \in 1..n + 2 : j > i => ~Ends(s[j], lowering))
           <=> \/ k \in raising /\ \A j \in 1..n : ~Ends(t[j], lowering)
               \/ \E i \in 1..n : Ends(t[i], raising) /\ \A j \in 1..n : j > i => ~Ends(t[j], lowering)
  <2>1. ASSUME NEW i \in 1..n + 2, Ends(s[i], raising),
               \A j \in 1..n + 2 : j > i => ~Ends(s[j], lowering)
        PROVE  \/ k \in raising /\ \A j \in 1..n : ~Ends(t[j], lowering)
               \/ \E x \in 1..n : Ends(t[x], raising) /\ \A j \in 1..n : j > x => ~Ends(t[j], lowering)
    <3>1. CASE i = 2
      BY <1>4, <1>9, <2>1, <3>1
    <3>2. ASSUME NEW x \in 1..n, i = 2 + x
          PROVE  Ends(t[x], raising) /\ \A j \in 1..n : j > x => ~Ends(t[j], lowering)
      BY <1>5, <1>11, <2>1, <3>2
    <3> QED BY <1>3, <1>6, <2>1, <3>1, <3>2
  <2>2. ASSUME k \in raising, \A j \in 1..n : ~Ends(t[j], lowering)
        PROVE  \E i \in 1..n + 2 : Ends(s[i], raising) /\ \A j \in 1..n + 2 : j > i => ~Ends(s[j], lowering)
    BY <1>4, <1>8, <1>9, <2>2
  <2>3. ASSUME NEW x \in 1..n, Ends(t[x], raising), \A j \in 1..n : j > x => ~Ends(t[j], lowering)
        PROVE  \E i \in 1..n + 2 : Ends(s[i], raising) /\ \A j \in 1..n + 2 : j > i => ~Ends(s[j], lowering)
    <3>1. 2 + x \in 1..n + 2 /\ Ends(s[2 + x], raising)
      BY <1>5, <1>7, <2>3
    <3>2. \A j \in 1..n + 2 : j > 2 + x => ~Ends(s[j], lowering)
      BY <1>11, <2>3
    <3> QED BY <3>1, <3>2
  <2> QED BY <2>1, <2>2, <2>3
<1>13. k \in raising => k \notin lowering
  OBVIOUS
<1> QED BY <1>2, <1>10, <1>12, <1>13 DEF Raised

\* Nothing changes for the flag when a message that was owed is sent.
LEMMA WillSend ==
    ASSUME NEW raising, NEW lowering, raising \cap lowering = {}, NEW b \in BOOLEAN,
           NEW k \in Kinds, NEW s \in Seq(Pieces), NEW t \in Seq(Pieces), t = Sent(s, k),
           NEW owed, NEW rest, owed = rest \cup {k}, Agree(owed, raising, lowering)
    PROVE  /\ Will(rest, t, raising, lowering, b) <=> Will(owed, s, raising, lowering, b)
           /\ Agree(rest, raising, lowering)
<1>1. Raised(raising, lowering, t, b)
          <=> k \in raising \/ (k \notin lowering /\ Raised(raising, lowering, s, b))
  BY RaisedAppend
<1>2. Agree(rest, raising, lowering)
  BY DEF Agree
<1>3. CASE k \in raising
  BY <1>1, <1>3 DEF Will, Agree
<1>4. CASE k \in lowering
  BY <1>1, <1>4 DEF Will, Agree
<1>5. CASE k \notin raising /\ k \notin lowering
  <2>1. owed \cap raising = {} <=> rest \cap raising = {}
    BY <1>5
  <2>2. owed \cap lowering = {} <=> rest \cap lowering = {}
    BY <1>5
  <2>3. Raised(raising, lowering, t, b) <=> Raised(raising, lowering, s, b)
    BY <1>1, <1>5
  <2>4. /\ Will(rest, t, raising, lowering, b)
            <=> rest \cap raising # {} \/ (rest \cap lowering = {} /\ Raised(raising, lowering, t, b))
        /\ Will(owed, s, raising, lowering, b)
            <=> owed \cap raising # {} \/ (owed \cap lowering = {} /\ Raised(raising, lowering, s, b))
    BY Zenon DEF Will
  <2> QED BY <1>2, <2>1, <2>2, <2>3, <2>4
<1> QED BY <1>2, <1>3, <1>4, <1>5

\* Nor when a message is handled.
LEMMA WillTake ==
    ASSUME NEW raising, NEW lowering, raising \cap lowering = {}, NEW b \in BOOLEAN,
           NEW k \in Kinds, NEW s \in Seq(Pieces), NEW t \in Seq(Pieces),
           Taken(s, t, k),
           NEW c \in BOOLEAN, c <=> k \in raising \/ (k \notin lowering /\ b), NEW owed
    PROVE  Will(owed, t, raising, lowering, c) <=> Will(owed, s, raising, lowering, b)
<1>1. Raised(raising, lowering, s, b) <=> Raised(raising, lowering, t, c)
  BY RaisedTake
<1> QED BY <1>1 DEF Will

\* With nothing under way the flag stays as it is.
LEMMA WillStay ==
    ASSUME NEW raising, NEW lowering, NEW b \in BOOLEAN
    PROVE  Will({}, << >>, raising, lowering, b) <=> b
BY DEF Will, Raised

\* What more is owed decides, if it is one of the messages that do.
LEMMA WillOwe ==
    ASSUME NEW raising, NEW lowering, NEW b, NEW s, NEW owed, NEW extra
    PROVE  /\ extra \cap raising # {} => Will(owed \cup extra, s, raising, lowering, b)
           /\ extra \cap raising = {} /\ extra \cap lowering = {} =>
                  (Will(owed \cup extra, s, raising, lowering, b) <=> Will(owed, s, raising, lowering, b))
           /\ owed \cap raising = {} /\ extra \cap raising = {} /\ extra \cap lowering # {} =>
                  ~Will(owed \cup extra, s, raising, lowering, b)
<1>1. ASSUME NEW S PROVE (owed \cup extra) \cap S = {} <=> owed \cap S = {} /\ extra \cap S = {}
  OBVIOUS
<1>2. \A o : Will(o, s, raising, lowering, b)
          <=> o \cap raising # {} \/ (o \cap lowering = {} /\ Raised(raising, lowering, s, b))
  BY Zenon DEF Will
<1>3. /\ (owed \cup extra) \cap raising = {} <=> owed \cap raising = {} /\ extra \cap raising = {}
      /\ (owed \cup extra) \cap lowering = {} <=> owed \cap lowering = {} /\ extra \cap lowering = {}
  BY <1>1
<1>4. /\ Will(owed \cup extra, s, raising, lowering, b)
            <=> (owed \cup extra) \cap raising # {}
                  \/ ((owed \cup extra) \cap lowering = {} /\ Raised(raising, lowering, s, b))
      /\ Will(owed, s, raising, lowering, b)
            <=> owed \cap raising # {} \/ (owed \cap lowering = {} /\ Raised(raising, lowering, s, b))
  BY <1>2
<1> QED BY <1>3, <1>4

-----------------------------------------------------------------------------
(* What is under way, and what is owed. *)

LEMMA UnderWayType == TypeOK => UnderWay \in Seq(Pieces)
BY ConcatProperties DEF TypeOK, UnderWay

LEMMA Plain ==
    ASSUME TypeOK
    PROVE  /\ status \in {"lobby", "in_room", "ready", "gaming"} /\ member \in BOOLEAN
           /\ game \in {"none", "tick", "end"} /\ reading \in BOOLEAN
           /\ screen.in_room \in BOOLEAN /\ screen.is_ready \in BOOLEAN /\ screen.in_game \in BOOLEAN
BY DEF TypeOK

\* While nothing goes wrong nothing has gone wrong.
LEMMA OrderlyBefore == TypeOK /\ [Next]_vars /\ Orderly' => Orderly
<1> SUFFICES ASSUME TypeOK, [Next]_vars, Orderly' PROVE Orderly
  OBVIOUS
<1>1. short \in BOOLEAN /\ leftGame \in BOOLEAN /\ overtaken \in BOOLEAN
  BY DEF TypeOK
<1>2. (short => short') /\ (leftGame => leftGame') /\ (overtaken => overtaken')
  BY <1>1 DEF Next, Press, Receive, Recv, HandleLine, Read, Enter, Ready, Leave, Refuse, Answer, Step,
         Wait, OthersReady, Broadcast, EndGame, Reset, Send, SendSome, vars, clientVars, mainVars,
         gameVars, transportVars
<1> QED BY <1>2 DEF Orderly

\* recv() changes nothing of what is under way.
LEMMA RecvMoves == TypeOK /\ Recv => UnderWay' = UnderWay
<1> SUFFICES ASSUME TypeOK, Recv PROVE UnderWay' = UnderWay
  OBVIOUS
<1>1. /\ buf \in Seq(Pieces) /\ Len(buf) \in Nat
      /\ wire \in Seq(Pieces) /\ Len(wire) \in Nat
  BY DEF TypeOK
<1>2. CASE UNCHANGED <<buf, wire>>
  BY <1>2 DEF UnderWay
<1>3. ASSUME NEW n \in 1..Fewest(Len(wire), RecvBuf - Len(buf)),
             buf' = buf \o SubSeq(wire, 1, n), wire' = SubSeq(wire, n + 1, Len(wire))
      PROVE  UnderWay' = UnderWay
  <2>1. n \in 1..Len(wire)
    BY <1>1, TransportAssumption DEF Fewest
  <2>2. /\ 1 \in 1..Len(wire) + 1 /\ n \in 1 - 1..Len(wire) /\ Len(wire) \in n..Len(wire)
        /\ n \in 0..Len(wire) /\ n + 1 \in 1..Len(wire) + 1 /\ Len(wire) \in 0..Len(wire)
    BY <1>1, <2>1
  <2>3. PICK s, t : s = SubSeq(wire, 1, n) /\ t = SubSeq(wire, n + 1, Len(wire))
    OBVIOUS
  <2>4. s \in Seq(Pieces) /\ t \in Seq(Pieces)
    BY <1>1, <2>2, <2>3, Part
  <2>5. s \o t = wire
    <3>1. s \o t = SubSeq(wire, 1, Len(wire))
      BY <1>1, <2>2, <2>3, ConcatAdjacentSubSeq
    <3>2. SubSeq(wire, 1, Len(wire)) = wire
      BY <1>1, SubSeqFull
    <3> QED BY <3>1, <3>2
  <2>6. (buf \o s) \o t = buf \o (s \o t)
    BY <1>1, <2>4, ConcatAssociative
  <2> QED BY <1>3, <2>3, <2>5, <2>6 DEF UnderWay
<1> QED BY <1>2, <1>3 DEF Recv

\* A message that is sent whole goes behind the others.
LEMMA SendMoves ==
    ASSUME TypeOK, NEW k \in Kinds, wire' = wire \o Message(k), buf' = buf
    PROVE  UnderWay' = Sent(UnderWay, k)
<1>1. buf \in Seq(Pieces) /\ wire \in Seq(Pieces) /\ Message(k) \in Seq(Pieces)
  BY MessageType DEF TypeOK
<1>2. PICK m \in Seq(Pieces) : m = Message(k)
  BY <1>1
<1>3. (buf \o wire) \o m = buf \o (wire \o m)
  BY <1>1, ConcatAssociative
<1> QED BY <1>2, <1>3 DEF UnderWay, Sent

\* The line that is handled is the first message under way.
LEMMA HandleMoves ==
    ASSUME TypeOK, Unbroken, ~short, HandleLine
    PROVE  \E k \in Kinds : Shows(k) /\ Taken(UnderWay, UnderWay', k)
<1>1. Stream /\ buf \in Seq(Pieces) /\ wire \in Seq(Pieces) /\ Len(buf) \in Nat /\ Len(wire) \in Nat
  BY DEF Unbroken, TypeOK
<1>2. FirstLine = 2 /\ 2 <= Len(buf) /\ SubSeq(buf, 1, 2) = Message(buf[1].kind)
  BY <1>1, FirstLineIsMessage DEF HandleLine
<1>3. PICK k \in Kinds : k = buf[1].kind
  <2>1. buf[1] \in Pieces
    <3>1. 1 \in 1..Len(buf)
      BY <1>1, <1>2
    <3> QED BY <1>1, <3>1, ElementOfSeq
  <2> QED BY <2>1 DEF Pieces
<1>4. SubSeq(buf, 1, FirstLine) = Message(k)
  BY <1>2, <1>3
<1>5. Message(k)[1].kind = k
  BY DEF Message, Piece
<1>6. Shows(k)
  BY <1>4, <1>5 DEF HandleLine
<1>7. buf' = SubSeq(buf, 3, Len(buf)) /\ wire' = wire
  BY <1>2 DEF HandleLine, TakeLine
<1>8. buf[1] = Piece(k, 1) /\ buf[2] = Piece(k, 2)
  <2>1. 1 \in 1..Len(buf) + 1 /\ 2 \in 0..Len(buf)
    BY <1>1, <1>2
  <2>2. \A n \in 1..2 - 1 + 1 : SubSeq(buf, 1, 2)[n] = buf[1 + n - 1]
    BY <1>1, <2>1, Part
  <2>3. SubSeq(buf, 1, 2)[1] = buf[1] /\ SubSeq(buf, 1, 2)[2] = buf[2]
    BY <2>2
  <2> QED BY <1>2, <1>3, <2>3, MessageType
<1>9. /\ buf' \in Seq(Pieces) /\ Len(buf') = Len(buf) - 2
      /\ \A i \in 1..Len(buf) - 2 : buf'[i] = buf[2 + i]
  <2>1. 3 \in 1..Len(buf) + 1 /\ Len(buf) \in 0..Len(buf)
    BY <1>1, <1>2
  <2>2. PICK t : t = SubSeq(buf, 3, Len(buf))
    OBVIOUS
  <2>3. /\ t \in Seq(Pieces) /\ Len(t) = IF 3 <= Len(buf) THEN Len(buf) - 3 + 1 ELSE 0
        /\ \A n \in 1..Len(buf) - 3 + 1 : t[n] = buf[3 + n - 1]
    BY <1>1, <2>1, <2>2, Part
  <2>4. Len(t) = Len(buf) - 2
    BY <1>1, <1>2, <2>3
  <2>5. ASSUME NEW i \in 1..Len(buf) - 2 PROVE t[i] = buf[2 + i]
    <3>1. i \in 1..Len(buf) - 3 + 1 /\ 3 + i - 1 = 2 + i
      BY <1>1
    <3>2. t[i] = buf[3 + i - 1]
      BY <2>3, <3>1
    <3> QED BY <3>1, <3>2, Zenon
  <2> QED BY <1>7, <2>2, <2>3, <2>4, <2>5
<1>10. PICK t \in Seq(Pieces) : t = buf'
  BY <1>9
<1>11. /\ Len(buf \o wire) = Len(buf) + Len(wire)
       /\ \A i \in 1..Len(buf) + Len(wire) :
              (buf \o wire)[i] = IF i <= Len(buf) THEN buf[i] ELSE wire[i - Len(buf)]
  BY <1>1, ConcatProperties
<1>12. /\ Len(t \o wire) = Len(t) + Len(wire)
       /\ \A i \in 1..Len(t) + Len(wire) :
              (t \o wire)[i] = IF i <= Len(t) THEN t[i] ELSE wire[i - Len(t)]
  BY <1>1, ConcatProperties
<1>13. PICK u, v : u = UnderWay /\ v = UnderWay'
  OBVIOUS
<1>14. u = buf \o wire /\ v = t \o wire
  BY <1>7, <1>10, <1>13 DEF UnderWay
<1>15. Len(t) = Len(buf) - 2 /\ \A i \in 1..Len(t) : t[i] = buf[2 + i]
  BY <1>9, <1>10
<1>16. Len(u) = Len(v) + 2
  BY <1>1, <1>11, <1>12, <1>14, <1>15
<1>17. u[1] = buf[1] /\ u[2] = buf[2]
  <2>1. 1 \in 1..Len(buf) + Len(wire) /\ 2 \in 1..Len(buf) + Len(wire) /\ 1 <= Len(buf)
    BY <1>1, <1>2
  <2> QED BY <1>2, <1>11, <1>14, <2>1
<1>18. ASSUME NEW i \in 1..Len(v) PROVE v[i] = u[2 + i]
  <2>1. /\ i \in 1..Len(t) + Len(wire) /\ 2 + i \in 1..Len(buf) + Len(wire)
        /\ (i <= Len(t) <=> 2 + i <= Len(buf)) /\ i - Len(t) = 2 + i - Len(buf)
    BY <1>1, <1>2, <1>12, <1>14, <1>15
  <2>2. v[i] = IF i <= Len(t) THEN t[i] ELSE wire[i - Len(t)]
    BY <1>12, <1>14, <2>1
  <2>3. u[2 + i] = IF 2 + i <= Len(buf) THEN buf[2 + i] ELSE wire[2 + i - Len(buf)]
    BY <1>11, <1>14, <2>1
  <2>4. i <= Len(t) => t[i] = buf[2 + i]
    BY <1>1, <1>15, <2>1
  <2> QED BY <2>1, <2>2, <2>3, <2>4
<1>19. Taken(u, v, k)
  BY <1>8, <1>16, <1>17, <1>18 DEF Taken
<1> QED BY <1>6, <1>13, <1>19

-----------------------------------------------------------------------------
(* What a step does to what the client will show. *)

\* A step that owes more, and leaves alone what is under way.
LEMMA OweMore ==
    ASSUME UnderWay' = UnderWay, screen' = screen, NEW extra, Owed' = Owed \cup extra
    PROVE  /\ "room_info" \in extra => WillBeInRoom'
           /\ "room_info" \notin extra /\ "left" \notin extra => (WillBeInRoom' <=> WillBeInRoom)
           /\ "room_info" \notin Owed \cup extra /\ "left" \in extra => ~WillBeInRoom'
           /\ "start" \in extra => WillBeInGame'
           /\ "start" \notin extra /\ "end" \notin extra => (WillBeInGame' <=> WillBeInGame)
           /\ "start" \notin Owed \cup extra /\ "end" \in extra => ~WillBeInGame'
           /\ "ready" \in extra => WillBeReady'
           /\ "ready" \notin extra /\ extra \cap Unreadies = {} => (WillBeReady' <=> WillBeReady)
           /\ "ready" \notin Owed \cup extra /\ extra \cap Unreadies # {} => ~WillBeReady'
<1>1. PICK owed, s, b1, b2, b3 : /\ owed = Owed /\ s = UnderWay
                                 /\ b1 = screen.in_room /\ b2 = screen.in_game /\ b3 = screen.is_ready
  OBVIOUS
<1>2. /\ Owed' = owed \cup extra /\ UnderWay' = s
      /\ b1 = screen'.in_room /\ b2 = screen'.in_game /\ b3 = screen'.is_ready
  BY <1>1
<1>3. /\ WillBeInRoom = Will(owed, s, {"room_info"}, LeavesRoom, b1)
      /\ WillBeInRoom' = Will(owed \cup extra, s, {"room_info"}, LeavesRoom, b1)
      /\ WillBeInGame = Will(owed, s, {"start"}, EndsGame, b2)
      /\ WillBeInGame' = Will(owed \cup extra, s, {"start"}, EndsGame, b2)
      /\ WillBeReady = Will(owed, s, {"ready"}, Unreadies, b3)
      /\ WillBeReady' = Will(owed \cup extra, s, {"ready"}, Unreadies, b3)
  BY <1>1, <1>2 DEF WillBeInRoom, WillBeInGame, WillBeReady
<1>4. /\ "room_info" \in extra => extra \cap {"room_info"} # {}
      /\ "room_info" \notin extra => extra \cap {"room_info"} = {}
      /\ "room_info" \notin Owed \cup extra => owed \cap {"room_info"} = {} /\ extra \cap {"room_info"} = {}
      /\ "left" \in extra => extra \cap LeavesRoom # {}
      /\ "left" \notin extra => extra \cap LeavesRoom = {}
  BY <1>1 DEF LeavesRoom
<1>5. /\ "start" \in extra => extra \cap {"start"} # {}
      /\ "start" \notin extra => extra \cap {"start"} = {}
      /\ "start" \notin Owed \cup extra => owed \cap {"start"} = {} /\ extra \cap {"start"} = {}
      /\ "end" \in extra => extra \cap EndsGame # {}
      /\ "end" \notin extra => extra \cap EndsGame = {}
  BY <1>1 DEF EndsGame
<1>6. /\ "ready" \in extra => extra \cap {"ready"} # {}
      /\ "ready" \notin extra => extra \cap {"ready"} = {}
      /\ "ready" \notin Owed \cup extra => owed \cap {"ready"} = {} /\ extra \cap {"ready"} = {}
  BY <1>1
<1>7. /\ "room_info" \in extra => WillBeInRoom'
      /\ "room_info" \notin extra /\ "left" \notin extra => (WillBeInRoom' <=> WillBeInRoom)
      /\ "room_info" \notin Owed \cup extra /\ "left" \in extra => ~WillBeInRoom'
  BY <1>3, <1>4, WillOwe
<1>8. /\ "start" \in extra => WillBeInGame'
      /\ "start" \notin extra /\ "end" \notin extra => (WillBeInGame' <=> WillBeInGame)
      /\ "start" \notin Owed \cup extra /\ "end" \in extra => ~WillBeInGame'
  BY <1>3, <1>5, WillOwe
<1>9. /\ "ready" \in extra => WillBeReady'
      /\ "ready" \notin extra /\ extra \cap Unreadies = {} => (WillBeReady' <=> WillBeReady)
      /\ "ready" \notin Owed \cup extra /\ extra \cap Unreadies # {} => ~WillBeReady'
  BY <1>3, <1>6, WillOwe
<1> QED BY <1>7, <1>8, <1>9

\* A step that leaves alone what is owed and under way.
LEMMA OweSame ==
    ASSUME UnderWay' = UnderWay, screen' = screen, Owed' = Owed
    PROVE  /\ WillBeInRoom' <=> WillBeInRoom
           /\ WillBeInGame' <=> WillBeInGame
           /\ WillBeReady' <=> WillBeReady
BY DEF WillBeInRoom, WillBeInGame, WillBeReady

\* A message that was owed is sent.
LEMMA OweSent ==
    ASSUME TypeOK, Course, NEW k \in Kinds, UnderWay' = Sent(UnderWay, k), UnderWay' \in Seq(Pieces),
           screen' = screen, Owed = Owed' \cup {k}
    PROVE  /\ WillBeInRoom' <=> WillBeInRoom
           /\ WillBeInGame' <=> WillBeInGame
           /\ WillBeReady' <=> WillBeReady
           /\ Agree(Owed, {"room_info"}, LeavesRoom)'
           /\ Agree(Owed, {"start"}, EndsGame)'
           /\ Agree(Owed, {"ready"}, Unreadies)'
<1>1. PICK owed, rest : owed = Owed /\ rest = Owed'
  OBVIOUS
<1>2. PICK s \in Seq(Pieces), t \in Seq(Pieces) : s = UnderWay /\ t = UnderWay'
  BY UnderWayType
<1>3. PICK b1 \in BOOLEAN, b2 \in BOOLEAN, b3 \in BOOLEAN :
          b1 = screen.in_room /\ b2 = screen.in_game /\ b3 = screen.is_ready
  BY Plain
<1>4. owed = rest \cup {k} /\ t = Sent(s, k)
  BY <1>1, <1>2
<1>5. /\ Agree(owed, {"room_info"}, LeavesRoom) /\ Agree(owed, {"start"}, EndsGame)
      /\ Agree(owed, {"ready"}, Unreadies)
  BY <1>1 DEF Course
<1>6. /\ {"room_info"} \cap LeavesRoom = {} /\ {"start"} \cap EndsGame = {}
      /\ {"ready"} \cap Unreadies = {}
  BY DEF LeavesRoom, EndsGame, Unreadies
<1>7. /\ Will(rest, t, {"room_info"}, LeavesRoom, b1) <=> Will(owed, s, {"room_info"}, LeavesRoom, b1)
      /\ Agree(rest, {"room_info"}, LeavesRoom)
  BY <1>4, <1>5, <1>6, WillSend
<1>8. /\ Will(rest, t, {"start"}, EndsGame, b2) <=> Will(owed, s, {"start"}, EndsGame, b2)
      /\ Agree(rest, {"start"}, EndsGame)
  BY <1>4, <1>5, <1>6, WillSend
<1>9. /\ Will(rest, t, {"ready"}, Unreadies, b3) <=> Will(owed, s, {"ready"}, Unreadies, b3)
      /\ Agree(rest, {"ready"}, Unreadies)
  BY <1>4, <1>5, <1>6, WillSend
<1>10. b1 = screen'.in_room /\ b2 = screen'.in_game /\ b3 = screen'.is_ready
  BY <1>3
<1>11. WillBeInRoom' <=> WillBeInRoom
  BY <1>1, <1>2, <1>3, <1>7, <1>10 DEF WillBeInRoom
<1>12. WillBeInGame' <=> WillBeInGame
  BY <1>1, <1>2, <1>3, <1>8, <1>10 DEF WillBeInGame
<1>13. WillBeReady' <=> WillBeReady
  BY <1>1, <1>2, <1>3, <1>9, <1>10 DEF WillBeReady
<1>14. /\ Agree(Owed, {"room_info"}, LeavesRoom)' /\ Agree(Owed, {"start"}, EndsGame)'
       /\ Agree(Owed, {"ready"}, Unreadies)'
  BY <1>1, <1>7, <1>8, <1>9
<1> QED BY <1>11, <1>12, <1>13, <1>14

\* A message is handled.
LEMMA OweHandled ==
    ASSUME TypeOK, UnderWay' \in Seq(Pieces), NEW k \in Kinds, Shows(k), Owed' = Owed,
           Taken(UnderWay, UnderWay', k)
    PROVE  /\ WillBeInRoom' <=> WillBeInRoom
           /\ WillBeInGame' <=> WillBeInGame
           /\ WillBeReady' <=> WillBeReady
<1>1. PICK owed : owed = Owed
  OBVIOUS
<1>2. PICK s \in Seq(Pieces), t \in Seq(Pieces) : s = UnderWay /\ t = UnderWay'
  BY UnderWayType
<1>3. PICK b1 \in BOOLEAN, b2 \in BOOLEAN, b3 \in BOOLEAN :
          b1 = screen.in_room /\ b2 = screen.in_game /\ b3 = screen.is_ready
  BY Plain
<1>4. Taken(s, t, k)
  BY <1>2
<1>5. /\ screen'.in_room <=> k \in {"room_info"} \/ (k \notin LeavesRoom /\ b1)
      /\ screen'.in_game <=> k \in {"start"} \/ (k \notin EndsGame /\ b2)
      /\ screen'.is_ready <=> k \in {"ready"} \/ (k \notin Unreadies /\ b3)
      /\ screen'.in_room \in BOOLEAN /\ screen'.in_game \in BOOLEAN /\ screen'.is_ready \in BOOLEAN
  BY <1>3 DEF Shows, TypeOK, Kinds, Replies, LeavesRoom, EndsGame, Unreadies
<1>6. PICK c1 \in BOOLEAN, c2 \in BOOLEAN, c3 \in BOOLEAN :
          c1 = screen'.in_room /\ c2 = screen'.in_game /\ c3 = screen'.is_ready
  BY <1>5
<1>7. /\ {"room_info"} \cap LeavesRoom = {} /\ {"start"} \cap EndsGame = {}
      /\ {"ready"} \cap Unreadies = {}
  BY DEF LeavesRoom, EndsGame, Unreadies
<1>8. Will(owed, t, {"room_info"}, LeavesRoom, c1) <=> Will(owed, s, {"room_info"}, LeavesRoom, b1)
  <2>1. c1 <=> k \in {"room_info"} \/ (k \notin LeavesRoom /\ b1)
    BY <1>5, <1>6
  <2> QED BY <1>4, <1>7, <2>1, WillTake
<1>9. Will(owed, t, {"start"}, EndsGame, c2) <=> Will(owed, s, {"start"}, EndsGame, b2)
  <2>1. c2 <=> k \in {"start"} \/ (k \notin EndsGame /\ b2)
    BY <1>5, <1>6
  <2> QED BY <1>4, <1>7, <2>1, WillTake
<1>10. Will(owed, t, {"ready"}, Unreadies, c3) <=> Will(owed, s, {"ready"}, Unreadies, b3)
  <2>1. c3 <=> k \in {"ready"} \/ (k \notin Unreadies /\ b3)
    BY <1>5, <1>6
  <2> QED BY <1>4, <1>7, <2>1, WillTake
<1>11. owed = Owed'
  BY <1>1
<1>12. WillBeInRoom' <=> WillBeInRoom
  BY <1>1, <1>2, <1>3, <1>6, <1>8, <1>11 DEF WillBeInRoom
<1>13. WillBeInGame' <=> WillBeInGame
  BY <1>1, <1>2, <1>3, <1>6, <1>9, <1>11 DEF WillBeInGame
<1>14. WillBeReady' <=> WillBeReady
  BY <1>1, <1>2, <1>3, <1>6, <1>10, <1>11 DEF WillBeReady
<1> QED BY <1>12, <1>13, <1>14

LEMMA RangeOf ==
    /\ Range(<< >>) = {}
    /\ \A a : Range(<<a>>) = {a}
    /\ \A a, b : Range(<<a, b>>) = {a, b}
    /\ \A a, b, c : Range(<<a, b, c>>) = {a, b, c}
BY DEF Range

\* What a sequence holds is its head and what its tail holds.
LEMMA RangeTail ==
    ASSUME NEW S, NEW s \in Seq(S), s # << >>
    PROVE  Range(s) = {Head(s)} \cup Range(Tail(s))
<1>1. /\ Len(s) \in Nat /\ Len(s) # 0 /\ DOMAIN s = 1..Len(s) /\ Head(s) = s[1]
      /\ Tail(s) \in Seq(S) /\ Len(Tail(s)) = Len(s) - 1
      /\ \A i \in 1..Len(Tail(s)) : Tail(s)[i] = s[i + 1]
  BY HeadTailProperties
<1>2. PICK n \in Nat : n = Len(s) - 1
  <2>1. \A x \in Nat : x # 0 => x - 1 \in Nat
    OBVIOUS
  <2>2. Len(s) - 1 \in Nat
    BY <1>1, <2>1
  <2> QED BY <2>2
<1>3. PICK t \in Seq(S) : t = Tail(s)
  BY <1>1
<1>4. DOMAIN t = 1..n /\ DOMAIN s = 1..n + 1 /\ \A i \in 1..n : t[i] = s[i + 1]
  BY <1>1, <1>2, <1>3
<1>5. ASSUME NEW i \in 1..n + 1 PROVE s[i] = s[1] \/ \E j \in 1..n : s[i] = t[j]
  <2>1. CASE i = 1
    BY <2>1
  <2>2. CASE i # 1
    <3>1. i - 1 \in 1..n /\ (i - 1) + 1 = i
      BY <2>2
    <3>2. t[i - 1] = s[i]
      BY <1>4, <3>1
    <3> QED BY <3>1, <3>2
  <2> QED BY <2>1, <2>2
<1>6. 1 \in 1..n + 1 /\ \A j \in 1..n : j + 1 \in 1..n + 1
  OBVIOUS
<1>7. Range(s) \subseteq {s[1]} \cup Range(t)
  <2> SUFFICES ASSUME NEW x \in Range(s) PROVE x = s[1] \/ x \in Range(t)
    OBVIOUS
  <2>1. PICK i \in 1..n + 1 : x = s[i]
    BY <1>4 DEF Range
  <2>2. \A j \in 1..n : t[j] \in Range(t)
    BY <1>4 DEF Range
  <2> QED BY <1>5, <2>1, <2>2
<1>8. {s[1]} \cup Range(t) \subseteq Range(s)
  BY <1>4, <1>6 DEF Range
<1> QED BY <1>1, <1>3, <1>7, <1>8

\* Before a command is looked at the thread has nothing left to send.
LEMMA AnswerOwes ==
    ASSUME NEW c, NEW msgs, Answer(c, msgs)
    PROVE  /\ Pending = {} /\ Pending' = Range(msgs) /\ Owed' = Owed \cup Range(msgs)
           /\ Owed = SentBy("game") /\ reading'
           /\ Sending("game")' = Sending("game") /\ SentBy("game")' = SentBy("game")
           /\ UnderWay' = UnderWay /\ screen' = screen /\ todo' = msgs /\ todo = << >>
<1>1. /\ todo = << >> /\ out["main"] = << >> /\ reading
      /\ todo' = msgs /\ reading' = reading /\ out' = out /\ buf' = buf /\ wire' = wire /\ screen' = screen
  BY DEF Answer, AtNextCommand, Sending, clientVars, transportVars
<1>2. SentBy("main") = {} /\ SentBy("main")' = {}
  BY <1>1 DEF SentBy, Sending
<1>3. Sending("game")' = Sending("game") /\ SentBy("game")' = SentBy("game")
  BY <1>1 DEF SentBy, Sending
<1>4. Pending = {} /\ Pending' = Range(msgs)
  BY <1>1, <1>2, RangeOf DEF Pending
<1>5. Owed' = Owed \cup Range(msgs) /\ Owed = SentBy("game")
  BY <1>3, <1>4 DEF Owed
<1>6. UnderWay' = UnderWay
  BY <1>1 DEF UnderWay
<1> QED BY <1>1, <1>3, <1>4, <1>5, <1>6

\* In no game nothing is owed then.
LEMMA NothingOwed ==
    ASSUME Course, Pending = {}, Owed = SentBy("game"), game = "none"
    PROVE  Owed = {}
BY DEF Course, SentBy

LEMMA EnterFollows ==
    ASSUME TypeOK, Course, Arriving, Enter
    PROVE  Course' /\ Arriving'
<1>1. /\ Answer("enter", <<"room_info">>) /\ status = "lobby" /\ status' = "in_room" /\ member'
      /\ game' = game
  BY DEF Enter
<1>2. /\ Pending = {} /\ Pending' = {"room_info"} /\ Owed' = Owed \cup {"room_info"}
      /\ Owed = SentBy("game") /\ reading' /\ Sending("game")' = Sending("game")
      /\ SentBy("game")' = SentBy("game") /\ UnderWay' = UnderWay /\ screen' = screen
      /\ todo' = <<"room_info">> /\ todo = << >>
  BY <1>1, AnswerOwes, RangeOf
<1>3. game = "none" /\ ~member
  BY <1>1, <1>2, RangeOf, Plain DEF Course
<1>4. Owed = {}
  BY <1>2, <1>3, NothingOwed
<1>5. Range(todo') = {"room_info"} /\ Len(todo') = 1
  BY <1>2, RangeOf
<1>6. Owed' = {"room_info"}
  BY <1>2, <1>4
<1>7. Course'
  BY <1>1, <1>2, <1>3, <1>5, <1>6 DEF Course, Agree, LeavesRoom, EndsGame, Unreadies
<1>8. WillBeInRoom' /\ (WillBeInGame' <=> WillBeInGame) /\ (WillBeReady' <=> WillBeReady)
  <2>1. /\ "room_info" \in {"room_info"} /\ "start" \notin {"room_info"} /\ "end" \notin {"room_info"}
        /\ "ready" \notin {"room_info"} /\ {"room_info"} \cap Unreadies = {}
    BY DEF Unreadies
  <2> QED BY <1>2, <2>1, OweMore
<1>9. Arriving'
  BY <1>1, <1>3, <1>8 DEF Arriving
<1> QED BY <1>7, <1>9

LEMMA ReadyFollows ==
    ASSUME TypeOK, Course, Arriving, Ready
    PROVE  Course' /\ Arriving'
<1>1. member /\ member' = member /\ game' = game
  BY DEF Ready
<1>2. ASSUME status = "in_room", status' = "ready", Answer("ready", <<"ready">>)
      PROVE  Course' /\ Arriving'
  <2>1. /\ Pending = {} /\ Pending' = {"ready"} /\ Owed' = Owed \cup {"ready"}
        /\ Owed = SentBy("game") /\ reading' /\ Sending("game")' = Sending("game")
        /\ SentBy("game")' = SentBy("game") /\ UnderWay' = UnderWay /\ screen' = screen
        /\ todo' = <<"ready">> /\ todo = << >>
    BY <1>2, AnswerOwes, RangeOf
  <2>2. game = "none"
    BY <1>2, <2>1, RangeOf, Plain DEF Course
  <2>3. Owed = {}
    BY <2>1, <2>2, NothingOwed
  <2>4. Range(todo') = {"ready"} /\ Len(todo') = 1
    BY <2>1, RangeOf
  <2>5. Owed' = {"ready"}
    BY <2>1, <2>3
  <2>6. Course'
    BY <1>1, <1>2, <2>1, <2>2, <2>4, <2>5 DEF Course, Agree, LeavesRoom, EndsGame, Unreadies
  <2>7. WillBeReady' /\ (WillBeInRoom' <=> WillBeInRoom) /\ (WillBeInGame' <=> WillBeInGame)
    BY <2>1, OweMore
  <2>8. Arriving'
    BY <1>1, <1>2, <2>2, <2>7 DEF Arriving
  <2> QED BY <2>6, <2>8
<1>3. ASSUME status = "in_room", game = "none", status' = "gaming",
             Answer("ready", <<"ready", "start", "thread">>)
      PROVE  Course' /\ Arriving'
  <2>1. /\ Pending = {} /\ Pending' = {"ready", "start", "thread"}
        /\ Owed' = Owed \cup {"ready", "start", "thread"}
        /\ Owed = SentBy("game") /\ reading' /\ Sending("game")' = Sending("game")
        /\ SentBy("game")' = SentBy("game") /\ UnderWay' = UnderWay /\ screen' = screen
        /\ todo' = <<"ready", "start", "thread">> /\ todo = << >>
    BY <1>3, AnswerOwes, RangeOf
  <2>2. Owed = {}
    BY <1>3, <2>1, NothingOwed
  <2>3. Range(todo') = {"ready", "start", "thread"}
    BY <2>1, RangeOf
  <2>4. Owed' = {"ready", "start", "thread"}
    BY <2>1, <2>2
  <2>5. \A i \in 1..Len(todo') : todo'[i] = "thread" => i = Len(todo')
    BY <2>1
  <2>6. Course'
    BY <1>1, <1>3, <2>1, <2>3, <2>4, <2>5 DEF Course, Agree, LeavesRoom, EndsGame, Unreadies
  <2>7. WillBeReady' /\ WillBeInGame' /\ (WillBeInRoom' <=> WillBeInRoom)
    BY <2>1, OweMore
  <2>8. Arriving'
    BY <1>1, <1>3, <2>7 DEF Arriving
  <2> QED BY <2>6, <2>8
<1>4. ASSUME status = "ready", status' = "in_room", Answer("ready", <<"not_ready">>)
      PROVE  Course' /\ Arriving'
  <2>1. /\ Pending = {} /\ Pending' = {"not_ready"} /\ Owed' = Owed \cup {"not_ready"}
        /\ Owed = SentBy("game") /\ reading' /\ Sending("game")' = Sending("game")
        /\ SentBy("game")' = SentBy("game") /\ UnderWay' = UnderWay /\ screen' = screen
        /\ todo' = <<"not_ready">> /\ todo = << >>
    BY <1>4, AnswerOwes, RangeOf
  <2>2. game = "none"
    BY <1>4, <2>1, RangeOf, Plain DEF Course
  <2>3. Owed = {}
    BY <2>1, <2>2, NothingOwed
  <2>4. Range(todo') = {"not_ready"} /\ Len(todo') = 1
    BY <2>1, RangeOf
  <2>5. Owed' = {"not_ready"}
    BY <2>1, <2>3
  <2>6. Course'
    BY <1>1, <1>4, <2>1, <2>2, <2>4, <2>5 DEF Course, Agree, LeavesRoom, EndsGame, Unreadies
  <2>7. ~WillBeReady' /\ (WillBeInRoom' <=> WillBeInRoom) /\ (WillBeInGame' <=> WillBeInGame)
    <3>1. {"not_ready"} \cap Unreadies # {} /\ "ready" \notin Owed \cup {"not_ready"}
      BY <2>3 DEF Unreadies
    <3> QED BY <2>1, <3>1, OweMore
  <2>8. Arriving'
    BY <1>1, <1>4, <2>2, <2>7 DEF Arriving
  <2> QED BY <2>6, <2>8
<1> QED BY <1>2, <1>3, <1>4 DEF Ready

\* LEAVE_ROOM, when no game is on.
LEMMA LeaveFollows ==
    ASSUME TypeOK, Course, Arriving, Leave, ~leftGame'
    PROVE  Course' /\ Arriving'
<1>1. /\ Answer("leave", <<"left">>) /\ status' = "lobby" /\ ~member'
      /\ game = "none" /\ game' = "none"
  BY DEF Leave
<1>2. /\ Pending = {} /\ Pending' = {"left"} /\ Owed' = Owed \cup {"left"}
      /\ Owed = SentBy("game") /\ reading' /\ Sending("game")' = Sending("game")
      /\ SentBy("game")' = SentBy("game") /\ UnderWay' = UnderWay /\ screen' = screen
      /\ todo' = <<"left">> /\ todo = << >>
  BY <1>1, AnswerOwes, RangeOf
<1>3. status # "gaming"
  BY <1>1, <1>2, RangeOf, Plain DEF Course
<1>4. Owed = {}
  BY <1>1, <1>2, NothingOwed
<1>5. Range(todo') = {"left"} /\ Len(todo') = 1
  BY <1>2, RangeOf
<1>6. Owed' = {"left"}
  BY <1>2, <1>4
<1>7. Course'
  BY <1>1, <1>2, <1>5, <1>6 DEF Course, Agree, LeavesRoom, EndsGame, Unreadies
<1>8. ~WillBeInRoom' /\ (WillBeInGame' <=> WillBeInGame) /\ ~WillBeReady'
  <2>1. {"left"} \cap Unreadies # {} /\ "ready" \notin Owed \cup {"left"}
    BY <1>4 DEF Unreadies
  <2>2. "room_info" \notin Owed \cup {"left"}
    BY <1>4
  <2> QED BY <1>2, <2>1, <2>2, OweMore
<1>9. Arriving'
  BY <1>1, <1>3, <1>8 DEF Arriving
<1> QED BY <1>7, <1>9

\* A command that is refused, in a game too.
LEMMA RefuseFollows ==
    ASSUME TypeOK, Course, Arriving, Refuse
    PROVE  Course' /\ Arriving'
<1>1. PICK c \in Commands : Answer(c, <<"err">>)
  BY DEF Refuse
<1>2. UNCHANGED <<status, member, game>>
  BY DEF Refuse
<1>3. /\ Pending = {} /\ Pending' = {"err"} /\ Owed' = Owed \cup {"err"}
      /\ Owed = SentBy("game") /\ reading' /\ Sending("game")' = Sending("game")
      /\ SentBy("game")' = SentBy("game") /\ UnderWay' = UnderWay /\ screen' = screen
      /\ todo' = <<"err">> /\ todo = << >>
  BY <1>1, AnswerOwes, RangeOf
<1>4. Range(todo') = {"err"} /\ Len(todo') = 1 /\ Range(todo) = {}
  BY <1>3, RangeOf
<1>5. \A K : "err" \notin K => ((Owed \cup {"err"}) \cap K = {} <=> Owed \cap K = {})
  OBVIOUS
<1>6. /\ Agree(Owed, {"room_info"}, LeavesRoom)' /\ Agree(Owed, {"start"}, EndsGame)'
      /\ Agree(Owed, {"ready"}, Unreadies)'
  <2>1. /\ "err" \notin {"room_info"} /\ "err" \notin LeavesRoom /\ "err" \notin {"start"}
        /\ "err" \notin EndsGame /\ "err" \notin {"ready"} /\ "err" \notin Unreadies
    BY DEF LeavesRoom, EndsGame, Unreadies
  <2> QED BY <1>3, <1>5, <2>1 DEF Agree, Course
<1>7. Course'
  <2>1. \A i \in 1..Len(todo') : todo'[i] = "thread" => i = Len(todo')
    BY <1>4
  <2>2. (status = "gaming" <=> game # "none")' /\ (game = "none" => ~Sending("game"))'
    BY <1>2, <1>3, <1>4 DEF Course
  <2>3. SentBy("game")' \subseteq IF game' = "end" THEN {"end"} ELSE {"state"}
    BY <1>2, <1>3 DEF Course
  <2>4. (member <=> status # "lobby")'
    BY <1>2 DEF Course
  <2> QED BY <1>3, <1>4, <1>6, <2>1, <2>2, <2>3, <2>4 DEF Course
<1>8. /\ WillBeInRoom' <=> WillBeInRoom
      /\ WillBeInGame' <=> WillBeInGame
      /\ WillBeReady' <=> WillBeReady
  <2>1. {"err"} \cap Unreadies = {}
    BY DEF Unreadies
  <2> QED BY <1>3, <2>1, OweMore
<1>9. Arriving'
  BY <1>2, <1>8 DEF Arriving
<1> QED BY <1>7, <1>9

LEMMA OthersReadyFollows ==
    ASSUME TypeOK, Course, Arriving, OthersReady
    PROVE  Course' /\ Arriving'
<1>1. /\ ~reading /\ status = "ready" /\ member /\ game = "none" /\ status' = "gaming"
      /\ reading' /\ todo' = <<"start", "thread">> /\ member' = member /\ game' = game
      /\ out' = out /\ buf' = buf /\ wire' = wire /\ screen' = screen
  BY DEF OthersReady, clientVars, gameVars, transportVars
<1>2. Pending = {} /\ ~Sending("game")
  BY <1>1 DEF Course
<1>3. SentBy("main") = {} /\ SentBy("game") = {} /\ SentBy("main")' = {} /\ SentBy("game")' = {}
      /\ ~Sending("game")'
  BY <1>1, <1>2 DEF Pending, SentBy, Sending
<1>4. Range(todo') = {"start", "thread"}
  BY <1>1, RangeOf
<1>5. Owed = {} /\ Owed' = {"start", "thread"} /\ Owed' = Owed \cup {"start", "thread"}
      /\ Pending' = {"start", "thread"}
  BY <1>2, <1>3, <1>4 DEF Owed, Pending
<1>6. \A i \in 1..Len(todo') : todo'[i] = "thread" => i = Len(todo')
  BY <1>1
<1>7. Course'
  BY <1>1, <1>3, <1>4, <1>5, <1>6 DEF Course, Agree, LeavesRoom, EndsGame, Unreadies
<1>8. WillBeInGame' /\ (WillBeInRoom' <=> WillBeInRoom)
  <2>1. UnderWay' = UnderWay
    BY <1>1 DEF UnderWay
  <2> QED BY <1>1, <1>5, <2>1, OweMore
<1>9. Arriving'
  BY <1>1, <1>8 DEF Arriving
<1> QED BY <1>7, <1>9

\* The handler goes on: what it sends is owed all the same.
LEMMA StepFollows ==
    ASSUME TypeOK, Course, Arriving, Step
    PROVE  Course' /\ Arriving'
<1>1. /\ todo # << >> /\ ~Sending("main") /\ todo' = Tail(todo)
      /\ buf' = buf /\ wire' = wire /\ screen' = screen
      /\ UNCHANGED <<reading, status, member>>
  BY DEF Step, clientVars
<1>2. todo \in Seq(Kinds \cup {"thread"})
  BY DEF TypeOK
<1>3. /\ Range(todo) = {Head(todo)} \cup Range(todo') /\ Head(todo) \in Kinds \cup {"thread"}
      /\ Head(todo) = todo[1] /\ todo' \in Seq(Kinds \cup {"thread"})
      /\ Len(todo) \in Nat /\ Len(todo') = Len(todo) - 1
      /\ \A i \in 1..Len(todo') : todo'[i] = todo[i + 1]
  BY <1>1, <1>2, RangeTail, HeadTailProperties
<1>4. SentBy("main") = {} /\ Pending = Range(todo)
  BY <1>1 DEF SentBy, Pending
<1>5. UnderWay' = UnderWay
  BY <1>1 DEF UnderWay
<1>6. reading
  BY <1>3, <1>4 DEF Course
<1>7. \A i \in 1..Len(todo') : todo'[i] = "thread" => i = Len(todo')
  <2> SUFFICES ASSUME NEW i \in 1..Len(todo'), todo'[i] = "thread" PROVE i = Len(todo')
    OBVIOUS
  <2>1. i + 1 \in 1..Len(todo) /\ todo[i + 1] = "thread"
    BY <1>3
  <2>2. i + 1 = Len(todo)
    BY <2>1 DEF Course
  <2> QED BY <1>3, <2>2
<1>8. CASE Head(todo) = "thread"
  <2>1. game' = "tick" /\ out' = out
    BY <1>8 DEF Step
  <2>2. Len(todo) = 1
    <3>1. 1 \in 1..Len(todo) /\ todo[1] = "thread"
      BY <1>1, <1>2, <1>3, <1>8
    <3> QED BY <3>1 DEF Course
  <2>3. Range(todo') = {} /\ Range(todo) = {"thread"}
    <3>1. Len(todo') = 0
      BY <1>3, <2>2
    <3>2. todo' = << >>
      BY <1>3, <3>1
    <3> QED BY <1>3, <1>8, <3>2, RangeOf
  <2>4. game = "none" /\ status = "gaming" /\ ~Sending("game")
    BY <2>3 DEF Course
  <2>5. SentBy("game") = {} /\ SentBy("game")' = {} /\ SentBy("main")' = {}
    BY <1>4, <2>1, <2>4 DEF SentBy, Sending
  <2>6. Pending' = {} /\ Owed' = {} /\ Owed = {"thread"}
    BY <1>4, <2>3, <2>5 DEF Pending, Owed
  <2>7. Course'
    BY <1>1, <1>6, <1>7, <2>1, <2>3, <2>4, <2>5, <2>6 DEF Course, Agree
  <2>8. /\ WillBeInRoom' <=> WillBeInRoom
        /\ WillBeInGame' <=> WillBeInGame
    <3>1. PICK s, b1, b2 : s = UnderWay /\ b1 = screen.in_room /\ b2 = screen.in_game
      OBVIOUS
    <3>2. UnderWay' = s /\ b1 = screen'.in_room /\ b2 = screen'.in_game
      BY <1>1, <1>5, <3>1
    <3>3. /\ {} \cup {"thread"} = {"thread"} /\ {"thread"} \cap {"room_info"} = {}
          /\ {"thread"} \cap LeavesRoom = {} /\ {"thread"} \cap {"start"} = {}
          /\ {"thread"} \cap EndsGame = {}
      BY DEF LeavesRoom, EndsGame
    <3>4. Will({"thread"}, s, {"room_info"}, LeavesRoom, b1) <=> Will({}, s, {"room_info"}, LeavesRoom, b1)
      BY <3>3, WillOwe
    <3>5. Will({"thread"}, s, {"start"}, EndsGame, b2) <=> Will({}, s, {"start"}, EndsGame, b2)
      BY <3>3, WillOwe
    <3> QED BY <2>6, <3>1, <3>2, <3>4, <3>5 DEF WillBeInRoom, WillBeInGame
  <2>9. Arriving'
    BY <1>1, <2>1, <2>4, <2>8 DEF Arriving
  <2> QED BY <2>7, <2>9
<1>9. CASE Head(todo) # "thread"
  <2>1. PICK k \in Kinds : k = Head(todo)
    BY <1>3, <1>9
  <2>2. out' = [out EXCEPT !["main"] = Message(k)] /\ game' = game
    BY <1>9, <2>1 DEF Step
  <2>3. out'["main"] = Message(k) /\ out'["game"] = out["game"]
    BY <2>2 DEF TypeOK, Threads
  <2>4. Message(k) # << >> /\ Message(k)[1].kind = k
    BY DEF Message, Piece
  <2>5. SentBy("main")' = {k} /\ SentBy("game")' = SentBy("game") /\ Sending("game")' = Sending("game")
    BY <2>3, <2>4 DEF SentBy, Sending
  <2>6. Pending' = Pending /\ Owed' = Owed
    BY <1>3, <1>4, <2>1, <2>5 DEF Pending, Owed
  <2>7. "thread" \in Range(todo') <=> "thread" \in Range(todo)
    BY <1>3, <1>9
  <2>8. Course'
    BY <1>1, <1>6, <1>7, <2>2, <2>5, <2>6, <2>7 DEF Course
  <2>9. Arriving'
    <3>1. /\ WillBeInRoom' <=> WillBeInRoom
          /\ WillBeInGame' <=> WillBeInGame
          /\ WillBeReady' <=> WillBeReady
      BY <1>1, <1>5, <2>6, OweSame
    <3> QED BY <1>1, <2>2, <3>1 DEF Arriving
  <2> QED BY <2>8, <2>9
<1> QED BY <1>8, <1>9

\* The game thread has a message to send.
LEMMA GameOwes ==
    ASSUME TypeOK, NEW k \in Kinds, ~Sending("game"), out' = [out EXCEPT !["game"] = Message(k)],
           todo' = todo
    PROVE  /\ SentBy("game") = {} /\ SentBy("game")' = {k}
           /\ Pending' = Pending /\ Owed = Pending /\ Owed' = Owed \cup {k}
<1>1. out'["game"] = Message(k) /\ out'["main"] = out["main"]
  BY DEF TypeOK, Threads
<1>2. Message(k) # << >> /\ Message(k)[1].kind = k
  BY DEF Message, Piece
<1>3. SentBy("game") = {} /\ SentBy("game")' = {k} /\ SentBy("main")' = SentBy("main")
  BY <1>1, <1>2 DEF SentBy, Sending
<1> QED BY <1>3 DEF Pending, Owed

LEMMA BroadcastFollows ==
    ASSUME TypeOK, Course, Arriving, Broadcast
    PROVE  Course' /\ Arriving'
<1>1. /\ game = "tick" /\ ~Sending("game") /\ out' = [out EXCEPT !["game"] = Message("state")]
      /\ todo' = todo /\ reading' = reading /\ buf' = buf /\ wire' = wire /\ screen' = screen
      /\ UNCHANGED <<status, member, game>>
  BY DEF Broadcast, clientVars, mainVars, gameVars
<1>2. "state" \in Kinds
  BY DEF Kinds
<1>3. /\ SentBy("game")' = {"state"} /\ Pending' = Pending /\ Owed' = Owed \cup {"state"}
  BY <1>1, <1>2, GameOwes
<1>4. \A K : "state" \notin K => ((Owed \cup {"state"}) \cap K = {} <=> Owed \cap K = {})
  OBVIOUS
<1>5. /\ Agree(Owed, {"room_info"}, LeavesRoom)' /\ Agree(Owed, {"start"}, EndsGame)'
      /\ Agree(Owed, {"ready"}, Unreadies)'
  <2>1. /\ "state" \notin {"room_info"} /\ "state" \notin LeavesRoom /\ "state" \notin {"start"}
        /\ "state" \notin EndsGame /\ "state" \notin {"ready"} /\ "state" \notin Unreadies
    BY DEF LeavesRoom, EndsGame, Unreadies
  <2> QED BY <1>3, <1>4, <2>1 DEF Agree, Course
<1>6. Course'
  BY <1>1, <1>3, <1>5 DEF Course
<1>7. /\ WillBeInRoom' <=> WillBeInRoom
      /\ WillBeInGame' <=> WillBeInGame
      /\ WillBeReady' <=> WillBeReady
  <2>1. UnderWay' = UnderWay /\ {"state"} \cap Unreadies = {}
    BY <1>1 DEF UnderWay, Unreadies
  <2> QED BY <1>1, <1>3, <2>1, OweMore
<1>8. Arriving'
  BY <1>1, <1>7 DEF Arriving
<1> QED BY <1>6, <1>8

\* GAME_END, not before GAME_START.
LEMMA EndGameFollows ==
    ASSUME TypeOK, Course, Arriving, EndGame, ~overtaken'
    PROVE  Course' /\ Arriving'
<1>1. /\ game = "tick" /\ ~Sending("game") /\ out' = [out EXCEPT !["game"] = Message("end")]
      /\ game' = "end" /\ ~StartToSend
      /\ todo' = todo /\ reading' = reading /\ buf' = buf /\ wire' = wire /\ screen' = screen
      /\ UNCHANGED <<status, member>>
  BY DEF EndGame, clientVars, mainVars
<1>2. "end" \in Kinds
  BY DEF Kinds
<1>3. /\ SentBy("game")' = {"end"} /\ Pending' = Pending /\ Owed' = Owed \cup {"end"} /\ Owed = Pending
  BY <1>1, <1>2, GameOwes
<1>4. "start" \notin Pending
  BY <1>1 DEF Pending, SentBy, StartToSend
<1>5. Pending \subseteq {"err", "room_info"} /\ status = "gaming" /\ "thread" \notin Range(todo)
  BY <1>1, <1>4 DEF Course
<1>6. Owed' \subseteq {"err", "room_info", "end"}
  BY <1>3, <1>5
<1>7. /\ Agree(Owed, {"room_info"}, LeavesRoom)' /\ Agree(Owed, {"start"}, EndsGame)'
      /\ Agree(Owed, {"ready"}, Unreadies)'
  BY <1>6 DEF Agree, LeavesRoom, EndsGame, Unreadies
<1>8. Course'
  BY <1>1, <1>3, <1>5, <1>7 DEF Course
<1>9. (WillBeInRoom' <=> WillBeInRoom) /\ ~WillBeInGame' /\ ~WillBeReady'
  <2>1. UnderWay' = UnderWay /\ {"end"} \cap Unreadies # {}
    BY <1>1 DEF UnderWay, Unreadies
  <2>2. "start" \notin Owed \cup {"end"} /\ "ready" \notin Owed \cup {"end"}
    BY <1>3, <1>4, <1>5
  <2> QED BY <1>1, <1>3, <2>1, <2>2, OweMore
<1>10. Arriving'
  BY <1>1, <1>5, <1>9 DEF Arriving
<1> QED BY <1>8, <1>10

\* A step that leaves alone what the threads have to send.
LEMMA NothingMoves ==
    ASSUME out' = out, todo' = todo, buf' = buf, wire' = wire
    PROVE  /\ UnderWay' = UnderWay /\ Pending' = Pending /\ Owed' = Owed
           /\ SentBy("game")' = SentBy("game") /\ Sending("game")' = Sending("game")
BY DEF UnderWay, Pending, Owed, SentBy, Sending

LEMMA ResetFollows ==
    ASSUME TypeOK, Course, Arriving, Reset
    PROVE  Course' /\ Arriving'
<1>1. /\ game = "end" /\ ~Sending("game") /\ game' = "none" /\ status' = "in_room"
      /\ out' = out /\ todo' = todo /\ reading' = reading /\ buf' = buf /\ wire' = wire
      /\ screen' = screen /\ member' = member
  BY DEF Reset, clientVars, mainVars, transportVars
<1>2. /\ UnderWay' = UnderWay /\ Pending' = Pending /\ Owed' = Owed
      /\ SentBy("game")' = SentBy("game") /\ Sending("game")' = Sending("game")
  BY <1>1, NothingMoves
<1>3. status = "gaming" /\ "thread" \notin Range(todo) /\ SentBy("game") = {}
  BY <1>1 DEF Course, SentBy
<1>4. Course'
  BY <1>1, <1>2, <1>3 DEF Course
<1>5. /\ WillBeInRoom' <=> WillBeInRoom
      /\ WillBeInGame' <=> WillBeInGame
      /\ WillBeReady' <=> WillBeReady
  BY <1>1, <1>2, OweSame
<1>6. Arriving'
  BY <1>1, <1>3, <1>5 DEF Arriving, Course
<1> QED BY <1>4, <1>6

LEMMA WaitFollows ==
    ASSUME TypeOK, Course, Arriving, Wait
    PROVE  Course' /\ Arriving'
<1>1. /\ todo = << >> /\ ~Sending("main") /\ out' = out /\ todo' = todo /\ buf' = buf /\ wire' = wire
      /\ screen' = screen /\ UNCHANGED <<status, member, game>>
  BY DEF Wait, clientVars, gameVars, transportVars
<1>2. /\ UnderWay' = UnderWay /\ Pending' = Pending /\ Owed' = Owed
      /\ SentBy("game")' = SentBy("game") /\ Sending("game")' = Sending("game")
  BY <1>1, NothingMoves
<1>3. Pending = {}
  BY <1>1, RangeOf DEF Pending, SentBy
<1>4. Course'
  BY <1>1, <1>2, <1>3 DEF Course
<1>5. Arriving'
  <2>1. /\ WillBeInRoom' <=> WillBeInRoom
        /\ WillBeInGame' <=> WillBeInGame
        /\ WillBeReady' <=> WillBeReady
    BY <1>1, <1>2, OweSame
  <2> QED BY <1>1, <2>1 DEF Arriving
<1> QED BY <1>4, <1>5

\* A key is pressed, a handler begins to look, or nothing happens.
LEMMA KeyFollows ==
    ASSUME TypeOK, Course, Arriving,
           (\E c \in Commands : Press(c)) \/ Read \/ UNCHANGED vars
    PROVE  Course' /\ Arriving'
<1>1. /\ out' = out /\ todo' = todo /\ buf' = buf /\ wire' = wire
      /\ screen' = screen /\ UNCHANGED <<status, member, game>> /\ (reading' = reading \/ reading')
  BY DEF Press, Read, vars, clientVars, mainVars, gameVars, transportVars
<1>2. /\ UnderWay' = UnderWay /\ Pending' = Pending /\ Owed' = Owed
      /\ SentBy("game")' = SentBy("game") /\ Sending("game")' = Sending("game")
  BY <1>1, NothingMoves
<1>3. ~reading' => Pending' = {}
  BY <1>1, <1>2 DEF Course
<1>4. Course'
  BY <1>1, <1>2, <1>3 DEF Course
<1>5. Arriving'
  <2>1. /\ WillBeInRoom' <=> WillBeInRoom
        /\ WillBeInGame' <=> WillBeInGame
        /\ WillBeReady' <=> WillBeReady
    BY <1>1, <1>2, OweSame
  <2> QED BY <1>1, <2>1 DEF Arriving
<1> QED BY <1>4, <1>5

\* A message is sent, whole.
LEMMA SendFollows ==
    ASSUME TypeOK, TypeOK', Unbroken, Course, Arriving, Send, ~short'
    PROVE  Course' /\ Arriving'
<1>1. PICK t \in Threads : SendSome(t)
  BY DEF Send
<1>2. PICK k \in Kinds : /\ out[t] = Message(k) /\ wire' = wire \o Message(k)
                         /\ out'[t] = << >> /\ \A x \in Threads \ {t} : out'[x] = out[x]
  BY <1>1, SendWhole
<1>3. /\ buf' = buf /\ todo' = todo /\ screen' = screen /\ UNCHANGED <<reading, status, member, game>>
  BY <1>1 DEF Send, SendSome, clientVars, mainVars, gameVars
<1>4. Message(k) # << >> /\ Message(k)[1].kind = k
  BY DEF Message, Piece
<1>5. SentBy(t) = {k} /\ SentBy(t)' = {} /\ ~Sending(t)' /\ Sending(t)
  BY <1>2, <1>4 DEF SentBy, Sending
<1>6. \A x \in Threads \ {t} : SentBy(x)' = SentBy(x) /\ Sending(x)' = Sending(x)
  BY <1>2 DEF SentBy, Sending
<1>7. t = "main" \/ t = "game"
  BY DEF Threads
<1>8. /\ Owed = Owed' \cup {k} /\ Pending' \subseteq Pending
      /\ SentBy("game")' \subseteq SentBy("game") /\ (~Sending("game") => ~Sending("game")')
  <2>1. CASE t = "main"
    <3>1. "game" \in Threads \ {t}
      BY <2>1 DEF Threads
    <3>2. SentBy("game")' = SentBy("game") /\ Sending("game")' = Sending("game")
      BY <1>6, <3>1
    <3> QED BY <1>3, <1>5, <2>1, <3>2 DEF Owed, Pending
  <2>2. CASE t = "game"
    <3>1. "main" \in Threads \ {t}
      BY <2>2 DEF Threads
    <3>2. SentBy("main")' = SentBy("main")
      BY <1>6, <3>1
    <3> QED BY <1>3, <1>5, <2>2, <3>2 DEF Owed, Pending
  <2> QED BY <1>7, <2>1, <2>2
<1>9. UnderWay' = Sent(UnderWay, k)
  BY <1>2, <1>3, SendMoves
<1>10. UnderWay' \in Seq(Pieces)
  BY ConcatProperties DEF UnderWay, TypeOK
<1>11. /\ WillBeInRoom' <=> WillBeInRoom
       /\ WillBeInGame' <=> WillBeInGame
       /\ WillBeReady' <=> WillBeReady
       /\ Agree(Owed, {"room_info"}, LeavesRoom)'
       /\ Agree(Owed, {"start"}, EndsGame)'
       /\ Agree(Owed, {"ready"}, Unreadies)'
  BY <1>3, <1>8, <1>9, <1>10, OweSent
<1>12. Course'
  BY <1>3, <1>8, <1>11 DEF Course
<1>13. Arriving'
  BY <1>3, <1>11 DEF Arriving
<1> QED BY <1>12, <1>13

LEMMA ReceiveFollows ==
    ASSUME TypeOK, Course, Arriving, Receive
    PROVE  Course' /\ Arriving'
<1>1. /\ Recv /\ out' = out /\ todo' = todo /\ screen' = screen
      /\ UNCHANGED <<reading, status, member, game>>
  BY DEF Receive, Recv, clientVars, mainVars, gameVars
<1>2. UnderWay' = UnderWay
  BY <1>1, RecvMoves
<1>3. /\ Pending' = Pending /\ Owed' = Owed
      /\ SentBy("game")' = SentBy("game") /\ Sending("game")' = Sending("game")
  BY <1>1 DEF Pending, Owed, SentBy, Sending
<1>4. Course'
  BY <1>1, <1>3 DEF Course
<1>5. Arriving'
  <2>1. /\ WillBeInRoom' <=> WillBeInRoom
        /\ WillBeInGame' <=> WillBeInGame
        /\ WillBeReady' <=> WillBeReady
    BY <1>1, <1>2, <1>3, OweSame
  <2> QED BY <1>1, <2>1 DEF Arriving
<1> QED BY <1>4, <1>5

LEMMA HandleFollows ==
    ASSUME TypeOK, TypeOK', Unbroken, Course, Arriving, HandleLine, ~short
    PROVE  Course' /\ Arriving'
<1>1. out' = out /\ todo' = todo /\ UNCHANGED <<reading, status, member, game>>
  BY DEF HandleLine, mainVars, gameVars
<1>2. PICK k \in Kinds : Shows(k) /\ Taken(UnderWay, UnderWay', k)
  BY HandleMoves
<1>3. /\ Pending' = Pending /\ Owed' = Owed
      /\ SentBy("game")' = SentBy("game") /\ Sending("game")' = Sending("game")
  BY <1>1 DEF Pending, Owed, SentBy, Sending
<1>4. UnderWay' \in Seq(Pieces)
  BY ConcatProperties DEF UnderWay, TypeOK
<1>5. /\ WillBeInRoom' <=> WillBeInRoom
      /\ WillBeInGame' <=> WillBeInGame
      /\ WillBeReady' <=> WillBeReady
  BY <1>2, <1>3, <1>4, OweHandled
<1>6. Course'
  BY <1>1, <1>3 DEF Course
<1>7. Arriving'
  BY <1>1, <1>5 DEF Arriving
<1> QED BY <1>6, <1>7

LEMMA InitScreen == Init => ScreenInv
<1> SUFFICES ASSUME Init PROVE Course /\ Arriving
  BY DEF ScreenInv
<1>1. /\ buf = << >> /\ wire = << >> /\ out["main"] = << >> /\ out["game"] = << >>
      /\ screen = [in_room |-> FALSE, is_ready |-> FALSE, in_game |-> FALSE]
  BY DEF Init, TransportInit, Threads
<1>2. ~Sending("game") /\ SentBy("main") = {} /\ SentBy("game") = {}
  BY <1>1 DEF Sending, SentBy
<1>3. UnderWay = << >>
  BY <1>1, ConcatEmptySeq, EmptySeq DEF UnderWay
<1>4. Pending = Range(todo) /\ Owed = Range(todo)
  BY <1>2 DEF Pending, Owed
<1>5. \A owed, raising, lowering : Will(owed, << >>, raising, lowering, FALSE) <=> owed \cap raising # {}
  BY EmptySeq DEF Will, Raised
<1>6. /\ WillBeInRoom <=> Owed \cap {"room_info"} # {}
      /\ WillBeInGame <=> Owed \cap {"start"} # {}
      /\ WillBeReady <=> Owed \cap {"ready"} # {}
  BY <1>1, <1>3, <1>5 DEF WillBeInRoom, WillBeInGame, WillBeReady
<1>7. CASE status = "lobby" /\ member = FALSE /\ game = "none" /\ reading = FALSE /\ todo = << >>
  <2>1. Range(todo) = {} /\ Pending = {} /\ Owed = {}
    BY <1>4, <1>7, RangeOf
  <2>2. Course
    BY <1>2, <1>7, <2>1 DEF Course, Agree
  <2>3. Arriving
    BY <1>6, <1>7, <2>1 DEF Arriving
  <2> QED BY <2>2, <2>3
<1>8. CASE /\ status = "gaming" /\ member = TRUE /\ game = "tick"
           /\ reading = TRUE /\ todo = <<"start", "room_info">>
  <2>1. /\ Range(todo) = {"start", "room_info"} /\ Pending = {"start", "room_info"}
        /\ Owed = {"start", "room_info"}
    BY <1>4, <1>8, RangeOf
  <2>2. \A i \in 1..Len(todo) : todo[i] # "thread"
    BY <1>8
  <2>3. Course
    BY <1>2, <1>8, <2>1, <2>2 DEF Course, Agree, LeavesRoom, EndsGame, Unreadies
  <2>4. Arriving
    BY <1>6, <1>8, <2>1 DEF Arriving
  <2> QED BY <2>3, <2>4
<1> QED BY <1>7, <1>8 DEF Init

\* Every step keeps what the client will show in line with what the server holds.
LEMMA ScreenStep == TypeOK /\ TypeOK' /\ Unbroken /\ ScreenInv /\ [Next]_vars => ScreenInv'
<1> SUFFICES ASSUME TypeOK, TypeOK', Unbroken, ScreenInv, [Next]_vars, Orderly'
             PROVE  Course' /\ Arriving'
  BY DEF ScreenInv
<1>1. Orderly
  BY OrderlyBefore
<1>2. Course /\ Arriving
  BY <1>1 DEF ScreenInv
<1>3. ~short /\ ~short' /\ ~leftGame' /\ ~overtaken'
  BY <1>1 DEF Orderly
<1>4. CASE (\E c \in Commands : Press(c)) \/ Read \/ UNCHANGED vars
  BY <1>2, <1>4, KeyFollows
<1>5. CASE Receive
  BY <1>2, <1>5, ReceiveFollows
<1>6. CASE HandleLine
  BY <1>2, <1>3, <1>6, HandleFollows
<1>7. CASE Enter
  BY <1>2, <1>7, EnterFollows
<1>8. CASE Ready
  BY <1>2, <1>8, ReadyFollows
<1>9. CASE Leave
  BY <1>2, <1>3, <1>9, LeaveFollows
<1>10. CASE Refuse
  BY <1>2, <1>10, RefuseFollows
<1>11. CASE Step
  BY <1>2, <1>11, StepFollows
<1>12. CASE Wait
  BY <1>2, <1>12, WaitFollows
<1>13. CASE OthersReady
  BY <1>2, <1>13, OthersReadyFollows
<1>14. CASE Broadcast
  BY <1>2, <1>14, BroadcastFollows
<1>15. CASE EndGame
  BY <1>2, <1>3, <1>15, EndGameFollows
<1>16. CASE Reset
  BY <1>2, <1>16, ResetFollows
<1>17. CASE Send
  BY <1>2, <1>3, <1>17, SendFollows
<1> QED BY <1>4, <1>5, <1>6, <1>7, <1>8, <1>9, <1>10, <1>11, <1>12, <1>13, <1>14, <1>15, <1>16,
           <1>17 DEF Next

\* main.c, room.c, client/game.c: when nothing is under way the client is in the mode its
\* player is in, with buffers of any size and any number of keys, unless a send was short,
\* a game was left, or the end of one overtook its start.
THEOREM ScreenIsRight == Spec => []ScreenFollows
<1>1. IInv /\ ScreenInv /\ [Next]_vars => (IInv /\ ScreenInv)'
  <2>1. IInv /\ [Next]_vars => IInv'
    BY TypeOKStep, UnbrokenStep, HandledStep DEF IInv
  <2> QED BY <2>1, ScreenStep DEF IInv
<1>2. IInv /\ ScreenInv => ScreenFollows
  <2> SUFFICES ASSUME IInv, ScreenInv, Quiet, Orderly
               PROVE  /\ screen.in_room = member
                      /\ screen.in_game = (status = "gaming")
                      /\ status # "gaming" => screen.is_ready = (status = "ready")
    BY DEF ScreenFollows, Orderly
  <2>1. TypeOK /\ Course /\ Arriving
    BY DEF IInv, ScreenInv
  <2>2. UnderWay = << >>
    BY ConcatEmptySeq, EmptySeq DEF Quiet, UnderWay
  <2>3. Owed = {}
    <3>1. ~Sending("game")
      BY DEF Quiet, Threads
    <3>2. Pending = {}
      BY <2>1 DEF Quiet, Course
    <3> QED BY <3>1, <3>2 DEF Owed, SentBy
  <2>4. screen.in_room \in BOOLEAN /\ screen.is_ready \in BOOLEAN /\ screen.in_game \in BOOLEAN
        /\ member \in BOOLEAN
    BY <2>1, Plain
  <2>5. /\ WillBeInRoom <=> screen.in_room
        /\ WillBeInGame <=> screen.in_game
        /\ WillBeReady <=> screen.is_ready
    BY <2>2, <2>3, <2>4, WillStay DEF WillBeInRoom, WillBeInGame, WillBeReady
  <2>6. game # "end"
    BY DEF Quiet
  <2>7. screen.in_room <=> member
    BY <2>1, <2>5 DEF Arriving
  <2>8. screen.in_game <=> status = "gaming"
    BY <2>1, <2>5, <2>6 DEF Arriving
  <2>9. status # "gaming" => (screen.is_ready <=> status = "ready")
    BY <2>1, <2>5 DEF Arriving
  <2> QED BY <2>4, <2>7, <2>8, <2>9
<1> QED BY <1>1, <1>2, InitIInv, InitScreen, PTL DEF Spec

=============================================================================
