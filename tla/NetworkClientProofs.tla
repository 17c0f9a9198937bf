------------------------- MODULE NetworkClientProofs -------------------------
(***************************************************************************)
(* What the two threads of NetworkClient keep, for any number of           *)
(* connections and packets.                                                *)
(***************************************************************************)
EXTENDS NetworkClient, SequenceTheorems, TLAPS

Working == thread \notin {"none", "finished"}
Receiving == main \in {"receive", "delete", "forget"}

\* CONNECTING is the state exactly while the thread works.
StateTellsOfThread == Working <=> connectionState = "CONNECTING"

\* StartClientAsync reaches its thread with no other thread, the old socket
\* gone, and the mode that GetClient asks for.
RestartPrepared ==
  /\ main = "restart" => ~Working /\ STATUS = "CLIENT"
  /\ main = "start" => /\ thread = "none" /\ connectionState = "DISCONNECTED"
                       /\ STATUS = "CLIENT" /\ socket = NoSocket

\* Until the thread has a connection nobody has a socket.
ConnectsAlone == thread = "connect" => /\ STATUS = "CLIENT" /\ socket = NoSocket
                                       /\ ~Receiving /\ main # "read"

\* A thread or a frame that is about to clear the pointer is the only reason
\* for it to dangle.
DanglingIsCleared ==
  socket # NoSocket => Live(socket) \/ main = "forget" \/ thread = "clear"

\* A frame works on the socket that the pointer is to, if it is to any.
FrameHasSocket ==
  /\ Receiving => clientSock # NoSocket /\ socket \in {clientSock, NoSocket}
  /\ thread \in {"send", "drop"} => newSock # NoSocket

\* Nothing was received on a connection that is not made.
FreshIsUnread == \A c \in Connections : memory[c] = "unused" => got[c] = 0

\* What the buffer keeps of a connection made from the menu.
MenuBuffer ==
  socket # NoSocket /\ madeBy[socket] = "menu" =>
    recvBuffer = IF got[socket] % 2 = 0 THEN <<>> ELSE << <<socket, got[socket]>> >>

\* The inductive invariant.
IInv == /\ TypeOK /\ StateTellsOfThread /\ RestartPrepared /\ ConnectsAlone
        /\ DanglingIsCleared /\ FrameHasSocket /\ FreshIsUnread /\ MenuBuffer

LEMMA InitEstablishes == Init => IInv
<1> SUFFICES ASSUME Init PROVE IInv
  OBVIOUS
<1>1. recvBuffer \in Seq(Connections \X Halves)
  BY EmptySeq DEF Init
<1>2. 0 \in Halves
  BY ConstantsAssumption DEF Halves
<1>3. TypeOK
  BY <1>1, <1>2 DEF Init, TypeOK
<1>4. FreshIsUnread /\ MenuBuffer
  BY DEF Init, FreshIsUnread, MenuBuffer
<1> QED BY <1>3, <1>4 DEF Init, IInv, StateTellsOfThread, RestartPrepared, ConnectsAlone,
      DanglingIsCleared, FrameHasSocket, Working, Receiving

\* A step of the connecting thread.
LEMMA ThreadKeeps == IInv /\ Thread => IInv'
<1> SUFFICES ASSUME IInv, Thread PROVE IInv'
  OBVIOUS
<1> USE ConstantsAssumption DEF ThreadUnchanged, objects, stream
<1>1. ASSUME NEW c \in Connections, ThreadStore(c) PROVE IInv'
  <2>1. TypeOK'
    BY <1>1 DEF ThreadStore, Make, Fresh, IInv, TypeOK
  <2>2. /\ StateTellsOfThread' /\ RestartPrepared' /\ ConnectsAlone'
        /\ DanglingIsCleared' /\ FrameHasSocket'
    BY <1>1 DEF ThreadStore, Make, IInv, TypeOK, StateTellsOfThread, RestartPrepared,
      ConnectsAlone, DanglingIsCleared, FrameHasSocket, Working, Receiving, Live,
      Connections, NoSocket
  <2>3. FreshIsUnread'
    BY <1>1 DEF ThreadStore, Make, IInv, TypeOK, FreshIsUnread
  <2>4. MenuBuffer'
    BY <1>1 DEF ThreadStore, Make, IInv, TypeOK, MenuBuffer
  <2> QED BY <2>1, <2>2, <2>3, <2>4 DEF IInv
<1>2. CASE ThreadRefused \/ ThreadSend
  <2>1. TypeOK' /\ FreshIsUnread' /\ MenuBuffer'
    BY <1>2 DEF ThreadRefused, ThreadSend, IInv, TypeOK, FreshIsUnread, MenuBuffer
  <2>2. /\ StateTellsOfThread' /\ RestartPrepared' /\ ConnectsAlone'
        /\ DanglingIsCleared' /\ FrameHasSocket'
    BY <1>2 DEF ThreadRefused, ThreadSend, IInv, StateTellsOfThread, RestartPrepared,
      ConnectsAlone, DanglingIsCleared, FrameHasSocket, Working, Receiving, Live
  <2> QED BY <2>1, <2>2 DEF IInv
<1>3. CASE ThreadDrop
  <2>1. TypeOK'
    <3>1. /\ memory' \in [Connections -> {"unused", "live", "freed"}]
          /\ \A c \in Connections : memory[c] # "unused" => memory'[c] # "unused"
      BY <1>3 DEF ThreadDrop, Free, IInv, TypeOK
    <3>2. socket' \in {c \in Connections : memory'[c] # "unused"} \cup {NoSocket}
      BY <1>3, <3>1 DEF ThreadDrop, IInv, TypeOK
    <3> QED BY <1>3, <3>1, <3>2 DEF ThreadDrop, IInv, TypeOK
  <2>2. FreshIsUnread' /\ MenuBuffer'
    BY <1>3 DEF ThreadDrop, Free, IInv, TypeOK, FreshIsUnread, MenuBuffer
  <2>3. /\ StateTellsOfThread' /\ RestartPrepared' /\ ConnectsAlone'
        /\ DanglingIsCleared' /\ FrameHasSocket'
    BY <1>3 DEF ThreadDrop, IInv, StateTellsOfThread, RestartPrepared,
      ConnectsAlone, DanglingIsCleared, FrameHasSocket, Working, Receiving, Live
  <2> QED BY <2>1, <2>2, <2>3 DEF IInv
<1>4. CASE ThreadCrash
  BY <1>4 DEF ThreadCrash, Crash, Crashed, pointers, IInv, TypeOK, FreshIsUnread, MenuBuffer,
    StateTellsOfThread, RestartPrepared, ConnectsAlone, DanglingIsCleared,
    FrameHasSocket, Working, Receiving, Live
<1>5. CASE ThreadClear \/ ThreadEnd
  <2>1. TypeOK' /\ FreshIsUnread' /\ MenuBuffer'
    BY <1>5 DEF ThreadClear, ThreadEnd, IInv, TypeOK, FreshIsUnread, MenuBuffer, NoSocket
  <2>2. /\ StateTellsOfThread' /\ RestartPrepared' /\ ConnectsAlone'
        /\ DanglingIsCleared' /\ FrameHasSocket'
    BY <1>5 DEF ThreadClear, ThreadEnd, IInv, StateTellsOfThread, RestartPrepared,
      ConnectsAlone, DanglingIsCleared, FrameHasSocket, Working, Receiving, Live, NoSocket
  <2> QED BY <2>1, <2>2 DEF IInv
<1> QED BY <1>1, <1>2, <1>3, <1>4, <1>5 DEF Thread

\* A click, the loading of a game, the closing of the program.
LEMMA MenuKeeps == IInv /\ Menu => IInv'
<1> SUFFICES ASSUME IInv, Menu PROVE IInv'
  OBVIOUS
<1> USE ConstantsAssumption DEF ClickUnchanged, objects, Idle
<1>1. ASSUME NEW c \in Connections, StartClient(c) PROVE IInv'
  <2>1. TypeOK'
    BY <1>1 DEF StartClient, Make, Fresh, IInv, TypeOK
  <2>2. /\ StateTellsOfThread' /\ RestartPrepared' /\ ConnectsAlone'
        /\ DanglingIsCleared' /\ FrameHasSocket'
    BY <1>1 DEF StartClient, Make, IInv, TypeOK, StateTellsOfThread, RestartPrepared,
      ConnectsAlone, DanglingIsCleared, FrameHasSocket, Working, Receiving, Live,
      Connections, NoSocket
  <2>3. FreshIsUnread' /\ got'[c] = 0
    BY <1>1 DEF StartClient, Make, Fresh, IInv, TypeOK, FreshIsUnread
  <2>4. MenuBuffer'
    BY <1>1, <2>3 DEF StartClient, MenuBuffer
  <2> QED BY <2>1, <2>2, <2>3, <2>4 DEF IInv
<1>2. CASE StartClientFails \/ ServerButtonClick \/ Login \/ LoadGameAborts
  <2>1. TypeOK'
    <3>1. CASE StartClientFails
      BY <3>1 DEF StartClientFails, IInv, TypeOK
    <3>2. CASE ServerButtonClick
      BY <3>2 DEF ServerButtonClick, IInv, TypeOK
    <3>3. CASE Login \/ LoadGameAborts
      BY <3>3 DEF Login, LoadGameAborts, IInv, TypeOK
    <3> QED BY <1>2, <3>1, <3>2, <3>3
  <2>2. FreshIsUnread' /\ MenuBuffer'
    BY <1>2 DEF StartClientFails, ServerButtonClick, Login, LoadGameAborts, IInv,
      FreshIsUnread, MenuBuffer
  <2>3. /\ StateTellsOfThread' /\ RestartPrepared' /\ ConnectsAlone'
        /\ DanglingIsCleared' /\ FrameHasSocket'
    BY <1>2 DEF StartClientFails, ServerButtonClick, Login, LoadGameAborts, IInv,
      StateTellsOfThread, RestartPrepared, ConnectsAlone, DanglingIsCleared,
      FrameHasSocket, Working, Receiving, Live, NoSocket
  <2> QED BY <2>1, <2>2, <2>3 DEF IInv
<1>3. CASE ClientButtonStop \/ Close \/ LoadGame
  <2>1. TypeOK' /\ FreshIsUnread' /\ MenuBuffer'
    BY <1>3 DEF ClientButtonStop, Close, LoadGame, Join, IInv, TypeOK, FreshIsUnread,
      MenuBuffer
  <2>2. /\ StateTellsOfThread' /\ RestartPrepared' /\ ConnectsAlone'
        /\ DanglingIsCleared' /\ FrameHasSocket'
    BY <1>3 DEF ClientButtonStop, Close, LoadGame, Join, IInv, StateTellsOfThread,
      RestartPrepared, ConnectsAlone, DanglingIsCleared, FrameHasSocket, Working,
      Receiving, Live
  <2> QED BY <2>1, <2>2 DEF IInv
<1> QED BY <1>1, <1>2, <1>3 DEF Menu

\* StopClient, StartThread and the end of the program.
LEMMA JoinKeeps == IInv /\ (StopClient \/ StartThread \/ CloseJoined) => IInv'
<1> SUFFICES ASSUME IInv, StopClient \/ StartThread \/ CloseJoined PROVE IInv'
  OBVIOUS
<1> USE ConstantsAssumption DEF ClickUnchanged, objects, Joined
<1>1. TypeOK' /\ FreshIsUnread' /\ MenuBuffer'
  BY DEF StopClient, StartThread, CloseJoined, IInv, TypeOK, FreshIsUnread, MenuBuffer,
    NoSocket
<1>2. /\ StateTellsOfThread' /\ RestartPrepared' /\ ConnectsAlone'
      /\ DanglingIsCleared' /\ FrameHasSocket'
  BY DEF StopClient, StartThread, CloseJoined, IInv, StateTellsOfThread,
    RestartPrepared, ConnectsAlone, DanglingIsCleared, FrameHasSocket, Working,
    Receiving, Live, NoSocket
<1> QED BY <1>1, <1>2 DEF IInv

\* A step of the server.
LEMMA ServerKeeps == IInv /\ Server => IInv'
<1> SUFFICES ASSUME IInv, Server PROVE IInv'
  OBVIOUS
<1>1. /\ UNCHANGED <<STATUS, connectionState, recvBuffer, main, thread, token, app,
                     pointers, objects, got>>
      /\ TypeOK'
  BY DEF Server, ServerSend, ServerClose, ServerUnchanged, IInv, TypeOK, pointers, objects
<1> QED BY <1>1 DEF pointers, objects, IInv, FreshIsUnread, MenuBuffer, StateTellsOfThread,
      RestartPrepared, ConnectsAlone, DanglingIsCleared, FrameHasSocket, Working,
      Receiving, Live

\* A frame in which nothing is received.
LEMMA FrameKeeps ==
  IInv /\ (\/ UpdateBegin \/ UpdateRead \/ UpdateReadNull \/ UpdateNoData \/ UpdateLost
           \/ UpdateDelete \/ UpdateCrash \/ UpdateForget)
    => IInv'
<1> SUFFICES ASSUME IInv,
                    \/ UpdateBegin \/ UpdateRead \/ UpdateReadNull \/ UpdateNoData
                    \/ UpdateLost \/ UpdateDelete \/ UpdateCrash \/ UpdateForget
             PROVE  IInv'
  OBVIOUS
<1> USE DEF UpdateUnchanged
<1>1. CASE UpdateBegin \/ UpdateRead \/ UpdateNoData \/ UpdateLost
  <2>1. TypeOK' /\ FreshIsUnread' /\ MenuBuffer'
    BY <1>1 DEF UpdateBegin, UpdateRead, UpdateNoData, UpdateLost, Idle, IInv, TypeOK, FreshIsUnread,
      MenuBuffer
  <2>2. /\ StateTellsOfThread' /\ RestartPrepared' /\ ConnectsAlone'
        /\ DanglingIsCleared' /\ FrameHasSocket'
    BY <1>1 DEF UpdateBegin, UpdateRead, UpdateNoData, UpdateLost, Idle, IInv, StateTellsOfThread,
      RestartPrepared, ConnectsAlone, DanglingIsCleared, FrameHasSocket, Working,
      Receiving, Live
  <2> QED BY <2>1, <2>2 DEF IInv
<1>2. CASE UpdateDelete
  <2>1. TypeOK'
    <3>1. /\ memory' \in [Connections -> {"unused", "live", "freed"}]
          /\ \A c \in Connections : memory[c] # "unused" => memory'[c] # "unused"
      BY <1>2 DEF UpdateDelete, Free, IInv, TypeOK
    <3>2. socket' \in {c \in Connections : memory'[c] # "unused"} \cup {NoSocket}
      BY <1>2, <3>1 DEF UpdateDelete, IInv, TypeOK
    <3> QED BY <1>2, <3>1, <3>2 DEF UpdateDelete, IInv, TypeOK
  <2>2. FreshIsUnread' /\ MenuBuffer'
    BY <1>2 DEF UpdateDelete, Free, IInv, TypeOK, FreshIsUnread, MenuBuffer
  <2>3. /\ StateTellsOfThread' /\ RestartPrepared' /\ ConnectsAlone'
        /\ DanglingIsCleared' /\ FrameHasSocket'
    BY <1>2 DEF UpdateDelete, IInv, StateTellsOfThread, RestartPrepared,
      ConnectsAlone, DanglingIsCleared, FrameHasSocket, Working, Receiving, Live
  <2> QED BY <2>1, <2>2, <2>3 DEF IInv
<1>3. CASE UpdateReadNull \/ UpdateCrash
  BY <1>3 DEF UpdateReadNull, UpdateCrash, Crash, Crashed, pointers, objects, stream, IInv, TypeOK, FreshIsUnread,
    MenuBuffer, StateTellsOfThread, RestartPrepared, ConnectsAlone, DanglingIsCleared,
    FrameHasSocket, Working, Receiving, Live
<1>4. CASE UpdateForget
  <2>1. TypeOK'
    <3>1. recvBuffer' \in Seq(Connections \X Halves)
      BY <1>4, EmptySeq DEF UpdateForget
    <3> QED BY <1>4, <3>1 DEF UpdateForget, IInv, TypeOK
  <2>2. FreshIsUnread' /\ MenuBuffer'
    BY <1>4 DEF UpdateForget, IInv, FreshIsUnread, MenuBuffer
  <2>3. /\ StateTellsOfThread' /\ RestartPrepared' /\ ConnectsAlone'
        /\ DanglingIsCleared' /\ FrameHasSocket'
    BY <1>4 DEF UpdateForget, IInv, StateTellsOfThread, RestartPrepared,
      ConnectsAlone, DanglingIsCleared, FrameHasSocket, Working, Receiving, Live, NoSocket
  <2> QED BY <2>1, <2>2, <2>3 DEF IInv
<1> QED BY <1>1, <1>2, <1>3, <1>4

-----------------------------------------------------------------------------
(* Receiving.                                                              *)

\* What is left of the buffer is made of what was in it.
LEMMA RemainsType ==
  ASSUME NEW S, NEW buffer \in Seq(S), NEW rest \in Remains(buffer)
  PROVE  rest \in Seq(S)
<1> DEFINE end == Len(buffer)
<1>1. end \in Nat
  BY LenProperties
<1> HIDE DEF end
<1>2. CASE Misplaced(buffer) = {}
  <2> DEFINE k == 2 * (end \div 2) + 1
  <2>1. k \in 1..end + 1
    BY <1>1, SMT
  <2>2. rest = SubSeq(buffer, k, end)
    BY <1>2 DEF Remains, end
  <2> HIDE DEF k
  <2>3. end \in k - 1..end
    BY <1>1, <2>1
  <2> QED BY <2>1, <2>2, <2>3, SubSeqProperties DEF end
<1>3. CASE Misplaced(buffer) # {}
  <2>1. PICK k \in 1..end + 1 : rest = SubSeq(buffer, k, end)
    BY <1>3 DEF Remains, end
  <2>2. end \in k - 1..end
    BY <1>1, <2>1
  <2> QED BY <2>1, <2>2, SubSeqProperties DEF end
<1> QED BY <1>2, <1>3

\* From a buffer with its connection's own half packet, if any, receiving goes
\* to one with the half packet, if any, that is left then.
LEMMA OwnHalfRemains ==
  ASSUME NEW c, NEW g \in Nat, NEW n \in Nat, NEW buffer,
         buffer = IF g % 2 = 0 THEN <<>> ELSE << <<c, g>> >>,
         NEW rest \in Remains(buffer \o [i \in 1..n |-> <<c, g + i>>])
  PROVE  rest = IF (g + n) % 2 = 0 THEN <<>> ELSE << <<c, g + n>> >>
<1> DEFINE S    == {<<c, i>> : i \in Nat}
           new  == [i \in 1..n |-> <<c, g + i>>]
           full == buffer \o new
           h    == g % 2
           len  == n + h
           base == g - h
<1>1. /\ len \in Nat /\ base \in Nat /\ h \in {0, 1}
      /\ \A i \in Nat : i % 2 = 1 => (base + i) % 2 = 1
      /\ (g + n) % 2 = len % 2 /\ base + len = g + n
  <2>1. h \in {0, 1} /\ g >= h
    BY SMT
  <2>2. base % 2 = 0
    BY SMT
  <2> HIDE DEF h
  <2>3. len \in Nat /\ base \in Nat /\ base + len = g + n
    BY <2>1
  <2> HIDE DEF base, len
  <2>4. \A i \in Nat : i % 2 = 1 => (base + i) % 2 = 1
    BY <2>2, <2>3, SMT
  <2>5. (g + n) % 2 = len % 2
    BY <2>2, <2>3, SMT
  <2> QED BY <2>1, <2>3, <2>4, <2>5
<1>2. new \in Seq(S) /\ Len(new) = n /\ \A i \in 1..n : new[i] = <<c, g + i>>
  OBVIOUS
<1>3. buffer \in Seq(S) /\ Len(buffer) = h /\ \A i \in 1..h : buffer[i] = <<c, g>>
  <2>1. CASE h = 0
    BY <2>1, EmptySeq
  <2>2. CASE h = 1
    <3>1. buffer = << <<c, g>> >> /\ <<c, g>> \in S
      BY <2>2
    <3> HIDE DEF S
    <3> QED BY <2>2, <3>1
  <2> QED BY <1>1, <2>1, <2>2
<1> HIDE DEF new, S
<1>4. full \in Seq(S) /\ Len(full) = len /\ \A i \in 1..len : full[i] = <<c, base + i>>
  <2> HIDE DEF h, len, base
  <2>0. /\ full \in Seq(S) /\ Len(full) = Len(buffer) + Len(new)
        /\ \A i \in 1..Len(buffer) + Len(new) :
             full[i] = IF i <= Len(buffer) THEN buffer[i] ELSE new[i - Len(buffer)]
    BY <1>2, <1>3, ConcatProperties
  <2> HIDE DEF full
  <2>1. /\ full \in Seq(S) /\ Len(full) = h + n
        /\ \A i \in 1..h + n : full[i] = IF i <= h THEN buffer[i] ELSE new[i - h]
    BY <1>2, <1>3, <2>0
  <2>2. h + n = len /\ h \in {0, 1} /\ base \in Nat /\ base + h = g
    <3>1. h \in {0, 1} /\ base \in Nat
      BY <1>1
    <3> QED BY <3>1 DEF len, base
  <2>3. ASSUME NEW i \in 1..len PROVE full[i] = <<c, base + i>>
    <3>1. CASE i <= h
      <4>1. i = h /\ base + i = g
        BY <2>2, <3>1
      <4> QED BY <1>3, <2>1, <2>2, <3>1, <4>1
    <3>2. CASE ~(i <= h)
      <4>1. i - h \in 1..n /\ g + (i - h) = base + i
        BY <2>2, <3>2
      <4>2. full[i] = new[i - h]
        BY <2>1, <2>2, <3>2
      <4> QED BY <1>2, <4>1, <4>2
    <3> QED BY <3>1, <3>2
  <2> QED BY <2>1, <2>2, <2>3
<1>5. rest \in Remains(full)
  BY DEF new
<1>6. DOMAIN full = 1..len
  BY <1>4, LenProperties
<1> HIDE DEF full, base, len, h
<1>7. Misplaced(full) = {}
  <2> SUFFICES ASSUME NEW i \in 1..len, i % 2 = 1 PROVE full[i][2] % 2 # 0
    BY <1>6 DEF Misplaced
  <2>0. i \in Nat
    BY <1>1
  <2>1. full[i][2] = base + i
    <3>1. full[i] = <<c, base + i>>
      BY <1>4
    <3> QED BY <3>1
  <2>2. (base + i) % 2 = 1
    BY <1>1, <2>0
  <2> QED BY <2>1, <2>2
<1>8. rest = SubSeq(full, 2 * (len \div 2) + 1, len)
  BY <1>4, <1>5, <1>7 DEF Remains
<1>9. CASE len % 2 = 0
  <2>1. 2 * (len \div 2) + 1 = len + 1
    BY <1>1, <1>9, SMT
  <2>2. len + 1 \in 1..len + 1 /\ len \in (len + 1) - 1..len /\ len < len + 1
    BY <1>1
  <2>3. rest \in Seq(S) /\ Len(rest) = 0
    BY <1>1, <1>4, <1>8, <2>1, <2>2, SubSeqProperties
  <2>4. rest = <<>>
    BY <2>3, EmptySeq
  <2> QED BY <1>1, <1>9, <2>4
<1>10. CASE len % 2 = 1
  <2>1. 2 * (len \div 2) + 1 = len
    BY <1>1, <1>10, SMT
  <2>2. len \in 1..len /\ (g + n) % 2 # 0
    BY <1>1, <1>10
  <2>3. full[len] = <<c, g + n>>
    BY <1>1, <1>4, <2>2
  <2>4. rest = <<full[len]>>
    <3>1. rest \in Seq(S) /\ Len(rest) = 1 /\ rest[1] = full[len]
      BY <1>1, <1>4, <1>8, <2>1, <2>2, SubSeqProperties
    <3> QED BY <3>1
  <2> QED BY <2>2, <2>3, <2>4
<1> QED BY <1>1, <1>9, <1>10

LEMMA ReceiveKeeps ==
  ASSUME NEW n \in Halves \ {0}, IInv, UpdateReceive(n)
  PROVE  IInv'
<1> USE DEF UpdateUnchanged
<1> DEFINE c == clientSock
<1>1. /\ c \in Connections /\ n \in Nat /\ got[c] \in Nat /\ sent[c] \in Nat
      /\ got[c] + n <= sent[c]
      /\ \A i \in 1..n : got[c] + i \in Halves
  <2>1. c \in Connections
    BY DEF UpdateReceive, IInv, FrameHasSocket, Receiving, TypeOK
  <2>2. got[c] \in Halves /\ sent[c] \in Halves /\ n \in Nat
    BY <2>1, ConstantsAssumption DEF IInv, TypeOK, Halves
  <2>3. got[c] + n <= sent[c]
    BY <2>2, ConstantsAssumption DEF UpdateReceive, Halves
  <2> QED BY <2>1, <2>2, <2>3, ConstantsAssumption DEF Halves
<1>2. /\ main = "receive" /\ main' = "idle" /\ clientSock' = NoSocket
      /\ recvBuffer' \in Remains(recvBuffer \o Chunk(c, n))
      /\ got' = [got EXCEPT ![c] = @ + n] /\ Live(c)
      /\ UNCHANGED <<STATUS, socket, memory, app>> /\ UpdateUnchanged
  BY DEF UpdateReceive
<1>3. recvBuffer' \in Seq(Connections \X Halves)
  <2>1. Chunk(c, n) \in Seq(Connections \X Halves)
    BY <1>1 DEF Chunk
  <2>2. recvBuffer \o Chunk(c, n) \in Seq(Connections \X Halves)
    BY <2>1, ConcatProperties DEF IInv, TypeOK
  <2> QED BY <1>2, <2>2, RemainsType
<1>4. got' \in [Connections -> Halves] /\ got'[c] = got[c] + n
  BY <1>1, <1>2 DEF IInv, TypeOK, Halves
<1>5. TypeOK'
  BY <1>2, <1>3, <1>4 DEF IInv, TypeOK, NoSocket
<1>6. FreshIsUnread'
  <2> SUFFICES ASSUME NEW b \in Connections, memory[b] = "unused" PROVE got'[b] = 0
    BY <1>2 DEF FreshIsUnread
  <2>1. b # c
    BY <1>2 DEF Live
  <2> QED BY <1>2, <2>1 DEF IInv, FreshIsUnread, TypeOK
<1>7. MenuBuffer'
  <2> SUFFICES ASSUME socket # NoSocket, madeBy[socket] = "menu"
               PROVE  recvBuffer' = IF got'[socket] % 2 = 0 THEN <<>>
                                    ELSE << <<socket, got'[socket]>> >>
    BY <1>2 DEF MenuBuffer
  <2>1. socket = c
    BY <1>2 DEF IInv, FrameHasSocket, Receiving
  <2>2. recvBuffer = IF got[c] % 2 = 0 THEN <<>> ELSE << <<c, got[c]>> >>
    BY <2>1 DEF IInv, MenuBuffer
  <2>3. recvBuffer' = IF (got[c] + n) % 2 = 0 THEN <<>> ELSE << <<c, got[c] + n>> >>
    BY <1>1, <1>2, <2>2, OwnHalfRemains DEF Chunk
  <2> QED BY <1>4, <2>1, <2>3
<1>8. /\ StateTellsOfThread' /\ RestartPrepared' /\ ConnectsAlone'
      /\ DanglingIsCleared' /\ FrameHasSocket'
  BY <1>2 DEF UpdateReceive, IInv, StateTellsOfThread, RestartPrepared, ConnectsAlone,
    DanglingIsCleared, FrameHasSocket, Working, Receiving, Live
<1> QED BY <1>5, <1>6, <1>7, <1>8 DEF IInv

-----------------------------------------------------------------------------
(* The theorems.                                                           *)

LEMMA StepKeeps == IInv /\ [Next]_vars => IInv'
<1> SUFFICES ASSUME IInv, [Next]_vars PROVE IInv'
  OBVIOUS
<1>1. CASE Update
  BY <1>1, FrameKeeps, ReceiveKeeps DEF Update
<1>2. CASE Ended \/ UNCHANGED vars
  BY <1>2 DEF Ended, vars, pointers, objects, stream, IInv, TypeOK, StateTellsOfThread,
    RestartPrepared, ConnectsAlone, DanglingIsCleared, FrameHasSocket, FreshIsUnread,
    MenuBuffer, Working, Receiving, Live
<1> QED BY <1>1, <1>2, ThreadKeeps, MenuKeeps, JoinKeeps, ServerKeeps DEF Next

LEMMA Inductive == Spec => []IInv
<1>1. Init => IInv
  BY InitEstablishes
<1>2. IInv /\ [Next]_vars => IInv'
  BY StepKeeps
<1> QED BY <1>1, <1>2, PTL DEF Spec

\* The variables keep their types, and the pointer is never to an object that
\* does not exist yet.
THEOREM TypesKept == Spec => []TypeOK
<1>1. IInv => TypeOK
  BY DEF IInv
<1> QED BY <1>1, Inductive, PTL

\* StartClientAsync never waits for the thread of an earlier connection.
THEOREM AsyncReturnsAtOnce == Spec => []AsyncNeverWaits
<1>1. IInv => AsyncNeverWaits
  BY DEF IInv, RestartPrepared, Working, AsyncNeverWaits
<1> QED BY <1>1, Inductive, PTL

\* Once the thread is done and no frame is under way the pointer is null or to
\* a live socket.
THEOREM PointerSound == Spec => []NoDanglingAtRest
<1>1. IInv => NoDanglingAtRest
  BY DEF IInv, DanglingIsCleared, NoDanglingAtRest, Idle
<1> QED BY <1>1, Inductive, PTL

\* Whatever pieces its bytes come in, a connection made from the menu reads its
\* own packets, whole and in order.
THEOREM MenuFramingSound == Spec => []MenuReadsWholePackets
<1>1. IInv => MenuReadsWholePackets
  BY DEF IInv, MenuBuffer, MenuReadsWholePackets
<1> QED BY <1>1, Inductive, PTL

\* No step of either thread takes the connection state out of its order.
THEOREM StatesInOrder == Spec => StateOrder
<1> DEFINE Ordered ==
      /\ connectionState' = "CONNECTING" /\ connectionState # "CONNECTING"
           => connectionState = "DISCONNECTED"
      /\ connectionState' \in {"CONNECTED", "FAILED"} /\ connectionState' # connectionState
           => connectionState = "CONNECTING"
<1>1. IInv /\ [Next]_vars => [Ordered]_vars
  <2> SUFFICES ASSUME IInv, Next, ~UNCHANGED connectionState PROVE Ordered
    OBVIOUS
  <2>1. CASE Thread
    <3>1. ThreadEnd
      BY <2>1 DEF Thread, ThreadStore, ThreadRefused, ThreadSend, ThreadDrop, ThreadCrash,
        Crash, Crashed, ThreadClear
    <3> QED BY <3>1 DEF ThreadEnd, IInv, StateTellsOfThread, Working
  <2>2. CASE StopClient \/ StartThread
    BY <2>2 DEF StopClient, StartThread, IInv, RestartPrepared
  <2>3. CASE ~(Thread \/ StopClient \/ StartThread)
    BY <2>3 DEF Next, Update, UpdateBegin, UpdateRead, UpdateReadNull, UpdateNoData,
      UpdateLost, UpdateReceive, UpdateDelete, UpdateCrash, Crash, Crashed, UpdateForget, UpdateUnchanged, Menu, StartClient,
      StartClientFails, ServerButtonClick, Login, ClientButtonStop, Close, Join,
      LoadGameAborts, LoadGame, Server, ServerSend, ServerClose, ServerUnchanged,
      CloseJoined, Ended, vars
  <2> QED BY <2>1, <2>2, <2>3
<1> QED BY <1>1, Inductive, PTL DEF Spec, StateOrder
=============================================================================
