---------------------------- MODULE NetworkClient ----------------------------
(***************************************************************************)
(* The network side of the game: NetworkClient and the thread that it      *)
(* connects on (src/uplink/src/network/networkclient.cpp), the mode kept   *)
(* by Network (network.cpp), the buttons that change it and the automatic  *)
(* connection at the end of App::LoadGame (src/uplink/src/app/app.cpp).    *)
(*                                                                         *)
(* Two threads run.  The main loop takes one operation at a time: a frame  *)
(* (Update), a click, the loading of a game, the closing of the program.   *)
(* The connecting thread writes the same pointer to a socket.  A step of   *)
(* either is one access to what they share: the pointer, the object that   *)
(* it points to, the connection state.  What the program does with an      *)
(* object that is freed is not defined: it may find nothing wrong, see an  *)
(* error, or crash.                                                        *)
(*                                                                         *)
(* Of the stream of a connection the halves of its packets are numbered:   *)
(* packet k is the halves 2k-1, with the header, and 2k.  A receive takes  *)
(* any number of halves.                                                   *)
(***************************************************************************)
EXTENDS Integers, Sequences

CONSTANTS
  MaxConnections, (* bound on the connections ever made                    *)
  MaxPackets      (* bound on the packets the server sends on each         *)

ASSUME ConstantsAssumption == MaxConnections \in Nat /\ MaxPackets \in Nat

Connections == 1..MaxConnections
NoSocket == 0
Halves == 0..2 * MaxPackets

VARIABLES
  STATUS,          (* Network::STATUS                                      *)
  connectionState, (* NetworkClient::m_connectionState                     *)
  socket,          (* NetworkClient::socket: its connection, or NoSocket   *)
  recvBuffer,      (* NetworkClient::m_recvBuffer                          *)
  memory,          (* the Net::Socket object of each connection            *)
  madeBy,          (* history: who made it                                 *)
  main,            (* what the main loop does next                         *)
  clientSock,      (* Update: its copy of the pointer                      *)
  thread,          (* what m_connectThread does next; "none": not joinable *)
  newSock,         (* the thread's copy of the pointer                     *)
  token,           (* whether SupabaseClient has an auth token             *)
  app,             (* "running", or how the program ended                  *)
  peer,            (* whether the server keeps each connection open        *)
  sent,            (* the halves the server has sent on each               *)
  got              (* the halves the client has received on each           *)

pointers == <<socket, clientSock, newSock>>
objects == <<memory, madeBy>>
stream == <<peer, sent, got>>
vars == <<STATUS, connectionState, recvBuffer, main, thread, token, app,
          pointers, objects, stream>>

Running == app = "running"
Idle == Running /\ main = "idle"

\* The connection made next: new Net::Socket.
Fresh(c) == /\ memory[c] = "unused"
            /\ \A b \in 1..c - 1 : memory[b] # "unused"

Make(c, who) == /\ memory' = [memory EXCEPT ![c] = "live"]
                /\ madeBy' = [madeBy EXCEPT ![c] = who]
                /\ peer' = [peer EXCEPT ![c] = "up"]
                /\ UNCHANGED <<sent, got>>

Live(c) == memory[c] = "live"
Free(c) == memory' = [memory EXCEPT ![c] = "freed"]

Crashed == /\ app' = "crashed"
           /\ UNCHANGED <<STATUS, connectionState, recvBuffer, main, thread,
                          token, pointers, objects, stream>>

\* An access to a freed object may end the program.
Crash(c) == ~Live(c) /\ Crashed

Init ==
  /\ STATUS = "NONE" /\ connectionState = "DISCONNECTED"
  /\ socket = NoSocket /\ clientSock = NoSocket /\ newSock = NoSocket
  /\ recvBuffer = <<>>
  /\ memory = [c \in Connections |-> "unused"]
  /\ madeBy = [c \in Connections |-> "nobody"]
  /\ main = "idle" /\ thread = "none"
  /\ token = FALSE /\ app = "running"
  /\ peer = [c \in Connections |-> "down"]
  /\ sent = [c \in Connections |-> 0]
  /\ got = [c \in Connections |-> 0]

-----------------------------------------------------------------------------
(* The connecting thread.                                                  *)

ThreadUnchanged == UNCHANGED <<STATUS, recvBuffer, main, clientSock, token>>

\* Mutant: the pointer is stored before there is an object.
ThreadStoreEarly(c) ==
  /\ Running /\ thread = "connect" /\ Fresh(c)
  /\ newSock' = c /\ socket' = c /\ thread' = "send"
  /\ UNCHANGED <<connectionState, app, objects, stream>> /\ ThreadUnchanged

\* The connection is made and the pointer stored.
ThreadStore(c) ==
  /\ Running /\ thread = "connect" /\ Fresh(c)
  /\ Make(c, "thread")
  /\ newSock' = c /\ socket' = c /\ thread' = "send"
  /\ UNCHANGED <<connectionState, app>> /\ ThreadUnchanged

ThreadRefused ==
  /\ Running /\ thread = "connect"
  /\ thread' = "fail"
  /\ UNCHANGED <<connectionState, app, socket, newSock, objects, stream>>
  /\ ThreadUnchanged

\* The handshake is sent, or cannot be.
ThreadSend ==
  /\ Running /\ thread = "send"
  /\ thread' \in {"succeed", "drop"}
  /\ UNCHANGED <<connectionState, app, socket, newSock, objects, stream>>
  /\ ThreadUnchanged

ThreadDrop ==
  /\ Running /\ thread = "drop"
  /\ Free(newSock) /\ thread' = "clear"
  /\ UNCHANGED <<connectionState, app, socket, newSock, madeBy, stream>>
  /\ ThreadUnchanged

ThreadCrash == Running /\ thread \in {"send", "drop"} /\ Crash(newSock)

\* Mutant: the pointer to the freed socket stays.
ThreadClearNothing ==
  /\ Running /\ thread = "clear"
  /\ thread' = "fail"
  /\ UNCHANGED <<connectionState, app, socket, newSock, objects, stream>>
  /\ ThreadUnchanged

ThreadClear ==
  /\ Running /\ thread = "clear"
  /\ socket' = NoSocket /\ thread' = "fail"
  /\ UNCHANGED <<connectionState, app, newSock, objects, stream>>
  /\ ThreadUnchanged

\* Mutant: a failure ends the thread and leaves the state.
ThreadEndSilently ==
  /\ Running /\ thread \in {"fail", "succeed"}
  /\ connectionState' = IF thread = "fail" THEN connectionState ELSE "CONNECTED"
  /\ newSock' = NoSocket /\ thread' = "finished"
  /\ UNCHANGED <<app, socket, objects, stream>> /\ ThreadUnchanged

\* Setting the state is the last thing the thread does.
ThreadEnd ==
  /\ Running /\ thread \in {"fail", "succeed"}
  /\ connectionState' = IF thread = "fail" THEN "FAILED" ELSE "CONNECTED"
  /\ newSock' = NoSocket /\ thread' = "finished"
  /\ UNCHANGED <<app, socket, objects, stream>> /\ ThreadUnchanged

Thread ==
  \/ \E c \in Connections : ThreadStore(c)
  \/ ThreadRefused \/ ThreadSend \/ ThreadDrop \/ ThreadCrash \/ ThreadClear \/ ThreadEnd

-----------------------------------------------------------------------------
(* Update: a frame of the main loop.                                       *)

UpdateUnchanged == UNCHANGED <<connectionState, madeBy, thread, newSock, token, peer, sent>>

\* The pointer is read to see that it is not null, and read again.
UpdateBegin ==
  /\ Idle /\ STATUS = "CLIENT" /\ socket # NoSocket
  /\ main' = "read"
  /\ UNCHANGED <<STATUS, socket, clientSock, recvBuffer, memory, app, got>> /\ UpdateUnchanged

UpdateRead ==
  /\ Running /\ main = "read" /\ socket # NoSocket
  /\ clientSock' = socket /\ main' = "receive"
  /\ UNCHANGED <<STATUS, socket, recvBuffer, memory, app, got>> /\ UpdateUnchanged

UpdateReadNull == Running /\ main = "read" /\ socket = NoSocket /\ Crashed

\* Where a header is read and the second half of a packet lies there.
Misplaced(buffer) == {i \in DOMAIN buffer : i % 2 = 1 /\ buffer[i][2] % 2 = 0}

\* What may be left when every whole packet is handled.  A header says how long
\* its packet is, whoever sent what follows; what is no header says anything.
Remains(buffer) ==
  LET end == Len(buffer)
  IN IF Misplaced(buffer) = {}
       THEN {SubSeq(buffer, 2 * (end \div 2) + 1, end)}
       ELSE {SubSeq(buffer, k, end) :
               k \in {k \in 1..end + 1 : \E i \in Misplaced(buffer) : i <= k}}

\* The next n halves of connection c.
Chunk(c, n) == [i \in 1..n |-> <<c, got[c] + i>>]

\* Nothing to read.
UpdateNoData ==
  /\ Running /\ main = "receive"
  /\ Live(clientSock) => /\ peer[clientSock] = "up"
                         /\ got[clientSock] = sent[clientSock]
  /\ main' = "idle" /\ clientSock' = NoSocket
  /\ UNCHANGED <<STATUS, socket, recvBuffer, memory, app, got>> /\ UpdateUnchanged

UpdateReceive(n) ==
  /\ Running /\ main = "receive" /\ Live(clientSock)
  /\ n <= sent[clientSock] - got[clientSock]
  /\ recvBuffer' \in Remains(recvBuffer \o Chunk(clientSock, n))
  /\ got' = [got EXCEPT ![clientSock] = @ + n]
  /\ main' = "idle" /\ clientSock' = NoSocket
  /\ UNCHANGED <<STATUS, socket, memory, app>> /\ UpdateUnchanged

\* Mutant: an error is taken for no data.
UpdateLostMissed ==
  /\ Running /\ main = "receive"
  /\ Live(clientSock) => peer[clientSock] = "down"
  /\ main' = "idle" /\ clientSock' = NoSocket
  /\ UNCHANGED <<STATUS, socket, recvBuffer, memory, app, got>> /\ UpdateUnchanged

\* The server has closed the connection: Recv returns -1.
UpdateLost ==
  /\ Running /\ main = "receive"
  /\ Live(clientSock) => peer[clientSock] = "down"
  /\ main' = "delete"
  /\ UNCHANGED <<STATUS, socket, clientSock, recvBuffer, memory, app, got>> /\ UpdateUnchanged

UpdateDelete ==
  /\ Running /\ main = "delete"
  /\ Free(clientSock) /\ main' = "forget"
  /\ UNCHANGED <<STATUS, socket, clientSock, recvBuffer, app, got>> /\ UpdateUnchanged

UpdateCrash == Running /\ main \in {"receive", "delete"} /\ Crash(clientSock)

\* The connection state stays as it is.
UpdateForget ==
  /\ Running /\ main = "forget"
  /\ socket' = NoSocket /\ recvBuffer' = <<>> /\ STATUS' = "NONE"
  /\ main' = "idle" /\ clientSock' = NoSocket
  /\ UNCHANGED <<memory, app, got>> /\ UpdateUnchanged

Update == \/ UpdateBegin \/ UpdateRead \/ UpdateReadNull \/ UpdateNoData \/ UpdateLost
          \/ \E n \in Halves \ {0} : UpdateReceive(n)
          \/ UpdateDelete \/ UpdateCrash \/ UpdateForget

-----------------------------------------------------------------------------
(* The clicks of the network menu, login, loading, closing.                *)

ClickUnchanged == UNCHANGED <<clientSock, newSock, got>>

\* Mutant: the buffer keeps what an earlier connection left in it.
StartClientKeepingBuffer(c) ==
  /\ Idle /\ STATUS = "NONE" /\ Fresh(c)
  /\ Make(c, "menu")
  /\ socket' = c /\ STATUS' = "CLIENT"
  /\ UNCHANGED <<recvBuffer, connectionState, main, thread, token, app, clientSock, newSock>>

\* Network::StartClient, which waits for the connection and the handshake.
StartClient(c) ==
  /\ Idle /\ STATUS = "NONE" /\ Fresh(c)
  /\ Make(c, "menu")
  /\ socket' = c /\ recvBuffer' = <<>> /\ STATUS' = "CLIENT"
  /\ UNCHANGED <<connectionState, main, thread, token, app, clientSock, newSock>>

\* The handshake cannot be sent: the new socket is deleted again.
StartClientFails ==
  /\ Idle /\ STATUS = "NONE"
  /\ socket' = NoSocket
  /\ UNCHANGED <<STATUS, recvBuffer, connectionState, main, thread, token, app, objects, peer, sent>>
  /\ ClickUnchanged

\* Network::StartServer and StopServer: the other use of the mode.
ServerButtonClick ==
  /\ Idle /\ STATUS # "CLIENT"
  /\ STATUS' = IF STATUS = "NONE" THEN "SERVER" ELSE "NONE"
  /\ UNCHANGED <<socket, recvBuffer, connectionState, main, thread, token, app, objects, peer, sent>>
  /\ ClickUnchanged

\* LoginInterface: SupabaseClient::Login.
Login ==
  /\ Idle
  /\ token' = TRUE
  /\ UNCHANGED <<STATUS, socket, recvBuffer, connectionState, main, thread, app, objects, peer, sent>>
  /\ ClickUnchanged

\* The main loop goes into StopClient, ~NetworkClient or StartClientAsync,
\* which begin by joining the thread.
Join(next) ==
  /\ main' = next
  /\ UNCHANGED <<STATUS, socket, recvBuffer, connectionState, thread, token, app, objects, peer, sent>>
  /\ ClickUnchanged

ClientButtonStop == Idle /\ STATUS = "CLIENT" /\ Join("stop")

Close == Idle /\ Join("close")

\* GetClient asserts the mode: the end of a load with a token in any other
\* mode ends the program.
LoadGameAborts ==
  /\ Idle /\ token /\ STATUS # "CLIENT"
  /\ app' = "aborted"
  /\ UNCHANGED <<STATUS, socket, recvBuffer, connectionState, main, thread, token, objects, peer, sent>>
  /\ ClickUnchanged

\* Mutant: a connection in progress is not waited for by its state.
LoadGameRegardless == Idle /\ token /\ STATUS = "CLIENT" /\ Join("restart")

\* StartClientAsync does nothing while a connection is in progress.
LoadGame ==
  /\ Idle /\ token /\ STATUS = "CLIENT"
  /\ connectionState # "CONNECTING"
  /\ Join("restart")

Joined == Running /\ thread \in {"none", "finished"}

\* Mutant: the thread is not joined, and goes on.
StopClientUnjoined ==
  /\ Running /\ main \in {"stop", "restart"}
  /\ memory' = IF socket = NoSocket THEN memory ELSE [memory EXCEPT ![socket] = "freed"]
  /\ socket' = NoSocket /\ connectionState' = "DISCONNECTED" /\ thread' = thread
  /\ main' = IF main = "stop" THEN "idle" ELSE "start"
  /\ STATUS' = IF main = "stop" THEN "NONE" ELSE STATUS
  /\ UNCHANGED <<recvBuffer, token, app, madeBy, peer, sent>> /\ ClickUnchanged

\* NetworkClient::StopClient after the join, on behalf of the menu or of
\* StartClientAsync.
StopClient ==
  /\ Joined /\ main \in {"stop", "restart"}
  /\ memory' = IF socket = NoSocket THEN memory ELSE [memory EXCEPT ![socket] = "freed"]
  /\ socket' = NoSocket /\ connectionState' = "DISCONNECTED" /\ thread' = "none"
  /\ main' = IF main = "stop" THEN "idle" ELSE "start"
  /\ STATUS' = IF main = "stop" THEN "NONE" ELSE STATUS
  /\ UNCHANGED <<recvBuffer, token, app, madeBy, peer, sent>> /\ ClickUnchanged

\* The rest of StartClientAsync.
StartThread ==
  /\ Running /\ main = "start"
  /\ connectionState' = "CONNECTING" /\ thread' = "connect" /\ main' = "idle"
  /\ UNCHANGED <<STATUS, socket, recvBuffer, token, app, objects, peer, sent>> /\ ClickUnchanged

CloseJoined ==
  /\ Joined /\ main = "close"
  /\ app' = "closed" /\ thread' = "none"
  /\ UNCHANGED <<STATUS, socket, recvBuffer, connectionState, main, token, objects, peer, sent>>
  /\ ClickUnchanged

Menu == \/ \E c \in Connections : StartClient(c)
        \/ StartClientFails \/ ServerButtonClick \/ Login
        \/ ClientButtonStop \/ Close \/ LoadGameAborts \/ LoadGame

-----------------------------------------------------------------------------
(* The server, and the specification.                                      *)

ServerUnchanged ==
  UNCHANGED <<STATUS, connectionState, recvBuffer, main, thread, token, app, pointers, objects, got>>

\* A packet on a connection.
ServerSend(c) ==
  /\ Running /\ Live(c) /\ peer[c] = "up" /\ sent[c] + 2 \in Halves
  /\ sent' = [sent EXCEPT ![c] = @ + 2]
  /\ UNCHANGED peer /\ ServerUnchanged

\* The end of one: the server drops the player, or ends.
ServerClose(c) ==
  /\ Running /\ Live(c) /\ peer[c] = "up"
  /\ peer' = [peer EXCEPT ![c] = "down"]
  /\ UNCHANGED sent /\ ServerUnchanged

Server == \E c \in Connections : ServerSend(c) \/ ServerClose(c)

\* The program has ended.
Ended == ~Running /\ UNCHANGED vars

Next == \/ Thread \/ Update \/ Menu \/ Server
        \/ StopClient \/ StartThread \/ CloseJoined \/ Ended

Spec == Init /\ [][Next]_vars

\* The system runs the thread, and the attempt to connect comes to an end;
\* the main loop goes on, and draws frame after frame.
FairSpec == /\ Spec
            /\ WF_vars(Thread) /\ WF_vars(Update)
            /\ WF_vars(StopClient) /\ WF_vars(StartThread) /\ WF_vars(CloseJoined)

-----------------------------------------------------------------------------
(* Properties.                                                             *)

\* Among the types: the pointer, when it is not null, is to an object made
\* before, not to one that does not exist yet.
TypeOK ==
  /\ STATUS \in {"NONE", "CLIENT", "SERVER"}
  /\ connectionState \in {"DISCONNECTED", "CONNECTING", "CONNECTED", "FAILED"}
  /\ socket \in {c \in Connections : memory[c] # "unused"} \cup {NoSocket}
  /\ clientSock \in Connections \cup {NoSocket}
  /\ newSock \in Connections \cup {NoSocket}
  /\ recvBuffer \in Seq(Connections \X Halves)
  /\ memory \in [Connections -> {"unused", "live", "freed"}]
  /\ madeBy \in [Connections -> {"nobody", "menu", "thread"}]
  /\ main \in {"idle", "read", "receive", "delete", "forget", "stop", "restart", "start", "close"}
  /\ thread \in {"none", "connect", "send", "drop", "clear", "fail", "succeed", "finished"}
  /\ token \in BOOLEAN
  /\ app \in {"running", "crashed", "aborted", "closed"}
  /\ peer \in [Connections -> {"up", "down"}]
  /\ sent \in [Connections -> Halves]
  /\ got \in [Connections -> Halves]

\* StartClientAsync returns at once (networkclient.h:77): when it joins the
\* old thread, that thread has nothing left to do, because CONNECTING, which
\* StartClientAsync looks at first, is the state until the thread's last step.
AsyncNeverWaits == main = "restart" => thread \in {"none", "finished"}

\* When no thread works and no frame is under way, the pointer is null or to a
\* live object, whatever the two did to each other's sockets before.
NoDanglingAtRest ==
  Idle /\ thread \in {"none", "finished"} /\ socket # NoSocket => Live(socket)

\* A connection made from the menu reads whole packets, its own, in order:
\* what the buffer keeps is the first half of the packet that comes next.
MenuReadsWholePackets ==
  Running /\ socket # NoSocket /\ madeBy[socket] = "menu" =>
    recvBuffer = IF got[socket] % 2 = 0 THEN <<>> ELSE << <<socket, got[socket]>> >>

\* The state goes DISCONNECTED, CONNECTING, then CONNECTED or FAILED
\* (AGENT_HANDOVER.md:85), although two threads set it: only StopClient breaks
\* the order, with no thread left to set another state.
StateOrder ==
  [][ /\ connectionState' = "CONNECTING" /\ connectionState # "CONNECTING"
           => connectionState = "DISCONNECTED"
      /\ connectionState' \in {"CONNECTED", "FAILED"} /\ connectionState' # connectionState
           => connectionState = "CONNECTING"
    ]_vars

\* An attempt to connect comes to an end, whatever happens to its socket.
ConnectingEnds == connectionState = "CONNECTING" ~> (connectionState # "CONNECTING" \/ ~Running)

\* The loss of a connection is noticed: the main loop lets go of its socket.
LossNoticed ==
  \A c \in Connections :
    (STATUS = "CLIENT" /\ socket = c /\ peer[c] = "down") ~> (socket # c \/ ~Running)
=============================================================================
