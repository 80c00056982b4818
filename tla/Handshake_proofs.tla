--------------------------- MODULE Handshake_proofs ---------------------------
(***************************************************************************)
(* Proofs about Handshake, for any clients and any other programs, any backlog *)
(* and any number of runs of the server.                                   *)
(***************************************************************************)
EXTENDS Handshake, TLAPS

\* What can happen on the network.
Data == {"none", "part", "last", "more", "reply"}
MakesNone ==
  \/ Bind \/ CloseListener \/ ServerGone \/ UNCHANGED netVars
  \/ \E k \in Conn : Accept(k) \/ \E what \in Data : Write(k, what)
  \/ \E c \in Client :
       ClientGone(c) \/ \E mark \in Data, t \in Tokens : WriteTokens(c, mark, t)
NetStep == MakesNone \/ \E k \in Conn : Connect(k)

\* An empty backlog is a queue of connections.
LEMMA NoBacklog == << >> \in Seq(Conn)
OBVIOUS

\* It leaves connections, a queue of connections and data.
LEMMA NetTyped ==
  ASSUME NetTypeOK, NetStep
  PROVE  NetTypeOK'
<1> USE DEF NetTypeOK, Data
<1>1. CASE Bind
  BY <1>1 DEF Bind
<1>2. CASE CloseListener
  BY <1>2, NoBacklog DEF CloseListener, Drop
<1>3. CASE ServerGone
  BY <1>3, NoBacklog DEF ServerGone, Drop
<1>4. CASE UNCHANGED netVars
  BY <1>4 DEF netVars
<1>5. ASSUME NEW k \in Conn, Accept(k)
      PROVE  NetTypeOK'
  BY <1>5 DEF Accept
<1>6. ASSUME NEW k \in Conn, Connect(k)
      PROVE  NetTypeOK'
  BY <1>6 DEF Connect
<1>7. ASSUME NEW k \in Conn, NEW what \in Data, Write(k, what)
      PROVE  NetTypeOK'
  BY <1>7 DEF Write
<1>8. ASSUME NEW c \in Client, ClientGone(c)
      PROVE  NetTypeOK'
  BY <1>8 DEF ClientGone, Drop
<1>9. ASSUME NEW c \in Client, NEW mark \in Data, NEW t \in Tokens,
             WriteTokens(c, mark, t)
      PROVE  NetTypeOK'
  BY <1>9 DEF WriteTokens
<1> QED
  BY <1>1, <1>2, <1>3, <1>4, <1>5, <1>6, <1>7, <1>8, <1>9
  DEF NetStep, MakesNone

-----------------------------------------------------------------------------
\* The server has the connection it reads from once it has accepted it, and the
\* one it writes to.
Reading == {"receive", "verify", "wrapKey", "bindSend", "acceptSend", "reply", "writing"}
Writing == {"reply", "writing"}
Accepted ==
  /\ spc \in Reading => in \in Conn
  /\ spc \in Writing => out \in Conn

TypeInv == TypeOK /\ Accepted

\* Each step is one of the server, of a client, or changes nothing.
ServerAction == ServerStep \/ CollectListener \/ KillServer \/ StartServer
ClientAction(c) == ClientStep(c) \/ SendPart(c) \/ SendMore(c) \/ KillClient(c)
LEMMA WhoMoves ==
  ASSUME [Next]_vars
  PROVE  \/ ServerAction /\ UNCHANGED cpc /\ Note
         \/ \E c \in Client : ClientAction(c) /\ UNCHANGED serverVars /\ Note
         \/ UNCHANGED vars
BY DEF Next, Server, OfClient, ServerAction, ServerStep, ClientAction, ClientStep

\* Each action does one thing on the network, and only two make a connection.
LEMMA OneNetStep ==
  ASSUME TypeInv, [Next]_vars
  PROVE  MakesNone \/ \E c \in Client : ConnectSend(c) \/ ConnectGet(c)
<1> USE DEF MakesNone
<1>1. CASE UNCHANGED vars
  BY <1>1 DEF vars
<1>2. CASE \/ PickFile \/ PickFolder \/ EncryptFile \/ ReceiveEnds
           \/ Verify \/ VerifyFails \/ WrapKey \/ BindSendFails
           \/ WriteFails \/ KillServer \/ StartServer
  BY <1>2 DEF PickFile, PickFolder, EncryptFile, ReceiveEnds, Verify, VerifyFails,
              WrapKey, BindSendFails, WriteFails, KillServer, StartServer, Exit
<1>3. CASE BindGet \/ BindSend \/ CollectListener
  BY <1>3 DEF BindGet, BindSend, CollectListener
<1>4. CASE AcceptGet \/ AcceptSend
  BY <1>4 DEF AcceptGet, AcceptSend
<1>5. CASE Receive \/ Reply
  BY <1>5 DEF Receive, Reply, At, Data, TypeInv, Accepted, Reading, Writing
<1>6. ASSUME NEW c \in Client,
             \/ Continue(c) \/ SendOver(c) \/ ConnectSendFails(c) \/ SendFails(c)
             \/ ConnectGetFails(c) \/ ReadReply(c) \/ ReadEnds(c) \/ Choose(c)
             \/ Check(c) \/ KillClient(c)
      PROVE  MakesNone
  BY <1>6 DEF Continue, SendOver, ConnectSendFails, SendFails, ConnectGetFails,
              ReadReply, ReadEnds, Choose, Check, KillClient, End
<1>7. ASSUME NEW c \in Client, SendPart(c) \/ SendMore(c) \/ SendTokens(c)
      PROVE  MakesNone
  <2>1. Send(c) \in Conn /\ TokensOf(c) \subseteq Tokens
    BY DEF Send, Conn, TokensOf, Tokens
  <2> QED
    BY <1>7, <2>1 DEF SendPart, SendMore, SendTokens, Data
<1> QED
  BY <1>1, <1>2, <1>3, <1>4, <1>5, <1>6, <1>7 DEF Next, Server, OfClient

\* So it is a step of the network.
LEMMA NextIsNetStep ==
  ASSUME TypeInv, [Next]_vars
  PROVE  NetStep
<1>1. ASSUME NEW c \in Client, ConnectSend(c) \/ ConnectGet(c)
      PROVE  NetStep
  BY <1>1 DEF ConnectSend, ConnectGet, Send, Get, Conn, NetStep
<1> QED
  BY <1>1, OneNetStep DEF NetStep

\* A client's main stays among its steps and leaves the server's alone.
LEMMA ClientTyped ==
  ASSUME TypeInv, NEW c \in Client, ClientAction(c)
  PROVE  ClientTypeOK'
BY DEF ClientAction, ClientStep, TypeInv, TypeOK, ClientTypeOK, ClientSteps, Continue, SendOver, ConnectSend,
       ConnectSendFails, SendPart, SendMore, SendTokens, SendFails, ConnectGet,
       ConnectGetFails, ReadReply, ReadEnds, Choose, Check, KillClient, Step, End

\* The server's main stays among its steps, with the connections it needs.
LEMMA ServerTyped ==
  ASSUME TypeInv, ServerAction
  PROVE  ServerTypeOK' /\ Accepted'
<1> USE DEF TypeInv, TypeOK, ServerTypeOK, ServerSteps, Accepted, Reading, Writing,
            At, To
<1>1. CASE Exit /\ UNCHANGED runs
  BY <1>1 DEF Exit
<1>2. CASE PickFile \/ PickFolder \/ EncryptFile \/ BindGet
  BY <1>1, <1>2 DEF PickFile, PickFolder, EncryptFile, BindGet
<1>3. CASE AcceptGet \/ AcceptSend
  BY <1>3 DEF AcceptGet, AcceptSend
<1>4. CASE ReceiveEnds \/ Verify \/ VerifyFails \/ WrapKey
  BY <1>1, <1>4 DEF ReceiveEnds, Verify, VerifyFails, WrapKey
<1>5. CASE BindSend \/ BindSendFails \/ Reply \/ WriteFails
  BY <1>1, <1>5 DEF BindSend, BindSendFails, Reply, WriteFails
<1>6. CASE CollectListener \/ KillServer
  BY <1>1, <1>6 DEF CollectListener, KillServer, serverVars
<1>7. CASE StartServer
  BY <1>7, ServerAssumption DEF StartServer
<1>8. CASE Receive
  <2>1. in \in Conn /\ in[1] \in Client
    BY <1>8 DEF Receive, Conn
  <2>2. tokens' \in Tokens \cup {<<>>}
    BY <1>8, <2>1 DEF Receive, NetTypeOK
  <2> QED
    BY <1>8, <2>1, <2>2 DEF Receive
<1> QED
  BY <1>2, <1>3, <1>4, <1>5, <1>6, <1>7, <1>8 DEF ServerAction, ServerStep

\* Every reachable state is well typed, and a server that reads or writes has
\* accepted the connection it does it on.
THEOREM TypeCorrect == Spec => []TypeInv
<1>1. Init => TypeInv
  <2> SUFFICES ASSUME Init
               PROVE  TypeInv
    OBVIOUS
  <2>1. NetTypeOK
    BY NoBacklog DEF Init, NetInit, NetTypeOK
  <2>2. ServerTypeOK
    BY ServerAssumption DEF Init, ServerInit, ServerTypeOK, ServerSteps
  <2>3. ClientTypeOK
    BY DEF Init, ClientInit, ClientTypeOK, ClientSteps
  <2>4. Accepted
    BY DEF Init, ServerInit, Accepted, Reading, Writing
  <2> QED
    BY <2>1, <2>2, <2>3, <2>4 DEF Init, TypeInv, TypeOK
<1>2. TypeInv /\ [Next]_vars => TypeInv'
  <2> SUFFICES ASSUME TypeInv, [Next]_vars
               PROVE  TypeInv'
    OBVIOUS
  <2>1. NetTypeOK'
    BY NextIsNetStep, NetTyped DEF TypeInv, TypeOK
  <2>2. CASE UNCHANGED vars
    BY <2>2 DEF vars, netVars, serverVars, TypeInv, TypeOK, NetTypeOK, ServerTypeOK,
                ClientTypeOK, Accepted
  <2>3. CASE UNCHANGED cpc /\ Note /\ ServerTypeOK' /\ Accepted'
    BY <2>1, <2>3 DEF TypeInv, TypeOK, ClientTypeOK, Note
  <2>4. CASE UNCHANGED serverVars /\ Note /\ ClientTypeOK'
    BY <2>1, <2>4 DEF TypeInv, TypeOK, ServerTypeOK, Accepted, serverVars, Note
  <2> QED
    BY <2>2, <2>3, <2>4, ServerTyped, ClientTyped, WhoMoves
<1> QED
  BY <1>1, <1>2, PTL DEF Spec

\* The type invariant that the run with two clients checks.
COROLLARY WellTyped == Spec => []TypeOK
<1>1. TypeInv => TypeOK
  BY DEF TypeInv
<1> QED
  BY <1>1, TypeCorrect, PTL

-----------------------------------------------------------------------------
(***************************************************************************)
(* EarlyNeverServed.  The backlog the server accepts its reply channel     *)
(* from was empty when the port was bound for it (QueueNeedsPort), and     *)
(* what was queued since was connected for the first time then (NotYetMade)*)
(* and so is not early.                                                    *)
(***************************************************************************)
Queued(k) == \E i \in 1..Len(backlog) : backlog[i] = k
BeforeSend == {"start", "ask", "connectSend"}
BeforeGet == BeforeSend \cup {"sending", "connectGet"}

QueueNeedsPort == ~listening => backlog = <<>>
QueuedWasMade == \A k \in Conn : Queued(k) => conn[k] # "none"
NotYetMade ==
  \A c \in Client :
    /\ cpc[c] \in BeforeSend => conn[Send(c)] = "none"
    /\ cpc[c] \in BeforeGet => conn[Get(c)] = "none"
EarlyWasMade == \A k \in early : conn[k] # "none"
QueueIsFresh == spc = "acceptSend" => \A k \in Conn : Queued(k) => k \notin early
ServedWasMade == out # NoConn => conn[out] # "none" /\ out \notin early

PortInv == QueueNeedsPort /\ QueuedWasMade /\ NotYetMade
EarlyInv == PortInv /\ EarlyWasMade /\ QueueIsFresh /\ ServedWasMade

\* Send and get are two connections, and no two clients share one.
LEMMA OwnConnections ==
  ASSUME NEW c \in Client, NEW d \in Client
  PROVE  /\ Send(c) \in Conn /\ Get(c) \in Conn /\ Send(c) # Get(d)
         /\ Send(c) = Send(d) => c = d
         /\ Get(c) = Get(d) => c = d
         /\ Send(c)[1] = c /\ Send(c)[2] = "send" /\ Get(c)[1] = c /\ Get(c)[2] = "get"
BY DEF Send, Get, Conn

\* Nothing but a connect makes, unmakes or queues a connection, and a port that
\* is given up has no queue.
LEMMA OthersMakeNone ==
  ASSUME NetTypeOK, MakesNone
  PROVE  /\ \A k \in Conn : conn'[k] = "none" <=> conn[k] = "none"
         /\ \A k \in Conn : Queued(k)' => Queued(k)
         /\ QueueNeedsPort => QueueNeedsPort'
<1> USE DEF NetTypeOK, Queued, QueueNeedsPort
<1>1. CASE Bind
  BY <1>1 DEF Bind
<1>2. CASE CloseListener
  BY <1>2 DEF CloseListener, Drop
<1>3. CASE ServerGone
  BY <1>3 DEF ServerGone, Drop
<1>4. CASE UNCHANGED netVars
  BY <1>4 DEF netVars
<1>5. ASSUME NEW k \in Conn, Accept(k)
      PROVE  /\ UNCHANGED conn
             /\ \A l \in Conn : Queued(l)' => Queued(l)
             /\ QueueNeedsPort => QueueNeedsPort'
  BY <1>5 DEF Accept
<1>6. ASSUME \/ \E k \in Conn, what \in Data : Write(k, what)
             \/ \E c \in Client, mark \in Data, t \in Tokens : WriteTokens(c, mark, t)
      PROVE  UNCHANGED <<conn, backlog, listening>>
  BY <1>6 DEF Write, WriteTokens
<1>7. ASSUME NEW c \in Client, ClientGone(c)
      PROVE  /\ \A l \in Conn : conn'[l] = "none" <=> conn[l] = "none"
             /\ UNCHANGED <<backlog, listening>>
  BY <1>7 DEF ClientGone, Drop
<1> QED
  BY <1>1, <1>2, <1>3, <1>4, <1>5, <1>6, <1>7 DEF MakesNone

\* A connect makes and queues its own connection.
LEMMA ConnectMakesOne ==
  ASSUME NetTypeOK, NEW k \in Conn, Connect(k)
  PROVE  /\ conn'[k] # "none" /\ listening'
         /\ \A l \in Conn : l # k => conn'[l] = conn[l]
         /\ \A l \in Conn : Queued(l)' => Queued(l) \/ l = k
BY DEF NetTypeOK, Connect, Reachable, Queued

\* Clients go forward.
HasSent == {"connectGet", "reading", "choose", "check", "decrypting", "rejected", "ended"}
LEMMA ClientsGoForward ==
  ASSUME TypeInv, [Next]_vars, NEW c \in Client
  PROVE  /\ cpc'[c] \in BeforeSend => cpc[c] \in BeforeSend
         /\ cpc'[c] \in BeforeGet => cpc[c] \in BeforeGet
         /\ cpc[c] \in HasSent => cpc'[c] \in HasSent
<1> USE DEF TypeInv, TypeOK, ClientTypeOK, ClientSteps, BeforeSend, BeforeGet, HasSent
<1>1. CASE UNCHANGED cpc
  BY <1>1
<1>2. ASSUME NEW d \in Client,
             \/ Continue(d) \/ SendOver(d) \/ ConnectSend(d) \/ ConnectSendFails(d)
             \/ SendTokens(d) \/ SendFails(d) \/ ConnectGet(d) \/ ConnectGetFails(d)
      PROVE  /\ cpc'[c] \in BeforeSend => cpc[c] \in BeforeSend
             /\ cpc'[c] \in BeforeGet => cpc[c] \in BeforeGet
             /\ cpc[c] \in HasSent => cpc'[c] \in HasSent
  BY <1>2 DEF Continue, SendOver, ConnectSend, ConnectSendFails, SendTokens, SendFails,
              ConnectGet, ConnectGetFails, Step, End
<1>3. ASSUME NEW d \in Client,
             \/ ReadReply(d) \/ ReadEnds(d) \/ Choose(d) \/ Check(d) \/ KillClient(d)
      PROVE  /\ cpc'[c] \in BeforeSend => cpc[c] \in BeforeSend
             /\ cpc'[c] \in BeforeGet => cpc[c] \in BeforeGet
             /\ cpc[c] \in HasSent => cpc'[c] \in HasSent
  BY <1>3 DEF ReadReply, ReadEnds, Choose, Check, KillClient, Step, End
<1>4. ASSUME NEW d \in Client, SendPart(d) \/ SendMore(d)
      PROVE  UNCHANGED cpc
  BY <1>4 DEF SendPart, SendMore
<1> QED
  BY <1>1, <1>2, <1>3, <1>4 DEF Next, Server, OfClient, vars

\* A client connects for the first time.
LEMMA ConnectIsFirst ==
  ASSUME TypeInv, NotYetMade, NEW c \in Client
  PROVE  /\ ConnectSend(c) => conn[Send(c)] = "none"
         /\ ConnectGet(c) => conn[Get(c)] = "none"
BY DEF NotYetMade, ConnectSend, ConnectGet, Step, BeforeSend, BeforeGet

\* What is queued was made, through a port that is there.
LEMMA PortStep ==
  ASSUME TypeInv, TypeInv', PortInv, [Next]_vars
  PROVE  PortInv'
<1> USE DEF PortInv, TypeInv, TypeOK
<1>1. CASE MakesNone
  <2>1. QueueNeedsPort' /\ QueuedWasMade'
    BY <1>1, OthersMakeNone DEF QueuedWasMade
  <2>2. NotYetMade'
    BY <1>1, OthersMakeNone, ClientsGoForward, OwnConnections DEF NotYetMade
  <2> QED
    BY <2>1, <2>2
<1>2. ASSUME NEW c \in Client, ConnectSend(c)
      PROVE  PortInv'
  <2>1. Connect(Send(c)) /\ Send(c) \in Conn
    BY <1>2, OwnConnections DEF ConnectSend
  <2>2. QueueNeedsPort' /\ QueuedWasMade'
    BY <2>1, ConnectMakesOne DEF QueueNeedsPort, QueuedWasMade
  <2>3. cpc'[c] = "sending"
    BY <1>2 DEF ConnectSend, Step, ClientTypeOK
  <2>4. NotYetMade'
    BY <2>1, <2>3, ConnectMakesOne, ClientsGoForward, OwnConnections
    DEF NotYetMade, BeforeSend
  <2> QED
    BY <2>2, <2>4
<1>3. ASSUME NEW c \in Client, ConnectGet(c)
      PROVE  PortInv'
  <2>1. Connect(Get(c)) /\ Get(c) \in Conn
    BY <1>3, OwnConnections DEF ConnectGet
  <2>2. QueueNeedsPort' /\ QueuedWasMade'
    BY <2>1, ConnectMakesOne DEF QueueNeedsPort, QueuedWasMade
  <2>3. cpc'[c] = "reading"
    BY <1>3 DEF ConnectGet, Step, ClientTypeOK
  <2>4. NotYetMade'
    BY <2>1, <2>3, ConnectMakesOne, ClientsGoForward, OwnConnections
    DEF NotYetMade, BeforeSend, BeforeGet
  <2> QED
    BY <2>2, <2>4
<1> QED
  BY <1>1, <1>2, <1>3, OneNetStep

\* The server waits for its reply channel after it has bound the port anew, and
\* gets it from the backlog.
LEMMA ReplyChannel ==
  ASSUME [Next]_vars
  PROVE  /\ spc' = "acceptSend" => spc = "acceptSend" \/ BindSend
         /\ out' = out \/ out' = NoConn \/ AcceptSend
<1> USE DEF At, To
<1>1. CASE Exit
  BY <1>1 DEF Exit
<1>2. CASE \/ PickFile \/ PickFolder \/ EncryptFile \/ BindGet \/ AcceptGet
           \/ Receive \/ ReceiveEnds \/ Verify \/ VerifyFails \/ WrapKey
  BY <1>1, <1>2 DEF PickFile, PickFolder, EncryptFile, BindGet, AcceptGet, Receive,
                    ReceiveEnds, Verify, VerifyFails, WrapKey
<1>3. CASE \/ BindSend \/ BindSendFails \/ AcceptSend \/ Reply \/ WriteFails
           \/ CollectListener \/ KillServer \/ StartServer
  BY <1>1, <1>3 DEF BindSend, BindSendFails, AcceptSend, Reply, WriteFails,
                    CollectListener, KillServer, StartServer, serverVars
<1>4. CASE UNCHANGED serverVars
  BY <1>4 DEF serverVars
<1> QED
  BY <1>2, <1>3, <1>4 DEF Next, Server, OfClient, vars

\* A connection that is made early was not made before, nor when the server
\* waits for its reply channel.
LEMMA EarlyStep ==
  ASSUME TypeInv, TypeInv', EarlyInv, [Next]_vars
  PROVE  EarlyInv'
<1>1. PortInv'
  BY PortStep DEF EarlyInv
<1>2. ASSUME NEW k \in Conn
      PROVE  conn[k] # "none" => conn'[k] # "none"
  <2>1. CASE MakesNone
    BY <2>1, OthersMakeNone DEF TypeInv, TypeOK
  <2>2. ASSUME NEW l \in Conn, Connect(l)
        PROVE  conn[k] # "none" => conn'[k] # "none"
    BY <2>2, ConnectMakesOne DEF TypeInv, TypeOK
  <2> QED
    BY <2>1, <2>2, NextIsNetStep DEF NetStep
<1>3. /\ early' \subseteq early \cup {k \in Conn : conn[k] = "none" /\ conn'[k] # "none"}
      /\ spc \in Sending => early' = early
  BY DEF Next, Server, OfClient, Note, vars
<1>4. EarlyWasMade'
  BY <1>2, <1>3 DEF EarlyInv, EarlyWasMade, TypeInv, TypeOK
<1>5. QueueIsFresh'
  <2> SUFFICES ASSUME spc' = "acceptSend", NEW k \in Conn, Queued(k)'
               PROVE  k \notin early'
    BY DEF QueueIsFresh
  <2>1. CASE BindSend
    <3>1. backlog' = << >>
      BY <2>1 DEF BindSend, Bind, EarlyInv, PortInv, QueueNeedsPort
    <3> QED
      BY <3>1 DEF Queued
  <2>2. CASE spc = "acceptSend"
    <3>1. early' = early
      BY <1>3, <2>2 DEF Sending
    <3>2. Queued(k) \/ conn[k] = "none"
      <4>1. CASE MakesNone
        BY <4>1, OthersMakeNone DEF TypeInv, TypeOK
      <4>2. ASSUME NEW c \in Client, ConnectSend(c) \/ ConnectGet(c)
            PROVE  Queued(k) \/ conn[k] = "none"
        BY <4>2, ConnectIsFirst, ConnectMakesOne, OwnConnections
        DEF ConnectSend, ConnectGet, TypeInv, TypeOK, EarlyInv, PortInv
      <4> QED
        BY <4>1, <4>2, OneNetStep
    <3> QED
      BY <2>2, <3>1, <3>2 DEF EarlyInv, QueueIsFresh, EarlyWasMade
  <2> QED
    BY <2>1, <2>2, ReplyChannel
<1>6. ServedWasMade'
  <2> SUFFICES ASSUME out' # NoConn
               PROVE  conn'[out'] # "none" /\ out' \notin early'
    BY DEF ServedWasMade
  <2>1. CASE out' = out
    BY <1>2, <1>3, <2>1 DEF EarlyInv, ServedWasMade, TypeInv, TypeOK, ServerTypeOK
  <2>2. CASE AcceptSend
    <3>1. out' \in Conn /\ Queued(out') /\ spc = "acceptSend"
      BY <2>2 DEF AcceptSend, Accept, At, Queued, TypeInv, TypeOK, NetTypeOK
    <3>2. conn[out'] # "none" /\ out' \notin early
      BY <3>1 DEF EarlyInv, PortInv, QueuedWasMade, QueueIsFresh
    <3> QED
      BY <1>2, <1>3, <3>1, <3>2 DEF Sending
  <2> QED
    BY <2>1, <2>2, ReplyChannel
<1> QED
  BY <1>1, <1>4, <1>5, <1>6 DEF EarlyInv

\* The inductive invariant of EarlyNeverServed.
THEOREM EarlyInvariant == Spec => []EarlyInv
<1>1. Init => EarlyInv
  BY OwnConnections
  DEF Init, NetInit, ServerInit, EarlyInv, PortInv, QueueNeedsPort, QueuedWasMade,
      NotYetMade, EarlyWasMade, QueueIsFresh, ServedWasMade, Queued
<1> QED
  BY <1>1, EarlyStep, TypeCorrect, PTL DEF Spec

\* A client that connects for the reply before the server has bound its port for
\* it is never served.
THEOREM EarlyIsNeverServed == Spec => []EarlyNeverServed
<1>1. TypeInv /\ EarlyInv => EarlyNeverServed
  BY TransportAssumption
  DEF TypeInv, TypeOK, EarlyInv, ServedWasMade, EarlyNeverServed, Conn
<1> QED
  BY <1>1, EarlyInvariant, TypeCorrect, PTL

-----------------------------------------------------------------------------
(***************************************************************************)
(* VerifiedBeforeReply.  The last batch of tokens is on a connection whose *)
(* client will write no more (LastIsLast), so what the server has read to  *)
(* its end stays read to its end, and its sender's last batch, until it    *)
(* replies (TokensRead).                                                   *)
(***************************************************************************)
AfterRead == {"verify", "wrapKey", "bindSend", "acceptSend", "reply", "writing"}
AfterVerify == AfterRead \ {"verify"}

GetHoldsReply == \A c \in Client : data[Get(c)] \in {"none", "reply"}
LastIsLast == \A c \in Client : data[Send(c)] = "last" => cpc[c] \in HasSent
TokensRead ==
  spc \in AfterRead =>
    \E c \in Client :
      /\ in = Send(c) /\ cpc[c] \in HasSent /\ data[in] \notin {"part", "more"}
      /\ tokens = batch[c]
SignedByTheKey == spc \in AfterVerify => tokens[1] = tokens[2]

VerifiedInv == GetHoldsReply /\ LastIsLast /\ TokensRead /\ SignedByTheKey

\* A connection is the send or the get of a client.
LEMMA SendOrGet ==
  ASSUME NEW k \in Conn
  PROVE  \E c \in Client : k = Send(c) \/ k = Get(c)
BY DEF Conn, Send, Get

\* A client writes while it is sending, and tokens of its own, the server when it
\* replies.
ClientWrites(c) ==
  /\ cpc[c] = "sending"
  /\ \E what \in {"part", "more", "last"} :
       /\ data' = [data EXCEPT ![Send(c)] = what]
       /\ what = "last" => cpc'[c] \in HasSent
  /\ \A d \in Client \ {c} : batch'[d] = batch[d]
LEMMA WhoWrites ==
  ASSUME TypeInv, [Next]_vars
  PROVE  \/ UNCHANGED <<data, batch>>
         \/ Receive /\ UNCHANGED <<cpc, batch>>
         \/ Reply /\ UNCHANGED <<cpc, batch>>
         \/ \E c \in Client : ClientWrites(c) /\ UNCHANGED serverVars
<1>1. CASE UNCHANGED vars
  BY <1>1 DEF vars, netVars
<1>2. CASE \/ PickFile \/ PickFolder \/ EncryptFile \/ ReceiveEnds
           \/ Verify \/ VerifyFails \/ WrapKey \/ BindSendFails
           \/ WriteFails \/ KillServer \/ StartServer
  BY <1>2 DEF PickFile, PickFolder, EncryptFile, ReceiveEnds, Verify, VerifyFails,
              WrapKey, BindSendFails, WriteFails, KillServer, StartServer, Exit,
              ServerGone, netVars
<1>3. CASE BindGet \/ BindSend \/ CollectListener \/ AcceptGet \/ AcceptSend
  BY <1>3 DEF BindGet, BindSend, CollectListener, AcceptGet, AcceptSend, Bind, Accept,
              CloseListener
<1>4. ASSUME NEW c \in Client,
             \/ Continue(c) \/ SendOver(c) \/ ConnectSendFails(c) \/ SendFails(c)
             \/ ConnectGetFails(c) \/ ReadReply(c) \/ ReadEnds(c) \/ Choose(c)
             \/ Check(c) \/ KillClient(c) \/ ConnectSend(c) \/ ConnectGet(c)
      PROVE  UNCHANGED <<data, batch>>
  BY <1>4 DEF Continue, SendOver, ConnectSendFails, SendFails, ConnectGetFails,
              ReadReply, ReadEnds, Choose, Check, KillClient, ConnectSend, ConnectGet,
              End, ClientGone, Connect, netVars
<1>5. ASSUME NEW c \in Client, SendPart(c) \/ SendMore(c) \/ SendTokens(c)
      PROVE  ClientWrites(c)
  BY <1>5 DEF SendPart, SendMore, SendTokens, Write, WriteTokens, Send, Step,
              ClientWrites, HasSent, TypeInv, TypeOK, ClientTypeOK, NetTypeOK
<1>6. CASE (Receive \/ Reply) /\ UNCHANGED cpc
  BY <1>6 DEF Receive, Reply, Write
<1> QED
  BY <1>1, <1>2, <1>3, <1>4, <1>5, <1>6 DEF Next, Server, OfClient

\* The server goes on to what follows the reading when it has read the last
\* batch, and past the verification when the key and the signature fit.
LEMMA ServerGoesForward ==
  ASSUME [Next]_vars
  PROVE  /\ spc' \in AfterRead =>
              \/ spc \in AfterRead /\ in' = in /\ tokens' = tokens
              \/ Receive /\ data[in] = "last"
         /\ spc' \in AfterVerify =>
              \/ spc \in AfterVerify /\ tokens' = tokens
              \/ Verify
<1> USE DEF At, To, AfterRead, AfterVerify
<1>1. CASE Exit
  BY <1>1 DEF Exit
<1>2. CASE PickFile \/ PickFolder \/ EncryptFile \/ BindGet \/ AcceptGet
  BY <1>1, <1>2 DEF PickFile, PickFolder, EncryptFile, BindGet, AcceptGet
<1>3. CASE Receive
  BY <1>3 DEF Receive
<1>4. CASE ReceiveEnds \/ Verify \/ VerifyFails \/ WrapKey
  BY <1>1, <1>4 DEF ReceiveEnds, Verify, VerifyFails, WrapKey
<1>5. CASE \/ BindSend \/ BindSendFails \/ AcceptSend \/ Reply \/ WriteFails
           \/ CollectListener \/ KillServer \/ StartServer
  BY <1>1, <1>5 DEF BindSend, BindSendFails, AcceptSend, Reply, WriteFails,
                    CollectListener, KillServer, StartServer, serverVars
<1>6. CASE UNCHANGED serverVars
  BY <1>6 DEF serverVars
<1> QED
  BY <1>2, <1>3, <1>4, <1>5, <1>6 DEF Next, Server, OfClient, vars

\* No step puts tokens on a connection that was read to its end.
LEMMA VerifiedStep ==
  ASSUME TypeInv, TypeInv', VerifiedInv, [Next]_vars
  PROVE  VerifiedInv'
<1> USE DEF TypeInv, TypeOK, NetTypeOK, Accepted, Reading, Writing
<1>1. GetHoldsReply' /\ LastIsLast'
  <2>1. CASE UNCHANGED <<data, batch>>
    BY <2>1, ClientsGoForward DEF VerifiedInv, GetHoldsReply, LastIsLast
  <2>2. CASE Receive \/ Reply
    <3>1. PICK k \in Conn, what \in {"none", "reply"} : data' = [data EXCEPT ![k] = what]
      BY <2>2 DEF Receive, Reply, Write, At
    <3> QED
      BY <3>1, ClientsGoForward, OwnConnections DEF VerifiedInv, GetHoldsReply, LastIsLast
  <2>3. ASSUME NEW c \in Client, ClientWrites(c)
        PROVE  GetHoldsReply' /\ LastIsLast'
    BY <2>3, ClientsGoForward, OwnConnections
    DEF VerifiedInv, GetHoldsReply, LastIsLast, ClientWrites
  <2> QED
    BY <2>1, <2>2, <2>3, WhoWrites
<1>2. TokensRead'
  <2> SUFFICES ASSUME spc' \in AfterRead
               PROVE  TokensRead'
    BY DEF TokensRead
  <2>1. CASE Receive /\ data[in] = "last"
    <3>1. /\ in \in Conn /\ in' = in /\ data' = [data EXCEPT ![in] = "none"]
          /\ tokens' = batch[in[1]] /\ batch' = batch
      BY <2>1 DEF Receive, At, Write
    <3>2. PICK c \in Client : in = Send(c) /\ cpc[c] \in HasSent
      BY <2>1, <3>1, SendOrGet DEF VerifiedInv, GetHoldsReply, LastIsLast
    <3>3. cpc'[c] \in HasSent
      BY <3>2, ClientsGoForward
    <3> QED
      BY <3>1, <3>2, <3>3, OwnConnections DEF TokensRead
  <2>2. CASE spc \in AfterRead /\ in' = in /\ tokens' = tokens
    <3>1. PICK c \in Client :
            /\ in = Send(c) /\ cpc[c] \in HasSent /\ data[in] \notin {"part", "more"}
            /\ tokens = batch[c]
      BY <2>2 DEF VerifiedInv, TokensRead
    <3>2. cpc'[c] \in HasSent /\ in \in Conn
      BY <3>1, ClientsGoForward, OwnConnections
    <3>3. data'[in] \notin {"part", "more"} /\ batch'[c] = batch[c]
      <4>1. CASE UNCHANGED <<data, batch>>
        BY <3>1, <4>1
      <4>2. CASE Receive \/ Reply
        BY <3>1, <3>2, <4>2 DEF Receive, Reply, Write
      <4>3. ASSUME NEW d \in Client, ClientWrites(d)
            PROVE  data'[in] \notin {"part", "more"} /\ batch'[c] = batch[c]
        <5>1. d # c
          BY <3>1, <4>3 DEF ClientWrites, HasSent
        <5> QED
          BY <3>1, <3>2, <4>3, <5>1, OwnConnections DEF ClientWrites
      <4> QED
        BY <4>1, <4>2, <4>3, WhoWrites
    <3> QED
      BY <2>2, <3>1, <3>2, <3>3 DEF TokensRead
  <2> QED
    BY <2>1, <2>2, ServerGoesForward
<1>3. SignedByTheKey'
  <2>1. CASE Verify
    BY <2>1 DEF Verify, Verifies, SignedByTheKey
  <2>2. CASE spc \in AfterVerify /\ tokens' = tokens
    BY <2>2 DEF VerifiedInv, SignedByTheKey
  <2> QED
    BY <2>1, <2>2, ServerGoesForward DEF SignedByTheKey
<1> QED
  BY <1>1, <1>2, <1>3 DEF VerifiedInv

\* The inductive invariant of VerifiedBeforeReply.
THEOREM VerifiedInvariant == Spec => []VerifiedInv
<1>1. Init => VerifiedInv
  BY OwnConnections
  DEF Init, NetInit, ServerInit, VerifiedInv, GetHoldsReply, LastIsLast, TokensRead,
      SignedByTheKey, AfterRead, AfterVerify
<1> QED
  BY <1>1, VerifiedStep, TypeCorrect, PTL DEF Spec

\* The secret key of a reply is wrapped under the public key of the last tokens
\* their sender wrote, all of them read, signed with the private key to it;
\* whoever the sender is.
THEOREM ReplyIsVerified == Spec => VerifiedBeforeReply
<1>1. TypeInv /\ VerifiedInv /\ [Next]_vars =>
        [\A k \in Conn : data'[k] = "reply" /\ data[k] # "reply" =>
           /\ in # NoConn /\ in[2] = "send" /\ data[in] \notin {"part", "more"}
           /\ tokens = batch[in[1]] /\ tokens[1] = tokens[2]]_vars
  <2> SUFFICES ASSUME TypeInv, VerifiedInv, [Next]_vars,
                      NEW k \in Conn, data'[k] = "reply", data[k] # "reply"
               PROVE  /\ in # NoConn /\ in[2] = "send"
                      /\ data[in] \notin {"part", "more"}
                      /\ tokens = batch[in[1]] /\ tokens[1] = tokens[2]
    OBVIOUS
  <2>1. Reply
    <3>1. CASE Receive
      BY <3>1 DEF Receive, Write, TypeInv, TypeOK, NetTypeOK
    <3>2. ASSUME NEW c \in Client, ClientWrites(c)
          PROVE  FALSE
      BY <3>2 DEF ClientWrites, TypeInv, TypeOK, NetTypeOK
    <3> QED
      BY <3>1, <3>2, WhoWrites
  <2>2. spc = "reply"
    BY <2>1 DEF Reply, At
  <2>3. PICK c \in Client :
          in = Send(c) /\ data[in] \notin {"part", "more"} /\ tokens = batch[c]
    BY <2>2 DEF VerifiedInv, TokensRead, AfterRead
  <2>4. tokens[1] = tokens[2]
    BY <2>2 DEF VerifiedInv, SignedByTheKey, AfterRead, AfterVerify
  <2>5. in # NoConn
    BY <2>3, OwnConnections, TransportAssumption DEF Conn
  <2> QED
    BY <2>3, <2>4, <2>5, OwnConnections
<1> QED
  BY <1>1, VerifiedInvariant, TypeCorrect, PTL DEF Spec, VerifiedBeforeReply

-----------------------------------------------------------------------------
(***************************************************************************)
(* ChannelsMatch for a client that has the server to itself, for one run.  *)
(* The client's first connection is the oldest of the backlog the server   *)
(* reads from (SendIsFirst), and once it is accepted only the second one   *)
(* can be queued (SendIsTaken).  With two clients, or a client that        *)
(* outlives a run, it does not hold: HandshakeRestart.                     *)
(***************************************************************************)
Alone(c) == Client = {c} /\ MaxRuns = 1

BeforeBind == {"pickFile", "pickFolder", "encrypt", "bindGet"}
Unheard == in = NoConn /\ out = NoConn

NothingYet ==
  spc \in BeforeBind =>
    ~listening /\ backlog = <<>> /\ Unheard /\ \A k \in Conn : conn[k] = "none"
SendIsFirst(c) ==
  spc = "acceptGet" =>
    /\ Unheard
    /\ conn[Send(c)] = "none" => backlog = <<>>
    /\ conn[Send(c)] # "none" => backlog # <<>> /\ backlog[1] = Send(c)
    /\ \A i \in 2..Len(backlog) : backlog[i] # Send(c)
SendIsTaken(c) ==
  spc \in Reading =>
    /\ in = Send(c) /\ out \in {NoConn, Get(c)}
    /\ conn[Send(c)] # "none" /\ ~Queued(Send(c))
SendBeforeGet(c) == cpc[c] \in {"sending", "connectGet"} => conn[Send(c)] # "none"
NothingMore == spc = "exited" => Unheard

AloneInv(c) ==
  NothingYet /\ SendIsFirst(c) /\ SendIsTaken(c) /\ SendBeforeGet(c) /\ NothingMore

\* What the server does keeps the order of the two connections.
LEMMA AloneServerStep ==
  ASSUME NEW c, Alone(c), TypeInv, PortInv, AloneInv(c), [Next]_vars,
         ServerAction, UNCHANGED cpc
  PROVE  AloneInv(c)'
<1> USE DEF Alone, TypeInv, TypeOK, NetTypeOK, ServerTypeOK, ServerSteps, AloneInv,
            NothingYet, SendIsFirst, SendIsTaken, SendBeforeGet, NothingMore, Unheard,
            BeforeBind, Reading, At, To
<1>1. c \in Client /\ Send(c) \in Conn /\ Get(c) \in Conn
  BY OwnConnections
<1>2. CASE Exit
  BY <1>1, <1>2 DEF Exit, ServerGone, Drop
<1>3. CASE PickFile \/ PickFolder \/ EncryptFile
  BY <1>1, <1>2, <1>3 DEF PickFile, PickFolder, EncryptFile, netVars
<1>4. CASE BindGet
  BY <1>1, <1>4 DEF BindGet, Bind
<1>5. CASE AcceptGet
  <2>1. conn[Send(c)] # "none" /\ backlog # << >> /\ backlog[1] = Send(c)
    BY <1>1, <1>5 DEF AcceptGet, Accept
  <2>2. in' = Send(c) /\ UNCHANGED <<out, conn>>
    BY <1>5, <2>1 DEF AcceptGet, Accept
  <2>3. ~Queued(Send(c))'
    <3>1. backlog' = Tail(backlog)
      BY <1>5 DEF AcceptGet, Accept
    <3>2. \A i \in 1..Len(backlog') : backlog'[i] = backlog[i + 1] /\ i + 1 \in 2..Len(backlog)
      BY <2>1, <3>1
    <3> QED
      BY <1>5, <3>2 DEF Queued, AcceptGet
  <2> QED
    BY <1>5, <2>1, <2>2, <2>3 DEF AcceptGet
<1>6. CASE Receive \/ ReceiveEnds \/ Verify \/ VerifyFails \/ WrapKey
  BY <1>1, <1>2, <1>6
  DEF Receive, ReceiveEnds, Verify, VerifyFails, WrapKey, Write, Queued, netVars
<1>7. CASE BindSend \/ BindSendFails \/ Reply \/ WriteFails
  BY <1>1, <1>2, <1>7
  DEF BindSend, BindSendFails, Reply, WriteFails, Bind, Write, Queued
<1>8. CASE AcceptSend
  <2>1. PICK k \in Conn : Accept(k) /\ out' = k
    BY <1>8 DEF AcceptSend
  <2>2. Queued(k)
    BY <2>1 DEF Accept, Queued
  <2>3. k = Get(c)
    BY <1>8, <2>2, SendOrGet DEF AcceptSend
  <2> QED
    BY <1>1, <1>8, <2>1, <2>3 DEF AcceptSend, Accept, Queued
<1>9. CASE CollectListener \/ KillServer
  BY <1>1, <1>2, <1>9, OthersMakeNone
  DEF CollectListener, KillServer, MakesNone, serverVars, CloseListener, Drop, Queued
<1>10. CASE StartServer
  BY <1>10 DEF StartServer
<1> QED
  BY <1>3, <1>4, <1>5, <1>6, <1>7, <1>8, <1>9, <1>10 DEF ServerAction, ServerStep

\* So does what the client does.
LEMMA AloneClientStep ==
  ASSUME NEW c, Alone(c), TypeInv, PortInv, AloneInv(c), [Next]_vars,
         ClientAction(c), UNCHANGED serverVars
  PROVE  AloneInv(c)'
<1> USE DEF Alone, TypeInv, TypeOK, NetTypeOK, ServerTypeOK, ServerSteps, AloneInv,
            Unheard, serverVars
<1>1. c \in Client /\ Send(c) \in Conn /\ Get(c) \in Conn /\ Send(c) # Get(c)
  BY OwnConnections
<1>2. CASE ConnectSend(c)
  <2>1. Connect(Send(c)) /\ conn[Send(c)] = "none"
    BY <1>1, <1>2, ConnectIsFirst DEF ConnectSend, PortInv
  <2>2. backlog' = Append(backlog, Send(c)) /\ conn'[Send(c)] = "up" /\ listening
    BY <1>1, <2>1 DEF Connect, Reachable
  <2>3. NothingYet' /\ SendBeforeGet(c)' /\ NothingMore'
    BY <2>2 DEF NothingYet, SendBeforeGet, NothingMore
  <2>4. SendIsFirst(c)'
    BY <2>1, <2>2 DEF SendIsFirst
  <2>5. SendIsTaken(c)'
    BY <2>1 DEF SendIsTaken
  <2> QED
    BY <2>3, <2>4, <2>5
<1>3. CASE ConnectGet(c)
  <2>1. Connect(Get(c)) /\ cpc[c] = "connectGet"
    BY <1>3 DEF ConnectGet, Step
  <2>2. /\ backlog' = Append(backlog, Get(c)) /\ listening
        /\ conn'[Send(c)] = conn[Send(c)] /\ conn[Send(c)] # "none"
    BY <1>1, <2>1 DEF Connect, Reachable, SendBeforeGet
  <2>3. NothingYet' /\ SendBeforeGet(c)' /\ NothingMore'
    BY <2>2 DEF NothingYet, SendBeforeGet, NothingMore
  <2>4. SendIsFirst(c)'
    BY <1>1, <2>2 DEF SendIsFirst
  <2>5. SendIsTaken(c)'
    BY <1>1, <2>1, <2>2, ConnectMakesOne DEF SendIsTaken
  <2> QED
    BY <2>3, <2>4, <2>5
<1>4. CASE ~ConnectSend(c) /\ ~ConnectGet(c)
  <2>1. UNCHANGED <<backlog, listening>>
    BY <1>4
    DEF ClientAction, ClientStep, Continue, SendOver, ConnectSendFails, SendPart,
        SendMore, SendTokens, SendFails, ConnectGetFails, ReadReply, ReadEnds, Choose,
        Check, KillClient, End, ClientGone, Write, WriteTokens, netVars
  <2>2. cpc'[c] \in {"sending", "connectGet"} => cpc[c] \in {"sending", "connectGet"}
    BY <1>1, <1>4
    DEF ClientAction, ClientStep, Continue, SendOver, ConnectSendFails, SendPart,
        SendMore, SendTokens, SendFails, ConnectGetFails, ReadReply, ReadEnds, Choose,
        Check, KillClient, End, Step, ClientTypeOK
  <2>3. \A k \in Conn : conn'[k] = "none" <=> conn[k] = "none"
    BY <1>1, <1>4, OneNetStep, OthersMakeNone
  <2> QED
    BY <1>1, <2>1, <2>2, <2>3
    DEF NothingYet, SendIsFirst, SendIsTaken, SendBeforeGet, NothingMore, Queued
<1> QED
  BY <1>2, <1>3, <1>4

\* A server that is alone with a client for one run reads the tokens where the
\* client writes them, and replies where it waits: any backlog, ciphers that take
\* the IV or refuse it, a client that is ClientMain or not, and programs that stop at any
\* time.
THEOREM OneClientChannelsMatch ==
  ASSUME NEW c, Alone(c)
  PROVE  Spec => []ChannelsMatch
<1>1. Init => AloneInv(c)
  <2>1. c \in Client /\ Send(c) \in Conn
    BY OwnConnections DEF Alone
  <2> QED
    BY <2>1
    DEF Init, NetInit, ServerInit, ClientInit, AloneInv, NothingYet, SendIsFirst,
        SendIsTaken, SendBeforeGet, NothingMore, Unheard, BeforeBind, Reading
<1>2. TypeInv /\ PortInv /\ AloneInv(c) /\ [Next]_vars => AloneInv(c)'
  <2> SUFFICES ASSUME TypeInv, PortInv, AloneInv(c), [Next]_vars
               PROVE  AloneInv(c)'
    OBVIOUS
  <2>1. CASE UNCHANGED vars
    BY <2>1
    DEF vars, netVars, serverVars, AloneInv, NothingYet, SendIsFirst, SendIsTaken,
        SendBeforeGet, NothingMore, Unheard, Queued
  <2> QED
    BY <2>1, WhoMoves, AloneServerStep, AloneClientStep DEF Alone
<1>3. TypeInv /\ AloneInv(c) => ChannelsMatch
  <2>1. c \in Client
    BY DEF Alone
  <2> QED
    BY <2>1, OwnConnections
    DEF TypeInv, TypeOK, ServerTypeOK, ServerSteps, AloneInv, NothingYet, SendIsFirst,
        SendIsTaken, NothingMore, Unheard, BeforeBind, Reading, ChannelsMatch
<1>4. EarlyInv => PortInv
  BY DEF EarlyInv
<1> QED
  BY <1>1, <1>2, <1>3, <1>4, TypeCorrect, EarlyInvariant, PTL DEF Spec
=============================================================================
