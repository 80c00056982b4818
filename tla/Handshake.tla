------------------------------ MODULE Handshake ------------------------------
(***************************************************************************)
(* Security_Project as a whole: one server program, started up to MaxRuns  *)
(* times, and the clients, which share the server's port.                  *)
(***************************************************************************)
EXTENDS SecurityServer, SecurityClient

VARIABLE early   \* history: connections made when no ServerSocket of
                 \* serverSendChannel was there to take them

vars == <<netVars, serverVars, cpc, early>>

TypeOK == NetTypeOK /\ ServerTypeOK /\ ClientTypeOK /\ early \subseteq Conn

Init == NetInit /\ ServerInit /\ ClientInit /\ early = {}

Sending == {"acceptSend", "reply", "writing"}

\* Connections this step makes too early to be the server's reply channel.
Note == early' = early \cup
          {k \in Conn : conn[k] = "none" /\ conn'[k] # "none" /\ spc \notin Sending}

Server(action) == action /\ UNCHANGED cpc /\ Note
OfClient(action) == action /\ UNCHANGED serverVars /\ Note

Next ==
  \/ Server(PickFile) \/ Server(PickFolder) \/ Server(EncryptFile)
  \/ Server(BindGet) \/ Server(AcceptGet) \/ Server(Receive) \/ Server(ReceiveEnds)
  \/ Server(Verify) \/ Server(VerifyFails) \/ Server(WrapKey)
  \/ Server(BindSend) \/ Server(BindSendFails) \/ Server(AcceptSend)
  \/ Server(Reply) \/ Server(WriteFails)
  \/ Server(CollectListener) \/ Server(KillServer) \/ Server(StartServer)
  \/ \E c \in Client :
       \/ OfClient(Continue(c)) \/ OfClient(SendOver(c))
       \/ OfClient(ConnectSend(c)) \/ OfClient(ConnectSendFails(c))
       \/ OfClient(SendPart(c)) \/ OfClient(SendMore(c)) \/ OfClient(SendTokens(c))
       \/ OfClient(SendFails(c))
       \/ OfClient(ConnectGet(c)) \/ OfClient(ConnectGetFails(c))
       \/ OfClient(ReadReply(c)) \/ OfClient(ReadEnds(c))
       \/ OfClient(Choose(c)) \/ OfClient(Check(c)) \/ OfClient(KillClient(c))

Spec == Init /\ [][Next]_vars

\* The programs run on, and their users click the dialogs away; nobody need
\* stop or start a program, and the garbage collector need not run.
Fairness ==
  /\ WF_vars(Server(ServerStep))
  /\ \A c \in Client : WF_vars(OfClient(ClientStep(c)))

FairSpec == Spec /\ Fairness

-----------------------------------------------------------------------------
\* The server reads tokens from the connection a client writes them to, and
\* writes its reply where the client whose tokens it verified waits for it:
\* "sent over to the client" (ServerMain.java, lines 30-32).
ChannelsMatch ==
  /\ in # NoConn => in[2] = "send"
  /\ out # NoConn => out = Get(in[1])

\* A client that connects for the reply before the server has bound its port
\* anew is never served: its connection waits at the first ServerSocket, whose
\* end, without which the port stays taken, resets it (ServerReceive.java:17).
EarlyNeverServed == out \notin early

\* When a reply is written, the tokens its secret key was wrapped under are the
\* last ones their sender wrote, however many batches it sent before, nothing of
\* them is unread, and they are signed with the private key of the public key in
\* them (ServerMain.java, lines 145-208).  Who that sender is no step tells: any
\* program that signs with a key of its own is replied to.
VerifiedBeforeReply ==
  [][\A k \in Conn : data'[k] = "reply" /\ data[k] # "reply" =>
       /\ in # NoConn /\ in[2] = "send" /\ data[in] \notin {"part", "more"}
       /\ tokens = batch[in[1]] /\ tokens[1] = tokens[2]]_vars

\* A client that waits for the reply does not wait for ever: it reads one, or
\* the server's end reaches it (ClientMain.java, lines 131-142).
ReadIsAnswered == \A c \in Client : cpc[c] = "reading" ~> cpc[c] # "reading"
=============================================================================
