-------------------------- MODULE SecurityTransport --------------------------
(***************************************************************************)
(* The TCP channels of Security_Project (ServerTransport/ServerReceive,    *)
(* ServerSend; ClientTransport/ClientSendHandle, ClientReceiveHandle).     *)
(*                                                                         *)
(* The server owns one port.  Each channel it wants, the one it reads      *)
(* tokens from and the one it writes its reply to, costs it a new          *)
(* ServerSocket on that port and an accept; it closes neither.  A client   *)
(* opens two connections to the port: "send" for its tokens, "get" for     *)
(* the reply.  Nothing in a connection says which of the two it is, nor    *)
(* which client it comes from: the backlog is first come, first served.    *)
(***************************************************************************)
EXTENDS Naturals, Sequences, SequencesExt

CONSTANTS
  Client,        \* the programs that connect to the port
  Genuine,       \* those that are ClientMain, which send one batch of tokens of
                 \* their own; another one sends any key, any signature and any
                 \* number of batches, and nothing tells it from ClientMain
  CipherTakesIV, \* the answers RSA and HmacSHA256 may give to an
                 \* IvParameterSpec (the providers of the JDK refuse it)
  Backlog,       \* how many connections a ServerSocket queues (50 in the code)
  NoConn         \* no connection

ASSUME TransportAssumption ==
  /\ Genuine \subseteq Client
  /\ CipherTakesIV \subseteq BOOLEAN
  /\ Backlog \in Nat \ {0}
  /\ NoConn \notin Client \X {"send", "get"}

Conn == Client \X {"send", "get"}

VARIABLES
  listening,  \* a ServerSocket is bound to the port
  backlog,    \* connections that wait for an accept
  conn,       \* each connection: never made, up, reset by the server's side
              \* or shut by the client's
  data,       \* what is written to it and not read: "part" of the tokens, a
              \* batch of tokens with the mark that it is the "last" or that
              \* "more" follow, or the server's "reply"
  batch       \* the tokens each client wrote last: whose public key is in them,
              \* and whose private key made the signature in them

netVars == <<listening, backlog, conn, data, batch>>

Tokens == Client \X Client

NetTypeOK ==
  /\ listening \in BOOLEAN
  /\ backlog \in Seq(Conn)
  /\ conn \in [Conn -> {"none", "up", "reset", "shut"}]
  /\ data \in [Conn -> {"none", "part", "last", "more", "reply"}]
  /\ batch \in [Client -> Tokens \cup {<<>>}]

NetInit ==
  /\ listening = FALSE
  /\ backlog = <<>>
  /\ conn = [k \in Conn |-> "none"]
  /\ data = [k \in Conn |-> "none"]
  /\ batch = [c \in Client |-> <<>>]

\* The connections in S that are up are gone, as the other side will see.
Drop(S, how) == conn' = [k \in Conn |-> IF k \in S /\ conn[k] = "up" THEN how ELSE conn[k]]

\* new ServerSocket(8080, 50, host) throws when the port is still bound.
Bind ==
  /\ ~listening
  /\ listening' = TRUE
  /\ UNCHANGED <<backlog, conn, data, batch>>

\* Mutant of Accept: last come, first served.
MutAcceptNewest(k) ==
  /\ backlog # <<>>
  /\ k = Last(backlog)
  /\ backlog' = Front(backlog)
  /\ UNCHANGED <<listening, conn, data, batch>>

\* accept() takes the oldest connection, even one its client has shut.
Accept(k) ==
  /\ backlog # <<>>
  /\ k = Head(backlog)
  /\ backlog' = Tail(backlog)
  /\ UNCHANGED <<listening, conn, data, batch>>

\* A ServerSocket that goes resets the connections nobody accepted.
CloseListener ==
  /\ listening
  /\ listening' = FALSE
  /\ backlog' = <<>>
  /\ Drop(ToSet(backlog), "reset")
  /\ UNCHANGED <<data, batch>>

\* The server program is gone, and every socket with it.
ServerGone ==
  /\ listening' = FALSE
  /\ backlog' = <<>>
  /\ Drop(Conn, "reset")
  /\ UNCHANGED <<data, batch>>

Reachable == listening /\ Len(backlog) < Backlog

\* Mutant of Connect: the queue holds clients.
MutConnectClient(k) ==
  /\ Reachable
  /\ backlog' = Append(backlog, k[1])
  /\ conn' = [conn EXCEPT ![k] = "up"]
  /\ UNCHANGED <<listening, data, batch>>

\* new Socket(host, port) succeeds as soon as the connection is queued.
Connect(k) ==
  /\ Reachable
  /\ backlog' = Append(backlog, k)
  /\ conn' = [conn EXCEPT ![k] = "up"]
  /\ UNCHANGED <<listening, data, batch>>

\* The client program is gone; what it has queued stays queued.
ClientGone(c) ==
  /\ Drop({<<c, "send">>, <<c, "get">>}, "shut")
  /\ UNCHANGED <<listening, backlog, data, batch>>

Write(k, what) ==
  /\ data' = [data EXCEPT ![k] = what]
  /\ UNCHANGED <<listening, backlog, conn, batch>>

\* A client writes a batch of tokens, and an int after it.
WriteTokens(c, mark, tokens) ==
  /\ data' = [data EXCEPT ![<<c, "send">>] = mark]
  /\ batch' = [batch EXCEPT ![c] = tokens]
  /\ UNCHANGED <<listening, backlog, conn>>
=============================================================================
