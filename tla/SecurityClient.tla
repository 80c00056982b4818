--------------------------- MODULE SecurityClient ---------------------------
(***************************************************************************)
(* ClientMain of Security_Project: generate tokens, send them, open a      *)
(* second connection, read the reply and check it.                         *)
(***************************************************************************)
EXTENDS SecurityTransport

VARIABLE cpc   \* where each client's main is

ClientSteps == {"start", "ask", "connectSend", "sending", "connectGet", "reading", "choose",
                "check", "decrypting", "rejected", "ended"}

ClientTypeOK == cpc \in [Client -> ClientSteps]

ClientInit == cpc = [c \in Client |-> "start"]

Send(c) == <<c, "send">>
Get(c) == <<c, "get">>

Over == {"rejected", "ended"}

Step(c, from, to) == cpc[c] = from /\ cpc' = [cpc EXCEPT ![c] = to]

\* main returns or System.exit(0): the sockets go with the program.
End(c, from, to) == Step(c, from, to) /\ ClientGone(c)

\* ClientMain signs with the private key of the public key it sends.
TokensOf(c) == IF c \in Genuine THEN {<<c, c>>} ELSE Tokens

-----------------------------------------------------------------------------
\* The first dialog, and the tokens.
Continue(c) ==
  \/ Step(c, "start", "ask") /\ UNCHANGED netVars
  \/ End(c, "start", "ended")

\* The second dialog, host and port; a port that is no number is not caught.
SendOver(c) ==
  \/ Step(c, "ask", "connectSend") /\ UNCHANGED netVars
  \/ End(c, "ask", "ended")

ConnectSend(c) == Step(c, "connectSend", "sending") /\ Connect(Send(c))

ConnectSendFails(c) == ~Reachable /\ End(c, "connectSend", "ended")

\* Some of the writes.
SendPart(c) ==
  /\ cpc[c] = "sending" /\ data[Send(c)] = "none"
  /\ Write(Send(c), "part")
  /\ UNCHANGED cpc

\* A batch that is not the last: ClientMain sends none.
SendMore(c) ==
  /\ c \notin Genuine
  /\ cpc[c] = "sending" /\ data[Send(c)] = "none"
  /\ \E t \in TokensOf(c) : WriteTokens(c, "more", t)
  /\ UNCHANGED cpc

\* All of them, the closing writeInt(0) included, and the dialog that says so.
SendTokens(c) ==
  /\ data[Send(c)] # "more"
  /\ Step(c, "sending", "connectGet")
  /\ \E t \in TokensOf(c) : WriteTokens(c, "last", t)

\* A write to a connection the server has dropped may throw.
SendFails(c) == conn[Send(c)] = "reset" /\ End(c, "sending", "ended")

\* clientGetPrim: a second connection to the same port.
ConnectGet(c) == Step(c, "connectGet", "reading") /\ Connect(Get(c))

ConnectGetFails(c) == ~Reachable /\ End(c, "connectGet", "ended")

\* Five bytes of the reply become the lengths of five arrays, which stay empty.
ReadReply(c) ==
  /\ data[Get(c)] = "reply"
  /\ Step(c, "reading", "choose")
  /\ UNCHANGED netVars

\* End of stream (-1 is no array length) or a reset: caught, and main returns.
ReadEnds(c) == conn[Get(c)] = "reset" /\ End(c, "reading", "ended")

\* Yes, no, or closing the dialog, which reads on.
Choose(c) ==
  \/ Step(c, "choose", "check") /\ UNCHANGED netVars
  \/ Step(c, "choose", "reading") /\ UNCHANGED netVars
  \/ End(c, "choose", "ended")

\* == on byte[] compares references: the array that was received and the one
\* just computed are two objects.
SameArray(a, b) == a = b
Verified == SameArray("received digest", "computed digest")

\* The keys, the IVs and Mac.init may each throw, which ends main; if none does,
\* the digests and the MACs are compared.
Check(c) ==
  \/ End(c, "check", "ended")
  \/ /\ TRUE \in CipherTakesIV
     /\ IF Verified THEN Step(c, "check", "decrypting") /\ UNCHANGED netVars
                    ELSE End(c, "check", "rejected")

\* The user closes the program (external).
KillClient(c) == cpc[c] \notin Over /\ End(c, cpc[c], "ended")

\* What the program does of itself, or waits for its user to click.
ClientStep(c) ==
  \/ Continue(c) \/ SendOver(c) \/ ConnectSend(c) \/ ConnectSendFails(c)
  \/ SendTokens(c) \/ SendFails(c) \/ ConnectGet(c) \/ ConnectGetFails(c)
  \/ ReadReply(c) \/ ReadEnds(c) \/ Choose(c) \/ Check(c)
=============================================================================
