--------------------------- MODULE SecurityServer ---------------------------
(***************************************************************************)
(* ServerMain of Security_Project: pick a file, encrypt it, take the       *)
(* tokens of one client, verify them, and write the reply.  Whatever goes  *)
(* wrong ends the program (the catch and the finally both exit), and the   *)
(* user may answer a dialog in any way.                                    *)
(***************************************************************************)
EXTENDS SecurityTransport

CONSTANT MaxRuns   \* bound: how often the server program is started

ASSUME ServerAssumption == MaxRuns \in Nat \ {0}

VARIABLES
  spc,       \* where ServerMain.main is
  in,        \* the connection the tokens are read from
  out,       \* the connection the reply is written to
  tokens,    \* the client's tokens, as they were received last
  runs       \* how often the program was started

serverVars == <<spc, in, out, tokens, runs>>

ServerSteps == {"pickFile", "pickFolder", "encrypt", "bindGet", "acceptGet", "receive",
                "verify", "wrapKey", "bindSend", "acceptSend", "reply", "writing", "exited"}

ServerTypeOK ==
  /\ spc \in ServerSteps
  /\ in \in Conn \cup {NoConn}
  /\ out \in Conn \cup {NoConn}
  /\ tokens \in Tokens \cup {<<>>}
  /\ runs \in 1..MaxRuns

ServerInit == spc = "pickFile" /\ in = NoConn /\ out = NoConn /\ tokens = <<>> /\ runs = 1

At(step) == spc = step /\ UNCHANGED runs
To(step) == spc' = step

\* Mutant of Exit: main returns, and the dialogs' thread keeps the sockets open.
MutExitReturns ==
  /\ To("exited")
  /\ in' = NoConn /\ out' = NoConn /\ tokens' = <<>>
  /\ UNCHANGED netVars

\* System.exit(0), from wherever.
Exit ==
  /\ To("exited")
  /\ in' = NoConn /\ out' = NoConn /\ tokens' = <<>>
  /\ ServerGone

-----------------------------------------------------------------------------
\* The tokens are generated before the first dialog, without fail.
PickFile ==
  /\ At("pickFile")
  /\ \/ To("pickFolder") /\ UNCHANGED <<in, out, tokens, netVars>>
     \/ Exit

PickFolder ==
  /\ At("pickFolder")
  /\ \/ To("encrypt") /\ UNCHANGED <<in, out, tokens, netVars>>
     \/ Exit

\* A directory may be picked for the file, and the folder be read-only.
EncryptFile ==
  /\ At("encrypt")
  /\ \/ To("bindGet") /\ UNCHANGED <<in, out, tokens, netVars>>
     \/ Exit

\* ServSocket(), on behalf of serverGetChannel.
BindGet == At("bindGet") /\ Bind /\ To("acceptGet") /\ UNCHANGED <<in, out, tokens>>

AcceptGet ==
  /\ At("acceptGet")
  /\ \E k \in Conn : Accept(k) /\ in' = k
  /\ To("receive")
  /\ UNCHANGED <<out, tokens>>

\* Mutant of Receive: the arrays are filled once.
MutReceiveKeepsFirst ==
  /\ At("receive")
  /\ data[in] \in {"last", "more"}
  /\ Write(in, "none")
  /\ tokens' = IF tokens = <<>> THEN batch[in[1]] ELSE tokens
  /\ To(IF data[in] = "last" THEN "verify" ELSE "receive")
  /\ UNCHANGED <<in, out>>

\* Four arrays, then an int: 0 ends the loop, anything else starts over, and the
\* next batch takes the place of this one.
Receive ==
  /\ At("receive")
  /\ data[in] \in {"last", "more"}
  /\ Write(in, "none")
  /\ tokens' = batch[in[1]]
  /\ To(IF data[in] = "last" THEN "verify" ELSE "receive")
  /\ UNCHANGED <<in, out>>

\* readInt or readFully meets the end of the stream: EOFException.
ReceiveEnds ==
  /\ At("receive")
  /\ data[in] \notin {"last", "more"} /\ conn[in] = "shut"
  /\ Exit

\* The public key and the signature are of one batch; the digest, which would
\* tie the tokens to nothing secret either, is not compared.  So whoever signs
\* with a key of its own passes.
Verifies == tokens[1] = tokens[2]

Verify ==
  /\ At("verify")
  /\ Verifies
  /\ To("wrapKey")
  /\ UNCHANGED <<in, out, tokens, netVars>>

VerifyFails == At("verify") /\ ~Verifies /\ Exit

\* PublicKeyEncSecretKey
WrapKey ==
  /\ At("wrapKey")
  /\ \/ TRUE \in CipherTakesIV /\ To("bindSend") /\ UNCHANGED <<in, out, tokens, netVars>>
     \/ FALSE \in CipherTakesIV /\ Exit

\* Mutant of BindSend: the first ServerSocket serves the second channel too.
MutBindSendReuses ==
  /\ At("bindSend") /\ listening
  /\ To("acceptSend")
  /\ UNCHANGED <<in, out, tokens, netVars>>

\* ServSocket() again, on behalf of serverSendChannel.
BindSend == At("bindSend") /\ Bind /\ To("acceptSend") /\ UNCHANGED <<in, out, tokens>>

\* BindException: the first ServerSocket is still there.
BindSendFails == At("bindSend") /\ listening /\ Exit

AcceptSend ==
  /\ At("acceptSend")
  /\ \E k \in Conn : Accept(k) /\ out' = k
  /\ To("reply")
  /\ UNCHANGED <<in, tokens>>

\* Key, IV, digest, MAC, then the file: one byte over and over, since the
\* loop never reads the next one.
Reply == At("reply") /\ Write(out, "reply") /\ To("writing") /\ UNCHANGED <<in, out, tokens>>

\* Only a connection that breaks ends that loop.
WriteFails == At("writing") /\ conn[out] = "shut" /\ Exit

-----------------------------------------------------------------------------
\* Once accept() has returned nothing refers to the ServerSocket, and a garbage
\* collection may close it (external).
CollectListener ==
  /\ spc \in {"receive", "verify", "wrapKey", "bindSend", "reply", "writing"}
  /\ CloseListener
  /\ UNCHANGED serverVars

\* The user stops the program (external) ...
KillServer == spc # "exited" /\ UNCHANGED runs /\ Exit

\* ... or starts it once more (external).
StartServer ==
  /\ spc = "exited" /\ runs < MaxRuns
  /\ runs' = runs + 1
  /\ To("pickFile")
  /\ UNCHANGED <<in, out, tokens, netVars>>

\* What the program does of itself, or waits for its user to click.
ServerStep ==
  \/ PickFile \/ PickFolder \/ EncryptFile \/ BindGet \/ AcceptGet \/ Receive \/ ReceiveEnds
  \/ Verify \/ VerifyFails \/ WrapKey \/ BindSend \/ BindSendFails \/ AcceptSend
  \/ Reply \/ WriteFails
=============================================================================
