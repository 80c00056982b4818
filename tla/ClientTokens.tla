---------------------------- MODULE ClientTokens ----------------------------
(***************************************************************************)
(* The tokens a page of EmmaStreamingSolution makes for its client: app.js, *)
(* clientUnique.js, ClientKeyAndAuth.js, and the key pairs of              *)
(* clientAssym.js and rsaKeyPair.js.                                       *)
(*                                                                         *)
(* Every token is made by an async function, and every call passes on the  *)
(* promise it got from the call before, without await.  An async function  *)
(* runs to its first await when it is called; the rest is a job the page   *)
(* runs later, in order.  Values are symbolic: a tuple of the conversion   *)
(* that made it and what it was made from.                                 *)
(***************************************************************************)
EXTENDS Sequences

CONSTANTS Clients, Fingerprints

Tokens == {"FP", "EncIV", "Digest", "SecretKey", "MAC"}
RsaKeys == {"PublicKey", "PrivateKey"}

VARIABLES
    fingerprint,  \* [Clients -> what the components of its browser hash to]
    page,         \* [Clients -> "loading", "ready"]
    promise,      \* [Clients -> [Tokens \cup RsaKeys -> what it settled to]]
    jobs,         \* [Clients -> Seq of <<token, the value after its await>>]
    collecting,   \* the clients whose fingerprint is being made
    bytes,        \* [Clients -> [Tokens -> the form for the transport]]
    pairs         \* [Clients -> [kind of key pair -> how far its making is]]
vars == <<fingerprint, page, promise, jobs, collecting, bytes, pairs>>

Pending == <<"pending">>
Undefined == <<"undefined">>
Promise(t) == <<"promise", t>>

----------------------------------------------------------------------------
\* JavaScript's String and the functions of CryptoJS.  SHA512 reads the words
\* of its argument, of which an object that is no word array has none.
String(v) == IF v[1] = "promise" THEN <<"[object Promise]">> ELSE v
Base64parse(s) == <<"base64", s>>
SHA512(v) == <<"sha512", IF v[1] = "promise" THEN << >> ELSE v>>
HmacSHA512(message, key) == <<"hmac", message, key>>

ClientEncIV(clientFingerPrint) == Base64parse(String(clientFingerPrint))
ClientDigest(clientFP) == SHA512(clientFP)
ClientSecretKey(clientDigest) == Base64parse(String(clientDigest))
ClientMAC(clientDigest, clientSecretKey) ==
    HmacSHA512(String(clientDigest), String(clientSecretKey))

\* For the transport: the codes of the characters of a string.
Codes(v) == <<"bytes", String(v)>>
ClientFPforTransport(clientFingerPrint) == Codes(clientFingerPrint)
ClientEncIVForTransport(clientEncIV) == Codes(clientEncIV)
ClientDigestForTransport(clientDigest) == Codes(clientDigest)
ClientSecretKeyForTransport(clientSecretKey) == Codes(clientSecretKey)
ClientMACForTransport(clientMAC) == Codes(clientMAC)

----------------------------------------------------------------------------
Init ==
    /\ fingerprint \in [Clients -> Fingerprints]
    /\ page = [c \in Clients |-> "loading"]
    /\ promise = [c \in Clients |-> [t \in Tokens \cup RsaKeys |-> Pending]]
    /\ jobs = [c \in Clients |-> << >>]
    /\ collecting = {}
    /\ bytes = [c \in Clients |-> [t \in Tokens |-> Undefined]]
    /\ pairs = [c \in Clients |-> [k \in {"EC", "RSA", "browserid"} |-> "none"]]

\* The handler of app.js.  ClientFingerPrint has no await and no return of its
\* own, so its promise is settled at once, to undefined.
DocumentReady(c) ==
    /\ page[c] = "loading"
    /\ page' = [page EXCEPT ![c] = "ready"]
    /\ collecting' = collecting \cup {c}
    /\ promise' = [promise EXCEPT ![c]["FP"] = Undefined]
    /\ jobs' = [jobs EXCEPT ![c] =
        << <<"EncIV", ClientEncIV(Promise("FP"))>>,
           <<"Digest", ClientDigest(Promise("FP"))>>,
           <<"SecretKey", ClientSecretKey(Promise("Digest"))>>,
           <<"MAC", ClientMAC(Promise("Digest"), Promise("SecretKey"))>> >>]
    /\ UNCHANGED <<fingerprint, bytes, pairs>>

\* The part of an async function after its await: its promise is settled.
Resume(c) ==
    /\ jobs[c] # << >>
    /\ promise' = [promise EXCEPT ![c][Head(jobs[c])[1]] = Head(jobs[c])[2]]
    /\ jobs' = [jobs EXCEPT ![c] = Tail(@)]
    /\ UNCHANGED <<fingerprint, page, collecting, bytes, pairs>>

\* Fingerprint2 is ready.  The callback returns the hash, to Fingerprint2.
FingerprintReady(c) ==
    /\ c \in collecting /\ jobs[c] = << >>
    /\ collecting' = collecting \ {c}
    /\ UNCHANGED <<fingerprint, page, promise, jobs, bytes, pairs>>

\* The calls that app.js has in a comment, which pass the promises on too.
MakeBytes(c) ==
    /\ page[c] = "ready" /\ bytes[c]["FP"] = Undefined
    /\ bytes' = [bytes EXCEPT ![c] =
        [FP        |-> ClientFPforTransport(Promise("FP")),
         EncIV     |-> ClientEncIVForTransport(Promise("EncIV")),
         Digest    |-> ClientDigestForTransport(Promise("Digest")),
         SecretKey |-> ClientSecretKeyForTransport(Promise("SecretKey")),
         MAC       |-> ClientMACForTransport(Promise("MAC"))]]
    /\ UNCHANGED <<fingerprint, page, promise, jobs, collecting, pairs>>

\* clientAssym.js runs KeyPairEC and KeyPairRSA.  The first makes a pair and
\* reads it from a variable that does not exist; the error is caught.
LoadAssym(c) ==
    /\ pairs[c]["EC"] = "none"
    /\ pairs' = [pairs EXCEPT ![c]["EC"] = "error", ![c]["RSA"] = "making"]
    /\ UNCHANGED <<fingerprint, page, promise, jobs, collecting, bytes>>

\* PublicKey and PrivateKey await what GenerateKeyPair returns, which is
\* nothing, and read a member of it: they reject while the pair is made.
ReadKey(c, key) ==
    /\ promise[c][key] = Pending
    /\ promise' = [promise EXCEPT ![c][key] = <<"TypeError">>]
    /\ pairs' = [pairs EXCEPT ![c]["browserid"] = "making"]
    /\ UNCHANGED <<fingerprint, page, jobs, collecting, bytes>>

\* A pair reaches the callback and goes no further.  The one of KeyPairRSA
\* does not look at its error.
PairReady(c, k) ==
    /\ pairs[c][k] = "making"
    /\ \E outcome \in {"dropped"} \cup {"error" : x \in {k} \cap {"RSA"}} :
        pairs' = [pairs EXCEPT ![c][k] = outcome]
    /\ UNCHANGED <<fingerprint, page, promise, jobs, collecting, bytes>>

Next ==
    \E c \in Clients :
        \/ DocumentReady(c) \/ Resume(c) \/ FingerprintReady(c)
        \/ MakeBytes(c) \/ LoadAssym(c)
        \/ \E key \in RsaKeys : ReadKey(c, key)
        \/ \E k \in {"RSA", "browserid"} : PairReady(c, k)
Spec == Init /\ [][Next]_vars

----------------------------------------------------------------------------
\* Two browsers with different fingerprints do not end with the same tokens:
\* the encIV is "unique", and what is derived from it is.
Settled(c) == \A t \in Tokens : promise[c][t] # Pending
TokensTellClientsApart ==
    \A c, d \in Clients :
        Settled(c) /\ Settled(d) /\ fingerprint[c] # fingerprint[d] =>
            \E t \in Tokens : promise[c][t] # promise[d][t]
=============================================================================
