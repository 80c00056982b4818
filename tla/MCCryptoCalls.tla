--------------------------- MODULE MCCryptoCalls ---------------------------
(***************************************************************************)
(* A small instance of CryptoCalls: the first call makes keys or encrypts, *)
(* the last one decrypts or imports, the one between does either, so that  *)
(* there are two messages to confuse and two calls on one keys object.     *)
(***************************************************************************)
EXTENDS CryptoCalls

CONSTANTS c1, c2, c3

MCFunctions ==
    c1 :> {"sym.encrypt", "encryptAndSign", "encryptWithPassword",
           "generateEncryptKey"} @@
    c2 :> {"sym.encrypt", "encryptAndSign", "importKeys"} @@
    c3 :> Decrypts \cup
          {"asym.encrypt", "asym.generateKeys", "importEncryptKey", "derive"}
MCPlatforms ==
    c1 :> {"modern"} @@ c2 :> {"oldWebkit"} @@ c3 :> {"oldWebkit", "oldIE"}

MCAfter == c1 :> {} @@ c2 :> {c1} @@ c3 :> {c2}

\* Shorter and longer than what RSA-OAEP takes.
MCContentLength == c1 :> 300 @@ c2 :> 100 @@ c3 :> 0

MCConfusions == {{"hmac"}, {"aesEncrypted", "hmac"}, {"rsaEncrypted"},
                 {"signatureOfData", "signatureOfEncrypted"}}
=============================================================================
