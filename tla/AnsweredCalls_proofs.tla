----------------------- MODULE AnsweredCalls_proofs -----------------------
(***************************************************************************)
(* NoNeedlessError holds for any calls, platforms, keys objects, passwords *)
(* and parties: a call whose arguments fit its message reports no error    *)
(* unless an operation of its own failed.  Each way to an error has        *)
(* something to blame (Blame); whoever needs an imported key finds both;   *)
(* the JSON keys suit every platform; and keys derived by either method    *)
(* are the same function of password, salt and number of iterations.       *)
(***************************************************************************)
EXTENDS DecryptedCalls_proofs

----------------------------------------------------------------------------
(* What an error can be blamed on, other than a failure.                   *)

Uncached(c, half) == half \notin cached[KeysObject(c)]
Misfits(c, payload) ==
    Tail(calls[c].todo) = SymDecrypt /\ payload.length # CombinedLength
Blame(c, op) ==
    \/ op = "encryptAES" /\ Uncached(c, "aes")
    \/ op = "signHMAC" /\ Uncached(c, "hmac")
    \/ /\ op = "verifyHMAC"
       /\ \/ Lacks(c, {"hmac", "aesEncrypted"}) \/ Uncached(c, "hmac")
          \/ dict(c).hmac # [key |-> bag(c).hmacKey, over |-> dict(c).aesEncrypted]
    \/ /\ op = "decryptAES"
       /\ \/ Lacks(c, {"aesEncrypted"}) \/ Uncached(c, "aes")
          \/ dict(c).aesEncrypted.key # bag(c).aesKey
    \/ op = "encryptRSA" /\ ToRsa(c).length > OaepLimit
    \/ /\ op = "decryptRSA"
       /\ Lacks(c, {"rsaEncrypted"}) \/ Misfits(c, dict(c).rsaEncrypted)
    \/ /\ op = "verifyEncrypted"
       /\ \/ Lacks(c, {"signatureOfEncrypted", "rsaEncrypted"})
          \/ dict(c).signatureOfEncrypted #
                [by |-> calls[c].args.signer, over |-> <<dict(c).rsaEncrypted>>]
    \/ /\ op = "verifyData"
       /\ \/ Lacks(c, {"signatureOfData"}) \/ Misfits(c, bag(c).payload)
          \/ dict(c).signatureOfData #
                [by |-> calls[c].args.signer, over |-> bag(c).payload]
    \/ /\ op \in {"importPrivate", "importPublic"}
       /\ ~NativeTakes(calls[c].on, _importKey(calls[c].on, bag(c).privateJwk))

----------------------------------------------------------------------------
(* The order of the operations.                                            *)

\* The operations that need an imported key; what may stand before which.
Needs == {"encryptAES", "signHMAC", "verifyHMAC", "decryptAES"}
Follows(a, b) ==
    /\ b \in Needs => a \in Needs \cup {"importKeyHMAC", "importKeys"}
    /\ b = "importKeyHMAC" => a = "importKeyAES"
    /\ a = "importKeys" => b # "importKeys"
    /\ a = "passwordToKey" => b = "deriveBits"
Paced(S, s) ==
    s \in Seq(S) /\ \A i \in 1..(Len(s) - 1) : Follows(s[i], s[i + 1])

\* The operations of each function.  Those of the first set need no key and
\* no message.
Harmless == {"generateKeyAES", "generateKeyHMAC", "exportKeyAES", "exportKeyHMAC",
             "importKeyAES", "importKeyHMAC", "importKeys", "signData",
             "signEncrypted", "passwordToKey", "deriveBits", "importPassword",
             "hmacBlock"}
Sealers == Harmless \cup {"encryptAES", "signHMAC", "encryptRSA"}
Openers == Harmless \cup {"verifyHMAC", "decryptAES", "decryptRSA",
                          "verifyEncrypted", "verifyData"}
RsaOps == {"generateEncryptKeys", "generateSignKeys", "exportPublic",
           "exportPrivate", "importPrivate", "importPublic"}
Importers == {"importEncryptKey", "importEncryptPrivateKey", "importEncryptPublicKey"}
OpsOf(fn) ==
    CASE fn \in Encrypts              -> Sealers
      [] fn \in Decrypts              -> Openers
      [] fn \in KeyMakers \cup Importers -> RsaOps
      [] OTHER                        -> Harmless

\* Whoever needs a key finds both; the HMAC key is imported after the other.
Ready(todo, objects) ==
    todo # << >> =>
        /\ Head(todo) # "importKeys"
        /\ Head(todo) \in Needs => objects = Both
        /\ Head(todo) = "importKeyHMAC" => "aes" \in objects
PaceInv ==
    \A c \in Calls : calls[c].fn # "none" =>
        /\ Paced(OpsOf(calls[c].fn), calls[c].todo)
        /\ Ready(calls[c].todo, cached[KeysObject(c)])

\* What each function has for arguments.
ArgsInv ==
    \A c \in Calls : calls[c].fn # "none" =>
        /\ "ring" \in DOMAIN calls[c].args <=>
                calls[c].fn \in {"importKeys", "sym.encrypt", "sym.decrypt"}
        /\ "ring" \in DOMAIN calls[c].args => calls[c].args.ring \in Rings \cup Calls
        /\ "dict" \in DOMAIN calls[c].args <=> calls[c].fn \in Decrypts

----------------------------------------------------------------------------
(* The RSA keys in JSON are the same from every platform.                  *)

Standard == {"ext", "key_ops", "alg"}
Makers == {GenerateEncryptKey, GenerateSignKey, AsymGenerateKeys}
JwkInv ==
    \A c \in Calls :
        /\ calls[c].fn \in Importers /\ Sound(calls[c]) =>
            Holds(calls[c].bag, "privateJwk", Standard)
        /\ calls[c].fn \in KeyMakers /\ Sound(calls[c]) =>
            \/ \E t \in Makers : calls[c].todo \in {t, Tail(t), Tail(Tail(t))}
            \/ Holds(calls[c].bag, "privateJwk", Standard)

----------------------------------------------------------------------------
(* The keys from passwords.                                                *)

Counts == 1..(ByteBase * Weight[4] - 1)
Yield(password, salt, n) ==
    <<password, salt, [b \in 1..Blocks |-> 1..n], PasswordBits \div 8>>
HasOptions(salt, n, held) ==
    Holds(held, "pbkdf2_salt", salt) /\ Holds(held, "pbkdf2_iter", uint32toBuffer(n))
Cooked(password, salt, n, held) ==
    /\ HasOptions(salt, n, held)
    /\ HasPair(<<"aes", Yield(password, salt, n)>>, <<"hmac", Yield(password, salt, n)>>, held)

\* How far the two loops are.
Looping(salt, n, held) ==
    /\ HasOptions(salt, n, held)
    /\ {"counter", "u1", "output"} \subseteq DOMAIN held
    /\ held["counter"] \in 0..(n - 1)
    /\ held["u1"] = 1..held["counter"]
    /\ held["output"] \in {<< >>, <<1..n>>}

PasswordUsers == {"encryptWithPassword", "decryptWithPassword"}
\* What needs the keys, and where a call is once it has them.
Wants(fn) == IF fn = "encryptWithPassword" THEN ToImportKeys(<< >>) ELSE SymDecrypt
AfterDerive(fn) ==
    IF fn = "encryptWithPassword"
    THEN {ToCacheAES(<< >>), ToCacheHMAC(<< >>), ToEncryptAES(<< >>),
          ToSignHMAC(<< >>), << >>}
    ELSE {AtOpenAES, AtOpenHMAC, AtVerifyHMAC, AtDecryptAES, << >>}
Cooking(password, salt, counts, t, after, todo, held) ==
    \/ todo \in {ToPassword(t), ToDeriveBits(t), ToImportPassword(t)}
    \/ \E n \in counts \cap Counts :
        \/ todo = ToHmacBlock(t) /\ Looping(salt, n, held)
        \/ todo \in after /\ Cooked(password, salt, n, held)
DeriveInv ==
    \A c \in Calls : calls[c].fn \in PasswordUsers /\ Sound(calls[c]) =>
        Cooking(calls[c].args.password, Salt(c), Iterations(c), Wants(calls[c].fn),
                AfterDerive(calls[c].fn), calls[c].todo, calls[c].bag)
----------------------------------------------------------------------------
(* What an operation makes of its call: an answer without an error, or one *)
(* that has something to blame.                                            *)

Fine(c) ==
    calls'[c].failed \/ calls'[c].said \in {<< >>, <<"ok">>, <<"ok", "error">>}

LEMMA ProceedFine ==
    ASSUME OnceInv, NEW c \in Calls, calls[c].todo # << >>, NEW new, Proceed(c, new)
    PROVE  Fine(c)
<1> DEFINE said == calls'[c].said
<1>1. said = << >> \/ said \in {<<"ok">>, <<"ok", "error">>}
  BY ProceedTo, Zenon DEF Goes
<1> HIDE DEF said
<1>2. said \in {<< >>, <<"ok">>, <<"ok", "error">>}
  BY <1>1
<1>3. QED
  BY <1>2, Zenon DEF Fine, said
LEMMA KeysFine ==
    ASSUME OnceInv, NEW c \in Calls, calls[c].todo # << >>, NEW payload,
           ProceedWithKeys(c, payload)
    PROVE  Fine(c) \/ Misfits(c, payload)
BY ProceedFine, Zenon DEF ProceedWithKeys, Misfits
LEMMA LoopFine ==
    ASSUME OnceInv, NEW c \in Calls, calls[c].todo # << >>, NEW x,
           \/ calls' = [calls EXCEPT ![c] = [calls[c] EXCEPT !.todo = x]]
           \/ calls' = [calls EXCEPT ![c] = [calls[c] EXCEPT !.bag = x]]
    PROVE  Fine(c)
<1>1. calls'[c].said = << >>
  BY ChangedOnly, Zenon
<1>2. QED
  BY <1>1 DEF Fine

\* A failure is the call's own.
LEMMA FailureIsOwn ==
    ASSUME OnceInv, NEW c \in Calls, calls[c].todo # << >>, NEW own, Rejected(c, own)
    PROVE  calls'[c].failed = own
<1>1. calls[c].said = << >>
  BY OpenHasNotSaid, Zenon
<1>2. PICK fn, on, args, todo, held, said, failed, threw :
        calls[c] = Rec(fn, on, args, todo, held, said, failed, threw)
  BY OpenHasNotSaid, Zenon DEF Shaped, Rec
<1>3. said = << >>
  BY <1>1, <1>2, RecGet
<1> DEFINE r1 == [calls[c] EXCEPT !.failed = own]
           r == [r1 EXCEPT !.bag = << >>]
<1>4. AnswerWith(c, r, "error", FALSE)
  BY Zenon DEF Rejected
<1>5. r1 = Rec(fn, on, args, todo, held, << >>, own, threw)
  BY <1>2, <1>3, RecFailed
<1> HIDE DEF r1
<1>6. r = Rec(fn, on, args, todo, << >>, << >>, own, threw)
  BY <1>5, RecBag
<1> HIDE DEF r
<1>7. AnswerWith(c, Rec(fn, on, args, todo, << >>, << >>, own, threw), "error", FALSE)
  BY <1>4, <1>6, Zenon
<1>8. QED
  BY <1>7, AnswerTo

LEMMA Blames ==
    ASSUME OnceInv, NEW c \in Calls, Settles(c)
    PROVE  Fine(c) \/ Blame(c, Head(calls[c].todo))
<1> DEFINE op == Head(calls[c].todo)
           Done == Fine(c) \/ Blame(c, op)
<1>0. ASSUME NEW o, Pending(c, o) PROVE calls[c].todo # << >> /\ op = o
  BY <1>0, Zenon DEF Pending
<1>1. ASSUME NEW o, Pending(c, o), NEW new, Proceed(c, new) PROVE Done
  BY <1>0, <1>1, ProceedFine, Zenon
<1>2. ASSUME \/ generateKeyAES(c) \/ generateKeyHMAC(c) \/ symExportKey(c)
             \/ importKeyAES(c) \/ importKeyHMAC(c) \/ sign(c)
             \/ generateRsaKeys(c) \/ asymExportKey(c) \/ deriveBits(c)
             \/ importPassword(c)
      PROVE  Done
  <2>1. \E o, new : Pending(c, o) /\ Proceed(c, new)
    BY <1>2, Zenon DEF generateKeyAES, generateKeyHMAC, symExportKey, importKeyAES,
       importKeyHMAC, importKey, sign, generateRsaKeys, asymExportKey, deriveBits,
       importPassword, Does
  <2>2. QED
    BY <1>1, <2>1, Zenon
<1>3. ASSUME encryptAES(c) PROVE Done
  <2>1. Pending(c, "encryptAES") /\ (Uncached(c, "aes") \/ \E new : Proceed(c, new))
    BY <1>3, Zenon DEF encryptAES, Does, Uncached
  <2>2. QED
    BY <1>0, <1>1, <2>1, Zenon DEF Blame
<1>4. ASSUME signHMAC(c) PROVE Done
  <2>1. Pending(c, "signHMAC") /\ (Uncached(c, "hmac") \/ \E new : Proceed(c, new))
    BY <1>4, Zenon DEF signHMAC, Does, Uncached
  <2>2. QED
    BY <1>0, <1>1, <2>1, Zenon DEF Blame
<1>5. ASSUME verifyHMAC(c) PROVE Done
  <2>1. /\ Pending(c, "verifyHMAC")
        /\ \/ Lacks(c, {"hmac", "aesEncrypted"}) \/ Uncached(c, "hmac")
           \/ dict(c).hmac # [key |-> bag(c).hmacKey, over |-> dict(c).aesEncrypted]
           \/ \E new : Proceed(c, new)
    BY <1>5, Zenon DEF verifyHMAC, Does, Uncached
  <2>2. QED
    BY <1>0, <1>1, <2>1, Zenon DEF Blame
<1>6. ASSUME decryptAES(c) PROVE Done
  <2>1. /\ Pending(c, "decryptAES")
        /\ \/ Lacks(c, {"aesEncrypted"}) \/ Uncached(c, "aes")
           \/ dict(c).aesEncrypted.key # bag(c).aesKey
           \/ \E new : Proceed(c, new)
    BY <1>6, Zenon DEF decryptAES, Does, Uncached
  <2>2. QED
    BY <1>0, <1>1, <2>1, Zenon DEF Blame
<1>7. ASSUME encryptRSA(c) PROVE Done
  <2>1. /\ Pending(c, "encryptRSA")
        /\ ToRsa(c).length > OaepLimit \/ \E new : Proceed(c, new)
    BY <1>7, Zenon DEF encryptRSA, Does
  <2>2. QED
    BY <1>0, <1>1, <2>1, Zenon DEF Blame
<1>8. ASSUME decryptRSA(c) PROVE Done
  <2>1. /\ Pending(c, "decryptRSA")
        /\ Lacks(c, {"rsaEncrypted"}) \/ ProceedWithKeys(c, dict(c).rsaEncrypted)
    BY <1>8, Zenon DEF decryptRSA, Does
  <2>2. calls[c].todo # << >> /\ op = "decryptRSA"
    BY <1>0, <2>1, Zenon
  <2>3. QED
    BY <2>1, <2>2, KeysFine, Zenon DEF Blame
<1>9. ASSUME verifySignature(c) PROVE Done
  <2>1. CASE /\ Pending(c, "verifyEncrypted")
             /\ \/ Lacks(c, {"signatureOfEncrypted", "rsaEncrypted"})
                \/ dict(c).signatureOfEncrypted #
                    [by |-> calls[c].args.signer, over |-> <<dict(c).rsaEncrypted>>]
                \/ \E new : Proceed(c, new)
    BY <1>0, <1>1, <2>1, Zenon DEF Blame
  <2>2. CASE /\ Pending(c, "verifyData")
             /\ \/ Lacks(c, {"signatureOfData"})
                \/ dict(c).signatureOfData #
                    [by |-> calls[c].args.signer, over |-> bag(c).payload]
                \/ ProceedWithKeys(c, bag(c).payload)
    <3>1. calls[c].todo # << >> /\ op = "verifyData"
      BY <1>0, <2>2, Zenon
    <3>2. QED
      BY <2>2, <3>1, KeysFine, Zenon DEF Blame
  <2>3. QED
    BY <1>9, <2>1, <2>2, Zenon DEF verifySignature, Does
<1>10. ASSUME asymImportKey(c) PROVE Done
  <2>1. PICK o \in {"importPrivate", "importPublic"} :
            /\ Pending(c, o)
            /\ \/ ~NativeTakes(calls[c].on, _importKey(calls[c].on, bag(c).privateJwk))
               \/ Proceed(c, << >>)
    BY <1>10, Zenon DEF asymImportKey, Does
  <2>2. QED
    BY <1>0, <1>1, <2>1, Zenon DEF Blame
<1>11. ASSUME passwordToKey(c) PROVE Done
  <2>1. Pending(c, "passwordToKey")
    BY <1>11, Zenon DEF passwordToKey, Does
  <2>2. \/ Proceed(c, << >>)
        \/ \E x : calls' = [calls EXCEPT ![c] = [calls[c] EXCEPT !.todo = x]]
    BY <1>11, Zenon DEF passwordToKey
  <2>3. QED
    BY <1>0, <1>1, <2>1, <2>2, LoopFine, Zenon
<1>12. ASSUME hmacBlock(c) PROVE Done
  <2>1. Pending(c, "hmacBlock")
    BY <1>12, Zenon DEF hmacBlock, Does
  <2>2. \/ \E new : Proceed(c, new)
        \/ \E x : calls' = [calls EXCEPT ![c] = [calls[c] EXCEPT !.bag = x]]
    BY <1>12, Zenon DEF hmacBlock
  <2>3. QED
    BY <1>0, <1>1, <2>1, <2>2, LoopFine, Zenon
<1>13. ASSUME fails(c) PROVE Done
  <2>1. calls'[c].failed = TRUE
    BY <1>13, FailureIsOwn, Zenon DEF fails
  <2>2. QED
    BY <2>1 DEF Fine
<1>14. QED
  BY <1>2, <1>3, <1>4, <1>5, <1>6, <1>7, <1>8, <1>9, <1>10, <1>11, <1>12, <1>13,
     Zenon DEF Settles

\* The operations on RSA keys.
RsaTurn(c, op) ==
    \/ /\ op \in {"generateEncryptKeys", "generateSignKeys", "importPrivate",
                  "importPublic"}
       /\ Goes(c, << >>)
    \/ op = "exportPublic" /\ Goes(c, [publicJwk |-> exportKey(calls[c].on)])
    \/ op = "exportPrivate" /\ Goes(c, [privateJwk |-> exportKey(calls[c].on)])

LEMMA RsaTurns ==
    ASSUME OnceInv, NEW c \in Calls, Settles(c), Head(calls[c].todo) \notin AllOps
    PROVE  Stops(c) \/ RsaTurn(c, Head(calls[c].todo))
<1> DEFINE op == Head(calls[c].todo)
<1>0. ASSUME NEW o, Pending(c, o) PROVE calls[c].todo # << >> /\ op = o
  BY <1>0, Zenon DEF Pending
<1>1. ASSUME NEW o \in AllOps PROVE ~Pending(c, o)
  BY <1>0, <1>1, Zenon
<1>2. \/ generateRsaKeys(c) \/ asymExportKey(c) \/ asymImportKey(c) \/ fails(c)
  <2>1. ASSUME NEW o \in {"generateKeyAES", "generateKeyHMAC", "exportKeyAES",
                "exportKeyHMAC", "importKeyAES", "importKeyHMAC", "encryptAES",
                "signHMAC", "encryptRSA", "signData", "signEncrypted",
                "verifyEncrypted", "decryptRSA", "verifyData", "verifyHMAC",
                "decryptAES", "passwordToKey", "deriveBits", "importPassword",
                "hmacBlock"}
        PROVE  ~Pending(c, o)
    <3>1. o \in AllOps
      BY DEF AllOps, Ops
    <3>2. QED
      BY <1>1, <3>1, Zenon
  <2>2. /\ ~generateKeyAES(c) /\ ~generateKeyHMAC(c) /\ ~symExportKey(c)
        /\ ~importKeyAES(c) /\ ~importKeyHMAC(c)
    BY <2>1, Zenon DEF generateKeyAES, generateKeyHMAC, symExportKey, importKeyAES,
       importKeyHMAC, importKey, Does
  <2>3. /\ ~encryptAES(c) /\ ~signHMAC(c) /\ ~verifyHMAC(c) /\ ~decryptAES(c)
        /\ ~encryptRSA(c) /\ ~sign(c) /\ ~decryptRSA(c) /\ ~verifySignature(c)
    BY <2>1, Zenon DEF encryptAES, signHMAC, verifyHMAC, decryptAES, encryptRSA, sign,
       decryptRSA, verifySignature, Does
  <2>4. ~passwordToKey(c) /\ ~deriveBits(c) /\ ~importPassword(c) /\ ~hmacBlock(c)
    BY <2>1, Zenon DEF passwordToKey, deriveBits, importPassword, hmacBlock, Does
  <2>5. QED
    BY <2>2, <2>3, <2>4, Zenon DEF Settles
<1>3. ASSUME generateRsaKeys(c) PROVE RsaTurn(c, op)
  BY <1>0, <1>3, ProceedTo, Zenon DEF generateRsaKeys, Does, RsaTurn
<1>4. ASSUME asymExportKey(c) PROVE RsaTurn(c, op)
  BY <1>0, <1>4, ProceedTo, Zenon DEF asymExportKey, Does, RsaTurn
<1>5. ASSUME asymImportKey(c) PROVE Stops(c) \/ RsaTurn(c, op)
  BY <1>0, <1>5, ProceedTo, StopTo, Zenon DEF asymImportKey, Does, RsaTurn
<1>6. ASSUME fails(c) PROVE Stops(c)
  BY <1>6, StopTo, Zenon DEF fails
<1>7. QED
  BY <1>2, <1>3, <1>4, <1>5, <1>6, Zenon

\* What is left to do after an operation: what was left, or the other method.
LEMMA Moves ==
    ASSUME OnceInv, NEW c \in Calls, Settles(c), ~Stops(c)
    PROVE  /\ Same(c)
           /\ \/ calls'[c].todo = Rest(c)
              \/ /\ Head(calls[c].todo) = "passwordToKey"
                 /\ calls'[c].todo =
                        CompatDerive \o SubSeq(calls[c].todo, 3, Len(calls[c].todo))
              \/ /\ Head(calls[c].todo) = "hmacBlock"
                 /\ calls'[c].todo = calls[c].todo
<1> DEFINE op == Head(calls[c].todo)
<1>1. Turn(c, op)
  BY Turns
<1>2. Same(c)
  BY <1>1, TurnSame, Zenon
<1>3. ASSUME NEW new, Goes(c, new) PROVE calls'[c].todo = Rest(c)
  BY <1>3, Zenon DEF Goes
<1>4. CASE op \in Ops
  <2>1. \E new : Goes(c, new)
    BY <1>1, <1>4, Zenon DEF Turn, GoesWithKeys
  <2>2. QED
    BY <1>2, <1>3, <2>1, Zenon
<1>5. CASE op \in {"passwordToKey", "deriveBits", "importPassword", "hmacBlock"}
  <2>1. DeriveTurn(c, op)
    BY <1>5, DeriveTurns
  <2>2. QED
    BY <1>2, <1>3, <2>1, Zenon DEF DeriveTurn
<1>6. CASE op \notin AllOps
  <2>1. RsaTurn(c, op)
    BY <1>6, RsaTurns
  <2>2. QED
    BY <1>2, <1>3, <2>1, Zenon DEF RsaTurn
<1>7. QED
  BY <1>4, <1>5, <1>6 DEF AllOps

----------------------------------------------------------------------------
(* The order of the operations.                                            *)

\* An operation in front.
LEMMA PacedThen ==
    ASSUME NEW S, NEW op \in S, NEW rest, Paced(S, rest),
           rest # << >> => Follows(op, Head(rest))
    PROVE  /\ Paced(S, Then(op, rest)) /\ Then(op, rest) # << >>
           /\ Head(Then(op, rest)) = op
<1> DEFINE s == Then(op, rest)
<1>1. rest \in Seq(S) /\ \A i \in 1..(Len(rest) - 1) : Follows(rest[i], rest[i + 1])
  BY Zenon DEF Paced
<1>2. /\ s \in Seq(S) /\ Len(s) = Len(rest) + 1 /\ s[1] = op
      /\ \A i \in 1..Len(rest) : s[i + 1] = rest[i]
  BY <1>1 DEF Then
<1>3. s # << >> /\ Head(s) = op
  BY <1>1, <1>2
<1> HIDE DEF s
<1>4. ASSUME NEW i \in 1..(Len(s) - 1) PROVE Follows(s[i], s[i + 1])
  <2>1. CASE i = 1
    <3>1. rest # << >> /\ Head(rest) = rest[1] /\ s[1] = op /\ s[1 + 1] = rest[1]
      BY <1>1, <1>2, <2>1
    <3>2. Follows(op, rest[1])
      BY <3>1
    <3>3. QED
      BY <2>1, <3>1, <3>2
  <2>2. CASE i # 1
    <3>1. /\ i - 1 \in 1..(Len(rest) - 1) /\ (i - 1) + 1 = i
          /\ s[(i - 1) + 1] = rest[i - 1] /\ s[i + 1] = rest[i]
      BY <1>1, <1>2, <2>2
    <3>2. Follows(rest[i - 1], rest[(i - 1) + 1])
      BY <1>1, <3>1
    <3>3. QED
      BY <3>1, <3>2
  <2>3. QED
    BY <2>1, <2>2
<1>5. QED
  BY <1>2, <1>3, <1>4 DEF Paced, s

\* What is behind an operation.
LEMMA PacedTail ==
    ASSUME NEW S, NEW s, Paced(S, s), s # << >>
    PROVE  /\ Paced(S, Tail(s)) /\ Head(s) \in S
           /\ Tail(s) # << >> => Follows(Head(s), Head(Tail(s)))
<1>1. s \in Seq(S) /\ \A i \in 1..(Len(s) - 1) : Follows(s[i], s[i + 1])
  BY Zenon DEF Paced
<1> DEFINE t == Tail(s)
<1>2. /\ t \in Seq(S) /\ Len(t) = Len(s) - 1 /\ Head(s) = s[1] /\ Head(s) \in S
      /\ \A i \in 1..Len(t) : t[i] = s[i + 1]
  BY <1>1
<1>3. t # << >> => Head(t) = s[1 + 1] /\ 1 \in 1..(Len(s) - 1)
  BY <1>1, <1>2
<1> HIDE DEF t
<1>4. ASSUME NEW i \in 1..(Len(t) - 1) PROVE Follows(t[i], t[i + 1])
  <2>1. i + 1 \in 1..(Len(s) - 1) /\ t[i] = s[i + 1] /\ t[i + 1] = s[(i + 1) + 1]
    BY <1>1, <1>2
  <2>2. QED
    BY <1>1, <2>1
<1>5. t # << >> => Follows(Head(s), Head(t))
  BY <1>1, <1>2, <1>3
<1>6. QED
  BY <1>2, <1>4, <1>5 DEF Paced, t

\* importKeys is replaced by what may stand there.
LEMMA UnfoldIs ==
    ASSUME NEW S, NEW s \in Seq(S), NEW objects
    PROVE  \/ Unfold(s, objects) = s /\ (s # << >> => Head(s) # "importKeys")
           \/ /\ s # << >> /\ Head(s) = "importKeys"
              /\ \/ objects = Both /\ Unfold(s, objects) = Tail(s)
                 \/ Unfold(s, objects) =
                        Then("importKeyAES", Then("importKeyHMAC", Tail(s)))
<1> DEFINE rest == Tail(s)
<1>1. rest \in Seq(S) \/ s = << >>
  OBVIOUS
<1>2. CASE s = << >> \/ Head(s) # "importKeys"
  BY <1>2, Zenon DEF Unfold
<1>3. CASE ~(s = << >> \/ Head(s) # "importKeys")
  <2>1. Unfold(s, objects) =
            IF objects = Both THEN rest ELSE <<"importKeyAES", "importKeyHMAC">> \o rest
    BY <1>3, Zenon DEF Unfold
  <2> HIDE DEF rest
  <2>2. rest \in Seq(S)
    BY <1>1, <1>3
  <2>3. <<"importKeyAES", "importKeyHMAC">> \o rest =
            Then("importKeyAES", Then("importKeyHMAC", rest))
    BY <2>2 DEF Then
  <2>4. QED
    BY <1>3, <2>1, <2>3, Zenon DEF rest
<1>4. QED
  BY <1>2, <1>3

LEMMA PacedUnfold ==
    ASSUME NEW S, "importKeys" \in S => {"importKeyAES", "importKeyHMAC"} \subseteq S,
           NEW s, Paced(S, s), NEW objects
    PROVE  Paced(S, Unfold(s, objects))
<1>0. s \in Seq(S)
  BY Zenon DEF Paced
<1>1. CASE Unfold(s, objects) = s
  BY <1>1
<1>2. CASE s # << >> /\ Head(s) = "importKeys"
  <2>1. /\ Paced(S, Tail(s)) /\ Head(s) \in S
        /\ Tail(s) # << >> => Follows(Head(s), Head(Tail(s)))
    BY <1>2, PacedTail
  <2>2. "importKeyAES" \in S /\ "importKeyHMAC" \in S
    BY <1>2, <2>1
  <2>3. Tail(s) # << >> => Follows("importKeyHMAC", Head(Tail(s)))
    BY <1>2, <2>1 DEF Follows
  <2>4. Paced(S, Then("importKeyHMAC", Tail(s)))
        /\ Head(Then("importKeyHMAC", Tail(s))) = "importKeyHMAC"
    BY <2>1, <2>2, <2>3, PacedThen
  <2>5. Follows("importKeyAES", "importKeyHMAC")
    BY DEF Follows, Needs
  <2>6. Paced(S, Then("importKeyAES", Then("importKeyHMAC", Tail(s))))
    BY <2>2, <2>4, <2>5, PacedThen
  <2>7. QED
    BY <1>0, <2>1, <2>6, UnfoldIs
<1>3. QED
  BY <1>0, <1>1, <1>2, UnfoldIs

\* The next operation finds the keys it needs.
LEMMA ReadyOn ==
    ASSUME NEW S, NEW s, Paced(S, s), NEW objects, NEW before, before # "importKeys",
           s # << >> => Follows(before, Head(s)),
           before \in Needs \cup {"importKeyHMAC"} => objects = Both,
           before = "importKeyAES" => "aes" \in objects
    PROVE  Ready(Unfold(s, objects), objects)
<1>0. s \in Seq(S)
  BY Zenon DEF Paced
<1>1. CASE Unfold(s, objects) = s /\ (s # << >> => Head(s) # "importKeys")
  BY <1>1 DEF Ready, Follows
<1>2. CASE /\ s # << >> /\ Head(s) = "importKeys"
           /\ objects = Both /\ Unfold(s, objects) = Tail(s)
  <2>1. Tail(s) # << >> => Follows("importKeys", Head(Tail(s)))
    BY <1>2, PacedTail
  <2>2. QED
    BY <1>2, <2>1 DEF Ready, Follows
<1>3. CASE /\ s # << >> /\ Head(s) = "importKeys"
           /\ Unfold(s, objects) = Then("importKeyAES", Then("importKeyHMAC", Tail(s)))
  <2> DEFINE u == Then("importKeyAES", Then("importKeyHMAC", Tail(s)))
  <2>1. Tail(s) \in Seq(S)
    BY <1>0, <1>3
  <2>2. Head(u) = "importKeyAES"
    BY <2>1 DEF Then
  <2> HIDE DEF u
  <2>3. Ready(u, objects)
    BY <2>2 DEF Ready, Needs
  <2>4. QED
    BY <1>3, <2>3 DEF u
<1>4. QED
  BY <1>0, <1>1, <1>2, <1>3, UnfoldIs, Zenon

\* The other method of derivation may stand where the first stood.
LEMMA PacedCompat ==
    ASSUME NEW S, {"importPassword", "hmacBlock"} \subseteq S,
           NEW s, Paced(S, s), s # << >>, Head(s) = "passwordToKey"
    PROVE  /\ Paced(S, CompatDerive \o SubSeq(s, 3, Len(s)))
           /\ Head(CompatDerive \o SubSeq(s, 3, Len(s))) = "importPassword"
<1> DEFINE rest == SubSeq(s, 3, Len(s))
<1>1. /\ Paced(S, Tail(s))
      /\ Tail(s) # << >> => Head(Tail(s)) = "deriveBits"
  BY PacedTail DEF Follows
<1>2. s \in Seq(S) /\ Tail(s) \in Seq(S)
  BY <1>1, Zenon DEF Paced
<1>3. CASE Tail(s) = << >>
  <2>1. rest = << >>
    BY <1>2, <1>3
  <2>2. Paced(S, << >>)
    BY <1>1, <1>3
  <2> HIDE DEF rest
  <2>3. CompatDerive \o rest = Then("importPassword", Then("hmacBlock", << >>))
    BY <2>1 DEF CompatDerive, Then
  <2>4. /\ Paced(S, Then("hmacBlock", << >>))
        /\ Head(Then("hmacBlock", << >>)) = "hmacBlock"
    BY <2>2, PacedThen
  <2>5. Follows("importPassword", "hmacBlock")
    BY DEF Follows, Needs
  <2>6. /\ Paced(S, Then("importPassword", Then("hmacBlock", << >>)))
        /\ Head(Then("importPassword", Then("hmacBlock", << >>))) = "importPassword"
    BY <2>4, <2>5, PacedThen
  <2>7. QED
    BY <2>3, <2>6 DEF rest
<1>4. CASE Tail(s) # << >>
  <2>1. rest = Tail(Tail(s))
    BY <1>2, <1>4
  <2>2. /\ Paced(S, Tail(Tail(s)))
        /\ Tail(Tail(s)) # << >> => Follows("deriveBits", Head(Tail(Tail(s))))
    BY <1>1, <1>4, PacedTail
  <2> HIDE DEF rest
  <2>3. Paced(S, rest) /\ (rest # << >> => Follows("hmacBlock", Head(rest)))
    BY <2>1, <2>2 DEF Follows, Needs
  <2>4. rest \in Seq(S)
    BY <2>3, Zenon DEF Paced
  <2>5. CompatDerive \o rest = Then("importPassword", Then("hmacBlock", rest))
    BY <2>4 DEF CompatDerive, Then
  <2>6. Paced(S, Then("hmacBlock", rest)) /\ Head(Then("hmacBlock", rest)) = "hmacBlock"
    BY <2>3, PacedThen
  <2>7. Follows("importPassword", "hmacBlock")
    BY DEF Follows, Needs
  <2>8. /\ Paced(S, Then("importPassword", Then("hmacBlock", rest)))
        /\ Head(Then("importPassword", Then("hmacBlock", rest))) = "importPassword"
    BY <2>6, <2>7, PacedThen
  <2>9. QED
    BY <2>5, <2>8 DEF rest
<1>5. QED
  BY <1>3, <1>4

----------------------------------------------------------------------------
(* How the calls begin: their arguments and their chains.                  *)

LEMMA ArgumentsHave ==
    ASSUME NEW c \in Calls, NEW fn \in Offered, NEW args \in Arguments(c, fn)
    PROVE  /\ "ring" \in DOMAIN args <=> fn \in {"importKeys", "sym.encrypt", "sym.decrypt"}
           /\ "ring" \in DOMAIN args => args.ring \in Rings \cup Calls
           /\ "dict" \in DOMAIN args <=> fn \in Decrypts
           /\ fn \in {"asym.encrypt", "encryptAndSign"} => args.length \in Nat
           /\ fn \in PasswordUsers => "jwk" \notin DOMAIN args
           /\ fn \in Importers => "jwk" \in DOMAIN args /\ args.jwk \in Jwks
<1> USE DEF Decrypts, PasswordUsers, Importers
<1>1. CASE fn \in {"importKeys", "sym.encrypt"}
  <2>1. Arguments(c, fn) = [ring : Rings]
    BY <1>1 DEF Arguments
  <2>2. args \in [ring : Rings]
    BY <2>1
  <2>3. DOMAIN args = {"ring"} /\ args.ring \in Rings
    BY <2>2
  <2>4. QED
    BY <1>1, <2>3
<1>2. CASE fn = "sym.decrypt"
  <2> DEFINE rings == Rings \cup Sent({"genKeysAndEncrypt", "sym.generateKeys"})
             dicts == Arrivals({"sym.encrypt", "genKeysAndEncrypt"})
  <2>1. Arguments(c, fn) = [ring : rings, dict : dicts]
    BY <1>2 DEF Arguments
  <2>2. rings \subseteq Rings \cup Calls
    BY DEF Sent
  <2> HIDE DEF rings, dicts
  <2>3. args \in [ring : rings, dict : dicts]
    BY <2>1
  <2>4. DOMAIN args = {"ring", "dict"} /\ args.ring \in rings
    BY <2>3
  <2>5. QED
    BY <1>2, <2>2, <2>4
<1>3. CASE fn \in {"asym.encrypt", "genKeysAndEncrypt"}
  <2>1. Arguments(c, fn) = {[length |-> ContentLength[c]]}
    BY <1>3 DEF Arguments
  <2>2. args = [length |-> ContentLength[c]] /\ ContentLength[c] \in Nat
    BY <2>1, CallsAssumption
  <2>3. DOMAIN args = {"length"} /\ args.length \in Nat
    BY <2>2
  <2>4. QED
    BY <1>3, <2>3
<1>4. CASE fn = "encryptAndSign"
  <2>1. Arguments(c, fn) = [length : {ContentLength[c]}, signer : Parties]
    BY <1>4 DEF Arguments
  <2>2. args \in [length : {ContentLength[c]}, signer : Parties]
    BY <2>1
  <2>3. DOMAIN args = {"length", "signer"} /\ args.length \in Nat
    BY <2>2, CallsAssumption
  <2>4. QED
    BY <1>4, <2>3
<1>5. CASE fn = "asym.decrypt"
  <2> DEFINE dicts == Arrivals({"asym.encrypt", "encryptAndSign"})
  <2>1. Arguments(c, fn) = [dict : dicts]
    BY <1>5 DEF Arguments
  <2> HIDE DEF dicts
  <2>2. args \in [dict : dicts]
    BY <2>1
  <2>3. DOMAIN args = {"dict"}
    BY <2>2
  <2>4. QED
    BY <1>5, <2>3
<1>6. CASE fn = "verifyAndDecrypt"
  <2> DEFINE dicts == Arrivals({"encryptAndSign"})
  <2>1. Arguments(c, fn) = [dict : dicts, signer : Parties]
    BY <1>6 DEF Arguments
  <2> HIDE DEF dicts
  <2>2. args \in [dict : dicts, signer : Parties]
    BY <2>1
  <2>3. DOMAIN args = {"dict", "signer"}
    BY <2>2
  <2>4. QED
    BY <1>6, <2>3
<1>7. CASE fn \in {"encryptWithPassword", "derive"}
  <2>1. Arguments(c, fn) = [password : Passwords]
    BY <1>7 DEF Arguments
  <2>2. args \in [password : Passwords]
    BY <2>1
  <2>3. DOMAIN args = {"password"}
    BY <2>2
  <2>4. QED
    BY <1>7, <2>3
<1>8. CASE fn = "decryptWithPassword"
  <2> DEFINE dicts == Arrivals({"encryptWithPassword"})
  <2>1. Arguments(c, fn) = [password : Passwords, dict : dicts]
    BY <1>8 DEF Arguments
  <2> HIDE DEF dicts
  <2>2. args \in [password : Passwords, dict : dicts]
    BY <2>1
  <2>3. DOMAIN args = {"password", "dict"}
    BY <2>2
  <2>4. QED
    BY <1>8, <2>3
<1>9. CASE fn \in {"importEncryptKey", "importEncryptPrivateKey", "importEncryptPublicKey"}
  <2>1. Arguments(c, fn) = [jwk : Jwks]
    BY <1>9 DEF Arguments
  <2>2. args \in [jwk : Jwks]
    BY <2>1
  <2>3. DOMAIN args = {"jwk"} /\ args.jwk \in Jwks
    BY <2>2
  <2>4. QED
    BY <1>9, <2>3
<1>10. CASE fn \in {"sym.generateKeys", "asym.generateKeys", "generateEncryptKey",
                    "generateSignKey"}
  <2>1. Arguments(c, fn) = {<< >>}
    BY <1>10 DEF Arguments
  <2>2. DOMAIN args = {}
    BY <2>1
  <2>3. QED
    BY <1>10, <2>2
<1>11. QED
  BY <1>1, <1>2, <1>3, <1>4, <1>5, <1>6, <1>7, <1>8, <1>9, <1>10 DEF Offered

\* A chain that keeps the order and needs no key at once.
Leading(S, s) == Paced(S, s) /\ s # << >> /\ Follows("start", Head(s))
LEMMA OpensWith ==
    ASSUME NEW S, NEW op \in S, NEW rest, Paced(S, rest),
           rest # << >> => Follows(op, Head(rest)), Follows("start", op)
    PROVE  Leading(S, Then(op, rest))
BY PacedThen DEF Leading

LEMMA RsaPaced ==
    ASSUME NEW s \in Seq(RsaOps), s # << >>
    PROVE  Leading(RsaOps, s)
<1>1. \A a, b \in RsaOps : Follows(a, b) /\ Follows("start", b)
  BY DEF Follows, RsaOps, Needs
<1>2. Head(s) \in RsaOps /\ \A i \in 1..(Len(s) - 1) : s[i] \in RsaOps /\ s[i + 1] \in RsaOps
  OBVIOUS
<1>3. QED
  BY <1>1, <1>2 DEF Leading, Paced

LEMMA NonePaced == \A S : Paced(S, << >>)
BY DEF Paced

\* The chains of encryption, from importKeys on,
LEMMA SealingPaced ==
    ASSUME NEW t, Paced(Sealers, t),
           t # << >> => Follows("signHMAC", Head(t))
    PROVE  /\ Leading(Sealers, ToImportKeys(t)) /\ Head(ToImportKeys(t)) = "importKeys"
           /\ Leading(Sealers, ToGenerateAES(t)) /\ Head(ToGenerateAES(t)) = "generateKeyAES"
<1>1. /\ "signHMAC" \in Sealers /\ "encryptAES" \in Sealers /\ "importKeys" \in Sealers
      /\ "importKeyHMAC" \in Sealers /\ "importKeyAES" \in Sealers
      /\ "exportKeyHMAC" \in Sealers /\ "exportKeyAES" \in Sealers
      /\ "generateKeyHMAC" \in Sealers /\ "generateKeyAES" \in Sealers
  BY DEF Sealers, Harmless
<1>2. /\ Follows("encryptAES", "signHMAC") /\ Follows("importKeys", "encryptAES")
      /\ Follows("importKeyHMAC", "importKeys") /\ Follows("importKeyAES", "importKeyHMAC")
      /\ Follows("exportKeyHMAC", "importKeyAES") /\ Follows("exportKeyAES", "exportKeyHMAC")
      /\ Follows("generateKeyHMAC", "exportKeyAES")
      /\ Follows("generateKeyAES", "generateKeyHMAC")
      /\ Follows("start", "importKeys") /\ Follows("start", "generateKeyAES")
  BY DEF Follows, Needs
<1>3. Paced(Sealers, ToSignHMAC(t)) /\ Head(ToSignHMAC(t)) = "signHMAC"
  BY <1>1, PacedThen DEF ToSignHMAC
<1>4. Paced(Sealers, ToEncryptAES(t)) /\ Head(ToEncryptAES(t)) = "encryptAES"
  BY <1>1, <1>2, <1>3, PacedThen DEF ToEncryptAES
<1>5. /\ Paced(Sealers, ToImportKeys(t)) /\ Head(ToImportKeys(t)) = "importKeys"
      /\ ToImportKeys(t) # << >>
  BY <1>1, <1>2, <1>4, PacedThen DEF ToImportKeys
<1>6. Paced(Sealers, ToImportHMAC(t)) /\ Head(ToImportHMAC(t)) = "importKeyHMAC"
  BY <1>1, <1>2, <1>5, PacedThen DEF ToImportHMAC
<1>7. Paced(Sealers, ToImportAES(t)) /\ Head(ToImportAES(t)) = "importKeyAES"
  BY <1>1, <1>2, <1>6, PacedThen DEF ToImportAES
<1>8. Paced(Sealers, ToExportHMAC(t)) /\ Head(ToExportHMAC(t)) = "exportKeyHMAC"
  BY <1>1, <1>2, <1>7, PacedThen DEF ToExportHMAC
<1>9. Paced(Sealers, ToExportAES(t)) /\ Head(ToExportAES(t)) = "exportKeyAES"
  BY <1>1, <1>2, <1>8, PacedThen DEF ToExportAES
<1>10. Paced(Sealers, ToGenerateHMAC(t)) /\ Head(ToGenerateHMAC(t)) = "generateKeyHMAC"
  BY <1>1, <1>2, <1>9, PacedThen DEF ToGenerateHMAC
<1>11. /\ Paced(Sealers, ToGenerateAES(t)) /\ Head(ToGenerateAES(t)) = "generateKeyAES"
       /\ ToGenerateAES(t) # << >>
  BY <1>1, <1>2, <1>10, PacedThen DEF ToGenerateAES
<1>12. QED
  BY <1>2, <1>5, <1>11 DEF Leading

\* those of encryptAndSign,
LEMMA SigningPaced == Leading(Sealers, AtGenerateAES)
<1>1. "signEncrypted" \in Sealers /\ "signData" \in Sealers /\ "encryptRSA" \in Sealers
  BY DEF Sealers, Harmless
<1>2. /\ Follows("signData", "signEncrypted") /\ Follows("encryptRSA", "signData")
      /\ Follows("signHMAC", "encryptRSA")
  BY DEF Follows, Needs
<1>3. Paced(Sealers, AtSignEncrypted) /\ Head(AtSignEncrypted) = "signEncrypted"
  BY <1>1, NonePaced, PacedThen DEF AtSignEncrypted
<1>4. Paced(Sealers, AtSignData) /\ Head(AtSignData) = "signData"
  BY <1>1, <1>2, <1>3, PacedThen DEF AtSignData
<1>5. Paced(Sealers, AtEncryptRSA) /\ Head(AtEncryptRSA) = "encryptRSA"
  BY <1>1, <1>2, <1>4, PacedThen DEF AtEncryptRSA
<1>6. Leading(Sealers, ToGenerateAES(AtEncryptRSA))
  BY <1>2, <1>5, SealingPaced
<1>7. ToGenerateAES(AtEncryptRSA) = AtGenerateAES
  BY Zenon DEF ToGenerateAES, ToGenerateHMAC, ToExportAES, ToExportHMAC, ToImportAES,
     ToImportHMAC, ToImportKeys, ToEncryptAES, ToSignHMAC, AtGenerateAES, AtGenerateHMAC,
     AtExportAES, AtExportHMAC, AtImportAES, AtImportHMAC, AtImportKeys, AtEncryptAES,
     AtSignHMAC
<1>8. QED
  BY <1>6, <1>7, Zenon

\* and of decryption.
LEMMA OpeningPaced ==
    /\ Leading(Openers, SymDecrypt) /\ Head(SymDecrypt) = "importKeys"
    /\ \A d : /\ Leading(Openers, AsymDecrypt(d))
              /\ Leading(Openers, VerifyAndDecrypt(d))
<1>1. /\ "decryptAES" \in Openers /\ "verifyHMAC" \in Openers /\ "importKeys" \in Openers
      /\ "decryptRSA" \in Openers /\ "verifyData" \in Openers
      /\ "verifyEncrypted" \in Openers
  BY DEF Openers, Harmless
<1>2. /\ Follows("verifyHMAC", "decryptAES") /\ Follows("importKeys", "verifyHMAC")
      /\ Follows("start", "importKeys") /\ Follows("decryptRSA", "importKeys")
      /\ Follows("verifyData", "importKeys") /\ Follows("decryptRSA", "verifyData")
      /\ Follows("verifyEncrypted", "decryptRSA") /\ Follows("start", "verifyEncrypted")
      /\ Follows("start", "decryptRSA")
  BY DEF Follows, Needs
<1>3. Paced(Openers, AtDecryptAES) /\ Head(AtDecryptAES) = "decryptAES"
  BY <1>1, NonePaced, PacedThen DEF AtDecryptAES
<1>4. Paced(Openers, AtVerifyHMAC) /\ Head(AtVerifyHMAC) = "verifyHMAC"
  BY <1>1, <1>2, <1>3, PacedThen DEF AtVerifyHMAC
<1>5. /\ Paced(Openers, SymDecrypt) /\ Head(SymDecrypt) = "importKeys"
      /\ SymDecrypt # << >>
  BY <1>1, <1>2, <1>4, PacedThen, ReadingChains
<1>6. ASSUME NEW d
      PROVE  Leading(Openers, AsymDecrypt(d)) /\ Leading(Openers, VerifyAndDecrypt(d))
  <2> DEFINE part == AesPart(d)
  <2>1. Paced(Openers, part) /\ (part # << >> => Head(part) = "importKeys")
    BY <1>5, NonePaced DEF AesPart
  <2>2. /\ AsymDecrypt(d) = Then("decryptRSA", part)
        /\ VerifyAndDecrypt(d) = AtVerifyEncrypted(part)
    BY OpeningChain, ReadingChain, Zenon
  <2> HIDE DEF part
  <2>3. Leading(Openers, Then("decryptRSA", part))
    BY <1>1, <1>2, <2>1, PacedThen DEF Leading
  <2>4. Paced(Openers, AtVerifyData(part)) /\ Head(AtVerifyData(part)) = "verifyData"
    BY <1>1, <1>2, <2>1, PacedThen DEF AtVerifyData
  <2>5. Paced(Openers, AtDecryptRSA(part)) /\ Head(AtDecryptRSA(part)) = "decryptRSA"
    BY <1>1, <1>2, <2>4, PacedThen DEF AtDecryptRSA
  <2>6. Leading(Openers, AtVerifyEncrypted(part))
    BY <1>1, <1>2, <2>5, PacedThen DEF AtVerifyEncrypted, Leading
  <2>7. QED
    BY <2>2, <2>3, <2>6, Zenon DEF part
<1>7. QED
  BY <1>2, <1>5, <1>6 DEF Leading

\* A derivation may stand before any of them.
LEMMA DerivingPaced ==
    ASSUME NEW S, {"passwordToKey", "deriveBits", "importPassword", "hmacBlock"} \subseteq S,
           NEW t, Paced(S, t), t # << >> => Head(t) = "importKeys"
    PROVE  Leading(S, ToPassword(t)) /\ Leading(S, ToImportPassword(t))
<1>1. /\ Follows("deriveBits", "importKeys") /\ Follows("hmacBlock", "importKeys")
      /\ Follows("passwordToKey", "deriveBits") /\ Follows("importPassword", "hmacBlock")
      /\ Follows("start", "passwordToKey") /\ Follows("start", "importPassword")
  BY DEF Follows, Needs
<1>2. Paced(S, ToDeriveBits(t)) /\ Head(ToDeriveBits(t)) = "deriveBits"
  BY <1>1, PacedThen DEF ToDeriveBits
<1>3. Paced(S, ToHmacBlock(t)) /\ Head(ToHmacBlock(t)) = "hmacBlock"
  BY <1>1, PacedThen DEF ToHmacBlock
<1>4. QED
  BY <1>1, <1>2, <1>3, PacedThen DEF ToPassword, ToImportPassword, Leading

LEMMA ChainPaced ==
    ASSUME NEW c \in Calls, NEW fn \in Offered, NEW args \in Arguments(c, fn), NEW p
    PROVE  Leading(OpsOf(fn), Chain(fn, p, args))
<1> USE DEF OpsOf, Encrypts, Decrypts, KeyMakers, Importers
<1>1. ASSUME NEW S, Harmless \subseteq S, NEW t, Paced(S, t),
             t # << >> => Head(t) = "importKeys"
      PROVE  Leading(S, ToPassword(t)) /\ Leading(S, ToImportPassword(t))
  <2>1. {"passwordToKey", "deriveBits", "importPassword", "hmacBlock"} \subseteq S
    BY <1>1 DEF Harmless
  <2>2. QED
    BY <1>1, <2>1, DerivingPaced
<1>2. /\ Leading(Sealers, ToImportKeys(<< >>)) /\ Leading(Sealers, ToGenerateAES(<< >>))
      /\ Head(ToImportKeys(<< >>)) = "importKeys"
  BY NonePaced, SealingPaced
<1>3. Leading(Sealers, ToGenerateAES(OnlyRSA))
  <2>1. "encryptRSA" \in Sealers /\ Follows("signHMAC", "encryptRSA")
    BY DEF Sealers, Follows, Needs
  <2>2. Paced(Sealers, OnlyRSA) /\ Head(OnlyRSA) = "encryptRSA"
    BY <2>1, NonePaced, PacedThen DEF OnlyRSA
  <2>3. QED
    BY <2>1, <2>2, SealingPaced
<1>4. CASE fn = "importKeys"
  <2>1. Chain(fn, p, args) = Then("importKeys", << >>) /\ OpsOf(fn) = Harmless
    BY <1>4 DEF Chain, ImportKeys, Then
  <2>2. "importKeys" \in Harmless /\ Follows("start", "importKeys")
    BY DEF Harmless, Follows, Needs
  <2>3. Leading(Harmless, Then("importKeys", << >>))
    BY <2>2, NonePaced, OpensWith
  <2>4. QED
    BY <2>1, <2>3, Zenon
<1>5. CASE fn = "sym.generateKeys"
  <2> DEFINE s == <<"generateKeyAES", "generateKeyHMAC", "exportKeyAES",
                    "exportKeyHMAC", "importKeyAES", "importKeyHMAC">>
  <2>1. Chain(fn, p, args) = s /\ OpsOf(fn) = Harmless
    BY <1>5 DEF Chain, SymGenerateKeys
  <2>2. s \in Seq(Harmless) /\ Len(s) = 6 /\ s # << >> /\ Head(s) = "generateKeyAES"
    BY DEF Harmless
  <2>3. /\ s[1] = "generateKeyAES" /\ s[2] = "generateKeyHMAC" /\ s[3] = "exportKeyAES"
        /\ s[4] = "exportKeyHMAC" /\ s[5] = "importKeyAES" /\ s[6] = "importKeyHMAC"
    OBVIOUS
  <2> HIDE DEF s
  <2>4. ASSUME NEW i \in 1..5 PROVE Follows(s[i], s[i + 1])
    BY <2>3 DEF Follows, Needs
  <2>5. QED
    BY <2>1, <2>2, <2>4 DEF Leading, Paced, Follows, Needs
<1>6. CASE fn = "sym.encrypt"
  <2>1. Chain(fn, p, args) = ToImportKeys(<< >>) /\ OpsOf(fn) = Sealers
    BY <1>6, SymEncryptChain DEF Chain
  <2>2. QED
    BY <1>2, <2>1, Zenon
<1>7. CASE fn = "genKeysAndEncrypt"
  <2>1. Chain(fn, p, args) = ToGenerateAES(<< >>) /\ OpsOf(fn) = Sealers
    BY <1>7, GenerateChain DEF Chain
  <2>2. QED
    BY <1>2, <2>1, Zenon
<1>8. CASE fn = "sym.decrypt"
  <2>1. Chain(fn, p, args) = SymDecrypt /\ OpsOf(fn) = Openers
    BY <1>8 DEF Chain
  <2>2. QED
    BY <2>1, OpeningPaced, Zenon
<1>9. CASE fn = "asym.encrypt"
  <2>1. Chain(fn, p, args) = AsymEncrypt(args.length) /\ OpsOf(fn) = Sealers
    BY <1>9 DEF Chain
  <2>2. args.length \in Nat
    BY <1>9, ArgumentsHave
  <2>3. QED
    BY <1>3, <2>1, <2>2, AsymChain, Zenon
<1>10. CASE fn = "encryptAndSign"
  <2>1. Chain(fn, p, args) = EncryptAndSign(args.length) /\ OpsOf(fn) = Sealers
    BY <1>10 DEF Chain
  <2>2. args.length \in Nat
    BY <1>10, ArgumentsHave
  <2>3. QED
    BY <2>1, <2>2, SigningChain, SigningPaced, Zenon
<1>11. CASE fn = "asym.decrypt"
  <2>1. Chain(fn, p, args) = AsymDecrypt(args.dict) /\ OpsOf(fn) = Openers
    BY <1>11 DEF Chain
  <2>2. QED
    BY <2>1, OpeningPaced, Zenon
<1>12. CASE fn = "verifyAndDecrypt"
  <2>1. Chain(fn, p, args) = VerifyAndDecrypt(args.dict) /\ OpsOf(fn) = Openers
    BY <1>12 DEF Chain
  <2>2. QED
    BY <2>1, OpeningPaced, Zenon
<1>13. CASE fn \in {"asym.generateKeys", "generateEncryptKey", "generateSignKey",
                    "importEncryptKey", "importEncryptPrivateKey", "importEncryptPublicKey"}
  <2>1. OpsOf(fn) = RsaOps
    BY <1>13
  <2>2. /\ GenerateEncryptKey \in Seq(RsaOps) /\ GenerateEncryptKey # << >>
        /\ GenerateSignKey \in Seq(RsaOps) /\ GenerateSignKey # << >>
        /\ ImportEncryptPrivateKey \in Seq(RsaOps) /\ ImportEncryptPrivateKey # << >>
        /\ ImportEncryptPublicKey \in Seq(RsaOps) /\ ImportEncryptPublicKey # << >>
    BY DEF GenerateEncryptKey, GenerateSignKey, ImportEncryptPrivateKey,
       ImportEncryptPublicKey, RsaOps
  <2>3. ASSUME NEW x \in Seq(RsaOps), NEW y \in Seq(RsaOps), x # << >>
        PROVE  x \o y \in Seq(RsaOps) /\ x \o y # << >>
    BY <2>3
  <2>4. /\ AsymGenerateKeys \in Seq(RsaOps) /\ AsymGenerateKeys # << >>
        /\ ImportEncryptKey \in Seq(RsaOps) /\ ImportEncryptKey # << >>
    BY <2>2, <2>3, Zenon DEF AsymGenerateKeys, ImportEncryptKey
  <2>5. Chain(fn, p, args) \in {GenerateEncryptKey, GenerateSignKey,
            ImportEncryptPrivateKey, ImportEncryptPublicKey, AsymGenerateKeys,
            ImportEncryptKey}
    BY <1>13 DEF Chain
  <2>6. Chain(fn, p, args) \in Seq(RsaOps) /\ Chain(fn, p, args) # << >>
    BY <2>2, <2>4, <2>5, Zenon
  <2>7. QED
    BY <2>1, <2>6, RsaPaced, Zenon
<1>14. CASE fn = "derive"
  <2>1. Chain(fn, p, args) = Derive(p) /\ OpsOf(fn) = Harmless
    BY <1>14 DEF Chain
  <2>2. Derive(p) \in {ToPassword(<< >>), ToImportPassword(<< >>)}
    BY DEF Derive, CompatDerive, ToPassword, ToDeriveBits, ToImportPassword,
       ToHmacBlock, Then
  <2>3. QED
    BY <1>1, <2>1, <2>2, NonePaced, Zenon
<1>15. CASE fn = "encryptWithPassword"
  <2>1. Chain(fn, p, args) = Derive(p) \o SymEncrypt /\ OpsOf(fn) = Sealers
    BY <1>15 DEF Chain, EncryptWithPassword
  <2>2. Chain(fn, p, args) \in {ToPassword(ToImportKeys(<< >>)),
                                ToImportPassword(ToImportKeys(<< >>))}
    BY <2>1, SymEncryptChain, DeriveThen, DerivedLead, Zenon
  <2>3. Harmless \subseteq Sealers /\ Paced(Sealers, ToImportKeys(<< >>))
    BY <1>2 DEF Sealers, Leading
  <2>4. QED
    BY <1>1, <1>2, <2>1, <2>2, <2>3, Zenon
<1>16. CASE fn = "decryptWithPassword"
  <2>1. Chain(fn, p, args) = Derive(p) \o SymDecrypt /\ OpsOf(fn) = Openers
    BY <1>16 DEF Chain, DecryptWithPassword
  <2>2. Chain(fn, p, args) \in {ToPassword(SymDecrypt), ToImportPassword(SymDecrypt)}
    BY <2>1, DeriveThen, DerivedLead, Zenon
  <2>3. Harmless \subseteq Openers /\ Paced(Openers, SymDecrypt)
    BY OpeningPaced DEF Openers, Leading
  <2>4. QED
    BY <1>1, <2>1, <2>2, <2>3, OpeningPaced, Zenon
<1>17. QED
  BY <1>4, <1>5, <1>6, <1>7, <1>8, <1>9, <1>10, <1>11, <1>12, <1>13, <1>14, <1>15, <1>16
  DEF Offered

\* What a call that begins is.
LEMMA StartHas ==
    ASSUME OnceInv, NEW c \in Calls, Start(c)
    PROVE  /\ calls[c].fn = "none" /\ cached' = cached
           /\ \E p, args : /\ calls'[c].fn \in Offered
                           /\ args \in Arguments(c, calls'[c].fn)
                           /\ calls'[c].args = args
                           /\ Opens(c, calls'[c].fn, p, args)
<1>1. Functions[c] \subseteq Offered
  BY CallsAssumption
<1>2. \E p, args : /\ calls'[c].fn \in Offered
                   /\ args \in Arguments(c, calls'[c].fn)
                   /\ Opens(c, calls'[c].fn, p, args)
  BY <1>1, StartOpens, Zenon
<1>3. cached' = cached
  BY Zenon DEF Start
<1>4. QED
  BY <1>2, <1>3, Starts, Zenon DEF Opens

LEMMA ArgsInit == Init => ArgsInv
BY DEF Init, Idle, ArgsInv

\* Arguments are what they were when the call began.
LEMMA ArgsStep == OnceInv /\ ArgsInv /\ [Next]_vars => ArgsInv'
<1> SUFFICES ASSUME OnceInv, ArgsInv, [Next]_vars PROVE ArgsInv'
  OBVIOUS
<1>1. ASSUME NEW c \in Calls, calls'[c].fn # "none"
      PROVE  /\ "ring" \in DOMAIN calls'[c].args <=>
                    calls'[c].fn \in {"importKeys", "sym.encrypt", "sym.decrypt"}
             /\ "ring" \in DOMAIN calls'[c].args => calls'[c].args.ring \in Rings \cup Calls
             /\ "dict" \in DOMAIN calls'[c].args <=> calls'[c].fn \in Decrypts
  <2>1. CASE calls'[c] = calls[c]
    BY <1>1, <2>1, Zenon DEF ArgsInv
  <2>2. CASE Start(c)
    <3>1. PICK args : /\ calls'[c].fn \in Offered /\ args \in Arguments(c, calls'[c].fn)
                      /\ calls'[c].args = args
      BY <2>2, StartHas, Zenon
    <3>2. ASSUME NEW fn \in Offered, args \in Arguments(c, fn)
          PROVE  /\ "ring" \in DOMAIN args <=>
                        fn \in {"importKeys", "sym.encrypt", "sym.decrypt"}
                 /\ "ring" \in DOMAIN args => args.ring \in Rings \cup Calls
                 /\ "dict" \in DOMAIN args <=> fn \in Decrypts
      BY <3>2, ArgumentsHave
    <3>3. QED
      BY <3>1, <3>2, Zenon
  <2>3. CASE Settles(c)
    <3>1. Same(c)
      BY <2>3, Turns, TurnSame, Zenon DEF Stops
    <3>2. QED
      BY <1>1, <3>1, Zenon DEF ArgsInv, Same
  <2>4. QED
    BY <2>1, <2>2, <2>3, MovesOne, Zenon
<1>2. QED
  BY <1>1, Zenon DEF ArgsInv

----------------------------------------------------------------------------
(* The imported keys.                                                      *)

LEMMA KeysObjectIs ==
    ASSUME ArgsInv, NEW c \in Calls, calls[c].fn # "none"
    PROVE  KeysObject(c) \in Rings \cup Calls
BY Zenon DEF ArgsInv, KeysObject

LEMMA KeysObjectStays ==
    ASSUME NEW c \in Calls, calls'[c].args = calls[c].args
    PROVE  KeysObject(c)' = KeysObject(c)
BY DEF KeysObject

\* No key is taken out of a keys object.
LEMMA CachedGrows ==
    ASSUME CachedOK, [Next]_vars, NEW o \in Rings \cup Calls
    PROVE  cached[o] \subseteq cached'[o] /\ cached'[o] \subseteq Both
<1>1. cached'[o] \subseteq Both
  <2>1. CachedOK'
    BY CachedStep
  <2>2. QED
    BY <2>1 DEF CachedOK
<1>2. ASSUME NEW c, NEW op, NEW half, importKey(c, op, half) PROVE cached[o] \subseteq cached'[o]
  BY <1>2 DEF importKey, CachedOK
<1>3. ASSUME NEW c \in Calls, Settles(c) PROVE cached[o] \subseteq cached'[o]
  <2>1. CASE importKeyAES(c) \/ importKeyHMAC(c)
    BY <1>2, <2>1, Zenon DEF importKeyAES, importKeyHMAC
  <2>2. CASE ~importKeyAES(c) /\ ~importKeyHMAC(c)
    <3>1. cached' = cached
      BY <1>3, <2>2, Zenon
      DEF Settles, Does, generateKeyAES, generateKeyHMAC, symExportKey, encryptAES,
          signHMAC, verifyHMAC, decryptAES, encryptRSA, sign, decryptRSA,
          verifySignature, generateRsaKeys, asymExportKey, asymImportKey,
          passwordToKey, deriveBits, importPassword, hmacBlock, fails
    <3>2. QED
      BY <3>1
  <2>3. QED
    BY <2>1, <2>2
<1>4. ASSUME NEW c \in Calls, Start(c) PROVE cached' = cached
  BY <1>4, Zenon DEF Start
<1>5. QED
  BY <1>1, <1>3, <1>4 DEF Next, vars

\* An import that resolves puts its key there.
LEMMA Caches ==
    ASSUME OnceInv, CachedOK, ArgsInv, NEW c \in Calls, calls[c].fn # "none",
           Settles(c), ~Stops(c)
    PROVE  /\ Head(calls[c].todo) = "importKeyAES" => "aes" \in cached'[KeysObject(c)]
           /\ Head(calls[c].todo) = "importKeyHMAC" => "hmac" \in cached'[KeysObject(c)]
<1> DEFINE op == Head(calls[c].todo)
<1>0. ASSUME NEW o, Pending(c, o) PROVE calls[c].todo # << >> /\ op = o
  BY <1>0, Zenon DEF Pending
<1>1. ASSUME NEW o, NEW half, importKey(c, o, half) PROVE half \in cached'[KeysObject(c)]
  BY <1>1, KeysObjectIs DEF importKey, CachedOK
<1>2. ASSUME op \in {"importKeyAES", "importKeyHMAC"}
      PROVE  importKeyAES(c) \/ importKeyHMAC(c)
  <2>1. ASSUME NEW o \in {"generateKeyAES", "generateKeyHMAC", "exportKeyAES",
                "exportKeyHMAC", "encryptAES", "signHMAC", "encryptRSA", "signData",
                "signEncrypted", "verifyEncrypted", "decryptRSA", "verifyData",
                "verifyHMAC", "decryptAES", "generateEncryptKeys", "generateSignKeys",
                "exportPublic", "exportPrivate", "importPrivate", "importPublic",
                "passwordToKey", "deriveBits", "importPassword", "hmacBlock"}
        PROVE  ~Pending(c, o)
    <3>1. op # o
      BY <1>2
    <3>2. QED
      BY <1>0, <3>1, Zenon
  <2>2. ~generateKeyAES(c) /\ ~generateKeyHMAC(c) /\ ~symExportKey(c)
    BY <2>1, Zenon DEF generateKeyAES, generateKeyHMAC, symExportKey, Does
  <2>3. /\ ~encryptAES(c) /\ ~signHMAC(c) /\ ~verifyHMAC(c) /\ ~decryptAES(c)
        /\ ~encryptRSA(c) /\ ~sign(c) /\ ~decryptRSA(c) /\ ~verifySignature(c)
    BY <2>1, Zenon DEF encryptAES, signHMAC, verifyHMAC, decryptAES, encryptRSA, sign,
       decryptRSA, verifySignature, Does
  <2>4. /\ ~generateRsaKeys(c) /\ ~asymExportKey(c) /\ ~asymImportKey(c)
        /\ ~passwordToKey(c) /\ ~deriveBits(c) /\ ~importPassword(c) /\ ~hmacBlock(c)
    BY <2>1, Zenon DEF generateRsaKeys, asymExportKey, asymImportKey, passwordToKey,
       deriveBits, importPassword, hmacBlock, Does
  <2>5. ~fails(c)
    BY StopTo, Zenon DEF fails
  <2>6. QED
    BY <2>2, <2>3, <2>4, <2>5, Zenon DEF Settles
<1>3. importKeyAES(c) => op = "importKeyAES" /\ "aes" \in cached'[KeysObject(c)]
  BY <1>0, <1>1, Zenon DEF importKeyAES, importKey
<1>4. importKeyHMAC(c) => op = "importKeyHMAC" /\ "hmac" \in cached'[KeysObject(c)]
  BY <1>0, <1>1, Zenon DEF importKeyHMAC, importKey
<1>5. QED
  BY <1>2, <1>3, <1>4

----------------------------------------------------------------------------
(* Each call goes on in order.                                             *)

LEMMA OpsOfHas ==
    ASSUME NEW fn
    PROVE  /\ "importKeys" \in OpsOf(fn) => {"importKeyAES", "importKeyHMAC"} \subseteq OpsOf(fn)
           /\ "passwordToKey" \in OpsOf(fn) => {"importPassword", "hmacBlock"} \subseteq OpsOf(fn)
<1>1. OpsOf(fn) \in {Sealers, Openers, RsaOps, Harmless}
  BY Zenon DEF OpsOf
<1>2. ASSUME NEW S \in {Sealers, Openers, RsaOps, Harmless}
      PROVE  /\ "importKeys" \in S => {"importKeyAES", "importKeyHMAC"} \subseteq S
             /\ "passwordToKey" \in S => {"importPassword", "hmacBlock"} \subseteq S
  BY DEF Sealers, Openers, RsaOps, Harmless
<1>3. QED
  BY <1>1, <1>2, Zenon

LEMMA PaceInit == Init => PaceInv
BY DEF Init, Idle, PaceInv

\* A call that moves.
LEMMA PaceGoes ==
    ASSUME OnceInv, CachedOK, ArgsInv, [Next]_vars,
           NEW c \in Calls, calls[c].fn # "none", Settles(c),
           Paced(OpsOf(calls[c].fn), calls[c].todo),
           Ready(calls[c].todo, cached[KeysObject(c)])
    PROVE  /\ Paced(OpsOf(calls[c].fn), calls'[c].todo)
           /\ Ready(calls'[c].todo, cached'[KeysObject(c)])
<1> DEFINE S == OpsOf(calls[c].fn)
           s == calls[c].todo
           objects == cached'[KeysObject(c)]
<1>1. s # << >>
  BY Turns
<1>2. KeysObject(c) \in Rings \cup Calls
  BY KeysObjectIs
<1>3. cached[KeysObject(c)] \subseteq objects /\ objects \subseteq Both
  BY <1>2, CachedGrows
<1>4. CASE Stops(c)
  <2>1. calls'[c].todo = << >>
    BY <1>4, Zenon DEF Stops
  <2>2. QED
    BY <2>1, NonePaced DEF Ready
<1>5. CASE ~Stops(c)
  <2>1. /\ Paced(S, Tail(s)) /\ Head(s) \in S
        /\ Tail(s) # << >> => Follows(Head(s), Head(Tail(s)))
    BY <1>1, PacedTail
  <2>2. CASE calls'[c].todo = Rest(c)
    <3>1. Rest(c) = Unfold(Tail(s), objects)
      BY DEF Rest
    <3>2. Paced(S, Unfold(Tail(s), objects))
      BY <2>1, OpsOfHas, PacedUnfold
    <3>3. Head(s) # "importKeys"
      BY <1>1 DEF Ready
    <3>4. Head(s) \in Needs \cup {"importKeyHMAC"} => objects = Both
      <4>1. CASE Head(s) \in Needs
        BY <1>1, <1>3, <4>1 DEF Ready
      <4>2. CASE Head(s) = "importKeyHMAC"
        <5>1. "aes" \in objects
          BY <1>1, <1>3, <4>2 DEF Ready
        <5>2. "hmac" \in objects
          BY <1>5, <4>2, Caches
        <5>3. QED
          BY <1>3, <5>1, <5>2 DEF Both
      <4>3. QED
        BY <4>1, <4>2
    <3>5. Head(s) = "importKeyAES" => "aes" \in objects
      BY <1>5, Caches
    <3>6. Ready(Unfold(Tail(s), objects), objects)
      BY <2>1, <3>3, <3>4, <3>5, ReadyOn
    <3>7. QED
      BY <2>2, <3>1, <3>2, <3>6, Zenon
  <2>3. CASE Head(s) = "passwordToKey" /\ calls'[c].todo = CompatDerive \o SubSeq(s, 3, Len(s))
    <3>1. {"importPassword", "hmacBlock"} \subseteq S
      BY <2>1, <2>3, OpsOfHas, Zenon
    <3>2. Paced(S, calls'[c].todo) /\ Head(calls'[c].todo) = "importPassword"
      BY <1>1, <2>3, <3>1, PacedCompat
    <3>3. Ready(calls'[c].todo, objects)
      BY <3>2 DEF Ready, Needs
    <3>4. QED
      BY <3>2, <3>3
  <2>4. CASE Head(s) = "hmacBlock" /\ calls'[c].todo = s
    BY <2>4 DEF Ready, Needs
  <2>5. QED
    BY <1>5, <2>2, <2>3, <2>4, Moves, Zenon
<1>6. QED
  BY <1>4, <1>5

\* A call that begins.
LEMMA PaceStarts ==
    ASSUME OnceInv, CachedOK, NEW c \in Calls, Start(c)
    PROVE  /\ Paced(OpsOf(calls'[c].fn), calls'[c].todo)
           /\ Ready(calls'[c].todo, cached'[KeysObject(c)'])
<1>1. cached' = cached
  BY StartHas
<1>2. PICK p, args : /\ calls'[c].fn \in Offered /\ args \in Arguments(c, calls'[c].fn)
                     /\ calls'[c].args = args /\ Opens(c, calls'[c].fn, p, args)
  BY StartHas, Zenon
<1>3. PICK fn \in Offered : fn = calls'[c].fn
  BY <1>2
<1>4. args \in Arguments(c, fn) /\ Opens(c, fn, p, args)
  BY <1>2, <1>3, Zenon
<1> DEFINE S == OpsOf(fn)
           chain == Chain(fn, p, args)
           objects == IF "ring" \in DOMAIN args THEN cached[args.ring] ELSE {}
           todo2 == calls'[c].todo
<1>5. todo2 = << >> \/ todo2 = Unfold(chain, objects)
  BY <1>4, Zenon DEF Opens
<1>6. Leading(S, chain)
  BY <1>4, ChainPaced
<1> HIDE DEF S, chain, todo2
<1>7. CASE todo2 = << >>
  BY <1>3, <1>7, NonePaced DEF Ready, todo2
<1>8. CASE todo2 = Unfold(chain, objects)
  <2>1. Paced(S, chain) /\ (chain # << >> => Follows("start", Head(chain)))
    BY <1>6, Zenon DEF Leading
  <2>2. Paced(S, Unfold(chain, objects))
    BY <2>1, PacedUnfold, OpsOfHas DEF S
  <2>3. Ready(Unfold(chain, objects), objects)
    <3>1. "start" \notin Needs \cup {"importKeyHMAC"} /\ "start" # "importKeyAES"
          /\ "start" # "importKeys"
      BY DEF Needs
    <3>2. QED
      BY <2>1, <3>1, ReadyOn
  <2>4. CASE "ring" \in DOMAIN args
    <3>1. KeysObject(c)' = args.ring
      BY <1>2, <2>4 DEF KeysObject
    <3>2. QED
      BY <1>1, <1>3, <1>8, <2>2, <2>3, <2>4, <3>1 DEF S, todo2
  <2>5. CASE "ring" \notin DOMAIN args
    <3>1. KeysObject(c)' = c
      BY <1>2, <2>5 DEF KeysObject
    <3>2. Ready(todo2, {})
      BY <1>8, <2>3, <2>5
    <3>3. cached[c] \subseteq Both
      BY DEF CachedOK
    <3>4. Ready(todo2, cached[c])
      BY <3>2 DEF Ready, Both
    <3>5. QED
      BY <1>1, <1>3, <1>8, <2>2, <3>1, <3>4 DEF S, todo2
  <2>6. QED
    BY <2>4, <2>5
<1>9. QED
  BY <1>5, <1>7, <1>8

LEMMA PaceStep == OnceInv /\ CachedOK /\ ArgsInv /\ PaceInv /\ [Next]_vars => PaceInv'
<1> SUFFICES ASSUME OnceInv, CachedOK, ArgsInv, PaceInv, [Next]_vars PROVE PaceInv'
  OBVIOUS
<1>1. ASSUME NEW c \in Calls, calls'[c].fn # "none"
      PROVE  /\ Paced(OpsOf(calls'[c].fn), calls'[c].todo)
             /\ Ready(calls'[c].todo, cached'[KeysObject(c)'])
  <2>1. CASE calls'[c] = calls[c]
    <3>1. KeysObject(c)' = KeysObject(c)
      BY <2>1, KeysObjectStays
    <3>2. /\ calls[c].fn # "none" /\ Paced(OpsOf(calls[c].fn), calls[c].todo)
          /\ Ready(calls[c].todo, cached[KeysObject(c)])
      BY <1>1, <2>1, Zenon DEF PaceInv
    <3>3. KeysObject(c) \in Rings \cup Calls
      BY <3>2, KeysObjectIs
    <3>4. /\ cached[KeysObject(c)] \subseteq cached'[KeysObject(c)]
          /\ cached'[KeysObject(c)] \subseteq Both
      BY <3>3, CachedGrows
    <3>5. Ready(calls[c].todo, cached'[KeysObject(c)])
      BY <3>2, <3>4 DEF Ready
    <3>6. QED
      BY <2>1, <3>1, <3>2, <3>5, Zenon
  <2>2. CASE Start(c)
    BY <2>2, PaceStarts
  <2>3. CASE Settles(c)
    <3>1. Same(c)
      BY <2>3, Turns, TurnSame, Zenon DEF Stops
    <3>2. KeysObject(c)' = KeysObject(c)
      BY <3>1, KeysObjectStays, Zenon DEF Same
    <3>3. calls'[c].fn = calls[c].fn
      BY <3>1, Zenon DEF Same
    <3>4. /\ calls[c].fn # "none" /\ Paced(OpsOf(calls[c].fn), calls[c].todo)
          /\ Ready(calls[c].todo, cached[KeysObject(c)])
      BY <1>1, <3>3, Zenon DEF PaceInv
    <3>5. /\ Paced(OpsOf(calls[c].fn), calls'[c].todo)
          /\ Ready(calls'[c].todo, cached'[KeysObject(c)])
      BY <2>3, <3>4, PaceGoes
    <3>6. QED
      BY <3>2, <3>3, <3>5, Zenon
  <2>4. QED
    BY <2>1, <2>2, <2>3, MovesOne, Zenon
<1>2. QED
  BY <1>1, Zenon DEF PaceInv

----------------------------------------------------------------------------
(* The RSA keys in JSON.                                                   *)

\* Whatever platform writes a key, the library makes the same of it, which any
\* platform takes.
LEMMA ExportsStandard == \A p : exportKey(p) = Standard
<1>1. ASSUME NEW p, p = "modern" PROVE exportKey(p) = Standard
  BY <1>1 DEF exportKey, NativeJwk, Standard
<1>2. ASSUME NEW p, p # "modern" PROVE exportKey(p) = Standard
  <2>1. NativeJwk(p) = {"extractable"}
    BY <1>2 DEF NativeJwk
  <2>2. {"ext" : x \in {"extractable"} \cap {"extractable"}} = {"ext"}
    OBVIOUS
  <2>3. ({"extractable"} \ {"extractable"}) \cup {"key_ops", "alg"} \cup {"ext"} = Standard
    BY DEF Standard
  <2>4. exportKey(p) = (NativeJwk(p) \ {"extractable"}) \cup {"key_ops", "alg"}
                        \cup {"ext" : x \in NativeJwk(p) \cap {"extractable"}}
    BY <1>2, Zenon DEF exportKey
  <2>5. QED
    BY <2>1, <2>2, <2>3, <2>4
<1>3. QED
  BY <1>1, <1>2

LEMMA TakesStandard == \A p : NativeTakes(p, _importKey(p, Standard))
<1>1. ASSUME NEW p, p = "modern" PROVE NativeTakes(p, _importKey(p, Standard))
  BY <1>1 DEF _importKey, NativeTakes, Standard
<1>2. ASSUME NEW p, p # "modern" PROVE NativeTakes(p, _importKey(p, Standard))
  <2>1. ASSUME NEW x \in _importKey(p, Standard) PROVE x \notin {"ext", "key_ops"}
    BY <1>2 DEF _importKey, Standard
  <2>2. QED
    BY <1>2, <2>1 DEF NativeTakes
<1>3. QED
  BY <1>1, <1>2

LEMMA MakersAre ==
    ASSUME NEW t \in Makers
    PROVE  /\ t # << >> /\ Tail(t) # << >> /\ Tail(Tail(t)) # << >>
           /\ Head(t) # "importKeys" /\ Head(Tail(t)) # "importKeys"
           /\ Head(Tail(Tail(t))) = "exportPrivate"
           /\ Head(t) \in {"generateEncryptKeys", "generateSignKeys"}
           /\ Head(Tail(t)) = "exportPublic"
<1>1. ASSUME NEW s \in Seq(RsaOps), Len(s) >= 4,
             s[1] \in {"generateEncryptKeys", "generateSignKeys"},
             s[2] = "exportPublic", s[3] = "exportPrivate"
      PROVE  /\ s # << >> /\ Tail(s) # << >> /\ Tail(Tail(s)) # << >>
             /\ Head(s) # "importKeys" /\ Head(Tail(s)) # "importKeys"
             /\ Head(Tail(Tail(s))) = "exportPrivate"
             /\ Head(s) \in {"generateEncryptKeys", "generateSignKeys"}
             /\ Head(Tail(s)) = "exportPublic"
  <2> DEFINE u == Tail(s)
             v == Tail(u)
  <2>1. /\ s # << >> /\ Head(s) = s[1] /\ u \in Seq(RsaOps) /\ Len(u) = Len(s) - 1
        /\ u[1] = s[2] /\ u[2] = s[3]
    BY <1>1
  <2> HIDE DEF u
  <2>2. u # << >> /\ Head(u) = u[1] /\ v \in Seq(RsaOps) /\ Len(v) = Len(u) - 1
        /\ v[1] = u[2]
    BY <1>1, <2>1
  <2> HIDE DEF v
  <2>3. v # << >> /\ Head(v) = v[1]
    BY <1>1, <2>1, <2>2
  <2>4. "exportPublic" # "importKeys" /\ s[1] # "importKeys"
    BY <1>1
  <2>5. QED
    BY <1>1, <2>1, <2>2, <2>3, <2>4, Zenon DEF u, v
<1>2. ASSUME NEW x \in Seq(RsaOps), NEW y \in Seq(RsaOps), Len(x) = 4, NEW s, s = x \o y
      PROVE  /\ s \in Seq(RsaOps) /\ Len(s) >= 4
             /\ s[1] = x[1] /\ s[2] = x[2] /\ s[3] = x[3]
  <2>1. Joins(RsaOps, x, y, s)
    BY <1>2, Joined
  <2>2. QED
    BY <1>2, <2>1 DEF Joins
<1>3. ASSUME NEW s \in {GenerateEncryptKey, GenerateSignKey}
      PROVE  /\ s \in Seq(RsaOps) /\ Len(s) = 4
             /\ s[1] \in {"generateEncryptKeys", "generateSignKeys"}
             /\ s[2] = "exportPublic" /\ s[3] = "exportPrivate"
  <2>1. CASE s = <<"generateEncryptKeys", "exportPublic", "exportPrivate", "importPrivate">>
    BY <2>1 DEF RsaOps
  <2>2. CASE s = <<"generateSignKeys", "exportPublic", "exportPrivate", "importPrivate">>
    BY <2>2 DEF RsaOps
  <2>3. QED
    BY <2>1, <2>2, Zenon DEF GenerateEncryptKey, GenerateSignKey
<1>4. CASE t \in {GenerateEncryptKey, GenerateSignKey}
  <2>1. /\ t \in Seq(RsaOps) /\ Len(t) = 4
        /\ t[1] \in {"generateEncryptKeys", "generateSignKeys"}
        /\ t[2] = "exportPublic" /\ t[3] = "exportPrivate"
    BY <1>3, <1>4, Zenon
  <2>2. Len(t) >= 4
    BY <2>1
  <2>3. QED
    BY <1>1, <2>1, <2>2, Zenon
<1>5. CASE t = AsymGenerateKeys
  <2>1. t = GenerateEncryptKey \o GenerateSignKey
    BY <1>5 DEF AsymGenerateKeys
  <2>2. /\ t \in Seq(RsaOps) /\ Len(t) >= 4
        /\ t[1] = GenerateEncryptKey[1] /\ t[2] = GenerateEncryptKey[2]
        /\ t[3] = GenerateEncryptKey[3]
    BY <1>2, <1>3, <2>1
  <2>3. /\ t[1] \in {"generateEncryptKeys", "generateSignKeys"}
        /\ t[2] = "exportPublic" /\ t[3] = "exportPrivate"
    BY <1>3, <2>2
  <2>4. QED
    BY <1>1, <2>2, <2>3, Zenon
<1>6. QED
  BY <1>4, <1>5 DEF Makers

\* So is every key the pages hold.
LEMMA JwksAre ==
    ASSUME OnceInv, JwkInv, NEW jwk \in Jwks
    PROVE  jwk = Standard
<1>0. PICK m \in Sent(KeyMakers \ {"generateSignKey"}) : jwk = calls[m].bag.privateJwk
  BY Zenon DEF Jwks
<1>1. m \in Sent(KeyMakers) /\ jwk = calls[m].bag.privateJwk
  BY <1>0, Zenon DEF Sent
<1>2. m \in Calls /\ calls[m].fn \in KeyMakers /\ calls[m].said = <<"ok">>
  BY <1>1, Zenon DEF Sent
<1>3. <<"ok">> # << >>
  OBVIOUS
<1>4. calls[m].todo = << >>
  BY <1>2, <1>3, Zenon DEF OnceInv, Finished
<1>5. Sound(calls[m])
  BY <1>2 DEF Sound
<1>6. ASSUME NEW t \in Makers PROVE calls[m].todo \notin {t, Tail(t), Tail(Tail(t))}
  BY <1>4, MakersAre, Zenon
<1>7. Holds(calls[m].bag, "privateJwk", Standard)
  BY <1>2, <1>5, <1>6, Zenon DEF JwkInv
<1>8. QED
  BY <1>1, <1>7 DEF Holds

\* An operation on RSA keys keeps a key in JSON or replaces it by another.
LEMMA RsaTurnKeeps ==
    ASSUME NEW c \in Calls, NEW op, RsaTurn(c, op)
    PROVE  /\ Holds(calls[c].bag, "privateJwk", Standard) =>
                Holds(calls'[c].bag, "privateJwk", Standard)
           /\ op = "exportPrivate" => Holds(calls'[c].bag, "privateJwk", Standard)
           /\ Same(c) /\ calls'[c].todo = Rest(c)
<1> DEFINE held == calls[c].bag
           more == calls'[c].bag
<1>0. Same(c) /\ calls'[c].todo = Rest(c)
  BY Zenon DEF RsaTurn, Goes
<1>1. CASE /\ op \in {"generateEncryptKeys", "generateSignKeys", "importPrivate",
                      "importPublic"}
           /\ Goes(c, << >>)
  <2>1. more = With(<< >>, held)
    BY <1>1, Zenon DEF Goes
  <2>2. Keeps(held, With(<< >>, held))
    BY WithNone
  <2>3. Holds(held, "privateJwk", Standard) => Holds(more, "privateJwk", Standard)
    BY <2>1, <2>2, Zenon DEF Keeps, Holds
  <2>4. op # "exportPrivate"
    BY <1>1
  <2>5. QED
    BY <1>0, <2>3, <2>4, Zenon
<1>2. CASE op = "exportPublic" /\ Goes(c, [publicJwk |-> exportKey(calls[c].on)])
  <2> DEFINE new == [publicJwk |-> exportKey(calls[c].on)]
  <2>1. more = With(new, held)
    BY <1>2, Zenon DEF Goes
  <2>2. DOMAIN new = {"publicJwk"}
    OBVIOUS
  <2> HIDE DEF new
  <2>3. Adds(held, With(new, held), "publicJwk", new["publicJwk"])
    BY <2>2, WithOne
  <2>4. "privateJwk" # "publicJwk"
    OBVIOUS
  <2>5. Holds(held, "privateJwk", Standard) => Holds(more, "privateJwk", Standard)
    BY <2>1, <2>3, <2>4, Zenon DEF Adds, Holds
  <2>6. op # "exportPrivate"
    BY <1>2
  <2>7. QED
    BY <1>0, <2>5, <2>6, Zenon
<1>3. CASE op = "exportPrivate" /\ Goes(c, [privateJwk |-> exportKey(calls[c].on)])
  <2> DEFINE new == [privateJwk |-> exportKey(calls[c].on)]
  <2>1. more = With(new, held)
    BY <1>3, Zenon DEF Goes
  <2>2. DOMAIN new = {"privateJwk"} /\ new["privateJwk"] = Standard
    BY ExportsStandard
  <2> HIDE DEF new
  <2>3. Adds(held, With(new, held), "privateJwk", Standard)
    BY <2>2, WithOne
  <2>4. Holds(more, "privateJwk", Standard)
    BY <2>1, <2>3, Zenon DEF Adds
  <2>5. QED
    BY <1>0, <2>4, Zenon
<1>4. QED
  BY <1>1, <1>2, <1>3, Zenon DEF RsaTurn

\* What JwkInv says of one call.
HasJwk(r) == Holds(r.bag, "privateJwk", Standard)
MakesJwk(r) ==
    \/ \E t \in Makers : r.todo \in {t, Tail(t), Tail(Tail(t))}
    \/ HasJwk(r)
JwkOf(r) ==
    /\ r.fn \in Importers /\ Sound(r) => HasJwk(r)
    /\ r.fn \in KeyMakers /\ Sound(r) => MakesJwk(r)
LEMMA JwkOfEach == JwkInv <=> \A c \in Calls : JwkOf(calls[c])
BY Zenon DEF JwkInv, JwkOf, HasJwk, MakesJwk

LEMMA JwkInit == Init => JwkInv
<1>1. ASSUME Init, NEW c \in Calls
      PROVE  calls[c].fn \notin KeyMakers /\ calls[c].fn \notin Importers
  BY <1>1 DEF Init, Idle, KeyMakers, Importers
<1>2. QED
  BY <1>1, Zenon DEF JwkInv

LEMMA JwkStarts ==
    ASSUME OnceInv, JwkInv, NEW c \in Calls, Start(c)
    PROVE  JwkOf(calls'[c])
<1>1. PICK p, args : /\ calls'[c].fn \in Offered /\ args \in Arguments(c, calls'[c].fn)
                     /\ Opens(c, calls'[c].fn, p, args)
  BY StartHas, Zenon
<1>2. PICK fn \in Offered : fn = calls'[c].fn
  BY <1>1
<1>3. args \in Arguments(c, fn) /\ Opens(c, fn, p, args)
  BY <1>1, <1>2, Zenon
<1>4. CASE fn \in Importers
  <2>1. "jwk" \in DOMAIN args /\ args.jwk \in Jwks
    BY <1>3, <1>4, ArgumentsHave
  <2>2. "ring" \notin DOMAIN args
    BY <1>3, <1>4, ArgumentsHave DEF Importers
  <2>3. calls'[c].bag = [privateJwk |-> args.jwk]
    BY <1>3, <2>1, <2>2, Zenon DEF Opens
  <2>4. args.jwk = Standard
    BY <2>1, JwksAre
  <2>5. HasJwk(calls'[c])
    BY <2>3, <2>4 DEF HasJwk, Holds
  <2>6. fn \notin KeyMakers
    BY <1>4 DEF Importers, KeyMakers
  <2>7. QED
    BY <1>2, <2>5, <2>6, Zenon DEF JwkOf
<1>5. CASE fn \in KeyMakers
  <2>1. Chain(fn, p, args) \in Makers
    <3>1. fn = "asym.generateKeys" => Chain(fn, p, args) = AsymGenerateKeys
      BY DEF Chain
    <3>2. fn = "generateEncryptKey" => Chain(fn, p, args) = GenerateEncryptKey
      BY DEF Chain
    <3>3. fn = "generateSignKey" => Chain(fn, p, args) = GenerateSignKey
      BY DEF Chain
    <3>4. \/ fn = "asym.generateKeys" \/ fn = "generateEncryptKey"
          \/ fn = "generateSignKey"
      BY <1>5 DEF KeyMakers
    <3>5. QED
      BY <3>1, <3>2, <3>3, <3>4 DEF Makers
  <2>2. PICK t \in Makers : Chain(fn, p, args) = t
    BY <2>1
  <2>3. "ring" \notin DOMAIN args
    BY <1>3, <1>5, ArgumentsHave DEF KeyMakers
  <2>4. t # << >> /\ Head(t) # "importKeys"
    BY MakersAre
  <2>5. ASSUME NEW objects PROVE Unfold(t, objects) = t
    BY <2>4, Zenon DEF Unfold
  <2>6. calls'[c].todo = t
    BY <1>3, <2>2, <2>3, <2>4, <2>5, Zenon DEF Opens
  <2>7. MakesJwk(calls'[c])
    BY <2>6 DEF MakesJwk
  <2>8. fn \notin Importers
    BY <1>5 DEF Importers, KeyMakers
  <2>9. QED
    BY <1>2, <2>7, <2>8, Zenon DEF JwkOf
<1>6. QED
  BY <1>2, <1>4, <1>5, Zenon DEF JwkOf

LEMMA JwkGoes ==
    ASSUME OnceInv, PaceInv, NEW c \in Calls, Settles(c), ~Stops(c), JwkOf(calls[c])
    PROVE  JwkOf(calls'[c])
<1>1. calls[c].todo # << >> /\ Same(c)
  BY Turns, TurnSame, Zenon
<1>2. calls'[c].fn = calls[c].fn /\ Sound(calls[c])
  BY <1>1, Zenon DEF Same, Sound
<1>3. CASE calls[c].fn \in Importers \cup KeyMakers
  <2>1. calls[c].fn # "none" /\ OpsOf(calls[c].fn) = RsaOps
    BY <1>3 DEF Importers, KeyMakers, OpsOf, Encrypts, Decrypts
  <2>2. Paced(RsaOps, calls[c].todo)
    BY <2>1, Zenon DEF PaceInv
  <2>3. Head(calls[c].todo) \in RsaOps
    BY <1>1, <2>2, PacedTail
  <2>4. Head(calls[c].todo) \notin AllOps
    BY <2>3 DEF RsaOps, AllOps, Ops
  <2>5. RsaTurn(c, Head(calls[c].todo))
    BY <2>4, RsaTurns
  <2>6. /\ HasJwk(calls[c]) => HasJwk(calls'[c])
        /\ Head(calls[c].todo) = "exportPrivate" => HasJwk(calls'[c])
        /\ calls'[c].todo = Rest(c)
    BY <2>5, RsaTurnKeeps, Zenon DEF HasJwk
  <2>7. ASSUME MakesJwk(calls[c]) PROVE MakesJwk(calls'[c])
    <3>1. CASE HasJwk(calls[c])
      BY <2>6, <3>1, Zenon DEF MakesJwk
    <3>2. ASSUME NEW t \in Makers, calls[c].todo \in {t, Tail(t), Tail(Tail(t))}
          PROVE  MakesJwk(calls'[c])
      <4>1. /\ Tail(t) # << >> /\ Tail(Tail(t)) # << >>
            /\ Head(Tail(t)) # "importKeys" /\ Head(Tail(Tail(t))) = "exportPrivate"
        BY MakersAre
      <4>2. "exportPrivate" # "importKeys"
        OBVIOUS
      <4>3. ASSUME NEW objects
            PROVE  /\ Unfold(Tail(t), objects) = Tail(t)
                   /\ Unfold(Tail(Tail(t)), objects) = Tail(Tail(t))
        BY <4>1, <4>2, Zenon DEF Unfold
      <4>4. CASE calls[c].todo = t
        <5>1. calls'[c].todo = Tail(t)
          BY <2>6, <4>3, <4>4, Zenon DEF Rest
        <5>2. QED
          BY <5>1 DEF MakesJwk
      <4>5. CASE calls[c].todo = Tail(t)
        <5>1. calls'[c].todo = Tail(Tail(t))
          BY <2>6, <4>3, <4>5, Zenon DEF Rest
        <5>2. QED
          BY <5>1 DEF MakesJwk
      <4>6. CASE calls[c].todo = Tail(Tail(t))
        BY <2>6, <4>1, <4>6, Zenon DEF MakesJwk
      <4>7. QED
        BY <3>2, <4>4, <4>5, <4>6
    <3>3. QED
      BY <2>7, <3>1, <3>2, Zenon DEF MakesJwk
  <2>8. QED
    BY <1>2, <2>6, <2>7, Zenon DEF JwkOf
<1>4. CASE calls[c].fn \notin Importers \cup KeyMakers
  BY <1>2, <1>4 DEF JwkOf
<1>5. QED
  BY <1>3, <1>4

LEMMA JwkStep == OnceInv /\ PaceInv /\ JwkInv /\ [Next]_vars => JwkInv'
<1> SUFFICES ASSUME OnceInv, PaceInv, JwkInv, [Next]_vars PROVE JwkInv'
  OBVIOUS
<1>1. ASSUME NEW c \in Calls PROVE JwkOf(calls'[c])
  <2>1. JwkOf(calls[c])
    BY JwkOfEach
  <2>2. CASE Settles(c) /\ Stops(c)
    BY <2>2, StoppedIsNotSound, Zenon DEF JwkOf
  <2>3. CASE Settles(c) /\ ~Stops(c)
    BY <2>1, <2>3, JwkGoes
  <2>4. CASE Start(c)
    BY <2>4, JwkStarts
  <2>5. CASE calls'[c] = calls[c]
    BY <2>1, <2>5
  <2>6. QED
    BY <2>2, <2>3, <2>4, <2>5, MovesOne, Zenon
<1>2. QED
  BY <1>1, Zenon DEF JwkInv, JwkOf, HasJwk, MakesJwk

----------------------------------------------------------------------------
(* The keys from passwords.                                                *)

\* The numbers of iterations that four bytes hold.
LEMMA CountsFacts ==
    /\ \A n \in Counts : n \in Nat /\ n >= 1 /\ bufferToUint32(uint32toBuffer(n)) = n
    /\ \A r \in getRandom(ExtraIterations) : MinIterations + r \in Counts
<1> DEFINE top == ByteBase * Weight[4]
<1>1. top \in Nat
  <2>1. ByteBase \in Nat /\ Weight[4] = ByteBase * ByteBase * ByteBase
    BY ByteBaseAssumption DEF Weight
  <2>2. Weight[4] \in Nat
    BY <2>1
  <2>3. QED
    BY <2>1, <2>2
<1>2. /\ MinIterations \in Nat \ {0} /\ ExtraIterations \in Nat
      /\ MinIterations + ExtraIterations < top
  BY CallsAssumption
<1>3. ASSUME NEW n \in Nat, n < top PROVE bufferToUint32(uint32toBuffer(n)) = n
  BY <1>3, BytesReadBack
<1> HIDE DEF top
<1>4. Counts = 1..(top - 1)
  BY Zenon DEF Counts, top
<1>5. ASSUME NEW n \in Counts PROVE n \in Nat /\ n >= 1 /\ n < top
  BY <1>1, <1>4
<1>6. ASSUME NEW r \in getRandom(ExtraIterations) PROVE MinIterations + r \in Counts
  BY <1>1, <1>2, <1>4 DEF getRandom
<1>7. QED
  BY <1>3, <1>5, <1>6

\* Thirty-six bytes take two blocks of twenty.
LEMMA TwoBlocks ==
    ASSUME NEW p \in Int, p = 36
    PROVE  -((-p) \div 20) = 2
<1> DEFINE n == -p
<1>1. n \in Int /\ n + p = 0
  OBVIOUS
<1> HIDE DEF n
<1>2. PICK q \in Int : q + 2 = 0
  <2>1. 0 - 2 \in Int /\ (0 - 2) + 2 = 0
    OBVIOUS
  <2>2. QED
    BY <2>1
<1>3. 20 * q <= n /\ n < 20 * q + 20
  BY <1>1, <1>2
<1>4. n \div 20 = q
  <2>1. ASSUME NEW x \in Int, NEW y \in Int, 20 * y <= x, x < 20 * y + 20
        PROVE x \div 20 = y
    BY <2>1
  <2>2. QED
    BY <1>1, <1>2, <1>3, <2>1
<1>5. -q = 2
  BY <1>2
<1>6. QED
  BY <1>4, <1>5 DEF n

\* A derivation yields the same whichever way.
LEMMA YieldIs ==
    /\ Blocks = 2
    /\ \A password, salt, n :
        Yield(password, salt, n) = <<password, salt, <<1..n, 1..n>>, PasswordBits \div 8>>
<1>1. Blocks = 2
  <2>1. PasswordBits \div 8 \in Int /\ PasswordBits \div 8 = 36
    BY DEF PasswordBits
  <2>2. -((-(PasswordBits \div 8)) \div 20) = 2
    BY <2>1, TwoBlocks
  <2>3. QED
    BY <2>2 DEF Blocks, Sha1Bytes
<1>2. ASSUME NEW x PROVE [b \in 1..2 |-> x] = <<x, x>>
  OBVIOUS
<1>3. QED
  BY <1>1, <1>2, Zenon DEF Yield

LEMMA OptionsStay ==
    ASSUME NEW c \in Calls, calls'[c].args = calls[c].args
    PROVE  Salt(c)' = Salt(c) /\ Iterations(c)' = Iterations(c)
BY DEF Salt, Iterations, Lacks, dict

\* What the closures of a derivation hold.
LEMMA WithOptions ==
    ASSUME NEW c, NEW n, NEW new, NEW held
    PROVE  HasOptions(Salt(c), n, With(With(Options(c, n), new), held))
<1> DEFINE opts == Options(c, n)
           both == With(opts, new)
           more == With(both, held)
<1>1. /\ DOMAIN opts = {"pbkdf2_salt", "pbkdf2_iter"}
      /\ opts["pbkdf2_salt"] = Salt(c) /\ opts["pbkdf2_iter"] = uint32toBuffer(n)
  BY DEF Options
<1> HIDE DEF opts
<1>2. /\ DOMAIN both = DOMAIN opts \cup DOMAIN new
      /\ \A l \in DOMAIN opts : both[l] = opts[l]
  BY WithGet, Zenon
<1> HIDE DEF both
<1>3. /\ DOMAIN more = DOMAIN both \cup DOMAIN held
      /\ \A l \in DOMAIN both : more[l] = both[l]
  BY WithGet, Zenon
<1> HIDE DEF more
<1>4. HasOptions(Salt(c), n, more)
  BY <1>1, <1>2, <1>3 DEF HasOptions, Holds
<1>5. QED
  BY <1>4, Zenon DEF more, both, opts

LEMMA WithSplitOptions ==
    ASSUME NEW salt, NEW n, NEW held, HasOptions(salt, n, held), NEW x
    PROVE  HasOptions(salt, n, With(Split(x), held))
<1> DEFINE two == Split(x)
           more == With(two, held)
<1>1. DOMAIN two = {"aesKey", "hmacKey"}
  BY DEF Split
<1> HIDE DEF two
<1>2. /\ DOMAIN more = DOMAIN two \cup DOMAIN held
      /\ \A l \in DOMAIN held \ DOMAIN two : more[l] = held[l]
  BY WithGet, Zenon
<1> HIDE DEF more
<1>3. HasOptions(salt, n, more)
  BY <1>1, <1>2 DEF HasOptions, Holds
<1>4. QED
  BY <1>3, Zenon DEF more, two

LEMMA WithCounter ==
    ASSUME NEW salt, NEW n, NEW held, HasOptions(salt, n, held),
           NEW k \in 0..(n - 1), NEW o \in {<< >>, <<1..n>>}
    PROVE  Looping(salt, n, With([counter |-> k, u1 |-> 1..k, output |-> o], held))
<1> DEFINE new == [counter |-> k, u1 |-> 1..k, output |-> o]
           more == With(new, held)
<1>1. /\ DOMAIN new = {"counter", "u1", "output"}
      /\ new["counter"] = k /\ new["u1"] = 1..k /\ new["output"] = o
  OBVIOUS
<1> HIDE DEF new
<1>2. /\ DOMAIN more = DOMAIN new \cup DOMAIN held
      /\ \A l \in DOMAIN new : more[l] = new[l]
      /\ \A l \in DOMAIN held \ DOMAIN new : more[l] = held[l]
  BY WithGet, Zenon
<1> HIDE DEF more
<1>3. HasOptions(salt, n, more)
  BY <1>1, <1>2 DEF HasOptions, Holds
<1>4. /\ {"counter", "u1", "output"} \subseteq DOMAIN more
      /\ more["counter"] = k /\ more["u1"] = 1..k /\ more["output"] = o
  BY <1>1, <1>2
<1>5. Looping(salt, n, more)
  BY <1>3, <1>4, Zenon DEF Looping
<1>6. QED
  BY <1>5, Zenon DEF more, new

\* The first round of a derivation by hand.
LEMMA WithStart ==
    ASSUME NEW c, NEW n \in Counts, NEW held
    PROVE  Looping(Salt(c), n,
                   With(With(Options(c, n), [counter |-> 0, u1 |-> {}, output |-> << >>]), held))
<1> DEFINE opts == Options(c, n)
           new == [counter |-> 0, u1 |-> {}, output |-> << >>]
           both == With(opts, new)
           more == With(both, held)
<1>1. HasOptions(Salt(c), n, more)
  BY WithOptions, Zenon
<1>2. /\ DOMAIN new = {"counter", "u1", "output"}
      /\ new["counter"] = 0 /\ new["u1"] = {} /\ new["output"] = << >>
  OBVIOUS
<1> HIDE DEF new
<1>3. DOMAIN opts = {"pbkdf2_salt", "pbkdf2_iter"}
  BY DEF Options
<1> HIDE DEF opts
<1>4. /\ DOMAIN both = DOMAIN opts \cup DOMAIN new
      /\ \A l \in DOMAIN new \ DOMAIN opts : both[l] = new[l]
  BY WithGet, Zenon
<1> HIDE DEF both
<1>5. /\ DOMAIN more = DOMAIN both \cup DOMAIN held
      /\ \A l \in DOMAIN both : more[l] = both[l]
  BY WithGet, Zenon
<1> HIDE DEF more
<1>6. /\ {"counter", "u1", "output"} \subseteq DOMAIN more
      /\ more["counter"] = 0 /\ more["u1"] = {} /\ more["output"] = << >>
  BY <1>2, <1>3, <1>4, <1>5
<1>7. 0 \in 0..(n - 1) /\ {} = 1..0
  BY CountsFacts
<1>8. Looping(Salt(c), n, more)
  BY <1>1, <1>6, <1>7, Zenon DEF Looping
<1>9. QED
  BY <1>8, Zenon DEF more, both, new, opts

----------------------------------------------------------------------------
(* A round of the loops.                                                   *)

Again(c, n, u, o) ==
    /\ Same(c) /\ calls'[c].todo = calls[c].todo
    /\ calls'[c].bag = With([counter |-> n, u1 |-> u, output |-> o], calls[c].bag)
Round(c) ==
    LET held == calls[c].bag
        counter == held["counter"] + 1
        u1 == SymDiff(held["u1"], {counter})
        output == Append(held["output"], u1)
        last == counter = bufferToUint32(held["pbkdf2_iter"])
        short == Len(output) * Sha1Bytes < PasswordBits \div 8
    IN  \/ ~last /\ Again(c, counter, u1, held["output"])
        \/ last /\ short /\ Again(c, 0, {}, output)
        \/ last /\ ~short /\ Goes(c, Split(Derived(c, output)))

LEMMA Rounds ==
    ASSUME OnceInv, NEW c \in Calls, Settles(c), ~Stops(c),
           Head(calls[c].todo) = "hmacBlock"
    PROVE  Round(c)
<1>1. calls[c].todo # << >>
  BY Turns
<1>2. hmacBlock(c)
  <2>1. \/ passwordToKey(c) \/ deriveBits(c) \/ importPassword(c) \/ hmacBlock(c)
        \/ fails(c)
    BY DeriveSettles
  <2>2. "hmacBlock" \notin {"passwordToKey", "deriveBits", "importPassword"}
    OBVIOUS
  <2>3. ~passwordToKey(c) /\ ~deriveBits(c) /\ ~importPassword(c)
    BY <2>2, Zenon DEF passwordToKey, deriveBits, importPassword, Does, Pending
  <2>4. ~fails(c)
    BY StopTo, Zenon DEF fails
  <2>5. QED
    BY <2>1, <2>3, <2>4, Zenon
<1>3. ASSUME NEW n, NEW u, NEW o,
             calls' = [calls EXCEPT ![c] = [calls[c] EXCEPT !.bag =
                            With([counter |-> n, u1 |-> u, output |-> o], calls[c].bag)]]
      PROVE  Again(c, n, u, o)
  BY <1>1, <1>3, ChangedOnly, Zenon DEF Again
<1>4. ASSUME NEW new, Proceed(c, new) PROVE Goes(c, new)
  BY <1>1, <1>4, ProceedTo
<1>5. QED
  BY <1>2, <1>3, <1>4, Zenon DEF hmacBlock, Round, bag

\* Who wants the keys, and where it goes with them.
LEMMA WantsLead ==
    ASSUME NEW fn \in PasswordUsers
    PROVE  /\ Wants(fn) \in Seq(Ops)
           /\ \A objects : Unfold(Wants(fn), objects) \in AfterDerive(fn)
<1>1. CASE fn = "encryptWithPassword"
  <2>1. Wants(fn) = ToImportKeys(<< >>)
    BY <1>1, Zenon DEF Wants
  <2>2. {ToEncryptAES(<< >>), ToCacheAES(<< >>)} \subseteq AfterDerive(fn)
    BY <1>1 DEF AfterDerive
  <2>3. QED
    BY <2>1, <2>2, DerivedLead, Zenon
<1>2. CASE fn = "decryptWithPassword"
  <2>0. fn # "encryptWithPassword"
    BY <1>2
  <2>1. Wants(fn) = SymDecrypt
    BY <2>0, Zenon DEF Wants
  <2>2. {AtVerifyHMAC, AtOpenAES} \subseteq AfterDerive(fn)
    BY <2>0 DEF AfterDerive
  <2>3. QED
    BY <2>1, <2>2, DerivedLead, Zenon
<1>3. QED
  BY <1>1, <1>2 DEF PasswordUsers

KeyUsers == {"importKeyAES", "importKeyHMAC", "encryptAES", "signHMAC", "verifyHMAC",
             "decryptAES"}
LEMMA AfterLeads ==
    ASSUME NEW fn \in PasswordUsers, NEW todo \in AfterDerive(fn), todo # << >>
    PROVE  \E op \in KeyUsers : Leads(todo, op, AfterDerive(fn))
<1>1. ASSUME NEW op \in KeyUsers, NEW next \in AfterDerive(fn), Leads(todo, op, {next})
      PROVE  Leads(todo, op, AfterDerive(fn))
  <2>1. \A objects : Unfold(Tail(todo), objects) = next
    BY <1>1, Zenon DEF Leads
  <2>2. todo # << >> /\ Head(todo) = op
    BY <1>1, Zenon DEF Leads
  <2>3. QED
    BY <2>1, <2>2, Zenon DEF Leads
<1>2. \A op \in {"importKeyAES", "importKeyHMAC", "encryptAES", "signHMAC",
                 "verifyHMAC", "decryptAES"} : op \in KeyUsers
  BY DEF KeyUsers
<1>3. CASE fn = "encryptWithPassword"
  <2>0. AfterDerive(fn) = {ToCacheAES(<< >>), ToCacheHMAC(<< >>), ToEncryptAES(<< >>),
                           ToSignHMAC(<< >>), << >>}
    BY <1>3, Zenon DEF AfterDerive
  <2>1. << >> \in Tails
    BY DEF Tails
  <2>2. /\ Leads(ToCacheAES(<< >>), "importKeyAES", {ToCacheHMAC(<< >>)})
        /\ Leads(ToCacheHMAC(<< >>), "importKeyHMAC", {ToEncryptAES(<< >>)})
        /\ Leads(ToEncryptAES(<< >>), "encryptAES", {ToSignHMAC(<< >>)})
        /\ Leads(ToSignHMAC(<< >>), "signHMAC", {<< >>})
    BY <2>1, SealingLeads, Zenon
  <2>3. \/ todo = ToCacheAES(<< >>) \/ todo = ToCacheHMAC(<< >>)
        \/ todo = ToEncryptAES(<< >>) \/ todo = ToSignHMAC(<< >>)
    BY <2>0
  <2>4. /\ ToCacheHMAC(<< >>) \in AfterDerive(fn) /\ ToEncryptAES(<< >>) \in AfterDerive(fn)
        /\ ToSignHMAC(<< >>) \in AfterDerive(fn) /\ << >> \in AfterDerive(fn)
    BY <2>0
  <2>5. QED
    BY <1>1, <1>2, <2>2, <2>3, <2>4, Zenon
<1>4. CASE fn = "decryptWithPassword"
  <2>0. AfterDerive(fn) = {AtOpenAES, AtOpenHMAC, AtVerifyHMAC, AtDecryptAES, << >>}
    <3>1. fn # "encryptWithPassword"
      BY <1>4
    <3>2. QED
      BY <3>1, Zenon DEF AfterDerive
  <2>2. /\ Leads(AtOpenAES, "importKeyAES", {AtOpenHMAC})
        /\ Leads(AtOpenHMAC, "importKeyHMAC", {AtVerifyHMAC})
        /\ Leads(AtVerifyHMAC, "verifyHMAC", {AtDecryptAES})
        /\ Leads(AtDecryptAES, "decryptAES", {<< >>})
    BY ReadingLeads, Zenon
  <2>3. todo = AtOpenAES \/ todo = AtOpenHMAC \/ todo = AtVerifyHMAC \/ todo = AtDecryptAES
    BY <2>0
  <2>4. /\ AtOpenHMAC \in AfterDerive(fn) /\ AtVerifyHMAC \in AfterDerive(fn)
        /\ AtDecryptAES \in AfterDerive(fn) /\ << >> \in AfterDerive(fn)
    BY <2>0
  <2>5. QED
    BY <1>1, <1>2, <2>2, <2>3, <2>4, Zenon
<1>5. QED
  BY <1>3, <1>4 DEF PasswordUsers

\* Derived keys stay when something else joins what the closures hold.
LEMMA CookedStays ==
    ASSUME NEW password, NEW salt, NEW n, NEW held, NEW more, NEW l, NEW x,
           Adds(held, more, l, x),
           l \notin {"aesKey", "hmacKey", "pbkdf2_salt", "pbkdf2_iter"},
           Cooked(password, salt, n, held)
    PROVE  Cooked(password, salt, n, more)
<1>1. l # "aesKey" /\ l # "hmacKey" /\ l # "pbkdf2_salt" /\ l # "pbkdf2_iter"
  OBVIOUS
<1>2. HasOptions(salt, n, more)
  BY <1>1, HoldsStays, Zenon DEF Cooked, HasOptions
<1>3. l \notin {"aesKey", "hmacKey"}
  OBVIOUS
<1>4. QED
  BY <1>2, <1>3, PairStays, Zenon DEF Cooked
LEMMA CookedKept ==
    ASSUME NEW password, NEW salt, NEW n, NEW held, NEW more, Keeps(held, more),
           Cooked(password, salt, n, held)
    PROVE  Cooked(password, salt, n, more)
<1>1. HasOptions(salt, n, more)
  BY Zenon DEF Cooked, HasOptions, Holds, Keeps
<1>2. QED
  BY <1>1, PairKept, Zenon DEF Cooked

LEMMA CookedTurn ==
    ASSUME NEW c \in Calls, NEW op \in KeyUsers, Turn(c, op),
           NEW next, Leads(calls[c].todo, op, next),
           NEW password, NEW salt, NEW n, Cooked(password, salt, n, calls[c].bag)
    PROVE  calls'[c].todo \in next /\ Cooked(password, salt, n, calls'[c].bag)
<1> DEFINE held == calls[c].bag
           more == calls'[c].bag
<1>1. ASSUME NEW new, Goes(c, new) PROVE calls'[c].todo \in next /\ more = With(new, held)
  BY <1>1, GoesTo, Zenon
<1>2. CASE Goes(c, << >>)
  <2>1. Keeps(held, With(<< >>, held))
    BY WithNone
  <2>2. Keeps(held, more)
    BY <1>1, <1>2, <2>1, Zenon
  <2>3. QED
    BY <1>1, <1>2, <2>2, CookedKept, Zenon
<1>3. ASSUME NEW x, Goes(c, [aesEncrypted |-> x])
      PROVE  calls'[c].todo \in next /\ Cooked(password, salt, n, more)
  <2>1. Adds(held, With([aesEncrypted |-> x], held), "aesEncrypted", x)
    BY WithField
  <2>2. Adds(held, more, "aesEncrypted", x)
    BY <1>1, <1>3, <2>1, Zenon
  <2>3. "aesEncrypted" \notin {"aesKey", "hmacKey", "pbkdf2_salt", "pbkdf2_iter"}
    OBVIOUS
  <2>4. QED
    BY <1>1, <1>3, <2>2, <2>3, CookedStays, Zenon
<1>4. ASSUME NEW x, Goes(c, [hmac |-> x])
      PROVE  calls'[c].todo \in next /\ Cooked(password, salt, n, more)
  <2>1. Adds(held, With([hmac |-> x], held), "hmac", x)
    BY WithField
  <2>2. Adds(held, more, "hmac", x)
    BY <1>1, <1>4, <2>1, Zenon
  <2>3. "hmac" \notin {"aesKey", "hmacKey", "pbkdf2_salt", "pbkdf2_iter"}
    OBVIOUS
  <2>4. QED
    BY <1>1, <1>4, <2>2, <2>3, CookedStays, Zenon
<1>5. ASSUME NEW x, Goes(c, [text |-> x])
      PROVE  calls'[c].todo \in next /\ Cooked(password, salt, n, more)
  <2>1. Adds(held, With([text |-> x], held), "text", x)
    BY WithField
  <2>2. Adds(held, more, "text", x)
    BY <1>1, <1>5, <2>1, Zenon
  <2>3. "text" \notin {"aesKey", "hmacKey", "pbkdf2_salt", "pbkdf2_iter"}
    OBVIOUS
  <2>4. QED
    BY <1>1, <1>5, <2>2, <2>3, CookedStays, Zenon
<1>6. \/ Goes(c, << >>) \/ (\E x : Goes(c, [aesEncrypted |-> x]))
      \/ (\E x : Goes(c, [hmac |-> x])) \/ (\E x : Goes(c, [text |-> x]))
  <2>1. op \in Ops
    BY OpsAre DEF KeyUsers
  <2>2. /\ op # "generateKeyAES" /\ op # "generateKeyHMAC" /\ op # "encryptRSA"
        /\ op # "signData" /\ op # "signEncrypted" /\ op # "decryptRSA"
        /\ op # "verifyData"
    BY DEF KeyUsers
  <2>3. QED
    BY <2>1, <2>2, Zenon DEF Turn
<1>7. QED
  BY <1>2, <1>3, <1>4, <1>5, <1>6, Zenon

\* The keys of a message: from its password, its salt and its number.
LEMMA MessageCooked ==
    ASSUME OnceInv, DeriveInv, NEW m \in Sent({"encryptWithPassword"})
    PROVE  \E n \in Iterations(m) \cap Counts :
                Cooked(calls[m].args.password, Salt(m), n, calls[m].bag)
<1> DEFINE fn == "encryptWithPassword"
           t == Wants(fn)
<1>1. m \in Calls /\ calls[m].fn = fn /\ calls[m].said = <<"ok">>
  BY DEF Sent
<1>2. <<"ok">> # << >> /\ fn \in PasswordUsers
  BY DEF PasswordUsers
<1>3. calls[m].todo = << >>
  BY <1>1, <1>2, Zenon DEF OnceInv, Finished
<1>4. Sound(calls[m])
  BY <1>1 DEF Sound
<1>5. Cooking(calls[m].args.password, Salt(m), Iterations(m), t, AfterDerive(fn), << >>,
              calls[m].bag)
  BY <1>1, <1>2, <1>3, <1>4, Zenon DEF DeriveInv
<1>6. /\ << >> # ToPassword(t) /\ << >> # ToDeriveBits(t) /\ << >> # ToImportPassword(t)
      /\ << >> # ToHmacBlock(t)
  BY <1>2, WantsLead, DerivingLeads, Zenon DEF Leads
<1> HIDE DEF t
<1>7. << >> \notin {ToPassword(t), ToDeriveBits(t), ToImportPassword(t)}
  BY <1>6
<1>8. QED
  BY <1>5, <1>6, <1>7, Zenon DEF Cooking

\* A number of iterations fits four bytes, whether drawn or received.
LEMMA IterationsAre ==
    ASSUME OnceInv, ArgsInv, GivenInv, DeriveInv, NEW c \in Calls,
           calls[c].fn \in PasswordUsers
    PROVE  Iterations(c) \subseteq Counts
<1> DEFINE d == calls[c].args.dict
<1>1. CASE "dict" \in DOMAIN calls[c].args /\ "pbkdf2_iter" \in DOMAIN d
  <2>0. calls[c].fn # "none"
    BY DEF PasswordUsers
  <2>1. calls[c].fn \in Decrypts
    BY <1>1, <2>0, Zenon DEF ArgsInv
  <2>2. calls[c].fn = "decryptWithPassword"
    BY <2>1 DEF Decrypts, PasswordUsers
  <2>3. Sources(calls[c].fn) = {"encryptWithPassword"}
    BY <2>2 DEF Sources
  <2>4. OfMessages({"encryptWithPassword"}, d)
    BY <2>1, <2>3, Zenon DEF GivenInv
  <2>5. PICK m \in Sent({"encryptWithPassword"}) :
                d["pbkdf2_iter"] = calls[m].bag["pbkdf2_iter"]
    BY <1>1, <2>4, Zenon DEF OfMessages
  <2>6. PICK n \in Iterations(m) \cap Counts :
                Cooked(calls[m].args.password, Salt(m), n, calls[m].bag)
    BY MessageCooked
  <2>7. calls[m].bag["pbkdf2_iter"] = uint32toBuffer(n)
    BY <2>6, Zenon DEF Cooked, HasOptions, Holds
  <2>8. n \in Counts /\ bufferToUint32(d["pbkdf2_iter"]) = n
    BY <2>5, <2>6, <2>7, CountsFacts
  <2>9. Iterations(c) = {bufferToUint32(d["pbkdf2_iter"])}
    <3>1. ~Lacks(c, {"pbkdf2_iter"})
      BY <1>1 DEF Lacks, dict
    <3>2. QED
      BY <1>1, <3>1, Zenon DEF Iterations, dict
  <2>10. QED
    BY <2>8, <2>9
<1>2. CASE ~("dict" \in DOMAIN calls[c].args /\ "pbkdf2_iter" \in DOMAIN d)
  <2>1. ~("dict" \in DOMAIN calls[c].args /\ ~Lacks(c, {"pbkdf2_iter"}))
    BY <1>2 DEF Lacks, dict
  <2>2. Iterations(c) = {MinIterations + r : r \in getRandom(ExtraIterations)}
    BY <2>1, Zenon DEF Iterations
  <2>3. QED
    BY <2>2, CountsFacts
<1>3. QED
  BY <1>1, <1>2

\* A second round.
LEMMA AppendTwice ==
    ASSUME NEW x PROVE Append(<<x>>, x) = <<x, x>>
<1> DEFINE one == <<x>>
           two == <<x, x>>
           more == Append(one, x)
<1>1. PICK S : x \in S
  OBVIOUS
<1>2. one \in Seq(S) /\ Len(one) = 1 /\ one[1] = x
  BY <1>1
<1>3. two \in Seq(S) /\ Len(two) = 2 /\ two[1] = x /\ two[2] = x
  BY <1>1
<1> HIDE DEF one, two
<1>4. /\ more \in Seq(S) /\ Len(more) = Len(one) + 1
      /\ \A i \in 1..Len(one) : more[i] = one[i]
      /\ more[Len(one) + 1] = x
  <2>1. one \in Seq(S)
    BY <1>2
  <2>2. QED
    BY <1>1, <2>1, AppendProperties
<1> HIDE DEF more
<1>5. Len(more) = 2 /\ more[1] = x /\ more[2] = x
  BY <1>2, <1>4
<1>6. more = two
  <2>1. \A i \in 1..Len(more) : more[i] = two[i]
    BY <1>3, <1>5
  <2>2. QED
    BY <1>3, <1>4, <1>5, <2>1
<1>7. QED
  BY <1>6, Zenon DEF more, one, two

\* A derivation goes on.
LEMMA CookingGoes ==
    ASSUME OnceInv, NEW c \in Calls, Settles(c), ~Stops(c), NEW fn \in PasswordUsers,
           Iterations(c) \subseteq Counts,
           Cooking(calls[c].args.password, Salt(c), Iterations(c), Wants(fn),
                   AfterDerive(fn), calls[c].todo, calls[c].bag)
    PROVE  Cooking(calls[c].args.password, Salt(c), Iterations(c), Wants(fn),
                   AfterDerive(fn), calls'[c].todo, calls'[c].bag)
<1> DEFINE todo == calls[c].todo
           held == calls[c].bag
           more == calls'[c].bag
           password == calls[c].args.password
           salt == Salt(c)
           t == Wants(fn)
           next == AfterDerive(fn)
<1>0. t \in Seq(Ops) /\ \A objects : Unfold(t, objects) \in next
  BY WantsLead, Zenon
<1>l. /\ Leads(ToPassword(t), "passwordToKey", {ToDeriveBits(t)})
      /\ Leads(ToDeriveBits(t), "deriveBits", next)
      /\ Leads(ToImportPassword(t), "importPassword", {ToHmacBlock(t)})
      /\ Leads(ToHmacBlock(t), "hmacBlock", next)
  BY <1>0, DerivingLeads, Zenon
<1>y. ASSUME NEW n \in Iterations(c), NEW held2,
             HasOptions(salt, n, held2), calls'[c].todo \in next,
             HasPair(<<"aes", Yield(password, salt, n)>>,
                     <<"hmac", Yield(password, salt, n)>>, held2), more = held2
      PROVE  Cooking(password, salt, Iterations(c), t, next, calls'[c].todo, more)
  <2>1. n \in Iterations(c) \cap Counts
    BY <1>y
  <2>2. Cooked(password, salt, n, more)
    BY <1>y, Zenon DEF Cooked
  <2>3. QED
    BY <1>y, <2>1, <2>2, Zenon DEF Cooking
<1>1. CASE todo = ToPassword(t)
  <2>1. Leads(todo, "passwordToKey", {ToDeriveBits(t)})
    BY <1>l, <1>1, Zenon
  <2>2. Head(todo) = "passwordToKey"
    BY <2>1, Zenon DEF Leads
  <2>3. \/ Goes(c, << >>)
        \/ calls'[c].todo = CompatDerive \o SubSeq(todo, 3, Len(todo))
    BY <2>2, DeriveTurns DEF DeriveTurn
  <2>4. CASE Goes(c, << >>)
    <3>1. calls'[c].todo = ToDeriveBits(t)
      BY <2>1, <2>4, GoesOnly, Zenon
    <3>2. calls'[c].todo \in {ToPassword(t), ToDeriveBits(t), ToImportPassword(t)}
      BY <3>1
    <3>3. QED
      BY <3>2, Zenon DEF Cooking
  <2>5. CASE calls'[c].todo = CompatDerive \o SubSeq(todo, 3, Len(todo))
    <3>1. calls'[c].todo = ToImportPassword(t)
      BY <1>0, <1>1, <2>5, DeriveThen, Zenon
    <3>2. calls'[c].todo \in {ToPassword(t), ToDeriveBits(t), ToImportPassword(t)}
      BY <3>1
    <3>3. QED
      BY <3>2, Zenon DEF Cooking
  <2>6. QED
    BY <2>3, <2>4, <2>5
<1>2. CASE todo = ToDeriveBits(t)
  <2>1. Leads(todo, "deriveBits", next)
    BY <1>l, <1>2, Zenon
  <2>2. Head(todo) = "deriveBits"
    BY <2>1, Zenon DEF Leads
  <2>3. PICK n \in Iterations(c) :
            Goes(c, With(Options(c, n), Split(<<password, salt,
                        [b \in 1..Blocks |-> 1..n], PasswordBits \div 8>>)))
    BY <2>2, DeriveTurns DEF DeriveTurn
  <2>4. Goes(c, With(Options(c, n), Split(Yield(password, salt, n))))
    BY <2>3, Zenon DEF Yield
  <2>5. /\ calls'[c].todo \in next
        /\ more = With(With(Options(c, n), Split(Yield(password, salt, n))), held)
    BY <2>1, <2>4, GoesTo, Zenon
  <2>6. "aesKey" \notin DOMAIN Options(c, n) /\ "hmacKey" \notin DOMAIN Options(c, n)
    BY DEF Options
  <2>7. HasPair(<<"aes", Yield(password, salt, n)>>, <<"hmac", Yield(password, salt, n)>>,
            With(With(Options(c, n), Split(Yield(password, salt, n))), held))
    BY <2>6, WithSplit, Zenon
  <2>8. HasOptions(salt, n, With(With(Options(c, n), Split(Yield(password, salt, n))), held))
    BY WithOptions, Zenon
  <2>9. QED
    BY <1>y, <2>5, <2>7, <2>8, Zenon
<1>3. CASE todo = ToImportPassword(t)
  <2>1. Leads(todo, "importPassword", {ToHmacBlock(t)})
    BY <1>l, <1>3, Zenon
  <2>2. Head(todo) = "importPassword"
    BY <2>1, Zenon DEF Leads
  <2>3. PICK n \in Iterations(c) :
            Goes(c, With(Options(c, n), [counter |-> 0, u1 |-> {}, output |-> << >>]))
    BY <2>2, DeriveTurns DEF DeriveTurn
  <2>4. /\ calls'[c].todo = ToHmacBlock(t)
        /\ more = With(With(Options(c, n), [counter |-> 0, u1 |-> {}, output |-> << >>]), held)
    BY <2>1, <2>3, GoesOnly, Zenon
  <2>5. n \in Iterations(c) \cap Counts
    OBVIOUS
  <2>6. Looping(salt, n, more)
    BY <2>4, <2>5, WithStart, Zenon
  <2>7. QED
    BY <2>4, <2>5, <2>6, Zenon DEF Cooking
<1>4. ASSUME NEW n \in Iterations(c) \cap Counts, todo = ToHmacBlock(t),
             Looping(salt, n, held)
      PROVE  Cooking(password, salt, Iterations(c), t, next, calls'[c].todo, more)
  <2> DEFINE k == held["counter"]
             o == held["output"]
             u1 == SymDiff(held["u1"], {k + 1})
             out == Append(o, u1)
  <2>0. /\ HasOptions(salt, n, held) /\ k \in 0..(n - 1)
        /\ held["u1"] = 1..k /\ o \in {<< >>, <<1..n>>}
    BY <1>4, Zenon DEF Looping
  <2>1. Leads(todo, "hmacBlock", next)
    BY <1>l, <1>4, Zenon
  <2>2. Head(todo) = "hmacBlock"
    BY <2>1, Zenon DEF Leads
  <2>3. n \in Nat /\ n >= 1 /\ bufferToUint32(held["pbkdf2_iter"]) = n
    BY <2>0, CountsFacts DEF HasOptions, Holds
  <2>4. u1 = 1..(k + 1)
    BY <2>0, <2>3 DEF SymDiff
  <2>5. \/ k + 1 # n /\ Again(c, k + 1, u1, o)
        \/ k + 1 = n /\ Len(out) * Sha1Bytes < PasswordBits \div 8 /\ Again(c, 0, {}, out)
        \/ /\ k + 1 = n /\ ~(Len(out) * Sha1Bytes < PasswordBits \div 8)
           /\ Goes(c, Split(Derived(c, out)))
    BY <2>2, <2>3, Rounds DEF Round
  <2> HIDE DEF k, o, u1, out
  <2>6. ASSUME NEW k2 \in 0..(n - 1), NEW u2, u2 = 1..k2, NEW o2 \in {<< >>, <<1..n>>},
               Again(c, k2, u2, o2)
        PROVE  Cooking(password, salt, Iterations(c), t, next, calls'[c].todo, more)
    <3>1. /\ calls'[c].todo = ToHmacBlock(t)
          /\ more = With([counter |-> k2, u1 |-> 1..k2, output |-> o2], held)
      BY <1>4, <2>6, Zenon DEF Again
    <3>2. Looping(salt, n, more)
      <4>1. Looping(salt, n, With([counter |-> k2, u1 |-> 1..k2, output |-> o2], held))
        BY <2>0, WithCounter
      <4>2. QED
        BY <3>1, <4>1, Zenon
    <3>3. QED
      BY <3>1, <3>2, Zenon DEF Cooking
  <2>7. CASE k + 1 # n /\ Again(c, k + 1, u1, o)
    <3>1. k + 1 \in 0..(n - 1)
      BY <2>0, <2>3, <2>7
    <3>2. QED
      BY <2>0, <2>4, <2>6, <2>7, <3>1
  <2>8. Sha1Bytes = 20 /\ PasswordBits \div 8 = 36
    BY DEF Sha1Bytes, PasswordBits
  <2>9. CASE /\ k + 1 = n /\ Len(out) * Sha1Bytes < PasswordBits \div 8
             /\ Again(c, 0, {}, out)
    <3>1. out \in {<< >>, <<1..n>>}
      <4>1. u1 = 1..n
        BY <2>4, <2>9
      <4>2. CASE o = << >>
        BY <4>1, <4>2 DEF out
      <4>3. CASE o = <<1..n>>
        <5>1. Len(out) = 2
          BY <4>1, <4>3 DEF out
        <5>2. QED
          BY <2>8, <2>9, <5>1
      <4>4. QED
        BY <2>0, <4>2, <4>3
    <3>2. 0 \in 0..(n - 1) /\ {} = 1..0
      BY <2>3
    <3>3. QED
      BY <2>6, <2>9, <3>1, <3>2
  <2>10. CASE /\ k + 1 = n /\ ~(Len(out) * Sha1Bytes < PasswordBits \div 8)
              /\ Goes(c, Split(Derived(c, out)))
    <3>1. out = <<1..n, 1..n>>
      <4>1. u1 = 1..n
        BY <2>4, <2>10
      <4>2. CASE o = << >>
        <5>1. Len(out) = 1
          BY <4>1, <4>2 DEF out
        <5>2. QED
          BY <2>8, <2>10, <5>1
      <4>3. CASE o = <<1..n>>
        BY <4>1, <4>3, AppendTwice, Zenon DEF out
      <4>4. QED
        BY <2>0, <4>2, <4>3
    <3>2. held["pbkdf2_salt"] = salt
      BY <2>0, Zenon DEF HasOptions, Holds
    <3>3. bag(c).pbkdf2_salt = salt
      BY <3>2, Zenon DEF bag
    <3>4. Derived(c, out) = Yield(password, salt, n)
      BY <3>1, <3>3, YieldIs, Zenon DEF Derived
    <3>5. Goes(c, Split(Yield(password, salt, n)))
      BY <2>10, <3>4, Zenon
    <3>6. calls'[c].todo \in next /\ more = With(Split(Yield(password, salt, n)), held)
      BY <2>1, <3>5, GoesTo, Zenon
    <3>7. HasPair(<<"aes", Yield(password, salt, n)>>, <<"hmac", Yield(password, salt, n)>>,
                  With(Split(Yield(password, salt, n)), held))
      <4>1. "aesKey" \notin DOMAIN << >> /\ "hmacKey" \notin DOMAIN << >>
        OBVIOUS
      <4>2. QED
        BY <4>1, WithSplit, Zenon
    <3>8. HasOptions(salt, n, With(Split(Yield(password, salt, n)), held))
      BY <2>0, WithSplitOptions, Zenon
    <3>9. n \in Iterations(c)
      OBVIOUS
    <3>10. QED
      BY <1>y, <3>6, <3>7, <3>8, <3>9, Zenon
  <2>11. QED
    BY <2>5, <2>7, <2>9, <2>10, Zenon
<1>5. ASSUME NEW n \in Iterations(c) \cap Counts, todo \in next,
             Cooked(password, salt, n, held)
      PROVE  Cooking(password, salt, Iterations(c), t, next, calls'[c].todo, more)
  <2>1. todo # << >> /\ (Stops(c) \/ Turn(c, Head(todo)))
    BY Turns
  <2>2. PICK op \in KeyUsers : Leads(todo, op, next)
    BY <1>5, <2>1, AfterLeads, Zenon
  <2>3. Turn(c, op)
    BY <2>1, <2>2, Zenon DEF Leads
  <2>4. calls'[c].todo \in next /\ Cooked(password, salt, n, more)
    BY <1>5, <2>2, <2>3, CookedTurn, Zenon
  <2>5. QED
    BY <2>4, Zenon DEF Cooking
<1>6. \/ todo = ToPassword(t) \/ todo = ToDeriveBits(t) \/ todo = ToImportPassword(t)
      \/ \E n \in Iterations(c) \cap Counts :
            \/ todo = ToHmacBlock(t) /\ Looping(salt, n, held)
            \/ todo \in next /\ Cooked(password, salt, n, held)
  BY DEF Cooking
<1>7. QED
  BY <1>1, <1>2, <1>3, <1>4, <1>5, <1>6, Zenon

----------------------------------------------------------------------------
(* DeriveInv is inductive.                                                 *)

LEMMA DeriveInit == Init => DeriveInv
<1>1. ASSUME Init, NEW c \in Calls PROVE calls[c].fn \notin PasswordUsers
  BY <1>1 DEF Init, Idle, PasswordUsers
<1>2. QED
  BY <1>1, Zenon DEF DeriveInv

LEMMA DeriveStarts ==
    ASSUME OnceInv, NEW c \in Calls, Start(c), calls'[c].fn \in PasswordUsers,
           Sound(calls'[c])
    PROVE  LET t == Wants(calls'[c].fn)
           IN  calls'[c].todo \in {ToPassword(t), ToImportPassword(t)}
<1>1. PICK p, args : /\ calls'[c].fn \in Offered /\ args \in Arguments(c, calls'[c].fn)
                     /\ Opens(c, calls'[c].fn, p, args)
  BY StartHas, Zenon
<1>2. PICK fn \in Offered : fn = calls'[c].fn
  BY <1>1
<1>3. args \in Arguments(c, fn) /\ Opens(c, fn, p, args) /\ fn \in PasswordUsers
  BY <1>1, <1>2, Zenon
<1>4. "ring" \notin DOMAIN args
  BY <1>3, ArgumentsHave DEF PasswordUsers
<1> DEFINE t == Wants(fn)
<1>5. t \in Seq(Ops)
  BY <1>3, WantsLead, Zenon
<1>6. Chain(fn, p, args) = Derive(p) \o t
  <2>1. CASE fn = "encryptWithPassword"
    <3>1. Chain(fn, p, args) = Derive(p) \o SymEncrypt
      BY <2>1 DEF Chain, EncryptWithPassword
    <3>2. t = SymEncrypt
      BY <2>1, SymEncryptChain, Zenon DEF Wants
    <3>3. QED
      BY <3>1, <3>2, Zenon
  <2>2. CASE fn = "decryptWithPassword"
    <3>1. Chain(fn, p, args) = Derive(p) \o SymDecrypt
      BY <2>2 DEF Chain, DecryptWithPassword
    <3>2. t = SymDecrypt
      BY <2>2 DEF Wants
    <3>3. QED
      BY <3>1, <3>2, Zenon
  <2>3. QED
    BY <1>3, <2>1, <2>2 DEF PasswordUsers
<1>7. Chain(fn, p, args) \in {ToPassword(t), ToImportPassword(t)}
  BY <1>5, <1>6, DeriveThen, Zenon
<1>8. ASSUME NEW s \in {ToPassword(t), ToImportPassword(t)}
      PROVE  Unfold(s, {}) = s
  <2>1. Head(s) \in {"passwordToKey", "importPassword"}
    <3>1. \A objects : Unfold(t, objects) \in AfterDerive(fn)
      BY <1>3, WantsLead, Zenon
    <3>2. /\ Head(ToPassword(t)) = "passwordToKey"
          /\ Head(ToImportPassword(t)) = "importPassword"
      BY <1>5, <3>1, DerivingLeads, Zenon DEF Leads
    <3>3. QED
      BY <3>2
  <2>2. Head(s) # "importKeys"
    BY <2>1
  <2>3. QED
    BY <2>2, Zenon DEF Unfold
<1>9. calls'[c].todo = IF calls'[c].said = << >> THEN Chain(fn, p, args) ELSE << >>
  BY <1>3, <1>4, <1>7, <1>8, Zenon DEF Opens
<1>10. calls'[c].said \in {<< >>}
  <2>1. Chain(fn, p, args) # << >>
    <3>1. \A objects : Unfold(t, objects) \in AfterDerive(fn)
      BY <1>3, WantsLead, Zenon
    <3>2. ToPassword(t) # << >> /\ ToImportPassword(t) # << >>
      BY <1>5, <3>1, DerivingLeads, Zenon DEF Leads
    <3>3. QED
      BY <1>7, <3>2
  <2>2. calls'[c].said = IF Chain(fn, p, args) = << >> THEN <<"ok">> ELSE << >>
    BY <1>3, <1>4, <1>7, <1>8, Zenon DEF Opens
  <2>3. QED
    BY <2>1, <2>2
<1>11. QED
  BY <1>2, <1>7, <1>9, <1>10, Zenon

LEMMA DeriveStep ==
    OnceInv /\ ArgsInv /\ GivenInv /\ DeriveInv /\ [Next]_vars => DeriveInv'
<1> SUFFICES ASSUME OnceInv, ArgsInv, GivenInv, DeriveInv, [Next]_vars PROVE DeriveInv'
  OBVIOUS
<1>1. ASSUME NEW c \in Calls, calls'[c].fn \in PasswordUsers, Sound(calls'[c])
      PROVE  Cooking(calls'[c].args.password, Salt(c)', Iterations(c)',
                     Wants(calls'[c].fn), AfterDerive(calls'[c].fn), calls'[c].todo,
                     calls'[c].bag)
  <2>0. ASSUME calls'[c].args = calls[c].args
        PROVE  Salt(c)' = Salt(c) /\ Iterations(c)' = Iterations(c)
    BY <2>0, OptionsStay
  <2>1. CASE calls'[c] = calls[c]
    <3>1. Salt(c)' = Salt(c) /\ Iterations(c)' = Iterations(c)
      BY <2>0, <2>1
    <3>2. Cooking(calls[c].args.password, Salt(c), Iterations(c),
                  Wants(calls[c].fn), AfterDerive(calls[c].fn), calls[c].todo,
                  calls[c].bag)
      BY <1>1, <2>1, Zenon DEF DeriveInv
    <3>3. QED
      BY <2>1, <3>1, <3>2, Zenon
  <2>2. CASE Start(c)
    <3>1. calls'[c].todo \in {ToPassword(Wants(calls'[c].fn)),
                              ToImportPassword(Wants(calls'[c].fn))}
      BY <1>1, <2>2, DeriveStarts, Zenon
    <3>2. PICK t : t = Wants(calls'[c].fn)
      OBVIOUS
    <3>3. calls'[c].todo \in {ToPassword(t), ToDeriveBits(t), ToImportPassword(t)}
      BY <3>1, <3>2
    <3>4. QED
      BY <3>2, <3>3, Zenon DEF Cooking
  <2>3. CASE Settles(c)
    <3>1. calls[c].todo # << >> /\ (Stops(c) \/ Turn(c, Head(calls[c].todo)))
      BY <2>3, Turns
    <3>2. ~Stops(c)
      BY <1>1, StoppedIsNotSound, Zenon
    <3>3. calls[c].fn = calls'[c].fn /\ calls[c].args = calls'[c].args
      BY <3>1, <3>2, TurnSame, Zenon DEF Same
    <3>4. PICK fn \in PasswordUsers : fn = calls[c].fn
      BY <1>1, <3>3
    <3>5. Cooking(calls[c].args.password, Salt(c), Iterations(c), Wants(fn),
                  AfterDerive(fn), calls[c].todo, calls[c].bag)
      BY <1>1, <3>1, <3>3, <3>4, Zenon DEF DeriveInv, Sound
    <3>6. Iterations(c) \subseteq Counts
      BY <3>4, IterationsAre
    <3>7. Cooking(calls[c].args.password, Salt(c), Iterations(c), Wants(fn),
                  AfterDerive(fn), calls'[c].todo, calls'[c].bag)
      BY <2>3, <3>2, <3>5, <3>6, CookingGoes, Zenon
    <3>8. Salt(c)' = Salt(c) /\ Iterations(c)' = Iterations(c)
      BY <2>0, <3>3
    <3>9. QED
      BY <3>3, <3>4, <3>7, <3>8, Zenon
  <2>4. QED
    BY <2>1, <2>2, <2>3, MovesOne, Zenon
<1>2. QED
  BY <1>1, Zenon DEF DeriveInv, Sound

----------------------------------------------------------------------------
(* What a message holds.                                                   *)

LEMMA RangeJoined ==
    ASSUME NEW L, NEW x \in Seq(L), NEW y \in Seq(L)
    PROVE  /\ \A i \in 1..Len(x) : x[i] \in Range(x \o y)
           /\ \A i \in 1..Len(y) : y[i] \in Range(x \o y)
<1>1. PICK z : z = x \o y
  OBVIOUS
<1>2. Joins(L, x, y, z)
  BY <1>1, Joined
<1>3. /\ z \in Seq(L) /\ Len(x) \in Nat /\ Len(y) \in Nat
      /\ Len(z) = Len(x) + Len(y)
      /\ \A i \in 1..Len(x) : z[i] = x[i]
      /\ \A i \in 1..Len(y) : z[Len(x) + i] = y[i]
  BY <1>2 DEF Joins
<1>4. \A i \in 1..(Len(x) + Len(y)) : z[i] \in Range(z)
  BY <1>3 DEF Range
<1>5. ASSUME NEW i \in 1..Len(x) PROVE x[i] \in Range(z)
  <2>1. i \in 1..(Len(x) + Len(y)) /\ z[i] = x[i]
    BY <1>3
  <2>2. QED
    BY <1>4, <2>1, Zenon
<1>6. ASSUME NEW i \in 1..Len(y) PROVE y[i] \in Range(z)
  <2>1. Len(x) + i \in 1..(Len(x) + Len(y)) /\ z[Len(x) + i] = y[i]
    BY <1>3
  <2>2. QED
    BY <1>4, <2>1, Zenon
<1>7. QED
  BY <1>1, <1>5, <1>6, Zenon

\* The labels of a message with an AES part.
LEMMA LayoutHas ==
    ASSUME NEW m, "aesEncrypted" \in DOMAIN calls[m].bag
    PROVE  /\ {"aesEncrypted", "hmac"} \subseteq Range(Layout(m))
           /\ calls[m].fn = "asym.encrypt" => "rsaEncrypted" \in Range(Layout(m))
           /\ calls[m].fn = "encryptAndSign" =>
                {"rsaEncrypted", "signatureOfData", "signatureOfEncrypted"}
                    \subseteq Range(Layout(m))
           /\ calls[m].fn = "encryptWithPassword" =>
                {"pbkdf2_salt", "pbkdf2_iter"} \subseteq Range(Layout(m))
<1> DEFINE L == DOMAIN LABEL_TO_INDEX
           aes == <<"aesEncrypted", "hmac">>
           rsa == <<"rsaEncrypted">>
           signed == <<"rsaEncrypted", "signatureOfData", "signatureOfEncrypted">>
           derived == <<"pbkdf2_salt", "pbkdf2_iter">>
           fn == calls[m].fn
<1>1. {"aesEncrypted", "hmac", "rsaEncrypted", "signatureOfData",
       "signatureOfEncrypted", "pbkdf2_salt", "pbkdf2_iter"} \subseteq L
  BY DEF LABEL_TO_INDEX
<1>2. /\ aes \in Seq(L) /\ Len(aes) = 2 /\ aes[1] = "aesEncrypted" /\ aes[2] = "hmac"
      /\ rsa \in Seq(L) /\ Len(rsa) = 1 /\ rsa[1] = "rsaEncrypted"
      /\ signed \in Seq(L) /\ Len(signed) = 3 /\ signed[1] = "rsaEncrypted"
      /\ signed[2] = "signatureOfData" /\ signed[3] = "signatureOfEncrypted"
      /\ derived \in Seq(L) /\ Len(derived) = 2 /\ derived[1] = "pbkdf2_salt"
      /\ derived[2] = "pbkdf2_iter"
  <2> HIDE DEF L
  <2>1. QED
    BY <1>1
<1>3. Range(aes) = {"aesEncrypted", "hmac"}
  BY DEF Range
<1>4. Layout(m) = CASE fn = "asym.encrypt" -> rsa \o aes
                    [] fn = "encryptAndSign" -> signed \o aes
                    [] fn = "encryptWithPassword" -> aes \o derived
                    [] OTHER -> aes
  BY Zenon DEF Layout
<1> HIDE DEF L, aes, rsa, signed, derived
<1>5. CASE fn = "asym.encrypt"
  <2>1. Layout(m) = rsa \o aes
    BY <1>4, <1>5
  <2>2. \A i \in 1..1 : rsa[i] \in Range(Layout(m))
    BY <1>2, <2>1, RangeJoined, Zenon
  <2>3. \A i \in 1..2 : aes[i] \in Range(Layout(m))
    BY <1>2, <2>1, RangeJoined, Zenon
  <2>4. QED
    BY <1>2, <1>5, <2>2, <2>3
<1>6. CASE fn = "encryptAndSign"
  <2>1. Layout(m) = signed \o aes
    BY <1>4, <1>6
  <2>2. \A i \in 1..3 : signed[i] \in Range(Layout(m))
    BY <1>2, <2>1, RangeJoined, Zenon
  <2>3. \A i \in 1..2 : aes[i] \in Range(Layout(m))
    BY <1>2, <2>1, RangeJoined, Zenon
  <2>4. QED
    BY <1>2, <1>6, <2>2, <2>3
<1>7. CASE fn = "encryptWithPassword"
  <2>1. Layout(m) = aes \o derived
    BY <1>4, <1>7
  <2>2. \A i \in 1..2 : aes[i] \in Range(Layout(m))
    BY <1>2, <2>1, RangeJoined, Zenon
  <2>3. \A i \in 1..2 : derived[i] \in Range(Layout(m))
    BY <1>2, <2>1, RangeJoined, Zenon
  <2>4. QED
    BY <1>2, <1>7, <2>2, <2>3
<1>8. CASE fn \notin {"asym.encrypt", "encryptAndSign", "encryptWithPassword"}
  <2>1. Layout(m) = aes
    BY <1>4, <1>8
  <2>2. QED
    BY <1>3, <1>8, <2>1
<1>9. QED
  BY <1>5, <1>6, <1>7, <1>8

LEMMA Carries ==
    ASSUME NEW m, NEW l \in Range(Layout(m)), NEW x, Holds(calls[m].bag, l, x)
    PROVE  Holds(Message(m), l, x)
BY DEF Message, Holds

\* The keys of a message, and what they made of it.
KeysOf(m, k, h) ==
    CASE calls[m].fn = "sym.encrypt" -> k = Key(calls[m].args.ring) /\ h = k
      [] calls[m].fn = "encryptWithPassword" ->
            \E n \in Iterations(m) \cap Counts :
                /\ k = <<"aes", Yield(calls[m].args.password, Salt(m), n)>>
                /\ h = <<"hmac", Yield(calls[m].args.password, Salt(m), n)>>
                /\ HasOptions(Salt(m), n, Message(m))
      [] OTHER -> k = Key(m) /\ h = k
Whole(m, k, h) ==
    /\ Holds(Message(m), "aesEncrypted", Cover(m, k))
    /\ Holds(Message(m), "hmac", [key |-> h, over |-> Cover(m, k)])
    /\ calls[m].fn \in {"asym.encrypt", "encryptAndSign"} =>
        Holds(Message(m), "rsaEncrypted", Content(m))
    /\ calls[m].fn = "encryptAndSign" =>
        /\ Holds(Message(m), "signatureOfData",
                 [by |-> calls[m].args.signer, over |-> Content(m)])
        /\ Holds(Message(m), "signatureOfEncrypted",
                 [by |-> calls[m].args.signer, over |-> <<Content(m)>>])

\* A sent message is sealed with its keys.
LEMMA SealedWith ==
    ASSUME OnceInv, SignInv, EncryptInv, NEW m \in Sent(Encrypts)
    PROVE  LET held == calls[m].bag
           IN  /\ calls[m].fn = "sym.encrypt" =>
                    Sealed(m, Key(calls[m].args.ring), Key(calls[m].args.ring), held)
               /\ calls[m].fn \in {"genKeysAndEncrypt", "asym.encrypt", "encryptAndSign"} =>
                    Sealed(m, Key(m), Key(m), held)
               /\ calls[m].fn = "encryptWithPassword" =>
                    Sealed(m, held["aesKey"], held["hmacKey"], held)
               /\ calls[m].fn = "encryptAndSign" => IsSigned(m, held, calls[m].args.signer)
<1> DEFINE held == calls[m].bag
           fn == calls[m].fn
           args == calls[m].args
<1>1. m \in Calls /\ fn \in Encrypts /\ calls[m].said = <<"ok">>
  BY DEF Sent
<1>2. calls[m].todo = << >>
  BY <1>1 DEF OnceInv, Finished
<1>3. CASE fn = "encryptAndSign"
  <2>1. IsSigned(m, held, calls[m].args.signer)
    BY <1>1, <1>3, MessageIsSigned DEF Messages, Sent
  <2>2. Sealed(m, Key(m), Key(m), held)
    BY <2>1, Zenon DEF IsSigned, HasOneSignature, HasRsa, IsExtended, HasCipher, HasKeys,
       Cipher, Mac, Sealed, Covered, HasPair, Cover
  <2>3. QED
    BY <1>3, <2>1, <2>2
<1>4. CASE fn # "encryptAndSign"
  <2>1. Encrypting(m, fn, args, << >>, held)
    BY <1>1, <1>2, <1>4 DEF EncryptInv, Sound
  <2>2. ASSUME NEW t \in Tails
        PROVE  /\ << >> \notin {ToGenerateAES(t), ToGenerateHMAC(t), ToExportAES(t),
                                ToExportHMAC(t), ToImportAES(t), ToImportHMAC(t)}
               /\ << >> \notin {ToCacheAES(t), ToCacheHMAC(t), ToEncryptAES(t),
                                ToSignHMAC(t), OnlyRSA}
    BY SealingLeads, Zenon DEF Leads
  <2>t. << >> \in Tails /\ OnlyRSA \in Tails
    BY DEF Tails
  <2>3. ASSUME NEW t \in Tails PROVE ~Making(m, t, << >>, held)
    BY <2>2, Zenon DEF Making
  <2>4. ASSUME NEW k, NEW h, Sealing(m, << >>, k, h, << >>, held) PROVE Sealed(m, k, h, held)
    BY <2>2, <2>4, <2>t, Zenon DEF Sealing
  <2>5. ASSUME NEW k, NEW h PROVE ~Sealing(m, OnlyRSA, k, h, << >>, held)
    BY <2>2, <2>t, Zenon DEF Sealing
  <2>6. ~Deriving(ToImportKeys(<< >>), << >>)
    BY DerivedLead, DerivingLeads, Zenon DEF Deriving, Leads
  <2>7. \/ fn = "sym.encrypt" /\ Sealed(m, Key(args.ring), Key(args.ring), held)
        \/ fn = "genKeysAndEncrypt" /\ Sealed(m, Key(m), Key(m), held)
        \/ fn = "asym.encrypt" /\ Sealed(m, Key(m), Key(m), held)
        \/ /\ fn = "encryptWithPassword"
           /\ Sealed(m, held["aesKey"], held["hmacKey"], held)
    BY <2>1, <2>3, <2>4, <2>5, <2>6, <2>t, Zenon DEF Encrypting
  <2>8. QED
    BY <1>4, <2>7
<1>5. QED
  BY <1>3, <1>4

LEMMA MessageIsWhole ==
    ASSUME OnceInv, SignInv, EncryptInv, DeriveInv, NEW m \in Sent(Encrypts)
    PROVE  \E k, h : KeysOf(m, k, h) /\ Whole(m, k, h)
<1> DEFINE held == calls[m].bag
           fn == calls[m].fn
           args == calls[m].args
<1>1. m \in Calls /\ fn \in Encrypts /\ calls[m].said = <<"ok">>
  BY DEF Sent
<1>2. ASSUME NEW k, NEW h, Sealed(m, k, h, held) PROVE Whole(m, k, h)
  <2>1. Holds(held, "aesEncrypted", Cover(m, k))
    BY <1>2, Zenon DEF Sealed, Covered
  <2>2. Holds(held, "hmac", [key |-> h, over |-> Cover(m, k)])
    BY <1>2, Zenon DEF Sealed
  <2>3. "aesEncrypted" \in DOMAIN held
    BY <2>1, Zenon DEF Holds
  <2>4. /\ Holds(Message(m), "aesEncrypted", Cover(m, k))
        /\ Holds(Message(m), "hmac", [key |-> h, over |-> Cover(m, k)])
    <3>1. "aesEncrypted" \in Range(Layout(m)) /\ "hmac" \in Range(Layout(m))
      BY <2>3, LayoutHas
    <3>2. QED
      BY <2>1, <2>2, <3>1, Carries, Zenon
  <2>5. ASSUME fn \in {"asym.encrypt", "encryptAndSign"}
        PROVE  Holds(Message(m), "rsaEncrypted", Content(m))
    <3>1. "rsaEncrypted" \in Range(Layout(m))
      BY <2>3, <2>5, LayoutHas
    <3>2. Holds(held, "rsaEncrypted", Content(m))
      BY <2>5, MessageIsSealed
    <3>3. QED
      BY <3>1, <3>2, Carries, Zenon
  <2>6. ASSUME fn = "encryptAndSign"
        PROVE  /\ Holds(Message(m), "signatureOfData",
                        [by |-> args.signer, over |-> Content(m)])
               /\ Holds(Message(m), "signatureOfEncrypted",
                        [by |-> args.signer, over |-> <<Content(m)>>])
    <3>1. /\ "signatureOfData" \in Range(Layout(m))
          /\ "signatureOfEncrypted" \in Range(Layout(m))
      BY <2>3, <2>6, LayoutHas
    <3>2. IsSigned(m, held, args.signer)
      BY <2>6, SealedWith
    <3>3. /\ Holds(held, "signatureOfData", [by |-> args.signer, over |-> Content(m)])
          /\ Holds(held, "signatureOfEncrypted",
                   [by |-> args.signer, over |-> <<Content(m)>>])
      BY <3>2, Zenon DEF IsSigned, HasOneSignature
    <3>4. QED
      BY <3>1, <3>3, Carries, Zenon
  <2>7. QED
    BY <2>4, <2>5, <2>6, Zenon DEF Whole
<1>3. CASE fn = "sym.encrypt"
  <2>1. KeysOf(m, Key(args.ring), Key(args.ring))
    BY <1>3 DEF KeysOf
  <2>2. Sealed(m, Key(args.ring), Key(args.ring), held)
    BY <1>3, SealedWith
  <2>3. QED
    BY <1>2, <2>1, <2>2, Zenon
<1>4. CASE fn \in {"genKeysAndEncrypt", "asym.encrypt", "encryptAndSign"}
  <2>1. KeysOf(m, Key(m), Key(m))
    BY <1>4 DEF KeysOf
  <2>2. Sealed(m, Key(m), Key(m), held)
    BY <1>4, SealedWith
  <2>3. QED
    BY <1>2, <2>1, <2>2, Zenon
<1>5. CASE fn = "encryptWithPassword"
  <2>1. m \in Sent({"encryptWithPassword"})
    BY <1>1, <1>5 DEF Sent
  <2>2. PICK n \in Iterations(m) \cap Counts : Cooked(args.password, Salt(m), n, held)
    BY <2>1, MessageCooked
  <2> DEFINE k == <<"aes", Yield(args.password, Salt(m), n)>>
             h == <<"hmac", Yield(args.password, Salt(m), n)>>
  <2>3. HasPair(k, h, held) /\ HasOptions(Salt(m), n, held)
    BY <2>2, Zenon DEF Cooked
  <2>4. held["aesKey"] = k /\ held["hmacKey"] = h
    BY <2>3, Zenon DEF HasPair, Holds
  <2>5. Sealed(m, held["aesKey"], held["hmacKey"], held)
    BY <1>5, SealedWith
  <2>6. Sealed(m, k, h, held)
    BY <2>4, <2>5, Zenon
  <2>7. "aesEncrypted" \in DOMAIN held
    BY <2>5, Zenon DEF Sealed, Covered, Holds
  <2>8. HasOptions(Salt(m), n, Message(m))
    <3>1. "pbkdf2_salt" \in Range(Layout(m)) /\ "pbkdf2_iter" \in Range(Layout(m))
      BY <1>5, <2>7, LayoutHas
    <3>2. QED
      BY <2>3, <3>1, Carries, Zenon DEF HasOptions
  <2>9. KeysOf(m, k, h)
    <3>1. fn # "sym.encrypt"
      BY <1>5
    <3>2. QED
      BY <1>5, <2>8, <3>1, Zenon DEF KeysOf
  <2>10. QED
    BY <1>2, <2>6, <2>9, Zenon
<1>6. QED
  BY <1>1, <1>3, <1>4, <1>5 DEF Encrypts

----------------------------------------------------------------------------
(* The message that fits.                                                  *)

\* A message tells whose it is.
TextInv ==
    \A m \in Sent(Encrypts) :
        "aesEncrypted" \in DOMAIN Message(m) /\ Message(m).aesEncrypted.text = m
LEMMA TextOf == OnceInv /\ SignInv /\ EncryptInv /\ DeriveInv => TextInv
<1>1. ASSUME OnceInv, SignInv, EncryptInv, DeriveInv, NEW m \in Sent(Encrypts)
      PROVE  "aesEncrypted" \in DOMAIN Message(m) /\ Message(m).aesEncrypted.text = m
  <2>1. PICK k, h : Whole(m, k, h)
    BY <1>1, MessageIsWhole, Zenon
  <2>2. "aesEncrypted" \in DOMAIN Message(m) /\ Message(m)["aesEncrypted"] = Cover(m, k)
    BY <2>1, Zenon DEF Whole, Holds
  <2>3. Cover(m, k).text = m
    BY DEF Cover
  <2>4. QED
    BY <2>2, <2>3, Zenon
<1>2. QED
  BY <1>1, Zenon DEF TextInv

\* It is one of those the function is given.
LEMMA FitsSource ==
    ASSUME OnceInv, SignInv, EncryptInv, GivenInv, NEW c \in Calls, calls[c].fn \in Decrypts,
           "aesEncrypted" \in DOMAIN calls[c].args.dict
    PROVE  calls[c].args.dict.aesEncrypted.text \in Sent(Sources(calls[c].fn))
<1> DEFINE fn == calls[c].fn
           d == calls[c].args.dict
<1>1. OfMessages(Sources(fn), d)
  BY Zenon DEF GivenInv
<1>2. PICK m \in Sent(Sources(fn)) : d["aesEncrypted"] = calls[m].bag["aesEncrypted"]
  BY <1>1, Zenon DEF OfMessages
<1>3. m \in Sent(Encrypts)
  <2>1. Sources(fn) \in SUBSET Encrypts
    BY SourcesAre, Zenon
  <2>2. QED
    BY <2>1 DEF Sent
<1>4. PICK k, h : Sealed(m, k, h, calls[m].bag)
  BY <1>3, MessageIsSealed, Zenon
<1>5. d["aesEncrypted"] = Cover(m, k)
  BY <1>2, <1>4, Zenon DEF Sealed, Covered, Holds
<1>6. Cover(m, k).text = m
  BY DEF Cover
<1>7. d.aesEncrypted.text = m
  BY <1>5, <1>6, Zenon
<1>8. QED
  BY <1>7, Zenon

\* Arguments that fit have fitted since they were given.
Fitted(c) ==
    calls[c].fn \in Decrypts => \E m \in Sent(Sources(calls[c].fn)) : Fits(c, m)
LEMMA ReasonableBefore ==
    ASSUME OnceInv, SignInv, EncryptInv, GivenInv, ArgsInv, TextInv', [Next]_vars,
           NEW c \in Calls, calls[c].fn # "none", calls'[c].fn = calls[c].fn,
           calls'[c].args = calls[c].args, Reasonable(c)'
    PROVE  Reasonable(c) /\ Fitted(c)
<1> DEFINE fn == calls[c].fn
           args == calls[c].args
<1>1. "dict" \in DOMAIN args <=> fn \in Decrypts
  BY Zenon DEF ArgsInv
<1>2. "ring" \in DOMAIN args => args.ring \notin IncompleteRings
  BY Zenon DEF Reasonable
<1>3. ASSUME fn \in Decrypts PROVE \E m \in Sent(Sources(fn)) : Fits(c, m)
  <2>1. PICK m \in Sent(Encrypts)' : Fits(c, m)'
    BY <1>1, <1>3, Zenon DEF Reasonable
  <2>2. "aesEncrypted" \in DOMAIN Message(m)' /\ Message(m)'.aesEncrypted.text = m
    BY <2>1, Zenon DEF TextInv
  <2>3. args.dict = Message(m)'
    BY <2>1, Zenon DEF Fits
  <2>4. m \in Sent(Sources(fn))
    <3>1. "aesEncrypted" \in DOMAIN args.dict /\ args.dict.aesEncrypted.text = m
      BY <2>2, <2>3, Zenon
    <3>2. args.dict.aesEncrypted.text \in Sent(Sources(fn))
      BY <1>3, <3>1, FitsSource
    <3>3. QED
      BY <3>1, <3>2, Zenon
  <2>5. calls'[m] = calls[m] /\ Layout(m)' = Layout(m)
    <3>1. "none" \notin Sources(fn)
      BY SourcesAre, Zenon
    <3>2. QED
      BY <2>4, <3>1, SentStays
  <2>6. Message(m)' = Message(m)
    BY <2>5, Zenon DEF Message
  <2>7. Fits(c, m)
    BY <2>1, <2>5, <2>6, Zenon DEF Fits
  <2>8. QED
    BY <2>4, <2>7, Zenon
<1>4. ASSUME "dict" \in DOMAIN args PROVE \E m \in Sent(Encrypts) : Fits(c, m)
  <2>1. PICK m \in Sent(Sources(fn)) : Fits(c, m)
    BY <1>1, <1>3, <1>4, Zenon
  <2>2. Sources(fn) \in SUBSET Encrypts
    BY SourcesAre, Zenon
  <2>3. m \in Sent(Encrypts)
    BY <2>2 DEF Sent
  <2>4. QED
    BY <2>1, <2>3, Zenon
<1>5. QED
  BY <1>2, <1>3, <1>4, Zenon DEF Reasonable, Fitted

----------------------------------------------------------------------------
(* What stands next.                                                       *)

\* Where a call may be that opens the AES part, and what it holds then.
LEMMA OpeningHeads ==
    ASSUME NEW d, NEW k, NEW h, NEW todo, NEW held, Opening(d, k, h, todo, held),
           todo # << >>
    PROVE  /\ Head(todo) \in {"importKeyAES", "importKeyHMAC", "verifyHMAC", "decryptAES"}
           /\ HasPair(k, h, held)
<1>1. HasPair(k, h, held)
  BY Zenon DEF Opening
<1>2. /\ Head(AtOpenAES) = "importKeyAES" /\ Head(AtOpenHMAC) = "importKeyHMAC"
      /\ Head(AtVerifyHMAC) = "verifyHMAC" /\ Head(AtDecryptAES) = "decryptAES"
  BY ReadingLeads, Zenon DEF Leads
<1>3. todo \in {AtOpenAES, AtOpenHMAC, AtVerifyHMAC, AtDecryptAES}
  <2>1. todo \in {AtOpenAES, AtOpenHMAC, AtVerifyHMAC} \/ todo = AtDecryptAES
    BY Zenon DEF Opening
  <2>2. QED
    BY <2>1
<1>4. QED
  BY <1>1, <1>2, <1>3

\* What a call that derives the keys waits for.
LEMMA DerivingHeads ==
    ASSUME NEW t \in Seq(Ops), NEW todo, Deriving(t, todo)
    PROVE  Head(todo) \in {"passwordToKey", "deriveBits", "importPassword", "hmacBlock"}
<1>1. PICK next : \A objects : Unfold(t, objects) \in next
  <2>1. PICK next : next = {t, Tail(t), <<"importKeyAES", "importKeyHMAC">> \o Tail(t)}
    OBVIOUS
  <2>2. t \in next /\ Tail(t) \in next
        /\ <<"importKeyAES", "importKeyHMAC">> \o Tail(t) \in next
    BY <2>1
  <2>3. QED
    BY <2>2, Zenon DEF Unfold
<1>2. /\ Head(ToPassword(t)) = "passwordToKey" /\ Head(ToDeriveBits(t)) = "deriveBits"
      /\ Head(ToImportPassword(t)) = "importPassword"
      /\ Head(ToHmacBlock(t)) = "hmacBlock"
  BY <1>1, DerivingLeads, Zenon DEF Leads
<1>3. QED
  BY <1>2 DEF Deriving

\* A call that seals goes on to RSA with the sealed parts.
LEMMA SealingHeads ==
    ASSUME NEW m, NEW t \in Tails, NEW k, NEW h, NEW todo, NEW held, todo # << >>,
           Making(m, t, todo, held) \/ Sealing(m, t, k, h, todo, held)
    PROVE  Head(todo) = "encryptRSA" => Sealed(m, k, h, held)
<1>1. /\ Head(ToGenerateAES(t)) = "generateKeyAES"
      /\ Head(ToGenerateHMAC(t)) = "generateKeyHMAC"
      /\ Head(ToExportAES(t)) = "exportKeyAES" /\ Head(ToExportHMAC(t)) = "exportKeyHMAC"
      /\ Head(ToImportAES(t)) = "importKeyAES" /\ Head(ToImportHMAC(t)) = "importKeyHMAC"
      /\ Head(ToCacheAES(t)) = "importKeyAES" /\ Head(ToCacheHMAC(t)) = "importKeyHMAC"
      /\ Head(ToEncryptAES(t)) = "encryptAES" /\ Head(ToSignHMAC(t)) = "signHMAC"
  BY SealingLeads, Zenon DEF Leads
<1>2. \/ todo \in {ToGenerateAES(t), ToGenerateHMAC(t), ToExportAES(t), ToExportHMAC(t),
                   ToImportAES(t), ToImportHMAC(t), ToCacheAES(t), ToCacheHMAC(t),
                   ToEncryptAES(t), ToSignHMAC(t)}
      \/ todo = t /\ Sealed(m, k, h, held)
  BY DEF Making, Sealing
<1>3. QED
  BY <1>1, <1>2

\* A call that encrypts by RSA has the AES part.
LEMMA EncryptHeads ==
    ASSUME SignInv, EncryptInv, NEW c \in Calls, calls[c].fn \in Encrypts,
           calls[c].todo # << >>, Head(calls[c].todo) = "encryptRSA"
    PROVE  "aesEncrypted" \in DOMAIN calls[c].bag
<1> DEFINE todo == calls[c].todo
           held == calls[c].bag
           args == calls[c].args
           fn == calls[c].fn
<1>1. Sound(calls[c])
  BY Zenon DEF Sound
<1>t. << >> \in Tails /\ OnlyRSA \in Tails
  BY DEF Tails
<1>2. ASSUME NEW k, NEW h, Sealed(c, k, h, held) PROVE "aesEncrypted" \in DOMAIN held
  BY <1>2, Zenon DEF Sealed, Covered, Holds
<1>3. ASSUME NEW t \in Tails, NEW k, NEW h,
             Making(c, t, todo, held) \/ Sealing(c, t, k, h, todo, held)
      PROVE  "aesEncrypted" \in DOMAIN held
  <2>1. Sealed(c, k, h, held)
    BY <1>3, SealingHeads, Zenon
  <2>2. QED
    BY <1>2, <2>1, Zenon
<1>4. CASE fn = "encryptAndSign"
  <2>1. Signing(c, todo, held, args.signer)
    BY <1>1, <1>4, Zenon DEF SignInv
  <2>2. /\ Head(AtGenerateAES) = "generateKeyAES" /\ Head(AtGenerateHMAC) = "generateKeyHMAC"
        /\ Head(AtExportAES) = "exportKeyAES" /\ Head(AtExportHMAC) = "exportKeyHMAC"
        /\ Head(AtImportAES) = "importKeyAES" /\ Head(AtImportHMAC) = "importKeyHMAC"
        /\ Head(AtCacheAES) = "importKeyAES" /\ Head(AtCacheHMAC) = "importKeyHMAC"
        /\ Head(AtEncryptAES) = "encryptAES" /\ Head(AtSignHMAC) = "signHMAC"
        /\ Head(AtSignData) = "signData" /\ Head(AtSignEncrypted) = "signEncrypted"
    BY SigningLeads, Zenon DEF Leads
  <2>3. todo \notin {AtGenerateAES, AtGenerateHMAC, AtExportAES, AtExportHMAC, AtImportAES,
                     AtImportHMAC, AtCacheAES, AtCacheHMAC, AtEncryptAES, AtSignHMAC,
                     AtSignData, AtSignEncrypted, << >>}
    BY <2>2
  <2>4. IsExtended(c, held)
    BY <2>1, <2>3 DEF Signing
  <2>5. QED
    BY <2>4, Zenon DEF IsExtended, HasCipher, Holds
<1>5. CASE fn # "encryptAndSign"
  <2>1. Encrypting(c, fn, args, todo, held)
    BY <1>1, <1>5 DEF EncryptInv
  <2>2. ~Deriving(ToImportKeys(<< >>), todo)
    <3>1. ToImportKeys(<< >>) \in Seq(Ops)
      BY DerivedLead, Zenon
    <3>2. Head(todo) \notin {"passwordToKey", "deriveBits", "importPassword", "hmacBlock"}
      OBVIOUS
    <3>3. QED
      BY <3>1, <3>2, DerivingHeads, Zenon
  <2>3. \/ \E t \in Tails : \E k, h :
                Making(c, t, todo, held) \/ Sealing(c, t, k, h, todo, held)
        \/ Sealed(c, Key(c), Key(c), held)
    BY <1>t, <2>1, <2>2, Zenon DEF Encrypting
  <2>4. QED
    BY <1>2, <1>3, <2>3, Zenon
<1>6. QED
  BY <1>4, <1>5

\* A call that decrypts knows the keys, or what RSA decrypted, when it looks.
LEMMA DecryptHeads ==
    ASSUME DecryptInv, NEW c \in Calls, calls[c].fn \in Decrypts, calls[c].todo # << >>
    PROVE  LET op == Head(calls[c].todo)
               fn == calls[c].fn
               args == calls[c].args
               d == args.dict
               held == calls[c].bag
           IN  /\ op \in {"verifyHMAC", "decryptAES"} =>
                    \/ fn = "sym.decrypt" /\ HasPair(Key(args.ring), Key(args.ring), held)
                    \/ /\ fn \in {"asym.decrypt", "verifyAndDecrypt"}
                       /\ HasPair(d["rsaEncrypted"].keys[1], d["rsaEncrypted"].keys[2], held)
                    \/ fn = "decryptWithPassword"
               /\ op = "decryptRSA" => fn \in {"asym.decrypt", "verifyAndDecrypt"}
               /\ op = "verifyEncrypted" => fn = "verifyAndDecrypt"
               /\ op = "verifyData" =>
                    fn = "verifyAndDecrypt" /\ Holds(held, "payload", d["rsaEncrypted"])
<1> DEFINE op == Head(calls[c].todo)
           todo == calls[c].todo
           fn == calls[c].fn
           args == calls[c].args
           d == args.dict
           held == calls[c].bag
           part == AesPart(d)
           k1 == d["rsaEncrypted"].keys[1]
           k2 == d["rsaEncrypted"].keys[2]
           opens == op \in {"importKeyAES", "importKeyHMAC", "verifyHMAC", "decryptAES"}
           derives == op \in {"passwordToKey", "deriveBits", "importPassword", "hmacBlock"}
<1>1. Decrypting(fn, args, todo, held)
  BY Zenon DEF DecryptInv, Sound
<1>2. ASSUME NEW k, NEW h, Opening(d, k, h, todo, held)
      PROVE  opens /\ HasPair(k, h, held)
  BY <1>2, OpeningHeads, Zenon
<1>3. ASSUME OpeningRSA(d, todo, held) PROVE opens /\ HasPair(k1, k2, held)
  BY <1>2, <1>3, Zenon DEF OpeningRSA
<1>4. ASSUME Deriving(SymDecrypt, todo) PROVE derives
  <2>1. SymDecrypt \in Seq(Ops)
    BY DerivedLead, Zenon
  <2>2. QED
    BY <1>4, <2>1, DerivingHeads, Zenon
<1>5. /\ Head(Then("decryptRSA", part)) = "decryptRSA"
      /\ Head(AtVerifyEncrypted(part)) = "verifyEncrypted"
      /\ Head(AtDecryptRSA(part)) = "decryptRSA"
      /\ Head(AtVerifyData(part)) = "verifyData"
  <2>1. part \in Seq(Ops)
    BY ReadingChain, Zenon
  <2>2. Head(Then("decryptRSA", part)) = "decryptRSA" /\ Head(Then("verifyData", part)) = "verifyData"
    BY <2>1, ThenFacts, OpsAre
  <2>3. QED
    BY <2>1, <2>2, ReadingLeads, Zenon DEF Leads, AtVerifyData
<1>6. \/ fn = "sym.decrypt" /\ opens /\ HasPair(Key(args.ring), Key(args.ring), held)
      \/ fn = "asym.decrypt" /\ op = "decryptRSA"
      \/ fn = "asym.decrypt" /\ opens /\ HasPair(k1, k2, held)
      \/ fn = "verifyAndDecrypt" /\ op \in {"verifyEncrypted", "decryptRSA"}
      \/ /\ fn = "verifyAndDecrypt" /\ op = "verifyData"
         /\ Holds(held, "payload", d["rsaEncrypted"])
      \/ fn = "verifyAndDecrypt" /\ opens /\ HasPair(k1, k2, held)
      \/ fn = "decryptWithPassword" /\ (opens \/ derives)
  <2>1. CASE /\ fn = "sym.decrypt"
             /\ Opening(d, Key(args.ring), Key(args.ring), todo, held)
    BY <1>2, <2>1, Zenon
  <2>2. CASE fn = "asym.decrypt" /\ todo = Then("decryptRSA", part)
    BY <1>5, <2>2, Zenon
  <2>3. CASE fn = "asym.decrypt" /\ OpeningRSA(d, todo, held)
    BY <1>3, <2>3, Zenon
  <2>4. CASE fn = "verifyAndDecrypt" /\ todo \in {AtVerifyEncrypted(part), AtDecryptRSA(part)}
    <3>1. op \in {"verifyEncrypted", "decryptRSA"}
      BY <1>5, <2>4
    <3>2. QED
      BY <2>4, <3>1, Zenon
  <2>5. CASE /\ fn = "verifyAndDecrypt" /\ todo = AtVerifyData(part)
             /\ Holds(held, "payload", d["rsaEncrypted"])
    BY <1>5, <2>5, Zenon
  <2>6. CASE fn = "verifyAndDecrypt" /\ OpeningRSA(d, todo, held)
    BY <1>3, <2>6, Zenon
  <2>7. CASE fn = "decryptWithPassword" /\ Deriving(SymDecrypt, todo)
    BY <1>4, <2>7, Zenon
  <2>8. CASE /\ fn = "decryptWithPassword"
             /\ Opening(d, held["aesKey"], held["hmacKey"], todo, held)
    BY <1>2, <2>8, Zenon
  <2>9. QED
    BY <1>1, <2>1, <2>2, <2>3, <2>4, <2>5, <2>6, <2>7, <2>8, Zenon DEF Decrypting
<1>7. QED
  BY <1>6

----------------------------------------------------------------------------
(* There is nothing to blame.                                              *)

LEMMA FitsFacts ==
    ASSUME NEW c, NEW m, Fits(c, m)
    PROVE  /\ calls[c].args.dict = Message(m)
           /\ calls[c].fn = "sym.decrypt" =>
                calls[c].args.ring = IF "ring" \in DOMAIN calls[m].args
                                     THEN calls[m].args.ring ELSE m
           /\ calls[c].fn = "verifyAndDecrypt" =>
                calls[c].args.signer = calls[m].args.signer
           /\ calls[c].fn = "decryptWithPassword" =>
                calls[c].args.password = calls[m].args.password
BY DEF Fits

LEMMA SourceFunctions ==
    ASSUME NEW c \in Calls, NEW m \in Sent(Sources(calls[c].fn)), calls[c].fn \in Decrypts
    PROVE  /\ m \in Sent(Encrypts)
           /\ calls[c].fn = "sym.decrypt" => calls[m].fn \in {"sym.encrypt", "genKeysAndEncrypt"}
           /\ calls[c].fn = "asym.decrypt" => calls[m].fn \in {"asym.encrypt", "encryptAndSign"}
           /\ calls[c].fn = "verifyAndDecrypt" => calls[m].fn = "encryptAndSign"
           /\ calls[c].fn = "decryptWithPassword" => calls[m].fn = "encryptWithPassword"
<1>1. Sources(calls[c].fn) \in SUBSET Encrypts
  BY SourcesAre, Zenon
<1>2. m \in Calls /\ calls[m].fn \in Sources(calls[c].fn) /\ m \in Sent(Encrypts)
  BY <1>1 DEF Sent
<1>3. QED
  BY <1>2 DEF Sources

\* The keys derived for the message are those derived for its reader.
LEMMA SameYield ==
    ASSUME ArgsInv, DeriveInv, NEW c \in Calls, calls[c].fn = "decryptWithPassword",
           calls[c].todo # << >>, Head(calls[c].todo) \in {"verifyHMAC", "decryptAES"},
           NEW m, Fits(c, m), calls[m].fn = "encryptWithPassword",
           NEW k, NEW h, KeysOf(m, k, h)
    PROVE  HasPair(k, h, calls[c].bag)
<1> DEFINE d == calls[c].args.dict
           password == calls[c].args.password
           t == Wants("decryptWithPassword")
           todo == calls[c].todo
           held == calls[c].bag
<1>1. PICK n2 \in Iterations(m) \cap Counts :
            /\ k = <<"aes", Yield(calls[m].args.password, Salt(m), n2)>>
            /\ h = <<"hmac", Yield(calls[m].args.password, Salt(m), n2)>>
            /\ HasOptions(Salt(m), n2, Message(m))
  BY DEF KeysOf
<1>2. d = Message(m) /\ password = calls[m].args.password
  BY FitsFacts
<1>3. "dict" \in DOMAIN calls[c].args
  BY DEF ArgsInv, Decrypts
<1>4. Holds(d, "pbkdf2_salt", Salt(m)) /\ Holds(d, "pbkdf2_iter", uint32toBuffer(n2))
  BY <1>1, <1>2, Zenon DEF HasOptions
<1>5. ~Lacks(c, {"pbkdf2_salt"}) /\ ~Lacks(c, {"pbkdf2_iter"})
  BY <1>4 DEF Lacks, dict, Holds
<1>6. Salt(c) = Salt(m)
  BY <1>3, <1>4, <1>5, Zenon DEF Salt, dict, Holds
<1>7. Iterations(c) = {n2}
  <2>1. Iterations(c) = {bufferToUint32(d["pbkdf2_iter"])}
    BY <1>3, <1>5, Zenon DEF Iterations, dict
  <2>2. d["pbkdf2_iter"] = uint32toBuffer(n2)
    BY <1>4, Zenon DEF Holds
  <2>3. bufferToUint32(uint32toBuffer(n2)) = n2
    BY CountsFacts
  <2>4. QED
    BY <2>1, <2>2, <2>3
<1>8. PICK n \in Iterations(c) \cap Counts : Cooked(password, Salt(c), n, held)
  <2>1. calls[c].fn \in PasswordUsers /\ Sound(calls[c])
    BY DEF PasswordUsers, Sound
  <2>2. Cooking(password, Salt(c), Iterations(c), t, AfterDerive("decryptWithPassword"),
                todo, held)
    BY <2>1, Zenon DEF DeriveInv
  <2>3. ~Deriving(t, todo)
    <3>1. t \in Seq(Ops)
      BY WantsLead DEF PasswordUsers
    <3>2. Head(todo) \notin {"passwordToKey", "deriveBits", "importPassword", "hmacBlock"}
      OBVIOUS
    <3>3. QED
      BY <3>1, <3>2, DerivingHeads, Zenon
  <2>4. /\ todo \notin {ToPassword(t), ToDeriveBits(t), ToImportPassword(t)}
        /\ todo # ToHmacBlock(t)
    BY <2>3 DEF Deriving
  <2>5. QED
    BY <2>2, <2>4, Zenon DEF Cooking
<1>9. n = n2
  BY <1>7
<1>10. HasPair(<<"aes", Yield(password, Salt(c), n)>>, <<"hmac", Yield(password, Salt(c), n)>>,
               held)
  BY <1>8, Zenon DEF Cooked
<1>11. QED
  BY <1>1, <1>2, <1>6, <1>9, <1>10, Zenon

LEMMA FittedKeys ==
    ASSUME ArgsInv, DeriveInv, DecryptInv, NEW c \in Calls, calls[c].fn \in Decrypts,
           calls[c].todo # << >>, Head(calls[c].todo) \in {"verifyHMAC", "decryptAES"},
           NEW m \in Sent(Sources(calls[c].fn)), Fits(c, m),
           NEW k, NEW h, KeysOf(m, k, h), Whole(m, k, h)
    PROVE  HasPair(k, h, calls[c].bag)
<1> DEFINE fn == calls[c].fn
           args == calls[c].args
           d == args.dict
           held == calls[c].bag
           k1 == d["rsaEncrypted"].keys[1]
           k2 == d["rsaEncrypted"].keys[2]
<1>1. \/ fn = "sym.decrypt" /\ HasPair(Key(args.ring), Key(args.ring), held)
      \/ fn \in {"asym.decrypt", "verifyAndDecrypt"} /\ HasPair(k1, k2, held)
      \/ fn = "decryptWithPassword"
  BY DecryptHeads
<1>2. CASE fn = "sym.decrypt" /\ HasPair(Key(args.ring), Key(args.ring), held)
  <2>1. calls[m].fn \in {"sym.encrypt", "genKeysAndEncrypt"}
    BY <1>2, SourceFunctions
  <2>2. args.ring = IF "ring" \in DOMAIN calls[m].args THEN calls[m].args.ring ELSE m
    BY <1>2, FitsFacts
  <2>3. m \in Calls
    BY DEF Sent
  <2>4. "ring" \in DOMAIN calls[m].args <=> calls[m].fn = "sym.encrypt"
    BY <2>1, <2>3 DEF ArgsInv
  <2>5. k = Key(args.ring) /\ h = k
    <3>1. CASE calls[m].fn = "sym.encrypt"
      BY <2>2, <2>4, <3>1 DEF KeysOf
    <3>2. CASE calls[m].fn = "genKeysAndEncrypt"
      <4>1. args.ring = m
        BY <2>2, <2>4, <3>2
      <4>2. k = Key(m) /\ h = k
        BY <3>2 DEF KeysOf
      <4>3. QED
        BY <4>1, <4>2, Zenon
    <3>3. QED
      BY <2>1, <3>1, <3>2
  <2>6. QED
    BY <1>2, <2>5, Zenon
<1>3. CASE fn \in {"asym.decrypt", "verifyAndDecrypt"} /\ HasPair(k1, k2, held)
  <2>1. calls[m].fn \in {"asym.encrypt", "encryptAndSign"}
    BY <1>3, SourceFunctions
  <2>2. d = Message(m)
    BY FitsFacts, Zenon
  <2>3. d["rsaEncrypted"] = Content(m)
    BY <2>1, <2>2, Zenon DEF Whole, Holds
  <2>4. k1 = Key(m) /\ k2 = Key(m)
    BY <2>3, PayloadIsKeys, Zenon
  <2>5. k = Key(m) /\ h = k
    BY <2>1 DEF KeysOf
  <2>6. QED
    BY <1>3, <2>4, <2>5, Zenon
<1>4. CASE fn = "decryptWithPassword"
  <2>1. calls[m].fn = "encryptWithPassword"
    BY <1>4, SourceFunctions
  <2>2. QED
    BY <1>4, <2>1, SameYield
<1>5. QED
  BY <1>1, <1>2, <1>3, <1>4, Zenon

LEMMA WhoseOps ==
    ASSUME NEW fn, NEW op \in OpsOf(fn)
    PROVE  /\ op \in {"verifyHMAC", "decryptAES", "decryptRSA", "verifyEncrypted",
                      "verifyData"} => fn \in Decrypts
           /\ op = "encryptRSA" => fn \in Encrypts
           /\ op \in {"importPrivate", "importPublic"} => fn \in KeyMakers \cup Importers
BY DEF OpsOf, Sealers, Openers, Harmless, RsaOps

\* Nothing an operation reports is the fault of the arguments, if they fit.
LEMMA Blameless ==
    ASSUME OnceInv, SignInv, EncryptInv, DecryptInv, ArgsInv, PaceInv, JwkInv,
           DeriveInv, NEW c \in Calls, calls[c].fn # "none", calls[c].todo # << >>,
           Fitted(c)
    PROVE  ~Blame(c, Head(calls[c].todo))
<1> DEFINE fn == calls[c].fn
           todo == calls[c].todo
           op == Head(todo)
           held == calls[c].bag
           d == calls[c].args.dict
<1>1. op \in OpsOf(fn) /\ (op \in Needs => cached[KeysObject(c)] = Both)
  <2>1. Paced(OpsOf(fn), todo) /\ Ready(todo, cached[KeysObject(c)])
    BY Zenon DEF PaceInv
  <2>2. QED
    BY <2>1, PacedTail, Zenon DEF Ready
<1>2. op \in Needs => ~Uncached(c, "aes") /\ ~Uncached(c, "hmac")
  BY <1>1 DEF Uncached, Both
<1>3. ASSUME fn \in Decrypts
      PROVE  \E m \in Sent(Sources(fn)) : \E k, h :
                /\ Fits(c, m) /\ KeysOf(m, k, h) /\ Whole(m, k, h) /\ d = Message(m)
  <2>1. PICK m \in Sent(Sources(fn)) : Fits(c, m)
    BY <1>3, Zenon DEF Fitted
  <2>2. m \in Sent(Encrypts)
    BY <1>3, SourceFunctions
  <2>3. PICK k, h : KeysOf(m, k, h) /\ Whole(m, k, h)
    BY <2>2, MessageIsWhole, Zenon
  <2>4. d = Message(m)
    BY <2>1, FitsFacts
  <2>5. QED
    BY <2>1, <2>3, <2>4, Zenon
<1>4. ASSUME op \in {"verifyHMAC", "decryptAES"}
      PROVE  /\ ~Lacks(c, {"hmac", "aesEncrypted"}) /\ ~Lacks(c, {"aesEncrypted"})
             /\ dict(c).hmac = [key |-> bag(c).hmacKey, over |-> dict(c).aesEncrypted]
             /\ dict(c).aesEncrypted.key = bag(c).aesKey
  <2>1. fn \in Decrypts
    BY <1>1, <1>4, WhoseOps
  <2>m. PICK m \in Sent(Sources(fn)) : \E k, h :
                Fits(c, m) /\ KeysOf(m, k, h) /\ Whole(m, k, h) /\ d = Message(m)
    BY <1>3, <2>1, Zenon
  <2>2. PICK k, h : Fits(c, m) /\ KeysOf(m, k, h) /\ Whole(m, k, h) /\ d = Message(m)
    BY <2>m, Zenon
  <2>3. HasPair(k, h, held)
    BY <1>4, <2>1, <2>2, FittedKeys
  <2>4. bag(c).aesKey = k /\ bag(c).hmacKey = h
    BY <2>3, Zenon DEF HasPair, Holds, bag
  <2>5. /\ Holds(d, "aesEncrypted", Cover(m, k))
        /\ Holds(d, "hmac", [key |-> h, over |-> Cover(m, k)])
    BY <2>2, Zenon DEF Whole
  <2>6. Cover(m, k).key = k
    BY DEF Cover
  <2>7. dict(c).aesEncrypted = Cover(m, k) /\ dict(c).hmac = [key |-> h, over |-> Cover(m, k)]
    BY <2>5, Zenon DEF Holds, dict
  <2>8. ~Lacks(c, {"hmac", "aesEncrypted"}) /\ ~Lacks(c, {"aesEncrypted"})
    BY <2>5 DEF Holds, Lacks, dict
  <2>9. QED
    BY <2>4, <2>6, <2>7, <2>8, Zenon
<1>5. ASSUME op \in {"decryptRSA", "verifyEncrypted", "verifyData"}
      PROVE  \E m \in Sent(Sources(fn)) :
                /\ Fits(c, m) /\ fn \in Decrypts
                /\ Holds(d, "rsaEncrypted", Content(m))
                /\ op \in {"verifyEncrypted", "verifyData"} =>
                    /\ Holds(d, "signatureOfData",
                             [by |-> calls[c].args.signer, over |-> Content(m)])
                    /\ Holds(d, "signatureOfEncrypted",
                             [by |-> calls[c].args.signer, over |-> <<Content(m)>>])
                /\ op = "verifyData" => bag(c).payload = Content(m)
  <2>1. fn \in Decrypts
    BY <1>1, <1>5, WhoseOps
  <2>m. PICK m \in Sent(Sources(fn)) : \E k, h :
                Fits(c, m) /\ KeysOf(m, k, h) /\ Whole(m, k, h) /\ d = Message(m)
    BY <1>3, <2>1, Zenon
  <2>2. PICK k, h : Fits(c, m) /\ KeysOf(m, k, h) /\ Whole(m, k, h) /\ d = Message(m)
    BY <2>m, Zenon
  <2>3. /\ fn \in {"asym.decrypt", "verifyAndDecrypt"}
        /\ op \in {"verifyEncrypted", "verifyData"} => fn = "verifyAndDecrypt"
        /\ op = "verifyData" => Holds(held, "payload", d["rsaEncrypted"])
    BY <1>5, <2>1, DecryptHeads
  <2>4. /\ calls[m].fn \in {"asym.encrypt", "encryptAndSign"}
        /\ op \in {"verifyEncrypted", "verifyData"} => calls[m].fn = "encryptAndSign"
    BY <2>1, <2>3, SourceFunctions
  <2>5. Holds(d, "rsaEncrypted", Content(m))
    BY <2>2, <2>4, Zenon DEF Whole
  <2>6. ASSUME op \in {"verifyEncrypted", "verifyData"}
        PROVE  /\ Holds(d, "signatureOfData",
                        [by |-> calls[c].args.signer, over |-> Content(m)])
               /\ Holds(d, "signatureOfEncrypted",
                        [by |-> calls[c].args.signer, over |-> <<Content(m)>>])
    <3>1. calls[c].args.signer = calls[m].args.signer
      BY <2>2, <2>3, <2>6, FitsFacts
    <3>2. calls[m].fn = "encryptAndSign"
      BY <2>4, <2>6
    <3>3. QED
      BY <2>2, <3>1, <3>2, Zenon DEF Whole
  <2>7. op = "verifyData" => bag(c).payload = Content(m)
    BY <2>3, <2>5, Zenon DEF Holds, bag
  <2>8. QED
    BY <2>1, <2>2, <2>5, <2>6, <2>7, Zenon
<1>6. \A m : Content(m).length = CombinedLength
  BY DEF Content
<1> SUFFICES ASSUME Blame(c, op) PROVE FALSE
  OBVIOUS
<1>11. CASE /\ op \in {"encryptAES", "signHMAC"}
            /\ Uncached(c, "aes") \/ Uncached(c, "hmac")
  BY <1>2, <1>11 DEF Needs
<1>12. CASE /\ op = "verifyHMAC"
            /\ \/ Lacks(c, {"hmac", "aesEncrypted"}) \/ Uncached(c, "hmac")
               \/ dict(c).hmac # [key |-> bag(c).hmacKey, over |-> dict(c).aesEncrypted]
  <2>1. op \in Needs /\ op \in {"verifyHMAC", "decryptAES"}
    BY <1>12 DEF Needs
  <2>2. QED
    BY <1>2, <1>4, <1>12, <2>1, Zenon
<1>13. CASE /\ op = "decryptAES"
            /\ \/ Lacks(c, {"aesEncrypted"}) \/ Uncached(c, "aes")
               \/ dict(c).aesEncrypted.key # bag(c).aesKey
  <2>1. op \in Needs /\ op \in {"verifyHMAC", "decryptAES"}
    BY <1>13 DEF Needs
  <2>2. QED
    BY <1>2, <1>4, <1>13, <2>1, Zenon
<1>14. CASE op = "encryptRSA" /\ ToRsa(c).length > OaepLimit
  <2>1. fn \in Encrypts
    BY <1>1, <1>14, WhoseOps
  <2>2. "aesEncrypted" \in DOMAIN held
    BY <1>14, <2>1, EncryptHeads
  <2>3. ToRsa(c) = Combined(c)
    BY <2>2, Zenon DEF ToRsa, bag
  <2>4. Combined(c).length = CombinedLength
    BY DEF Combined
  <2>5. CombinedLength = 36 /\ OaepLimit = 214
    BY DEF CombinedLength, AesLength, HmacLength, OaepLimit, RsaLength, Sha1Bytes
  <2>6. ToRsa(c).length = 36
    BY <2>3, <2>4, <2>5, Zenon
  <2>7. QED
    BY <1>14, <2>5, <2>6
<1>15. CASE /\ op = "decryptRSA"
            /\ Lacks(c, {"rsaEncrypted"}) \/ Misfits(c, dict(c).rsaEncrypted)
  <2>1. PICK m : Holds(d, "rsaEncrypted", Content(m))
    BY <1>5, <1>15
  <2>2. ~Lacks(c, {"rsaEncrypted"})
    BY <2>1 DEF Holds, Lacks, dict
  <2>3. dict(c).rsaEncrypted = Content(m)
    BY <2>1, Zenon DEF Holds, dict
  <2>4. ~Misfits(c, dict(c).rsaEncrypted)
    BY <1>6, <2>3, Zenon DEF Misfits
  <2>5. QED
    BY <1>15, <2>2, <2>4, Zenon
<1>16. CASE /\ op = "verifyEncrypted"
            /\ \/ Lacks(c, {"signatureOfEncrypted", "rsaEncrypted"})
               \/ dict(c).signatureOfEncrypted #
                    [by |-> calls[c].args.signer, over |-> <<dict(c).rsaEncrypted>>]
  <2>0. op \in {"decryptRSA", "verifyEncrypted", "verifyData"}
        /\ op \in {"verifyEncrypted", "verifyData"}
    BY <1>16
  <2>1. PICK m : /\ Holds(d, "rsaEncrypted", Content(m))
                 /\ Holds(d, "signatureOfEncrypted",
                             [by |-> calls[c].args.signer, over |-> <<Content(m)>>])
    BY <1>5, <2>0, Zenon
  <2>2. ~Lacks(c, {"signatureOfEncrypted", "rsaEncrypted"})
    BY <2>1 DEF Holds, Lacks, dict
  <2>3. /\ dict(c).rsaEncrypted = Content(m)
        /\ dict(c).signatureOfEncrypted =
                [by |-> calls[c].args.signer, over |-> <<Content(m)>>]
    BY <2>1, Zenon DEF Holds, dict
  <2>4. QED
    BY <1>16, <2>2, <2>3, Zenon
<1>17. CASE /\ op = "verifyData"
            /\ \/ Lacks(c, {"signatureOfData"}) \/ Misfits(c, bag(c).payload)
               \/ dict(c).signatureOfData #
                    [by |-> calls[c].args.signer, over |-> bag(c).payload]
  <2>0. op \in {"decryptRSA", "verifyEncrypted", "verifyData"}
        /\ op \in {"verifyEncrypted", "verifyData"}
    BY <1>17
  <2>1. PICK m : /\ Holds(d, "signatureOfData",
                             [by |-> calls[c].args.signer, over |-> Content(m)])
                 /\ bag(c).payload = Content(m)
    BY <1>5, <1>17, <2>0, Zenon
  <2>2. ~Lacks(c, {"signatureOfData"})
    BY <2>1 DEF Holds, Lacks, dict
  <2>3. dict(c).signatureOfData = [by |-> calls[c].args.signer, over |-> bag(c).payload]
    BY <2>1, Zenon DEF Holds, dict
  <2>4. ~Misfits(c, bag(c).payload)
    BY <1>6, <2>1, Zenon DEF Misfits
  <2>5. QED
    BY <1>17, <2>2, <2>3, <2>4, Zenon
<1>18. CASE /\ op \in {"importPrivate", "importPublic"}
            /\ ~NativeTakes(calls[c].on, _importKey(calls[c].on, bag(c).privateJwk))
  <2>1. fn \in KeyMakers \cup Importers
    BY <1>1, <1>18, WhoseOps
  <2>2. JwkOf(calls[c]) /\ Sound(calls[c])
    BY JwkOfEach, Zenon DEF Sound
  <2>3. ASSUME NEW t \in Makers PROVE todo \notin {t, Tail(t), Tail(Tail(t))}
    <3>1. /\ Head(t) \in {"generateEncryptKeys", "generateSignKeys"}
          /\ Head(Tail(t)) = "exportPublic" /\ Head(Tail(Tail(t))) = "exportPrivate"
      BY MakersAre, Zenon
    <3>2. /\ op # "exportPublic" /\ op # "exportPrivate"
          /\ op \notin {"generateEncryptKeys", "generateSignKeys"}
      BY <1>18
    <3>3. QED
      BY <3>1, <3>2
  <2>4. HasJwk(calls[c])
    <3>1. ~\E t \in Makers : todo \in {t, Tail(t), Tail(Tail(t))}
      BY <2>3, Zenon
    <3>2. CASE fn \in Importers
      BY <2>2, <3>2, Zenon DEF JwkOf
    <3>3. CASE fn \in KeyMakers
      BY <2>2, <3>1, <3>3, Zenon DEF JwkOf, MakesJwk
    <3>4. QED
      BY <2>1, <3>2, <3>3
  <2>5. bag(c).privateJwk = Standard
    BY <2>4, Zenon DEF HasJwk, Holds, bag
  <2>6. QED
    BY <1>18, <2>5, TakesStandard, Zenon
<1>19. QED
  BY <1>11, <1>12, <1>13, <1>14, <1>15, <1>16, <1>17, <1>18, Zenon DEF Blame

----------------------------------------------------------------------------
(* No call reports an error without need.                                  *)

\* A call goes on with the function and the arguments it was called with.
LEMMA SettlesSame ==
    ASSUME OnceInv, NEW c \in Calls, Settles(c)
    PROVE  calls'[c].fn = calls[c].fn /\ calls'[c].args = calls[c].args
<1>1. CASE Stops(c)
  BY <1>1, Zenon DEF Stops, Same
<1>2. CASE ~Stops(c)
  <2>1. Same(c)
    BY <1>2, Moves, Zenon
  <2>2. QED
    BY <2>1, Zenon DEF Same
<1>3. QED
  BY <1>1, <1>2

\* A call that has not begun waits for nothing and has said nothing.
IdleInv ==
    \A c \in Calls : calls[c].fn = "none" => calls[c].todo = << >> /\ calls[c].said = << >>
LEMMA IdleInit == Init => IdleInv
BY DEF Init, IdleInv, Idle
LEMMA IdleStep == OnceInv /\ IdleInv /\ [Next]_vars => IdleInv'
<1> SUFFICES ASSUME OnceInv, IdleInv, [Next]_vars PROVE IdleInv'
  OBVIOUS
<1>1. ASSUME NEW c \in Calls, calls'[c].fn = "none"
      PROVE  calls'[c].todo = << >> /\ calls'[c].said = << >>
  <2>1. CASE calls'[c] = calls[c]
    BY <1>1, <2>1, Zenon DEF IdleInv
  <2>2. CASE Start(c)
    <3>1. calls'[c].fn \in Offered
      BY <2>2, StartHas, Zenon
    <3>2. "none" \notin Offered
      BY DEF Offered, Encrypts, Decrypts, KeyMakers
    <3>3. QED
      BY <1>1, <3>1, <3>2
  <2>3. CASE Settles(c)
    <3>1. calls[c].fn = "none"
      BY <1>1, <2>3, SettlesSame
    <3>2. QED
      BY <2>3, <3>1, Turns, Zenon DEF IdleInv
  <2>4. QED
    BY <2>1, <2>2, <2>3, MovesOne
<1>2. QED
  BY <1>1, Zenon DEF IdleInv

\* What the first report of a call depends on.
AnswerInv ==
    /\ OnceInv /\ CachedOK /\ SignInv /\ EncryptInv /\ GivenInv /\ DecryptInv
    /\ ArgsInv /\ PaceInv /\ JwkInv /\ DeriveInv /\ IdleInv
LEMMA AnswerInit == Init => AnswerInv
<1>1. Init => OnceInv /\ CachedOK /\ SignInv /\ EncryptInv
  BY OnceInit, CachedInit, SignInit, EncryptInit
<1>2. Init => GivenInv /\ DecryptInv /\ ArgsInv /\ PaceInv
  BY DecryptInit, ArgsInit, PaceInit
<1>3. Init => JwkInv /\ DeriveInv /\ IdleInv
  BY JwkInit, DeriveInit, IdleInit
<1>4. QED
  BY <1>1, <1>2, <1>3, Zenon DEF AnswerInv
LEMMA AnswerStep == AnswerInv /\ [Next]_vars => AnswerInv'
<1> SUFFICES ASSUME AnswerInv, [Next]_vars PROVE AnswerInv'
  OBVIOUS
<1>1. /\ OnceInv /\ CachedOK /\ SignInv /\ EncryptInv /\ GivenInv /\ DecryptInv
      /\ ArgsInv /\ PaceInv /\ JwkInv /\ DeriveInv /\ IdleInv
  BY Zenon DEF AnswerInv
<1>2. OnceInv' /\ CachedOK' /\ SignInv'
  BY <1>1, OnceStep, CachedStep, SignStep
<1>3. EncryptInv' /\ GivenInv' /\ DecryptInv'
  BY <1>1, EncryptStep, GivenStep, DecryptStep
<1>4. ArgsInv' /\ PaceInv' /\ JwkInv'
  BY <1>1, ArgsStep, PaceStep, JwkStep
<1>5. DeriveInv' /\ IdleInv'
  BY <1>1, DeriveStep, IdleStep
<1>6. QED
  BY <1>2, <1>3, <1>4, <1>5, Zenon DEF AnswerInv

LEMMA NoErrorStep ==
    AnswerInv /\ TextInv' /\ NoNeedlessError /\ [Next]_vars => NoNeedlessError'
<1> SUFFICES ASSUME AnswerInv, TextInv', NoNeedlessError, [Next]_vars
             PROVE  NoNeedlessError'
  OBVIOUS
<1>0. /\ OnceInv /\ SignInv /\ EncryptInv /\ GivenInv /\ DecryptInv
      /\ ArgsInv /\ PaceInv /\ JwkInv /\ DeriveInv /\ IdleInv
  BY Zenon DEF AnswerInv
<1>1. ASSUME NEW c \in Calls, calls'[c].said # << >>, Reasonable(c)', ~calls'[c].failed
      PROVE  calls'[c].said[1] = "ok"
  <2>1. CASE calls'[c] = calls[c]
    <3>1. calls[c].fn # "none"
      BY <1>0, <1>1, <2>1, Zenon DEF IdleInv
    <3>2. Reasonable(c)
      BY <1>0, <1>1, <2>1, <3>1, ReasonableBefore
    <3>3. calls[c].said[1] = "ok"
      BY <1>1, <2>1, <3>2, Zenon DEF NoNeedlessError
    <3>4. QED
      BY <2>1, <3>3
  <2>2. CASE Start(c)
    <3>1. PICK p, args : Opens(c, calls'[c].fn, p, args)
      BY <1>0, <2>2, StartHas, Zenon
    <3>2. calls'[c].args = args
      BY <3>1, Zenon DEF Opens
    <3>3. "ring" \in DOMAIN args => args.ring \notin IncompleteRings
      BY <1>1, <3>2, Zenon DEF Reasonable
    <3>4. calls'[c].said \in {<<"ok">>, << >>}
      BY <3>1, <3>3 DEF Opens
    <3>5. QED
      BY <1>1, <3>4
  <2>3. CASE Settles(c)
    <3>1. calls[c].todo # << >>
      BY <1>0, <2>3, Turns, Zenon
    <3>2. calls[c].fn # "none"
      BY <1>0, <3>1, Zenon DEF IdleInv
    <3>3. calls'[c].fn = calls[c].fn /\ calls'[c].args = calls[c].args
      BY <1>0, <2>3, SettlesSame
    <3>4. Fitted(c)
      BY <1>0, <1>1, <3>2, <3>3, ReasonableBefore
    <3>5. ~Blame(c, Head(calls[c].todo))
      BY <1>0, <3>1, <3>2, <3>4, Blameless
    <3>6. Fine(c)
      BY <1>0, <2>3, <3>5, Blames
    <3>7. calls'[c].said \in {<<"ok">>, <<"ok", "error">>}
      BY <1>1, <3>6 DEF Fine
    <3>8. QED
      BY <3>7
  <2>4. QED
    BY <1>0, <2>1, <2>2, <2>3, MovesOne
<1>2. QED
  BY <1>1, Zenon DEF NoNeedlessError

\* Whatever the calls, the platforms they run on, the keys objects they share
\* and the messages they hand on, a call of simplecrypto.js whose arguments fit
\* reports no error unless an operation of its own failed: what was encrypted
\* can be decrypted, on every platform, with keys derived by either method and
\* with keys that another call imported or is importing.
THEOREM NoErrorIsNeedless == Spec => []NoNeedlessError
<1>1. AnswerInv => TextInv
  <2>1. AnswerInv => OnceInv /\ SignInv /\ EncryptInv /\ DeriveInv
    BY Zenon DEF AnswerInv
  <2>2. QED
    BY <2>1, TextOf
<1>2. Init => NoNeedlessError
  BY DEF Init, NoNeedlessError, Idle
<1>3. QED
  BY <1>1, <1>2, AnswerInit, AnswerStep, NoErrorStep, PTL DEF Spec
=============================================================================
