---------------------------- MODULE CryptoCalls ----------------------------
(***************************************************************************)
(* The asynchronous calls of simplecrypto.js (EmmaStreamingSolution): key  *)
(* generation and import, symmetric, asymmetric and password encryption.   *)
(*                                                                         *)
(* A call is a chain of native operations of WebCrypto.  Each one resolves *)
(* or rejects on its own time; between two of them any other call of any   *)
(* page may move.  What a function of the library does is the sequence of  *)
(* operations it still has to do ("todo"); an operation is an action.      *)
(* Keys and data are symbolic: a ciphertext is what was encrypted with     *)
(* which key.  Results that were sent may arrive whole, cut short, or with *)
(* their items confused with those of another message.                     *)
(***************************************************************************)
EXTENDS Packing, FiniteSets, TLC

CONSTANTS
    Calls,             \* the calls of all pages together
    Functions,         \* [Calls -> set of functions the call may be]
    Platforms,         \* [Calls -> what its page may run on]
    Careless,          \* the calls whose callbacks may throw
    Rings,             \* the {aesKey, hmacKey} objects the pages share
    IncompleteRings,   \* those that lack a key
    Passwords,
    Parties,           \* the owners of RSA signature keys
    ContentLength,     \* [Calls -> length in bytes of what it encrypts]
    MinIterations,     \* config.pbkdf2.minIterations
    ExtraIterations,   \* the largest result of getRandom(4000)
    Confusions,        \* sets of items an application may confuse
    MaxOpen,           \* how many calls are under way at once
    After              \* [Calls -> the calls that begin before it]

\* The functions of the library.
Offered == {"importKeys", "sym.generateKeys", "sym.encrypt", "genKeysAndEncrypt",
            "sym.decrypt", "asym.encrypt", "encryptAndSign", "asym.decrypt",
            "verifyAndDecrypt", "asym.generateKeys", "generateEncryptKey",
            "generateSignKey", "importEncryptKey", "importEncryptPrivateKey",
            "importEncryptPublicKey", "derive", "encryptWithPassword",
            "decryptWithPassword"}

\* A number of iterations fits four bytes.
ASSUME CallsAssumption ==
    /\ Functions \in [Calls -> SUBSET Offered]
    /\ Platforms \in [Calls -> SUBSET {"modern", "oldWebkit", "oldIE"}]
    /\ Careless \subseteq Calls
    /\ IncompleteRings \subseteq Rings
    /\ ContentLength \in [Calls -> Nat]
    /\ MinIterations \in Nat \ {0} /\ ExtraIterations \in Nat
    /\ MinIterations + ExtraIterations < ByteBase * Weight[4]
    /\ MaxOpen \in Nat /\ After \in [Calls -> SUBSET Calls]

VARIABLES
    calls,    \* [Calls -> the call]: see Idle
    cached    \* [Rings \cup Calls -> the CryptoKeys put into a keys object]
vars == <<calls, cached>>

\* fn, on: the function and the platform.  args: its arguments.  todo: the
\* native operations left.  bag: what the closures of the chain hold.  said:
\* the callbacks made.  failed: an operation was rejected for a reason of its
\* own.  threw: a callback of the application threw.
Idle == [fn |-> "none", on |-> "none", args |-> << >>, todo |-> << >>,
         bag |-> << >>, said |-> << >>, failed |-> FALSE, threw |-> FALSE]
Both == {"aes", "hmac"}
OpenCalls == {c \in Calls : calls[c].fn # "none" /\ calls[c].said = << >>}
----------------------------------------------------------------------------
\* config, in bits and bytes as the code has them.
AesLength == 128
HmacLength == 160
Sha1Bytes == 20
CombinedLength == AesLength \div 8 + HmacLength \div 8
RsaLength == 2048
rsaEncryptMax == RsaLength \div 8 - 2 * HmacLength - 2
PasswordBits == 288
\* What RSA-OAEP with SHA-1 can take.
OaepLimit == RsaLength \div 8 - 2 * Sha1Bytes - 2

----------------------------------------------------------------------------
(* The chains.  "importKeys" is no native operation: Unfold replaces it at *)
(* the moment the code reaches it.                                         *)

ImportKeys == <<"importKeys">>
SymGenerateKeys == <<"generateKeyAES", "generateKeyHMAC", "exportKeyAES",
                     "exportKeyHMAC", "importKeyAES", "importKeyHMAC">>
SymEncrypt == ImportKeys \o <<"encryptAES", "signHMAC">>
GenKeysAndEncrypt == SymGenerateKeys \o SymEncrypt
\* Mutant: the HMAC is not looked at.
MutSymDecryptUnverified == ImportKeys \o <<"decryptAES">>
SymDecrypt == ImportKeys \o <<"verifyHMAC", "decryptAES">>

\* extendData: content that is too long for RSA gets keys of its own.
ExtendData(length) ==
    IF length <= rsaEncryptMax THEN << >> ELSE GenKeysAndEncrypt
AsymEncrypt(length) == ExtendData(length) \o <<"encryptRSA">>
EncryptAndSign(length) ==
    AsymEncrypt(length) \o <<"signData", "signEncrypted">>

\* aesDecrypt follows when the received dictionary has an AES part.
AesPart(dict) == IF "aesEncrypted" \in DOMAIN dict THEN SymDecrypt ELSE << >>
AsymDecrypt(dict) == <<"decryptRSA">> \o AesPart(dict)
\* Mutant: neither signature is looked at.
MutVerifyNothing(dict) == AsymDecrypt(dict)
VerifyAndDecrypt(dict) ==
    <<"verifyEncrypted", "decryptRSA", "verifyData">> \o AesPart(dict)

GenerateEncryptKey ==
    <<"generateEncryptKeys", "exportPublic", "exportPrivate", "importPrivate">>
GenerateSignKey ==
    <<"generateSignKeys", "exportPublic", "exportPrivate", "importPrivate">>
AsymGenerateKeys == GenerateEncryptKey \o GenerateSignKey
ImportEncryptPrivateKey == <<"importPrivate">>
ImportEncryptPublicKey == <<"importPublic">>
ImportEncryptKey == ImportEncryptPrivateKey \o ImportEncryptPublicKey

\* derive: Internet Explorer throws where others reject, so it starts with
\* the compatible method at once.
CompatDerive == <<"importPassword", "hmacBlock">>
Derive(p) ==
    IF p = "oldIE" THEN CompatDerive ELSE <<"passwordToKey", "deriveBits">>
EncryptWithPassword(p) == Derive(p) \o SymEncrypt
DecryptWithPassword(p) == Derive(p) \o SymDecrypt

Chain(fn, p, args) ==
    CASE fn = "importKeys"              -> ImportKeys
      [] fn = "sym.generateKeys"        -> SymGenerateKeys
      [] fn = "sym.encrypt"             -> SymEncrypt
      [] fn = "genKeysAndEncrypt"       -> GenKeysAndEncrypt
      [] fn = "sym.decrypt"             -> SymDecrypt
      [] fn = "asym.encrypt"            -> AsymEncrypt(args.length)
      [] fn = "encryptAndSign"          -> EncryptAndSign(args.length)
      [] fn = "asym.decrypt"            -> AsymDecrypt(args.dict)
      [] fn = "verifyAndDecrypt"        -> VerifyAndDecrypt(args.dict)
      [] fn = "asym.generateKeys"       -> AsymGenerateKeys
      [] fn = "generateEncryptKey"      -> GenerateEncryptKey
      [] fn = "generateSignKey"         -> GenerateSignKey
      [] fn = "importEncryptKey"        -> ImportEncryptKey
      [] fn = "importEncryptPrivateKey" -> ImportEncryptPrivateKey
      [] fn = "importEncryptPublicKey"  -> ImportEncryptPublicKey
      [] fn = "derive"                  -> Derive(p)
      [] fn = "encryptWithPassword"     -> EncryptWithPassword(p)
      [] fn = "decryptWithPassword"     -> DecryptWithPassword(p)
----------------------------------------------------------------------------
(* Messages: the results of encrypting calls, in the order of their items. *)

Encrypts == {"sym.encrypt", "genKeysAndEncrypt", "asym.encrypt",
             "encryptAndSign", "encryptWithPassword"}
Sent(fns) == {c \in Calls : calls[c].fn \in fns /\ calls[c].said = <<"ok">>}

Layout(c) ==
    LET bag == calls[c].bag
        aes == IF "aesEncrypted" \in DOMAIN bag
               THEN <<"aesEncrypted", "hmac">> ELSE << >>
    IN  CASE calls[c].fn = "asym.encrypt"   -> <<"rsaEncrypted">> \o aes
          [] calls[c].fn = "encryptAndSign" ->
                <<"rsaEncrypted", "signatureOfData", "signatureOfEncrypted">>
                    \o aes
          [] calls[c].fn = "encryptWithPassword" ->
                aes \o <<"pbkdf2_salt", "pbkdf2_iter">>
          [] OTHER -> aes

Packed(c) ==
    encode([i \in DOMAIN Layout(c) |->
        [label |-> Layout(c)[i], data |-> <<calls[c].bag[Layout(c)[i]]>>]])
ToDict(items) ==
    [l \in {items[i].label : i \in DOMAIN items} |->
        items[CHOOSE i \in DOMAIN items : items[i].label = l].data[1]]
Message(c) == [l \in Range(Layout(c)) |-> calls[c].bag[l]]

\* What can be handed to a decrypting call: what decode makes of a buffer or
\* of its beginning, or items of two messages.
Arrivals(fns) ==
    {ToDict(decode(b).items) :
        b \in {b \in UNION {{SubSeq(Packed(c), 1, n) :
                                n \in 1..Len(Packed(c))} : c \in Sent(fns)} :
                decode(b).ok}}
    \cup
    {[l \in DOMAIN Message(c) |->
        IF l \in S \cap DOMAIN Message(d) THEN Message(d)[l] ELSE Message(c)[l]] :
            c \in Sent(fns), d \in Sent(fns), S \in Confusions}

\* The members that matter of an RSA key in JSON, as the platform and as the
\* library write it, and what the platform takes.
NativeJwk(p) ==
    IF p = "modern" THEN {"ext", "key_ops", "alg"} ELSE {"extractable"}
NativeTakes(p, jwk) ==
    jwk \cap (IF p = "modern" THEN {"extractable"} ELSE {"ext", "key_ops"}) = {}
exportKey(p) ==
    IF p = "modern" THEN NativeJwk(p)
    ELSE (NativeJwk(p) \ {"extractable"}) \cup {"key_ops", "alg"}
            \cup {"ext" : x \in NativeJwk(p) \cap {"extractable"}}
_importKey(p, jwk) ==
    IF p = "modern" THEN jwk
    ELSE (jwk \ {"ext", "key_ops"}) \cup {"extractable" : x \in jwk \cap {"ext"}}

\* The encryption keys that a call generated and a page holds: all that may be
\* imported as one.  (A signing key would be rejected for its algorithm.  The
\* two keys of asym.generateKeys have the same members.)
KeyMakers == {"asym.generateKeys", "generateEncryptKey", "generateSignKey"}
Jwks == {calls[c].bag.privateJwk : c \in Sent(KeyMakers \ {"generateSignKey"})}

----------------------------------------------------------------------------
(* Calls and answers.                                                      *)

\* The keys object of a call: one the pages share, or one of its own.
KeysObject(c) ==
    IF "ring" \in DOMAIN calls[c].args THEN calls[c].args.ring ELSE c
RawKeys(o) == [aesKey |-> <<"keys", o>>, hmacKey |-> <<"keys", o>>]

\* Mutant: a cached key is enough.
MutUnfoldEither(todo, objects) ==
    IF todo = << >> \/ Head(todo) # "importKeys" THEN todo
    ELSE IF objects # {} THEN Tail(todo)
         ELSE <<"importKeyAES", "importKeyHMAC">> \o Tail(todo)

\* importKeys skips what is cached, if both keys are.
Unfold(todo, objects) ==
    IF todo = << >> \/ Head(todo) # "importKeys" THEN todo
    ELSE IF objects = Both THEN Tail(todo)
         ELSE <<"importKeyAES", "importKeyHMAC">> \o Tail(todo)

\* Mutant: the chain is not left after the callback.
MutAnswerGoesOn(c, call, what, fromHandler) ==
    calls' = [calls EXCEPT ![c] = [call EXCEPT !.said = Append(@, what)]]

\* The callback may throw.  A promise turns that into onError when the throw
\* came from the handler of its result.
AnswerWith(c, call, what, fromHandler) ==
    \E threw \in {FALSE} \cup {TRUE : x \in {c} \cap Careless} :
        calls' = [calls EXCEPT ![c] =
            [call EXCEPT !.todo = << >>, !.threw = threw,
                !.said = @ \o (IF threw /\ fromHandler /\ call.on # "oldIE"
                               THEN <<what, "error">> ELSE <<what>>)]]

\* What the closures hold when "new" joins it.
With(new, held) ==
    [l \in DOMAIN new \cup DOMAIN held |-> IF l \in DOMAIN new THEN new[l] ELSE held[l]]

\* The operation resolved: the closures hold "new", the chain goes on.
Proceed(c, new) ==
    LET rest == Unfold(Tail(calls[c].todo), cached'[KeysObject(c)])
        call == [calls[c] EXCEPT !.todo = rest, !.bag = With(new, @)]
    IN  IF rest = << >> THEN AnswerWith(c, call, "ok", TRUE)
        ELSE calls' = [calls EXCEPT ![c] = call]

\* Mutant: a promise without catch.
MutRejectedUncaught(c, ownReason) == calls' = [calls EXCEPT ![c].todo = << >>]

\* wrap, the promise or the event of failure: the operation was rejected.
Rejected(c, ownReason) ==
    AnswerWith(c, [calls[c] EXCEPT !.failed = ownReason, !.bag = << >>],
               "error", FALSE)
\* Mutant: onSuccess follows onError.
MutRefusedGoesOn(c) ==
    calls' = [calls EXCEPT ![c].said = <<"error">>, ![c].todo = Tail(@)]

\* The result is a refusal: onError is called by the handler of the result.
Refused(c) ==
    AnswerWith(c, [calls[c] EXCEPT !.bag = << >>], "error", TRUE)
\* An argument is missing: a promise rejects, Internet Explorer throws at
\* nobody.
Misused(c) ==
    IF calls[c].on = "oldIE"
    THEN calls' = [calls EXCEPT ![c] = [@ EXCEPT !.todo = << >>, !.bag = << >>]]
    ELSE Rejected(c, FALSE)

Arguments(c, fn) ==
    LET length == ContentLength[c]
        objects == Rings \cup Sent({"genKeysAndEncrypt", "sym.generateKeys"})
    IN  CASE fn \in {"importKeys", "sym.encrypt"} -> [ring : Rings]
          [] fn = "sym.decrypt" -> [ring : objects,
                dict : Arrivals({"sym.encrypt", "genKeysAndEncrypt"})]
          [] fn \in {"asym.encrypt", "genKeysAndEncrypt"} -> {[length |-> length]}
          [] fn = "encryptAndSign" -> [length : {length}, signer : Parties]
          [] fn = "asym.decrypt" ->
                [dict : Arrivals({"asym.encrypt", "encryptAndSign"})]
          [] fn = "verifyAndDecrypt" ->
                [dict : Arrivals({"encryptAndSign"}), signer : Parties]
          [] fn = "encryptWithPassword" -> [password : Passwords]
          [] fn = "derive" -> [password : Passwords]
          [] fn = "decryptWithPassword" -> [password : Passwords,
                dict : Arrivals({"encryptWithPassword"})]
          [] fn \in {"importEncryptKey", "importEncryptPrivateKey",
                     "importEncryptPublicKey"} -> [jwk : Jwks]
          [] OTHER -> {<< >>}

Begun(fn, on, args, bag, said, todo) ==
    [fn |-> fn, on |-> on, args |-> args, bag |-> bag, said |-> said,
     todo |-> IF said = << >> THEN todo ELSE << >>,
     failed |-> FALSE, threw |-> FALSE]
Start(c) ==
    /\ calls[c].fn = "none"
    /\ Cardinality(OpenCalls) < MaxOpen
    /\ \A d \in After[c] : calls[d].fn # "none"
    /\ UNCHANGED cached
    /\ \E fn \in Functions[c], p \in Platforms[c] : \E args \in Arguments(c, fn) :
        LET ring == "ring" \in DOMAIN args
            objects == IF ring THEN cached[args.ring] ELSE {}
            todo == Unfold(Chain(fn, p, args), objects)
            bag == IF ring THEN RawKeys(args.ring)
                   ELSE IF "jwk" \in DOMAIN args
                   THEN [privateJwk |-> args.jwk] ELSE << >>
            said == IF ring /\ args.ring \in IncompleteRings THEN <<"error">>
                    ELSE IF todo = << >> THEN <<"ok">> ELSE << >>
        IN  calls' = [calls EXCEPT ![c] =
                Begun(fn, p, args, bag, said, todo)]
----------------------------------------------------------------------------
(* The native operations.                                                  *)

Pending(c, op) == calls[c].todo # << >> /\ Head(calls[c].todo) = op
bag(c) == calls[c].bag
dict(c) == calls[c].args.dict
Lacks(c, labels) == ~(labels \subseteq DOMAIN dict(c))

\* Operations that change no keys object.
Does(c, op) == Pending(c, op) /\ UNCHANGED cached

generateKeyAES(c) ==
    Does(c, "generateKeyAES") /\ Proceed(c, [aesKey |-> RawKeys(c).aesKey])
generateKeyHMAC(c) ==
    Does(c, "generateKeyHMAC") /\ Proceed(c, [hmacKey |-> RawKeys(c).hmacKey])
\* The raw keys are what the model has instead of the exportable ones.
symExportKey(c) ==
    \E op \in {"exportKeyAES", "exportKeyHMAC"} :
        Does(c, op) /\ Proceed(c, << >>)
importKey(c, op, half) ==
    /\ Pending(c, op)
    /\ cached' = [cached EXCEPT ![KeysObject(c)] = @ \cup {half}]
    /\ Proceed(c, << >>)
importKeyAES(c) == importKey(c, "importKeyAES", "aes")
importKeyHMAC(c) == importKey(c, "importKeyHMAC", "hmac")

\* With a key that was not imported an operation is misused.
encryptAES(c) ==
    /\ Does(c, "encryptAES")
    /\ IF "aes" \notin cached[KeysObject(c)] THEN Misused(c)
       ELSE Proceed(c, [aesEncrypted |-> [key |-> bag(c).aesKey, text |-> c]])
signHMAC(c) ==
    /\ Does(c, "signHMAC")
    /\ IF "hmac" \notin cached[KeysObject(c)] THEN Misused(c)
       ELSE Proceed(c, [hmac |->
                        [key |-> bag(c).hmacKey, over |-> bag(c).aesEncrypted]])
verifyHMAC(c) ==
    /\ Does(c, "verifyHMAC")
    /\ IF Lacks(c, {"hmac", "aesEncrypted"})
            \/ "hmac" \notin cached[KeysObject(c)] THEN Misused(c)
       ELSE IF dict(c).hmac = [key |-> bag(c).hmacKey, over |-> dict(c).aesEncrypted]
            THEN Proceed(c, << >>) ELSE Refused(c)
\* The wrong key gives garbage or, if the padding is wrong, nothing.
decryptAES(c) ==
    /\ Does(c, "decryptAES")
    /\ IF Lacks(c, {"aesEncrypted"}) \/ "aes" \notin cached[KeysObject(c)]
       THEN Misused(c)
       ELSE IF dict(c).aesEncrypted.key = bag(c).aesKey
            THEN Proceed(c, [text |-> dict(c).aesEncrypted.text])
            ELSE \/ Proceed(c, [text |-> "garbage"])
                 \/ Rejected(c, FALSE)

\* What RSA encrypts: the content itself, or its two keys in one array.
Combined(c) ==
    [keys |-> <<bag(c).aesKey, bag(c).hmacKey>>, length |-> CombinedLength]
ToRsa(c) ==
    IF "aesEncrypted" \in DOMAIN bag(c) THEN Combined(c)
    ELSE [text |-> c, length |-> calls[c].args.length]
encryptRSA(c) ==
    /\ Does(c, "encryptRSA")
    /\ IF ToRsa(c).length > OaepLimit THEN Rejected(c, FALSE)
       ELSE Proceed(c, [rsaEncrypted |-> ToRsa(c)])
sign(c) ==
    \/ /\ Does(c, "signData")
       /\ Proceed(c, [signatureOfData |->
                        [by |-> calls[c].args.signer, over |-> ToRsa(c)]])
    \/ /\ Does(c, "signEncrypted")
       /\ Proceed(c, [signatureOfEncrypted |->
                        [by |-> calls[c].args.signer, over |-> <<bag(c).rsaEncrypted>>]])

\* aesDecrypt takes the two keys apart, if their length is right.
ProceedWithKeys(c, payload) ==
    IF Tail(calls[c].todo) # SymDecrypt
    THEN Proceed(c, [payload |-> payload, text |-> payload])
    ELSE IF payload.length # CombinedLength THEN Refused(c)
         ELSE Proceed(c, [payload |-> payload, aesKey |-> payload.keys[1],
                          hmacKey |-> payload.keys[2]])
decryptRSA(c) ==
    /\ Does(c, "decryptRSA")
    /\ IF Lacks(c, {"rsaEncrypted"}) THEN Misused(c)
       ELSE ProceedWithKeys(c, dict(c).rsaEncrypted)
verifySignature(c) ==
    \/ /\ Does(c, "verifyEncrypted")
       /\ IF Lacks(c, {"signatureOfEncrypted", "rsaEncrypted"}) THEN Misused(c)
          ELSE IF dict(c).signatureOfEncrypted =
                    [by |-> calls[c].args.signer, over |-> <<dict(c).rsaEncrypted>>]
               THEN Proceed(c, << >>) ELSE Refused(c)
    \/ /\ Does(c, "verifyData")
       /\ IF Lacks(c, {"signatureOfData"}) THEN Misused(c)
          ELSE IF dict(c).signatureOfData =
                    [by |-> calls[c].args.signer, over |-> bag(c).payload]
               THEN ProceedWithKeys(c, bag(c).payload) ELSE Refused(c)

generateRsaKeys(c) ==
    \E op \in {"generateEncryptKeys", "generateSignKeys"} :
        Does(c, op) /\ Proceed(c, << >>)
asymExportKey(c) ==
    \/ Does(c, "exportPublic")  /\ Proceed(c, [publicJwk |-> exportKey(calls[c].on)])
    \/ Does(c, "exportPrivate") /\ Proceed(c, [privateJwk |-> exportKey(calls[c].on)])
asymImportKey(c) ==
    \E op \in {"importPrivate", "importPublic"} :
        /\ Does(c, op)
        /\ IF NativeTakes(calls[c].on, _importKey(calls[c].on, bag(c).privateJwk))
           THEN Proceed(c, << >>) ELSE Rejected(c, FALSE)

----------------------------------------------------------------------------
(* Keys from passwords.  A derived array is its password, its salt and, for *)
(* each block of twenty bytes, the iterates of the HMAC that were combined *)
(* with XOR.                                                               *)

Blocks == -((-(PasswordBits \div 8)) \div Sha1Bytes)
Derived(c, blocks) ==
    <<calls[c].args.password, bag(c).pbkdf2_salt, blocks, PasswordBits \div 8>>

\* A fresh salt and number of iterations unless the caller brings them.
Salt(c) ==
    IF "dict" \in DOMAIN calls[c].args /\ ~Lacks(c, {"pbkdf2_salt"})
    THEN dict(c).pbkdf2_salt ELSE c
getRandom(max) == 0..max
Iterations(c) ==
    IF "dict" \in DOMAIN calls[c].args /\ ~Lacks(c, {"pbkdf2_iter"})
    THEN {bufferToUint32(dict(c).pbkdf2_iter)}
    ELSE {MinIterations + r : r \in getRandom(ExtraIterations)}
Options(c, iterations) ==
    [pbkdf2_salt |-> Salt(c), pbkdf2_iter |-> uint32toBuffer(iterations)]

\* The first sixteen bytes are the AES key, the others the HMAC key.
Split(derived) ==
    [aesKey |-> <<"aes", derived>>, hmacKey |-> <<"hmac", derived>>]

passwordToKey(c) ==
    /\ Does(c, "passwordToKey")
    /\ \/ Proceed(c, << >>)
       \/ calls' = [calls EXCEPT ![c] =
            [calls[c] EXCEPT !.todo = CompatDerive \o SubSeq(@, 3, Len(@))]]
deriveBits(c) ==
    /\ Does(c, "deriveBits")
    /\ \E iterations \in Iterations(c) :
        Proceed(c, With(Options(c, iterations),
            Split(<<calls[c].args.password, Salt(c),
                    [b \in 1..Blocks |-> 1..iterations], PasswordBits \div 8>>)))

importPassword(c) ==
    /\ Does(c, "importPassword")
    /\ \E iterations \in Iterations(c) :
        Proceed(c, With(Options(c, iterations),
            [counter |-> 0, u1 |-> {}, output |-> << >>]))
\* deriveLoop and deriveBlockLoop: one HMAC of the salt and the block's
\* number, then iterations - 1 of the HMAC before.
hmacBlock(c) ==
    /\ Does(c, "hmacBlock")
    /\ LET counter == bag(c).counter + 1
           u1 == SymDiff(bag(c).u1, {counter})
           output == Append(bag(c).output, u1)
           Loop(n, u, o) == calls' = [calls EXCEPT ![c] = [calls[c] EXCEPT
                    !.bag = With([counter |-> n, u1 |-> u, output |-> o], @)]]
       IN  IF counter # bufferToUint32(bag(c).pbkdf2_iter)
           THEN Loop(counter, u1, bag(c).output)
           ELSE IF Len(output) * Sha1Bytes < PasswordBits \div 8
                THEN Loop(0, {}, output)
                ELSE Proceed(c, Split(Derived(c, output)))

\* Any operation may fail.  Only passwordToKey's failure has a second chance.
fails(c) ==
    /\ calls[c].todo # << >> /\ ~Pending(c, "passwordToKey")
    /\ Rejected(c, TRUE)
    /\ UNCHANGED cached

----------------------------------------------------------------------------
Settles(c) ==
    \/ generateKeyAES(c) \/ generateKeyHMAC(c) \/ symExportKey(c)
    \/ importKeyAES(c) \/ importKeyHMAC(c)
    \/ encryptAES(c) \/ signHMAC(c) \/ verifyHMAC(c) \/ decryptAES(c)
    \/ encryptRSA(c) \/ sign(c) \/ decryptRSA(c) \/ verifySignature(c)
    \/ generateRsaKeys(c) \/ asymExportKey(c) \/ asymImportKey(c)
    \/ passwordToKey(c) \/ deriveBits(c) \/ importPassword(c) \/ hmacBlock(c)
    \/ fails(c)

Init ==
    /\ calls = [c \in Calls |-> Idle]
    /\ cached = [o \in Rings \cup Calls |-> {}]
Next == \E c \in Calls : Start(c) \/ Settles(c)

\* The browser does not leave every operation pending: while there are some,
\* one of them settles.
Spec == Init /\ [][Next]_vars /\ WF_vars(\E c \in Calls : Settles(c))

----------------------------------------------------------------------------
(* What the calls promise.                                                 *)

TypeOK ==
    /\ cached \in [Rings \cup Calls -> SUBSET Both]
    /\ \A c \in Calls :
        /\ calls[c].fn \in Functions[c] \cup {"none"}
        /\ calls[c].said \in {<< >>, <<"ok">>, <<"error">>,
                              <<"ok", "error">>, <<"error", "error">>}
        /\ calls[c].said # << >> => calls[c].todo = << >>
        /\ calls[c].failed => calls[c].said # << >>

\* A call makes one callback: onError or onSuccess, never both and neither
\* twice, whichever of its operations fails and whichever platform it is on,
\* unless the application's own callback threw (wrap, verifyHMAC, derive).
AnsweredOnce ==
    \A c \in Calls : Len(calls[c].said) > 1 => calls[c].threw

Succeeded(fns) ==
    {c \in Calls : calls[c].fn \in fns /\ calls[c].said # << >>
                      /\ calls[c].said[1] = "ok"}
Decrypts == {"sym.decrypt", "asym.decrypt", "verifyAndDecrypt",
             "decryptWithPassword"}

\* What a decrypting call hands over is the content of the message whose AES
\* part it was given, though items were lost or confused on the way; without
\* an AES part it is what the RSA part of a message holds.
DecryptedIsSent ==
    \A c \in Succeeded(Decrypts) :
        \E m \in Sent(Encrypts) :
            IF "aesEncrypted" \in DOMAIN dict(c)
            THEN /\ dict(c).aesEncrypted = Message(m).aesEncrypted
                 /\ bag(c).text = m
            ELSE /\ "rsaEncrypted" \in DOMAIN Message(m)
                 /\ bag(c).text = Message(m).rsaEncrypted

\* What verifyAndDecrypt hands over was sent by the owner of the key it
\* verifies with, though the AES part itself is not signed.
VerifiedIsSigned ==
    \A c \in Succeeded({"verifyAndDecrypt"}) :
        \E m \in Sent({"encryptAndSign"}) :
            /\ calls[m].args.signer = calls[c].args.signer
            /\ IF "aesEncrypted" \in DOMAIN dict(c)
               THEN bag(c).text = m
               ELSE bag(c).text = Message(m).rsaEncrypted

\* The arguments of a decrypting call fit the message it was given.
Fits(c, m) ==
    LET a == calls[c].args
        b == calls[m].args
    IN  /\ a.dict = Message(m)
        /\ CASE calls[c].fn = "sym.decrypt" ->
                    a.ring = IF "ring" \in DOMAIN b THEN b.ring ELSE m
             [] calls[c].fn = "verifyAndDecrypt" -> a.signer = b.signer
             [] calls[c].fn = "decryptWithPassword" -> a.password = b.password
             [] OTHER -> TRUE
Reasonable(c) ==
    LET a == calls[c].args
    IN  /\ "ring" \in DOMAIN a => a.ring \notin IncompleteRings
        /\ "dict" \in DOMAIN a => \E m \in Sent(Encrypts) : Fits(c, m)

\* A call with arguments that fit reports no error unless an operation of its
\* own failed: whole messages are decrypted with their keys, on every
\* platform, with keys derived by either method and keys another call imported
\* in part.
NoNeedlessError ==
    \A c \in Calls :
        calls[c].said # << >> /\ Reasonable(c) /\ ~calls[c].failed =>
            calls[c].said[1] = "ok"

\* Every call is answered.  Internet Explorer answers nothing when a part of
\* the message is missing.
EveryCallAnswers ==
    \A c \in Calls :
        calls[c].fn # "none" ~>
            \/ calls[c].said # << >>
            \/ calls[c].on = "oldIE" /\ ~Reasonable(c)

\* Whatever part of a packed message arrives, decode makes its first items of
\* it, each as it was encoded, or throws; the whole message is read back whole.
\* (Said of a message until the next call begins: packing it again is no news.)
CutIsPrefix ==
    \A m \in {m \in Sent(Encrypts) :
                \A c \in Calls : m \in After[c] => calls[c].fn = "none"} :
        LET sent == Message(m)
            labels == Layout(m)
            buffer == Packed(m)
        IN  \A n \in DOMAIN buffer :
            LET got == decode(SubSeq(buffer, 1, n))
            IN  /\ got.ok => \A i \in DOMAIN got.items :
                        got.items[i] = [label |-> labels[i],
                                        data  |-> <<sent[labels[i]]>>]
                /\ n = Len(buffer) => got.ok /\ Len(got.items) = Len(labels)
=============================================================================
