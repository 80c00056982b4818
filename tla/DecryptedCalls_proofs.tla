----------------------- MODULE DecryptedCalls_proofs -----------------------
(***************************************************************************)
(* DecryptedIsSent holds for any calls, platforms, keys objects, passwords *)
(* and parties: what a decrypting call hands over is what one message      *)
(* held, though items were lost or confused.  The two keys of a call are a *)
(* pair, so an HMAC that verifies was made by a call with the same AES key *)
(* over the AES part at hand; and an RSA part holds the pair of its call.  *)
(***************************************************************************)
EXTENDS VerifiedCalls_proofs

\* Encryption, from each of its operations on; "t" is what follows it.
ToSignHMAC(t) == Then("signHMAC", t)
ToEncryptAES(t) == Then("encryptAES", ToSignHMAC(t))
ToCacheHMAC(t) == Then("importKeyHMAC", ToEncryptAES(t))
ToCacheAES(t) == Then("importKeyAES", ToCacheHMAC(t))
ToImportKeys(t) == Then("importKeys", ToEncryptAES(t))
ToImportHMAC(t) == Then("importKeyHMAC", ToImportKeys(t))
ToImportAES(t) == Then("importKeyAES", ToImportHMAC(t))
ToExportHMAC(t) == Then("exportKeyHMAC", ToImportAES(t))
ToExportAES(t) == Then("exportKeyAES", ToExportHMAC(t))
ToGenerateHMAC(t) == Then("generateKeyHMAC", ToExportAES(t))
ToGenerateAES(t) == Then("generateKeyAES", ToGenerateHMAC(t))
OnlyRSA == Then("encryptRSA", << >>)
Tails == {<< >>, OnlyRSA}

\* The keys from a password, by either method; "t" needs them.
ToHmacBlock(t) == Then("hmacBlock", t)
ToImportPassword(t) == Then("importPassword", ToHmacBlock(t))
ToDeriveBits(t) == Then("deriveBits", t)
ToPassword(t) == Then("passwordToKey", ToDeriveBits(t))

----------------------------------------------------------------------------
(* The invariant.                                                          *)

\* The AES key and the HMAC key of one keys object or one password: each
\* determines the other.
Paired(k, h) ==
    \/ k = <<"keys", k[2]>> /\ h = k
    \/ k = <<"aes", k[2]>> /\ h = <<"hmac", k[2]>>
HasPair(k, h, held) == Holds(held, "aesKey", k) /\ Holds(held, "hmacKey", h)
HoldsPaired(held) ==
    {"aesKey", "hmacKey"} \subseteq DOMAIN held /\ Paired(held["aesKey"], held["hmacKey"])

Cover(m, k) == [key |-> k, text |-> m]
Covered(m, k, h, held) ==
    HasPair(k, h, held) /\ Holds(held, "aesEncrypted", Cover(m, k))
Sealed(m, k, h, held) ==
    /\ Covered(m, k, h, held)
    /\ Holds(held, "hmac", [key |-> h, over |-> Cover(m, k)])

\* How far a call is that encrypts with the keys k and h, and then goes to t.
Sealing(m, t, k, h, todo, held) ==
    \/ todo \in {ToCacheAES(t), ToCacheHMAC(t), ToEncryptAES(t)} /\ HasPair(k, h, held)
    \/ todo = ToSignHMAC(t) /\ Covered(m, k, h, held)
    \/ todo = t /\ Sealed(m, k, h, held)
\* How far one is that makes keys of its own first.
Making(m, t, todo, held) ==
    \/ todo = ToGenerateAES(t)
    \/ todo = ToGenerateHMAC(t) /\ Holds(held, "aesKey", Key(m))
    \/ /\ todo \in {ToExportAES(t), ToExportHMAC(t), ToImportAES(t), ToImportHMAC(t)}
       /\ HasPair(Key(m), Key(m), held)
\* And one that derives them.
Deriving(t, todo) ==
    todo \in {ToPassword(t), ToDeriveBits(t), ToImportPassword(t), ToHmacBlock(t)}

Encrypting(m, fn, args, todo, held) ==
    \/ /\ fn = "sym.encrypt"
       /\ Sealing(m, << >>, Key(args.ring), Key(args.ring), todo, held)
    \/ /\ fn = "genKeysAndEncrypt"
       /\ Making(m, << >>, todo, held) \/ Sealing(m, << >>, Key(m), Key(m), todo, held)
    \/ /\ fn = "asym.encrypt"
       /\ \/ Making(m, OnlyRSA, todo, held)
          \/ Sealing(m, OnlyRSA, Key(m), Key(m), todo, held)
          \/ /\ todo = << >> /\ Sealed(m, Key(m), Key(m), held)
             /\ Holds(held, "rsaEncrypted", Content(m))
    \/ /\ fn = "encryptWithPassword"
       /\ \/ Deriving(ToImportKeys(<< >>), todo)
          \/ /\ HoldsPaired(held)
             /\ Sealing(m, << >>, held["aesKey"], held["hmacKey"], todo, held)
EncryptInv ==
    \A m \in Calls : calls[m].fn \in Encrypts \ {"encryptAndSign"} /\ Sound(calls[m]) =>
        Encrypting(m, calls[m].fn, calls[m].args, calls[m].todo, calls[m].bag)

\* How far a call is that decrypts the AES part of d with the keys k and h.
Opening(d, k, h, todo, held) ==
    \/ todo \in {AtOpenAES, AtOpenHMAC, AtVerifyHMAC} /\ HasPair(k, h, held)
    \/ /\ todo = AtDecryptAES /\ HasPair(k, h, held)
       /\ "aesEncrypted" \in DOMAIN d /\ d["aesEncrypted"].key = k
    \/ /\ todo = << >> /\ HasPair(k, h, held) /\ "aesEncrypted" \in DOMAIN d
       /\ Holds(held, "text", d["aesEncrypted"].text)
\* And one that took the keys from the RSA part.
OpeningRSA(d, todo, held) ==
    /\ "rsaEncrypted" \in DOMAIN d
    /\ \/ /\ "aesEncrypted" \in DOMAIN d
          /\ Opening(d, d["rsaEncrypted"].keys[1], d["rsaEncrypted"].keys[2], todo, held)
       \/ /\ "aesEncrypted" \notin DOMAIN d
          /\ todo = << >> /\ Holds(held, "text", d["rsaEncrypted"])

Decrypting(fn, args, todo, held) ==
    \/ /\ fn = "sym.decrypt"
       /\ Opening(args.dict, Key(args.ring), Key(args.ring), todo, held)
    \/ /\ fn = "asym.decrypt"
       /\ \/ todo = Then("decryptRSA", AesPart(args.dict))
          \/ OpeningRSA(args.dict, todo, held)
    \/ /\ fn = "verifyAndDecrypt"
       /\ \/ todo \in {AtVerifyEncrypted(AesPart(args.dict)), AtDecryptRSA(AesPart(args.dict))}
          \/ /\ todo = AtVerifyData(AesPart(args.dict))
             /\ "rsaEncrypted" \in DOMAIN args.dict
             /\ Holds(held, "payload", args.dict["rsaEncrypted"])
          \/ OpeningRSA(args.dict, todo, held)
    \/ /\ fn = "decryptWithPassword"
       /\ \/ Deriving(SymDecrypt, todo)
          \/ /\ HoldsPaired(held)
             /\ Opening(args.dict, held["aesKey"], held["hmacKey"], todo, held)

\* Whose messages a decrypting function is given.
Sources(fn) ==
    CASE fn = "sym.decrypt"      -> {"sym.encrypt", "genKeysAndEncrypt"}
      [] fn = "asym.decrypt"     -> {"asym.encrypt", "encryptAndSign"}
      [] fn = "verifyAndDecrypt" -> {"encryptAndSign"}
      [] OTHER                   -> {"encryptWithPassword"}
GivenInv ==
    \A c \in Calls : calls[c].fn \in Decrypts =>
        OfMessages(Sources(calls[c].fn), calls[c].args.dict)
DecryptInv ==
    \A c \in Calls : calls[c].fn \in Decrypts /\ Sound(calls[c]) =>
        Decrypting(calls[c].fn, calls[c].args, calls[c].todo, calls[c].bag)

----------------------------------------------------------------------------
(* The chains.                                                             *)

\* Every operation, those on passwords included.
AllOps == Ops \cup {"passwordToKey", "deriveBits", "importPassword", "hmacBlock"}
LEMMA OpsAreAll ==
    /\ "passwordToKey" \in AllOps /\ "deriveBits" \in AllOps
    /\ "importPassword" \in AllOps /\ "hmacBlock" \in AllOps
    /\ \A t \in Seq(Ops) : t \in Seq(AllOps)
BY DEF AllOps

LEMMA ThenAll ==
    ASSUME NEW op \in AllOps, NEW rest \in Seq(AllOps)
    PROVE  /\ Then(op, rest) \in Seq(AllOps) /\ Then(op, rest) # << >>
           /\ Head(Then(op, rest)) = op /\ Tail(Then(op, rest)) = rest
<1>1. <<op>> \o rest \in Seq(AllOps) /\ <<op>> \o rest # << >>
  OBVIOUS
<1>2. Head(<<op>> \o rest) = op
  OBVIOUS
<1>3. Tail(<<op>> \o rest) = rest
  OBVIOUS
<1>4. QED
  BY <1>1, <1>2, <1>3 DEF Then

\* Encryption, an operation at a time.
LEMMA SealingChains ==
    ASSUME NEW t \in Seq(Ops)
    PROVE  /\ ToSignHMAC(t) \in Seq(Ops) /\ ToEncryptAES(t) \in Seq(Ops)
           /\ ToCacheHMAC(t) \in Seq(Ops) /\ ToCacheAES(t) \in Seq(Ops)
           /\ ToImportKeys(t) \in Seq(Ops)
           /\ ToImportHMAC(t) \in Seq(Ops) /\ ToImportAES(t) \in Seq(Ops)
           /\ ToExportHMAC(t) \in Seq(Ops) /\ ToExportAES(t) \in Seq(Ops)
           /\ ToGenerateHMAC(t) \in Seq(Ops) /\ ToGenerateAES(t) \in Seq(Ops)
<1>1. ToSignHMAC(t) \in Seq(Ops)
  BY ThenFacts, OpsAre DEF ToSignHMAC
<1>2. ToEncryptAES(t) \in Seq(Ops)
  BY <1>1, ThenFacts, OpsAre DEF ToEncryptAES
<1>3. ToCacheHMAC(t) \in Seq(Ops) /\ ToImportKeys(t) \in Seq(Ops)
  BY <1>2, ThenFacts, OpsAre DEF ToCacheHMAC, ToImportKeys
<1>4. ToCacheAES(t) \in Seq(Ops) /\ ToImportHMAC(t) \in Seq(Ops)
  BY <1>3, ThenFacts, OpsAre DEF ToCacheAES, ToImportHMAC
<1>5. ToImportAES(t) \in Seq(Ops)
  BY <1>4, ThenFacts, OpsAre DEF ToImportAES
<1>6. ToExportHMAC(t) \in Seq(Ops)
  BY <1>5, ThenFacts, OpsAre DEF ToExportHMAC
<1>7. ToExportAES(t) \in Seq(Ops)
  BY <1>6, ThenFacts, OpsAre DEF ToExportAES
<1>8. ToGenerateHMAC(t) \in Seq(Ops)
  BY <1>7, ThenFacts, OpsAre DEF ToGenerateHMAC
<1>9. ToGenerateAES(t) \in Seq(Ops)
  BY <1>8, ThenFacts, OpsAre DEF ToGenerateAES
<1>10. QED
  BY <1>1, <1>2, <1>3, <1>4, <1>5, <1>6, <1>7, <1>8, <1>9

LEMMA TailsAre == Tails \subseteq Seq(Ops)
<1>1. << >> \in Seq(Ops)
  OBVIOUS
<1>2. OnlyRSA \in Seq(Ops)
  BY <1>1, ThenFacts, OpsAre DEF OnlyRSA
<1>3. QED
  BY <1>1, <1>2 DEF Tails

\* And where each leads.
LEMMA SealingLeads ==
    ASSUME NEW t \in Tails
    PROVE  /\ Leads(ToGenerateAES(t), "generateKeyAES", {ToGenerateHMAC(t)})
           /\ Leads(ToGenerateHMAC(t), "generateKeyHMAC", {ToExportAES(t)})
           /\ Leads(ToExportAES(t), "exportKeyAES", {ToExportHMAC(t)})
           /\ Leads(ToExportHMAC(t), "exportKeyHMAC", {ToImportAES(t)})
           /\ Leads(ToImportAES(t), "importKeyAES", {ToImportHMAC(t)})
           /\ Leads(ToImportHMAC(t), "importKeyHMAC", {ToEncryptAES(t), ToCacheAES(t)})
           /\ Leads(ToCacheAES(t), "importKeyAES", {ToCacheHMAC(t)})
           /\ Leads(ToCacheHMAC(t), "importKeyHMAC", {ToEncryptAES(t)})
           /\ Leads(ToEncryptAES(t), "encryptAES", {ToSignHMAC(t)})
           /\ Leads(ToSignHMAC(t), "signHMAC", {t})
           /\ Leads(OnlyRSA, "encryptRSA", {<< >>})
<1>t. t \in Seq(Ops)
  BY TailsAre
<1> USE <1>t, SealingChains, OpsAre
<1>1. Leads(ToGenerateAES(t), "generateKeyAES", {ToGenerateHMAC(t)})
  BY LeadsOn DEF ToGenerateAES, ToGenerateHMAC
<1>2. Leads(ToGenerateHMAC(t), "generateKeyHMAC", {ToExportAES(t)})
  BY LeadsOn DEF ToGenerateHMAC, ToExportAES
<1>3. Leads(ToExportAES(t), "exportKeyAES", {ToExportHMAC(t)})
  BY LeadsOn DEF ToExportAES, ToExportHMAC
<1>4. Leads(ToExportHMAC(t), "exportKeyHMAC", {ToImportAES(t)})
  BY LeadsOn DEF ToExportHMAC, ToImportAES
<1>5. Leads(ToImportAES(t), "importKeyAES", {ToImportHMAC(t)})
  BY LeadsOn DEF ToImportAES, ToImportHMAC
<1>6. Leads(ToImportHMAC(t), "importKeyHMAC", {ToEncryptAES(t), ToCacheAES(t)})
  BY LeadsToImport DEF ToImportHMAC, ToImportKeys, ToCacheAES, ToCacheHMAC
<1>7. Leads(ToCacheAES(t), "importKeyAES", {ToCacheHMAC(t)})
  BY LeadsOn DEF ToCacheAES, ToCacheHMAC
<1>8. Leads(ToCacheHMAC(t), "importKeyHMAC", {ToEncryptAES(t)})
  BY LeadsOn DEF ToCacheHMAC, ToEncryptAES
<1>9. Leads(ToEncryptAES(t), "encryptAES", {ToSignHMAC(t)})
  BY LeadsOn DEF ToEncryptAES, ToSignHMAC
<1>10. Leads(OnlyRSA, "encryptRSA", {<< >>})
  BY LeadsOut DEF OnlyRSA
<1>11. Leads(ToSignHMAC(t), "signHMAC", {t})
  <2>1. CASE t = << >>
    BY <2>1, LeadsOut DEF ToSignHMAC
  <2>2. CASE t = OnlyRSA
    <3>1. << >> \in Seq(Ops)
      OBVIOUS
    <3>2. QED
      BY <2>2, <3>1, LeadsOn DEF ToSignHMAC, OnlyRSA
  <2>3. QED
    BY <2>1, <2>2 DEF Tails
<1>12. QED
  BY <1>1, <1>2, <1>3, <1>4, <1>5, <1>6, <1>7, <1>8, <1>9, <1>10, <1>11

\* The chains of the encrypting functions are these.
LEMMA SymEncryptChain == SymEncrypt = ToImportKeys(<< >>)
<1>1. <<"encryptAES", "signHMAC">> = ToEncryptAES(<< >>)
  BY DEF ToEncryptAES, ToSignHMAC, Then
<1>2. QED
  BY <1>1 DEF SymEncrypt, ImportKeys, ToImportKeys, Then

\* Keys of its own come first, whatever then follows.
LEMMA GenerateThen ==
    ASSUME NEW t \in Seq(Ops)
    PROVE  SymGenerateKeys \o ToImportKeys(t) = ToGenerateAES(t)
<1> DEFINE none == << >>
           h == Then("importKeyHMAC", none)
           a == Then("importKeyAES", h)
           eh == Then("exportKeyHMAC", a)
           ea == Then("exportKeyAES", eh)
           gh == Then("generateKeyHMAC", ea)
           i == ToImportKeys(t)
<1>1. SymGenerateKeys = Then("generateKeyAES", gh)
  BY DEF SymGenerateKeys, Then
<1>o. \A op \in Ops, first \in Seq(Ops) :
        Then(op, first) \in Seq(Ops) /\ Then(op, first) \o i = Then(op, first \o i)
  <2>1. i \in Seq(Ops)
    BY SealingChains
  <2> HIDE DEF i
  <2>2. QED
    BY <2>1, ThenFacts, ThenConcat
<1> HIDE DEF i
<1>2. none \in Seq(Ops) /\ none \o i = i
  <2>1. i \in Seq(Ops)
    BY SealingChains DEF i
  <2>2. QED
    BY <2>1
<1> HIDE DEF none
<1>3. h \in Seq(Ops) /\ h \o i = Then("importKeyHMAC", i)
  <2>1. "importKeyHMAC" \in Ops
    BY OpsAre
  <2>2. QED
    BY <1>2, <1>o, <2>1, Zenon
<1> HIDE DEF h
<1>4. a \in Seq(Ops) /\ a \o i = Then("importKeyAES", h \o i)
  <2>1. "importKeyAES" \in Ops
    BY OpsAre
  <2>2. QED
    BY <1>3, <1>o, <2>1, Zenon
<1> HIDE DEF a
<1>5. eh \in Seq(Ops) /\ eh \o i = Then("exportKeyHMAC", a \o i)
  <2>1. "exportKeyHMAC" \in Ops
    BY OpsAre
  <2>2. QED
    BY <1>4, <1>o, <2>1, Zenon
<1> HIDE DEF eh
<1>6. ea \in Seq(Ops) /\ ea \o i = Then("exportKeyAES", eh \o i)
  <2>1. "exportKeyAES" \in Ops
    BY OpsAre
  <2>2. QED
    BY <1>5, <1>o, <2>1, Zenon
<1> HIDE DEF ea
<1>7. gh \in Seq(Ops) /\ gh \o i = Then("generateKeyHMAC", ea \o i)
  <2>1. "generateKeyHMAC" \in Ops
    BY OpsAre
  <2>2. QED
    BY <1>6, <1>o, <2>1, Zenon
<1> HIDE DEF gh
<1>8. SymGenerateKeys \o i = Then("generateKeyAES", gh \o i)
  <2>1. "generateKeyAES" \in Ops
    BY OpsAre
  <2>2. QED
    BY <1>1, <1>7, <1>o, <2>1, Zenon
<1>9. QED
  BY <1>3, <1>4, <1>5, <1>6, <1>7, <1>8, Zenon
  DEF ToGenerateAES, ToGenerateHMAC, ToExportAES, ToExportHMAC, ToImportAES,
      ToImportHMAC, i

LEMMA GenerateChain == GenKeysAndEncrypt = ToGenerateAES(<< >>)
<1>1. << >> \in Seq(Ops)
  OBVIOUS
<1>2. QED
  BY <1>1, GenerateThen, SymEncryptChain, Zenon DEF GenKeysAndEncrypt

\* asym.encrypt makes keys however short the content: rsaEncryptMax is negative.
LEMMA AsymChain ==
    ASSUME NEW length \in Nat
    PROVE  AsymEncrypt(length) = ToGenerateAES(OnlyRSA)
<1> DEFINE rsa == <<"encryptRSA">>
           sym == <<"encryptAES", "signHMAC">>
           ikeys == <<"importKeys">>
           sgk == SymGenerateKeys
<1>1. rsaEncryptMax \in Int /\ rsaEncryptMax < 0
  BY DEF rsaEncryptMax, RsaLength, HmacLength
<1>2. AsymEncrypt(length) = (sgk \o (ikeys \o sym)) \o rsa
  <2>1. ExtendData(length) = GenKeysAndEncrypt
    <3> HIDE DEF rsaEncryptMax
    <3>1. QED
      BY <1>1 DEF ExtendData
  <2>2. QED
    BY <2>1, Zenon DEF AsymEncrypt, GenKeysAndEncrypt, SymEncrypt, ImportKeys
<1>3. /\ rsa \in Seq(Ops) /\ sym \in Seq(Ops) /\ sgk \in Seq(Ops) /\ ikeys \in Seq(Ops)
  BY OpsAre DEF SymGenerateKeys
<1>4. rsa = OnlyRSA
  BY DEF OnlyRSA, Then
<1>5. sym \o OnlyRSA = ToEncryptAES(OnlyRSA)
  <2>1. sym = Then("encryptAES", <<"signHMAC">>)
    BY DEF Then
  <2>2. <<"signHMAC">> \in Seq(Ops) /\ "encryptAES" \in Ops
    BY OpsAre
  <2>3. OnlyRSA \in Seq(Ops)
    BY TailsAre DEF Tails
  <2>4. Then("encryptAES", <<"signHMAC">>) \o OnlyRSA
            = Then("encryptAES", <<"signHMAC">> \o OnlyRSA)
    BY <2>2, <2>3, ThenConcat
  <2> HIDE DEF sym
  <2>5. QED
    BY <2>1, <2>4, Zenon DEF ToEncryptAES, ToSignHMAC, Then
<1> HIDE DEF rsa, sym, ikeys, sgk
<1>6. Cat(Cat(sgk, Cat(ikeys, sym)), rsa) = Cat(sgk, Cat(ikeys, Cat(sym, rsa)))
  BY <1>3, CatFacts
<1>7. AsymEncrypt(length) = sgk \o (ikeys \o (sym \o OnlyRSA))
  BY <1>2, <1>4, <1>6, Zenon DEF Cat
<1>8. ikeys \o ToEncryptAES(OnlyRSA) = ToImportKeys(OnlyRSA)
  BY Zenon DEF ikeys, ToImportKeys, Then
<1>9. OnlyRSA \in Seq(Ops)
  BY TailsAre DEF Tails
<1>10. QED
  BY <1>5, <1>7, <1>8, <1>9, GenerateThen, Zenon DEF sgk

\* The chains on passwords; t is what needs the keys.
LEMMA DerivingChains ==
    ASSUME NEW t \in Seq(Ops)
    PROVE  /\ ToHmacBlock(t) \in Seq(AllOps) /\ ToImportPassword(t) \in Seq(AllOps)
           /\ ToDeriveBits(t) \in Seq(AllOps) /\ ToPassword(t) \in Seq(AllOps)
<1>1. t \in Seq(AllOps)
  BY OpsAreAll
<1>2. ToHmacBlock(t) \in Seq(AllOps) /\ ToDeriveBits(t) \in Seq(AllOps)
  BY <1>1, ThenAll, OpsAreAll DEF ToHmacBlock, ToDeriveBits
<1>3. QED
  BY <1>2, ThenAll, OpsAreAll DEF ToImportPassword, ToPassword

\* A derivation, by either method, and what follows.
LEMMA DeriveThen ==
    ASSUME NEW t \in Seq(Ops), NEW p
    PROVE  /\ Derive(p) \o t \in {ToPassword(t), ToImportPassword(t)}
           /\ CompatDerive \o SubSeq(ToPassword(t), 3, Len(ToPassword(t)))
                = ToImportPassword(t)
<1>0. t \in Seq(AllOps)
  BY OpsAreAll
<1>1. /\ <<"importPassword", "hmacBlock">> \o t = Then("importPassword", Then("hmacBlock", t))
      /\ <<"passwordToKey", "deriveBits">> \o t = Then("passwordToKey", Then("deriveBits", t))
  <2>1. /\ <<"importPassword", "hmacBlock">> = <<"importPassword">> \o <<"hmacBlock">>
        /\ <<"passwordToKey", "deriveBits">> = <<"passwordToKey">> \o <<"deriveBits">>
        /\ <<"importPassword">> \in Seq(AllOps) /\ <<"hmacBlock">> \in Seq(AllOps)
        /\ <<"passwordToKey">> \in Seq(AllOps) /\ <<"deriveBits">> \in Seq(AllOps)
    BY OpsAreAll
  <2>2. /\ (<<"importPassword">> \o <<"hmacBlock">>) \o t
                = <<"importPassword">> \o (<<"hmacBlock">> \o t)
        /\ (<<"passwordToKey">> \o <<"deriveBits">>) \o t
                = <<"passwordToKey">> \o (<<"deriveBits">> \o t)
    BY <1>0, <2>1
  <2>3. QED
    BY <2>1, <2>2 DEF Then
<1>2. /\ CompatDerive \o t = ToImportPassword(t)
      /\ <<"passwordToKey", "deriveBits">> \o t = ToPassword(t)
  BY <1>1
  DEF CompatDerive, ToImportPassword, ToHmacBlock, ToPassword, ToDeriveBits
<1>3. Derive(p) \in {CompatDerive, <<"passwordToKey", "deriveBits">>}
  BY DEF Derive
<1>4. Derive(p) \o t \in {ToPassword(t), ToImportPassword(t)}
  BY <1>2, <1>3, Zenon
<1>5. SubSeq(ToPassword(t), 3, Len(ToPassword(t))) = t
  <2> DEFINE x == <<"passwordToKey", "deriveBits">>
             s == x \o t
  <2>1. /\ x \in Seq(AllOps) /\ Len(x) = 2 /\ t \in Seq(AllOps) /\ Len(t) \in Nat
    BY OpsAreAll
  <2> HIDE DEF x
  <2>2. /\ s \in Seq(AllOps) /\ Len(s) = 2 + Len(t)
        /\ \A i \in 1..Len(t) : s[2 + i] = t[i]
    <3>1. s \in Seq(AllOps) /\ Len(s) = 2 + Len(t)
      <4>1. s \in Seq(AllOps) /\ Len(s) = Len(x) + Len(t)
        BY <2>1, ConcatProperties, Zenon
      <4>2. QED
        BY <2>1, <4>1, Zenon
    <3>2. ASSUME NEW i \in 1..Len(t) PROVE s[2 + i] = t[i]
      <4>1. /\ 2 + i \in 1..(Len(x) + Len(t)) /\ ~(2 + i <= Len(x))
            /\ (2 + i) - Len(x) = i
        BY <2>1
      <4>2. s[2 + i] = IF 2 + i <= Len(x) THEN x[2 + i] ELSE t[(2 + i) - Len(x)]
        BY <2>1, <4>1, ConcatProperties, Zenon
      <4>3. QED
        BY <4>1, <4>2, Zenon
    <3>3. QED
      BY <3>1, <3>2
  <2> DEFINE r == SubSeq(s, 3, Len(s))
  <2> HIDE DEF s
  <2>3. r \in Seq(AllOps) /\ Len(r) = Len(t)
    BY <2>1, <2>2
  <2>4. \A i \in 1..Len(t) : r[i] = t[i]
    BY <2>1, <2>2
  <2> HIDE DEF r
  <2>5. r = t
    BY <2>1, <2>3, <2>4
  <2>6. QED
    BY <1>2, <2>5, Zenon DEF r, s, x
<1>6. QED
  BY <1>2, <1>4, <1>5, Zenon

\* Where a derivation leads.
LEMMA DerivingLeads ==
    ASSUME NEW t \in Seq(Ops), NEW next, \A objects : Unfold(t, objects) \in next
    PROVE  /\ Leads(ToPassword(t), "passwordToKey", {ToDeriveBits(t)})
           /\ Leads(ToDeriveBits(t), "deriveBits", next)
           /\ Leads(ToImportPassword(t), "importPassword", {ToHmacBlock(t)})
           /\ Leads(ToHmacBlock(t), "hmacBlock", next)
<1>1. t \in Seq(AllOps) /\ ToDeriveBits(t) \in Seq(AllOps) /\ ToHmacBlock(t) \in Seq(AllOps)
  BY OpsAreAll, DerivingChains
<1>2. /\ Head(ToPassword(t)) = "passwordToKey" /\ Tail(ToPassword(t)) = ToDeriveBits(t)
      /\ Head(ToDeriveBits(t)) = "deriveBits" /\ Tail(ToDeriveBits(t)) = t
      /\ Head(ToImportPassword(t)) = "importPassword"
      /\ Tail(ToImportPassword(t)) = ToHmacBlock(t)
      /\ Head(ToHmacBlock(t)) = "hmacBlock" /\ Tail(ToHmacBlock(t)) = t
      /\ ToPassword(t) # << >> /\ ToDeriveBits(t) # << >>
      /\ ToImportPassword(t) # << >> /\ ToHmacBlock(t) # << >>
  BY <1>1, ThenAll, OpsAreAll
  DEF ToPassword, ToDeriveBits, ToImportPassword, ToHmacBlock
<1>3. \A objects : /\ Unfold(ToDeriveBits(t), objects) = ToDeriveBits(t)
                   /\ Unfold(ToHmacBlock(t), objects) = ToHmacBlock(t)
  BY <1>2 DEF Unfold
<1>4. QED
  BY <1>2, <1>3, Zenon DEF Leads

\* Both chains that need derived keys begin with importKeys.
LEMMA DerivedLead ==
    /\ ToImportKeys(<< >>) \in Seq(Ops) /\ SymDecrypt \in Seq(Ops)
    /\ \A objects :
        /\ Unfold(ToImportKeys(<< >>), objects) \in {ToEncryptAES(<< >>), ToCacheAES(<< >>)}
        /\ Unfold(SymDecrypt, objects) \in {AtVerifyHMAC, AtOpenAES}
<1>1. << >> \in Seq(Ops)
  OBVIOUS
<1>2. /\ ToImportKeys(<< >>) \in Seq(Ops) /\ ToEncryptAES(<< >>) \in Seq(Ops)
  BY <1>1, SealingChains
<1>3. AtVerifyHMAC \in Seq(Ops) /\ SymDecrypt \in Seq(Ops)
      /\ SymDecrypt = Then("importKeys", AtVerifyHMAC)
  BY ReadingChains
<1>4. ASSUME NEW objects
      PROVE  /\ Unfold(Then("importKeys", ToEncryptAES(<< >>)), objects)
                    \in {ToEncryptAES(<< >>), ToCacheAES(<< >>)}
             /\ Unfold(Then("importKeys", AtVerifyHMAC), objects)
                    \in {AtVerifyHMAC, AtOpenAES}
  BY <1>2, <1>3, UnfoldFacts, OpsAre DEF ToCacheAES, ToCacheHMAC, AtOpenAES, AtOpenHMAC
<1>5. QED
  BY <1>2, <1>3, <1>4, Zenon DEF ToImportKeys

LEMMA OpeningChain ==
    ASSUME NEW d
    PROVE  /\ AsymDecrypt(d) = Then("decryptRSA", AesPart(d))
           /\ AesPart(d) \in Seq(Ops)
           /\ Tail(AsymDecrypt(d)) = AesPart(d)
           /\ "aesEncrypted" \in DOMAIN d =>
                Leads(AsymDecrypt(d), "decryptRSA", {AtVerifyHMAC, AtOpenAES})
           /\ "aesEncrypted" \notin DOMAIN d => Leads(AsymDecrypt(d), "decryptRSA", {<< >>})
<1>1. AsymDecrypt(d) = Then("decryptRSA", AesPart(d))
  BY Zenon DEF AsymDecrypt, Then
<1>2. AesPart(d) \in Seq(Ops)
  BY ReadingChain
<1>3. Tail(AsymDecrypt(d)) = AesPart(d)
  <2>1. "decryptRSA" \in Ops
    BY OpsAre
  <2>2. \A part \in Seq(Ops) : Tail(Then("decryptRSA", part)) = part
    BY <2>1, ThenFacts
  <2>3. QED
    BY <1>1, <1>2, <2>2, Zenon
<1>4. ASSUME "aesEncrypted" \in DOMAIN d
      PROVE  Leads(AsymDecrypt(d), "decryptRSA", {AtVerifyHMAC, AtOpenAES})
  <2>1. AesPart(d) = Then("importKeys", AtVerifyHMAC) /\ AtVerifyHMAC \in Seq(Ops)
    BY <1>4, ReadingChains, Zenon DEF AesPart
  <2>2. QED
    BY <1>1, <2>1, LeadsToImport, OpsAre DEF AtOpenAES, AtOpenHMAC
<1>5. ASSUME "aesEncrypted" \notin DOMAIN d
      PROVE  Leads(AsymDecrypt(d), "decryptRSA", {<< >>})
  <2>1. AesPart(d) = << >>
    BY <1>5, Zenon DEF AesPart
  <2>2. QED
    BY <1>1, <2>1, LeadsOut, OpsAre
<1>6. QED
  BY <1>1, <1>2, <1>3, <1>4, <1>5

----------------------------------------------------------------------------
(* What the operations on passwords do to their call.                      *)

DeriveTurn(c, op) ==
    \/ /\ op = "passwordToKey"
       /\ \/ Goes(c, << >>)
          \/ /\ Same(c) /\ calls'[c].bag = bag(c)
             /\ calls'[c].todo =
                    CompatDerive \o SubSeq(calls[c].todo, 3, Len(calls[c].todo))
    \/ /\ op = "deriveBits"
       /\ \E iterations \in Iterations(c) :
            Goes(c, With(Options(c, iterations),
                Split(<<calls[c].args.password, Salt(c),
                        [b \in 1..Blocks |-> 1..iterations], PasswordBits \div 8>>)))
    \/ /\ op = "importPassword"
       /\ \E iterations \in Iterations(c) :
            Goes(c, With(Options(c, iterations),
                [counter |-> 0, u1 |-> {}, output |-> << >>]))
    \/ /\ op = "hmacBlock"
       /\ \/ /\ Same(c) /\ calls'[c].todo = calls[c].todo
          \/ \E output : Goes(c, Split(Derived(c, output)))

\* A call of which only one of the two changes.
LEMMA ChangedOnly ==
    ASSUME OnceInv, NEW c \in Calls, calls[c].todo # << >>, NEW x
    PROVE  /\ calls' = [calls EXCEPT ![c] = [calls[c] EXCEPT !.todo = x]] =>
                /\ Same(c) /\ calls'[c].said = << >>
                /\ calls'[c].todo = x /\ calls'[c].bag = calls[c].bag
           /\ calls' = [calls EXCEPT ![c] = [calls[c] EXCEPT !.bag = x]] =>
                /\ Same(c) /\ calls'[c].said = << >>
                /\ calls'[c].todo = calls[c].todo /\ calls'[c].bag = x
<1>0. calls[c].said = << >>
  BY OpenHasNotSaid, Zenon
<1>1. PICK fn, on, args, todo, held, said, failed, threw :
        calls[c] = Rec(fn, on, args, todo, held, said, failed, threw)
  BY OpenHasNotSaid, Zenon DEF Shaped, Rec
<1> DEFINE r1 == [calls[c] EXCEPT !.todo = x]
           r2 == [calls[c] EXCEPT !.bag = x]
<1>2. /\ r1 = Rec(fn, on, args, x, held, said, failed, threw)
      /\ r2 = Rec(fn, on, args, todo, x, said, failed, threw)
  BY <1>1, RecTodo, RecBag
<1> HIDE DEF r1, r2
<1>3. /\ r1.fn = calls[c].fn /\ r1.args = calls[c].args
      /\ r1.todo = x /\ r1.bag = calls[c].bag
      /\ r2.fn = calls[c].fn /\ r2.args = calls[c].args
      /\ r2.todo = calls[c].todo /\ r2.bag = x
      /\ r1.said = << >> /\ r2.said = << >>
  BY <1>0, <1>1, <1>2, RecGet
<1>4. ASSUME NEW r \in {r1, r2}, calls' = [calls EXCEPT ![c] = r]
      PROVE  calls'[c] = r /\ \A d \in Calls \ {c} : calls'[d] = calls[d]
  BY <1>4, Replaced
<1>5. QED
  BY <1>3, <1>4, Zenon DEF Same, r1, r2

\* Only the operation that is pending settles.
LEMMA DeriveSettles ==
    ASSUME NEW c \in Calls, Settles(c),
           Head(calls[c].todo) \in {"passwordToKey", "deriveBits", "importPassword", "hmacBlock"}
    PROVE  \/ passwordToKey(c) \/ deriveBits(c) \/ importPassword(c) \/ hmacBlock(c)
           \/ fails(c)
<1>1. ASSUME NEW o \in {"generateKeyAES", "generateKeyHMAC", "exportKeyAES",
              "exportKeyHMAC", "importKeyAES", "importKeyHMAC", "encryptAES",
              "signHMAC", "encryptRSA", "signData", "signEncrypted",
              "verifyEncrypted", "decryptRSA", "verifyData", "verifyHMAC",
              "decryptAES", "generateEncryptKeys", "generateSignKeys",
              "exportPublic", "exportPrivate", "importPrivate", "importPublic"}
      PROVE  ~Pending(c, o)
  <2>1. Head(calls[c].todo) # o
    OBVIOUS
  <2>2. QED
    BY <2>1, Zenon DEF Pending
<1>2. /\ ~generateKeyAES(c) /\ ~generateKeyHMAC(c) /\ ~symExportKey(c)
      /\ ~importKeyAES(c) /\ ~importKeyHMAC(c)
  BY <1>1, Zenon DEF generateKeyAES, generateKeyHMAC, symExportKey, importKeyAES,
     importKeyHMAC, importKey, Does
<1>3. /\ ~encryptAES(c) /\ ~signHMAC(c) /\ ~verifyHMAC(c) /\ ~decryptAES(c)
      /\ ~encryptRSA(c) /\ ~sign(c) /\ ~decryptRSA(c) /\ ~verifySignature(c)
  BY <1>1, Zenon DEF encryptAES, signHMAC, verifyHMAC, decryptAES, encryptRSA, sign,
     decryptRSA, verifySignature, Does
<1>4. ~generateRsaKeys(c) /\ ~asymExportKey(c) /\ ~asymImportKey(c)
  BY <1>1, Zenon DEF generateRsaKeys, asymExportKey, asymImportKey, Does
<1>5. QED
  BY <1>2, <1>3, <1>4, Zenon DEF Settles

LEMMA DeriveTurns ==
    ASSUME OnceInv, NEW c \in Calls, Settles(c),
           Head(calls[c].todo) \in {"passwordToKey", "deriveBits", "importPassword", "hmacBlock"}
    PROVE  Stops(c) \/ DeriveTurn(c, Head(calls[c].todo))
<1> DEFINE op == Head(calls[c].todo)
<1>0. ASSUME NEW o, Pending(c, o) PROVE calls[c].todo # << >> /\ op = o
  BY <1>0, Zenon DEF Pending
<1>1. \/ passwordToKey(c) \/ deriveBits(c) \/ importPassword(c) \/ hmacBlock(c)
      \/ fails(c)
  BY DeriveSettles
<1>2. ASSUME passwordToKey(c) PROVE DeriveTurn(c, op)
  <2>1. calls[c].todo # << >> /\ op = "passwordToKey"
    BY <1>0, <1>2, Zenon DEF passwordToKey, Does
  <2>2. CASE Proceed(c, << >>)
    BY <2>1, <2>2, ProceedTo, Zenon DEF DeriveTurn
  <2>3. CASE calls' = [calls EXCEPT ![c] = [calls[c] EXCEPT !.todo =
                CompatDerive \o SubSeq(calls[c].todo, 3, Len(calls[c].todo))]]
    BY <2>1, <2>3, ChangedOnly, Zenon DEF DeriveTurn, bag
  <2>4. QED
    BY <1>2, <2>2, <2>3, Zenon DEF passwordToKey
<1>3. ASSUME deriveBits(c) PROVE DeriveTurn(c, op)
  <2>1. calls[c].todo # << >> /\ op = "deriveBits"
    BY <1>0, <1>3, Zenon DEF deriveBits, Does
  <2>2. QED
    BY <1>3, <2>1, ProceedTo, Zenon DEF deriveBits, DeriveTurn
<1>4. ASSUME importPassword(c) PROVE DeriveTurn(c, op)
  <2>1. calls[c].todo # << >> /\ op = "importPassword"
    BY <1>0, <1>4, Zenon DEF importPassword, Does
  <2>2. QED
    BY <1>4, <2>1, ProceedTo, Zenon DEF importPassword, DeriveTurn
<1>5. ASSUME hmacBlock(c) PROVE DeriveTurn(c, op)
  <2>1. calls[c].todo # << >> /\ op = "hmacBlock"
    BY <1>0, <1>5, Zenon DEF hmacBlock, Does
  <2>2. \/ \E output : Proceed(c, Split(Derived(c, output)))
        \/ \E x : calls' = [calls EXCEPT ![c] = [calls[c] EXCEPT !.bag = x]]
    BY <1>5, Zenon DEF hmacBlock
  <2>3. QED
    BY <2>1, <2>2, ProceedTo, ChangedOnly, Zenon DEF DeriveTurn
<1>6. ASSUME fails(c) PROVE Stops(c)
  BY <1>6, StopTo, Zenon DEF fails
<1>7. QED
  BY <1>1, <1>2, <1>3, <1>4, <1>5, <1>6, Zenon

----------------------------------------------------------------------------
(* How any call begins.                                                    *)

Opens(c, fn, p, args) ==
    LET ring == "ring" \in DOMAIN args
        objects == IF ring THEN cached[args.ring] ELSE {}
        todo == Unfold(Chain(fn, p, args), objects)
        said == IF ring /\ args.ring \in IncompleteRings THEN <<"error">>
                ELSE IF todo = << >> THEN <<"ok">> ELSE << >>
    IN  /\ calls'[c].fn = fn /\ calls'[c].args = args
        /\ calls'[c].bag = IF ring THEN RawKeys(args.ring)
                           ELSE IF "jwk" \in DOMAIN args
                           THEN [privateJwk |-> args.jwk] ELSE << >>
        /\ calls'[c].said = said
        /\ calls'[c].todo = IF said = << >> THEN todo ELSE << >>

LEMMA StartOpens ==
    ASSUME OnceInv, NEW c \in Calls, Start(c)
    PROVE  \E fn \in Functions[c], p \in Platforms[c] : \E args \in Arguments(c, fn) :
                calls'[c].fn = fn /\ Opens(c, fn, p, args)
<1>1. PICK fn \in Functions[c], p \in Platforms[c] : \E args \in Arguments(c, fn) :
        LET ring == "ring" \in DOMAIN args
            objects == IF ring THEN cached[args.ring] ELSE {}
            todo == Unfold(Chain(fn, p, args), objects)
            keys == IF ring THEN RawKeys(args.ring)
                    ELSE IF "jwk" \in DOMAIN args
                    THEN [privateJwk |-> args.jwk] ELSE << >>
            said == IF ring /\ args.ring \in IncompleteRings THEN <<"error">>
                    ELSE IF todo = << >> THEN <<"ok">> ELSE << >>
        IN  calls' = [calls EXCEPT ![c] =
                Begun(fn, p, args, keys, said, todo)]
  BY Zenon DEF Start
<1>2. PICK args \in Arguments(c, fn) :
        LET ring == "ring" \in DOMAIN args
            objects == IF ring THEN cached[args.ring] ELSE {}
            todo == Unfold(Chain(fn, p, args), objects)
            keys == IF ring THEN RawKeys(args.ring)
                    ELSE IF "jwk" \in DOMAIN args
                    THEN [privateJwk |-> args.jwk] ELSE << >>
            said == IF ring /\ args.ring \in IncompleteRings THEN <<"error">>
                    ELSE IF todo = << >> THEN <<"ok">> ELSE << >>
        IN  calls' = [calls EXCEPT ![c] =
                Begun(fn, p, args, keys, said, todo)]
  BY <1>1, Zenon
<1> DEFINE ring == "ring" \in DOMAIN args
           objects == IF ring THEN cached[args.ring] ELSE {}
           todo == Unfold(Chain(fn, p, args), objects)
           keys == IF ring THEN RawKeys(args.ring)
                   ELSE IF "jwk" \in DOMAIN args
                   THEN [privateJwk |-> args.jwk] ELSE << >>
           said == IF ring /\ args.ring \in IncompleteRings THEN <<"error">>
                   ELSE IF todo = << >> THEN <<"ok">> ELSE << >>
<1>3. calls' = [calls EXCEPT ![c] = Begun(fn, p, args, keys, said, todo)]
  BY <1>2, Zenon
<1> HIDE DEF ring, objects, todo, keys, said
<1> DEFINE r == Begun(fn, p, args, keys, said, todo)
<1>4. /\ r.fn = fn /\ r.args = args /\ r.bag = keys /\ r.said = said
      /\ r.todo = IF said = << >> THEN todo ELSE << >>
  BY DEF Begun
<1> HIDE DEF r
<1>5. calls'[c] = r
  BY <1>3, Replaced DEF r
<1>6. calls'[c].fn = fn /\ Opens(c, fn, p, args)
  BY <1>4, <1>5, Zenon DEF Opens, ring, objects, todo, keys, said
<1>7. QED
  BY <1>6

----------------------------------------------------------------------------
(* What a step leaves of the keys and what was made with them.             *)

LEMMA PairStays ==
    ASSUME NEW k, NEW h, NEW held, NEW more, NEW l, NEW x, Adds(held, more, l, x),
           l \notin {"aesKey", "hmacKey"}, HasPair(k, h, held)
    PROVE  HasPair(k, h, more)
BY HoldsStays DEF HasPair
LEMMA PairKept ==
    ASSUME NEW k, NEW h, NEW held, NEW more, Keeps(held, more), HasPair(k, h, held)
    PROVE  HasPair(k, h, more)
BY Zenon DEF Keeps, HasPair, Holds
LEMMA CoveredStays ==
    ASSUME NEW m, NEW k, NEW h, NEW held, NEW more, NEW l, NEW x, Adds(held, more, l, x),
           l \notin {"aesKey", "hmacKey", "aesEncrypted"}, Covered(m, k, h, held)
    PROVE  Covered(m, k, h, more)
BY PairStays, HoldsStays DEF Covered
LEMMA SealedStays ==
    ASSUME NEW m, NEW k, NEW h, NEW held, NEW more, NEW l, NEW x, Adds(held, more, l, x),
           l \notin {"aesKey", "hmacKey", "aesEncrypted", "hmac"}, Sealed(m, k, h, held)
    PROVE  Sealed(m, k, h, more)
BY CoveredStays, HoldsStays DEF Sealed

\* The two keys that are split off are a pair.
LEMMA WithSplit ==
    ASSUME NEW x, NEW opts, NEW held, "aesKey" \notin DOMAIN opts, "hmacKey" \notin DOMAIN opts
    PROVE  /\ HoldsPaired(With(Split(x), held))
           /\ HoldsPaired(With(With(opts, Split(x)), held))
           /\ HasPair(<<"aes", x>>, <<"hmac", x>>, With(Split(x), held))
           /\ HasPair(<<"aes", x>>, <<"hmac", x>>, With(With(opts, Split(x)), held))
<1> DEFINE two == Split(x)
           new == With(opts, two)
<1>1. /\ DOMAIN two = {"aesKey", "hmacKey"}
      /\ two["aesKey"] = <<"aes", x>> /\ two["hmacKey"] = <<"hmac", x>>
  BY DEF Split
<1> HIDE DEF two
<1>2. /\ {"aesKey", "hmacKey"} \subseteq DOMAIN new
      /\ new["aesKey"] = <<"aes", x>> /\ new["hmacKey"] = <<"hmac", x>>
  <2>1. /\ DOMAIN new = DOMAIN opts \cup DOMAIN two
        /\ \A l \in DOMAIN two \ DOMAIN opts : new[l] = two[l]
    BY WithGet, Zenon
  <2> HIDE DEF new
  <2>2. QED
    BY <1>1, <2>1
<1> HIDE DEF new
<1>3. ASSUME NEW n, {"aesKey", "hmacKey"} \subseteq DOMAIN n,
             n["aesKey"] = <<"aes", x>>, n["hmacKey"] = <<"hmac", x>>
      PROVE  /\ HoldsPaired(With(n, held))
             /\ HasPair(<<"aes", x>>, <<"hmac", x>>, With(n, held))
  <2> DEFINE more == With(n, held)
  <2>1. /\ {"aesKey", "hmacKey"} \subseteq DOMAIN more
        /\ more["aesKey"] = <<"aes", x>> /\ more["hmacKey"] = <<"hmac", x>>
    <3>1. /\ DOMAIN more = DOMAIN n \cup DOMAIN held
          /\ \A l \in DOMAIN n : more[l] = n[l]
      BY WithGet, Zenon
    <3> HIDE DEF more
    <3>2. QED
      BY <1>3, <3>1
  <2> HIDE DEF more
  <2>2. more["aesKey"][2] = x
    BY <2>1
  <2>3. Paired(more["aesKey"], more["hmacKey"])
    BY <2>1, <2>2, Zenon DEF Paired
  <2>4. QED
    BY <2>1, <2>3, Zenon DEF HoldsPaired, HasPair, Holds, more
<1>4. QED
  BY <1>1, <1>2, <1>3, Zenon DEF two, new

\* Each of a pair determines the other.
LEMMA PairedOnce ==
    ASSUME NEW k1, NEW k2, NEW h, Paired(k1, h), Paired(k2, h)
    PROVE  k1 = k2
<1>1. ASSUME NEW x, NEW y PROVE <<"hmac", x>> # <<"keys", y>>
  OBVIOUS
<1>2. ASSUME NEW x, NEW y, <<"hmac", x>> = <<"hmac", y>> PROVE x = y
  BY <1>2
<1>3. CASE k1 = <<"keys", k1[2]>> /\ h = k1
  BY <1>1, <1>3, Zenon DEF Paired
<1>4. CASE k1 = <<"aes", k1[2]>> /\ h = <<"hmac", k1[2]>>
  <2>1. k2 = <<"aes", k2[2]>> /\ h = <<"hmac", k2[2]>>
    BY <1>1, <1>4, Zenon DEF Paired
  <2>2. k1[2] = k2[2]
    BY <1>2, <1>4, <2>1, Zenon
  <2>3. QED
    BY <1>4, <2>1, <2>2, Zenon
<1>5. QED
  BY <1>3, <1>4, Zenon DEF Paired

LEMMA KeyIsPaired == \A o : Paired(Key(o), Key(o))
<1>1. ASSUME NEW o PROVE Paired(Key(o), Key(o))
  <2>1. <<"keys", o>>[2] = o
    OBVIOUS
  <2>2. QED
    BY <2>1, Zenon DEF Paired, Key
<1>2. QED
  BY <1>1

----------------------------------------------------------------------------
(* The encrypting calls, a step at a time.                                 *)

\* A step of the encryption proper.
LEMMA SealingGoes ==
    ASSUME NEW m \in Calls, NEW t \in Tails, NEW k, NEW h,
           Sealing(m, t, k, h, calls[m].todo, calls[m].bag), calls[m].todo # t,
           Turn(m, Head(calls[m].todo))
    PROVE  Sealing(m, t, k, h, calls'[m].todo, calls'[m].bag)
<1> DEFINE todo == calls[m].todo
           held == calls[m].bag
           more == calls'[m].bag
<1>1. CASE todo \in {ToCacheAES(t), ToCacheHMAC(t)} /\ HasPair(k, h, held)
  <2>1. PICK op \in {"importKeyAES", "importKeyHMAC"},
             then \in {ToCacheHMAC(t), ToEncryptAES(t)} : Leads(todo, op, {then})
    BY <1>1, SealingLeads, Zenon
  <2>2. Goes(m, << >>)
    BY <2>1 DEF Leads, Turn, Ops
  <2>3. calls'[m].todo = then /\ more = With(<< >>, held)
    BY <2>1, <2>2, GoesOnly, Zenon
  <2>4. HasPair(k, h, more)
    BY <1>1, <2>3, WithNone, PairKept, Zenon
  <2>5. QED
    BY <2>1, <2>3, <2>4, Zenon DEF Sealing
<1>2. CASE todo = ToEncryptAES(t) /\ HasPair(k, h, held)
  <2>1. Leads(todo, "encryptAES", {ToSignHMAC(t)})
    BY <1>2, SealingLeads, Zenon
  <2>2. held.aesKey = k
    BY <1>2 DEF HasPair, Holds
  <2>3. Goes(m, [aesEncrypted |-> [key |-> held.aesKey, text |-> m]])
    BY <2>1 DEF Leads, Turn, Ops, bag
  <2>4. Goes(m, [aesEncrypted |-> Cover(m, k)])
    BY <2>2, <2>3, Zenon DEF Cover
  <2>5. calls'[m].todo = ToSignHMAC(t) /\ more = With([aesEncrypted |-> Cover(m, k)], held)
    BY <2>1, <2>4, GoesOnly, Zenon
  <2>6. Adds(held, more, "aesEncrypted", Cover(m, k))
    BY <2>5, WithField, Zenon
  <2>7. HasPair(k, h, more)
    BY <1>2, <2>6, PairStays
  <2>8. Covered(m, k, h, more)
    BY <2>6, <2>7, Zenon DEF Covered, Adds
  <2>9. QED
    BY <2>5, <2>8, Zenon DEF Sealing
<1>3. CASE todo = ToSignHMAC(t) /\ Covered(m, k, h, held)
  <2>1. Leads(todo, "signHMAC", {t})
    BY <1>3, SealingLeads, Zenon
  <2>2. held.hmacKey = h /\ held.aesEncrypted = Cover(m, k)
    BY <1>3 DEF Covered, HasPair, Holds
  <2>3. Goes(m, [hmac |-> [key |-> held.hmacKey, over |-> held.aesEncrypted]])
    BY <2>1 DEF Leads, Turn, Ops, bag
  <2> DEFINE x == [key |-> h, over |-> Cover(m, k)]
  <2>4. Goes(m, [hmac |-> x])
    BY <2>2, <2>3, Zenon
  <2> HIDE DEF x
  <2>5. calls'[m].todo = t /\ more = With([hmac |-> x], held)
    BY <2>1, <2>4, GoesOnly, Zenon
  <2>6. Adds(held, more, "hmac", x)
    BY <2>5, WithField, Zenon
  <2>7. Covered(m, k, h, more)
    BY <1>3, <2>6, CoveredStays
  <2>8. Sealed(m, k, h, more)
    BY <2>6, <2>7, Zenon DEF Sealed, Adds, x
  <2>9. QED
    BY <2>5, <2>8, Zenon DEF Sealing
<1>4. QED
  BY <1>1, <1>2, <1>3, Zenon DEF Sealing

\* A step that makes the keys.
LEMMA MakingGoes ==
    ASSUME NEW m \in Calls, NEW t \in Tails,
           Making(m, t, calls[m].todo, calls[m].bag), Turn(m, Head(calls[m].todo))
    PROVE  \/ Making(m, t, calls'[m].todo, calls'[m].bag)
           \/ Sealing(m, t, Key(m), Key(m), calls'[m].todo, calls'[m].bag)
<1> DEFINE todo == calls[m].todo
           held == calls[m].bag
           more == calls'[m].bag
<1>1. CASE todo = ToGenerateAES(t)
  <2>1. Leads(todo, "generateKeyAES", {ToGenerateHMAC(t)})
    BY <1>1, SealingLeads, Zenon
  <2>2. Goes(m, [aesKey |-> Key(m)])
    BY <2>1 DEF Leads, Turn, Ops, Key
  <2>3. calls'[m].todo = ToGenerateHMAC(t) /\ more = With([aesKey |-> Key(m)], held)
    BY <2>1, <2>2, GoesOnly, Zenon
  <2>4. Adds(held, more, "aesKey", Key(m))
    BY <2>3, WithField, Zenon
  <2>5. QED
    BY <2>3, <2>4, Zenon DEF Making, Adds
<1>2. CASE todo = ToGenerateHMAC(t) /\ Holds(held, "aesKey", Key(m))
  <2>1. Leads(todo, "generateKeyHMAC", {ToExportAES(t)})
    BY <1>2, SealingLeads, Zenon
  <2>2. Goes(m, [hmacKey |-> Key(m)])
    BY <2>1 DEF Leads, Turn, Ops, Key
  <2>3. calls'[m].todo = ToExportAES(t) /\ more = With([hmacKey |-> Key(m)], held)
    BY <2>1, <2>2, GoesOnly, Zenon
  <2>4. Adds(held, more, "hmacKey", Key(m))
    BY <2>3, WithField, Zenon
  <2>5. HasPair(Key(m), Key(m), more)
    BY <1>2, <2>4 DEF Adds, HasPair, Holds
  <2>6. QED
    BY <2>3, <2>5, Zenon DEF Making
<1>3. CASE /\ todo \in {ToExportAES(t), ToExportHMAC(t), ToImportAES(t), ToImportHMAC(t)}
           /\ HasPair(Key(m), Key(m), held)
  <2>1. PICK op \in {"exportKeyAES", "exportKeyHMAC", "importKeyAES", "importKeyHMAC"},
             next \in {{ToExportHMAC(t)}, {ToImportAES(t)}, {ToImportHMAC(t)},
                       {ToEncryptAES(t), ToCacheAES(t)}} :
          Leads(todo, op, next)
    BY <1>3, SealingLeads, Zenon
  <2>2. Goes(m, << >>)
    BY <2>1 DEF Leads, Turn, Ops
  <2>3. calls'[m].todo \in next /\ more = With(<< >>, held)
    BY <2>1, <2>2, GoesTo
  <2>4. HasPair(Key(m), Key(m), more)
    BY <1>3, <2>3, WithNone, PairKept, Zenon
  <2>5. QED
    BY <2>1, <2>3, <2>4, Zenon DEF Making, Sealing
<1>4. QED
  BY <1>1, <1>2, <1>3, Zenon DEF Making

\* A step that derives them; next is what may follow.
LEMMA DerivingGoes ==
    ASSUME OnceInv, NEW c \in Calls, Settles(c), ~Stops(c),
           NEW t \in Seq(Ops), Deriving(t, calls[c].todo),
           NEW next, \A objects : Unfold(t, objects) \in next
    PROVE  /\ Same(c)
           /\ \/ Deriving(t, calls'[c].todo)
              \/ calls'[c].todo \in next /\ HoldsPaired(calls'[c].bag)
<1> DEFINE todo == calls[c].todo
           more == calls'[c].bag
<1>0. /\ Leads(ToPassword(t), "passwordToKey", {ToDeriveBits(t)})
      /\ Leads(ToDeriveBits(t), "deriveBits", next)
      /\ Leads(ToImportPassword(t), "importPassword", {ToHmacBlock(t)})
      /\ Leads(ToHmacBlock(t), "hmacBlock", next)
  BY DerivingLeads
<1>g. ASSUME NEW new, Goes(c, new) PROVE Same(c)
  BY <1>g, Zenon DEF Goes
<1>1. CASE todo = ToPassword(t)
  <2>1. Leads(todo, "passwordToKey", {ToDeriveBits(t)})
    BY <1>0, <1>1, Zenon
  <2>2. Head(todo) = "passwordToKey"
    BY <2>1, Zenon DEF Leads
  <2>3. \/ Goes(c, << >>)
        \/ Same(c) /\ calls'[c].todo = CompatDerive \o SubSeq(todo, 3, Len(todo))
    BY <2>2, DeriveTurns DEF DeriveTurn
  <2>4. CASE Goes(c, << >>)
    <3>1. calls'[c].todo = ToDeriveBits(t)
      BY <2>1, <2>4, GoesOnly, Zenon
    <3>2. QED
      BY <1>g, <2>4, <3>1, Zenon DEF Deriving
  <2>5. CASE Same(c) /\ calls'[c].todo = CompatDerive \o SubSeq(todo, 3, Len(todo))
    <3>1. calls'[c].todo = ToImportPassword(t)
      BY <1>1, <2>5, DeriveThen, Zenon
    <3>2. QED
      BY <2>5, <3>1, Zenon DEF Deriving
  <2>6. QED
    BY <2>3, <2>4, <2>5
<1>2. CASE todo = ToDeriveBits(t)
  <2>1. Leads(todo, "deriveBits", next)
    BY <1>0, <1>2, Zenon
  <2>2. Head(todo) = "deriveBits"
    BY <2>1, Zenon DEF Leads
  <2>3. \E n, x : Goes(c, With(Options(c, n), Split(x)))
    BY <2>2, DeriveTurns DEF DeriveTurn
  <2>4. PICK n, x : Goes(c, With(Options(c, n), Split(x)))
    BY <2>3
  <2>5. /\ calls'[c].todo \in next
        /\ more = With(With(Options(c, n), Split(x)), calls[c].bag)
    BY <2>1, <2>4, GoesTo, Zenon
  <2>6. "aesKey" \notin DOMAIN Options(c, n) /\ "hmacKey" \notin DOMAIN Options(c, n)
    BY DEF Options
  <2>7. HoldsPaired(more)
    BY <2>5, <2>6, WithSplit, Zenon
  <2>8. QED
    BY <1>g, <2>4, <2>5, <2>7, Zenon
<1>3. CASE todo = ToImportPassword(t)
  <2>1. Leads(todo, "importPassword", {ToHmacBlock(t)})
    BY <1>0, <1>3, Zenon
  <2>2. Head(todo) = "importPassword"
    BY <2>1, Zenon DEF Leads
  <2>3. \E new : Goes(c, new)
    BY <2>2, DeriveTurns DEF DeriveTurn
  <2>4. Same(c) /\ calls'[c].todo = ToHmacBlock(t)
    BY <1>g, <2>1, <2>3, GoesOnly, Zenon
  <2>5. QED
    BY <2>4, Zenon DEF Deriving
<1>4. CASE todo = ToHmacBlock(t)
  <2>1. Leads(todo, "hmacBlock", next)
    BY <1>0, <1>4, Zenon
  <2>2. Head(todo) = "hmacBlock"
    BY <2>1, Zenon DEF Leads
  <2>3. \/ Same(c) /\ calls'[c].todo = todo
        \/ \E output : Goes(c, Split(Derived(c, output)))
    BY <2>2, DeriveTurns DEF DeriveTurn
  <2>4. CASE Same(c) /\ calls'[c].todo = todo
    BY <1>4, <2>4, Zenon DEF Deriving
  <2>5. ASSUME NEW output, Goes(c, Split(Derived(c, output)))
        PROVE  Same(c) /\ calls'[c].todo \in next /\ HoldsPaired(more)
    <3>1. /\ calls'[c].todo \in next
          /\ more = With(Split(Derived(c, output)), calls[c].bag)
      BY <2>1, <2>5, GoesTo, Zenon
    <3>2. HoldsPaired(With(Split(Derived(c, output)), calls[c].bag))
      <4>1. "aesKey" \notin DOMAIN << >> /\ "hmacKey" \notin DOMAIN << >>
        OBVIOUS
      <4>2. QED
        BY <4>1, WithSplit, Zenon
    <3>3. QED
      BY <1>g, <2>5, <3>1, <3>2, Zenon
  <2>6. QED
    BY <2>3, <2>4, <2>5
<1>5. QED
  BY <1>1, <1>2, <1>3, <1>4, Zenon DEF Deriving

\* The RSA part of a message holds the two keys of its call.
LEMMA ToRsaIsContent ==
    ASSUME NEW m, Sealed(m, Key(m), Key(m), calls[m].bag)
    PROVE  ToRsa(m) = Content(m)
<1>1. /\ "aesEncrypted" \in DOMAIN calls[m].bag
      /\ calls[m].bag.aesKey = Key(m) /\ calls[m].bag.hmacKey = Key(m)
  BY DEF Sealed, Covered, HasPair, Holds
<1>2. ToRsa(m) = [keys |-> <<calls[m].bag.aesKey, calls[m].bag.hmacKey>>,
                  length |-> CombinedLength]
  BY <1>1, Zenon DEF ToRsa, Combined, bag
<1>3. QED
  BY <1>1, <1>2, Zenon DEF Content

\* The last step of asym.encrypt.
LEMMA RsaGoes ==
    ASSUME NEW m \in Calls, calls[m].todo = OnlyRSA,
           Sealing(m, OnlyRSA, Key(m), Key(m), calls[m].todo, calls[m].bag),
           Turn(m, Head(calls[m].todo))
    PROVE  /\ calls'[m].todo = << >> /\ Sealed(m, Key(m), Key(m), calls'[m].bag)
           /\ Holds(calls'[m].bag, "rsaEncrypted", Content(m))
<1> DEFINE held == calls[m].bag
           more == calls'[m].bag
<1>0. OnlyRSA \in Tails
  BY DEF Tails
<1>1. OnlyRSA \notin {ToCacheAES(OnlyRSA), ToCacheHMAC(OnlyRSA), ToEncryptAES(OnlyRSA),
                      ToSignHMAC(OnlyRSA)}
  <2>1. /\ Head(ToCacheAES(OnlyRSA)) = "importKeyAES"
        /\ Head(ToCacheHMAC(OnlyRSA)) = "importKeyHMAC"
        /\ Head(ToEncryptAES(OnlyRSA)) = "encryptAES"
        /\ Head(ToSignHMAC(OnlyRSA)) = "signHMAC" /\ Head(OnlyRSA) = "encryptRSA"
    BY <1>0, SealingLeads, Zenon DEF Leads
  <2>2. /\ "encryptRSA" # "importKeyAES" /\ "encryptRSA" # "importKeyHMAC"
        /\ "encryptRSA" # "encryptAES" /\ "encryptRSA" # "signHMAC"
    OBVIOUS
  <2>3. QED
    BY <2>1, <2>2, Zenon
<1>2. Sealed(m, Key(m), Key(m), held)
  BY <1>1, Zenon DEF Sealing
<1>3. Leads(calls[m].todo, "encryptRSA", {<< >>})
  BY <1>0, SealingLeads, Zenon
<1>4. Goes(m, [rsaEncrypted |-> ToRsa(m)])
  BY <1>3 DEF Leads, Turn, Ops
<1>5. Goes(m, [rsaEncrypted |-> Content(m)])
  BY <1>2, <1>4, ToRsaIsContent, Zenon
<1>6. calls'[m].todo = << >> /\ more = With([rsaEncrypted |-> Content(m)], held)
  BY <1>3, <1>5, GoesOnly, Zenon
<1>7. Adds(held, more, "rsaEncrypted", Content(m))
  BY <1>6, WithField, Zenon
<1>8. Sealed(m, Key(m), Key(m), more)
  BY <1>2, <1>7, SealedStays
<1>9. QED
  BY <1>6, <1>7, <1>8, Zenon DEF Adds

\* The keys stay throughout.
LEMMA SealingHasPair ==
    ASSUME NEW m, NEW t, NEW k, NEW h, NEW todo, NEW held, Sealing(m, t, k, h, todo, held)
    PROVE  HasPair(k, h, held)
BY Zenon DEF Sealing, Sealed, Covered

\* A step of an encrypting call leads on as its code says.
LEMMA EncryptingGoes ==
    ASSUME OnceInv, NEW m \in Calls, Settles(m), ~Stops(m),
           Encrypting(m, calls[m].fn, calls[m].args, calls[m].todo, calls[m].bag)
    PROVE  Encrypting(m, calls'[m].fn, calls'[m].args, calls'[m].todo, calls'[m].bag)
<1> DEFINE todo == calls[m].todo
           held == calls[m].bag
           fn == calls[m].fn
           args == calls[m].args
           todo2 == calls'[m].todo
           more == calls'[m].bag
<1>1. todo # << >> /\ Turn(m, Head(todo))
  BY Turns
<1>2. calls'[m].fn = fn /\ calls'[m].args = args
  BY <1>1, TurnSame, Zenon DEF Same
<1>t. << >> \in Tails /\ OnlyRSA \in Tails
  BY DEF Tails
<1>3. CASE fn = "sym.encrypt" /\ Sealing(m, << >>, Key(args.ring), Key(args.ring), todo, held)
  <2>1. Sealing(m, << >>, Key(args.ring), Key(args.ring), todo2, more)
    BY <1>1, <1>3, <1>t, SealingGoes, Zenon
  <2>2. QED
    BY <1>2, <1>3, <2>1, Zenon DEF Encrypting
<1>4. CASE /\ fn = "genKeysAndEncrypt"
           /\ Making(m, << >>, todo, held) \/ Sealing(m, << >>, Key(m), Key(m), todo, held)
  <2>1. Making(m, << >>, todo2, more) \/ Sealing(m, << >>, Key(m), Key(m), todo2, more)
    BY <1>1, <1>4, <1>t, SealingGoes, MakingGoes, Zenon
  <2>2. QED
    BY <1>2, <1>4, <2>1, Zenon DEF Encrypting
<1>5. CASE /\ fn = "asym.encrypt"
           /\ \/ Making(m, OnlyRSA, todo, held)
              \/ Sealing(m, OnlyRSA, Key(m), Key(m), todo, held)
  <2>1. \/ Making(m, OnlyRSA, todo2, more)
        \/ Sealing(m, OnlyRSA, Key(m), Key(m), todo2, more)
        \/ /\ todo2 = << >> /\ Sealed(m, Key(m), Key(m), more)
           /\ Holds(more, "rsaEncrypted", Content(m))
    <3>1. CASE Making(m, OnlyRSA, todo, held)
      BY <1>1, <1>t, <3>1, MakingGoes, Zenon
    <3>2. CASE Sealing(m, OnlyRSA, Key(m), Key(m), todo, held) /\ todo # OnlyRSA
      BY <1>1, <1>t, <3>2, SealingGoes, Zenon
    <3>3. CASE Sealing(m, OnlyRSA, Key(m), Key(m), todo, held) /\ todo = OnlyRSA
      BY <1>1, <3>3, RsaGoes, Zenon
    <3>4. QED
      BY <1>5, <3>1, <3>2, <3>3, Zenon
  <2>2. QED
    BY <1>2, <1>5, <2>1, Zenon DEF Encrypting
<1>6. CASE fn = "encryptWithPassword" /\ Deriving(ToImportKeys(<< >>), todo)
  <2>1. \/ Deriving(ToImportKeys(<< >>), todo2)
        \/ todo2 \in {ToEncryptAES(<< >>), ToCacheAES(<< >>)} /\ HoldsPaired(more)
    BY <1>6, DerivedLead, DerivingGoes, Zenon
  <2>2. HoldsPaired(more) => HasPair(more["aesKey"], more["hmacKey"], more)
    BY DEF HoldsPaired, HasPair, Holds
  <2>3. QED
    BY <1>2, <1>6, <2>1, <2>2, Zenon DEF Encrypting, Sealing
<1>7. CASE /\ fn = "encryptWithPassword" /\ HoldsPaired(held)
           /\ Sealing(m, << >>, held["aesKey"], held["hmacKey"], todo, held)
  <2> DEFINE k == held["aesKey"]
             h == held["hmacKey"]
  <2>1. Sealing(m, << >>, k, h, todo2, more)
    BY <1>1, <1>7, <1>t, SealingGoes, Zenon
  <2>2. HasPair(k, h, more)
    BY <2>1, SealingHasPair, Zenon
  <2>3. Paired(k, h)
    BY <1>7, Zenon DEF HoldsPaired
  <2>4. HoldsPaired(more) /\ more["aesKey"] = k /\ more["hmacKey"] = h
    <3> HIDE DEF k, h
    <3>1. "aesKey" \in DOMAIN more /\ "hmacKey" \in DOMAIN more
          /\ more["aesKey"] = k /\ more["hmacKey"] = h
      BY <2>2, Zenon DEF HasPair, Holds
    <3>2. {"aesKey", "hmacKey"} \subseteq DOMAIN more
      BY <3>1
    <3>3. QED
      BY <2>3, <3>1, <3>2, Zenon DEF HoldsPaired
  <2>5. QED
    BY <1>2, <1>7, <2>1, <2>4, Zenon DEF Encrypting
<1>8. QED
  BY <1>1, <1>3, <1>4, <1>5, <1>6, <1>7, Zenon DEF Encrypting

\* How the encrypting calls begin.
LEMMA StartsEncrypting ==
    ASSUME OnceInv, NEW m \in Calls, Start(m), Sound(calls'[m]),
           calls'[m].fn \in Encrypts \ {"encryptAndSign"}
    PROVE  Encrypting(m, calls'[m].fn, calls'[m].args, calls'[m].todo, calls'[m].bag)
<1> DEFINE fn == calls'[m].fn
           todo2 == calls'[m].todo
           more == calls'[m].bag
<1>1. PICK p, args : args \in Arguments(m, fn) /\ Opens(m, fn, p, args)
  BY StartOpens, Zenon
<1>2. calls'[m].args = args
  BY <1>1, Zenon DEF Opens
<1>3. CASE fn = "sym.encrypt"
  <2>1. "ring" \in DOMAIN args
    <3>1. Arguments(m, "sym.encrypt") = [ring : Rings]
      BY DEF Arguments
    <3>2. args \in [ring : Rings]
      BY <1>1, <1>3, <3>1, Zenon
    <3>3. QED
      BY <3>2
  <2>2. Chain("sym.encrypt", p, args) = ToImportKeys(<< >>)
    BY SymEncryptChain DEF Chain
  <2>3. ASSUME args.ring \in IncompleteRings PROVE FALSE
    <3>1. calls'[m].said = <<"error">>
      BY <1>1, <2>1, <2>3, Zenon DEF Opens
    <3>2. calls'[m].todo = << >>
      BY <1>1, <2>1, <2>3, <3>1 DEF Opens
    <3>3. QED
      BY <3>1, <3>2 DEF Sound
  <2>4. more = RawKeys(args.ring)
    BY <1>1, <2>1, Zenon DEF Opens
  <2>5. HasPair(Key(args.ring), Key(args.ring), more)
    <3>1. ASSUME NEW o PROVE HasPair(Key(o), Key(o), RawKeys(o))
      BY DEF HasPair, Holds, RawKeys, Key
    <3>2. QED
      BY <2>4, <3>1, Zenon
  <2> DEFINE objects == cached[args.ring]
             chain == Unfold(ToImportKeys(<< >>), objects)
  <2>6. chain # << >> => todo2 = chain
    <3>1. chain = Unfold(Chain(fn, p, args), cached[args.ring])
      BY <1>3, <2>2, Zenon
    <3>2. QED
      BY <1>1, <2>1, <2>3, <3>1, Zenon DEF Opens
  <2>7. chain \in {ToEncryptAES(<< >>), ToCacheAES(<< >>)}
    BY DerivedLead, Zenon
  <2>8. ToEncryptAES(<< >>) # << >> /\ ToCacheAES(<< >>) # << >>
    BY SealingLeads, Zenon DEF Leads, Tails
  <2>9. todo2 \in {ToEncryptAES(<< >>), ToCacheAES(<< >>)}
    BY <2>6, <2>7, <2>8, Zenon
  <2>10. QED
    BY <1>2, <1>3, <2>5, <2>9, Zenon DEF Encrypting, Sealing
<1>4. ASSUME "ring" \notin DOMAIN args,
             NEW op, Head(Chain(fn, p, args)) = op, op # "importKeys",
             Chain(fn, p, args) # << >>
      PROVE  todo2 = Chain(fn, p, args)
  <2>1. ASSUME NEW objects PROVE Unfold(Chain(fn, p, args), objects) = Chain(fn, p, args)
    BY <1>4, Zenon DEF Unfold
  <2>2. QED
    BY <1>1, <1>4, <2>1, Zenon DEF Opens
<1>5. CASE fn \in {"asym.encrypt", "genKeysAndEncrypt"}
  <2>1. "ring" \notin DOMAIN args /\ args.length \in Nat
    <3>1. args \in {[length |-> ContentLength[m]]}
      <4>1. Arguments(m, "asym.encrypt") = {[length |-> ContentLength[m]]}
        BY DEF Arguments
      <4>2. Arguments(m, "genKeysAndEncrypt") = {[length |-> ContentLength[m]]}
        BY DEF Arguments
      <4>3. QED
        BY <1>1, <1>5, <4>1, <4>2, Zenon
    <3>2. ContentLength[m] \in Nat
      BY CallsAssumption
    <3>3. QED
      BY <3>1, <3>2
  <2>2. PICK t \in Tails : /\ Chain(fn, p, args) = ToGenerateAES(t)
                           /\ fn = "asym.encrypt" => t = OnlyRSA
                           /\ fn = "genKeysAndEncrypt" => t = << >>
    <3>1. Chain("asym.encrypt", p, args) = ToGenerateAES(OnlyRSA)
      <4>1. Chain("asym.encrypt", p, args) = AsymEncrypt(args.length)
        BY DEF Chain
      <4>2. QED
        BY <2>1, <4>1, AsymChain, Zenon
    <3>2. Chain("genKeysAndEncrypt", p, args) = ToGenerateAES(<< >>)
      BY GenerateChain DEF Chain
    <3>3. "asym.encrypt" # "genKeysAndEncrypt"
      OBVIOUS
    <3>4. QED
      BY <1>5, <3>1, <3>2, <3>3, Zenon DEF Tails
  <2>3. ToGenerateAES(t) # << >> /\ Head(ToGenerateAES(t)) = "generateKeyAES"
    BY SealingLeads, Zenon DEF Leads
  <2>4. "generateKeyAES" # "importKeys"
    OBVIOUS
  <2>5. todo2 = ToGenerateAES(t)
    BY <1>4, <2>1, <2>2, <2>3, <2>4, Zenon
  <2>6. QED
    BY <1>5, <2>2, <2>5, Zenon DEF Encrypting, Making
<1>6. CASE fn = "encryptWithPassword"
  <2>1. "ring" \notin DOMAIN args
    <3>1. Arguments(m, "encryptWithPassword") = [password : Passwords]
      BY DEF Arguments
    <3>2. args \in [password : Passwords]
      BY <1>1, <1>6, <3>1, Zenon
    <3>3. DOMAIN args = {"password"}
      BY <3>2
    <3>4. QED
      BY <3>3
  <2>2. Chain(fn, p, args) \in {ToPassword(ToImportKeys(<< >>)),
                                ToImportPassword(ToImportKeys(<< >>))}
    <3>1. Chain("encryptWithPassword", p, args) = Derive(p) \o SymEncrypt
      BY DEF Chain, EncryptWithPassword
    <3>2. QED
      BY <1>6, <3>1, SymEncryptChain, DeriveThen, DerivedLead, Zenon
  <2>3. /\ Head(ToPassword(ToImportKeys(<< >>))) = "passwordToKey"
        /\ Head(ToImportPassword(ToImportKeys(<< >>))) = "importPassword"
        /\ ToPassword(ToImportKeys(<< >>)) # << >>
        /\ ToImportPassword(ToImportKeys(<< >>)) # << >>
    BY DerivedLead, DerivingLeads, Zenon DEF Leads
  <2>4. "passwordToKey" # "importKeys" /\ "importPassword" # "importKeys"
    OBVIOUS
  <2>5. todo2 = Chain(fn, p, args)
    BY <1>4, <2>1, <2>2, <2>3, <2>4, Zenon
  <2>6. QED
    BY <1>6, <2>2, <2>5, Zenon DEF Encrypting, Deriving
<1>7. fn \in {"sym.encrypt", "genKeysAndEncrypt", "asym.encrypt", "encryptWithPassword"}
  BY DEF Encrypts
<1>8. QED
  BY <1>3, <1>5, <1>6, <1>7, Zenon

\* No call encrypts in the first state.
LEMMA EncryptInit == Init => EncryptInv
<1>1. ASSUME Init, NEW c \in Calls PROVE calls[c].fn \notin Encrypts
  BY <1>1 DEF Init, Idle, Encrypts
<1>2. QED
  BY <1>1 DEF EncryptInv

\* And whichever call moves, those that encrypt keep to their chains.
LEMMA EncryptStep == OnceInv /\ EncryptInv /\ [Next]_vars => EncryptInv'
<1> SUFFICES ASSUME OnceInv, EncryptInv, [Next]_vars PROVE EncryptInv'
  OBVIOUS
<1>1. ASSUME NEW m \in Calls, calls'[m].fn \in Encrypts \ {"encryptAndSign"},
             Sound(calls'[m])
      PROVE  Encrypting(m, calls'[m].fn, calls'[m].args, calls'[m].todo, calls'[m].bag)
  <2>1. CASE calls'[m] = calls[m]
    BY <1>1, <2>1, Zenon DEF EncryptInv
  <2>2. CASE Start(m)
    BY <1>1, <2>2, StartsEncrypting, Zenon
  <2>3. CASE Settles(m)
    <3>1. calls[m].todo # << >> /\ (Stops(m) \/ Turn(m, Head(calls[m].todo)))
      BY <2>3, Turns
    <3>2. ~Stops(m)
      BY <1>1, StoppedIsNotSound, Zenon
    <3>3. calls[m].fn = calls'[m].fn
      BY <3>1, <3>2, TurnSame, Zenon DEF Same
    <3>4. Encrypting(m, calls[m].fn, calls[m].args, calls[m].todo, calls[m].bag)
      BY <1>1, <3>1, <3>3, Zenon DEF EncryptInv, Sound
    <3>5. QED
      BY <2>3, <3>2, <3>4, EncryptingGoes, Zenon
  <2>4. QED
    BY <2>1, <2>2, <2>3, MovesOne, Zenon
<1>2. QED
  BY <1>1, Zenon DEF EncryptInv, Sound

----------------------------------------------------------------------------
(* What was sent.                                                          *)

\* A message is sealed with a pair of keys, and its RSA part is of those keys.
LEMMA MessageIsSealed ==
    ASSUME OnceInv, SignInv, EncryptInv, NEW m \in Sent(Encrypts)
    PROVE  /\ \E k, h : Paired(k, h) /\ Sealed(m, k, h, calls[m].bag)
           /\ calls[m].fn \in {"asym.encrypt", "encryptAndSign"} =>
                Holds(calls[m].bag, "rsaEncrypted", Content(m))
<1> DEFINE held == calls[m].bag
           fn == calls[m].fn
           args == calls[m].args
           Done == /\ \E k, h : Paired(k, h) /\ Sealed(m, k, h, held)
                   /\ fn \in {"asym.encrypt", "encryptAndSign"} =>
                        Holds(held, "rsaEncrypted", Content(m))
<1>1. m \in Calls /\ fn \in Encrypts /\ calls[m].said = <<"ok">>
  BY DEF Sent
<1>2. calls[m].todo = << >>
  BY <1>1 DEF OnceInv, Finished
<1>k. Paired(Key(m), Key(m))
  BY KeyIsPaired, Zenon
<1>3. CASE fn = "encryptAndSign"
  <2>1. IsSigned(m, held, calls[m].args.signer)
    BY <1>1, <1>3, MessageIsSigned DEF Messages, Sent
  <2>2. Sealed(m, Key(m), Key(m), held)
    BY <2>1, Zenon DEF IsSigned, HasOneSignature, HasRsa, IsExtended, HasCipher, HasKeys,
       Cipher, Mac, Sealed, Covered, HasPair, Cover
  <2>3. Holds(held, "rsaEncrypted", Content(m))
    BY <2>1, Zenon DEF IsSigned, HasOneSignature, HasRsa
  <2>4. QED
    BY <1>k, <2>2, <2>3, Zenon
<1>4. CASE fn # "encryptAndSign"
  <2>1. Encrypting(m, fn, args, << >>, held)
    BY <1>1, <1>2, <1>4 DEF EncryptInv, Sound
  <2>2. ASSUME NEW t \in Tails
        PROVE  /\ << >> \notin {ToGenerateAES(t), ToGenerateHMAC(t), ToExportAES(t),
                                ToExportHMAC(t), ToImportAES(t), ToImportHMAC(t)}
               /\ << >> \notin {ToCacheAES(t), ToCacheHMAC(t), ToEncryptAES(t),
                                ToSignHMAC(t), OnlyRSA}
    BY SealingLeads, Zenon DEF Leads
  <2>t. << >> \in Tails /\ OnlyRSA \in Tails
    BY DEF Tails
  <2>3. ASSUME NEW t \in Tails PROVE ~Making(m, t, << >>, held)
    BY <2>2, Zenon DEF Making
  <2>4. ASSUME NEW k, NEW h, Sealing(m, << >>, k, h, << >>, held) PROVE Sealed(m, k, h, held)
    BY <2>2, <2>4, <2>t, Zenon DEF Sealing
  <2>5. ASSUME NEW k, NEW h PROVE ~Sealing(m, OnlyRSA, k, h, << >>, held)
    BY <2>2, <2>t, Zenon DEF Sealing
  <2>6. ~Deriving(ToImportKeys(<< >>), << >>)
    BY DerivedLead, DerivingLeads, Zenon DEF Deriving, Leads
  <2>7. CASE fn = "sym.encrypt" /\ Sealed(m, Key(args.ring), Key(args.ring), held)
    BY <2>7, KeyIsPaired, Zenon
  <2>8. CASE fn = "genKeysAndEncrypt" /\ Sealed(m, Key(m), Key(m), held)
    BY <1>k, <2>8, Zenon
  <2>9. CASE /\ fn = "asym.encrypt" /\ Sealed(m, Key(m), Key(m), held)
             /\ Holds(held, "rsaEncrypted", Content(m))
    BY <1>k, <2>9, Zenon
  <2>10. CASE /\ fn = "encryptWithPassword" /\ HoldsPaired(held)
              /\ Sealed(m, held["aesKey"], held["hmacKey"], held)
    BY <2>10, Zenon DEF HoldsPaired
  <2>11. QED
    BY <2>1, <2>3, <2>4, <2>5, <2>6, <2>t, <2>7, <2>8, <2>9, <2>10, Zenon DEF Encrypting
<1>5. QED
  BY <1>3, <1>4

\* And does not change.
LEMMA SentStays ==
    ASSUME OnceInv, [Next]_vars, NEW fns, "none" \notin fns, NEW m \in Sent(fns)
    PROVE  calls'[m] = calls[m] /\ m \in Sent(fns)' /\ Layout(m)' = Layout(m)
<1>1. m \in Calls /\ calls[m].fn \in fns /\ calls[m].said = <<"ok">>
  BY DEF Sent
<1>2. calls[m].todo = << >>
  BY <1>1 DEF OnceInv, Finished
<1>3. ~Start(m)
  BY <1>1 DEF Start
<1>4. ~Settles(m)
  BY <1>1, <1>2, Turns
<1>5. calls'[m] = calls[m]
  BY <1>1, <1>3, <1>4, MovesOne
<1>6. m \in Sent(fns)'
  BY <1>1, <1>5 DEF Sent
<1>7. Layout(m)' = Layout(m)
  BY <1>5, Zenon DEF Layout
<1>8. QED
  BY <1>5, <1>6, <1>7

LEMMA OfMessagesStays ==
    ASSUME OnceInv, [Next]_vars, NEW fns, "none" \notin fns, NEW d, OfMessages(fns, d)
    PROVE  OfMessages(fns, d)'
<1>1. ASSUME NEW l \in DOMAIN d
      PROVE  \E m \in Sent(fns)' : l \in Range(Layout(m)') /\ d[l] = calls'[m].bag[l]
  <2>1. PICK m \in Sent(fns) : l \in Range(Layout(m)) /\ d[l] = calls[m].bag[l]
    BY Zenon DEF OfMessages
  <2>2. QED
    BY <2>1, SentStays, Zenon
<1>2. QED
  BY <1>1, Zenon DEF OfMessages

\* What arrives of it: the AES part of some message, an HMAC over that of some,
\* the keys of some.
LEMMA SentValues ==
    ASSUME OnceInv, SignInv, EncryptInv, NEW fns \in SUBSET Encrypts,
           NEW d, OfMessages(fns, d)
    PROVE  /\ "aesEncrypted" \in DOMAIN d => \E m \in Sent(Encrypts) :
                /\ \E k : d["aesEncrypted"] = Cover(m, k)
                /\ Message(m).aesEncrypted = d["aesEncrypted"]
           /\ "hmac" \in DOMAIN d => \E m, k, h :
                Paired(k, h) /\ d["hmac"] = [key |-> h, over |-> Cover(m, k)]
           /\ "rsaEncrypted" \in DOMAIN d => \E m \in Sent(Encrypts) :
                /\ "rsaEncrypted" \in DOMAIN Message(m)
                /\ Message(m).rsaEncrypted = d["rsaEncrypted"]
                /\ fns \subseteq {"asym.encrypt", "encryptAndSign"} =>
                    d["rsaEncrypted"] = Content(m)
<1>1. ASSUME NEW l \in DOMAIN d
      PROVE  \E m \in Sent(Encrypts) :
                /\ calls[m].fn \in fns /\ d[l] = calls[m].bag[l]
                /\ l \in DOMAIN Message(m) /\ Message(m)[l] = d[l]
  <2>1. PICK m \in Sent(fns) : l \in Range(Layout(m)) /\ d[l] = calls[m].bag[l]
    BY Zenon DEF OfMessages
  <2>2. m \in Sent(Encrypts) /\ calls[m].fn \in fns
    BY DEF Sent
  <2>3. l \in DOMAIN Message(m) /\ Message(m)[l] = calls[m].bag[l]
    BY <2>1 DEF Message
  <2>4. QED
    BY <2>1, <2>2, <2>3, Zenon
<1>2. ASSUME "aesEncrypted" \in DOMAIN d
      PROVE  \E m \in Sent(Encrypts) :
                /\ \E k : d["aesEncrypted"] = Cover(m, k)
                /\ Message(m).aesEncrypted = d["aesEncrypted"]
  <2>1. PICK m \in Sent(Encrypts) : /\ d["aesEncrypted"] = calls[m].bag["aesEncrypted"]
                                    /\ Message(m).aesEncrypted = d["aesEncrypted"]
    BY <1>1, <1>2, Zenon
  <2>2. PICK k, h : Sealed(m, k, h, calls[m].bag)
    BY MessageIsSealed, Zenon
  <2>3. calls[m].bag["aesEncrypted"] = Cover(m, k)
    BY <2>2, Zenon DEF Sealed, Covered, Holds
  <2>4. QED
    BY <2>1, <2>3, Zenon
<1>3. ASSUME "hmac" \in DOMAIN d
      PROVE  \E m, k, h : Paired(k, h) /\ d["hmac"] = [key |-> h, over |-> Cover(m, k)]
  <2>1. PICK m \in Sent(Encrypts) : d["hmac"] = calls[m].bag["hmac"]
    BY <1>1, <1>3, Zenon
  <2>2. PICK k, h : Paired(k, h) /\ Sealed(m, k, h, calls[m].bag)
    BY MessageIsSealed, Zenon
  <2>3. calls[m].bag["hmac"] = [key |-> h, over |-> Cover(m, k)]
    BY <2>2, Zenon DEF Sealed, Holds
  <2>4. QED
    BY <2>1, <2>2, <2>3, Zenon
<1>4. ASSUME "rsaEncrypted" \in DOMAIN d
      PROVE  \E m \in Sent(Encrypts) :
                /\ "rsaEncrypted" \in DOMAIN Message(m)
                /\ Message(m).rsaEncrypted = d["rsaEncrypted"]
                /\ fns \subseteq {"asym.encrypt", "encryptAndSign"} =>
                    d["rsaEncrypted"] = Content(m)
  <2>1. PICK m \in Sent(Encrypts) :
            /\ calls[m].fn \in fns /\ d["rsaEncrypted"] = calls[m].bag["rsaEncrypted"]
            /\ "rsaEncrypted" \in DOMAIN Message(m)
            /\ Message(m).rsaEncrypted = d["rsaEncrypted"]
    BY <1>1, <1>4, Zenon
  <2>2. calls[m].fn \in {"asym.encrypt", "encryptAndSign"} =>
            calls[m].bag["rsaEncrypted"] = Content(m)
    BY MessageIsSealed, Zenon DEF Holds
  <2>3. fns \subseteq {"asym.encrypt", "encryptAndSign"} =>
            calls[m].fn \in {"asym.encrypt", "encryptAndSign"}
    BY <2>1
  <2>4. QED
    BY <2>1, <2>2, <2>3, Zenon
<1>5. QED
  BY <1>2, <1>3, <1>4, Zenon

----------------------------------------------------------------------------
(* The decrypting calls, a step at a time.                                 *)

\* An HMAC that verifies is of an AES part encrypted with the key at hand.
LEMMA HmacPairs ==
    ASSUME OnceInv, SignInv, EncryptInv, NEW fns \in SUBSET Encrypts,
           NEW d, OfMessages(fns, d), "hmac" \in DOMAIN d,
           NEW k, NEW h, Paired(k, h), NEW x, d["hmac"] = [key |-> h, over |-> x]
    PROVE  x.key = k
<1>1. PICK m, k2, h2 : Paired(k2, h2) /\ d["hmac"] = [key |-> h2, over |-> Cover(m, k2)]
  BY SentValues, Zenon
<1> DEFINE y == Cover(m, k2)
<1>2. [key |-> h, over |-> x] = [key |-> h2, over |-> y]
  BY <1>1, Zenon
<1>3. y.key = k2
  BY DEF Cover
<1> HIDE DEF y
<1>4. h = h2 /\ x = y
  BY <1>2
<1>5. k = k2
  BY <1>1, <1>4, PairedOnce, Zenon
<1>6. QED
  BY <1>3, <1>4, <1>5, Zenon

\* A step of the decryption proper.
LEMMA OpeningGoes ==
    ASSUME OnceInv, SignInv, EncryptInv, NEW c \in Calls, NEW fns \in SUBSET Encrypts,
           NEW d, d = calls[c].args.dict, OfMessages(fns, d),
           NEW k, NEW h, Paired(k, h),
           Opening(d, k, h, calls[c].todo, calls[c].bag), calls[c].todo # << >>,
           Turn(c, Head(calls[c].todo))
    PROVE  Opening(d, k, h, calls'[c].todo, calls'[c].bag)
<1> DEFINE todo == calls[c].todo
           held == calls[c].bag
           more == calls'[c].bag
<1>1. CASE todo \in {AtOpenAES, AtOpenHMAC} /\ HasPair(k, h, held)
  <2>1. PICK op \in {"importKeyAES", "importKeyHMAC"}, then \in {AtOpenHMAC, AtVerifyHMAC} :
            Leads(todo, op, {then})
    BY <1>1, ReadingLeads, Zenon
  <2>2. Goes(c, << >>)
    BY <2>1 DEF Leads, Turn, Ops
  <2>3. calls'[c].todo = then /\ more = With(<< >>, held)
    BY <2>1, <2>2, GoesOnly, Zenon
  <2>4. HasPair(k, h, more)
    BY <1>1, <2>3, WithNone, PairKept, Zenon
  <2>5. QED
    BY <2>1, <2>3, <2>4, Zenon DEF Opening
<1>2. CASE todo = AtVerifyHMAC /\ HasPair(k, h, held)
  <2>1. Leads(todo, "verifyHMAC", {AtDecryptAES})
    BY <1>2, ReadingLeads, Zenon
  <2>2. /\ {"hmac", "aesEncrypted"} \subseteq DOMAIN d /\ Goes(c, << >>)
        /\ d["hmac"] = [key |-> held["hmacKey"], over |-> d["aesEncrypted"]]
    BY <2>1 DEF Leads, Turn, Ops, dict, bag
  <2>3. held["hmacKey"] = h
    BY <1>2, Zenon DEF HasPair, Holds
  <2>4. d["aesEncrypted"].key = k
    <3> DEFINE x == d["aesEncrypted"]
    <3>1. "hmac" \in DOMAIN d /\ d["hmac"] = [key |-> h, over |-> x]
      BY <2>2, <2>3
    <3> HIDE DEF x
    <3>2. x.key = k
      BY <3>1, HmacPairs
    <3>3. QED
      BY <3>2 DEF x
  <2>5. calls'[c].todo = AtDecryptAES /\ more = With(<< >>, held)
    BY <2>1, <2>2, GoesOnly, Zenon
  <2>6. HasPair(k, h, more)
    BY <1>2, <2>5, WithNone, PairKept, Zenon
  <2>7. "aesEncrypted" \in DOMAIN d
    BY <2>2
  <2>8. QED
    BY <2>4, <2>5, <2>6, <2>7, Zenon DEF Opening
<1>3. CASE /\ todo = AtDecryptAES /\ HasPair(k, h, held)
           /\ "aesEncrypted" \in DOMAIN d /\ d["aesEncrypted"].key = k
  <2>1. Leads(todo, "decryptAES", {<< >>})
    BY <1>3, ReadingLeads, Zenon
  <2>2. \/ Goes(c, [text |-> d["aesEncrypted"].text])
        \/ d["aesEncrypted"].key # held["aesKey"]
    BY <2>1 DEF Leads, Turn, Ops, dict, bag
  <2>3. held["aesKey"] = k
    BY <1>3, Zenon DEF HasPair, Holds
  <2> DEFINE x == d["aesEncrypted"].text
  <2>4. Goes(c, [text |-> x])
    BY <1>3, <2>2, <2>3, Zenon
  <2> HIDE DEF x
  <2>5. calls'[c].todo = << >> /\ more = With([text |-> x], held)
    BY <2>1, <2>4, GoesOnly, Zenon
  <2>6. Holds(more, "text", x) /\ HasPair(k, h, more)
    <3>1. Adds(held, more, "text", x)
      BY <2>5, WithField, Zenon
    <3>2. "text" \notin {"aesKey", "hmacKey"}
      OBVIOUS
    <3>3. QED
      BY <1>3, <3>1, <3>2, PairStays, Zenon DEF Adds
  <2>7. QED
    BY <1>3, <2>5, <2>6, Zenon DEF Opening, x
<1>4. QED
  BY <1>1, <1>2, <1>3, Zenon DEF Opening

\* What decryptRSA adds when a signature is still to be verified.
LEMMA WithPayloadHeld ==
    ASSUME NEW held, NEW p, NEW a
    PROVE  Holds(With([payload |-> p, text |-> a], held), "payload", p)
<1> DEFINE new == [payload |-> p, text |-> a]
<1>1. "payload" \in DOMAIN new /\ new["payload"] = p
  OBVIOUS
<1> HIDE DEF new
<1>2. Holds(With(new, held), "payload", p)
  BY <1>1, WithGet, Zenon DEF Holds
<1>3. QED
  BY <1>2, Zenon DEF new

\* The keys of the RSA part are taken, or it is handed over.
LEMMA TakesKeys ==
    ASSUME NEW c \in Calls, NEW d, "rsaEncrypted" \in DOMAIN d,
           GoesWithKeys(c, d["rsaEncrypted"]), Tail(calls[c].todo) = AesPart(d), NEW op,
           "aesEncrypted" \in DOMAIN d => Leads(calls[c].todo, op, {AtVerifyHMAC, AtOpenAES}),
           "aesEncrypted" \notin DOMAIN d => Leads(calls[c].todo, op, {<< >>})
    PROVE  OpeningRSA(d, calls'[c].todo, calls'[c].bag)
<1> DEFINE p == d["rsaEncrypted"]
           held == calls[c].bag
           more == calls'[c].bag
<1>1. CASE "aesEncrypted" \in DOMAIN d
  <2>1. Tail(calls[c].todo) = SymDecrypt
    BY <1>1, Zenon DEF AesPart
  <2>2. Goes(c, [payload |-> p, aesKey |-> p.keys[1], hmacKey |-> p.keys[2]])
    BY <2>1, Zenon DEF GoesWithKeys
  <2>3. /\ calls'[c].todo \in {AtVerifyHMAC, AtOpenAES}
        /\ more = With([payload |-> p, aesKey |-> p.keys[1], hmacKey |-> p.keys[2]], held)
    BY <1>1, <2>2, GoesTo, Zenon
  <2>4. HasPair(p.keys[1], p.keys[2], more)
    BY <2>3, WithPayload, Zenon DEF HasPair
  <2>5. QED
    BY <1>1, <2>3, <2>4, Zenon DEF OpeningRSA, Opening
<1>2. CASE "aesEncrypted" \notin DOMAIN d
  <2>1. SymDecrypt # << >>
    BY ReadingChains, ThenFacts, OpsAre
  <2>2. Tail(calls[c].todo) # SymDecrypt
    BY <1>2, <2>1, Zenon DEF AesPart
  <2>3. Goes(c, [payload |-> p, text |-> p])
    BY <2>2, Zenon DEF GoesWithKeys
  <2>4. calls'[c].todo = << >> /\ more = With([payload |-> p, text |-> p], held)
    BY <1>2, <2>3, GoesOnly, Zenon
  <2>5. Holds(more, "text", p)
    BY <2>4, WithPayload, Zenon
  <2>6. QED
    BY <1>2, <2>4, <2>5, Zenon DEF OpeningRSA
<1>3. QED
  BY <1>1, <1>2

\* The keys in an RSA part that arrived are a pair.
LEMMA RsaPairs ==
    ASSUME OnceInv, SignInv, EncryptInv,
           NEW fns \in SUBSET {"asym.encrypt", "encryptAndSign"},
           NEW d, OfMessages(fns, d), "rsaEncrypted" \in DOMAIN d
    PROVE  Paired(d["rsaEncrypted"].keys[1], d["rsaEncrypted"].keys[2])
<1>1. fns \in SUBSET Encrypts
  BY DEF Encrypts
<1>2. PICK m : d["rsaEncrypted"] = Content(m)
  BY <1>1, SentValues, Zenon
<1>3. ASSUME NEW p, p = Content(m) PROVE Paired(p.keys[1], p.keys[2])
  BY <1>3, PayloadIsKeys, KeyIsPaired, Zenon
<1>4. QED
  BY <1>2, <1>3, Zenon

\* A step with the keys of the RSA part.
LEMMA OpeningRSAGoes ==
    ASSUME OnceInv, SignInv, EncryptInv, NEW c \in Calls,
           NEW fns \in SUBSET {"asym.encrypt", "encryptAndSign"},
           NEW d, d = calls[c].args.dict, OfMessages(fns, d),
           OpeningRSA(d, calls[c].todo, calls[c].bag), calls[c].todo # << >>,
           Turn(c, Head(calls[c].todo))
    PROVE  OpeningRSA(d, calls'[c].todo, calls'[c].bag)
<1> DEFINE k == d["rsaEncrypted"].keys[1]
           h == d["rsaEncrypted"].keys[2]
<1>1. /\ "rsaEncrypted" \in DOMAIN d /\ "aesEncrypted" \in DOMAIN d
      /\ Opening(d, k, h, calls[c].todo, calls[c].bag)
  BY Zenon DEF OpeningRSA
<1>2. Paired(k, h)
  BY <1>1, RsaPairs, Zenon
<1>3. fns \in SUBSET Encrypts
  BY DEF Encrypts
<1> HIDE DEF k, h
<1>4. Opening(d, k, h, calls'[c].todo, calls'[c].bag)
  BY <1>1, <1>2, <1>3, OpeningGoes
<1>5. QED
  BY <1>1, <1>4, Zenon DEF OpeningRSA, k, h

\* The functions whose messages a decrypting function is given.
LEMMA SourcesAre ==
    /\ \A fn : Sources(fn) \in SUBSET Encrypts /\ "none" \notin Sources(fn)
    /\ Sources("asym.decrypt") \in SUBSET {"asym.encrypt", "encryptAndSign"}
    /\ Sources("verifyAndDecrypt") \in SUBSET {"asym.encrypt", "encryptAndSign"}
BY DEF Sources, Encrypts

\* A step of a decrypting call leads on as its code says.
LEMMA DecryptingGoes ==
    ASSUME OnceInv, SignInv, EncryptInv, NEW c \in Calls, Settles(c), ~Stops(c),
           OfMessages(Sources(calls[c].fn), calls[c].args.dict),
           Decrypting(calls[c].fn, calls[c].args, calls[c].todo, calls[c].bag)
    PROVE  Decrypting(calls'[c].fn, calls'[c].args, calls'[c].todo, calls'[c].bag)
<1> DEFINE todo == calls[c].todo
           held == calls[c].bag
           fn == calls[c].fn
           args == calls[c].args
           d == args.dict
           part == AesPart(d)
           todo2 == calls'[c].todo
           more == calls'[c].bag
<1>1. todo # << >> /\ Turn(c, Head(todo))
  BY Turns
<1>2. calls'[c].fn = fn /\ calls'[c].args = args
  BY <1>1, TurnSame, Zenon DEF Same
<1>3. part \in Seq(Ops)
  BY ReadingChain
<1>4. CASE fn = "sym.decrypt" /\ Opening(d, Key(args.ring), Key(args.ring), todo, held)
  <2>1. Opening(d, Key(args.ring), Key(args.ring), todo2, more)
    BY <1>1, <1>4, SourcesAre, KeyIsPaired, OpeningGoes, Zenon
  <2>2. QED
    BY <1>2, <1>4, <2>1, Zenon DEF Decrypting
<1>5. CASE fn = "asym.decrypt" /\ todo = Then("decryptRSA", part)
  <2>1. /\ todo = AsymDecrypt(d) /\ Tail(todo) = part
        /\ "aesEncrypted" \in DOMAIN d => Leads(todo, "decryptRSA", {AtVerifyHMAC, AtOpenAES})
        /\ "aesEncrypted" \notin DOMAIN d => Leads(todo, "decryptRSA", {<< >>})
    BY <1>5, OpeningChain, Zenon
  <2>2. Head(todo) = "decryptRSA"
    BY <2>1, Zenon DEF Leads
  <2>3. "rsaEncrypted" \in DOMAIN d /\ GoesWithKeys(c, d["rsaEncrypted"])
    BY <1>1, <2>2 DEF Turn, Ops, dict
  <2>4. OpeningRSA(d, todo2, more)
    BY <2>1, <2>3, TakesKeys, Zenon
  <2>5. QED
    BY <1>2, <1>5, <2>4, Zenon DEF Decrypting
<1>6. CASE fn \in {"asym.decrypt", "verifyAndDecrypt"} /\ OpeningRSA(d, todo, held)
  <2>1. Sources(fn) \in SUBSET {"asym.encrypt", "encryptAndSign"}
    BY <1>6, SourcesAre, Zenon
  <2>2. OpeningRSA(d, todo2, more)
    BY <1>1, <1>6, <2>1, OpeningRSAGoes, Zenon
  <2>3. QED
    BY <1>2, <1>6, <2>2, Zenon DEF Decrypting
<1>7. CASE fn = "verifyAndDecrypt" /\ todo = AtVerifyEncrypted(part)
  <2>1. Leads(todo, "verifyEncrypted", {AtDecryptRSA(part)})
    BY <1>3, <1>7, ReadingLeads, Zenon
  <2>2. Goes(c, << >>)
    BY <1>1, <2>1 DEF Leads, Turn, Ops
  <2>3. todo2 = AtDecryptRSA(part)
    BY <2>1, <2>2, GoesOnly, Zenon
  <2>4. QED
    BY <1>2, <1>7, <2>3, Zenon DEF Decrypting
<1>8. CASE fn = "verifyAndDecrypt" /\ todo = AtDecryptRSA(part)
  <2>1. Leads(todo, "decryptRSA", {AtVerifyData(part)}) /\ Tail(todo) # SymDecrypt
    BY <1>3, <1>8, ReadingLeads, Zenon
  <2> DEFINE p == d["rsaEncrypted"]
  <2>2. "rsaEncrypted" \in DOMAIN d /\ GoesWithKeys(c, p)
    BY <1>1, <2>1 DEF Leads, Turn, Ops, dict
  <2>3. Goes(c, [payload |-> p, text |-> p])
    BY <2>1, <2>2, Zenon DEF GoesWithKeys
  <2>4. todo2 = AtVerifyData(part) /\ more = With([payload |-> p, text |-> p], held)
    BY <2>1, <2>3, GoesOnly, Zenon
  <2>5. Holds(more, "payload", p)
    BY <2>4, WithPayloadHeld, Zenon
  <2>6. QED
    BY <1>2, <1>8, <2>2, <2>4, <2>5, Zenon DEF Decrypting
<1>9. CASE /\ fn = "verifyAndDecrypt" /\ todo = AtVerifyData(part)
           /\ "rsaEncrypted" \in DOMAIN d /\ Holds(held, "payload", d["rsaEncrypted"])
  <2>1. Head(todo) = "verifyData"
    BY <1>3, <1>9, ThenFacts, OpsAre DEF AtVerifyData
  <2>2. GoesWithKeys(c, held.payload)
    BY <1>1, <2>1 DEF Turn, Ops, bag
  <2>3. GoesWithKeys(c, d["rsaEncrypted"])
    BY <1>9, <2>2, Zenon DEF Holds
  <2>4. /\ Tail(todo) = part
        /\ "aesEncrypted" \in DOMAIN d => Leads(todo, "verifyData", {AtVerifyHMAC, AtOpenAES})
        /\ "aesEncrypted" \notin DOMAIN d => Leads(todo, "verifyData", {<< >>})
    BY <1>3, <1>9, ReadingLeads, Zenon DEF AesPart
  <2>5. OpeningRSA(d, todo2, more)
    BY <1>9, <2>3, <2>4, TakesKeys, Zenon
  <2>6. QED
    BY <1>2, <1>9, <2>5, Zenon DEF Decrypting
<1>10. CASE fn = "decryptWithPassword" /\ Deriving(SymDecrypt, todo)
  <2>1. \/ Deriving(SymDecrypt, todo2)
        \/ todo2 \in {AtVerifyHMAC, AtOpenAES} /\ HoldsPaired(more)
    BY <1>10, DerivedLead, DerivingGoes, Zenon
  <2>2. HoldsPaired(more) => HasPair(more["aesKey"], more["hmacKey"], more)
    BY DEF HoldsPaired, HasPair, Holds
  <2>3. QED
    BY <1>2, <1>10, <2>1, <2>2, Zenon DEF Decrypting, Opening
<1>11. CASE /\ fn = "decryptWithPassword" /\ HoldsPaired(held)
            /\ Opening(d, held["aesKey"], held["hmacKey"], todo, held)
  <2> DEFINE k == held["aesKey"]
             h == held["hmacKey"]
  <2>1. Paired(k, h)
    BY <1>11, Zenon DEF HoldsPaired
  <2>2. Opening(d, k, h, todo2, more)
    BY <1>1, <1>11, <2>1, SourcesAre, OpeningGoes, Zenon
  <2>3. HoldsPaired(more) /\ more["aesKey"] = k /\ more["hmacKey"] = h
    <3> HIDE DEF k, h
    <3>1. HasPair(k, h, more)
      BY <2>2, Zenon DEF Opening
    <3>2. "aesKey" \in DOMAIN more /\ "hmacKey" \in DOMAIN more
          /\ more["aesKey"] = k /\ more["hmacKey"] = h
      BY <3>1, Zenon DEF HasPair, Holds
    <3>3. {"aesKey", "hmacKey"} \subseteq DOMAIN more
      BY <3>2
    <3>4. QED
      BY <2>1, <3>2, <3>3, Zenon DEF HoldsPaired
  <2>4. QED
    BY <1>2, <1>11, <2>2, <2>3, Zenon DEF Decrypting
<1>12. QED
  BY <1>1, <1>4, <1>5, <1>6, <1>7, <1>8, <1>9, <1>10, <1>11, Zenon DEF Decrypting

\* How a decrypting call begins: with what arrived, at the start of its chain.
LEMMA StartsDecrypting ==
    ASSUME OnceInv, NEW c \in Calls, Start(c), calls'[c].fn \in Decrypts
    PROVE  /\ OfMessages(Sources(calls'[c].fn), calls'[c].args.dict)
           /\ Sound(calls'[c]) =>
                Decrypting(calls'[c].fn, calls'[c].args, calls'[c].todo, calls'[c].bag)
<1> DEFINE fn == calls'[c].fn
           todo2 == calls'[c].todo
           more == calls'[c].bag
<1>1. PICK p, args : args \in Arguments(c, fn) /\ Opens(c, fn, p, args)
  BY StartOpens, Zenon
<1>2. calls'[c].args = args
  BY <1>1, Zenon DEF Opens
<1>3. CASE fn = "sym.decrypt"
  <2>1. /\ "ring" \in DOMAIN args
        /\ args.dict \in Arrivals({"sym.encrypt", "genKeysAndEncrypt"})
    <3> DEFINE arrivals == Arrivals({"sym.encrypt", "genKeysAndEncrypt"})
               objects == Rings \cup Sent({"genKeysAndEncrypt", "sym.generateKeys"})
    <3>1. Arguments(c, "sym.decrypt") = [ring : objects, dict : arrivals]
      BY DEF Arguments
    <3> HIDE DEF arrivals, objects
    <3>2. args \in [ring : objects, dict : arrivals]
      BY <1>1, <1>3, <3>1, Zenon
    <3>3. "ring" \in DOMAIN args /\ args.dict \in arrivals
      BY <3>2
    <3>4. QED
      BY <3>3 DEF arrivals
  <2>2. Sources("sym.decrypt") = {"sym.encrypt", "genKeysAndEncrypt"}
    BY DEF Sources
  <2>3. OfMessages(Sources(fn), args.dict)
    BY <1>3, <2>1, <2>2, ArrivalsOf, Zenon
  <2>4. Chain("sym.decrypt", p, args) = SymDecrypt
    BY DEF Chain
  <2>5. ASSUME Sound(calls'[c]), args.ring \in IncompleteRings PROVE FALSE
    <3>1. calls'[c].said = <<"error">>
      BY <1>1, <2>1, <2>5, Zenon DEF Opens
    <3>2. calls'[c].todo = << >>
      BY <1>1, <2>1, <2>5, <3>1 DEF Opens
    <3>3. QED
      BY <2>5, <3>1, <3>2 DEF Sound
  <2>6. more = RawKeys(args.ring)
    BY <1>1, <2>1, Zenon DEF Opens
  <2>7. HasPair(Key(args.ring), Key(args.ring), more)
    <3>1. ASSUME NEW o PROVE HasPair(Key(o), Key(o), RawKeys(o))
      BY DEF HasPair, Holds, RawKeys, Key
    <3>2. QED
      BY <2>6, <3>1, Zenon
  <2> DEFINE chain == Unfold(SymDecrypt, cached[args.ring])
  <2>8. ASSUME Sound(calls'[c]), chain # << >> PROVE todo2 = chain
    <3>1. chain = Unfold(Chain(fn, p, args), cached[args.ring])
      BY <1>3, <2>4, Zenon
    <3>2. QED
      BY <1>1, <2>1, <2>5, <2>8, <3>1, Zenon DEF Opens
  <2>9. chain \in {AtVerifyHMAC, AtOpenAES} /\ AtVerifyHMAC # << >> /\ AtOpenAES # << >>
    BY DerivedLead, ReadingLeads, Zenon DEF Leads
  <2>10. Sound(calls'[c]) => todo2 \in {AtVerifyHMAC, AtOpenAES}
    BY <2>8, <2>9, Zenon
  <2>11. QED
    BY <1>2, <1>3, <2>3, <2>7, <2>10, Zenon DEF Decrypting, Opening
<1>4. ASSUME "ring" \notin DOMAIN args,
             NEW op, Head(Chain(fn, p, args)) = op, op # "importKeys",
             Chain(fn, p, args) # << >>
      PROVE  todo2 = Chain(fn, p, args)
  <2>1. ASSUME NEW objects PROVE Unfold(Chain(fn, p, args), objects) = Chain(fn, p, args)
    BY <1>4, Zenon DEF Unfold
  <2>2. QED
    BY <1>1, <1>4, <2>1, Zenon DEF Opens
<1>5. CASE fn = "asym.decrypt"
  <2>1. /\ "ring" \notin DOMAIN args
        /\ args.dict \in Arrivals({"asym.encrypt", "encryptAndSign"})
    <3> DEFINE arrivals == Arrivals({"asym.encrypt", "encryptAndSign"})
    <3>1. Arguments(c, "asym.decrypt") = [dict : arrivals]
      BY DEF Arguments
    <3> HIDE DEF arrivals
    <3>2. args \in [dict : arrivals]
      BY <1>1, <1>5, <3>1, Zenon
    <3>3. DOMAIN args = {"dict"} /\ args.dict \in arrivals
      BY <3>2
    <3>4. QED
      BY <3>3 DEF arrivals
  <2>2. Sources("asym.decrypt") = {"asym.encrypt", "encryptAndSign"}
    BY DEF Sources
  <2>3. OfMessages(Sources(fn), args.dict)
    BY <1>5, <2>1, <2>2, ArrivalsOf, Zenon
  <2>4. Chain("asym.decrypt", p, args) = AsymDecrypt(args.dict)
    BY DEF Chain
  <2>5. AsymDecrypt(args.dict) = Then("decryptRSA", AesPart(args.dict))
    BY OpeningChain, Zenon
  <2>6. AsymDecrypt(args.dict) # << >> /\ Head(AsymDecrypt(args.dict)) = "decryptRSA"
    BY OpeningChain, Zenon DEF Leads
  <2>7. "decryptRSA" # "importKeys"
    OBVIOUS
  <2>8. todo2 = Then("decryptRSA", AesPart(args.dict))
    BY <1>4, <1>5, <2>1, <2>4, <2>5, <2>6, <2>7, Zenon
  <2>9. QED
    BY <1>2, <1>5, <2>3, <2>8, Zenon DEF Decrypting
<1>6. CASE fn = "verifyAndDecrypt"
  <2>1. PICK read : /\ read.dict \in Arrivals({"encryptAndSign"})
                    /\ BegunWith(c, "verifyAndDecrypt", read,
                                 AtVerifyEncrypted(AesPart(read.dict)))
    BY <1>6, StartsReading, Zenon
  <2>2. calls'[c].args = read /\ todo2 = AtVerifyEncrypted(AesPart(read.dict))
    BY <2>1, Zenon DEF BegunWith
  <2>3. Sources("verifyAndDecrypt") = {"encryptAndSign"}
    BY DEF Sources
  <2>4. OfMessages(Sources(fn), read.dict)
    BY <1>6, <2>1, <2>3, ArrivalsOf, Zenon
  <2>5. QED
    BY <1>6, <2>2, <2>4, Zenon DEF Decrypting
<1>7. CASE fn = "decryptWithPassword"
  <2>1. /\ "ring" \notin DOMAIN args
        /\ args.dict \in Arrivals({"encryptWithPassword"})
    <3> DEFINE arrivals == Arrivals({"encryptWithPassword"})
    <3>1. Arguments(c, "decryptWithPassword") = [password : Passwords, dict : arrivals]
      BY DEF Arguments
    <3> HIDE DEF arrivals
    <3>2. args \in [password : Passwords, dict : arrivals]
      BY <1>1, <1>7, <3>1, Zenon
    <3>3. DOMAIN args = {"password", "dict"} /\ args.dict \in arrivals
      BY <3>2
    <3>4. QED
      BY <3>3 DEF arrivals
  <2>2. Sources("decryptWithPassword") = {"encryptWithPassword"}
    BY DEF Sources
  <2>3. OfMessages(Sources(fn), args.dict)
    BY <1>7, <2>1, <2>2, ArrivalsOf, Zenon
  <2>4. Chain(fn, p, args) \in {ToPassword(SymDecrypt), ToImportPassword(SymDecrypt)}
    <3>1. Chain("decryptWithPassword", p, args) = Derive(p) \o SymDecrypt
      BY DEF Chain, DecryptWithPassword
    <3>2. QED
      BY <1>7, <3>1, DeriveThen, DerivedLead, Zenon
  <2>5. /\ Head(ToPassword(SymDecrypt)) = "passwordToKey"
        /\ Head(ToImportPassword(SymDecrypt)) = "importPassword"
        /\ ToPassword(SymDecrypt) # << >> /\ ToImportPassword(SymDecrypt) # << >>
    BY DerivedLead, DerivingLeads, Zenon DEF Leads
  <2>6. "passwordToKey" # "importKeys" /\ "importPassword" # "importKeys"
    OBVIOUS
  <2>7. todo2 \in {ToPassword(SymDecrypt), ToImportPassword(SymDecrypt)}
    BY <1>4, <2>1, <2>4, <2>5, <2>6, Zenon
  <2>8. QED
    BY <1>2, <1>7, <2>3, <2>7, Zenon DEF Decrypting, Deriving
<1>8. fn \in {"sym.decrypt", "asym.decrypt", "verifyAndDecrypt", "decryptWithPassword"}
  BY DEF Decrypts
<1>9. QED
  BY <1>3, <1>5, <1>6, <1>7, <1>8, Zenon

\* No call decrypts in the first state.
LEMMA DecryptInit == Init => GivenInv /\ DecryptInv
<1>1. ASSUME Init, NEW c \in Calls PROVE calls[c].fn \notin Decrypts
  BY <1>1 DEF Init, Idle, Decrypts
<1>2. QED
  BY <1>1, Zenon DEF GivenInv, DecryptInv

\* Whichever call moves, what the decrypting calls were given stays of messages,
LEMMA GivenStep == OnceInv /\ GivenInv /\ [Next]_vars => GivenInv'
<1> SUFFICES ASSUME OnceInv, GivenInv, [Next]_vars PROVE GivenInv'
  OBVIOUS
<1>1. ASSUME NEW c \in Calls, calls'[c].fn \in Decrypts
      PROVE  OfMessages(Sources(calls'[c].fn), calls'[c].args.dict)
  <2>1. CASE calls'[c] = calls[c]
    BY <1>1, <2>1, Zenon DEF GivenInv
  <2>2. CASE Start(c)
    BY <1>1, <2>2, StartsDecrypting, Zenon
  <2>3. CASE Settles(c)
    <3>1. Same(c)
      BY <2>3, Turns, TurnSame, Zenon DEF Stops
    <3>2. QED
      BY <1>1, <3>1, Zenon DEF GivenInv, Same
  <2>4. QED
    BY <2>1, <2>2, <2>3, MovesOne, Zenon
<1>2. ASSUME NEW c \in Calls, calls'[c].fn \in Decrypts,
             NEW fns, fns = Sources(calls'[c].fn), NEW d, d = calls'[c].args.dict
      PROVE  OfMessages(fns, d)'
  BY <1>1, <1>2, SourcesAre, OfMessagesStays, Zenon
<1>3. ASSUME NEW c \in Calls, calls'[c].fn \in Decrypts
      PROVE  \A l \in DOMAIN calls'[c].args.dict : \E m \in Calls :
                /\ calls'[m].fn \in Sources(calls'[c].fn) /\ calls'[m].said = <<"ok">>
                /\ l \in Range(Layout(m)') /\ calls'[c].args.dict[l] = calls'[m].bag[l]
  <2>1. PICK fns, d : fns = Sources(calls'[c].fn) /\ d = calls'[c].args.dict
    OBVIOUS
  <2>2. OfMessages(fns, d)'
    BY <1>2, <1>3, <2>1, Zenon
  <2>3. \A l \in DOMAIN d : \E m \in Calls :
            /\ calls'[m].fn \in fns /\ calls'[m].said = <<"ok">>
            /\ l \in Range(Layout(m)') /\ d[l] = calls'[m].bag[l]
    BY <2>2, Zenon DEF OfMessages, Sent
  <2>4. QED
    BY <2>1, <2>3, Zenon
<1>4. QED
  BY <1>3, Zenon DEF GivenInv, OfMessages, Sent

\* and those calls keep to their chains.
LEMMA DecryptStep ==
    OnceInv /\ SignInv /\ EncryptInv /\ GivenInv /\ DecryptInv /\ [Next]_vars => DecryptInv'
<1> SUFFICES ASSUME OnceInv, SignInv, EncryptInv, GivenInv, DecryptInv, [Next]_vars
             PROVE  DecryptInv'
  OBVIOUS
<1>1. ASSUME NEW c \in Calls, calls'[c].fn \in Decrypts, Sound(calls'[c])
      PROVE  Decrypting(calls'[c].fn, calls'[c].args, calls'[c].todo, calls'[c].bag)
  <2>1. CASE calls'[c] = calls[c]
    BY <1>1, <2>1, Zenon DEF DecryptInv
  <2>2. CASE Start(c)
    BY <1>1, <2>2, StartsDecrypting, Zenon
  <2>3. CASE Settles(c)
    <3>1. calls[c].todo # << >> /\ (Stops(c) \/ Turn(c, Head(calls[c].todo)))
      BY <2>3, Turns
    <3>2. ~Stops(c)
      BY <1>1, StoppedIsNotSound, Zenon
    <3>3. calls[c].fn = calls'[c].fn
      BY <3>1, <3>2, TurnSame, Zenon DEF Same
    <3>4. /\ OfMessages(Sources(calls[c].fn), calls[c].args.dict)
          /\ Decrypting(calls[c].fn, calls[c].args, calls[c].todo, calls[c].bag)
      BY <1>1, <3>1, <3>3, Zenon DEF GivenInv, DecryptInv, Sound
    <3>5. QED
      BY <2>3, <3>2, <3>4, DecryptingGoes, Zenon
  <2>4. QED
    BY <2>1, <2>2, <2>3, MovesOne, Zenon
<1>2. QED
  BY <1>1, Zenon DEF DecryptInv, Sound

----------------------------------------------------------------------------
\* A decrypting call that succeeded hands over what a message held.
LEMMA OpenedIsSent ==
    OnceInv /\ SignInv /\ EncryptInv /\ GivenInv /\ DecryptInv => DecryptedIsSent
<1> SUFFICES ASSUME OnceInv, SignInv, EncryptInv, GivenInv, DecryptInv,
                    NEW c \in Calls, calls[c].fn \in Decrypts,
                    calls[c].said # << >>, calls[c].said[1] = "ok"
             PROVE  \E m \in Sent(Encrypts) :
                        IF "aesEncrypted" \in DOMAIN dict(c)
                        THEN /\ dict(c).aesEncrypted = Message(m).aesEncrypted
                             /\ bag(c).text = m
                        ELSE /\ "rsaEncrypted" \in DOMAIN Message(m)
                             /\ bag(c).text = Message(m).rsaEncrypted
  BY DEF DecryptedIsSent, Succeeded
<1> DEFINE fn == calls[c].fn
           args == calls[c].args
           d == args.dict
           held == calls[c].bag
<1>1. calls[c].todo = << >> /\ Sound(calls[c])
  <2>1. calls[c].said \in Answers /\ calls[c].todo = << >>
    BY DEF OnceInv, Finished
  <2>2. <<"error">>[1] # "ok" /\ <<"error", "error">>[1] # "ok"
    OBVIOUS
  <2>3. calls[c].said \in {<<"ok">>, <<"ok", "error">>}
    BY <2>1, <2>2 DEF Answers
  <2>4. QED
    BY <2>1, <2>3 DEF Sound
<1>2. Decrypting(fn, args, << >>, held) /\ OfMessages(Sources(fn), d)
  BY <1>1, Zenon DEF DecryptInv, GivenInv
<1>3. ASSUME NEW k, NEW h, Opening(d, k, h, << >>, held)
      PROVE  "aesEncrypted" \in DOMAIN d /\ Holds(held, "text", d["aesEncrypted"].text)
  <2>1. << >> \notin {AtOpenAES, AtOpenHMAC, AtVerifyHMAC, AtDecryptAES}
    BY ReadingLeads, Zenon DEF Leads
  <2>2. QED
    BY <1>3, <2>1, Zenon DEF Opening
<1>4. AesPart(d) \in Seq(Ops)
  BY ReadingChain
<1>5. << >> \notin {AtVerifyEncrypted(AesPart(d)), AtDecryptRSA(AesPart(d)),
                    AtVerifyData(AesPart(d)), Then("decryptRSA", AesPart(d))}
  <2>1. AtVerifyData(AesPart(d)) # << >> /\ Then("decryptRSA", AesPart(d)) # << >>
    BY <1>4, ThenFacts, OpsAre DEF AtVerifyData
  <2>2. QED
    BY <1>4, <2>1, ReadingLeads, Zenon DEF Leads
<1>6. ~Deriving(SymDecrypt, << >>)
  BY DerivedLead, DerivingLeads, Zenon DEF Deriving, Leads
<1>7. \/ "aesEncrypted" \in DOMAIN d /\ Holds(held, "text", d["aesEncrypted"].text)
      \/ /\ "aesEncrypted" \notin DOMAIN d /\ "rsaEncrypted" \in DOMAIN d
         /\ Holds(held, "text", d["rsaEncrypted"])
  BY <1>2, <1>3, <1>5, <1>6, Zenon DEF Decrypting, OpeningRSA
<1>8. Sources(fn) \in SUBSET Encrypts
  BY SourcesAre, Zenon
<1>9. CASE "aesEncrypted" \in DOMAIN d /\ Holds(held, "text", d["aesEncrypted"].text)
  <2>1. PICK m \in Sent(Encrypts) : /\ \E k : d["aesEncrypted"] = Cover(m, k)
                                    /\ Message(m).aesEncrypted = d["aesEncrypted"]
    BY <1>2, <1>8, <1>9, SentValues, Zenon
  <2>2. \A k : Cover(m, k).text = m
    BY DEF Cover
  <2>3. held["text"] = m
    BY <1>9, <2>1, <2>2, Zenon DEF Holds
  <2>4. QED
    BY <1>9, <2>1, <2>3, Zenon DEF dict, bag
<1>10. CASE /\ "aesEncrypted" \notin DOMAIN d /\ "rsaEncrypted" \in DOMAIN d
            /\ Holds(held, "text", d["rsaEncrypted"])
  <2>1. PICK m \in Sent(Encrypts) : /\ "rsaEncrypted" \in DOMAIN Message(m)
                                    /\ Message(m).rsaEncrypted = d["rsaEncrypted"]
    BY <1>2, <1>8, <1>10, SentValues, Zenon
  <2>2. QED
    BY <1>10, <2>1, Zenon DEF dict, bag, Holds
<1>11. QED
  BY <1>7, <1>9, <1>10

\* What a decrypting call hands over is what a message held, for any calls,
\* functions, platforms, keys objects, passwords, lengths and parties, and
\* whatever is lost of a message or an application confuses.
THEOREM DecryptedAreSent == Spec => []DecryptedIsSent
<1> DEFINE Inv == OnceInv /\ SignInv /\ EncryptInv /\ GivenInv /\ DecryptInv
<1>1. Init => Inv
  BY OnceInit, SignInit, EncryptInit, DecryptInit
<1>2. Inv /\ [Next]_vars => Inv'
  BY OnceStep, SignStep, EncryptStep, GivenStep, DecryptStep
<1>3. Inv => DecryptedIsSent
  BY OpenedIsSent
<1>4. QED
  BY <1>1, <1>2, <1>3, PTL DEF Spec
=============================================================================
