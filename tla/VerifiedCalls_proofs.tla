------------------------ MODULE VerifiedCalls_proofs ------------------------
(***************************************************************************)
(* VerifiedIsSigned holds for any calls, platforms, keys objects and       *)
(* parties: what verifyAndDecrypt hands over was sent by the owner of the  *)
(* key, though the AES part of a message is not signed.  The signature     *)
(* binds the RSA part, the RSA part the keys, and the HMAC the AES part.   *)
(***************************************************************************)
EXTENDS CryptoCalls_proofs, SequenceTheorems

\* A call as the provers can handle it.
Rec(fn, on, args, todo, held, said, failed, threw) ==
    [fn |-> fn, on |-> on, args |-> args, todo |-> todo, bag |-> held,
     said |-> said, failed |-> failed, threw |-> threw]

\* Its members.
LEMMA RecGet ==
    ASSUME NEW fn, NEW on, NEW args, NEW todo, NEW held, NEW said, NEW failed, NEW threw,
           NEW r, r = Rec(fn, on, args, todo, held, said, failed, threw)
    PROVE  /\ r.fn = fn /\ r.on = on /\ r.args = args /\ r.todo = todo
           /\ r.bag = held /\ r.said = said /\ r.failed = failed /\ r.threw = threw
BY DEF Rec

\* Its changes.
LEMMA RecTodo ==
    ASSUME NEW fn, NEW on, NEW args, NEW todo, NEW held, NEW said, NEW failed, NEW threw,
           NEW r, r = Rec(fn, on, args, todo, held, said, failed, threw), NEW x
    PROVE  [r EXCEPT !.todo = x] = Rec(fn, on, args, x, held, said, failed, threw)
BY DEF Rec
LEMMA RecBag ==
    ASSUME NEW fn, NEW on, NEW args, NEW todo, NEW held, NEW said, NEW failed, NEW threw,
           NEW r, r = Rec(fn, on, args, todo, held, said, failed, threw), NEW x
    PROVE  [r EXCEPT !.bag = x] = Rec(fn, on, args, todo, x, said, failed, threw)
BY DEF Rec
LEMMA RecSaid ==
    ASSUME NEW fn, NEW on, NEW args, NEW todo, NEW held, NEW said, NEW failed, NEW threw,
           NEW r, r = Rec(fn, on, args, todo, held, said, failed, threw), NEW x
    PROVE  [r EXCEPT !.said = x] = Rec(fn, on, args, todo, held, x, failed, threw)
BY DEF Rec
LEMMA RecFailed ==
    ASSUME NEW fn, NEW on, NEW args, NEW todo, NEW held, NEW said, NEW failed, NEW threw,
           NEW r, r = Rec(fn, on, args, todo, held, said, failed, threw), NEW x
    PROVE  [r EXCEPT !.failed = x] = Rec(fn, on, args, todo, held, said, x, threw)
BY DEF Rec
LEMMA RecThrew ==
    ASSUME NEW fn, NEW on, NEW args, NEW todo, NEW held, NEW said, NEW failed, NEW threw,
           NEW r, r = Rec(fn, on, args, todo, held, said, failed, threw), NEW x
    PROVE  [r EXCEPT !.threw = x] = Rec(fn, on, args, todo, held, said, failed, x)
BY DEF Rec

\* What the closures hold after "new" joined them.
LEMMA WithGet ==
    ASSUME NEW new, NEW held
    PROVE  /\ DOMAIN With(new, held) = DOMAIN new \cup DOMAIN held
           /\ \A l \in DOMAIN new : With(new, held)[l] = new[l]
           /\ \A l \in DOMAIN held \ DOMAIN new : With(new, held)[l] = held[l]
BY DEF With

----------------------------------------------------------------------------
(* Where an operation leads: on, or to the end.                            *)

Same(c) ==
    /\ calls'[c].fn = calls[c].fn /\ calls'[c].args = calls[c].args
    /\ \A d \in Calls \ {c} : calls'[d] = calls[d]
Rest(c) == Unfold(Tail(calls[c].todo), cached'[KeysObject(c)])
Goes(c, new) ==
    /\ Same(c)
    /\ calls'[c].bag = With(new, calls[c].bag)
    /\ calls'[c].todo = Rest(c)
    /\ Rest(c) # << >> => calls'[c].said = << >>
    /\ Rest(c) = << >> => calls'[c].said \in {<<"ok">>, <<"ok", "error">>}
Stops(c) ==
    /\ Same(c)
    /\ calls'[c].todo = << >>
    /\ calls'[c].said \in {<< >>, <<"error">>, <<"error", "error">>}

\* A call that is replaced: the others stay.
LEMMA Replaced ==
    ASSUME OnceInv, NEW c \in Calls, NEW r, calls' = [calls EXCEPT ![c] = r]
    PROVE  calls'[c] = r /\ \A d \in Calls \ {c} : calls'[d] = calls[d]
<1>1. calls' = [d \in Calls |-> IF d = c THEN r ELSE calls[d]]
  BY DEF OnceInv
<1>2. QED
  BY <1>1

\* A callback is the end of a call.
LEMMA AnswerTo ==
    ASSUME OnceInv, NEW c \in Calls,
           NEW fn, NEW on, NEW args, NEW todo, NEW held, NEW failed, NEW threw,
           NEW what \in {"ok", "error"}, NEW fromHandler,
           AnswerWith(c, Rec(fn, on, args, todo, held, << >>, failed, threw),
                      what, fromHandler)
    PROVE  /\ calls'[c].fn = fn /\ calls'[c].args = args /\ calls'[c].bag = held
           /\ calls'[c].todo = << >> /\ calls'[c].said \in {<<what>>, <<what, "error">>}
           /\ calls'[c].failed = failed
           /\ \A d \in Calls \ {c} : calls'[d] = calls[d]
<1> DEFINE r == Rec(fn, on, args, todo, held, << >>, failed, threw)
<1>1. PICK thrown \in {FALSE} \cup {TRUE : x \in {c} \cap Careless} :
        calls' = [calls EXCEPT ![c] =
            [r EXCEPT !.todo = << >>, !.threw = thrown,
                !.said = @ \o (IF thrown /\ fromHandler /\ r.on # "oldIE"
                               THEN <<what, "error">> ELSE <<what>>)]]
  BY Zenon DEF AnswerWith
<1> DEFINE news == IF thrown /\ fromHandler /\ r.on # "oldIE"
                   THEN <<what, "error">> ELSE <<what>>
           r1 == [r EXCEPT !.todo = << >>]
           r2 == [r1 EXCEPT !.threw = thrown]
           r3 == [r2 EXCEPT !.said = r.said \o news]
<1>2. calls' = [calls EXCEPT ![c] = r3]
  BY <1>1, Zenon
<1>3. news \in {<<what>>, <<what, "error">>}
  OBVIOUS
<1>4. <<what>> \in Seq({what, "error"}) /\ <<what, "error">> \in Seq({what, "error"})
  OBVIOUS
<1> HIDE DEF news
<1>5. << >> \o news = news
  BY <1>3, <1>4
<1>6. r.said = << >>
  BY RecGet
<1>7. r1 = Rec(fn, on, args, << >>, held, << >>, failed, threw)
  BY RecTodo
<1> HIDE DEF r, r1
<1>8. r2 = Rec(fn, on, args, << >>, held, << >>, failed, thrown)
  BY <1>7, RecThrew
<1> HIDE DEF r2
<1>11. r3 = Rec(fn, on, args, << >>, held, news, failed, thrown)
  BY <1>5, <1>6, <1>8, RecSaid
<1> HIDE DEF r3
<1>9. calls'[c] = r3 /\ \A d \in Calls \ {c} : calls'[d] = calls[d]
  BY <1>2, Replaced
<1>10. QED
  <2>1. /\ calls'[c].fn = fn /\ calls'[c].args = args /\ calls'[c].bag = held
        /\ calls'[c].todo = << >> /\ calls'[c].said = news /\ calls'[c].failed = failed
    BY <1>9, <1>11, RecGet
  <2>2. QED
    BY <1>3, <1>9, <2>1, Zenon

\* A call that goes on keeps what it holds and adds to it.
LEMMA ProceedTo ==
    ASSUME OnceInv, NEW c \in Calls, calls[c].todo # << >>, NEW new, Proceed(c, new)
    PROVE  Goes(c, new)
<1>1. Shaped(calls[c]) /\ calls[c].said = << >>
  BY OpenHasNotSaid, Zenon
<1>2. PICK fn, on, args, todo, held, said, failed, threw :
        calls[c] = Rec(fn, on, args, todo, held, said, failed, threw)
  BY <1>1, Zenon DEF Shaped, Rec
<1>3. /\ calls[c].fn = fn /\ calls[c].on = on /\ calls[c].args = args
      /\ calls[c].todo = todo /\ calls[c].bag = held /\ said = << >>
  BY <1>1, <1>2, RecGet
<1> DEFINE rest == Rest(c)
           call1 == [calls[c] EXCEPT !.todo = rest]
           call == [call1 EXCEPT !.bag = With(new, calls[c].bag)]
<1>4. /\ rest = << >> => AnswerWith(c, call, "ok", TRUE)
      /\ rest # << >> => calls' = [calls EXCEPT ![c] = call]
  BY Zenon DEF Proceed, Rest
<1> HIDE DEF rest
<1>5. call = Rec(fn, on, args, rest, With(new, held), << >>, failed, threw)
  <2>1. call1 = Rec(fn, on, args, rest, held, << >>, failed, threw)
    BY <1>2, <1>3, RecTodo
  <2> HIDE DEF call1
  <2>2. QED
    BY <1>3, <2>1, RecBag
<1> HIDE DEF call
<1>6. CASE rest = << >>
  <2>1. AnswerWith(c, Rec(fn, on, args, rest, With(new, held), << >>, failed, threw),
                   "ok", TRUE)
    BY <1>4, <1>5, <1>6, Zenon
  <2>2. /\ calls'[c].fn = fn /\ calls'[c].args = args /\ calls'[c].bag = With(new, held)
        /\ calls'[c].todo = << >> /\ calls'[c].said \in {<<"ok">>, <<"ok", "error">>}
        /\ \A d \in Calls \ {c} : calls'[d] = calls[d]
    BY <2>1, AnswerTo
  <2>3. QED
    BY <1>3, <1>6, <2>2, Zenon DEF Goes, Same, rest
<1>7. CASE rest # << >>
  <2>1. calls'[c] = call /\ \A d \in Calls \ {c} : calls'[d] = calls[d]
    BY <1>4, <1>7, Replaced
  <2>2. /\ calls'[c].fn = fn /\ calls'[c].args = args /\ calls'[c].bag = With(new, held)
        /\ calls'[c].todo = rest /\ calls'[c].said = << >>
    BY <1>5, <2>1, RecGet
  <2>3. QED
    BY <1>3, <1>7, <2>1, <2>2, Zenon DEF Goes, Same, rest
<1>8. QED
  BY <1>6, <1>7

\* An operation that was rejected or refused, or misused, ends its call.
LEMMA StopTo ==
    ASSUME OnceInv, NEW c \in Calls, calls[c].todo # << >>,
           \/ \E ownReason : Rejected(c, ownReason)
           \/ Refused(c) \/ Misused(c)
    PROVE  Stops(c)
<1>1. Shaped(calls[c]) /\ calls[c].said = << >>
  BY OpenHasNotSaid, Zenon
<1>2. PICK fn, on, args, todo, held, said, failed, threw :
        calls[c] = Rec(fn, on, args, todo, held, said, failed, threw)
  BY <1>1, Zenon DEF Shaped, Rec
<1>3. calls[c].fn = fn /\ calls[c].args = args /\ said = << >>
  BY <1>1, <1>2, RecGet
<1>4. ASSUME NEW x, NEW fh, AnswerWith(c, Rec(fn, on, args, todo, << >>, << >>, x, threw),
                               "error", fh)
      PROVE  Stops(c)
  <2>1. /\ calls'[c].fn = fn /\ calls'[c].args = args
        /\ calls'[c].todo = << >> /\ calls'[c].said \in {<<"error">>, <<"error", "error">>}
        /\ \A d \in Calls \ {c} : calls'[d] = calls[d]
    BY <1>4, AnswerTo
  <2>2. QED
    BY <1>3, <2>1, Zenon DEF Stops, Same
<1>5. ASSUME NEW ownReason, Rejected(c, ownReason)
      PROVE  Stops(c)
  <2> DEFINE r1 == [calls[c] EXCEPT !.failed = ownReason]
             r == [r1 EXCEPT !.bag = << >>]
  <2>1. AnswerWith(c, r, "error", FALSE)
    BY <1>5, Zenon DEF Rejected
  <2>2. r1 = Rec(fn, on, args, todo, held, << >>, ownReason, threw)
    BY <1>2, <1>3, RecFailed
  <2> HIDE DEF r1
  <2>3. r = Rec(fn, on, args, todo, << >>, << >>, ownReason, threw)
    BY <2>2, RecBag
  <2> HIDE DEF r
  <2>4. QED
    BY <1>4, <2>1, <2>3, Zenon
<1>6. CASE Refused(c)
  <2> DEFINE r == [calls[c] EXCEPT !.bag = << >>]
  <2>1. AnswerWith(c, r, "error", TRUE)
    BY <1>6, Zenon DEF Refused
  <2>2. r = Rec(fn, on, args, todo, << >>, << >>, failed, threw)
    BY <1>2, <1>3, RecBag
  <2> HIDE DEF r
  <2>3. QED
    BY <1>4, <2>1, <2>2, Zenon
<1>7. CASE Misused(c)
  <2> DEFINE r1 == [calls[c] EXCEPT !.todo = << >>]
             r == [r1 EXCEPT !.bag = << >>]
  <2>1. CASE calls' = [calls EXCEPT ![c] = r]
    <3>0. r1 = Rec(fn, on, args, << >>, held, << >>, failed, threw)
      BY <1>2, <1>3, RecTodo
    <3> HIDE DEF r1
    <3>1. r = Rec(fn, on, args, << >>, << >>, << >>, failed, threw)
      BY <3>0, RecBag
    <3> HIDE DEF r
    <3>2. calls'[c] = r /\ \A d \in Calls \ {c} : calls'[d] = calls[d]
      BY <2>1, Replaced
    <3>3. /\ calls'[c].fn = fn /\ calls'[c].args = args
          /\ calls'[c].todo = << >> /\ calls'[c].said = << >>
      BY <3>1, <3>2, RecGet
    <3>4. QED
      BY <1>3, <3>2, <3>3, Zenon DEF Stops, Same
  <2>2. CASE Rejected(c, FALSE)
    BY <1>5, <2>2
  <2>3. QED
    BY <1>7, <2>1, <2>2, Zenon DEF Misused
<1>8. QED
  BY <1>5, <1>6, <1>7

----------------------------------------------------------------------------
(* The chains, an operation at a time.                                     *)

Then(op, rest) == <<op>> \o rest

\* The operations of the two chains.
Ops == {"generateKeyAES", "generateKeyHMAC", "exportKeyAES", "exportKeyHMAC",
        "importKeyAES", "importKeyHMAC", "importKeys", "encryptAES", "signHMAC",
        "encryptRSA", "signData", "signEncrypted", "verifyEncrypted", "decryptRSA",
        "verifyData", "verifyHMAC", "decryptAES"}
LEMMA OpsAre ==
    /\ "generateKeyAES" \in Ops /\ "generateKeyHMAC" \in Ops /\ "exportKeyAES" \in Ops
    /\ "exportKeyHMAC" \in Ops /\ "importKeyAES" \in Ops /\ "importKeyHMAC" \in Ops
    /\ "importKeys" \in Ops /\ "encryptAES" \in Ops /\ "signHMAC" \in Ops
    /\ "encryptRSA" \in Ops /\ "signData" \in Ops /\ "signEncrypted" \in Ops
    /\ "verifyEncrypted" \in Ops /\ "decryptRSA" \in Ops /\ "verifyData" \in Ops
    /\ "verifyHMAC" \in Ops /\ "decryptAES" \in Ops
BY DEF Ops

LEMMA ThenFacts ==
    ASSUME NEW op \in Ops, NEW rest \in Seq(Ops)
    PROVE  /\ Then(op, rest) \in Seq(Ops) /\ Then(op, rest) # << >>
           /\ Head(Then(op, rest)) = op /\ Tail(Then(op, rest)) = rest
<1>1. <<op>> \o rest \in Seq(Ops) /\ <<op>> \o rest # << >>
  OBVIOUS
<1>2. Head(<<op>> \o rest) = op
  OBVIOUS
<1>3. Tail(<<op>> \o rest) = rest
  OBVIOUS
<1>4. QED
  BY <1>1, <1>2, <1>3 DEF Then

\* \o, out of the sight of the provers.
Cat(x, y) == x \o y
LEMMA CatFacts ==
    ASSUME NEW x \in Seq(Ops), NEW y \in Seq(Ops), NEW z \in Seq(Ops)
    PROVE  Cat(x, y) \in Seq(Ops) /\ Cat(Cat(x, y), z) = Cat(x, Cat(y, z))
BY DEF Cat

LEMMA ThenConcat ==
    ASSUME NEW op \in Ops, NEW first \in Seq(Ops), NEW second \in Seq(Ops)
    PROVE  Then(op, first) \o second = Then(op, first \o second)
<1>1. <<op>> \in Seq(Ops)
  OBVIOUS
<1>2. (<<op>> \o first) \o second = <<op>> \o (first \o second)
  BY <1>1
<1>3. QED
  BY <1>2 DEF Then

\* importKeys is replaced, any other operation stays.
LEMMA UnfoldFacts ==
    ASSUME NEW op \in Ops, NEW rest \in Seq(Ops), NEW objects
    PROVE  /\ Unfold(<< >>, objects) = << >>
           /\ op # "importKeys" => Unfold(Then(op, rest), objects) = Then(op, rest)
           /\ Unfold(Then("importKeys", rest), objects)
                \in {rest, Then("importKeyAES", Then("importKeyHMAC", rest))}
<1>1. Unfold(<< >>, objects) = << >>
  BY DEF Unfold
<1>2. op # "importKeys" => Unfold(Then(op, rest), objects) = Then(op, rest)
  BY ThenFacts, OpsAre DEF Unfold
<1>3. Unfold(Then("importKeys", rest), objects)
        \in {rest, <<"importKeyAES", "importKeyHMAC">> \o rest}
  BY ThenFacts, OpsAre DEF Unfold
<1>4. /\ <<"importKeyAES", "importKeyHMAC">> = <<"importKeyAES">> \o <<"importKeyHMAC">>
      /\ <<"importKeyAES">> \in Seq(Ops) /\ <<"importKeyHMAC">> \in Seq(Ops)
  BY OpsAre
<1>5. (<<"importKeyAES">> \o <<"importKeyHMAC">>) \o rest
        = <<"importKeyAES">> \o (<<"importKeyHMAC">> \o rest)
  BY <1>4
<1>6. QED
  BY <1>1, <1>2, <1>3, <1>4, <1>5 DEF Then

\* encryptAndSign, from each of its operations on.
AtSignEncrypted == Then("signEncrypted", << >>)
AtSignData == Then("signData", AtSignEncrypted)
AtEncryptRSA == Then("encryptRSA", AtSignData)
AtSignHMAC == Then("signHMAC", AtEncryptRSA)
AtEncryptAES == Then("encryptAES", AtSignHMAC)
AtCacheHMAC == Then("importKeyHMAC", AtEncryptAES)
AtCacheAES == Then("importKeyAES", AtCacheHMAC)
AtImportKeys == Then("importKeys", AtEncryptAES)
AtImportHMAC == Then("importKeyHMAC", AtImportKeys)
AtImportAES == Then("importKeyAES", AtImportHMAC)
AtExportHMAC == Then("exportKeyHMAC", AtImportAES)
AtExportAES == Then("exportKeyAES", AtExportHMAC)
AtGenerateHMAC == Then("generateKeyHMAC", AtExportAES)
AtGenerateAES == Then("generateKeyAES", AtGenerateHMAC)

\* verifyAndDecrypt, likewise; "part" is what decrypts the AES part.
AtDecryptAES == Then("decryptAES", << >>)
AtVerifyHMAC == Then("verifyHMAC", AtDecryptAES)
AtOpenHMAC == Then("importKeyHMAC", AtVerifyHMAC)
AtOpenAES == Then("importKeyAES", AtOpenHMAC)
AtVerifyData(part) == Then("verifyData", part)
AtDecryptRSA(part) == Then("decryptRSA", AtVerifyData(part))
AtVerifyEncrypted(part) == Then("verifyEncrypted", AtDecryptRSA(part))

LEMMA SigningChains ==
    /\ AtSignEncrypted \in Seq(Ops) /\ AtSignData \in Seq(Ops)
    /\ AtEncryptRSA \in Seq(Ops) /\ AtSignHMAC \in Seq(Ops)
    /\ AtEncryptAES \in Seq(Ops) /\ AtCacheHMAC \in Seq(Ops)
    /\ AtCacheAES \in Seq(Ops) /\ AtImportKeys \in Seq(Ops)
    /\ AtImportHMAC \in Seq(Ops) /\ AtImportAES \in Seq(Ops)
    /\ AtExportHMAC \in Seq(Ops) /\ AtExportAES \in Seq(Ops)
    /\ AtGenerateHMAC \in Seq(Ops) /\ AtGenerateAES \in Seq(Ops)
<1>0. << >> \in Seq(Ops)
  OBVIOUS
<1>1. AtSignEncrypted \in Seq(Ops)
  BY <1>0, ThenFacts, OpsAre DEF AtSignEncrypted
<1>2. AtSignData \in Seq(Ops)
  BY <1>1, ThenFacts, OpsAre DEF AtSignData
<1>3. AtEncryptRSA \in Seq(Ops)
  BY <1>2, ThenFacts, OpsAre DEF AtEncryptRSA
<1>4. AtSignHMAC \in Seq(Ops)
  BY <1>3, ThenFacts, OpsAre DEF AtSignHMAC
<1>5. AtEncryptAES \in Seq(Ops)
  BY <1>4, ThenFacts, OpsAre DEF AtEncryptAES
<1>6. AtCacheHMAC \in Seq(Ops) /\ AtImportKeys \in Seq(Ops)
  BY <1>5, ThenFacts, OpsAre DEF AtCacheHMAC, AtImportKeys
<1>7. AtCacheAES \in Seq(Ops)
  BY <1>6, ThenFacts, OpsAre DEF AtCacheAES
<1>8. AtImportHMAC \in Seq(Ops)
  BY <1>6, ThenFacts, OpsAre DEF AtImportHMAC
<1>9. AtImportAES \in Seq(Ops)
  BY <1>8, ThenFacts, OpsAre DEF AtImportAES
<1>10. AtExportHMAC \in Seq(Ops)
  BY <1>9, ThenFacts, OpsAre DEF AtExportHMAC
<1>11. AtExportAES \in Seq(Ops)
  BY <1>10, ThenFacts, OpsAre DEF AtExportAES
<1>12. AtGenerateHMAC \in Seq(Ops)
  BY <1>11, ThenFacts, OpsAre DEF AtGenerateHMAC
<1>13. AtGenerateAES \in Seq(Ops)
  BY <1>12, ThenFacts, OpsAre DEF AtGenerateAES
<1>14. QED
  BY <1>1, <1>2, <1>3, <1>4, <1>5, <1>6, <1>7, <1>8, <1>9, <1>10, <1>11, <1>12, <1>13

\* The chain of encryptAndSign begins with the keys, however short the content:
\* rsaEncryptMax subtracts twice the bits of a hash, not its bytes.
LEMMA SigningChain ==
    ASSUME NEW length \in Nat
    PROVE  EncryptAndSign(length) = AtGenerateAES
<1> DEFINE signs == <<"signData", "signEncrypted">>
           rsa == <<"encryptRSA">>
           sym == <<"encryptAES", "signHMAC">>
<1>1. rsa \o signs = AtEncryptRSA
  <2>1. signs = AtSignData
    BY DEF AtSignData, AtSignEncrypted, Then
  <2>2. QED
    BY <2>1 DEF AtEncryptRSA, Then
<1>3. /\ signs \in Seq(Ops) /\ rsa \in Seq(Ops) /\ sym \in Seq(Ops)
      /\ SymGenerateKeys \in Seq(Ops) /\ <<"importKeys">> \in Seq(Ops)
  BY OpsAre DEF SymGenerateKeys
<1>4. SymEncrypt = <<"importKeys">> \o sym
  BY DEF SymEncrypt, ImportKeys
<1>5. sym \o AtEncryptRSA = AtEncryptAES
  <2>1. sym = Then("encryptAES", <<"signHMAC">>)
    BY DEF Then
  <2>2. <<"signHMAC">> \in Seq(Ops) /\ "encryptAES" \in Ops
    BY OpsAre
  <2>5. AtEncryptRSA \in Seq(Ops)
    BY SigningChains
  <2>3. sym \o AtEncryptRSA = Then("encryptAES", <<"signHMAC">> \o AtEncryptRSA)
    <3>1. Then("encryptAES", <<"signHMAC">>) \o AtEncryptRSA
            = Then("encryptAES", <<"signHMAC">> \o AtEncryptRSA)
      BY <2>2, <2>5, ThenConcat
    <3> HIDE DEF sym
    <3>2. QED
      BY <2>1, <3>1, Zenon
  <2>4. QED
    BY <2>3 DEF AtEncryptAES, AtSignHMAC, Then
<1> HIDE DEF signs, rsa, sym
<1>6. ((SymGenerateKeys \o SymEncrypt) \o rsa) \o signs
        = SymGenerateKeys \o (<<"importKeys">> \o (sym \o (rsa \o signs)))
  <2> DEFINE ikeys == <<"importKeys">>
             sgk == SymGenerateKeys
  <2>1. /\ ikeys \in Seq(Ops) /\ sgk \in Seq(Ops) /\ sym \in Seq(Ops)
        /\ rsa \in Seq(Ops) /\ signs \in Seq(Ops)
    BY <1>3
  <2> HIDE DEF ikeys, sgk
  <2>2. Cat(Cat(Cat(sgk, Cat(ikeys, sym)), rsa), signs)
            = Cat(sgk, Cat(ikeys, Cat(sym, Cat(rsa, signs))))
    BY <2>1, CatFacts
  <2>3. QED
    BY <1>4, <2>2, Zenon DEF Cat, ikeys, sgk
<1>7. SymGenerateKeys \o AtImportKeys = AtGenerateAES
  <2> DEFINE none == << >>
             h == Then("importKeyHMAC", none)
             a == Then("importKeyAES", h)
             eh == Then("exportKeyHMAC", a)
             ea == Then("exportKeyAES", eh)
             gh == Then("generateKeyHMAC", ea)
  <2>1. SymGenerateKeys = Then("generateKeyAES", gh)
    BY DEF SymGenerateKeys, Then
  <2>9. AtImportKeys \in Seq(Ops)
    BY SigningChains
  <2>2. none \in Seq(Ops) /\ none \o AtImportKeys = AtImportKeys
    BY SigningChains
  <2> HIDE DEF none
  <2>3. h \in Seq(Ops) /\ h \o AtImportKeys = AtImportHMAC
    <3>1. "importKeyHMAC" \in Ops
      BY OpsAre
    <3>2. h \in Seq(Ops)
      BY <2>2, <3>1, ThenFacts, Zenon
    <3>3. h \o AtImportKeys = Then("importKeyHMAC", none \o AtImportKeys)
      BY <2>2, <2>9, <3>1, ThenConcat, Zenon
    <3>4. QED
      BY <2>2, <3>2, <3>3, Zenon DEF AtImportHMAC
  <2> HIDE DEF h
  <2>4. a \in Seq(Ops) /\ a \o AtImportKeys = AtImportAES
    <3>1. "importKeyAES" \in Ops
      BY OpsAre
    <3>2. QED
      BY <2>3, <2>9, <3>1, ThenFacts, ThenConcat, Zenon DEF AtImportAES
  <2> HIDE DEF a
  <2>5. eh \in Seq(Ops) /\ eh \o AtImportKeys = AtExportHMAC
    <3>1. "exportKeyHMAC" \in Ops
      BY OpsAre
    <3>2. QED
      BY <2>4, <2>9, <3>1, ThenFacts, ThenConcat, Zenon DEF AtExportHMAC
  <2> HIDE DEF eh
  <2>6. ea \in Seq(Ops) /\ ea \o AtImportKeys = AtExportAES
    <3>1. "exportKeyAES" \in Ops
      BY OpsAre
    <3>2. QED
      BY <2>5, <2>9, <3>1, ThenFacts, ThenConcat, Zenon DEF AtExportAES
  <2> HIDE DEF ea
  <2>7. gh \in Seq(Ops) /\ gh \o AtImportKeys = AtGenerateHMAC
    <3>1. "generateKeyHMAC" \in Ops
      BY OpsAre
    <3>2. QED
      BY <2>6, <2>9, <3>1, ThenFacts, ThenConcat, Zenon DEF AtGenerateHMAC
  <2> HIDE DEF gh
  <2>8. QED
    <3>1. "generateKeyAES" \in Ops
      BY OpsAre
    <3>2. QED
      BY <2>1, <2>7, <2>9, <3>1, ThenConcat, Zenon DEF AtGenerateAES
<1>8. rsaEncryptMax < 0
  BY DEF rsaEncryptMax, RsaLength, HmacLength
<1>9. ExtendData(length) = GenKeysAndEncrypt
  <2> HIDE DEF rsaEncryptMax
  <2>1. rsaEncryptMax \in Int
    BY DEF rsaEncryptMax, RsaLength, HmacLength
  <2>2. QED
    BY <1>8, <2>1 DEF ExtendData
<1>10. QED
  BY <1>1, <1>5, <1>6, <1>7, <1>9
  DEF EncryptAndSign, AsymEncrypt, GenKeysAndEncrypt, AtImportKeys, Then, rsa, signs

\* The chain of verifyAndDecrypt.
LEMMA ReadingChains ==
    /\ AtDecryptAES \in Seq(Ops) /\ AtVerifyHMAC \in Seq(Ops)
    /\ AtOpenHMAC \in Seq(Ops) /\ AtOpenAES \in Seq(Ops)
    /\ SymDecrypt = Then("importKeys", AtVerifyHMAC) /\ SymDecrypt \in Seq(Ops)
    /\ \A part \in Seq(Ops) :
        /\ AtVerifyData(part) \in Seq(Ops) /\ AtDecryptRSA(part) \in Seq(Ops)
        /\ AtVerifyEncrypted(part) \in Seq(Ops)
<1>0. << >> \in Seq(Ops)
  OBVIOUS
<1>1. AtDecryptAES \in Seq(Ops)
  BY <1>0, ThenFacts, OpsAre DEF AtDecryptAES
<1>2. AtVerifyHMAC \in Seq(Ops)
  BY <1>1, ThenFacts, OpsAre DEF AtVerifyHMAC
<1>3. AtOpenHMAC \in Seq(Ops)
  BY <1>2, ThenFacts, OpsAre DEF AtOpenHMAC
<1>4. AtOpenAES \in Seq(Ops)
  BY <1>3, ThenFacts, OpsAre DEF AtOpenAES
<1>5. <<"verifyHMAC", "decryptAES">> = AtVerifyHMAC
  BY DEF AtVerifyHMAC, AtDecryptAES, Then
<1>6. SymDecrypt = Then("importKeys", AtVerifyHMAC)
  BY <1>5 DEF SymDecrypt, ImportKeys, Then
<1>7. SymDecrypt \in Seq(Ops)
  BY <1>2, <1>6, ThenFacts, OpsAre
<1>8. ASSUME NEW part \in Seq(Ops)
      PROVE  /\ AtVerifyData(part) \in Seq(Ops) /\ AtDecryptRSA(part) \in Seq(Ops)
             /\ AtVerifyEncrypted(part) \in Seq(Ops)
  <2>1. AtVerifyData(part) \in Seq(Ops)
    BY ThenFacts, OpsAre DEF AtVerifyData
  <2>2. AtDecryptRSA(part) \in Seq(Ops)
    BY <2>1, ThenFacts, OpsAre DEF AtDecryptRSA
  <2>3. QED
    BY <2>1, <2>2, ThenFacts, OpsAre DEF AtVerifyEncrypted
<1>9. QED
  BY <1>1, <1>2, <1>3, <1>4, <1>6, <1>7, <1>8

LEMMA ReadingChain ==
    ASSUME NEW d
    PROVE  /\ AesPart(d) \in Seq(Ops)
           /\ VerifyAndDecrypt(d) = AtVerifyEncrypted(AesPart(d))
<1>1. AesPart(d) \in Seq(Ops)
  BY ReadingChains DEF AesPart
<1> DEFINE part == AesPart(d)
<1>2. VerifyAndDecrypt(d) = <<"verifyEncrypted", "decryptRSA", "verifyData">> \o part
  BY DEF VerifyAndDecrypt
<1>3. <<"verifyEncrypted", "decryptRSA", "verifyData">>
        = <<"verifyEncrypted">> \o (<<"decryptRSA">> \o <<"verifyData">>)
  OBVIOUS
<1> HIDE DEF part
<1>4. (<<"verifyEncrypted">> \o (<<"decryptRSA">> \o <<"verifyData">>)) \o part
        = <<"verifyEncrypted">> \o (<<"decryptRSA">> \o (<<"verifyData">> \o part))
  BY <1>1 DEF part
<1>5. QED
  BY <1>1, <1>2, <1>3, <1>4 DEF part, AtVerifyEncrypted, AtDecryptRSA, AtVerifyData, Then

----------------------------------------------------------------------------
(* What each operation does to its call.                                   *)

GoesWithKeys(c, payload) ==
    \/ /\ Tail(calls[c].todo) # SymDecrypt
       /\ Goes(c, [payload |-> payload, text |-> payload])
    \/ /\ Tail(calls[c].todo) = SymDecrypt
       /\ payload.length = CombinedLength
       /\ Goes(c, [payload |-> payload, aesKey |-> payload.keys[1],
                   hmacKey |-> payload.keys[2]])
Turn(c, op) ==
    \/ op = "generateKeyAES" /\ Goes(c, [aesKey |-> <<"keys", c>>])
    \/ op = "generateKeyHMAC" /\ Goes(c, [hmacKey |-> <<"keys", c>>])
    \/ /\ op \in {"exportKeyAES", "exportKeyHMAC", "importKeyAES", "importKeyHMAC",
                  "verifyEncrypted"}
       /\ Goes(c, << >>)
    \/ /\ op = "encryptAES"
       /\ Goes(c, [aesEncrypted |-> [key |-> bag(c).aesKey, text |-> c]])
    \/ /\ op = "signHMAC"
       /\ Goes(c, [hmac |-> [key |-> bag(c).hmacKey, over |-> bag(c).aesEncrypted]])
    \/ op = "encryptRSA" /\ Goes(c, [rsaEncrypted |-> ToRsa(c)])
    \/ /\ op = "signData"
       /\ Goes(c, [signatureOfData |-> [by |-> calls[c].args.signer, over |-> ToRsa(c)]])
    \/ /\ op = "signEncrypted"
       /\ Goes(c, [signatureOfEncrypted |->
                    [by |-> calls[c].args.signer, over |-> <<bag(c).rsaEncrypted>>]])
    \/ /\ op = "decryptRSA" /\ "rsaEncrypted" \in DOMAIN dict(c)
       /\ GoesWithKeys(c, dict(c).rsaEncrypted)
    \/ /\ op = "verifyData" /\ "signatureOfData" \in DOMAIN dict(c)
       /\ dict(c).signatureOfData =
            [by |-> calls[c].args.signer, over |-> bag(c).payload]
       /\ GoesWithKeys(c, bag(c).payload)
    \/ /\ op = "verifyHMAC" /\ {"hmac", "aesEncrypted"} \subseteq DOMAIN dict(c)
       /\ dict(c).hmac = [key |-> bag(c).hmacKey, over |-> dict(c).aesEncrypted]
       /\ Goes(c, << >>)
    \/ /\ op = "decryptAES"
       /\ \/ /\ dict(c).aesEncrypted.key = bag(c).aesKey
             /\ Goes(c, [text |-> dict(c).aesEncrypted.text])
          \/ /\ dict(c).aesEncrypted.key # bag(c).aesKey
             /\ Goes(c, [text |-> "garbage"])
    \/ op \notin Ops /\ Same(c)

\* What aesDecrypt makes of the RSA part.
LEMMA KeysTaken ==
    ASSUME OnceInv, NEW c \in Calls, calls[c].todo # << >>, NEW payload,
           ProceedWithKeys(c, payload)
    PROVE  Stops(c) \/ GoesWithKeys(c, payload)
<1>1. CASE Tail(calls[c].todo) # SymDecrypt
  <2>1. Proceed(c, [payload |-> payload, text |-> payload])
    BY <1>1, Zenon DEF ProceedWithKeys
  <2>2. QED
    BY <1>1, <2>1, ProceedTo, Zenon DEF GoesWithKeys
<1>2. CASE Tail(calls[c].todo) = SymDecrypt /\ payload.length # CombinedLength
  BY <1>2, StopTo, Zenon DEF ProceedWithKeys
<1>3. CASE Tail(calls[c].todo) = SymDecrypt /\ payload.length = CombinedLength
  <2>1. Proceed(c, [payload |-> payload, aesKey |-> payload.keys[1],
                    hmacKey |-> payload.keys[2]])
    BY <1>3, Zenon DEF ProceedWithKeys
  <2>2. QED
    BY <1>3, <2>1, ProceedTo, Zenon DEF GoesWithKeys
<1>4. QED
  BY <1>1, <1>2, <1>3, Zenon

\* A call that only goes to other operations or to another bag.
LEMMA Changed ==
    ASSUME OnceInv, NEW c \in Calls, calls[c].todo # << >>, NEW x,
           \/ calls' = [calls EXCEPT ![c] = [calls[c] EXCEPT !.todo = x]]
           \/ calls' = [calls EXCEPT ![c] = [calls[c] EXCEPT !.bag = x]]
    PROVE  Same(c)
<1>1. PICK fn, on, args, todo, held, said, failed, threw :
        calls[c] = Rec(fn, on, args, todo, held, said, failed, threw)
  BY OpenHasNotSaid, Zenon DEF Shaped, Rec
<1> DEFINE r1 == [calls[c] EXCEPT !.todo = x]
           r2 == [calls[c] EXCEPT !.bag = x]
<1>2. /\ r1 = Rec(fn, on, args, x, held, said, failed, threw)
      /\ r2 = Rec(fn, on, args, todo, x, said, failed, threw)
  BY <1>1, RecTodo, RecBag
<1> HIDE DEF r1, r2
<1>3. /\ r1.fn = calls[c].fn /\ r1.args = calls[c].args
      /\ r2.fn = calls[c].fn /\ r2.args = calls[c].args
  BY <1>1, <1>2, RecGet
<1>4. PICK r \in {r1, r2} : calls' = [calls EXCEPT ![c] = r]
  BY Zenon DEF r1, r2
<1>5. calls'[c] = r /\ \A d \in Calls \ {c} : calls'[d] = calls[d]
  BY <1>4, Replaced, Zenon
<1>6. QED
  BY <1>3, <1>4, <1>5, Zenon DEF Same

\* What any operation does to its call: it ends it, or what the code says.
LEMMA Turns ==
    ASSUME OnceInv, NEW c \in Calls, Settles(c)
    PROVE  /\ calls[c].todo # << >>
           /\ Stops(c) \/ Turn(c, Head(calls[c].todo))
<1> DEFINE op == Head(calls[c].todo)
           Done == calls[c].todo # << >> /\ (Stops(c) \/ Turn(c, op))
<1>0. ASSUME NEW o, Pending(c, o) PROVE calls[c].todo # << >> /\ op = o
  BY <1>0, Zenon DEF Pending
<1>1. ASSUME generateKeyAES(c) PROVE Done
  <2>1. calls[c].todo # << >> /\ op = "generateKeyAES"
    BY <1>0, <1>1, Zenon DEF generateKeyAES, Does
  <2>2. RawKeys(c).aesKey = <<"keys", c>>
    BY DEF RawKeys
  <2>3. Goes(c, [aesKey |-> <<"keys", c>>])
    BY <1>1, <2>1, <2>2, ProceedTo, Zenon DEF generateKeyAES, Does
  <2>4. QED
    BY <2>1, <2>3, Zenon DEF Turn
<1>2. ASSUME generateKeyHMAC(c) PROVE Done
  <2>1. calls[c].todo # << >> /\ op = "generateKeyHMAC"
    BY <1>0, <1>2, Zenon DEF generateKeyHMAC, Does
  <2>2. RawKeys(c).hmacKey = <<"keys", c>>
    BY DEF RawKeys
  <2>3. Goes(c, [hmacKey |-> <<"keys", c>>])
    BY <1>2, <2>1, <2>2, ProceedTo, Zenon DEF generateKeyHMAC, Does
  <2>4. QED
    BY <2>1, <2>3, Zenon DEF Turn
<1>3. ASSUME symExportKey(c) PROVE Done
  <2>1. PICK o \in {"exportKeyAES", "exportKeyHMAC"} : Does(c, o) /\ Proceed(c, << >>)
    BY <1>3, Zenon DEF symExportKey
  <2>2. calls[c].todo # << >> /\ op = o
    BY <1>0, <2>1, Zenon DEF Does
  <2>3. Goes(c, << >>)
    BY <2>1, <2>2, ProceedTo, Zenon
  <2>4. QED
    BY <2>2, <2>3, Zenon DEF Turn
<1>4. ASSUME importKeyAES(c) \/ importKeyHMAC(c) PROVE Done
  <2>1. PICK o \in {"importKeyAES", "importKeyHMAC"} : Pending(c, o) /\ Proceed(c, << >>)
    BY <1>4, Zenon DEF importKeyAES, importKeyHMAC, importKey
  <2>2. calls[c].todo # << >> /\ op = o
    BY <1>0, <2>1, Zenon
  <2>3. Goes(c, << >>)
    BY <2>1, <2>2, ProceedTo, Zenon
  <2>4. QED
    BY <2>2, <2>3, Zenon DEF Turn
<1>5. ASSUME encryptAES(c) PROVE Done
  <2>1. calls[c].todo # << >> /\ op = "encryptAES"
    BY <1>0, <1>5, Zenon DEF encryptAES, Does
  <2>2. \/ Misused(c)
        \/ Proceed(c, [aesEncrypted |-> [key |-> bag(c).aesKey, text |-> c]])
    BY <1>5, Zenon DEF encryptAES
  <2>3. QED
    BY <2>1, <2>2, ProceedTo, StopTo, Zenon DEF Turn
<1>6. ASSUME signHMAC(c) PROVE Done
  <2>1. calls[c].todo # << >> /\ op = "signHMAC"
    BY <1>0, <1>6, Zenon DEF signHMAC, Does
  <2>2. \/ Misused(c)
        \/ Proceed(c, [hmac |-> [key |-> bag(c).hmacKey, over |-> bag(c).aesEncrypted]])
    BY <1>6, Zenon DEF signHMAC
  <2>3. QED
    BY <2>1, <2>2, ProceedTo, StopTo, Zenon DEF Turn
<1>7. ASSUME verifyHMAC(c) PROVE Done
  <2>1. calls[c].todo # << >> /\ op = "verifyHMAC"
    BY <1>0, <1>7, Zenon DEF verifyHMAC, Does
  <2>2. \/ Misused(c) \/ Refused(c)
        \/ /\ {"hmac", "aesEncrypted"} \subseteq DOMAIN dict(c)
           /\ dict(c).hmac = [key |-> bag(c).hmacKey, over |-> dict(c).aesEncrypted]
           /\ Proceed(c, << >>)
    BY <1>7, Zenon DEF verifyHMAC, Lacks
  <2>3. QED
    BY <2>1, <2>2, ProceedTo, StopTo, Zenon DEF Turn
<1>8. ASSUME decryptAES(c) PROVE Done
  <2>1. calls[c].todo # << >> /\ op = "decryptAES"
    BY <1>0, <1>8, Zenon DEF decryptAES, Does
  <2>2. \/ Misused(c) \/ Rejected(c, FALSE)
        \/ /\ dict(c).aesEncrypted.key = bag(c).aesKey
           /\ Proceed(c, [text |-> dict(c).aesEncrypted.text])
        \/ /\ dict(c).aesEncrypted.key # bag(c).aesKey
           /\ Proceed(c, [text |-> "garbage"])
    BY <1>8, Zenon DEF decryptAES
  <2>3. QED
    BY <2>1, <2>2, ProceedTo, StopTo, Zenon DEF Turn
<1>9. ASSUME encryptRSA(c) PROVE Done
  <2>1. calls[c].todo # << >> /\ op = "encryptRSA"
    BY <1>0, <1>9, Zenon DEF encryptRSA, Does
  <2>2. Rejected(c, FALSE) \/ Proceed(c, [rsaEncrypted |-> ToRsa(c)])
    BY <1>9, Zenon DEF encryptRSA
  <2>3. QED
    BY <2>1, <2>2, ProceedTo, StopTo, Zenon DEF Turn
<1>10. ASSUME sign(c) PROVE Done
  <2>1. CASE /\ Does(c, "signData")
             /\ Proceed(c, [signatureOfData |->
                    [by |-> calls[c].args.signer, over |-> ToRsa(c)]])
    <3>1. calls[c].todo # << >> /\ op = "signData"
      BY <1>0, <2>1, Zenon DEF Does
    <3>2. QED
      BY <2>1, <3>1, ProceedTo, Zenon DEF Turn
  <2>2. CASE /\ Does(c, "signEncrypted")
             /\ Proceed(c, [signatureOfEncrypted |->
                    [by |-> calls[c].args.signer, over |-> <<bag(c).rsaEncrypted>>]])
    <3>1. calls[c].todo # << >> /\ op = "signEncrypted"
      BY <1>0, <2>2, Zenon DEF Does
    <3>2. QED
      BY <2>2, <3>1, ProceedTo, Zenon DEF Turn
  <2>3. QED
    BY <1>10, <2>1, <2>2, Zenon DEF sign
<1>11. ASSUME decryptRSA(c) PROVE Done
  <2>1. calls[c].todo # << >> /\ op = "decryptRSA"
    BY <1>0, <1>11, Zenon DEF decryptRSA, Does
  <2>2. \/ Misused(c)
        \/ /\ "rsaEncrypted" \in DOMAIN dict(c)
           /\ ProceedWithKeys(c, dict(c).rsaEncrypted)
    BY <1>11, Zenon DEF decryptRSA, Lacks
  <2>3. QED
    BY <2>1, <2>2, KeysTaken, StopTo, Zenon DEF Turn
<1>12. ASSUME verifySignature(c) PROVE Done
  <2>1. CASE /\ Does(c, "verifyEncrypted")
             /\ Misused(c) \/ Refused(c) \/ Proceed(c, << >>)
    <3>1. calls[c].todo # << >> /\ op = "verifyEncrypted"
      BY <1>0, <2>1, Zenon DEF Does
    <3>2. QED
      BY <2>1, <3>1, ProceedTo, StopTo, Zenon DEF Turn
  <2>2. CASE /\ Does(c, "verifyData")
             /\ \/ Misused(c) \/ Refused(c)
                \/ /\ ~Lacks(c, {"signatureOfData"})
                   /\ dict(c).signatureOfData =
                        [by |-> calls[c].args.signer, over |-> bag(c).payload]
                   /\ ProceedWithKeys(c, bag(c).payload)
    <3>1. calls[c].todo # << >> /\ op = "verifyData"
      BY <1>0, <2>2, Zenon DEF Does
    <3>2. ~Lacks(c, {"signatureOfData"}) => "signatureOfData" \in DOMAIN dict(c)
      BY Zenon DEF Lacks
    <3>3. QED
      BY <2>2, <3>1, <3>2, KeysTaken, StopTo, Zenon DEF Turn
  <2>3. QED
    BY <1>12, <2>1, <2>2, Zenon DEF verifySignature
<1>13. ASSUME NEW o, Pending(c, o), o \notin Ops, Stops(c) \/ Same(c) PROVE Done
  BY <1>0, <1>13, Zenon DEF Turn
<1>17. ASSUME calls[c].todo # << >>, NEW new, Proceed(c, new) PROVE Same(c)
  BY <1>17, ProceedTo, Zenon DEF Goes
<1>14. ASSUME \/ generateRsaKeys(c) \/ asymExportKey(c) \/ asymImportKey(c)
              \/ passwordToKey(c) \/ deriveBits(c) \/ importPassword(c) \/ hmacBlock(c)
       PROVE  Done
  <2>1. PICK o \in {"generateEncryptKeys", "generateSignKeys", "exportPublic",
                    "exportPrivate", "importPrivate", "importPublic", "passwordToKey",
                    "deriveBits", "importPassword", "hmacBlock"} : Pending(c, o)
    BY <1>14, Zenon DEF generateRsaKeys, asymExportKey, asymImportKey, passwordToKey,
       deriveBits, importPassword, hmacBlock, Does
  <2>2. o \notin Ops
    BY DEF Ops
  <2>3. calls[c].todo # << >>
    BY <1>0, <2>1, Zenon
  <2>4. CASE generateRsaKeys(c) \/ asymExportKey(c) \/ asymImportKey(c)
    <3>1. (\E new : Proceed(c, new)) \/ Rejected(c, FALSE)
      BY <2>4, Zenon DEF generateRsaKeys, asymExportKey, asymImportKey
    <3>2. QED
      BY <1>13, <1>17, <2>1, <2>2, <2>3, <3>1, StopTo, Zenon
  <2>5. CASE deriveBits(c) \/ importPassword(c)
    <3>1. \E new : Proceed(c, new)
      BY <2>5, Zenon DEF deriveBits, importPassword
    <3>2. QED
      BY <1>13, <1>17, <2>1, <2>2, <2>3, <3>1, Zenon
  <2>6. CASE passwordToKey(c)
    <3>1. Proceed(c, << >>) \/ \E x : calls' = [calls EXCEPT ![c] = [calls[c] EXCEPT !.todo = x]]
      BY <2>6, Zenon DEF passwordToKey
    <3>2. QED
      BY <1>13, <1>17, <2>1, <2>2, <2>3, <3>1, Changed, Zenon
  <2>7. CASE hmacBlock(c)
    <3>1. (\E new : Proceed(c, new))
            \/ \E x : calls' = [calls EXCEPT ![c] = [calls[c] EXCEPT !.bag = x]]
      BY <2>7, Zenon DEF hmacBlock
    <3>2. QED
      BY <1>13, <1>17, <2>1, <2>2, <2>3, <3>1, Changed, Zenon
  <2>8. QED
    BY <1>14, <2>4, <2>5, <2>6, <2>7, Zenon
<1>15. ASSUME fails(c) PROVE Done
  BY <1>15, StopTo, Zenon DEF fails
<1>16. QED
  BY <1>1, <1>2, <1>3, <1>4, <1>5, <1>6, <1>7, <1>8, <1>9, <1>10, <1>11, <1>12,
     <1>14, <1>15, Zenon DEF Settles

----------------------------------------------------------------------------
(* How a call begins.                                                      *)

BegunWith(c, fn, args, todo) ==
    /\ calls'[c].fn = fn /\ calls'[c].args = args /\ calls'[c].bag = << >>
    /\ calls'[c].todo = todo /\ calls'[c].said = << >>

LEMMA Starts ==
    ASSUME OnceInv, NEW c \in Calls, Start(c)
    PROVE  /\ calls[c].fn = "none"
           /\ \A d \in Calls \ {c} : calls'[d] = calls[d]
           /\ \E fn \in Functions[c], p \in Platforms[c] : \E args \in Arguments(c, fn) :
                /\ calls'[c].fn = fn
                /\ \/ Unfold(Chain(fn, p, args), {}) = << >>
                   \/ "ring" \in DOMAIN args \/ "jwk" \in DOMAIN args
                   \/ BegunWith(c, fn, args, Unfold(Chain(fn, p, args), {}))
<1>1. PICK fn \in Functions[c], p \in Platforms[c] : \E args \in Arguments(c, fn) :
        LET ring == "ring" \in DOMAIN args
            objects == IF ring THEN cached[args.ring] ELSE {}
            todo == Unfold(Chain(fn, p, args), objects)
            keys == IF ring THEN RawKeys(args.ring)
                    ELSE IF "jwk" \in DOMAIN args
                    THEN [privateJwk |-> args.jwk] ELSE << >>
            said == IF ring /\ args.ring \in IncompleteRings THEN <<"error">>
                    ELSE IF todo = << >> THEN <<"ok">> ELSE << >>
        IN  calls' = [calls EXCEPT ![c] =
                Begun(fn, p, args, keys, said, todo)]
  BY Zenon DEF Start
<1>2. PICK args \in Arguments(c, fn) :
        LET ring == "ring" \in DOMAIN args
            objects == IF ring THEN cached[args.ring] ELSE {}
            todo == Unfold(Chain(fn, p, args), objects)
            keys == IF ring THEN RawKeys(args.ring)
                    ELSE IF "jwk" \in DOMAIN args
                    THEN [privateJwk |-> args.jwk] ELSE << >>
            said == IF ring /\ args.ring \in IncompleteRings THEN <<"error">>
                    ELSE IF todo = << >> THEN <<"ok">> ELSE << >>
        IN  calls' = [calls EXCEPT ![c] =
                Begun(fn, p, args, keys, said, todo)]
  BY <1>1, Zenon
<1> DEFINE todo == Unfold(Chain(fn, p, args), {})
<1>3. PICK held, said, rest :
        /\ calls' = [calls EXCEPT ![c] = Begun(fn, p, args, held, said, rest)]
        /\ "ring" \notin DOMAIN args /\ "jwk" \notin DOMAIN args =>
            /\ held = << >> /\ rest = todo
            /\ todo # << >> => said = << >>
  BY <1>2, Zenon
<1> HIDE DEF todo
<1> DEFINE r == Begun(fn, p, args, held, said, rest)
<1>4. /\ r.fn = fn /\ r.args = args /\ r.bag = held /\ r.said = said
      /\ r.todo = IF said = << >> THEN rest ELSE << >>
  BY DEF Begun
<1> HIDE DEF r
<1>5. calls'[c] = r /\ \A d \in Calls \ {c} : calls'[d] = calls[d]
  BY <1>3, Replaced DEF r
<1>6. ASSUME todo # << >>, "ring" \notin DOMAIN args, "jwk" \notin DOMAIN args
      PROVE  BegunWith(c, fn, args, todo)
  BY <1>3, <1>4, <1>5, <1>6, Zenon DEF BegunWith
<1>7. calls'[c].fn = fn /\ calls[c].fn = "none"
  BY <1>4, <1>5, Zenon DEF Start
<1>8. QED
  BY <1>5, <1>6, <1>7, Zenon DEF todo

\* The arguments of the two functions.
LEMMA ArgumentsAre ==
    ASSUME NEW c \in Calls, NEW args
    PROVE  /\ args \in Arguments(c, "encryptAndSign") =>
                /\ "ring" \notin DOMAIN args /\ "jwk" \notin DOMAIN args
                /\ args.length = ContentLength[c]
           /\ args \in Arguments(c, "verifyAndDecrypt") =>
                /\ "ring" \notin DOMAIN args /\ "jwk" \notin DOMAIN args
                /\ args.dict \in Arrivals({"encryptAndSign"})
<1>1. Arguments(c, "encryptAndSign") = [length : {ContentLength[c]}, signer : Parties]
  BY DEF Arguments
<1>2. Arguments(c, "verifyAndDecrypt")
        = [dict : Arrivals({"encryptAndSign"}), signer : Parties]
  BY DEF Arguments
<1>3. ASSUME args \in [length : {ContentLength[c]}, signer : Parties]
      PROVE  /\ "ring" \notin DOMAIN args /\ "jwk" \notin DOMAIN args
             /\ args.length = ContentLength[c]
  <2>1. DOMAIN args = {"length", "signer"} /\ args.length \in {ContentLength[c]}
    BY <1>3
  <2>2. QED
    BY <2>1
<1>4. ASSUME args \in [dict : Arrivals({"encryptAndSign"}), signer : Parties]
      PROVE  /\ "ring" \notin DOMAIN args /\ "jwk" \notin DOMAIN args
             /\ args.dict \in Arrivals({"encryptAndSign"})
  <2>1. /\ DOMAIN args = {"dict", "signer"}
        /\ args.dict \in Arrivals({"encryptAndSign"})
    BY <1>4
  <2>2. QED
    BY <2>1
<1>5. QED
  BY <1>1, <1>2, <1>3, <1>4, Zenon

LEMMA StartsSigning ==
    ASSUME OnceInv, NEW c \in Calls, Start(c), calls'[c].fn = "encryptAndSign"
    PROVE  \E args : /\ args.length = ContentLength[c]
                     /\ BegunWith(c, "encryptAndSign", args, AtGenerateAES)
<1>1. PICK p \in Platforms[c] : \E args \in Arguments(c, "encryptAndSign") :
        \/ Unfold(Chain("encryptAndSign", p, args), {}) = << >>
        \/ "ring" \in DOMAIN args \/ "jwk" \in DOMAIN args
        \/ BegunWith(c, "encryptAndSign", args, Unfold(Chain("encryptAndSign", p, args), {}))
  BY Starts, Zenon
<1>2. PICK args \in Arguments(c, "encryptAndSign") :
        \/ Unfold(Chain("encryptAndSign", p, args), {}) = << >>
        \/ "ring" \in DOMAIN args \/ "jwk" \in DOMAIN args
        \/ BegunWith(c, "encryptAndSign", args, Unfold(Chain("encryptAndSign", p, args), {}))
  BY <1>1, Zenon
<1>3. args.length = ContentLength[c] /\ args.length \in Nat
  BY ArgumentsAre, CallsAssumption
<1>4. Chain("encryptAndSign", p, args) = AtGenerateAES
  BY <1>3, SigningChain DEF Chain
<1>5. AtGenerateAES # << >> /\ Unfold(AtGenerateAES, {}) = AtGenerateAES
  <2>1. "generateKeyAES" \in Ops
    BY OpsAre
  <2>2. "generateKeyAES" # "importKeys"
    OBVIOUS
  <2>3. AtGenerateHMAC \in Seq(Ops)
    BY SigningChains
  <2>4. AtGenerateAES # << >>
    BY <2>1, <2>3, ThenFacts DEF AtGenerateAES
  <2>5. ASSUME NEW objects
        PROVE  Unfold(AtGenerateAES, objects) = AtGenerateAES
    BY <2>1, <2>2, <2>3, UnfoldFacts, Zenon DEF AtGenerateAES
  <2>6. QED
    BY <2>4, <2>5
<1>6. QED
  BY <1>2, <1>3, <1>4, <1>5, ArgumentsAre, Zenon

LEMMA StartsReading ==
    ASSUME OnceInv, NEW c \in Calls, Start(c), calls'[c].fn = "verifyAndDecrypt"
    PROVE  \E args :
            /\ args.dict \in Arrivals({"encryptAndSign"})
            /\ BegunWith(c, "verifyAndDecrypt", args, AtVerifyEncrypted(AesPart(args.dict)))
<1>1. PICK p \in Platforms[c] : \E args \in Arguments(c, "verifyAndDecrypt") :
        \/ Unfold(Chain("verifyAndDecrypt", p, args), {}) = << >>
        \/ "ring" \in DOMAIN args \/ "jwk" \in DOMAIN args
        \/ BegunWith(c, "verifyAndDecrypt", args,
                     Unfold(Chain("verifyAndDecrypt", p, args), {}))
  BY Starts, Zenon
<1>2. PICK args \in Arguments(c, "verifyAndDecrypt") :
        \/ Unfold(Chain("verifyAndDecrypt", p, args), {}) = << >>
        \/ "ring" \in DOMAIN args \/ "jwk" \in DOMAIN args
        \/ BegunWith(c, "verifyAndDecrypt", args,
                     Unfold(Chain("verifyAndDecrypt", p, args), {}))
  BY <1>1, Zenon
<1> DEFINE part == AesPart(args.dict)
<1>3. Chain("verifyAndDecrypt", p, args) = VerifyAndDecrypt(args.dict)
  BY DEF Chain
<1>4. part \in Seq(Ops) /\ VerifyAndDecrypt(args.dict) = AtVerifyEncrypted(part)
  BY ReadingChain
<1> HIDE DEF part
<1>5. AtVerifyEncrypted(part) # << >>
      /\ Unfold(AtVerifyEncrypted(part), {}) = AtVerifyEncrypted(part)
  BY <1>4, UnfoldFacts, ThenFacts, OpsAre, ReadingChains DEF AtVerifyEncrypted
<1>6. QED
  BY <1>2, <1>3, <1>4, <1>5, ArgumentsAre, Zenon DEF part

----------------------------------------------------------------------------
(* What the closures of a call hold.                                       *)

Holds(held, l, x) == l \in DOMAIN held /\ held[l] = x
Adds(held, more, l, x) ==
    /\ Holds(more, l, x)
    /\ \A k : k # l =>
        /\ (k \in DOMAIN more) <=> (k \in DOMAIN held)
        /\ k \in DOMAIN held => more[k] = held[k]
Keeps(held, more) ==
    \A k : /\ (k \in DOMAIN more) <=> (k \in DOMAIN held)
           /\ k \in DOMAIN held => more[k] = held[k]

LEMMA WithOne ==
    ASSUME NEW l, NEW x, NEW new, NEW held, DOMAIN new = {l}, new[l] = x
    PROVE  Adds(held, With(new, held), l, x)
<1> DEFINE more == With(new, held)
<1>1. /\ DOMAIN more = DOMAIN new \cup DOMAIN held
      /\ \A k \in DOMAIN new : more[k] = new[k]
      /\ \A k \in DOMAIN held \ DOMAIN new : more[k] = held[k]
  BY WithGet
<1> HIDE DEF more
<1>2. QED
  BY <1>1 DEF Adds, Holds, more
LEMMA WithNone ==
    ASSUME NEW held
    PROVE  Keeps(held, With(<< >>, held))
<1>1. DOMAIN << >> = {}
  OBVIOUS
<1> DEFINE none == << >>
           more == With(none, held)
<1>2. /\ DOMAIN more = DOMAIN none \cup DOMAIN held
      /\ \A k \in DOMAIN held \ DOMAIN none : more[k] = held[k]
  BY WithGet
<1>3. DOMAIN none = {}
  BY <1>1
<1> HIDE DEF none, more
<1>4. Keeps(held, more)
  BY <1>2, <1>3 DEF Keeps
<1>5. QED
  BY <1>4 DEF more, none

LEMMA WithField ==
    ASSUME NEW held, NEW x
    PROVE  /\ Adds(held, With([aesKey |-> x], held), "aesKey", x)
           /\ Adds(held, With([hmacKey |-> x], held), "hmacKey", x)
           /\ Adds(held, With([aesEncrypted |-> x], held), "aesEncrypted", x)
           /\ Adds(held, With([hmac |-> x], held), "hmac", x)
           /\ Adds(held, With([rsaEncrypted |-> x], held), "rsaEncrypted", x)
           /\ Adds(held, With([signatureOfData |-> x], held), "signatureOfData", x)
           /\ Adds(held, With([signatureOfEncrypted |-> x], held),
                   "signatureOfEncrypted", x)
           /\ Adds(held, With([text |-> x], held), "text", x)
<1>1. /\ DOMAIN [aesKey |-> x] = {"aesKey"} /\ [aesKey |-> x]["aesKey"] = x
      /\ DOMAIN [hmacKey |-> x] = {"hmacKey"} /\ [hmacKey |-> x]["hmacKey"] = x
      /\ DOMAIN [aesEncrypted |-> x] = {"aesEncrypted"}
      /\ [aesEncrypted |-> x]["aesEncrypted"] = x
      /\ DOMAIN [hmac |-> x] = {"hmac"} /\ [hmac |-> x]["hmac"] = x
      /\ DOMAIN [rsaEncrypted |-> x] = {"rsaEncrypted"}
      /\ [rsaEncrypted |-> x]["rsaEncrypted"] = x
      /\ DOMAIN [signatureOfData |-> x] = {"signatureOfData"}
      /\ [signatureOfData |-> x]["signatureOfData"] = x
      /\ DOMAIN [signatureOfEncrypted |-> x] = {"signatureOfEncrypted"}
      /\ [signatureOfEncrypted |-> x]["signatureOfEncrypted"] = x
      /\ DOMAIN [text |-> x] = {"text"} /\ [text |-> x]["text"] = x
  OBVIOUS
<1>2. QED
  BY <1>1, WithOne, Zenon

----------------------------------------------------------------------------
(* Where a chain goes on.                                                  *)

Leads(todo, op, next) ==
    todo # << >> /\ Head(todo) = op /\ \A objects : Unfold(Tail(todo), objects) \in next

LEMMA LeadsOn ==
    ASSUME NEW op \in Ops, NEW then \in Ops, then # "importKeys", NEW rest \in Seq(Ops)
    PROVE  Leads(Then(op, Then(then, rest)), op, {Then(then, rest)})
<1>1. Then(then, rest) \in Seq(Ops)
  BY ThenFacts
<1>2. \A objects : Unfold(Then(then, rest), objects) \in {Then(then, rest)}
  BY UnfoldFacts
<1>3. QED
  BY <1>1, <1>2, ThenFacts DEF Leads
LEMMA LeadsOut ==
    ASSUME NEW op \in Ops
    PROVE  Leads(Then(op, << >>), op, {<< >>})
<1>1. << >> \in Seq(Ops)
  OBVIOUS
<1>2. \A objects : Unfold(<< >>, objects) = << >>
  BY DEF Unfold
<1>3. QED
  BY <1>1, <1>2, ThenFacts DEF Leads
LEMMA LeadsToImport ==
    ASSUME NEW op \in Ops, NEW rest \in Seq(Ops)
    PROVE  Leads(Then(op, Then("importKeys", rest)), op,
                 {rest, Then("importKeyAES", Then("importKeyHMAC", rest))})
<1>1. Then("importKeys", rest) \in Seq(Ops)
  BY ThenFacts, OpsAre
<1>2. QED
  BY <1>1, ThenFacts, UnfoldFacts DEF Leads

LEMMA SigningLeads ==
    /\ Leads(AtGenerateAES, "generateKeyAES", {AtGenerateHMAC})
    /\ Leads(AtGenerateHMAC, "generateKeyHMAC", {AtExportAES})
    /\ Leads(AtExportAES, "exportKeyAES", {AtExportHMAC})
    /\ Leads(AtExportHMAC, "exportKeyHMAC", {AtImportAES})
    /\ Leads(AtImportAES, "importKeyAES", {AtImportHMAC})
    /\ Leads(AtImportHMAC, "importKeyHMAC", {AtEncryptAES, AtCacheAES})
    /\ Leads(AtCacheAES, "importKeyAES", {AtCacheHMAC})
    /\ Leads(AtCacheHMAC, "importKeyHMAC", {AtEncryptAES})
    /\ Leads(AtEncryptAES, "encryptAES", {AtSignHMAC})
    /\ Leads(AtSignHMAC, "signHMAC", {AtEncryptRSA})
    /\ Leads(AtEncryptRSA, "encryptRSA", {AtSignData})
    /\ Leads(AtSignData, "signData", {AtSignEncrypted})
    /\ Leads(AtSignEncrypted, "signEncrypted", {<< >>})
<1> USE SigningChains, OpsAre
<1>0. << >> \in Seq(Ops)
  OBVIOUS
<1>1. Leads(AtGenerateAES, "generateKeyAES", {AtGenerateHMAC})
  BY LeadsOn DEF AtGenerateAES, AtGenerateHMAC
<1>2. Leads(AtGenerateHMAC, "generateKeyHMAC", {AtExportAES})
  BY LeadsOn DEF AtGenerateHMAC, AtExportAES
<1>3. Leads(AtExportAES, "exportKeyAES", {AtExportHMAC})
  BY LeadsOn DEF AtExportAES, AtExportHMAC
<1>4. Leads(AtExportHMAC, "exportKeyHMAC", {AtImportAES})
  BY LeadsOn DEF AtExportHMAC, AtImportAES
<1>5. Leads(AtImportAES, "importKeyAES", {AtImportHMAC})
  BY LeadsOn DEF AtImportAES, AtImportHMAC
<1>6. Leads(AtImportHMAC, "importKeyHMAC", {AtEncryptAES, AtCacheAES})
  BY LeadsToImport DEF AtImportHMAC, AtImportKeys, AtCacheAES, AtCacheHMAC
<1>7. Leads(AtCacheAES, "importKeyAES", {AtCacheHMAC})
  BY LeadsOn DEF AtCacheAES, AtCacheHMAC
<1>8. Leads(AtCacheHMAC, "importKeyHMAC", {AtEncryptAES})
  BY LeadsOn DEF AtCacheHMAC, AtEncryptAES
<1>9. Leads(AtEncryptAES, "encryptAES", {AtSignHMAC})
  BY LeadsOn DEF AtEncryptAES, AtSignHMAC
<1>10. Leads(AtSignHMAC, "signHMAC", {AtEncryptRSA})
  BY LeadsOn DEF AtSignHMAC, AtEncryptRSA
<1>11. Leads(AtEncryptRSA, "encryptRSA", {AtSignData})
  BY LeadsOn DEF AtEncryptRSA, AtSignData
<1>12. Leads(AtSignData, "signData", {AtSignEncrypted})
  BY <1>0, LeadsOn DEF AtSignData, AtSignEncrypted
<1>13. Leads(AtSignEncrypted, "signEncrypted", {<< >>})
  BY LeadsOut DEF AtSignEncrypted
<1>14. QED
  BY <1>1, <1>2, <1>3, <1>4, <1>5, <1>6, <1>7, <1>8, <1>9, <1>10, <1>11, <1>12, <1>13

LEMMA ReadingLeads ==
    /\ Leads(AtOpenAES, "importKeyAES", {AtOpenHMAC})
    /\ Leads(AtOpenHMAC, "importKeyHMAC", {AtVerifyHMAC})
    /\ Leads(AtVerifyHMAC, "verifyHMAC", {AtDecryptAES})
    /\ Leads(AtDecryptAES, "decryptAES", {<< >>})
    /\ \A part \in Seq(Ops) :
        /\ Leads(AtVerifyEncrypted(part), "verifyEncrypted", {AtDecryptRSA(part)})
        /\ Leads(AtDecryptRSA(part), "decryptRSA", {AtVerifyData(part)})
        /\ Tail(AtDecryptRSA(part)) # SymDecrypt
        /\ Tail(AtVerifyData(part)) = part
    /\ Leads(AtVerifyData(<< >>), "verifyData", {<< >>})
    /\ Leads(AtVerifyData(SymDecrypt), "verifyData", {AtVerifyHMAC, AtOpenAES})
<1> USE ReadingChains, OpsAre
<1>0. << >> \in Seq(Ops)
  OBVIOUS
<1>1. Leads(AtOpenAES, "importKeyAES", {AtOpenHMAC})
  BY LeadsOn DEF AtOpenAES, AtOpenHMAC
<1>2. Leads(AtOpenHMAC, "importKeyHMAC", {AtVerifyHMAC})
  BY LeadsOn DEF AtOpenHMAC, AtVerifyHMAC
<1>3. Leads(AtVerifyHMAC, "verifyHMAC", {AtDecryptAES})
  BY <1>0, LeadsOn DEF AtVerifyHMAC, AtDecryptAES
<1>4. Leads(AtDecryptAES, "decryptAES", {<< >>})
  BY LeadsOut DEF AtDecryptAES
<1>5. ASSUME NEW part \in Seq(Ops)
      PROVE  /\ Leads(AtVerifyEncrypted(part), "verifyEncrypted", {AtDecryptRSA(part)})
             /\ Leads(AtDecryptRSA(part), "decryptRSA", {AtVerifyData(part)})
             /\ Tail(AtDecryptRSA(part)) # SymDecrypt
             /\ Tail(AtVerifyData(part)) = part
  <2>1. Leads(AtVerifyEncrypted(part), "verifyEncrypted", {AtDecryptRSA(part)})
    BY LeadsOn DEF AtVerifyEncrypted, AtDecryptRSA
  <2>2. Leads(AtDecryptRSA(part), "decryptRSA", {AtVerifyData(part)})
    BY LeadsOn DEF AtDecryptRSA, AtVerifyData
  <2>3. Tail(AtDecryptRSA(part)) = AtVerifyData(part)
    BY ThenFacts DEF AtDecryptRSA
  <2>4. Head(AtVerifyData(part)) = "verifyData" /\ Tail(AtVerifyData(part)) = part
    BY ThenFacts DEF AtVerifyData
  <2>5. Head(SymDecrypt) = "importKeys"
    BY ThenFacts
  <2>6. QED
    BY <2>1, <2>2, <2>3, <2>4, <2>5
<1>6. Leads(AtVerifyData(<< >>), "verifyData", {<< >>})
  BY LeadsOut DEF AtVerifyData
<1>7. Leads(AtVerifyData(SymDecrypt), "verifyData", {AtVerifyHMAC, AtOpenAES})
  BY LeadsToImport DEF AtVerifyData, AtOpenAES, AtOpenHMAC
<1>8. QED
  BY <1>1, <1>2, <1>3, <1>4, <1>5, <1>6, <1>7

LEMMA GoesOnly ==
    ASSUME NEW c, NEW new, Goes(c, new), NEW op, NEW then, Leads(calls[c].todo, op, {then})
    PROVE  calls'[c].todo = then /\ calls'[c].bag = With(new, calls[c].bag)
<1>1. Unfold(Tail(calls[c].todo), cached'[KeysObject(c)]) = then
  BY Zenon DEF Leads
<1>2. QED
  BY <1>1, Zenon DEF Goes, Rest
LEMMA GoesTo ==
    ASSUME NEW c, NEW new, Goes(c, new), NEW op, NEW next, Leads(calls[c].todo, op, next)
    PROVE  /\ calls'[c].todo \in next /\ calls'[c].bag = With(new, calls[c].bag)
           /\ calls'[c].fn = calls[c].fn /\ calls'[c].args = calls[c].args
BY Zenon DEF Goes, Same, Rest, Leads

----------------------------------------------------------------------------
(* The signing calls.  What a message holds, its call has made: keys of    *)
(* its own, its content under them, an HMAC of that, and in the RSA part   *)
(* the two keys, or short content itself, signed both ways.                *)

Key(m) == <<"keys", m>>
Cipher(m) == [key |-> Key(m), text |-> m]
Mac(m) == [key |-> Key(m), over |-> Cipher(m)]
\* What RSA encrypts: always two keys, for rsaEncryptMax is negative.
Content(m) == [keys |-> <<Key(m), Key(m)>>, length |-> CombinedLength]

HasKeys(m, held) == Holds(held, "aesKey", Key(m)) /\ Holds(held, "hmacKey", Key(m))
HasCipher(m, held) == HasKeys(m, held) /\ Holds(held, "aesEncrypted", Cipher(m))
\* What is encrypted is complete.
IsExtended(m, held) == HasCipher(m, held) /\ Holds(held, "hmac", Mac(m))
HasRsa(m, held) ==
    IsExtended(m, held) /\ Holds(held, "rsaEncrypted", Content(m))
HasOneSignature(m, held, signer) ==
    /\ HasRsa(m, held)
    /\ Holds(held, "signatureOfData", [by |-> signer, over |-> Content(m)])
IsSigned(m, held, signer) ==
    /\ HasOneSignature(m, held, signer)
    /\ Holds(held, "signatureOfEncrypted",
             [by |-> signer, over |-> <<Content(m)>>])

\* How far encryptAndSign is, and what its closures hold then.
Signing(m, todo, held, signer) ==
    \/ todo = AtGenerateAES
    \/ todo = AtGenerateHMAC /\ Holds(held, "aesKey", Key(m))
    \/ /\ todo \in {AtExportAES, AtExportHMAC, AtImportAES, AtImportHMAC,
                    AtCacheAES, AtCacheHMAC, AtEncryptAES}
       /\ HasKeys(m, held)
    \/ todo = AtSignHMAC /\ HasCipher(m, held)
    \/ todo = AtEncryptRSA /\ IsExtended(m, held)
    \/ todo = AtSignData /\ HasRsa(m, held)
    \/ todo = AtSignEncrypted /\ HasOneSignature(m, held, signer)
    \/ todo = << >> /\ IsSigned(m, held, signer)

\* A call that is under way or has succeeded.
Sound(r) == r.todo # << >> \/ r.said \in {<<"ok">>, <<"ok", "error">>}
SignInv ==
    \A m \in Calls : calls[m].fn = "encryptAndSign" =>
        /\ calls[m].args.length = ContentLength[m]
        /\ Sound(calls[m]) =>
            Signing(m, calls[m].todo, calls[m].bag, calls[m].args.signer)

LEMMA StoppedIsNotSound ==
    ASSUME NEW c, Stops(c) PROVE ~Sound(calls'[c])
<1> DEFINE said == calls'[c].said
<1>1. said \in {<< >>, <<"error">>, <<"error", "error">>} /\ calls'[c].todo = << >>
  BY Zenon DEF Stops
<1> HIDE DEF said
<1>2. said \notin {<<"ok">>, <<"ok", "error">>}
  BY <1>1
<1>3. QED
  BY <1>1, <1>2, Zenon DEF Sound, said

\* What an addition leaves.
LEMMA HoldsStays ==
    ASSUME NEW held, NEW more, NEW l, NEW x, Adds(held, more, l, x),
           NEW k, NEW v, k # l, Holds(held, k, v)
    PROVE  Holds(more, k, v)
BY Zenon DEF Adds, Holds
LEMMA KeysStay ==
    ASSUME NEW m, NEW held, NEW more, NEW l, NEW x, Adds(held, more, l, x),
           l \notin {"aesKey", "hmacKey"}, HasKeys(m, held)
    PROVE  HasKeys(m, more)
BY HoldsStays DEF HasKeys
LEMMA CipherStays ==
    ASSUME NEW m, NEW held, NEW more, NEW l, NEW x, Adds(held, more, l, x),
           l \notin {"aesKey", "hmacKey", "aesEncrypted"}, HasCipher(m, held)
    PROVE  HasCipher(m, more)
<1>1. HasKeys(m, more)
  BY KeysStay DEF HasCipher
<1>2. QED
  BY <1>1, HoldsStays DEF HasCipher
LEMMA ExtendedStays ==
    ASSUME NEW m, NEW held, NEW more, NEW l, NEW x, Adds(held, more, l, x),
           l \notin {"aesKey", "hmacKey", "aesEncrypted", "hmac"}, IsExtended(m, held)
    PROVE  IsExtended(m, more)
BY CipherStays, HoldsStays DEF IsExtended
LEMMA RsaStays ==
    ASSUME NEW m, NEW held, NEW more, NEW l, NEW x, Adds(held, more, l, x),
           l \notin {"aesKey", "hmacKey", "aesEncrypted", "hmac", "rsaEncrypted"},
           HasRsa(m, held)
    PROVE  HasRsa(m, more)
BY ExtendedStays, HoldsStays DEF HasRsa
LEMMA OneSignatureStays ==
    ASSUME NEW m, NEW held, NEW more, NEW signer, NEW x,
           Adds(held, more, "signatureOfEncrypted", x), HasOneSignature(m, held, signer)
    PROVE  HasOneSignature(m, more, signer)
BY RsaStays, HoldsStays DEF HasOneSignature

\* And what is kept.
LEMMA StaysKept ==
    ASSUME NEW m, NEW held, NEW more, Keeps(held, more), HasKeys(m, held)
    PROVE  HasKeys(m, more)
BY Zenon DEF Keeps, HasKeys, Holds

\* A step of encryptAndSign leads on as its code says.
LEMMA SigningGoes ==
    ASSUME NEW m \in Calls, calls[m].args.length = ContentLength[m],
           Signing(m, calls[m].todo, calls[m].bag, calls[m].args.signer),
           calls[m].todo # << >>, Turn(m, Head(calls[m].todo))
    PROVE  /\ Same(m)
           /\ Signing(m, calls'[m].todo, calls'[m].bag, calls'[m].args.signer)
<1> DEFINE todo == calls[m].todo
           held == calls[m].bag
           signer == calls[m].args.signer
           more == calls'[m].bag
           Done == Same(m) /\ Signing(m, calls'[m].todo, more, calls'[m].args.signer)
<1>0. ASSUME NEW new, Goes(m, new) PROVE Same(m) /\ calls'[m].args.signer = signer
  BY <1>0, Zenon DEF Goes, Same
<1>1. CASE todo = AtGenerateAES
  <2>1. Leads(todo, "generateKeyAES", {AtGenerateHMAC})
    BY <1>1, SigningLeads, Zenon
  <2>2. Goes(m, [aesKey |-> Key(m)])
    BY <2>1 DEF Leads, Turn, Ops, Key
  <2>3. calls'[m].todo = AtGenerateHMAC /\ more = With([aesKey |-> Key(m)], held)
    BY <2>1, <2>2, GoesOnly, Zenon
  <2>4. Adds(held, more, "aesKey", Key(m))
    BY <2>3, WithField, Zenon
  <2>5. QED
    BY <1>0, <2>2, <2>3, <2>4, Zenon DEF Signing, Adds
<1>2. CASE todo = AtGenerateHMAC /\ Holds(held, "aesKey", Key(m))
  <2>1. Leads(todo, "generateKeyHMAC", {AtExportAES})
    BY <1>2, SigningLeads, Zenon
  <2>2. Goes(m, [hmacKey |-> Key(m)])
    BY <2>1 DEF Leads, Turn, Ops, Key
  <2>3. calls'[m].todo = AtExportAES /\ more = With([hmacKey |-> Key(m)], held)
    BY <2>1, <2>2, GoesOnly, Zenon
  <2>4. Adds(held, more, "hmacKey", Key(m))
    BY <2>3, WithField, Zenon
  <2>5. HasKeys(m, more)
    BY <1>2, <2>4 DEF Adds, HasKeys, Holds
  <2>6. QED
    BY <1>0, <2>2, <2>3, <2>5 DEF Signing
<1>3. CASE /\ todo \in {AtExportAES, AtExportHMAC, AtImportAES, AtImportHMAC,
                        AtCacheAES, AtCacheHMAC}
           /\ HasKeys(m, held)
  <2>1. PICK op \in {"exportKeyAES", "exportKeyHMAC", "importKeyAES", "importKeyHMAC"},
             next \in {{AtExportHMAC}, {AtImportAES}, {AtImportHMAC},
                       {AtEncryptAES, AtCacheAES}, {AtCacheHMAC}, {AtEncryptAES}} :
          Leads(todo, op, next)
    BY <1>3, SigningLeads, Zenon
  <2>2. Goes(m, << >>)
    BY <2>1 DEF Leads, Turn, Ops
  <2>3. calls'[m].todo \in next /\ more = With(<< >>, held)
    BY <2>1, <2>2, GoesTo
  <2>4. HasKeys(m, more)
    BY <1>3, <2>3, WithNone, StaysKept, Zenon
  <2>5. QED
    BY <1>0, <2>1, <2>2, <2>3, <2>4, Zenon DEF Signing
<1>4. CASE todo = AtEncryptAES /\ HasKeys(m, held)
  <2>1. Leads(todo, "encryptAES", {AtSignHMAC})
    BY <1>4, SigningLeads, Zenon
  <2>2. held.aesKey = Key(m)
    BY <1>4 DEF HasKeys, Holds
  <2>3. Goes(m, [aesEncrypted |-> [key |-> held.aesKey, text |-> m]])
    BY <2>1 DEF Leads, Turn, Ops, bag
  <2>4. Goes(m, [aesEncrypted |-> Cipher(m)])
    BY <2>2, <2>3, Zenon DEF Cipher
  <2>5. calls'[m].todo = AtSignHMAC /\ more = With([aesEncrypted |-> Cipher(m)], held)
    BY <2>1, <2>4, GoesOnly, Zenon
  <2>6. Adds(held, more, "aesEncrypted", Cipher(m))
    BY <2>5, WithField, Zenon
  <2>7. HasKeys(m, more)
    BY <1>4, <2>6, KeysStay
  <2>9. HasCipher(m, more)
    BY <2>6, <2>7, Zenon DEF HasCipher, Adds
  <2>8. QED
    BY <1>0, <2>4, <2>5, <2>9, Zenon DEF Signing
<1>5. CASE todo = AtSignHMAC /\ HasCipher(m, held)
  <2>1. Leads(todo, "signHMAC", {AtEncryptRSA})
    BY <1>5, SigningLeads, Zenon
  <2>2. held.hmacKey = Key(m) /\ held.aesEncrypted = Cipher(m)
    BY <1>5 DEF HasCipher, HasKeys, Holds
  <2>3. Goes(m, [hmac |-> [key |-> held.hmacKey, over |-> held.aesEncrypted]])
    BY <2>1 DEF Leads, Turn, Ops, bag
  <2>4. Goes(m, [hmac |-> Mac(m)])
    BY <2>2, <2>3, Zenon DEF Mac
  <2>5. calls'[m].todo = AtEncryptRSA /\ more = With([hmac |-> Mac(m)], held)
    BY <2>1, <2>4, GoesOnly, Zenon
  <2>6. Adds(held, more, "hmac", Mac(m))
    BY <2>5, WithField, Zenon
  <2>9. HasCipher(m, more)
    BY <1>5, <2>6, CipherStays
  <2>7. IsExtended(m, more)
    BY <2>6, <2>9, Zenon DEF IsExtended, Adds
  <2>8. QED
    BY <1>0, <2>4, <2>5, <2>7, Zenon DEF Signing
<1>c. ASSUME IsExtended(m, held) PROVE ToRsa(m) = Content(m)
  <2>1. "aesEncrypted" \in DOMAIN held /\ held.aesKey = Key(m) /\ held.hmacKey = Key(m)
    BY <1>c DEF IsExtended, HasCipher, HasKeys, Holds
  <2>2. ToRsa(m) = [keys |-> <<held.aesKey, held.hmacKey>>, length |-> CombinedLength]
    BY <2>1, Zenon DEF ToRsa, Combined, bag
  <2>3. QED
    BY <2>1, <2>2, Zenon DEF Content
<1>6. CASE todo = AtEncryptRSA /\ IsExtended(m, held)
  <2>1. Leads(todo, "encryptRSA", {AtSignData})
    BY <1>6, SigningLeads, Zenon
  <2>2. ToRsa(m) = Content(m)
    BY <1>6, <1>c, Zenon
  <2>3. Goes(m, [rsaEncrypted |-> ToRsa(m)])
    BY <2>1 DEF Leads, Turn, Ops
  <2>4. calls'[m].todo = AtSignData
        /\ more = With([rsaEncrypted |-> Content(m)], held)
    BY <2>1, <2>2, <2>3, GoesOnly, Zenon
  <2>5. Adds(held, more, "rsaEncrypted", Content(m))
    BY <2>4, WithField, Zenon
  <2>6. IsExtended(m, more)
    BY <1>6, <2>5, ExtendedStays
  <2>7. HasRsa(m, more)
    BY <2>5, <2>6, Zenon DEF HasRsa, Adds
  <2>8. QED
    BY <1>0, <2>3, <2>4, <2>7, Zenon DEF Signing
<1>7. CASE todo = AtSignData /\ HasRsa(m, held)
  <2>1. Leads(todo, "signData", {AtSignEncrypted})
    BY <1>7, SigningLeads, Zenon
  <2>2. ToRsa(m) = Content(m)
    BY <1>7, <1>c, Zenon DEF HasRsa
  <2>3. Goes(m, [signatureOfData |-> [by |-> signer, over |-> ToRsa(m)]])
    BY <2>1 DEF Leads, Turn, Ops
  <2> DEFINE x == [by |-> signer, over |-> Content(m)]
  <2>4. Goes(m, [signatureOfData |-> x])
    BY <2>2, <2>3, Zenon
  <2> HIDE DEF x
  <2>5. calls'[m].todo = AtSignEncrypted /\ more = With([signatureOfData |-> x], held)
    BY <2>1, <2>4, GoesOnly, Zenon
  <2>6. Adds(held, more, "signatureOfData", x)
    BY <2>5, WithField, Zenon
  <2>7. HasRsa(m, more)
    BY <1>7, <2>6, RsaStays
  <2>8. HasOneSignature(m, more, signer)
    BY <2>6, <2>7, Zenon DEF HasOneSignature, Adds, x
  <2>9. QED
    BY <1>0, <2>4, <2>5, <2>8, Zenon DEF Signing
<1>8. CASE todo = AtSignEncrypted /\ HasOneSignature(m, held, signer)
  <2>1. Leads(todo, "signEncrypted", {<< >>})
    BY <1>8, SigningLeads, Zenon
  <2>2. held.rsaEncrypted = Content(m)
    BY <1>8 DEF HasOneSignature, HasRsa, Holds
  <2>3. Goes(m, [signatureOfEncrypted |->
                    [by |-> signer, over |-> <<held.rsaEncrypted>>]])
    BY <2>1 DEF Leads, Turn, Ops, bag
  <2> DEFINE x == [by |-> signer, over |-> <<Content(m)>>]
  <2>4. Goes(m, [signatureOfEncrypted |-> x])
    BY <2>2, <2>3, Zenon
  <2> HIDE DEF x
  <2>5. calls'[m].todo = << >> /\ more = With([signatureOfEncrypted |-> x], held)
    BY <2>1, <2>4, GoesOnly, Zenon
  <2>6. Adds(held, more, "signatureOfEncrypted", x)
    BY <2>5, WithField, Zenon
  <2>7. HasOneSignature(m, more, signer)
    BY <1>8, <2>6, OneSignatureStays
  <2>8. IsSigned(m, more, signer)
    BY <2>6, <2>7, Zenon DEF IsSigned, Adds, x
  <2>9. QED
    BY <1>0, <2>4, <2>5, <2>8, Zenon DEF Signing
<1>9. QED
  BY <1>1, <1>2, <1>3, <1>4, <1>5, <1>6, <1>7, <1>8 DEF Signing

\* Every turn changes its own call only.
LEMMA TurnSame ==
    ASSUME NEW c, NEW op, Turn(c, op)
    PROVE  Same(c)
BY Zenon DEF Turn, Goes, GoesWithKeys

\* No call signs in the first state.
LEMMA SignInit == Init => SignInv
<1>1. ASSUME Init, NEW c \in Calls PROVE calls[c].fn # "encryptAndSign"
  BY <1>1 DEF Init, Idle
<1>2. QED
  BY <1>1 DEF SignInv

\* And whichever call moves, those that sign keep to their chain.
LEMMA SignStep == OnceInv /\ SignInv /\ [Next]_vars => SignInv'
<1> SUFFICES ASSUME OnceInv, SignInv, [Next]_vars,
                    NEW m \in Calls, calls'[m].fn = "encryptAndSign"
             PROVE  /\ calls'[m].args.length = ContentLength[m]
                    /\ Sound(calls'[m]) =>
                        Signing(m, calls'[m].todo, calls'[m].bag, calls'[m].args.signer)
  BY Zenon DEF SignInv, Sound, Signing, HasKeys, HasCipher, IsExtended, HasRsa,
     HasOneSignature, IsSigned, Holds, Content, Cipher, Mac, Key
<1>1. CASE calls'[m] = calls[m]
  BY <1>1, Zenon DEF SignInv
<1>2. CASE Start(m)
  <2>1. PICK args :
          args.length = ContentLength[m] /\ BegunWith(m, "encryptAndSign", args, AtGenerateAES)
    BY <1>2, StartsSigning, Zenon
  <2>2. calls'[m].args = args /\ calls'[m].todo = AtGenerateAES
    BY <2>1, Zenon DEF BegunWith
  <2>3. QED
    BY <2>1, <2>2, Zenon DEF Signing
<1>3. CASE Settles(m)
  <2>1. calls[m].todo # << >> /\ (Stops(m) \/ Turn(m, Head(calls[m].todo)))
    BY <1>3, Turns
  <2>2. Same(m)
    BY <2>1, TurnSame, Zenon DEF Stops
  <2>3. /\ calls[m].fn = "encryptAndSign" /\ calls'[m].args = calls[m].args
        /\ calls[m].args.length = ContentLength[m]
        /\ Signing(m, calls[m].todo, calls[m].bag, calls[m].args.signer)
    BY <2>1, <2>2, Zenon DEF Same, SignInv, Sound
  <2>4. CASE Stops(m)
    <3>1. ~Sound(calls'[m])
      BY <2>4, StoppedIsNotSound, Zenon
    <3>2. QED
      BY <2>3, <3>1, Zenon
  <2>5. CASE Turn(m, Head(calls[m].todo))
    BY <2>1, <2>3, <2>5, SigningGoes, Zenon
  <2>6. QED
    BY <2>1, <2>4, <2>5
<1>4. ASSUME NEW c \in Calls \ {m}, Start(c) \/ Settles(c)
      PROVE  calls'[m] = calls[m]
  <2>1. CASE Start(c)
    BY <2>1, Starts
  <2>2. CASE Settles(c)
    <3>1. Same(c)
      BY <2>2, Turns, TurnSame, Zenon DEF Stops
    <3>2. QED
      BY <3>1 DEF Same
  <2>3. QED
    BY <1>4, <2>1, <2>2
<1>5. QED
  BY <1>1, <1>2, <1>3, <1>4 DEF Next, vars

----------------------------------------------------------------------------
(* What arrives.                                                           *)

Messages == Sent({"encryptAndSign"})

\* Each item of a dictionary is one of a message, though not all of one.
Honest(d) ==
    \A l \in DOMAIN d : \E m \in Messages :
        l \in Range(Layout(m)) /\ d[l] = calls[m].bag[l]

OfMessages(fns, d) ==
    \A l \in DOMAIN d : \E m \in Sent(fns) :
        l \in Range(Layout(m)) /\ d[l] = calls[m].bag[l]

\* The items of a message.
Labels(m) ==
    {"rsaEncrypted", "signatureOfData", "signatureOfEncrypted"} \cup
    (IF "aesEncrypted" \in DOMAIN calls[m].bag THEN {"aesEncrypted", "hmac"} ELSE {})

LEMMA LayoutFacts ==
    ASSUME NEW m, calls[m].fn = "encryptAndSign"
    PROVE  /\ Layout(m) \in Seq(Labels(m))
           /\ Range(Layout(m)) \subseteq Labels(m)
           /\ "rsaEncrypted" \in Range(Layout(m))
<1> DEFINE aes == IF "aesEncrypted" \in DOMAIN calls[m].bag
                  THEN <<"aesEncrypted", "hmac">> ELSE << >>
           rsa == <<"rsaEncrypted", "signatureOfData", "signatureOfEncrypted">>
<1>1. Layout(m) = rsa \o aes
  BY DEF Layout
<1> DEFINE S == Labels(m)
<1>2. rsa \in Seq(S) /\ aes \in Seq(S)
  <2>1. /\ "rsaEncrypted" \in S /\ "signatureOfData" \in S
        /\ "signatureOfEncrypted" \in S
        /\ "aesEncrypted" \in DOMAIN calls[m].bag => "aesEncrypted" \in S /\ "hmac" \in S
    BY DEF Labels
  <2> HIDE DEF S
  <2>2. QED
    BY <2>1
<1>3. Len(rsa) = 3 /\ rsa[1] = "rsaEncrypted"
  OBVIOUS
<1>4. Layout(m) \in Seq(Labels(m)) /\ Len(Layout(m)) >= 3 /\ Layout(m)[1] = "rsaEncrypted"
  <2> HIDE DEF rsa, aes, S
  <2>1. rsa \o aes \in Seq(S) /\ Len(rsa \o aes) >= 3 /\ (rsa \o aes)[1] = "rsaEncrypted"
    <3>1. ASSUME NEW x \in Seq(S), NEW y \in Seq(S), Len(x) = 3
          PROVE  x \o y \in Seq(S) /\ Len(x \o y) >= 3 /\ (x \o y)[1] = x[1]
      <4>1. Len(y) \in Nat /\ x \o y \in Seq(S) /\ Len(x \o y) = Len(x) + Len(y)
        OBVIOUS
      <4>2. (x \o y)[1] = x[1]
        BY <3>1, ConcatProperties
      <4>3. QED
        BY <3>1, <4>1, <4>2
    <3>2. QED
      BY <1>2, <1>3, <3>1, Zenon
  <2>2. QED
    BY <1>1, <2>1 DEF S
<1>5. Range(Layout(m)) \subseteq Labels(m) /\ "rsaEncrypted" \in Range(Layout(m))
  BY <1>4 DEF Range
<1>6. QED
  BY <1>4, <1>5

\* What decode or an application makes of messages is of messages.
LEMMA ArrivalsOf ==
    ASSUME NEW fns, NEW d \in Arrivals(fns)
    PROVE  OfMessages(fns, d)
<1>1. ASSUME NEW c \in Sent(fns), NEW n \in 1..Len(Packed(c)),
             decode(SubSeq(Packed(c), 1, n)).ok
      PROVE  OfMessages(fns, ToDict(decode(SubSeq(Packed(c), 1, n)).items))
  <2> DEFINE labels == Layout(c)
             held == calls[c].bag
             items == Items(labels, held)
             got == decode(SubSeq(Packed(c), 1, n)).items
  <2>2. labels \in Seq(DOMAIN LABEL_TO_INDEX)
    BY LayoutLabels
  <2>3. Packed(c) = encode(items)
    BY PackedItems
  <2>4. \A i \in DOMAIN got : i \in DOMAIN labels /\
            got[i] = [label |-> labels[i], data |-> <<held[labels[i]]>>]
    <3>0. Cuts(labels, held, Packed(c))
      BY <2>2, <2>3, ItemsDecode
    <3>1. Begins(decode(SubSeq(Packed(c), 1, n)), labels, held)
      BY <3>0, Zenon DEF Cuts
    <3>2. QED
      BY <1>1, <3>1, Zenon DEF Begins
  <2> HIDE DEF got
  <2>5. ASSUME NEW i \in DOMAIN got
        PROVE  /\ got[i].label = labels[i] /\ labels[i] \in Range(labels)
               /\ got[i].data[1] = held[labels[i]]
    <3>1. i \in DOMAIN labels
      BY <2>4
    <3>2. got[i] = [label |-> labels[i], data |-> <<held[labels[i]]>>]
      BY <2>4, <3>1
    <3>3. labels[i] \in Range(labels)
      BY <3>1 DEF Range
    <3>4. QED
      BY <3>2, <3>3
  <2>6. ASSUME NEW l \in DOMAIN ToDict(got)
        PROVE  l \in Range(labels) /\ ToDict(got)[l] = held[l]
    <3>1. PICK i \in DOMAIN got : got[i].label = l
      BY DEF ToDict
    <3> DEFINE j == CHOOSE i2 \in DOMAIN got : got[i2].label = l
    <3>2. j \in DOMAIN got /\ got[j].label = l
      BY <3>1
    <3>3. ToDict(got)[l] = got[j].data[1]
      BY DEF ToDict
    <3> HIDE DEF j
    <3>4. QED
      BY <2>5, <3>2, <3>3
  <2>7. QED
    BY <2>6, Zenon DEF OfMessages, got
<1>2. ASSUME NEW c \in Sent(fns), NEW e \in Sent(fns), NEW S \in Confusions,
             d = [l \in DOMAIN Message(c) |->
                    IF l \in S \cap DOMAIN Message(e) THEN Message(e)[l] ELSE Message(c)[l]]
      PROVE  OfMessages(fns, d)
  <2>1. ASSUME NEW m
        PROVE  /\ DOMAIN Message(m) = Range(Layout(m))
               /\ \A l \in Range(Layout(m)) : Message(m)[l] = calls[m].bag[l]
    BY DEF Message
  <2>2. ASSUME NEW l \in DOMAIN d
        PROVE  \E m \in Sent(fns) : l \in Range(Layout(m)) /\ d[l] = calls[m].bag[l]
    <3>1. l \in DOMAIN Message(c)
          /\ d[l] = IF l \in S \cap DOMAIN Message(e) THEN Message(e)[l] ELSE Message(c)[l]
      BY <1>2
    <3>2. CASE l \in S \cap DOMAIN Message(e)
      BY <2>1, <3>1, <3>2
    <3>3. CASE l \notin S \cap DOMAIN Message(e)
      BY <2>1, <3>1, <3>3
    <3>4. QED
      BY <3>2, <3>3
  <2>3. QED
    BY <2>2, Zenon DEF OfMessages
<1>3. CASE d \in {ToDict(decode(b).items) :
                    b \in {b \in UNION {{SubSeq(Packed(c), 1, n) :
                                n \in 1..Len(Packed(c))} : c \in Sent(fns)} :
                            decode(b).ok}}
  <2>1. PICK c \in Sent(fns) : \E n \in 1..Len(Packed(c)) :
            /\ decode(SubSeq(Packed(c), 1, n)).ok
            /\ d = ToDict(decode(SubSeq(Packed(c), 1, n)).items)
    BY <1>3
  <2>2. QED
    BY <1>1, <2>1
<1>4. CASE d \in {[l \in DOMAIN Message(c) |->
                    IF l \in S \cap DOMAIN Message(e) THEN Message(e)[l]
                    ELSE Message(c)[l]] :
                    c \in Sent(fns), e \in Sent(fns), S \in Confusions}
  BY <1>2, <1>4
<1>5. QED
  BY <1>3, <1>4 DEF Arrivals
LEMMA ArrivalsHonest ==
    ASSUME NEW d \in Arrivals({"encryptAndSign"})
    PROVE  Honest(d)
BY ArrivalsOf, Zenon DEF OfMessages, Honest, Messages

----------------------------------------------------------------------------
(* What was sent does not change.                                          *)

LEMMA MovesOne ==
    ASSUME OnceInv, [Next]_vars, NEW d \in Calls
    PROVE  calls'[d] = calls[d] \/ Start(d) \/ Settles(d)
<1>1. ASSUME NEW c \in Calls \ {d}, Start(c) \/ Settles(c)
      PROVE  calls'[d] = calls[d]
  <2>1. CASE Start(c)
    BY <2>1, Starts
  <2>2. CASE Settles(c)
    <3>1. Same(c)
      BY <2>2, Turns, TurnSame, Zenon DEF Stops
    <3>2. QED
      BY <3>1 DEF Same
  <2>3. QED
    BY <1>1, <2>1, <2>2
<1>2. QED
  BY <1>1 DEF Next, vars

LEMMA MessageStays ==
    ASSUME OnceInv, [Next]_vars, NEW m \in Messages
    PROVE  /\ m \in Calls /\ calls'[m] = calls[m] /\ m \in Messages'
           /\ Layout(m)' = Layout(m)
<1>1. m \in Calls /\ calls[m].fn = "encryptAndSign" /\ calls[m].said = <<"ok">>
  BY DEF Messages, Sent
<1>2. calls[m].todo = << >>
  BY <1>1 DEF OnceInv, Finished
<1>3. ~Start(m)
  BY <1>1 DEF Start
<1>4. ~Settles(m)
  BY <1>1, <1>2, Turns
<1>5. calls'[m] = calls[m]
  BY <1>1, <1>3, <1>4, MovesOne
<1>6. m \in Messages'
  BY <1>1, <1>5 DEF Messages, Sent
<1>7. Layout(m)' = Layout(m)
  BY <1>5, Zenon DEF Layout
<1>8. QED
  BY <1>1, <1>5, <1>6, <1>7

LEMMA HonestStays ==
    ASSUME OnceInv, [Next]_vars, NEW d, Honest(d)
    PROVE  Honest(d)'
<1>1. ASSUME NEW l \in DOMAIN d
      PROVE  \E m \in Messages' : l \in Range(Layout(m)') /\ d[l] = calls'[m].bag[l]
  <2>1. PICK m \in Messages : l \in Range(Layout(m)) /\ d[l] = calls[m].bag[l]
    BY Zenon DEF Honest
  <2>2. QED
    BY <2>1, MessageStays, Zenon
<1>2. QED
  BY <1>1, Zenon DEF Honest

\* A message is signed as its call says.
LEMMA MessageIsSigned ==
    ASSUME OnceInv, SignInv, NEW m \in Messages
    PROVE  IsSigned(m, calls[m].bag, calls[m].args.signer)
<1>1. m \in Calls /\ calls[m].fn = "encryptAndSign" /\ calls[m].said = <<"ok">>
  BY DEF Messages, Sent
<1>2. calls[m].todo = << >>
  BY <1>1 DEF OnceInv, Finished
<1>3. Signing(m, << >>, calls[m].bag, calls[m].args.signer)
  BY <1>1, <1>2 DEF SignInv, Sound
<1>4. << >> \notin {AtGenerateAES, AtGenerateHMAC, AtExportAES, AtExportHMAC, AtImportAES,
                    AtImportHMAC, AtCacheAES, AtCacheHMAC, AtEncryptAES, AtSignHMAC,
                    AtEncryptRSA, AtSignData, AtSignEncrypted}
  BY SigningLeads, Zenon DEF Leads
<1>5. QED
  BY <1>3, <1>4 DEF Signing

\* So is what arrives: a signature is of what its signer sent, an HMAC of what
\* was encrypted with the same keys.
LEMMA HonestValues ==
    ASSUME OnceInv, SignInv, NEW d, Honest(d)
    PROVE  /\ "signatureOfData" \in DOMAIN d => \E m \in Messages :
                d["signatureOfData"] =
                    [by |-> calls[m].args.signer, over |-> Content(m)]
           /\ "hmac" \in DOMAIN d => \E m \in Messages : d["hmac"] = Mac(m)
<1>1. ASSUME "signatureOfData" \in DOMAIN d
      PROVE  \E m \in Messages :
                d["signatureOfData"] =
                    [by |-> calls[m].args.signer, over |-> Content(m)]
  <2>1. PICK m \in Messages : d["signatureOfData"] = calls[m].bag["signatureOfData"]
    BY <1>1, Zenon DEF Honest
  <2>2. QED
    BY <2>1, MessageIsSigned, Zenon DEF IsSigned, HasOneSignature, Holds
<1>2. ASSUME "hmac" \in DOMAIN d
      PROVE  \E m \in Messages : d["hmac"] = Mac(m)
  <2>1. PICK m \in Messages :
            "hmac" \in Range(Layout(m)) /\ d["hmac"] = calls[m].bag["hmac"]
    BY <1>2, Zenon DEF Honest
  <2>2. calls[m].fn = "encryptAndSign"
    BY DEF Messages, Sent
  <2>3. "hmac" \in Labels(m)
    BY <2>1, <2>2, LayoutFacts, Zenon
  <2>4. "aesEncrypted" \in DOMAIN calls[m].bag
    BY <2>3 DEF Labels
  <2>5. QED
    BY <2>1, <2>4, MessageIsSigned, Zenon
    DEF IsSigned, HasOneSignature, HasRsa, IsExtended, Holds
<1>3. QED
  BY <1>1, <1>2

----------------------------------------------------------------------------
(* The reading calls.                                                      *)

\* A message of the party the call verifies with.
Owned(m, signer) == m \in Messages /\ calls[m].args.signer = signer

\* How far verifyAndDecrypt is with d, and whose keys it holds then.
Reading(d, todo, held, signer) ==
    \/ todo \in {AtVerifyEncrypted(AesPart(d)), AtDecryptRSA(AesPart(d)),
                 AtVerifyData(AesPart(d))}
    \/ /\ "aesEncrypted" \in DOMAIN d
       /\ \E m \in Messages : /\ Owned(m, signer)
            /\ \/ todo \in {AtOpenAES, AtOpenHMAC, AtVerifyHMAC} /\ HasKeys(m, held)
               \/ /\ todo = AtDecryptAES /\ HasKeys(m, held)
                  /\ d["aesEncrypted"] = Cipher(m)
               \/ todo = << >> /\ Holds(held, "text", m)
    \/ /\ "aesEncrypted" \notin DOMAIN d /\ todo = << >>
       /\ \E m \in Messages :
            Owned(m, signer) /\ Holds(held, "text", Content(m))
ReadInv ==
    \A c \in Calls : calls[c].fn = "verifyAndDecrypt" =>
        /\ Honest(calls[c].args.dict)
        /\ Sound(calls[c]) =>
            Reading(calls[c].args.dict, calls[c].todo, calls[c].bag, calls[c].args.signer)

LEMMA OwnedStays ==
    ASSUME OnceInv, [Next]_vars, NEW m, NEW signer, Owned(m, signer)
    PROVE  Owned(m, signer)' /\ calls'[m] = calls[m] /\ m \in Messages'
<1>1. m \in Messages /\ calls[m].args.signer = signer
  BY DEF Owned
<1>2. QED
  BY <1>1, MessageStays, Zenon DEF Owned

LEMMA ReadingStays ==
    ASSUME OnceInv, [Next]_vars, NEW d, NEW todo, NEW held, NEW signer,
           Reading(d, todo, held, signer)
    PROVE  Reading(d, todo, held, signer)'
<1>1. ASSUME NEW m \in Messages, Owned(m, signer)
      PROVE  /\ m \in Messages' /\ Owned(m, signer)'
  BY <1>1, OwnedStays, Zenon
<1>2. QED
  BY <1>1, Zenon DEF Reading

\* The keys that aesDecrypt takes from the payload, and the payload as text.
LEMMA WithPayload ==
    ASSUME NEW held, NEW p, NEW a, NEW h
    PROVE  /\ Holds(With([payload |-> p, aesKey |-> a, hmacKey |-> h], held), "aesKey", a)
           /\ Holds(With([payload |-> p, aesKey |-> a, hmacKey |-> h], held), "hmacKey", h)
           /\ Holds(With([payload |-> p, text |-> a], held), "text", a)
<1> DEFINE new == [payload |-> p, aesKey |-> a, hmacKey |-> h]
           new2 == [payload |-> p, text |-> a]
<1>1. /\ DOMAIN new = {"payload", "aesKey", "hmacKey"}
      /\ new["aesKey"] = a /\ new["hmacKey"] = h
      /\ DOMAIN new2 = {"payload", "text"} /\ new2["text"] = a
  OBVIOUS
<1> HIDE DEF new, new2
<1>2. ASSUME NEW n, NEW l \in DOMAIN n
      PROVE  Holds(With(n, held), l, n[l])
  BY WithGet DEF Holds
<1>3. /\ Holds(With(new, held), "aesKey", a) /\ Holds(With(new, held), "hmacKey", h)
      /\ Holds(With(new2, held), "text", a)
  BY <1>1, <1>2
<1>4. QED
  BY <1>3 DEF new, new2

\* The signature binds the payload to a message of the signer.
LEMMA PayloadIsContent ==
    ASSUME OnceInv, SignInv, NEW d, Honest(d), "signatureOfData" \in DOMAIN d,
           NEW signer, NEW payload,
           d["signatureOfData"] = [by |-> signer, over |-> payload]
    PROVE  \E m \in Messages : Owned(m, signer) /\ payload = Content(m)
<1>1. PICK m \in Messages :
        d["signatureOfData"] =
            [by |-> calls[m].args.signer, over |-> Content(m)]
  BY HonestValues, Zenon
<1> DEFINE own == calls[m].args.signer
           content == Content(m)
<1>2. [by |-> signer, over |-> payload] = [by |-> own, over |-> content]
  BY <1>1, Zenon
<1> HIDE DEF own, content
<1>3. signer = own /\ payload = content
  BY <1>2
<1>4. QED
  BY <1>3 DEF Owned, own, content

\* Which is two keys, both of the message it belongs to.
LEMMA PayloadIsKeys ==
    ASSUME NEW m, NEW payload, payload = Content(m)
    PROVE  payload.keys[1] = Key(m) /\ payload.keys[2] = Key(m)
<1> DEFINE key == Key(m)
<1>1. payload = [keys |-> <<key, key>>, length |-> CombinedLength]
  BY Zenon DEF Content
<1> HIDE DEF key
<1>2. payload.keys = <<key, key>>
  BY <1>1
<1>3. QED
  BY <1>2 DEF key

\* The HMAC binds the AES part to the message whose keys are held.
LEMMA HmacBinds ==
    ASSUME OnceInv, SignInv, NEW d, Honest(d), "hmac" \in DOMAIN d,
           NEW m, NEW x, d["hmac"] = [key |-> Key(m), over |-> x]
    PROVE  x = Cipher(m)
<1>1. PICK m2 \in Messages : d["hmac"] = Mac(m2)
  BY HonestValues, Zenon
<1>2. [key |-> Key(m), over |-> x] = [key |-> Key(m2), over |-> Cipher(m2)]
  BY <1>1, Zenon DEF Mac
<1> DEFINE a == Key(m)
           b == Key(m2)
           y == Cipher(m2)
<1>3. a = b /\ x = y
  <2> HIDE DEF a, b, y
  <2>1. [key |-> a, over |-> x] = [key |-> b, over |-> y]
    BY <1>2 DEF a, b, y
  <2>2. QED
    BY <2>1
<1>4. m = m2
  BY <1>3 DEF Key
<1>5. QED
  BY <1>3, <1>4, Zenon

\* A step of verifyAndDecrypt leads on as its code says.
LEMMA ReadingGoes ==
    ASSUME OnceInv, SignInv, NEW c \in Calls,
           Honest(calls[c].args.dict),
           Reading(calls[c].args.dict, calls[c].todo, calls[c].bag, calls[c].args.signer),
           calls[c].todo # << >>, Turn(c, Head(calls[c].todo))
    PROVE  Reading(calls[c].args.dict, calls'[c].todo, calls'[c].bag, calls[c].args.signer)
<1> DEFINE todo == calls[c].todo
           held == calls[c].bag
           signer == calls[c].args.signer
           d == calls[c].args.dict
           more == calls'[c].bag
           part == AesPart(d)
           Done == Reading(d, calls'[c].todo, more, signer)
<1>p. /\ part \in Seq(Ops) /\ SymDecrypt # << >>
      /\ part = IF "aesEncrypted" \in DOMAIN d THEN SymDecrypt ELSE << >>
  <2>1. SymDecrypt # << >>
    BY ReadingChains, ThenFacts, OpsAre
  <2>2. QED
    BY <2>1, ReadingChain, Zenon DEF AesPart
<1>1. CASE todo = AtVerifyEncrypted(part)
  <2>1. Leads(todo, "verifyEncrypted", {AtDecryptRSA(part)})
    BY <1>1, <1>p, ReadingLeads, Zenon
  <2>2. Goes(c, << >>)
    BY <2>1 DEF Leads, Turn, Ops
  <2>3. calls'[c].todo = AtDecryptRSA(part)
    BY <2>1, <2>2, GoesOnly, Zenon
  <2>4. QED
    BY <2>3, Zenon DEF Reading
<1>2. CASE todo = AtDecryptRSA(part)
  <2>1. /\ Leads(todo, "decryptRSA", {AtVerifyData(part)})
        /\ Tail(todo) # SymDecrypt
    BY <1>2, <1>p, ReadingLeads, Zenon
  <2>2. GoesWithKeys(c, dict(c).rsaEncrypted)
    BY <2>1 DEF Leads, Turn, Ops
  <2>3. \E new : Goes(c, new)
    BY <2>1, <2>2, Zenon DEF GoesWithKeys
  <2>4. calls'[c].todo = AtVerifyData(part)
    BY <2>1, <2>3, GoesOnly, Zenon
  <2>5. QED
    BY <2>4, Zenon DEF Reading
<1>3. CASE todo = AtVerifyData(part)
  <2> DEFINE payload == held.payload
  <2>0. Head(todo) = "verifyData"
    BY <1>3, <1>p, ThenFacts, OpsAre DEF AtVerifyData
  <2>1. /\ "signatureOfData" \in DOMAIN d
        /\ d["signatureOfData"] = [by |-> signer, over |-> payload]
        /\ GoesWithKeys(c, payload)
    BY <2>0 DEF Turn, Ops, dict, bag
  <2>2. PICK m \in Messages : Owned(m, signer) /\ payload = Content(m)
    <3>1. Honest(d)
      OBVIOUS
    <3> HIDE DEF d, signer, payload
    <3>2. QED
      BY <2>1, <3>1, PayloadIsContent
  <2>3. Tail(todo) = part
    BY <1>3, <1>p, ReadingLeads, Zenon
  <2>4. CASE "aesEncrypted" \in DOMAIN d
    <3>1. Leads(todo, "verifyData", {AtVerifyHMAC, AtOpenAES})
      BY <1>3, <1>p, <2>4, ReadingLeads, Zenon
    <3>2. /\ payload.length = CombinedLength
          /\ Goes(c, [payload |-> payload, aesKey |-> payload.keys[1],
                      hmacKey |-> payload.keys[2]])
      BY <1>p, <2>1, <2>3, <2>4, Zenon DEF GoesWithKeys
    <3>3. payload.keys[1] = Key(m) /\ payload.keys[2] = Key(m)
      BY <2>2, <3>2, PayloadIsKeys, Zenon
    <3>4. /\ calls'[c].todo \in {AtVerifyHMAC, AtOpenAES}
          /\ more = With([payload |-> payload, aesKey |-> Key(m), hmacKey |-> Key(m)], held)
      BY <3>1, <3>2, <3>3, GoesTo, Zenon
    <3>5. HasKeys(m, more)
      BY <3>4, WithPayload, Zenon DEF HasKeys
    <3>6. QED
      BY <2>2, <2>4, <3>4, <3>5 DEF Reading
  <2>5. CASE "aesEncrypted" \notin DOMAIN d
    <3>1. Leads(todo, "verifyData", {<< >>})
      BY <1>3, <1>p, <2>5, ReadingLeads, Zenon
    <3>2. Goes(c, [payload |-> payload, text |-> payload])
      BY <1>p, <2>1, <2>3, <2>5, Zenon DEF GoesWithKeys
    <3>3. calls'[c].todo = << >> /\ more = With([payload |-> payload, text |-> payload], held)
      BY <3>1, <3>2, GoesOnly, Zenon
    <3>4. Holds(more, "text", payload)
      BY <3>3, WithPayload, Zenon
    <3>5. QED
      BY <2>2, <2>5, <3>3, <3>4, Zenon DEF Reading
  <2>6. QED
    BY <2>4, <2>5
<1>4. ASSUME "aesEncrypted" \in DOMAIN d,
             NEW m \in Messages, Owned(m, signer),
             todo \in {AtOpenAES, AtOpenHMAC}, HasKeys(m, held)
      PROVE  Done
  <2>1. PICK op \in {"importKeyAES", "importKeyHMAC"}, then \in {AtOpenHMAC, AtVerifyHMAC} :
            Leads(todo, op, {then})
    BY <1>4, ReadingLeads, Zenon
  <2>2. Goes(c, << >>)
    BY <2>1 DEF Leads, Turn, Ops
  <2>3. calls'[c].todo = then /\ more = With(<< >>, held)
    BY <2>1, <2>2, GoesOnly, Zenon
  <2>4. HasKeys(m, more)
    BY <1>4, <2>3, WithNone, StaysKept, Zenon
  <2>5. QED
    BY <1>4, <2>1, <2>3, <2>4, Zenon DEF Reading
<1>5. ASSUME "aesEncrypted" \in DOMAIN d,
             NEW m \in Messages, Owned(m, signer),
             todo = AtVerifyHMAC, HasKeys(m, held)
      PROVE  Done
  <2>1. Leads(todo, "verifyHMAC", {AtDecryptAES})
    BY <1>5, ReadingLeads, Zenon
  <2>2. /\ "hmac" \in DOMAIN d /\ Goes(c, << >>)
        /\ d["hmac"] = [key |-> held["hmacKey"], over |-> d["aesEncrypted"]]
    BY <2>1 DEF Leads, Turn, Ops, dict, bag
  <2>3. held["hmacKey"] = Key(m)
    BY <1>5, Zenon DEF HasKeys, Holds
  <2>4. d["aesEncrypted"] = Cipher(m)
    <3> DEFINE x == d["aesEncrypted"]
    <3>1. Honest(d) /\ "hmac" \in DOMAIN d /\ d["hmac"] = [key |-> Key(m), over |-> x]
      BY <2>2, <2>3
    <3> HIDE DEF d, x
    <3>2. x = Cipher(m)
      BY <3>1, HmacBinds
    <3>3. QED
      BY <3>2 DEF x
  <2>5. calls'[c].todo = AtDecryptAES /\ more = With(<< >>, held)
    BY <2>1, <2>2, GoesOnly, Zenon
  <2>6. HasKeys(m, more)
    BY <1>5, <2>5, WithNone, StaysKept, Zenon
  <2>7. QED
    BY <1>5, <2>4, <2>5, <2>6, Zenon DEF Reading
<1>6. ASSUME "aesEncrypted" \in DOMAIN d,
             NEW m \in Messages, Owned(m, signer),
             todo = AtDecryptAES, HasKeys(m, held), d["aesEncrypted"] = Cipher(m)
      PROVE  Done
  <2>1. Leads(todo, "decryptAES", {<< >>})
    BY <1>6, ReadingLeads, Zenon
  <2>2. \/ /\ d["aesEncrypted"].key = held["aesKey"]
           /\ Goes(c, [text |-> d["aesEncrypted"].text])
        \/ d["aesEncrypted"].key # held["aesKey"]
    BY <2>1 DEF Leads, Turn, Ops, dict, bag
  <2>3. d["aesEncrypted"].key = Key(m) /\ d["aesEncrypted"].text = m
    BY <1>6 DEF Cipher
  <2>4. held["aesKey"] = Key(m)
    BY <1>6, Zenon DEF HasKeys, Holds
  <2>5. Goes(c, [text |-> m])
    BY <2>2, <2>3, <2>4, Zenon
  <2>6. calls'[c].todo = << >> /\ more = With([text |-> m], held)
    BY <2>1, <2>5, GoesOnly, Zenon
  <2>7. Adds(held, more, "text", m)
    BY <2>6, WithField, Zenon
  <2>8. Holds(more, "text", m)
    BY <2>7, Zenon DEF Adds
  <2>9. QED
    BY <1>6, <2>6, <2>8, Zenon DEF Reading
<1>7. QED
  BY <1>1, <1>2, <1>3, <1>4, <1>5, <1>6 DEF Reading

\* No call reads in the first state.
LEMMA ReadInit == Init => ReadInv
<1>1. ASSUME Init, NEW c \in Calls PROVE calls[c].fn # "verifyAndDecrypt"
  BY <1>1 DEF Init, Idle
<1>2. QED
  BY <1>1 DEF ReadInv

\* What one call reads, after a step of any.
LEMMA ReadsOn ==
    ASSUME OnceInv, SignInv, ReadInv, [Next]_vars,
           NEW c \in Calls, calls'[c].fn = "verifyAndDecrypt"
    PROVE  /\ Honest(calls'[c].args.dict)
           /\ Sound(calls'[c]) =>
                Reading(calls'[c].args.dict, calls'[c].todo, calls'[c].bag,
                        calls'[c].args.signer)
<1>1. CASE calls'[c] = calls[c]
  BY <1>1, Zenon DEF ReadInv
<1>2. CASE Start(c)
  <2>1. PICK args :
            /\ args.dict \in Arrivals({"encryptAndSign"})
            /\ BegunWith(c, "verifyAndDecrypt", args,
                         AtVerifyEncrypted(AesPart(args.dict)))
    BY <1>2, StartsReading, Zenon
  <2>2. calls'[c].args = args /\ calls'[c].todo = AtVerifyEncrypted(AesPart(args.dict))
    BY <2>1, Zenon DEF BegunWith
  <2>3. Honest(args.dict)
    BY <2>1, ArrivalsHonest, Zenon
  <2>4. QED
    BY <2>2, <2>3, Zenon DEF Reading
<1>3. CASE Settles(c)
  <2>1. calls[c].todo # << >> /\ (Stops(c) \/ Turn(c, Head(calls[c].todo)))
    BY <1>3, Turns
  <2>2. Same(c)
    BY <2>1, TurnSame, Zenon DEF Stops
  <2>3. /\ calls[c].fn = "verifyAndDecrypt" /\ calls'[c].args = calls[c].args
        /\ Honest(calls[c].args.dict)
        /\ Reading(calls[c].args.dict, calls[c].todo, calls[c].bag, calls[c].args.signer)
    BY <2>1, <2>2, Zenon DEF Same, ReadInv, Sound
  <2>4. CASE Stops(c)
    <3>1. ~Sound(calls'[c])
      BY <2>4, StoppedIsNotSound, Zenon
    <3>2. QED
      BY <2>3, <3>1, Zenon
  <2>5. CASE Turn(c, Head(calls[c].todo))
    BY <2>1, <2>3, <2>5, ReadingGoes, Zenon
  <2>6. QED
    BY <2>1, <2>4, <2>5
<1>4. QED
  BY <1>1, <1>2, <1>3, MovesOne

\* And so for all, what was sent being as it was.
LEMMA ReadStep ==
    OnceInv /\ SignInv /\ ReadInv /\ [Next]_vars => ReadInv'
<1> SUFFICES ASSUME OnceInv, SignInv, ReadInv, [Next]_vars
             PROVE  ReadInv'
  OBVIOUS
<1>1. ASSUME NEW c \in Calls, calls'[c].fn = "verifyAndDecrypt",
             NEW d, d = calls'[c].args.dict
      PROVE  Honest(d)'
  BY <1>1, ReadsOn, HonestStays, Zenon
<1>2. ASSUME NEW c \in Calls, calls'[c].fn = "verifyAndDecrypt",
             calls'[c].todo # << >> \/ calls'[c].said \in {<<"ok">>, <<"ok", "error">>},
             NEW d, d = calls'[c].args.dict, NEW signer, signer = calls'[c].args.signer,
             NEW todo, todo = calls'[c].todo, NEW held, held = calls'[c].bag
      PROVE  Reading(d, todo, held, signer)'
  <2>1. Reading(d, todo, held, signer)
    BY <1>2, ReadsOn, Zenon DEF Sound
  <2>2. QED
    BY <2>1, ReadingStays, Zenon
<1>3. ASSUME NEW c \in Calls, calls'[c].fn = "verifyAndDecrypt"
      PROVE  \A l \in DOMAIN calls'[c].args.dict : \E m \in Messages' :
                l \in Range(Layout(m)') /\ calls'[c].args.dict[l] = calls'[m].bag[l]
  BY <1>1, <1>3, ZenonT(30) DEF Honest
<1>4. ASSUME NEW c \in Calls, calls'[c].fn = "verifyAndDecrypt",
             calls'[c].todo # << >> \/ calls'[c].said \in {<<"ok">>, <<"ok", "error">>}
      PROVE  \/ calls'[c].todo \in {AtVerifyEncrypted(AesPart(calls'[c].args.dict)),
                                    AtDecryptRSA(AesPart(calls'[c].args.dict)),
                                    AtVerifyData(AesPart(calls'[c].args.dict))}
             \/ /\ "aesEncrypted" \in DOMAIN calls'[c].args.dict
                /\ \E m \in Messages' :
                     /\ m \in Messages' /\ calls'[m].args.signer = calls'[c].args.signer
                     /\ \/ /\ calls'[c].todo \in {AtOpenAES, AtOpenHMAC, AtVerifyHMAC}
                           /\ HasKeys(m, calls'[c].bag)
                        \/ /\ calls'[c].todo = AtDecryptAES /\ HasKeys(m, calls'[c].bag)
                           /\ calls'[c].args.dict["aesEncrypted"] = Cipher(m)
                        \/ calls'[c].todo = << >> /\ Holds(calls'[c].bag, "text", m)
             \/ /\ "aesEncrypted" \notin DOMAIN calls'[c].args.dict /\ calls'[c].todo = << >>
                /\ \E m \in Messages' :
                     /\ m \in Messages' /\ calls'[m].args.signer = calls'[c].args.signer
                     /\ Holds(calls'[c].bag, "text", Content(m))
  <2> DEFINE d == calls'[c].args.dict
             signer == calls'[c].args.signer
             todo == calls'[c].todo
             held == calls'[c].bag
  <2>1. PICK d1, signer1, todo1, held1 :
            d1 = d /\ signer1 = signer /\ todo1 = todo /\ held1 = held
    OBVIOUS
  <2>2. Reading(d1, todo1, held1, signer1)'
    BY <1>2, <1>4, <2>1, Zenon
  <2>3. \/ todo1 \in {AtVerifyEncrypted(AesPart(d1)), AtDecryptRSA(AesPart(d1)),
                      AtVerifyData(AesPart(d1))}
        \/ /\ "aesEncrypted" \in DOMAIN d1
           /\ \E m \in Messages' :
                /\ m \in Messages' /\ calls'[m].args.signer = signer1
                /\ \/ todo1 \in {AtOpenAES, AtOpenHMAC, AtVerifyHMAC} /\ HasKeys(m, held1)
                   \/ /\ todo1 = AtDecryptAES /\ HasKeys(m, held1)
                      /\ d1["aesEncrypted"] = Cipher(m)
                   \/ todo1 = << >> /\ Holds(held1, "text", m)
        \/ /\ "aesEncrypted" \notin DOMAIN d1 /\ todo1 = << >>
           /\ \E m \in Messages' : /\ m \in Messages' /\ calls'[m].args.signer = signer1
                                   /\ Holds(held1, "text", Content(m))
    BY <2>2, Zenon DEF Reading, Owned
  <2> HIDE DEF d, signer, todo, held
  <2>4. QED
    BY <2>1, <2>3, Zenon DEF d, signer, todo, held
<1>5. QED
  BY <1>3, <1>4, Zenon DEF ReadInv, Sound, Honest, Reading, Owned

----------------------------------------------------------------------------
\* A reading call that succeeded hands over what a message of its signer held.
LEMMA VerifiedBySign == OnceInv /\ SignInv /\ ReadInv => VerifiedIsSigned
<1> SUFFICES ASSUME OnceInv, SignInv, ReadInv,
                    NEW c \in Calls, calls[c].fn = "verifyAndDecrypt",
                    calls[c].said # << >>, calls[c].said[1] = "ok"
             PROVE  \E m \in Messages :
                        /\ calls[m].args.signer = calls[c].args.signer
                        /\ IF "aesEncrypted" \in DOMAIN dict(c)
                           THEN bag(c).text = m
                           ELSE bag(c).text = Message(m).rsaEncrypted
  BY DEF VerifiedIsSigned, Succeeded, Messages
<1> DEFINE d == calls[c].args.dict
           held == calls[c].bag
           signer == calls[c].args.signer
<1>1. calls[c].todo = << >> /\ Sound(calls[c])
  <2>1. calls[c].said \in Answers /\ calls[c].todo = << >>
    BY DEF OnceInv, Finished
  <2>2. <<"error">>[1] # "ok" /\ <<"error", "error">>[1] # "ok"
    OBVIOUS
  <2>3. calls[c].said \in {<<"ok">>, <<"ok", "error">>}
    BY <2>1, <2>2 DEF Answers
  <2>4. QED
    BY <2>1, <2>3 DEF Sound
<1>2. Reading(d, << >>, held, signer)
  BY <1>1, Zenon DEF ReadInv
<1>3. AesPart(d) \in Seq(Ops)
  BY ReadingChain
<1>4. << >> \notin {AtVerifyEncrypted(AesPart(d)), AtDecryptRSA(AesPart(d)),
                    AtVerifyData(AesPart(d)), AtOpenAES, AtOpenHMAC, AtVerifyHMAC,
                    AtDecryptAES}
  <2>1. AtVerifyData(AesPart(d)) # << >>
    BY <1>3, ThenFacts, OpsAre DEF AtVerifyData
  <2>2. QED
    BY <1>3, <2>1, ReadingLeads, Zenon DEF Leads
<1>5. \/ /\ "aesEncrypted" \in DOMAIN d
         /\ \E m \in Messages : Owned(m, signer) /\ Holds(held, "text", m)
      \/ /\ "aesEncrypted" \notin DOMAIN d
         /\ \E m \in Messages : Owned(m, signer) /\ Holds(held, "text", Content(m))
  BY <1>2, <1>4, Zenon DEF Reading
<1>6. ASSUME NEW m \in Messages
      PROVE  Message(m).rsaEncrypted = Content(m)
  <2>1. "rsaEncrypted" \in Range(Layout(m))
    BY LayoutFacts DEF Messages, Sent
  <2>2. Message(m).rsaEncrypted = calls[m].bag["rsaEncrypted"]
    BY <2>1 DEF Message
  <2>3. Holds(calls[m].bag, "rsaEncrypted", Content(m))
    BY MessageIsSigned, Zenon DEF IsSigned, HasOneSignature, HasRsa
  <2>4. QED
    BY <2>2, <2>3, Zenon DEF Holds
<1>7. QED
  BY <1>5, <1>6, Zenon DEF Owned, Holds, dict, bag

\* What verifyAndDecrypt hands over was sent by the owner of the key it verifies
\* with, for any calls, functions, platforms, keys objects, lengths and parties,
\* and whatever items an application confuses.
THEOREM VerifiedAreSigned == Spec => []VerifiedIsSigned
<1>1. Init => OnceInv /\ SignInv /\ ReadInv
  BY OnceInit, SignInit, ReadInit
<1>2. OnceInv /\ SignInv /\ ReadInv /\ [Next]_vars => OnceInv' /\ SignInv' /\ ReadInv'
  BY OnceStep, SignStep, ReadStep
<1>3. QED
  BY <1>1, <1>2, VerifiedBySign, PTL DEF Spec
=============================================================================
