# A TLA+ model of Crypto_Security_Projects

The repository holds several Java, Groovy and JavaScript programs that exchange
encrypted files and keep keys. This directory models what is hard to test in
them: programs that share a file, connections that share a port, asynchronous
calls of a web page that share keys and a database.

    tlc -config KeyStoreShared.cfg MCEmmaKeyStore.tla     (model checking)
    tlc -config CryptoCalls.cfg MCCryptoCalls.tla
    tlapm EmmaKeyStore_proofs.tla                         (proofs)
    tlapm Handshake_proofs.tla
    tlapm KeyDatabase_proofs.tla
    tlapm CryptoCalls_proofs.tla
    tlapm Packing_proofs.tla
    tlapm VerifiedCalls_proofs.tla
    tlapm DecryptedCalls_proofs.tla
    tlapm AnsweredCalls_proofs.tla

## 1. Inventory

| part | code | state | operations |
|---|---|---|---|
| Emma key store | `EmmaStorage/KeyPrimStorage.java`, `CertPrimStorage.java` (three copies: EmmaServer, EmmaClient, CloudGuards) | the file `/KeyStoreDir/EmmaKeyStore.keystore`; one `KeyStore` in the memory of each program | `createKeyStore`; `insertSecretKey`, `insertPrivateKey`, `insertPublicKey`, `insertCert`, `insertX509Certificate`; the five get methods |
| Security_Project transport | `ServerTransport/*`, `ClientTransport/*` | the port, the backlog of the `ServerSocket`, the sockets | `ServSocket` (bind, accept), `getConnectSocket`, writes, the end of a program |
| Security_Project server | `ServerMain/ServerMain.java` with `ServerHelpers`, `ServerSecurity` | where `main` is, the channel it reads, the channel it writes | dialogs, encryption, receive loop, `VerifySignature`, `PublicKeyEncSecretKey`, send loop |
| Security_Project client | `ClientMain/ClientMain.java` with `ClientHelpers`, `ClientSecurity` | where `main` is, two sockets | dialogs, sending of tokens, receive loop, verification, decryption |
| CloudGuardsPro key store | `EmmaStorage/*.groovy` | one output and one input stream, promised when the object is made; a `KeyStore` that travels in messages | actors `createKeyStore`, `insertKey`, `getKey`, `insertCert`, `getCert` |
| FileAsync | `FileAsync/{ClientMain,ServerMain}/*.groovy` | promises, agents around streams, one set of tasks per object | `BeginReceive`, `ServerEncrypt`, `AsymEncrypt`, `BeginSend`, `AuthClientMac`, and the client's counterparts |
| CryptoConcurrent | `CryptUtilClient/*.groovy` | actors, an agent and a `DataInputStream` around one channel | token actors, `BeginSend`, `BeginReceive`, authentication, decryption |
| CloudGuards coordinators | `Coordinators/*.groovy` | mailboxes of some fifteen actors | one request message each, answered to `sender` |
| File monitor and mask | `EmmaFileSecure/*.java` | watch services, file locks | `EventKind`, `EventContext`, the `LockFile*` and `FileMask*` methods |
| CloudGuardsPro utilities | `EmmaFileCore`, `EmmaStreamingMediumScale` | buffers | deflate, inflate, GZIP, chunked streaming |
| cipher primitives | `EmmaSecurity*`, `EmmaCipher*`, `ServerSecurity`, `ClientSecurity` | none | wrappers of the Java cryptography API |
| simplecrypto calls | `EmmaStreamingSolution/src/www/js/lib/simplecrypto.js` (`sym`, `asym`, `pbkdf2`, `pack`) | the closures of the calls under way; imported keys cached in the `keys` objects of the application | key generation, export and import; symmetric, RSA and password encryption and decryption; signatures; encoding and decoding |
| simplecrypto key storage | the same file (`storage`, `dbUtil`) | the object store "keys" of an IndexedDB database; connections, open requests and transactions | `put`, `get`, `delete` |
| client tokens | `app.js`, `clientUnique.js`, `ClientKeyAndAuth.js`, `clientAssym.js`, `lib/rsaKeyPair.js` | promises in a web page | fingerprint, IV, digest, secret key and MAC; key pairs |
| streaming sketches | `prims.js`, `clientAuthTokens.js`, `encAuth.js`, `player.js`, `ClientPrimSend.js` | none | empty functions |

How they interact. The key store copies have no callers in the repository: they
are a library, so the model lets a caller do anything the methods allow. Emma's
client and server name the same absolute path, and so share the file when they
run on one host, which a comment of `CipherClientPrimitives.java` says they do.
Security_Project's two programs talk over TCP: the client opens one connection
for its tokens and another for the reply; the server makes a new `ServerSocket`
on the same port for each of the two. FileAsync repeats that exchange with
GPars tasks; CryptoConcurrent is its client written again with actors. In the
streaming client an application calls simplecrypto with two callbacks; a call is
a chain of operations of WebCrypto, or of requests to IndexedDB, each of which
answers by a promise or an event. Calls meet where they share a `keys` object, a
message, or the database. The token functions use CryptoJS and Fingerprint2
instead and meet in the handler of `app.js`.

What is hard, and what makes each part correct:

* **Key store.** No lock; truncation before the entry is checked; a load that
  replaces memory before the password is checked; a store of the program's own
  memory. Correct means: a get gives what was inserted under that alias and
  password; an acknowledged key is not lost; a program knows what it wrote.
* **Handshake.** The rebinding of the port depends on the garbage collector;
  the queue of the port is the only thing that assigns connections to channels;
  either program may stop at any dialog. Correct means: the channels are those
  of one client; nothing is sent but under the key that was verified; nobody waits
  for ever.
* **Tasks and actors** (FileAsync, CryptoConcurrent, coordinators,
  CloudGuardsPro): `finally` runs before the callbacks; every `new` starts its
  own tasks; a reaction that never ends starves its mailbox.
* **File monitor and mask:** the service that is waited on is not the one that
  was registered with; a file is emptied before its lock is tried.
* **simplecrypto calls:** every operation may fail, on platforms that fail in
  different ways; key objects are filled in while others read them; the parts of
  a message are protected by different keys. Correct means: one callback per
  call; what is decrypted is what was sent, and by whom; no error without a cause.
* **simplecrypto storage:** an answer comes before the commit; calls of several
  pages run side by side. Correct means: the calls are those of one map, those of
  one page in the order in which it made them; no connection stays open.
* **Client tokens:** promises are used as if they had settled. Correct means:
  the tokens of different browsers differ.

`PROJECT.json` lists each hazard at its line, with the properties about it.

## 2. Modules

### EmmaKeyStore

`Proc` is the set of programs that share the file; each has one `KeyStore`
object (`obj`, `mem`) and one call in progress (`call`, `pc`). The steps of a
call are those another program, or a crash, can come between:

| code | actions |
|---|---|
| `new FileOutputStream` (KeyPrimStorage 28-33) | `OpenOut`, `OpenOutFails` |
| `setKeyEntry`, `setCertificateEntry` (71-74, CertPrimStorage 18-21) | `SetEntry`, with the refusals of the library in `Refused` |
| `KeyStore.store` (60, 77) | `StoreBegin`, `StoreEnd`, `StoreFail` |
| `new FileInputStream` (36-41) | `OpenIn` |
| `KeyStore.load`, then the lookup and the cast (102-134) | `LoadBegin`, `LoadEnd`, `LoadDisturbed`, `LoadBroken` |
| the caller and the machine | `CallCreate`, `CallInsert`, `CallGet`, `OwnInstance`, `MakeDirectory`, `Crash` |

The bytes of the file are abstracted to four kinds: absent, empty, a whole image
(with its author, its password and its entries) or torn. `clean` records
whether anybody touched the bytes under a process that writes or loads. A
disturbed writer leaves its own image, the other's, or a mixture; a torn file may
show entries of the image before it; a disturbed load fails on the digest, possibly
with some entries of either image already in memory: all are choices of the model. `inserted` and `acked` are history variables: what was
ever put into a `KeyStore`, and the inserts that returned, latest per alias.

Properties:

* `GetReturnsInserted`: a get returns only what an insert put under that alias,
  with that password (a certificate has none) and of the wanted type.
* `WriterSeesItsImage`: when the file is the image a program wrote, that
  program's `KeyStore` holds it, so its next insert drops nothing it wrote.
* `NoLostKey`: no image on disk misses an acknowledged key, however stale a kill or a
  failed load has left the memory that was written. It needs a program that is alone on
  a disk that does not fail. It says nothing of files that are torn or empty, nor of
  keys from before a `createKeyStore`, which empties the store by intent.
* `InsertKeepsOthers`, `RefusedCallKeepsKeys`: what the comments of the code
  promise and the code does not do (section 4).

### KeyVault, KeyStoreRefinement

`KeyVault` is the abstract specification: what a key store promises the one
program that uses it. `KeyStoreRefinement` instantiates it for `EmmaKeyStore`:
`held` is `acked` (the entries whose insert returned), `seal` is the password of
the file, `call` and `answer` are the program's call and its result. Truncations
map to `Break`, the ends of a store to `Write`, the ends of a load to `Answer`
or `Refuse`, and everything in between to stuttering.

* `ImplementsVault`: with one program and a disk that does not fail, every
  behaviour of the key store is one of the vault. A get gives what the last
  insert under the alias stored, null only where nothing is stored, and throws
  only for a wrong password or a wrong type. The vault also says what
  is lost: `Break` gives up the seal and so every get, until a write is done.

### SecurityTransport, SecurityServer, SecurityClient, Handshake

`SecurityTransport` has the port (`listening`, `backlog`), every connection
(`conn`, `data`) and what each client wrote to its first one last (`batch`). A connection is a client and one of "send" and "get"; only the
client knows which. `CloseListener` is what ends a `ServerSocket` the code does
not close: its queue is reset. `SecurityServer` and `SecurityClient` have one action per step of
the two `main` methods between blocking calls, and one for each way out of
them; dialogs that only inform are part of the step before. `Handshake` composes the
three: each action of one program leaves the other alone, and `early` records the
connections made while no second `ServerSocket` was there.

What the model tells apart in the data: whether all tokens were sent, whose public key
is in them and whose private key signed them, and whether the ciphers take the
`IvParameterSpec` they are given. The JDK's RSA refuses it, so with the JDK
`CipherTakesIV` is `{FALSE}` and no run gets past `WrapKey`; the runs that check
what comes after allow both answers.

`Genuine` are the clients that are ClientMain: they send one batch of tokens, signed
with their own key. Another program on the port sends any key, any signature and any
number of batches, of which the receive loop keeps the last. The server checks the
signature under the public key that came with it (`Verifies`; ServerMain 177-185) and
compares the digest with nothing, so a program that signs with a key of its own passes
as ClientMain does: no property says who the client is.

Properties:

* `ChannelsMatch`: the server reads from a connection a client writes tokens to,
  and writes to the reply connection of the client it verified.
* `EarlyNeverServed`: a connection made before the port is bound anew is never
  the reply channel.
* `VerifiedBeforeReply`: when a reply is written, the tokens its secret key was wrapped
  under are the last its sender wrote, all of them were read, and they are signed with
  the private key of the public key in them. It is about the path from the receive
  loop to the reply: batches that follow one another, connections and restarts.
* `ReadIsAnswered`: a client that reads the reply gets one, or learns that the
  server has gone.

### Packing, CryptoCalls

`Packing` has the transport format and the byte functions as pure operators, in
any base of at least 2; `encode` and `decode` are recursive functions, on the number of
items and on the offset, as the loops of the code go. `CryptoCalls` is the library's asynchronous part. A
function of `simplecrypto` is the sequence of native operations it nests, and
`todo` holds those a call still has to do; each operation is an action named
like the function of `internal` that makes it, and `Proceed`, `Rejected`,
`Refused` and `Misused` are the ways on from `wrap`:

| code | model |
|---|---|
| nested callbacks of `sym.*`, `asym.*`, `pbkdf2.derive` | the chains (`SymEncrypt`, `VerifyAndDecrypt`, ...) |
| what the closures hold | `bag` |
| `keys.aesKeyObj`, `keys.hmacKeyObj` | `cached`, per keys object |
| `wrap` (58-68): promise or Internet Explorer's events | `AnswerWith`, with the second `onError` of a callback that throws |
| `importKeys` (905-925) | `Unfold`, evaluated when the code gets there |
| `deriveLoop`, `deriveBlockLoop` (554-589) | `hmacBlock`, one HMAC a step |
| the messages an application receives | `Arrivals`: whole, cut by `decode`, or with items of two messages |

Keys, ciphertexts and signatures are symbolic records of what they were made
with. A wrong AES key gives garbage or a padding error. The iterates a derived
key combines are kept as sets of numbers, so the native derivation and the
library's own are compared by what they compute.

* `AnsweredOnce`: one callback per call, unless the application's own callback
  throws: then `catch` calls `onError` too, which the model has.
* `EveryCallAnswers`: each call makes a callback. Internet Explorer throws where
  other platforms reject; a call there with a part of its message missing is
  never answered, which the property excepts.
* `DecryptedIsSent`, `VerifiedIsSigned`: a decrypting call hands over the content
  of the message its AES part comes from, and `verifyAndDecrypt` that of the
  owner of the key, though the AES part itself is not signed.
* `NoNeedlessError`: a call whose arguments fit its message fails only if one of
  its operations did. Keys half imported by another call, keys derived by the
  other method and JSON keys of an old platform must all do. (What an application imports as an
  encryption key is one; the two throws of `encode` are for items it does not make.)
* `CutIsPrefix`: decoding a part of a message throws or gives its first items.

### KeyMap, KeyDatabase

`KeyDatabase` has the open requests (`queue`), the transactions, the connections,
and the state of every call. Open requests and transactions are sets whose members
carry the number (`nr`) they got when they were made (`opens`, `made`): a browser
serves them by that number, and an order kept in numbers survives the removal of
any member, which is what the proofs need. The database serves an open request
(`Opens`, `OpenFails`), and the page that made it hears of that when its own event loop
comes to it (`onsuccess`, `onerror`): a page takes its events in order
(`NextEvent`), but another page may take a later one first. `onsuccess` makes
a call's request and the extra "RSA" transaction of `_openDB` (line 1190);
`RequestSucceeds` closes the connection and answers; `Commit` and `CommitFails`
come later and nobody listens. A request succeeds and its handler runs in one step:
until the event has fired the transaction is not finished, so no other transaction on
the store comes between (two gets side by side change nothing). IndexedDB is modelled by its order rules: open
requests in turn, transactions in the order of creation, readonly ones together.
`ClosePage` aborts what a page has under way. `KeyMap` is the abstract
specification: one map, one step per call, of which the last change may be lost.
The mapping takes for the map a get sees the store with the change that waits to
be committed.

* `ImplementsKeyMap`: all calls together are those of a `KeyMap`.
* `InOrder`: no call is answered with success before one that its page made earlier.
  Between pages there is no order.
* `EveryCallAnswers`, `ConnectionsClose`: callbacks come and connections are
  closed, whatever fails. The exception is the call whose value IndexedDB
  cannot clone: `put` throws in the success handler, neither callback is called and the
  connection stays open ("lost"); the other calls do not suffer from it.
* `AckedPutIsStored`: what the documentation of `put` lets one expect (section 4).

### ClientTokens

The handler of `app.js` calls five async functions and passes their promises on.
A function runs to its first await (`DocumentReady`), its rest is a job
(`Resume`); the fingerprint arrives when Fingerprint2 is ready and goes nowhere.
`LoadAssym`, `ReadKey` and `PairReady` are the two ways to make a key pair, none
of which hands a pair over. `TokensTellClientsApart` is in section 4.

### FileGuard

Threads of several Java machines call `FileMask` on one file, and `FileMonitor`
on its directory. `OpenToWrite` and `TryLock` are the two halves of
`LockFileOutputStream`. Asking for an exclusive lock on an input stream throws
(`OpenToRead`). `HeldFileIsUntouched` is in section 4.

## 3. Runs

| run | instance | states | shows |
|---|---|---|---|
| KeyStoreShared | 2 programs, 1 alias, 1 key, 2 passwords, failing disk | 407 000 | `TypeOK`, `WriterSeesItsImage`, `GetReturnsInserted` |
| KeyStoreSolo | 1 program, 2 aliases, a secret key, a private key, a certificate, 2 passwords | 88 000 | `NoLostKey`, `ImplementsVault` |
| KeyStoreRefused | as KeyStoreSolo | to the first counterexample | a refused insert leaves an empty file |
| KeyStoreLostUpdate | 2 programs, 2 aliases, 1 key | to the first counterexample | an insert drops another program's key |
| HandshakeOne | 1 client, 1 run of the server | 127 | `ChannelsMatch`, `ReadIsAnswered` |
| HandshakeTwo | a client, another program, 2 runs of the server | 93 000 | `TypeOK`, `EarlyNeverServed`, `VerifiedBeforeReply` |
| HandshakeRestart | 1 client, 2 runs of the server, the JDK's ciphers | to the first counterexample | the restarted server reads tokens from the reply connection |
| CryptoCalls | 3 calls on modern, old WebKit and old IE pages, 2 keys objects, 1 password, 2 signers | 211 000 | `TypeOK`, `AnsweredOnce`, `DecryptedIsSent`, `VerifiedIsSigned`, `NoNeedlessError`, `CutIsPrefix`, `EveryCallAnswers` |
| KeyDatabase | 3 calls, 2 pages, 1 key, a value and one that cannot be cloned; opens, requests and commits fail, pages close | 317 000 | `TypeOK`, `InOrder`, `ImplementsKeyMap`, `EveryCallAnswers`, `ConnectionsClose` |
| KeyDatabaseCommit | 3 calls, 2 values, commits fail | to the first counterexample | a put answered with success is not stored |
| ClientTokens | 2 clients, 2 fingerprints | to the first counterexample | tokens do not depend on the fingerprint |
| FileGuard | 2 threads of one machine, 1 of another, writes of 2 bytes | to the first counterexample | a held file is emptied |

Bounds. Two programs are enough for every race on the file, since a third could
only disturb as the second does; two passwords tell a right one from a wrong one;
two aliases tell the inserted entry from the others. The key store needs no bound
on the number of calls: its states are finite. Aliases, passwords and programs
are interchangeable, hence the symmetry; it is used with invariants and action
properties only. In the handshake `MaxRuns` bounds the restarts and `Backlog` is
as large as the number of connections plus none or one, or, with three places for four connections,
small enough to be full: with 50 places in the code a full queue only needs more clients. HandshakeOne is
small because one client and one run have few interleavings; it is the liveness
run, and it needs one run only: with a second one the client may wait for ever
(HandshakeRestart).

In CryptoCalls the first call makes keys or encrypts, the second does or imports,
the third decrypts: two messages are what confusing items takes, and two calls
at once (`MaxOpen`) what one keys object takes. `After` orders their beginnings,
so that no call is named twice. `Careless` says whose callback may throw,
`Confusions` which items are exchanged. Contents are shorter or longer than what RSA
takes. `ByteBase` is 2, so that a size and an iteration count of two already use the second
byte, and `MinIterations` is 2 where the code has 20000: one turn of
the loop. In KeyDatabase two calls of one page and one of
another give every pair, and a third that comes between; a put and a delete are
two changes that differ, so one storable value is enough to see an order. `Before` names
the two calls of one page in the order in which it makes them. Every call has its own
identity, so the number of calls is bounded by `Calls`.

Fairness (`CryptoCalls!Spec`, `KeyDatabase!Spec`). The browser goes on: while
operations are pending one of them settles, which is weaker than that each does.
The application need not make any call, and no failure is ever excluded.

Fairness (`Handshake!Fairness`). The programs run on when they can, weak fairness
of each program's step, and their users click the dialogs away: a dialog that is
never answered stops everything, which says nothing about the code. Nobody
need kill or start a program, and the garbage collector need not run: the
liveness property holds without any of them, because a `BindException` ends the
server too. The runs switch off deadlock checking where programs may simply end.

## 4. Where code and comments disagree

1. `insertKey` truncates the file at line 71 and may throw at line 74: a refused
   insert loses every stored key, though line 76 says the keys "actually
   persist on the file". `insertPrivateKey` always throws there, since
   a private key needs a certificate chain and the code passes null.
2. `insertKey` writes the caller's memory over the file (line 77): a program that
   has not loaded since another one stored drops that one's keys.
3. `put` calls `onSuccess` when its request succeeds (simplecrypto.js:1200) and
   its documentation says "called if put succeeds" (line 630): a commit that
   fails afterwards is reported to nobody.
4. `app.js` passes promises on without await: the "unique encIV"
   (clientUnique.js:47) is made of the text "[object Promise]", the digest of no
   words at all.
5. `LockFileOutputStream` empties the file (FileMask.java:63) before it tries the lock
   that should thwart the access of others.
6. A server that is restarted between the two connections of a client takes the
   second for the one with the tokens; the client waits to read from it and the
   server waits for it to write.

## 5. Proofs

`EmmaKeyStore_proofs` proves, for any sets of programs, aliases, keys,
certificates and passwords that satisfy `KeyStoreAssumption`:

* `TypeCorrect`, `WellTyped`: `TypeOK` is invariant. The strengthening `CallOK` says a call
  in progress has the arguments its step uses.
* `ProvenanceInvariant`: every entry in any memory or shown by the file, torn or
  whole, was inserted. From it and `LookupFinds` follows
  `GetsReturnInserted`, an action property.
* `WriterKnowsItsImage`: `WriterSeesItsImage` by `ImageInv`, which adds that a
  program that has opened the file for output is not the author of what the file holds,
  and that the memory of an undisturbed load is the image being loaded.
* `SoloLosesNoKey`: `NoLostKey` for a program alone on a disk that does not fail
  (`Solo`), by `VaultInv`: an image on disk holds exactly the acknowledged
  entries, a memory that is loaded holds them too, and each step of a call finds
  the file as the step before left it.
* `SoloImplementsVault`: `ImplementsVault` under the same assumption. `VaultInv`
  gives `VaultStep`, that each action maps to one step of `KeyVault` or to none.

The assumptions are those a Java type system and its library give: keys are not
certificates, the kinds of keys are disjoint, a result is not an outcome's name.

`CryptoCalls_proofs` proves, for any calls, functions, platforms, keys objects,
passwords and bounds:

* `CallsAnsweredOnce`: `AnsweredOnce`. Whether a call has a second callback
  depends on whether it still has something to do after the first, so `OnceInv`
  adds that a call that has answered has no operation left, and that its two
  callbacks go with `threw`. Each operation leads on by `Proceed`, `Rejected`,
  `Refused` or `Misused`; a lemma for each of the four and for the two operations
  that loop or start over shows that it keeps `OnceInv`, and `SettlesOnce`
  has one step per operation. It uses no assumption on the constants.
* `WellTyped`: `TypeOK`, on top of `OnceInv`.
* `CutsArePrefixes`: `CutIsPrefix`. It needs no invariant: by `BeginningsDecode`, below,
  it is enough that what a call packs has labels of the format (`LayoutLabels`).

`Packing_proofs` proves, for any base of at least 2, what the two ends of a transport
owe each other:

* `SizesReadBack`: `getUint32(setUint32(n)) = n` for every n that four bytes hold, from
  the division theorem, which is proved too.
* `BeginningsDecode`: for any items, of any number, data and length that four
  bytes hold, `decode` makes of the first n bytes of `encode(items)` the first items,
  unchanged and in order, or throws, and of all bytes all items. So the lax size
  test of line 1159 does no harm to a message that was merely cut.

  The provers have no induction over data. What takes its place is that a
  nonempty set of numbers has a least member (`WFMin`): `Upward` and `Downward`
  say that a set with zero, or with n, that is closed under steps holds them all,
  and an induction is the set of the numbers for which a statement is true. That the
  recursive functions exist is such an induction (`Packable`, `Readable`), over the part
  of the function already made. Then `ReadsOne` reads one item, or finds the
  buffer at its end, or too short; `WalksOn` goes from the last item to the first.

`VerifiedCalls_proofs` proves `VerifiedAreSigned`: `VerifiedIsSigned` for any calls,
functions, platforms, keys objects, lengths and parties, and whatever items an application
confuses. Nothing is assumed of the constants beyond `CallsAssumption` and
`ByteBaseAssumption`. The argument goes from what is signed to what is not:

* `SignInv` says, for each place in the chain of `encryptAndSign`, what its
  closures hold there, so that a message that was sent is signed: its RSA part is the
  call's own two keys, its AES part and HMAC are under them, and both signatures are over the RSA
  part (`IsSigned`). That every message has an AES part is a fact of the code
  nobody intended: `rsaEncryptMax` is negative (line 45), so even the shortest content
  gets keys of its own (`SigningChain`). Were it positive, a content could be signed
  that has the shape of two keys.
* What arrives is `Honest`: each of its items is one of some message. By
  `BeginningsDecode` that is so for messages that were cut, and by definition for items that were
  confused.
* `ReadInv` says the same for `verifyAndDecrypt`. Up to the second signature
  it knows nothing. Once `verifyData` has accepted, the RSA part is that of a
  message m of the owner of the key (`PayloadIsContent`), so the keys it
  takes apart are m's; only m's HMAC is under m's key and it is over m's AES part
  (`HmacBinds`); so what is decrypted is the content of m.
* Messages that were sent stay as they are (`MessageStays`), and a step moves one
  call (`MovesOne`), so both invariants are proved for the call that moves.

`DecryptedCalls_proofs` proves `DecryptedAreSent`: `DecryptedIsSent`, under the same
assumptions, on top of the above.

* Three functions are given messages without a signature, and one of them keys from a
  password. What ties such a message together is that the two keys of a call are a pair
  (`Paired`): those of one keys object, or the two halves of one derived
  array. `EncryptInv` says, for each place in the chains of the other four
  encrypting functions, that a call that has sealed its AES part did so under a pair,
  its HMAC over it, and that its RSA part is that pair. By it and `SignInv`
  every message is `Sealed` so (`SentIsCovered`).
* `GivenInv`: what a decrypting call was given has each item of a message of the functions
  its application takes messages from, and keeps it, since a message stays.
* `DecryptInv` follows the four decrypting chains: the keys a call holds are
  a pair, of its keys object, of the RSA part or of the password; past `verifyHMAC` and the AES
  decryption the AES part is under the AES key held. The message it belongs to is
  the witness. That items may be confused does not matter: the AES part alone says
  whose content is handed over, and a wrong AES key gives garbage only where
  the HMAC was made under the other half of a pair, which `Paired` excludes.

`AnsweredCalls_proofs` proves `NoErrorIsNeedless`: `NoNeedlessError`, on top of the above.
A call can report an error for a reason other than a failure of its own in nine places
(`Blame`: a key not imported, an item missing or of another message, a key that does
not fit, too long a content for RSA, JSON keys the platform does not take). `Blames` shows that
there are no others, `Blameless` that none applies to a call whose arguments fit. It
uses all that is known of the calls, and four invariants more:

* `PaceInv`: a call that has come to an operation which needs an imported key finds
  both keys in the keys object (`Ready`). Calls share that object, and a call
  imports keys only if it does not find both; that this is enough depends on the order of the
  operations (`Follows`: nothing comes between the two imports and nothing needs a key
  before them) and on the fact that nothing takes an imported key out again
  (`CachedGrows`). It holds of calls that find one of the two imports of another done.
* `JwkInv`: the JSON keys that any platform exports are those every platform
  takes, since the library rewrites them on the older two, on the way out and in.
* `DeriveInv` follows the two derivations, the native one and the library's loops over
  blocks and iterations: both end with the same function (`Yield`) of password, salt and
  number of iterations. So `SameYield`: whoever reads a message with its password, on
  whatever platform, derives the keys it was made with. It takes that the number is read back from
  its four bytes (`SizesReadBack`) and hence that it fits them, as `CallsAssumption` has it.
* `IdleInv`: a call that has not begun has said nothing.

Arguments are fit when some message has all the items given (`Reasonable`). That might become
true late, when a message is sent after the call began. It does not: the AES part names its
message (`TextInv`), and what a call was given came from messages sent before it
(`ReasonableBefore`).

`Handshake_proofs` proves, for any clients, any of them ClientMain, any number of
runs and any backlog:

* `WellTyped`: `TypeOK`, with the fact that a server that reads or writes has
  accepted the connection it does it on (`TypeInv`).
* `EarlyIsNeverServed`: `EarlyNeverServed`. `EarlyInv` adds that the backlog is
  empty while the port is closed (`QueueNeedsPort`) and that a client before its
  connection has none (`NotYetMade`): so what is queued when the reply channel is
  accepted was connected since the port was bound for it (`QueueIsFresh`).
* `ReplyIsVerified`: `VerifiedBeforeReply`. The reply comes several steps after the
  tokens were read, so `VerifiedInv` says that the last batch of tokens is on a
  connection whose client will write no more (`LastIsLast`), that what was read to its
  end stays so until the reply and is what the server holds (`TokensRead`), and that past
  the verification it is signed with the key it names (`SignedByTheKey`).
* `OneClientChannelsMatch`: `ChannelsMatch` for one client and one run of the
  server (`Alone`), which is what it takes: HandshakeRestart shows it broken
  by a restart, and a second client can be served in between. The invariant says that a
  client's first connection is in the queue, or accepted, before it makes its second
  (`SendIsFirst`, `SendIsTaken`), so the first `accept` can only take the one
  with the tokens.

`KeyDatabase_proofs` proves, for any calls, pages, keys and values, whatever may
fail:

* `WellTyped`: `TypeOK`. `TypeInv` adds what the state of a call says of its
  transactions (`WorkIsCalled`), that a queued call is one that is opening, and
  that a call has one transaction of each kind, on an open connection.
* `CallsActInOrder`: `InOrder`. It rests on `OrderInv`: numbers are given once; open
  requests are served in the order of all calls (`ServedFirst`); on one page,
  calls that have not got their event yet are later than those that have transactions
  (`FIFO`) and transactions are in the order of their calls (`SameOrder`); and a call
  that waits for its request has its extra "RSA" transaction behind it
  (`RSAFollows`). That last one is the surprise: readers may pass each other in
  IndexedDB, and it is only the readwrite transaction which `_openDB` adds to
  every call that keeps the answers of two gets in order.
* `StorageImplementsMap`: `ImplementsKeyMap`. A transaction that is done has only
  readers before it (`DoneAlone`), so at most one change waits for its commit
  (`VisibleIs`) and `Visible` is the store with it. A request that
  succeeds maps to `Act`, one that fails and an open that fails to `Refuse`, the
  commit of the change to `Save`, its failure and a page that closes to `Lose`,
  everything else to no step.

What is only model-checked: liveness (`ReadIsAnswered`, `EveryCallAnswers`,
`ConnectionsClose`), which these provers do not reach. Every invariant and action
property of the passing runs of the key stores, the exchange, the key storage and
simplecrypto is proved.

## 6. Not modelled

* Token generation and the cipher classes: stateless calls of the Java
  cryptography API; where the handshake depends on one, its answer is a choice.
* The HTTP and file front ends, the user model, and the JavaScript sketches:
  no behaviour.
* The GPars programs (CloudGuardsPro key store, FileAsync, CryptoConcurrent,
  CloudGuards coordinators). Each stops at its first step in every execution: an
  operator is given a String for a channel, a null stream is closed, a
  safe navigation on a null `it` reads and writes nothing, a reaction never ends. A
  model of what was meant would not be faithful, and one of what is there has
  a single behaviour. `PROJECT.json` says of each where it stops.
* CloudGuardsPro's file utilities: single-threaded loops over Java's streams.
* `FileStreamSecure`: wraps cipher streams and keeps no state.
* In simplecrypto, the bytes themselves: `combineArrays`, `bytesToString` and
  `stringToBytes` are concatenation and conversion, the initialization vector
  travels inside the ciphertext, and views on buffers are taken as what they show.
* jQuery and `bower_components`, the class files and the test folders:
  third-party code, build output and scratch scripts.

## 7. Plan

| order | module | models or proves |
|---|---|---|
| done | EmmaKeyStore, KeyVault, KeyStoreRefinement, EmmaKeyStore_proofs | the Java key store, checked and proved |
| done | SecurityTransport, -Server, -Client, Handshake | the Java exchange |
| done | Packing, CryptoCalls, CryptoCalls_proofs | the asynchronous calls of simplecrypto |
| done | KeyMap, KeyDatabase | its key storage and what it promises |
| done | ClientTokens, FileGuard | the token promises; the file mask |
| done | Handshake_proofs, KeyDatabase_proofs | the exchange and the key storage, proved |
| done | Packing_proofs, VerifiedCalls_proofs | what decode makes of messages; `VerifiedIsSigned` |
| done | DecryptedCalls_proofs | `DecryptedIsSent`: the chains of the other encrypting and decrypting functions |
| done | AnsweredCalls_proofs | `NoNeedlessError`: what a call with fitting arguments holds at each place |
