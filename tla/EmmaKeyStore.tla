---------------------------- MODULE EmmaKeyStore ----------------------------
(***************************************************************************)
(* The JCEKS key store of Emma (EmmaStorage/KeyPrimStorage.java and        *)
(* CertPrimStorage.java).  Every program that hosts these classes names    *)
(* the same file, /KeyStoreDir/EmmaKeyStore.keystore; each holds an        *)
(* in-memory java.security.KeyStore of its own, nothing locks the file,    *)
(* and each call opens it again: writers truncate it, then change their    *)
(* memory, then write the whole memory out; readers replace their memory   *)
(* by the file before they look an alias up.                               *)
(*                                                                         *)
(* A process (Proc) is one such program with one KeyStore object and one   *)
(* call at a time; the calls, their aliases, passwords and keys are the    *)
(* caller's free choice.  java.security.KeyStore and the file system are   *)
(* external and are modelled by what the two classes rely on.  Aliases are *)
(* taken up to letter case, which JCEKS ignores.                           *)
(***************************************************************************)
EXTENDS FiniteSets

CONSTANTS
  Proc,         \* the programs that share the key store file
  Alias,        \* the names entries are kept under
  SecretKey, PublicKey, PrivateKey,   \* the keys a caller may insert
  X509Cert, OtherCert,                \* the certificates a caller may insert
  Password,     \* passwords, of the store and of the keys alike
  DiskMayFail,  \* whether a write of the file may fail half way
  None          \* "no value": in idle calls, and the password of a certificate

Key   == SecretKey \cup PublicKey \cup PrivateKey
Cert  == X509Cert \cup OtherCert
Value == Key \cup Cert

Writers == {"createKeyStore", "insertKey", "insertCert"}
KeyGets == {"getSecretKey", "getPrivateKey", "getPublicKey"}
CertGets == {"getCert", "getX509Cert"}
Readers == KeyGets \cup CertGets

\* The results that are not a value the caller asked for.
Outcome == {"none", "ok", "null", "thrown"}

ASSUME KeyStoreAssumption ==
  /\ DiskMayFail \in BOOLEAN
  /\ Key \cap Cert = {}
  /\ SecretKey \cap PublicKey = {} /\ PrivateKey \cap (SecretKey \cup PublicKey) = {}
  /\ Value \cap Outcome = {}
  /\ None \notin Proc \cup Alias \cup Value \cup Password

\* One entry of a key store; a certificate is stored without a password.
Entry == [alias : Alias, val : Value, pass : Password \cup {None}]

\* What the file holds: "torn" bytes are no image, but may show `entries`
\* to a reader before it notices.
File == [state : {"absent", "empty", "torn", "whole"}, by : Proc \cup {None},
         pass : Password \cup {None}, entries : SUBSET Entry]

Call == [kind : Writers \cup Readers, alias : Alias \cup {None},
         val : Value \cup {None}, pass : Password]

VARIABLES
  dir,       \* /KeyStoreDir exists
  file,      \* the bytes of EmmaKeyStore.keystore
  obj,       \* the process's KeyStore: none, fresh (never loaded) or ready
  mem,       \* the entries in the process's KeyStore
  call,      \* the call in progress
  pc,        \* the next step of that call
  clean,     \* nobody touched the bytes the process is writing or reading
  ret,       \* what the last call of the process gave its caller
  inserted,  \* history: every entry an insert ever put in a KeyStore
  acked      \* history: the entries whose insert returned, latest per alias

vars == <<dir, file, obj, mem, call, pc, clean, ret, inserted, acked>>
local == <<obj, mem, inserted, acked>>

Steps == {"idle", "openOut", "set", "store", "storing", "openIn", "load", "loading"}

TypeOK ==
  /\ dir \in BOOLEAN
  /\ file \in File
  /\ obj \in [Proc -> {"none", "fresh", "ready"}]
  /\ mem \in [Proc -> SUBSET Entry]
  /\ call \in [Proc -> Call \cup {None}]
  /\ pc \in [Proc -> Steps]
  /\ clean \in [Proc -> BOOLEAN]
  /\ ret \in [Proc -> Outcome \cup Value]
  /\ inserted \subseteq Entry
  /\ acked \subseteq Entry

NoImage(state, shown) == [state |-> state, by |-> None, pass |-> None, entries |-> shown]
Whole(p, pass, img) == [state |-> "whole", by |-> p, pass |-> pass, entries |-> img]

Init ==
  /\ dir \in BOOLEAN
  /\ file = NoImage("absent", {})
  /\ obj = [p \in Proc |-> "none"]
  /\ mem = [p \in Proc |-> {}]
  /\ call = [p \in Proc |-> None]
  /\ pc = [p \in Proc |-> "idle"]
  /\ clean = [p \in Proc |-> FALSE]
  /\ ret = [p \in Proc |-> "none"]
  /\ inserted = {}
  /\ acked = {}

-----------------------------------------------------------------------------
(* Helpers *)

Without(img, a) == {e \in img : e.alias # a}

\* setKeyEntry and setCertificateEntry replace what the alias held.
Put(img, e) == Without(img, e.alias) \cup {e}

OneEntryPerAlias(img) == \A e, f \in img : e.alias = f.alias => e = f

\* Mutant of EntryOf: the key is sealed under its alias.
MutEntryOfAlias(c) == [alias |-> c.alias, val |-> c.val, pass |-> c.alias]

EntryOf(c) == [alias |-> c.alias, val |-> c.val,
               pass |-> IF c.kind = "insertCert" THEN None ELSE c.pass]

\* The bytes changed under everybody but p, who goes on with flag `mine`.
Disturb(p, mine) == clean' = [q \in Proc |-> q = p /\ mine]

Goto(p, step) == pc' = [pc EXCEPT ![p] = step]

\* The call returns a value or throws.
Return(p, r) ==
  /\ Goto(p, "idle")
  /\ call' = [call EXCEPT ![p] = None]
  /\ ret' = [ret EXCEPT ![p] = r]

\* Mutants of Image: createKeyStore that writes the caller's entries, and an
\* insert that writes its own entry only.
MutImageKeepsOld(p) == mem[p]
MutImageNewEntry(p) ==
  IF call[p].kind = "createKeyStore" THEN {} ELSE {EntryOf(call[p])}

\* The image store() writes: createKeyStore works on a new, empty KeyStore.
Image(p) == IF call[p].kind = "createKeyStore" THEN {} ELSE mem[p]

\* The type the get method casts its result to.
Wanted(kind) ==
  CASE kind = "getSecretKey"  -> SecretKey
    [] kind = "getPrivateKey" -> PrivateKey
    [] kind = "getPublicKey"  -> PublicKey
    [] kind = "getCert"       -> Cert
    [] kind = "getX509Cert"   -> X509Cert

\* The entries of the alias that KeyStore.getKey or getCertificate looks at:
\* the one gives null for a certificate, the other for a key.
Found(c, img) ==
  {e \in img : e.alias = c.alias /\ (e.val \in Key <=> c.kind \in KeyGets)}

\* Mutant of Lookup: no cast.
MutLookupNoCast(c, img) ==
  IF Found(c, img) = {} THEN "null" ELSE (CHOOSE f \in Found(c, img) : TRUE).val

\* UnrecoverableKeyException when a key was sealed under another password,
\* ClassCastException when the entry is not what the method casts it to.
Lookup(c, img) ==
  IF Found(c, img) = {} THEN "null"
  ELSE LET e == CHOOSE f \in Found(c, img) : TRUE
       IN  IF e.pass \in {c.pass, None} /\ e.val \in Wanted(c.kind) THEN e.val ELSE "thrown"

-----------------------------------------------------------------------------
(* The callers and the machine (external) *)

MakeDirectory ==
  /\ ~dir
  /\ dir' = TRUE
  /\ UNCHANGED <<file, call, pc, clean, ret, local>>

\* A caller may bring its own KeyStore.getInstance("JCEKS"), not yet loaded.
OwnInstance(p) ==
  /\ pc[p] = "idle" /\ obj[p] = "none"
  /\ obj' = [obj EXCEPT ![p] = "fresh"]
  /\ UNCHANGED <<dir, file, mem, call, pc, clean, ret, inserted, acked>>

Begin(p, c, step) ==
  /\ pc[p] = "idle"
  /\ Goto(p, step)
  /\ call' = [call EXCEPT ![p] = c]
  /\ ret' = [ret EXCEPT ![p] = "none"]
  /\ UNCHANGED <<dir, file, clean, local>>

CallCreate(p) == \E pw \in Password :
  Begin(p, [kind |-> "createKeyStore", alias |-> None, val |-> None, pass |-> pw], "openOut")

CallInsert(p) == \E a \in Alias, v \in Value, pw \in Password :
  /\ obj[p] # "none"
  /\ Begin(p, [kind |-> IF v \in Key THEN "insertKey" ELSE "insertCert",
               alias |-> a, val |-> v, pass |-> pw], "openOut")

CallGet(p) == \E k \in Readers, a \in Alias, pw \in Password :
  /\ obj[p] # "none"
  /\ Begin(p, [kind |-> k, alias |-> a, val |-> None, pass |-> pw], "openIn")

\* The program ends or is killed, between or during its calls.
Crash(p) ==
  /\ obj[p] # "none" \/ pc[p] # "idle"
  /\ obj' = [obj EXCEPT ![p] = "none"]
  /\ mem' = [mem EXCEPT ![p] = {}]
  /\ clean' = [clean EXCEPT ![p] = FALSE]
  /\ Return(p, "none")
  /\ UNCHANGED <<dir, file, inserted, acked>>

-----------------------------------------------------------------------------
(* Writers: createKeyStore, insertKey, insertCert *)

\* KSfileOutStream: new FileOutputStream truncates, or creates, the file.
OpenOut(p) ==
  /\ pc[p] = "openOut" /\ dir
  /\ file' = NoImage("empty", {})
  /\ Disturb(p, FALSE)
  /\ Goto(p, IF call[p].kind = "createKeyStore" THEN "store" ELSE "set")
  /\ acked' = IF call[p].kind = "createKeyStore" THEN {} ELSE acked
  /\ UNCHANGED <<dir, obj, mem, call, ret, inserted>>

\* It makes no directory (FileNotFoundException).
OpenOutFails(p) ==
  /\ pc[p] = "openOut" /\ ~dir
  /\ Return(p, "thrown")
  /\ UNCHANGED <<dir, file, clean, local>>

\* setKeyEntry and setCertificateEntry refuse a KeyStore that was never
\* loaded; the first a private key without a certificate chain (the code
\* passes null), the second an alias that holds a key.
Refused(p) ==
  \/ obj[p] # "ready"
  \/ call[p].val \in PrivateKey
  \/ /\ call[p].val \in Cert
     /\ \E e \in mem[p] : e.alias = call[p].alias /\ e.val \in Key

SetEntry(p) ==
  /\ pc[p] = "set"
  /\ IF Refused(p)
     THEN /\ Return(p, "thrown")
          /\ UNCHANGED <<mem, inserted, acked>>
     ELSE /\ mem' = [mem EXCEPT ![p] = Put(@, EntryOf(call[p]))]
          /\ inserted' = inserted \cup {EntryOf(call[p])}
          /\ acked' = Without(acked, call[p].alias)
          /\ Goto(p, "store")
          /\ UNCHANGED <<call, ret>>
  /\ UNCHANGED <<dir, file, obj, clean>>

Storing == {p \in Proc : pc[p] = "storing"}

\* store() writes field by field over what the file holds: bytes of several
\* writers may mix, and behind a torn image the one before it may show.
StoreBegin(p) ==
  /\ pc[p] = "store"
  /\ file' = NoImage("torn", Image(p) \cup file.entries)
  /\ Disturb(p, Storing = {})
  /\ Goto(p, "storing")
  /\ UNCHANGED <<dir, call, ret, local>>

\* An undisturbed writer leaves its image; a disturbed one may also leave
\* the other's (its own bytes fell behind it) or a mixture.
StoreEnd(p) ==
  /\ pc[p] = "storing"
  /\ \E f \in {Whole(p, call[p].pass, Image(p))} \cup
              (IF clean[p] THEN {} ELSE {file, NoImage("torn", Image(p) \cup file.entries)}) :
       /\ file' = f
       /\ IF f = file THEN clean' = [clean EXCEPT ![p] = FALSE] ELSE Disturb(p, FALSE)
  /\ Return(p, "ok")
  /\ IF call[p].kind = "createKeyStore"
     THEN /\ obj' = [obj EXCEPT ![p] = "ready"]
          /\ mem' = [mem EXCEPT ![p] = {}]
          /\ acked' = {}
     ELSE /\ acked' = Put(acked, EntryOf(call[p]))
          /\ UNCHANGED <<obj, mem>>
  /\ UNCHANGED <<dir, inserted>>

\* The write fails half way (IOException): the bytes stay as they are.
StoreFail(p) ==
  /\ DiskMayFail
  /\ pc[p] = "storing"
  /\ clean' = [clean EXCEPT ![p] = FALSE]
  /\ Return(p, "thrown")
  /\ UNCHANGED <<dir, file, local>>

-----------------------------------------------------------------------------
(* Readers: getKey, getCert and the methods that cast their results *)

OpenIn(p) ==
  /\ pc[p] = "openIn"
  /\ IF file.state = "absent"
     THEN Return(p, "thrown")
     ELSE Goto(p, "load") /\ UNCHANGED <<call, ret>>
  /\ UNCHANGED <<dir, file, clean, local>>

\* load() on a file that is no image: EOF at once, or a broken image some
\* entries of which have already replaced those in memory.
LoadBroken(p) ==
  /\ pc[p] = "load" /\ file.state \in {"empty", "torn"}
  /\ \/ UNCHANGED mem
     \/ /\ file.state = "torn"
        /\ \E img \in SUBSET file.entries :
             OneEntryPerAlias(img) /\ mem' = [mem EXCEPT ![p] = img]
  /\ Return(p, "thrown")
  /\ UNCHANGED <<dir, file, obj, clean, inserted, acked>>

\* load() on an image: the entries replace those in memory before the digest,
\* and with it the password, is checked.
LoadBegin(p) ==
  /\ pc[p] = "load" /\ file.state = "whole"
  /\ mem' = [mem EXCEPT ![p] = file.entries]
  /\ clean' = [clean EXCEPT ![p] = TRUE]
  /\ Goto(p, "loading")
  /\ UNCHANGED <<dir, file, obj, call, ret, inserted, acked>>

\* Mutant of LoadEnd: the store's password is not checked, as with load(in, null).
MutLoadEndUnchecked(p) ==
  /\ pc[p] = "loading" /\ clean[p]
  /\ clean' = [clean EXCEPT ![p] = FALSE]
  /\ obj' = [obj EXCEPT ![p] = "ready"]
  /\ Return(p, Lookup(call[p], mem[p]))
  /\ UNCHANGED <<dir, file, mem, inserted, acked>>

\* The bytes were still those of the image: its password is checked, then the
\* alias is looked up and the result cast.
LoadEnd(p) ==
  /\ pc[p] = "loading" /\ clean[p]
  /\ clean' = [clean EXCEPT ![p] = FALSE]
  /\ IF file.pass = call[p].pass
     THEN /\ obj' = [obj EXCEPT ![p] = "ready"]
          /\ Return(p, Lookup(call[p], mem[p]))
     ELSE /\ Return(p, "thrown")
          /\ UNCHANGED obj
  /\ UNCHANGED <<dir, file, mem, inserted, acked>>

\* The bytes changed during the load: it fails on the digest, or earlier with
\* some entries of the image, of what took its place, or of both in memory.
\* (A load that had read them all by then is one that ended before the change.)
LoadDisturbed(p) ==
  /\ pc[p] = "loading" /\ ~clean[p]
  /\ \E img \in SUBSET (mem[p] \cup file.entries) :
       OneEntryPerAlias(img) /\ mem' = [mem EXCEPT ![p] = img]
  /\ Return(p, "thrown")
  /\ UNCHANGED <<dir, file, obj, clean, inserted, acked>>

-----------------------------------------------------------------------------
Next ==
  \/ MakeDirectory
  \/ \E p \in Proc :
       \/ OwnInstance(p) \/ CallCreate(p) \/ CallInsert(p) \/ CallGet(p) \/ Crash(p)
       \/ OpenOut(p) \/ OpenOutFails(p) \/ SetEntry(p)
       \/ StoreBegin(p) \/ StoreEnd(p) \/ StoreFail(p)
       \/ OpenIn(p) \/ LoadBroken(p) \/ LoadBegin(p) \/ LoadEnd(p) \/ LoadDisturbed(p)

Spec == Init /\ [][Next]_vars

-----------------------------------------------------------------------------
(* What the component promises *)

\* A get method only ever returns what an insert put under that alias with
\* that password and of that type, whoever wrote the file, however often it
\* was torn, and whatever broken image the memory was loaded from
\* (KeyPrimStorage.getKey, lines 102-134).
GetReturnsInserted ==
  [][\A p \in Proc : pc[p] = "loading" /\ ret'[p] \in Value =>
       \E e \in inserted : /\ e.alias = call[p].alias /\ e.val = ret'[p]
                           /\ e.pass \in {call[p].pass, None}
                           /\ e.val \in Wanted(call[p].kind)]_vars

\* When the file is the image a process wrote, that process's KeyStore holds
\* exactly the entries of the file, so its next insert, which rewrites the
\* whole file from memory (line 77), drops nothing it wrote before.
WriterSeesItsImage ==
  \A p \in Proc : file.state = "whole" /\ file.by = p /\ obj[p] = "ready"
                    => mem[p] = file.entries

\* No image on disk misses a key whose insert returned normally, unless the
\* alias was overwritten or the store created anew since (line 77 writes the
\* caller's memory, not what the file held).
NoLostKey == file.state = "whole" => acked \subseteq file.entries

\* An insert that found no other writer at work and returns leaves on disk the
\* acknowledged keys of the other aliases too: the module "stores Keys and
\* Certificates" (line 10), it does not replace them.
InsertKeepsOthers ==
  [][\A p \in Proc :
       /\ pc[p] = "storing" /\ clean[p] /\ ret'[p] = "ok"
       /\ call[p].kind # "createKeyStore"
       => Without(acked, call[p].alias) \subseteq file'.entries]_vars

\* A call that throws before it writes leaves the keys on disk that earlier
\* inserts put there to "actually persist on the file" (line 76).
RefusedCallKeepsKeys ==
  [][\A p \in Proc : pc[p] \in {"openOut", "set"} /\ ret'[p] = "thrown" /\ acked # {}
                       => file'.state = "whole"]_vars
=============================================================================
