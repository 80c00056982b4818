------------------------ MODULE EmmaKeyStore_proofs ------------------------
(***************************************************************************)
(* Proofs about EmmaKeyStore, for any number of programs, aliases, keys    *)
(* and passwords, with or without disk failures.                           *)
(***************************************************************************)
EXTENDS KeyStoreRefinement, TLAPS

\* A call in progress is a call that has returned nothing yet, and an insert
\* has its alias and its value.
IsInsert(c) == c.kind # "createKeyStore" => c.alias \in Alias /\ c.val \in Value

CallOK ==
  \A p \in Proc :
    /\ pc[p] # "idle" => call[p] \in Call /\ ret[p] = "none"
    /\ pc[p] \in {"openOut", "set", "store", "storing"} => IsInsert(call[p])
    /\ pc[p] = "set" => call[p].kind # "createKeyStore"

TypeInv == TypeOK /\ CallOK

\* The entry an insert makes of its arguments is an entry of the alias.
LEMMA EntryOfType ==
  ASSUME NEW c \in Call, IsInsert(c), c.kind # "createKeyStore"
  PROVE  EntryOf(c) \in Entry /\ EntryOf(c).alias = c.alias
BY DEF EntryOf, Entry, IsInsert, Call

\* A lookup in well-typed entries gives a value or an outcome.
LEMMA LookupType ==
  ASSUME NEW c, NEW img, img \subseteq Entry
  PROVE  Lookup(c, img) \in Outcome \cup Value
<1>1. Found(c, img) = {} => Lookup(c, img) = "null"
  BY DEF Lookup
<1>2. ASSUME Found(c, img) # {}
      PROVE  Lookup(c, img) \in Value \cup {"thrown"}
  <2> DEFINE e == CHOOSE f \in Found(c, img) : TRUE
  <2>1. e \in Found(c, img)
    BY <1>2
  <2>2. e.val \in Value
    BY <2>1 DEF Found, Entry
  <2>3. Lookup(c, img) = IF e.pass \in {c.pass, None} /\ e.val \in Wanted(c.kind)
                         THEN e.val ELSE "thrown"
    BY <1>2 DEF Lookup
  <2> QED
    BY <2>2, <2>3
<1> QED
  BY <1>1, <1>2 DEF Outcome

\* Every state is well typed, and every call has the arguments its step uses.
THEOREM TypeCorrect == Spec => []TypeInv
<1>1. Init => TypeInv
  BY KeyStoreAssumption DEF Init, TypeInv, TypeOK, CallOK, NoImage, File, Outcome, Steps
<1>2. TypeInv /\ [Next]_vars => TypeInv'
  <2> SUFFICES ASSUME TypeInv, [Next]_vars
               PROVE  TypeInv'
    OBVIOUS
  <2> USE DEF TypeInv, TypeOK, CallOK, Steps
  <2>1. CASE UNCHANGED vars
    BY <2>1 DEF vars, local
  <2>2. CASE MakeDirectory
    BY <2>2 DEF MakeDirectory, local
  <2>3. ASSUME NEW p \in Proc, OwnInstance(p)
        PROVE  TypeInv'
    BY <2>3 DEF OwnInstance
  <2>4. ASSUME NEW p \in Proc, CallCreate(p)
        PROVE  TypeInv'
    BY <2>4 DEF CallCreate, Begin, Goto, Call, Writers, IsInsert, Outcome, local
  <2>5. ASSUME NEW p \in Proc, CallInsert(p)
        PROVE  TypeInv'
    BY <2>5 DEF CallInsert, Begin, Goto, Call, Writers, IsInsert, Outcome, local
  <2>6. ASSUME NEW p \in Proc, CallGet(p)
        PROVE  TypeInv'
    BY <2>6 DEF CallGet, Begin, Goto, Call, Outcome, local
  <2>7. ASSUME NEW p \in Proc, Crash(p)
        PROVE  TypeInv'
    BY <2>7 DEF Crash, Return, Goto, Outcome
  <2>8. ASSUME NEW p \in Proc, OpenOut(p)
        PROVE  TypeInv'
    <3>1. file' \in File
      BY <2>8 DEF OpenOut, NoImage, File
    <3>2. pc' \in [Proc -> Steps] /\ clean' \in [Proc -> BOOLEAN]
      BY <2>8 DEF OpenOut, Goto, Disturb
    <3>3. CallOK'
      BY <2>8 DEF OpenOut, Goto
    <3> QED
      BY <2>8, <3>1, <3>2, <3>3 DEF OpenOut
  <2>9. ASSUME NEW p \in Proc, SetEntry(p)
        PROVE  TypeInv'
    <3>1. EntryOf(call[p]) \in Entry
      BY <2>9, EntryOfType DEF SetEntry
    <3> QED
      BY <2>9, <3>1 DEF SetEntry, Return, Goto, Put, Without, Outcome
  <2>10. ASSUME NEW p \in Proc, StoreBegin(p)
         PROVE  TypeInv'
    BY <2>10 DEF StoreBegin, Goto, Disturb, NoImage, File, Image, local
  <2>11. ASSUME NEW p \in Proc, StoreEnd(p)
         PROVE  TypeInv'
    <3>1. call[p] \in Call /\ Image(p) \subseteq Entry
      BY <2>11 DEF StoreEnd, Image
    <3>2. file' \in File
      BY <2>11, <3>1 DEF StoreEnd, Whole, NoImage, File, Call
    <3>3. acked' \subseteq Entry
      BY <2>11, <3>1, EntryOfType DEF StoreEnd, Put, Without
    <3> QED
      BY <2>11, <3>2, <3>3 DEF StoreEnd, Return, Goto, Disturb, Outcome
  <2>12. ASSUME NEW p \in Proc, OpenOutFails(p) \/ StoreFail(p)
         PROVE  TypeInv'
    <3>1. CASE OpenOutFails(p)
      BY <3>1 DEF OpenOutFails, Return, Goto, Outcome, local
    <3>2. CASE StoreFail(p)
      BY <3>2 DEF StoreFail, Return, Goto, Outcome, local
    <3> QED
      BY <2>12, <3>1, <3>2
  <2>13. ASSUME NEW p \in Proc, OpenIn(p)
         PROVE  TypeInv'
    BY <2>13 DEF OpenIn, Return, Goto, Outcome, local
  <2>14. ASSUME NEW p \in Proc, LoadBroken(p)
         PROVE  TypeInv'
    BY <2>14 DEF LoadBroken, Return, Goto, Outcome, File
  <2>15. ASSUME NEW p \in Proc, LoadBegin(p)
         PROVE  TypeInv'
    BY <2>15 DEF LoadBegin, Goto, File
  <2>16. ASSUME NEW p \in Proc, LoadEnd(p)
         PROVE  TypeInv'
    <3>1. Lookup(call[p], mem[p]) \in Outcome \cup Value
      BY LookupType
    <3> QED
      BY <2>16, <3>1 DEF LoadEnd, Return, Goto, Outcome
  <2>17. ASSUME NEW p \in Proc, LoadDisturbed(p)
         PROVE  TypeInv'
    <3>1. mem[p] \cup file.entries \subseteq Entry
      BY DEF File
    <3>2. mem' \in [Proc -> SUBSET Entry]
      BY <2>17, <3>1 DEF LoadDisturbed
    <3> QED
      BY <2>17, <3>2 DEF LoadDisturbed, Return, Goto, Outcome
  <2> QED
    BY <2>1, <2>2, <2>3, <2>4, <2>5, <2>6, <2>7, <2>8, <2>9, <2>10, <2>11, <2>12,
       <2>13, <2>14, <2>15, <2>16, <2>17 DEF Next
<1> QED
  BY <1>1, <1>2, PTL DEF Spec

\* The type invariant that the runs check.
COROLLARY WellTyped == Spec => []TypeOK
<1>1. TypeInv => TypeOK
  BY DEF TypeInv
<1> QED
  BY <1>1, TypeCorrect, PTL

-----------------------------------------------------------------------------
(***************************************************************************)
(* Provenance: what a KeyStore holds, what the file shows, torn or whole,  *)
(* went through setKeyEntry or setCertificateEntry of some process.        *)
(***************************************************************************)
Provenance ==
  /\ \A p \in Proc : mem[p] \subseteq inserted
  /\ file.entries \subseteq inserted

\* No step makes up an entry: neither mixed writes nor partial loads.
THEOREM ProvenanceInvariant == Spec => []Provenance
<1>1. Init => Provenance
  BY DEF Init, Provenance, NoImage
<1>2. TypeInv /\ Provenance /\ [Next]_vars => Provenance'
  <2> SUFFICES ASSUME TypeInv, Provenance, [Next]_vars
               PROVE  Provenance'
    OBVIOUS
  <2> USE DEF TypeInv, TypeOK, Provenance
  <2>1. CASE UNCHANGED vars \/ MakeDirectory
    BY <2>1 DEF vars, MakeDirectory, local
  <2>2. ASSUME NEW p \in Proc,
               OwnInstance(p) \/ CallCreate(p) \/ CallInsert(p) \/ CallGet(p)
               \/ OpenOutFails(p) \/ OpenIn(p) \/ StoreFail(p)
        PROVE  Provenance'
    BY <2>2 DEF OwnInstance, CallCreate, CallInsert, CallGet, Begin, OpenOutFails, OpenIn, StoreFail, local
  <2>3. ASSUME NEW p \in Proc, Crash(p)
        PROVE  Provenance'
    BY <2>3 DEF Crash
  <2>4. ASSUME NEW p \in Proc, OpenOut(p)
        PROVE  Provenance'
    BY <2>4 DEF OpenOut, NoImage
  <2>5. ASSUME NEW p \in Proc, SetEntry(p)
        PROVE  Provenance'
    BY <2>5 DEF SetEntry, Put, Without
  <2>6. ASSUME NEW p \in Proc, StoreBegin(p)
        PROVE  Provenance'
    <3>1. Image(p) \subseteq inserted
      BY DEF Image
    <3> QED
      BY <2>6, <3>1 DEF StoreBegin, NoImage, local
  <2>7. ASSUME NEW p \in Proc, StoreEnd(p)
        PROVE  Provenance'
    <3>1. Image(p) \subseteq inserted
      BY DEF Image
    <3>2. file'.entries \subseteq inserted
      BY <2>7, <3>1 DEF StoreEnd, Whole, NoImage
    <3> QED
      BY <2>7, <3>2 DEF StoreEnd
  <2>8. ASSUME NEW p \in Proc, LoadBroken(p)
        PROVE  Provenance'
    BY <2>8 DEF LoadBroken
  <2>9. ASSUME NEW p \in Proc, LoadBegin(p) \/ LoadEnd(p) \/ LoadDisturbed(p)
        PROVE  Provenance'
    BY <2>9 DEF LoadBegin, LoadEnd, LoadDisturbed
  <2> QED
    BY <2>1, <2>2, <2>3, <2>4, <2>5, <2>6, <2>7, <2>8, <2>9 DEF Next
<1> QED
  BY <1>1, <1>2, TypeCorrect, PTL DEF Spec

\* A value that getKey or getCertificate gives, and the cast lets pass, is an
\* entry of the alias under the caller's password and of the wanted type.
LEMMA LookupFinds ==
  ASSUME NEW c, NEW img, img \subseteq Entry, Lookup(c, img) \in Value
  PROVE  \E e \in img : /\ e.alias = c.alias /\ e.val = Lookup(c, img)
                        /\ e.pass \in {c.pass, None} /\ e.val \in Wanted(c.kind)
<1> DEFINE e == CHOOSE f \in Found(c, img) : TRUE
<1>1. "null" \notin Value /\ "thrown" \notin Value
  BY KeyStoreAssumption DEF Outcome
<1>2. Found(c, img) # {}
  BY <1>1 DEF Lookup
<1>3. e \in Found(c, img)
  BY <1>2
<1>4. Lookup(c, img) = IF e.pass \in {c.pass, None} /\ e.val \in Wanted(c.kind)
                       THEN e.val ELSE "thrown"
  BY <1>2 DEF Lookup
<1>5. e.pass \in {c.pass, None} /\ e.val \in Wanted(c.kind) /\ Lookup(c, img) = e.val
  BY <1>1, <1>4
<1> QED
  BY <1>3, <1>5 DEF Found

\* A get method only returns what was inserted under its alias and password.
THEOREM GetsReturnInserted == Spec => GetReturnsInserted
<1> DEFINE Got(p) ==
      pc[p] = "loading" /\ ret'[p] \in Value =>
        \E e \in inserted : /\ e.alias = call[p].alias /\ e.val = ret'[p]
                            /\ e.pass \in {call[p].pass, None}
                            /\ e.val \in Wanted(call[p].kind)
<1>1. TypeInv /\ Provenance /\ [Next]_vars => [\A p \in Proc : Got(p)]_vars
  <2> SUFFICES ASSUME TypeInv, Provenance, Next, NEW p \in Proc,
                      pc[p] = "loading", ret'[p] \in Value
               PROVE  \E e \in inserted : /\ e.alias = call[p].alias /\ e.val = ret'[p]
                                          /\ e.pass \in {call[p].pass, None}
                                          /\ e.val \in Wanted(call[p].kind)
    OBVIOUS
  <2>1. ret'[p] = Lookup(call[p], mem[p])
    <3>1. \A o \in Outcome : o \notin Value
      BY KeyStoreAssumption
    <3>2. ret[p] = "none" /\ ret \in [Proc -> Outcome \cup Value]
      BY DEF TypeInv, TypeOK, CallOK
    <3>3. ASSUME NEW q \in Proc, NEW r, ret' = [ret EXCEPT ![q] = r], q # p \/ r \in Outcome
          PROVE  FALSE
      BY <3>1, <3>2, <3>3 DEF Outcome
    <3>4. ret' # ret
      BY <3>1, <3>2 DEF Outcome
    <3>5. ~MakeDirectory
      BY <3>4 DEF MakeDirectory
    <3>6. ASSUME NEW q \in Proc,
                 OwnInstance(q) \/ SetEntry(q) \/ StoreBegin(q) \/ OpenOut(q) \/ OpenIn(q)
                 \/ LoadBegin(q) \/ CallCreate(q) \/ CallInsert(q) \/ CallGet(q)
          PROVE  FALSE
      BY <3>3, <3>4, <3>6 DEF OwnInstance, SetEntry, StoreBegin, OpenOut, OpenIn, LoadBegin,
         CallCreate, CallInsert, CallGet, Begin, Return, Outcome
    <3>7. ASSUME NEW q \in Proc,
                 OpenOutFails(q) \/ Crash(q) \/ StoreEnd(q) \/ StoreFail(q) \/ LoadBroken(q) \/ LoadDisturbed(q)
          PROVE  FALSE
      BY <3>3, <3>7 DEF OpenOutFails, Crash, StoreEnd, StoreFail, LoadBroken, LoadDisturbed, Return, Outcome
    <3>8. PICK q \in Proc : LoadEnd(q)
      BY <3>5, <3>6, <3>7 DEF Next
    <3>9. q = p /\ ret' = [ret EXCEPT ![p] = Lookup(call[p], mem[p])]
      <4>1. CASE file.pass = call[q].pass
        BY <3>3, <3>8, <4>1 DEF LoadEnd, Return
      <4>2. CASE file.pass # call[q].pass
        BY <3>3, <3>8, <4>2 DEF LoadEnd, Return, Outcome
      <4> QED
        BY <4>1, <4>2
    <3> QED
      BY <3>2, <3>9
  <2>2. mem[p] \subseteq Entry /\ mem[p] \subseteq inserted
    BY DEF TypeInv, TypeOK, Provenance
  <2> QED
    BY <2>1, <2>2, LookupFinds
<1> QED
  BY <1>1, TypeCorrect, ProvenanceInvariant, PTL DEF Spec, GetReturnsInserted

-----------------------------------------------------------------------------
(***************************************************************************)
(* WriterSeesItsImage is not inductive: it says nothing of a process that  *)
(* is writing or loading.  ImageInv adds that a process which has opened   *)
(* the file for output is not the author of what the file holds, and that  *)
(* the memory of an undisturbed load is the image being loaded.            *)
(***************************************************************************)
ImageInv ==
  /\ WriterSeesItsImage
  /\ file.state # "whole" => file.by = None
  /\ \A p \in Proc :
       /\ pc[p] \in {"set", "store", "storing"} => file.by # p
       /\ pc[p] = "loading" /\ clean[p] => file.state = "whole" /\ mem[p] = file.entries
       /\ pc[p] = "loading" /\ file.by = p => clean[p]

\* Every step keeps the author's memory and the image on disk in agreement.
LEMMA ImageInvNext == TypeInv /\ ImageInv /\ [Next]_vars => ImageInv'
<1> SUFFICES ASSUME TypeInv, ImageInv, [Next]_vars
             PROVE  ImageInv'
  OBVIOUS
<1> USE DEF TypeInv, TypeOK, ImageInv, WriterSeesItsImage
<1>0. \A p \in Proc : p # None
  BY KeyStoreAssumption
<1>1. CASE UNCHANGED vars \/ MakeDirectory
  BY <1>1 DEF vars, MakeDirectory, local
<1>2. ASSUME NEW p \in Proc, CallCreate(p) \/ CallInsert(p) \/ CallGet(p)
      PROVE  ImageInv'
  BY <1>2 DEF CallCreate, CallInsert, CallGet, Begin, Goto, local
<1>3. ASSUME NEW p \in Proc, OwnInstance(p)
      PROVE  ImageInv'
  BY <1>3 DEF OwnInstance
<1>4. ASSUME NEW p \in Proc, Crash(p)
      PROVE  ImageInv'
  BY <1>4 DEF Crash, Return, Goto
<1>5. ASSUME NEW p \in Proc, OpenOut(p)
      PROVE  ImageInv'
  BY <1>0, <1>5 DEF OpenOut, Goto, Disturb, NoImage
<1>6. ASSUME NEW p \in Proc, OpenOutFails(p)
      PROVE  ImageInv'
  BY <1>6 DEF OpenOutFails, Return, Goto, local
<1>7. ASSUME NEW p \in Proc, SetEntry(p)
      PROVE  ImageInv'
  BY <1>7 DEF SetEntry, Return, Goto
<1>8. ASSUME NEW p \in Proc, StoreBegin(p)
      PROVE  ImageInv'
  BY <1>0, <1>8 DEF StoreBegin, Goto, Disturb, NoImage, local
<1>9. ASSUME NEW p \in Proc, StoreEnd(p)
      PROVE  ImageInv'
  <2>1. CASE file' = file
    <3>1. clean' = [clean EXCEPT ![p] = FALSE] \/ clean' = [q \in Proc |-> q = p /\ FALSE]
      BY <1>9 DEF StoreEnd, Disturb
    <3>2. file.by # p
      BY <1>9 DEF StoreEnd
    <3> QED
      BY <1>9, <2>1, <3>1, <3>2 DEF StoreEnd, Return, Goto
  <2>2. CASE file' # file
    <3>1. \A q \in Proc : ~clean'[q]
      <4>1. Disturb(p, FALSE)
        <5>1. PICK f : file' = f /\ (IF f = file THEN clean' = [clean EXCEPT ![p] = FALSE]
                                                ELSE Disturb(p, FALSE))
          BY <1>9, Zenon DEF StoreEnd
        <5> QED
          BY <2>2, <5>1, Zenon
      <4>2. clean' = [q \in Proc |-> q = p /\ FALSE]
        BY <4>1, Zenon DEF Disturb
      <4> QED
        BY <4>2
    <3>2. \/ file' = Whole(p, call[p].pass, Image(p))
          \/ file' = NoImage("torn", Image(p) \cup file.entries)
      BY <1>9, <2>2 DEF StoreEnd
    <3>3. pc' = [pc EXCEPT ![p] = "idle"] /\ mem'[p] = Image(p)
      BY <1>9 DEF StoreEnd, Return, Goto, Image
    <3>4. CASE file' = NoImage("torn", Image(p) \cup file.entries)
      BY <1>0, <3>1, <3>3, <3>4 DEF NoImage
    <3>5. CASE file' = Whole(p, call[p].pass, Image(p))
      BY <3>1, <3>3, <3>5 DEF Whole
    <3> QED
      BY <3>2, <3>4, <3>5
  <2> QED
    BY <2>1, <2>2
<1>10. ASSUME NEW p \in Proc, StoreFail(p)
       PROVE  ImageInv'
  BY <1>10 DEF StoreFail, Return, Goto, local
<1>11. ASSUME NEW p \in Proc, OpenIn(p)
       PROVE  ImageInv'
  BY <1>11 DEF OpenIn, Return, Goto, local
<1>12. ASSUME NEW p \in Proc, LoadBroken(p)
       PROVE  ImageInv'
  BY <1>12 DEF LoadBroken, Return, Goto
<1>13. ASSUME NEW p \in Proc, LoadBegin(p)
       PROVE  ImageInv'
  BY <1>13 DEF LoadBegin, Goto
<1>14. ASSUME NEW p \in Proc, LoadEnd(p)
       PROVE  ImageInv'
  BY <1>14 DEF LoadEnd, Return, Goto
<1>15. ASSUME NEW p \in Proc, LoadDisturbed(p)
       PROVE  ImageInv'
  BY <1>15 DEF LoadDisturbed, Return, Goto
<1> QED
  BY <1>1, <1>2, <1>3, <1>4, <1>5, <1>6, <1>7, <1>8, <1>9, <1>10, <1>11, <1>12, <1>13,
     <1>14, <1>15 DEF Next

\* The author of the image on disk holds exactly that image in memory.
THEOREM WriterKnowsItsImage == Spec => []WriterSeesItsImage
<1>1. Init => ImageInv
  BY KeyStoreAssumption DEF Init, ImageInv, WriterSeesItsImage, NoImage
<1>2. ImageInv => WriterSeesItsImage
  BY DEF ImageInv
<1> QED
  BY <1>1, <1>2, ImageInvNext, TypeCorrect, PTL DEF Spec

-----------------------------------------------------------------------------
(***************************************************************************)
(* One program alone, on a disk that does not fail.  VaultInv says that a  *)
(* KeyStore that is ready holds exactly what was acknowledged, except that *)
(* an insert on its way to the disk is in memory already: a torn file is   *)
(* only seen by a program that crashed, and whose new KeyStore is not      *)
(* ready, so what an insert writes back is what the file it truncated      *)
(* held.  NoLostKey and the refinement of KeyVault both follow.            *)
(***************************************************************************)
Solo == DiskMayFail = FALSE /\ \E p \in Proc : Proc = {p}

DiskInv ==
  /\ file.state = "whole" => acked = file.entries
  /\ file.state # "whole" => file.pass = None

MemoryInv(p) ==
  /\ obj[p] = "ready" /\ pc[p] \notin {"store", "storing"} => mem[p] = acked
  /\ pc[p] \in {"store", "storing"} =>
       IF call[p].kind = "createKeyStore"
       THEN acked = {}
       ELSE obj[p] = "ready" /\ mem[p] = Put(acked, EntryOf(call[p]))

StepInv(p) ==
  /\ obj[p] = "ready" /\ file.state = "torn" => pc[p] = "storing"
  /\ pc[p] = "storing" => clean[p]
  /\ pc[p] = "loading" => clean[p] /\ file.state = "whole" /\ mem[p] = file.entries
  /\ pc[p] \in {"set", "store", "storing"} => file.state # "whole"

CallInv(p) ==
  /\ pc[p] = "idle" => call[p] = None
  /\ pc[p] \in {"openOut", "set", "store", "storing"} => call[p].kind \in Writers
  /\ pc[p] \in {"openIn", "load", "loading"} => call[p].kind \in Readers

VaultInv == DiskInv /\ \A p \in Proc : MemoryInv(p) /\ StepInv(p) /\ CallInv(p)

\* Every step of the one program keeps what it acknowledged on disk or in memory.
LEMMA VaultInvNext ==
  ASSUME Solo, TypeInv, VaultInv, [Next]_vars
  PROVE  VaultInv'
<1> USE DEF TypeInv, TypeOK, VaultInv, DiskInv, MemoryInv, StepInv, CallInv
<1>0. PICK p \in Proc : Proc = {p}
  BY DEF Solo
<1>1. CASE UNCHANGED vars \/ MakeDirectory
  BY <1>1 DEF vars, MakeDirectory, local
<1>2. CASE CallCreate(p) \/ CallInsert(p) \/ CallGet(p)
  BY <1>0, <1>2 DEF CallCreate, CallInsert, CallGet, Begin, Goto, local, Writers
<1>3. CASE OwnInstance(p) \/ Crash(p)
  BY <1>0, <1>3 DEF OwnInstance, Crash, Return, Goto
<1>4. CASE OpenOut(p)
  BY <1>0, <1>4 DEF OpenOut, Goto, Disturb, NoImage
<1>5. CASE OpenOutFails(p)
  BY <1>0, <1>5 DEF OpenOutFails, Return, Goto, local
<1>12. CASE SetEntry(p)
  <2>1. CASE Refused(p)
    BY <1>0, <1>12, <2>1 DEF SetEntry, Return, Goto
  <2>2. CASE ~Refused(p)
    <3>1. /\ mem' = [mem EXCEPT ![p] = Put(@, EntryOf(call[p]))]
          /\ acked' = Without(acked, call[p].alias)
          /\ pc' = [pc EXCEPT ![p] = "store"] /\ pc[p] = "set"
          /\ UNCHANGED <<file, obj, clean, call>>
      BY <1>12, <2>2 DEF SetEntry, Goto
    <3>2. obj[p] = "ready" /\ call[p].kind # "createKeyStore"
      BY <2>2, <3>1 DEF Refused, CallOK
    <3>3. EntryOf(call[p]).alias = call[p].alias
      BY DEF EntryOf
    <3>4. mem'[p] = Put(acked', EntryOf(call[p]))
      BY <1>0, <3>1, <3>2, <3>3 DEF Put, Without
    <3>5. Put(acked, EntryOf(call[p]))' = Put(acked', EntryOf(call[p]))
      BY <3>1 DEF Put, EntryOf, Without
    <3>6. MemoryInv(p)'
      BY <1>0, <3>1, <3>2, <3>4, <3>5
    <3>7. DiskInv' /\ StepInv(p)' /\ CallInv(p)'
      BY <1>0, <3>1
    <3> QED
      BY <1>0, <3>6, <3>7
  <2> QED
    BY <2>1, <2>2
<1>6. CASE StoreBegin(p)
  <2>1. pc[p] = "store" /\ Storing = {}
    BY <1>0, <1>6 DEF StoreBegin, Storing
  <2>2. /\ file' = NoImage("torn", Image(p) \cup file.entries) /\ clean' = [q \in Proc |-> q = p]
        /\ pc' = [pc EXCEPT ![p] = "storing"]
        /\ UNCHANGED <<call, obj, mem, acked>>
    BY <1>6, <2>1 DEF StoreBegin, Disturb, Goto, local
  <2> QED
    BY <1>0, <2>1, <2>2 DEF NoImage, Image
<1>7. CASE StoreEnd(p)
  <2>1. /\ clean[p] /\ pc[p] = "storing"
        /\ file' = Whole(p, call[p].pass, Image(p))
        /\ pc' = [pc EXCEPT ![p] = "idle"]
        /\ call' = [call EXCEPT ![p] = None]
    BY <1>7 DEF StoreEnd, Return, Goto
  <2>2. CASE call[p].kind = "createKeyStore"
    <3>1. obj' = [obj EXCEPT ![p] = "ready"] /\ mem' = [mem EXCEPT ![p] = {}] /\ acked' = {}
      BY <1>7, <2>2 DEF StoreEnd
    <3>2. file'.entries = {} /\ file'.state = "whole"
      BY <2>1, <2>2 DEF Whole, Image
    <3> QED
      BY <1>0, <2>1, <3>1, <3>2
  <2>3. CASE call[p].kind # "createKeyStore"
    <3>1. acked' = Put(acked, EntryOf(call[p])) /\ UNCHANGED <<obj, mem>>
      BY <1>7, <2>3 DEF StoreEnd
    <3>2. mem'[p] = acked' /\ file'.entries = acked' /\ file'.state = "whole"
      BY <1>0, <2>1, <2>3, <3>1 DEF Whole, Image
    <3> QED
      BY <1>0, <2>1, <2>3, <3>1, <3>2
  <2> QED
    BY <2>2, <2>3
<1>8. CASE StoreFail(p)
  BY <1>8 DEF StoreFail, Solo
<1>9. CASE OpenIn(p) \/ LoadBegin(p)
  BY <1>0, <1>9 DEF OpenIn, LoadBegin, Return, Goto, local
<1>10. CASE LoadBroken(p)
  BY <1>0, <1>10 DEF LoadBroken, Return, Goto
<1>11. CASE LoadEnd(p) \/ LoadDisturbed(p)
  BY <1>0, <1>11 DEF LoadEnd, LoadDisturbed, Return, Goto
<1> QED
  BY <1>0, <1>1, <1>2, <1>3, <1>4, <1>5, <1>6, <1>7, <1>8, <1>9, <1>10, <1>11,
     <1>12 DEF Next

\* A program that has the key store to itself never leaves an image on disk
\* without a key it acknowledged, whatever calls are refused and whenever it
\* is killed.
THEOREM SoloLosesNoKey ==
  ASSUME Solo
  PROVE  Spec => []NoLostKey
<1>1. Init => VaultInv
  BY DEF Init, VaultInv, DiskInv, MemoryInv, StepInv, CallInv, NoImage
<1>2. TypeInv /\ VaultInv /\ [Next]_vars => VaultInv'
  BY VaultInvNext
<1>3. VaultInv => NoLostKey
  BY DEF VaultInv, DiskInv, NoLostKey
<1> QED
  BY <1>1, <1>2, <1>3, TypeCorrect, PTL DEF Spec

\* Every step of the one program is a step of the vault, or none at all.
LEMMA VaultStep ==
  ASSUME Solo, TypeInv, VaultInv, [Next]_vars
  PROVE  [Vault!Next]_(Vault!vars)
<1> USE DEF TypeInv, TypeOK, VaultInv, Vault!vars, Vault!Next
<1>0. me \in Proc /\ Proc = {me}
  BY DEF Solo, me
<1>1. pc[me] = "idle" => call[me] = None
  BY <1>0 DEF CallInv
<1>2. pc[me] # "idle" => call[me] \in Call
  BY <1>0 DEF CallOK
<1>3. CASE UNCHANGED vars \/ MakeDirectory \/ OwnInstance(me)
  BY <1>3 DEF vars, MakeDirectory, OwnInstance, local
<1>4. CASE CallCreate(me) \/ CallInsert(me) \/ CallGet(me)
  <2>1. PICK c, step : Begin(me, c, step)
    BY <1>4 DEF CallCreate, CallInsert, CallGet
  <2>2. call'[me] \in Call
    BY <1>0, <1>4 DEF CallCreate, CallInsert, CallGet, Begin, Call, Writers, Readers
  <2>3. Vault!Ask
    BY <1>0, <1>1, <2>1, <2>2 DEF Begin, local, Vault!Ask
  <2> QED
    BY <2>3
<1>5. CASE Crash(me)
  <2>1. Vault!End
    BY <1>0, <1>5 DEF Crash, Return, Vault!End, Vault!Reply
  <2> QED
    BY <2>1
<1>6. CASE OpenOut(me) \/ SetEntry(me)
  <2>1. call[me] \in CallsOf({"createKeyStore"}) \/ call[me] \in CallsOf({"insertKey", "insertCert"})
    BY <1>0, <1>2, <1>6 DEF OpenOut, SetEntry, CallInv, CallsOf, Writers
  <2>2. CASE SetEntry(me) /\ Refused(me)
    <3>1. Vault!Refuse
      BY <1>0, <2>1, <2>2 DEF SetEntry, Return, Goto, Vault!Refuse, Vault!Reply
    <3> QED
      BY <3>1
  <2>3. CASE SetEntry(me) /\ ~Refused(me)
    <3>1. acked' = Without(acked, call[me].alias) /\ UNCHANGED <<file, call, ret>>
      BY <2>3 DEF SetEntry
    <3>2. file.pass = None /\ call[me].kind # "createKeyStore"
      BY <1>0, <2>3 DEF SetEntry, StepInv, DiskInv, CallOK
    <3>3. Vault!Break
      BY <2>1, <3>1, <3>2 DEF Vault!Break, Vault!Without, Without, CallsOf
    <3> QED
      BY <3>3
  <2>4. CASE OpenOut(me)
    <3>1. Vault!Break
      BY <2>1, <2>4 DEF OpenOut, NoImage, Vault!Break, CallsOf
    <3> QED
      BY <3>1
  <2> QED
    BY <1>6, <2>2, <2>3, <2>4
<1>7. CASE OpenOutFails(me)
  <2>1. Vault!Refuse
    BY <1>0, <1>2, <1>7
    DEF OpenOutFails, Return, local, CallInv, CallsOf, Writers, Vault!Refuse, Vault!Reply
  <2> QED
    BY <2>1
<1>8. CASE StoreBegin(me)
  BY <1>0, <1>8 DEF StoreBegin, NoImage, StepInv, DiskInv, local
<1>9. CASE StoreEnd(me)
  <2>1. /\ file'.pass = call[me].pass
        /\ call' = [call EXCEPT ![me] = None] /\ ret' = [ret EXCEPT ![me] = "ok"]
        /\ call[me] \in Call /\ call[me].kind \in Writers
    BY <1>0, <1>2, <1>9 DEF StoreEnd, Return, StepInv, CallInv, Whole
  <2>2. CASE call[me].kind = "createKeyStore"
    <3>1. acked' = {}
      BY <1>9, <2>2 DEF StoreEnd
    <3>2. Vault!Write
      BY <1>0, <2>1, <2>2, <3>1 DEF Vault!Write, Vault!Reply, CallsOf
    <3> QED
      BY <3>2
  <2>3. CASE call[me].kind # "createKeyStore"
    <3>1. acked' = Put(acked, EntryOf(call[me]))
      BY <1>9, <2>3 DEF StoreEnd
    <3>2. EntryOf(call[me]).alias = call[me].alias
      BY DEF EntryOf
    <3>3. acked' = {e \in acked : e.alias # call[me].alias} \cup {EntryOf(call[me])}
      BY <3>1, <3>2 DEF Put, Without
    <3>4. Vault!Write
      BY <1>0, <2>1, <2>3, <3>3 DEF Vault!Write, Vault!Reply, Vault!Without, CallsOf, Writers
    <3> QED
      BY <3>4
  <2> QED
    BY <2>2, <2>3
<1>10. CASE StoreFail(me)
  BY <1>10 DEF StoreFail, Solo
<1>11. CASE OpenIn(me) \/ LoadBroken(me)
  <2>1. CASE UNCHANGED <<call, ret>>
    BY <1>11, <2>1 DEF OpenIn, LoadBroken, local
  <2>2. CASE Return(me, "thrown")
    <3>1. file.state # "whole" \/ UNCHANGED <<call, ret>>
      BY <1>11 DEF OpenIn, LoadBroken
    <3>2. call[me] \in CallsOf(Readers)
      BY <1>0, <1>2, <1>11 DEF OpenIn, LoadBroken, CallInv, CallsOf
    <3>3. call[me].pass # None
      BY <3>2, KeyStoreAssumption DEF CallsOf, Call
    <3>4. Vault!Refuse \/ UNCHANGED Vault!vars
      BY <1>0, <1>11, <2>2, <3>1, <3>2, <3>3
      DEF OpenIn, LoadBroken, Return, local, DiskInv, Vault!Refuse, Vault!Reply
    <3> QED
      BY <3>4
  <2> QED
    BY <1>11, <2>1, <2>2 DEF OpenIn, LoadBroken
<1>12. CASE LoadBegin(me)
  BY <1>12 DEF LoadBegin
<1>13. CASE LoadEnd(me)
  <2>1. call[me] \in CallsOf(Readers) /\ mem[me] = acked
    BY <1>0, <1>2, <1>13 DEF LoadEnd, CallInv, StepInv, DiskInv, CallsOf
  <2>2. Vault!Answer \/ Vault!Refuse
    BY <1>0, <1>13, <2>1
    DEF LoadEnd, Return, Vault!Answer, Vault!Refuse, Vault!Reply
  <2> QED
    BY <2>2
<1>14. CASE LoadDisturbed(me)
  BY <1>0, <1>14 DEF LoadDisturbed, StepInv
<1> QED
  BY <1>0, <1>3, <1>4, <1>5, <1>6, <1>7, <1>8, <1>9, <1>10, <1>11, <1>12, <1>13, <1>14
  DEF Next

\* The key store implements the vault for a program that has it to itself.
THEOREM SoloImplementsVault ==
  ASSUME Solo
  PROVE  Spec => ImplementsVault
<1>0. me \in Proc /\ Proc = {me}
  BY DEF Solo, me
<1>1. Init => Vault!Init
  BY <1>0 DEF Init, NoImage, Vault!Init
<1>2. Init => VaultInv
  BY DEF Init, VaultInv, DiskInv, MemoryInv, StepInv, CallInv, NoImage
<1>3. TypeInv /\ VaultInv /\ [Next]_vars => VaultInv'
  BY VaultInvNext
<1>4. TypeInv /\ VaultInv /\ [Next]_vars => [Vault!Next]_(Vault!vars)
  BY VaultStep
<1> QED
  BY <1>1, <1>2, <1>3, <1>4, TypeCorrect, PTL DEF Spec, ImplementsVault, Vault!Spec
=============================================================================
