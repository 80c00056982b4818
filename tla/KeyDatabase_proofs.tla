-------------------------- MODULE KeyDatabase_proofs --------------------------
(***************************************************************************)
(* Proofs about KeyDatabase, for any calls, pages, keys and values, and    *)
(* whatever may fail.                                                      *)
(***************************************************************************)
EXTENDS KeyDatabase, TLAPS

Contents == [Keys -> Values \cup {NoValue}]
Results == Values \cup {NoValue}
States ==
    {"none", "opening", "opened", "failed", "requested", "ok", "error", "lost", "gone"}
CallType == [op : Operations \cup {<< >>}, nr : Nat, state : States, result : Results]
TransactionType ==
    [call : Calls, kind : {"work", "RSA"}, nr : Nat,
     mode : {"readonly", "readwrite"}, done : BOOLEAN]

\* A call has its operation from the moment it was asked for, and a transaction
\* belongs to a call that has asked for it.
CallsHaveOps ==
    \A c \in Calls :
        /\ call[c].state = "none" => call[c].op = << >>
        /\ call[c].state \notin {"none", "gone"} => call[c].op \in Operations
WorkIsCalled ==
    \A t \in transactions :
        IF t.kind = "RSA"
        THEN /\ t.mode = "readwrite"
             /\ call[t.call].state \in {"requested", "ok", "error"}
        ELSE /\ t.mode = Mode(call[t.call].op)
             /\ call[t.call].state = IF t.done THEN "ok" ELSE "requested"
QueueIsOpening == \A c \in Calls : c \in queue <=> call[c].state = "opening"

\* The connection of a transaction is open, and that of a call that may still
\* make one; only answered calls close theirs.  A call has one transaction of
\* each kind.
Connected ==
    /\ \A t \in transactions : t.call \in connections
    /\ \A c \in Calls : call[c].state = "opened" => c \in connections
    /\ \A c \in closing : call[c].state \in {"ok", "error"}
OneOfEach ==
    \A t, u \in transactions : t.call = u.call /\ t.kind = u.kind => t = u

TypeInv ==
    /\ TypeOK
    /\ CallsHaveOps /\ WorkIsCalled /\ QueueIsOpening /\ Connected /\ OneOfEach

\* What an operation makes of a store is a store, and what it finds a result.
LEMMA EffectType ==
    ASSUME NEW op \in Operations, NEW m \in Contents
    PROVE  Effect(op, m) \in Contents
<1>1. CASE op \in {"put"} \X Keys \X Values
  BY <1>1 DEF Effect, Contents
<1>2. CASE op \in {"get", "delete"} \X Keys \X {NoValue}
  BY <1>2 DEF Effect, Contents
<1> QED
  BY <1>1, <1>2 DEF Operations

\* What an operation finds in a store is a result.
LEMMA FoundType ==
    ASSUME NEW op \in Operations, store \in Contents
    PROVE  Found(op) \in Results
BY DEF Found, Operations, Contents, Results

\* Every operation has a mode.
LEMMA ModeType ==
    ASSUME NEW op
    PROVE  Mode(op) \in {"readonly", "readwrite"}
BY DEF Mode

\* No operation is the empty one.
LEMMA OpIsNotEmpty == << >> \notin Operations
BY DEF Operations

\* A call whose state changes is a call.
LEMMA StateStays ==
    ASSUME NEW x \in CallType, NEW s \in States
    PROVE  [x EXCEPT !.state = s] \in CallType
BY DEF CallType

\* So is one whose result changes too.
LEMMA CallStays ==
    ASSUME NEW x \in CallType, NEW s \in States, NEW r \in Results
    PROVE  /\ [x EXCEPT !.state = s, !.result = r] \in CallType
           /\ [x EXCEPT !.state = s, !.result = r].op = x.op
           /\ [x EXCEPT !.state = s, !.result = r].state = s
BY DEF CallType

\* The types of the model are those of its parts.
LEMMA Types ==
    TypeOK <=> /\ store \in Contents /\ created \in BOOLEAN
               /\ queue \subseteq Calls
               /\ transactions \subseteq TransactionType
               /\ connections \subseteq Calls /\ closing \subseteq connections
               /\ closed \subseteq Pages /\ opens \in Nat /\ made \in Nat
               /\ call \in [Calls -> CallType]
BY DEF TypeOK, Contents, Results, CallType, States, TransactionType

\* The types hold and every step keeps them, with what they rest on.
LEMMA TypeInit == Init => TypeInv
<1> SUFFICES ASSUME Init
             PROVE  TypeInv
  OBVIOUS
<1>1. TypeOK
  BY DEF Init, Fresh, TypeOK
<1>2. CallsHaveOps /\ QueueIsOpening
  BY DEF Init, Fresh, CallsHaveOps, QueueIsOpening
<1>3. WorkIsCalled /\ Connected /\ OneOfEach
  BY DEF Init, Fresh, WorkIsCalled, Connected, OneOfEach
<1> QED
  BY <1>1, <1>2, <1>3 DEF TypeInv

\* A call that is asked for waits for its database to open.
LEMMA AskType ==
    ASSUME TypeInv, NEW c \in Calls, Ask(c)
    PROVE  TypeInv'
<1> USE DEF TypeInv, TypeOK
<1>1. PICK op \in Operations :
        call' = [call EXCEPT ![c] = [op |-> op, nr |-> opens',
                                     state |-> "opening", result |-> NoValue]]
  BY DEF Ask
<1>2. TypeOK'
  BY <1>1 DEF Ask
<1>3. CallsHaveOps' /\ QueueIsOpening'
  BY <1>1 DEF Ask, CallsHaveOps, QueueIsOpening
<1>4. WorkIsCalled'
  <2> SUFFICES ASSUME NEW t \in transactions
               PROVE  t.call # c
    BY <1>1 DEF Ask, WorkIsCalled
  <2> QED
    BY DEF Ask, WorkIsCalled
<1>5. Connected' /\ OneOfEach'
  BY <1>1 DEF Ask, Connected, OneOfEach
<1> QED
  BY <1>2, <1>3, <1>4, <1>5

\* A call whose open request was served waits for the event.
LEMMA ServedType ==
    ASSUME TypeInv, NEW c \in Calls, Opens(c) \/ OpenFails(c)
    PROVE  TypeInv'
<1> USE DEF TypeInv, TypeOK
<1>1. c \in queue /\ call[c].state = "opening" /\ call[c].op \in Operations
  BY DEF Opens, OpenFails, First, QueueIsOpening, CallsHaveOps
<1>2. \A t \in transactions : t.call # c
  BY <1>1 DEF WorkIsCalled
<1>3. PICK s \in {"opened", "failed"} :
        /\ call' = [call EXCEPT ![c] = [@ EXCEPT !.state = s]]
        /\ s = "opened" => connections' = connections \cup {c}
        /\ s = "failed" => connections' = connections
  BY DEF Opens, OpenFails
<1>4. /\ queue' = queue \ {c}
      /\ UNCHANGED <<store, created, transactions, closing, closed, opens, made>>
  BY DEF Opens, OpenFails
<1>5. TypeOK'
  <2>1. call' \in [Calls -> CallType]
    <3>1. call \in [Calls -> CallType] /\ s \in States
      BY Types DEF States
    <3>2. [call[c] EXCEPT !.state = s] \in CallType
      BY <3>1, StateStays
    <3> QED
      BY <1>3, <3>1, <3>2
  <2> QED
    BY <1>3, <1>4, <2>1 DEF CallType, Results, States
<1>6. CallsHaveOps' /\ QueueIsOpening'
  BY <1>1, <1>3, <1>4 DEF CallsHaveOps, QueueIsOpening
<1>7. WorkIsCalled' /\ OneOfEach'
  BY <1>2, <1>3, <1>4 DEF WorkIsCalled, OneOfEach
<1>8. Connected'
  BY <1>1, <1>3, <1>4 DEF Connected
<1> QED
  BY <1>5, <1>6, <1>7, <1>8

\* The success handler: the call is lost, or its two transactions begin.
LEMMA OnsuccessType ==
    ASSUME TypeInv, NEW c \in Calls, onsuccess(c)
    PROVE  TypeInv'
<1> USE DEF TypeInv, TypeOK
<1>1. /\ c \notin queue /\ call[c].state = "opened" /\ call[c].op \in Operations
      /\ c \in connections /\ c \notin closing
  BY DEF onsuccess, QueueIsOpening, CallsHaveOps, Connected
<1>2. \A t \in transactions : t.call # c
  BY <1>1 DEF WorkIsCalled
<1>3. UNCHANGED <<store, created, queue, connections, closing, closed, opens>>
  BY DEF onsuccess, Handle
<1>4. CASE Throws(call[c].op)
  <2>1. call' = [call EXCEPT ![c] = [@ EXCEPT !.state = "lost"]] /\ UNCHANGED transactions
    BY <1>4 DEF onsuccess, Handle
  <2>2. made' = made
    BY <1>4 DEF onsuccess, Handle
  <2>3. call' \in [Calls -> [op : Operations \cup {<< >>}, nr : Nat,
            state : States, result : Values \cup {NoValue}]]
    BY <2>1 DEF States
  <2>4. TypeOK'
    BY <1>3, <2>1, <2>2, <2>3 DEF States
  <2>5. CallsHaveOps' /\ QueueIsOpening'
    BY <1>1, <1>3, <2>1 DEF CallsHaveOps, QueueIsOpening
  <2>6. WorkIsCalled' /\ Connected' /\ OneOfEach'
    BY <1>1, <1>2, <1>3, <2>1 DEF WorkIsCalled, Connected, OneOfEach
  <2> QED
    BY <2>4, <2>5, <2>6
<1>5. CASE ~Throws(call[c].op)
  <2>1. /\ call' = [call EXCEPT ![c] = [@ EXCEPT !.state = "requested"]]
        /\ transactions' = transactions \cup {Work(c), RSA(c)}
        /\ made' = made + 2
    BY <1>5 DEF onsuccess, Handle
  <2>2. /\ Work(c) \in TransactionType
        /\ RSA(c) \in TransactionType
    BY ModeType DEF Work, RSA, TransactionType
  <2>3. TypeOK'
    <3>1. call' \in [Calls -> CallType]
      <4>1. call \in [Calls -> CallType] /\ "requested" \in States
        BY Types DEF States
      <4>2. [call[c] EXCEPT !.state = "requested"] \in CallType
        BY <4>1, StateStays
      <4> QED
        BY <2>1, <4>1, <4>2
    <3>2. transactions' \subseteq TransactionType
      BY <2>1, <2>2 DEF TransactionType
    <3> QED
      BY <1>3, <2>1, <3>1, <3>2 DEF onsuccess, Handle, CallType, Results, States, TransactionType
  <2>4. CallsHaveOps' /\ QueueIsOpening'
    BY <1>1, <1>3, <2>1 DEF CallsHaveOps, QueueIsOpening
  <2>5. WorkIsCalled'
    BY <1>2, <2>1 DEF WorkIsCalled, Work, RSA
  <2>6. Connected'
    BY <1>1, <1>3, <2>1 DEF Connected, Work, RSA
  <2>7. /\ Work(c).call = c /\ RSA(c).call = c
        /\ Work(c).kind = "work" /\ RSA(c).kind = "RSA"
    BY DEF Work, RSA
  <2>8. OneOfEach'
    <3> SUFFICES ASSUME NEW t \in transactions', NEW u \in transactions',
                        t.call = u.call, t.kind = u.kind
                 PROVE  t = u
      BY DEF OneOfEach
    <3>1. CASE t.call = c
      <4>1. t \in {Work(c), RSA(c)} /\ u \in {Work(c), RSA(c)}
        BY <1>2, <2>1, <3>1
      <4> QED
        BY <2>7, <4>1
    <3>2. CASE t.call # c
      <4>1. t \in transactions /\ u \in transactions
        BY <2>1, <2>7, <3>2
      <4> QED
        BY <4>1 DEF OneOfEach
    <3> QED
      BY <3>1, <3>2
  <2> QED
    BY <2>3, <2>4, <2>5, <2>6, <2>8
<1> QED
  BY <1>4, <1>5

\* A call whose database did not open is answered.
LEMMA OnerrorType ==
    ASSUME TypeInv, NEW c \in Calls, onerror(c)
    PROVE  TypeInv'
<1> USE DEF TypeInv, TypeOK
<1>1. c \notin queue /\ call[c].state = "failed" /\ call[c].op \in Operations
  BY DEF onerror, QueueIsOpening, CallsHaveOps
<1>2. \A t \in transactions : t.call # c
  BY <1>1 DEF WorkIsCalled
<1>3. call' = [call EXCEPT ![c] = [@ EXCEPT !.state = "error", !.result = NoValue]]
  BY DEF onerror, Answer
<1>4. TypeOK'
  <2>1. call' \in [Calls -> [op : Operations \cup {<< >>}, nr : Nat,
            state : States, result : Values \cup {NoValue}]]
    BY <1>3 DEF States
  <2>2. UNCHANGED <<store, created, queue, transactions, connections, closing, closed,
                    opens, made>>
    BY DEF onerror
  <2>3. QED
    BY <2>1, <2>2 DEF States
<1>5. CallsHaveOps' /\ QueueIsOpening'
  BY <1>1, <1>3 DEF onerror, CallsHaveOps, QueueIsOpening
<1>6. WorkIsCalled' /\ Connected' /\ OneOfEach'
  BY <1>1, <1>2, <1>3 DEF onerror, WorkIsCalled, Connected, OneOfEach
<1> QED
  BY <1>4, <1>5, <1>6

\* A transaction that drops out or is done leaves the others as they were.
LEMMA RequestType ==
    ASSUME TypeInv, NEW t \in transactions,
           RequestSucceeds(t) \/ RequestFails(t)
    PROVE  TypeInv'
<1> USE DEF TypeInv, TypeOK
<1> DEFINE c == t.call
<1>1. /\ t.kind = "work" /\ ~t.done /\ c \in Calls /\ c \in connections
      /\ call[c].state = "requested" /\ call[c].op \in Operations
  BY DEF RequestSucceeds, RequestFails, MayRun, WorkIsCalled, CallsHaveOps, Connected
<1>2. PICK state \in {"ok", "error"}, result \in Results :
        /\ call' = [call EXCEPT ![c] = [call[c] EXCEPT !.state = state, !.result = result]]
        /\ (Done(t) /\ state = "ok") \/ Drop(t)
  <2>1. NoValue \in Results /\ Found(call[c].op) \in Results
    BY <1>1, FoundType, Types DEF Results
  <2> QED
    BY <2>1, Zenon DEF RequestSucceeds, RequestFails, Answer
<1>3. (Done(t) /\ state = "ok") \/ Drop(t)
  BY <1>2
<1>4. /\ closing' = closing \cup {c} /\ queue' = queue /\ connections' = connections
      /\ store' = store /\ created' = created /\ closed' = closed
      /\ opens' = opens /\ made' = made
  BY DEF RequestSucceeds, RequestFails, closeDB
<1>5. [t EXCEPT !.done = TRUE] \in TransactionType
  BY DEF TransactionType
<1>6. TypeOK'
  <2>1. transactions' \subseteq TransactionType
    BY <1>3, <1>5 DEF Done, Drop, TransactionType
  <2>2. call' \in [Calls -> CallType]
    <3>1. call \in [Calls -> CallType] /\ state \in States
      BY Types DEF States
    <3>2. [call[c] EXCEPT !.state = state, !.result = result] \in CallType
      BY <1>1, <3>1, CallStays, Zenon
    <3> QED
      BY <1>1, <1>2, <3>1, <3>2
  <2> QED
    BY <1>1, <1>4, <2>1, <2>2 DEF TransactionType, CallType, Results, States
<1>7. CallsHaveOps' /\ QueueIsOpening'
  BY <1>1, <1>2, <1>4 DEF CallsHaveOps, QueueIsOpening
<1>8. WorkIsCalled'
  <2> SUFFICES ASSUME NEW u \in transactions, u # t
               PROVE  IF u.kind = "RSA"
                      THEN /\ u.mode = "readwrite"
                           /\ call'[u.call].state \in {"requested", "ok", "error"}
                      ELSE /\ u.mode = Mode(call'[u.call].op)
                           /\ call'[u.call].state = IF u.done THEN "ok" ELSE "requested"
    BY <1>1, <1>2, <1>3 DEF WorkIsCalled, Drop, Done
  <2>1. CASE u.call # c
    BY <1>2, <2>1 DEF WorkIsCalled
  <2>2. CASE u.call = c
    BY <1>1, <1>2, <2>2 DEF WorkIsCalled, OneOfEach
  <2> QED
    BY <2>1, <2>2
<1>9. Connected' /\ OneOfEach'
  <2>1. call'[c].state \in {"ok", "error"} /\ \A d \in Calls \ {c} : call'[d] = call[d]
    BY <1>1, <1>2, Types DEF CallType
  <2>2. Connected'
    BY <1>1, <1>3, <1>4, <2>1 DEF Connected, Drop, Done
  <2>3. OneOfEach'
    <3> DEFINE v == [t EXCEPT !.done = TRUE]
    <3>1. v.call = t.call /\ v.kind = t.kind
      OBVIOUS
    <3>2. transactions' \subseteq (transactions \ {t}) \cup {v}
      BY <1>3 DEF Drop, Done
    <3> HIDE DEF v
    <3> QED
      BY <3>1, <3>2 DEF OneOfEach
  <2> QED
    BY <2>2, <2>3
<1> QED
  BY <1>6, <1>7, <1>8, <1>9

\* The extra transaction reads its key.
LEMMA ReadsRSAType ==
    ASSUME TypeInv, NEW t \in transactions, ReadsRSA(t)
    PROVE  TypeInv'
<1> USE DEF TypeInv
<1> DEFINE v == [t EXCEPT !.done = TRUE]
<1>1. /\ t \in TransactionType /\ t.kind = "RSA"
      /\ transactions' = (transactions \ {t}) \cup {v}
  BY DEF ReadsRSA, Done, TypeOK, TransactionType
<1>2. v \in TransactionType /\ v.call = t.call /\ v.kind = t.kind /\ v.mode = t.mode
  BY <1>1 DEF TransactionType
<1>3. TypeOK'
  BY <1>1, <1>2 DEF ReadsRSA, TypeOK, TransactionType
<1>4. WorkIsCalled'
  BY <1>1, <1>2 DEF ReadsRSA, WorkIsCalled
<1>5. CallsHaveOps' /\ QueueIsOpening' /\ Connected'
  BY <1>1, <1>2 DEF ReadsRSA, CallsHaveOps, QueueIsOpening, Connected
<1>6. OneOfEach'
  <2> SUFFICES ASSUME NEW w \in transactions, NEW u \in transactions
               PROVE  /\ w.call = u.call /\ w.kind = u.kind => w = u
                      /\ w.call = v.call /\ w.kind = v.kind => w = t
    BY <1>1, Zenon DEF OneOfEach
  <2> QED
    BY <1>2 DEF OneOfEach
<1> QED
  BY <1>3, <1>4, <1>5, <1>6

\* A transaction ends, and what it changed is stored or lost.
LEMMA CommitType ==
    ASSUME TypeInv, NEW t \in transactions, Commit(t) \/ CommitFails(t)
    PROVE  TypeInv'
<1> USE DEF TypeInv
<1>1. /\ transactions' = transactions \ {t} /\ t.call \in Calls
      /\ UNCHANGED <<created, queue, connections, closing, call, closed, opens, made>>
  BY DEF Commit, CommitFails, Drop, TypeOK
<1>2. store' \in Contents
  <2>1. CASE store' = store
    BY <2>1, Types
  <2>2. CASE t.kind = "work" /\ store' = Effect(call[t.call].op, store) /\ t.done
    <3>1. call[t.call].op \in Operations
      BY <1>1, <2>2 DEF WorkIsCalled, CallsHaveOps
    <3> QED
      BY <2>2, <3>1, Types, EffectType
  <2> QED
    BY <2>1, <2>2 DEF Commit, CommitFails, TypeOK
<1>3. TypeOK'
  BY <1>1, <1>2 DEF TypeOK, Contents
<1>4. CallsHaveOps' /\ QueueIsOpening' /\ WorkIsCalled' /\ Connected' /\ OneOfEach'
  BY <1>1 DEF CallsHaveOps, QueueIsOpening, WorkIsCalled, Connected, OneOfEach
<1> QED
  BY <1>3, <1>4

\* A connection closes when it has no transaction left.
LEMMA ClosesType ==
    ASSUME TypeInv, NEW c \in Calls, Closes(c)
    PROVE  TypeInv'
BY DEF TypeInv, Closes, TypeOK, CallsHaveOps, QueueIsOpening, WorkIsCalled,
    Connected, OneOfEach

\* A page takes along what belongs to it and nothing else.
LEMMA ClosePageType ==
    ASSUME TypeInv, NEW p \in Pages, ClosePage(p)
    PROVE  TypeInv'
<1> USE DEF TypeInv
<1>1. \A c \in Calls :
        call'[c] = IF PageOf[c] = p /\ call[c].state \notin {"ok", "error"}
                   THEN [call[c] EXCEPT !.state = "gone"] ELSE call[c]
  BY DEF ClosePage
<1>2. /\ transactions' = {t \in transactions : PageOf[t.call] # p}
      /\ queue' = {c \in queue : PageOf[c] # p}
      /\ connections' = {c \in connections : PageOf[c] # p}
      /\ closing' = {c \in closing : PageOf[c] # p}
      /\ store' = store /\ created' = created /\ closed' = closed \cup {p}
      /\ opens' = opens /\ made' = made
  BY DEF ClosePage
<1>3. call' \in [Calls -> CallType]
  <2>1. call \in [Calls -> CallType] /\ "gone" \in States
    BY Types DEF States
  <2>2. \A c \in Calls : [call[c] EXCEPT !.state = "gone"] \in CallType
    BY <2>1 DEF CallType
  <2> QED
    BY <2>1, <2>2 DEF ClosePage
<1>4. TypeOK'
  <2>1. /\ store' \in Contents /\ created' \in BOOLEAN
        /\ queue' \subseteq Calls /\ transactions' \subseteq TransactionType
        /\ connections' \subseteq Calls /\ closing' \subseteq connections'
        /\ closed' \subseteq Pages /\ opens' \in Nat /\ made' \in Nat
    BY <1>2, Types
  <2> QED
    BY <1>3, <2>1 DEF TypeOK, Contents, CallType, Results, States, TransactionType
<1>5. \A c \in Calls :
        /\ call'[c].op = call[c].op
        /\ PageOf[c] # p \/ call[c].state \in {"ok", "error"} =>
               call'[c].state = call[c].state
        /\ PageOf[c] = p /\ call[c].state \notin {"ok", "error"} =>
               call'[c].state = "gone"
  BY <1>1, Types DEF CallType
<1>6. CallsHaveOps' /\ QueueIsOpening'
  BY <1>2, <1>5 DEF CallsHaveOps, QueueIsOpening
<1>7. WorkIsCalled'
  BY <1>2, <1>5, Types DEF WorkIsCalled, TransactionType
<1>8. Connected' /\ OneOfEach'
  BY <1>2, <1>5, Types DEF Connected, OneOfEach
<1> QED
  BY <1>4, <1>6, <1>7, <1>8

\* Every step keeps the types and what they rest on.
LEMMA TypeNext == TypeInv /\ [Next]_vars => TypeInv'
<1> SUFFICES ASSUME TypeInv, [Next]_vars
             PROVE  TypeInv'
  OBVIOUS
<1>1. ASSUME NEW c \in Calls, Ask(c) PROVE TypeInv'
  BY <1>1, AskType
<1>0. ASSUME NEW c \in Calls, Opens(c) \/ OpenFails(c) PROVE TypeInv'
  BY <1>0, ServedType
<1>2. ASSUME NEW c \in Calls, onsuccess(c) PROVE TypeInv'
  BY <1>2, OnsuccessType
<1>3. ASSUME NEW c \in Calls, onerror(c) PROVE TypeInv'
  BY <1>3, OnerrorType
<1>4. ASSUME NEW c \in Calls, Closes(c) PROVE TypeInv'
  BY <1>4, ClosesType
<1>5. ASSUME NEW t \in transactions, RequestSucceeds(t) \/ RequestFails(t) PROVE TypeInv'
  BY <1>5, RequestType
<1>6. ASSUME NEW t \in transactions, ReadsRSA(t) PROVE TypeInv'
  BY <1>6, ReadsRSAType
<1>7. ASSUME NEW t \in transactions, Commit(t) \/ CommitFails(t) PROVE TypeInv'
  BY <1>7, CommitType
<1>8. ASSUME NEW p \in Pages, ClosePage(p) PROVE TypeInv'
  BY <1>8, ClosePageType
<1>9. CASE onupgradeneeded
  BY <1>9 DEF onupgradeneeded, TypeInv, TypeOK, CallsHaveOps, QueueIsOpening, WorkIsCalled,
      Connected, OneOfEach
<1>10. CASE UNCHANGED vars
  BY <1>10 DEF vars, TypeInv, TypeOK, CallsHaveOps, QueueIsOpening, WorkIsCalled,
      Connected, OneOfEach
<1> QED
  BY <1>0, <1>1, <1>2, <1>3, <1>4, <1>5, <1>6, <1>7, <1>8, <1>9, <1>10
  DEF Next, Browser, Runs

\* What the key storage keeps has its type, in any number of calls and pages.
THEOREM TypeCorrect == Spec => []TypeInv
BY TypeInit, TypeNext, PTL DEF Spec

\* The type invariant of the runs holds for every value of the constants.
COROLLARY WellTyped == Spec => []TypeOK
BY TypeCorrect, PTL DEF TypeInv

----------------------------------------------------------------------------
(* The order of a page's calls: its open requests, their events and its    *)
(* transactions keep it.                                                   *)

\* The calls whose open request is pending, or whose page has not heard of it.
InLine == {c \in Calls : call[c].state \in {"opening", "opened", "failed"}}

\* Numbers are given once.
NumbersAreSpent ==
    /\ \A c \in Calls : call[c].nr <= opens
    /\ \A t \in transactions : t.nr <= made
OneNumberEach ==
    /\ \A c, d \in InLine : call[c].nr = call[d].nr => c = d
    /\ \A t, u \in transactions : t.nr = u.nr => t = u
\* Of one page, whoever still waits for the database was called after those who
\* have it, and transactions are in the order of their calls.
FIFO ==
    \A t \in transactions, c \in InLine :
        PageOf[t.call] = PageOf[c] => call[t.call].nr < call[c].nr
SameOrder ==
    \A t, u \in transactions :
        PageOf[t.call] = PageOf[u.call] /\ call[t.call].nr < call[u.call].nr =>
            t.nr < u.nr
\* Open requests are served in the order of the calls, of whatever page.
ServedFirst ==
    \A c \in Calls : Event(c) => \A d \in queue : call[c].nr < call[d].nr
\* Before a transaction that is done there are only readers.
DoneAlone ==
    \A t, u \in transactions :
        t.nr < u.nr /\ u.done => t.mode = "readonly" /\ u.mode = "readonly"
\* Behind the request of a call stands its extra transaction, which writes.
RSAFollows ==
    \A c \in Calls :
        call[c].state = "requested" =>
            \E t, u \in transactions :
                /\ t.call = c /\ t.kind = "work" /\ u.call = c /\ u.kind = "RSA"
                /\ t.nr < u.nr /\ ~u.done

Numbered == NumbersAreSpent /\ OneNumberEach /\ FIFO /\ SameOrder /\ DoneAlone
OrderInv == Numbered /\ ServedFirst /\ RSAFollows

\* The order holds at the start.
LEMMA OrderInit == Init => OrderInv
BY DEF Init, Fresh, OrderInv, Numbered, NumbersAreSpent, OneNumberEach, FIFO, SameOrder,
    DoneAlone, RSAFollows, ServedFirst, Event, InLine

\* What goes does not disturb the order of what stays.
LEMMA FewerStayNumbered ==
    ASSUME TypeInv, Numbered,
           transactions' \subseteq transactions, InLine' \subseteq InLine,
           \A c \in Calls : call'[c].nr = call[c].nr,
           opens' = opens, made' = made
    PROVE  Numbered'
<1>1. \A t \in transactions : t.call \in Calls
  BY DEF TypeInv, TypeOK
<1>2. InLine \subseteq Calls
  BY DEF InLine
<1>3. NumbersAreSpent'
  BY DEF Numbered, NumbersAreSpent
<1>4. OneNumberEach'
  BY <1>2 DEF Numbered, OneNumberEach
<1>5. FIFO'
  BY <1>1, <1>2 DEF Numbered, FIFO
<1>6. SameOrder' /\ DoneAlone'
  BY <1>1 DEF Numbered, SameOrder, DoneAlone
<1> QED
  BY <1>3, <1>4, <1>5, <1>6 DEF Numbered

\* A transaction that may run stays in its place when it is done.
LEMMA DoneStaysNumbered ==
    ASSUME TypeInv, Numbered, NEW t \in transactions, MayRun(t), Done(t),
           InLine' \subseteq InLine,
           \A c \in Calls : call'[c].nr = call[c].nr,
           opens' = opens, made' = made
    PROVE  Numbered'
<1>0. /\ [t EXCEPT !.done = TRUE].call = t.call /\ [t EXCEPT !.done = TRUE].nr = t.nr
      /\ [t EXCEPT !.done = TRUE].mode = t.mode
  BY Types DEF TypeInv, TransactionType
<1>1. PICK v :
        /\ transactions' = (transactions \ {t}) \cup {v}
        /\ v.call = t.call /\ v.nr = t.nr /\ v.mode = t.mode
  BY <1>0 DEF Done
<1>2. InLine \subseteq Calls /\ \A u \in transactions : u.call \in Calls
  BY DEF TypeInv, TypeOK, InLine
<1>3. NumbersAreSpent'
  BY <1>1 DEF Numbered, NumbersAreSpent
<1>4. OneNumberEach'
  BY <1>1, <1>2 DEF Numbered, OneNumberEach
<1>5. FIFO'
  BY <1>1, <1>2 DEF Numbered, FIFO
<1>6. SameOrder'
  BY <1>1, <1>2 DEF Numbered, SameOrder
<1>7. DoneAlone'
  BY <1>1, Types DEF Numbered, DoneAlone, MayRun, TypeInv, TransactionType
<1> QED
  BY <1>3, <1>4, <1>5, <1>6, <1>7 DEF Numbered

\* Those that were served stay before those that were not.
LEMMA ServedStays ==
    ASSUME TypeInv, ServedFirst, queue' \subseteq queue,
           \A c \in Calls : call'[c].nr = call[c].nr /\ (Event(c)' => Event(c))
    PROVE  ServedFirst'
BY DEF ServedFirst, TypeInv, TypeOK

\* A call that waits for its request keeps what stands behind it.
LEMMA RSAStays ==
    ASSUME RSAFollows,
           \A c \in Calls : call'[c].state = "requested" =>
               /\ call[c].state = "requested"
               /\ \A t \in transactions : t.call = c => t \in transactions'
    PROVE  RSAFollows'
BY DEF RSAFollows

\* A call that is made comes after all others.
LEMMA AskOrder ==
    ASSUME TypeInv, OrderInv, NEW c \in Calls, Ask(c)
    PROVE  OrderInv'
<1>1. /\ call[c].state = "none" /\ opens' = opens + 1
      /\ queue' = queue \cup {c} /\ transactions' = transactions /\ made' = made
      /\ call'[c].nr = opens + 1 /\ call'[c].state = "opening"
      /\ \A d \in Calls \ {c} : call'[d] = call[d]
  BY Types DEF Ask, TypeInv
<1>2. /\ queue \subseteq Calls \ {c} /\ opens \in Nat
      /\ \A t \in transactions : t.call \in Calls \ {c}
      /\ \A d \in Calls : call[d].nr \in Nat
  BY <1>1, Types DEF TypeInv, WorkIsCalled, QueueIsOpening, TransactionType, CallType
<1>3. NumbersAreSpent' /\ OneNumberEach' /\ FIFO'
  <2>1. InLine' = InLine \cup {c} /\ c \notin InLine
    BY <1>1 DEF InLine
  <2>2. InLine \subseteq Calls
    BY DEF InLine
  <2> QED
    BY <1>1, <1>2, <2>1, <2>2
    DEF OrderInv, Numbered, NumbersAreSpent, OneNumberEach, FIFO
<1>4. SameOrder' /\ DoneAlone'
  BY <1>1, <1>2 DEF OrderInv, Numbered, SameOrder, DoneAlone
<1>5. RSAFollows'
  BY <1>1, <1>2, RSAStays DEF OrderInv
<1>6. ServedFirst'
  BY <1>1, <1>2 DEF OrderInv, Numbered, NumbersAreSpent, ServedFirst, Event
<1> QED
  BY <1>3, <1>4, <1>5, <1>6 DEF OrderInv, Numbered

\* A call whose open request is served was the first of the queue.
LEMMA ServedOrder ==
    ASSUME TypeInv, OrderInv, NEW c \in Calls, Opens(c) \/ OpenFails(c)
    PROVE  OrderInv'
<1>1. /\ c \in queue /\ call[c].state = "opening"
      /\ \A d \in queue : call[c].nr <= call[d].nr
  BY DEF Opens, OpenFails, First, TypeInv, QueueIsOpening
<1>2. /\ queue' = queue \ {c} /\ opens' = opens /\ made' = made
      /\ transactions' = transactions
  BY DEF Opens, OpenFails
<1>3. /\ \A d \in Calls : call'[d].nr = call[d].nr
      /\ \A d \in Calls \ {c} : call'[d].state = call[d].state
      /\ call'[c].state \in {"opened", "failed"}
  BY Types DEF Opens, OpenFails, TypeInv, CallType
<1>4. Numbered'
  <2>1. InLine' \subseteq InLine
    BY <1>1, <1>3 DEF InLine
  <2> QED
    BY <1>2, <1>3, <2>1, FewerStayNumbered DEF OrderInv
<1>5. RSAFollows'
  BY <1>2, <1>3, RSAStays DEF OrderInv
<1>6. ServedFirst'
  <2> SUFFICES ASSUME NEW d \in Calls, Event(d)', NEW e \in queue, e # c
               PROVE  call[d].nr < call[e].nr
    BY <1>2, <1>3 DEF ServedFirst, TypeInv, TypeOK
  <2>1. CASE d = c
    <3>1. e \in Calls /\ call[e].nr \in Nat /\ call[c].nr \in Nat /\ call[e].state = "opening"
      BY Types DEF TypeInv, QueueIsOpening, CallType
    <3>2. call[c].nr # call[e].nr
      BY <1>1, <3>1 DEF OrderInv, Numbered, OneNumberEach, InLine
    <3> QED
      BY <1>1, <2>1, <3>1, <3>2
  <2>2. CASE d # c
    BY <1>3, <2>2 DEF Event, OrderInv, ServedFirst
  <2> QED
    BY <2>1, <2>2
<1> QED
  BY <1>4, <1>5, <1>6 DEF OrderInv

\* The first call in line of its page makes its transactions after all others.
LEMMA OnsuccessOrder ==
    ASSUME TypeInv, OrderInv, NEW c \in Calls, onsuccess(c)
    PROVE  OrderInv'
<1>1. /\ c \in InLine /\ Event(c)
      /\ queue' = queue /\ opens' = opens
      /\ \A d \in Calls : call'[d].nr = call[d].nr
      /\ \A d \in Calls \ {c} : call'[d].state = call[d].state
      /\ call'[c].state \in {"lost", "requested"}
  BY Types DEF onsuccess, Handle, TypeInv, CallType, InLine, Event
<1>2. /\ InLine \subseteq Calls /\ made \in Nat
      /\ \A t \in transactions : t.call \in Calls /\ t.nr \in Nat
      /\ \A d \in Calls : call[d].nr \in Nat
  BY Types DEF TypeInv, TransactionType, CallType, InLine
<1>5. InLine' = InLine \ {c}
  BY <1>1 DEF InLine
<1>6. ServedFirst'
  BY <1>1, ServedStays DEF OrderInv, Event
<1>7. ASSUME NEW d \in InLine, d # c, PageOf[d] = PageOf[c]
      PROVE  call[c].nr < call[d].nr
  <2>1. call[c].nr # call[d].nr
    BY <1>1, <1>7 DEF OrderInv, Numbered, OneNumberEach
  <2>2. CASE d \in queue
    BY <1>1, <2>2 DEF OrderInv, ServedFirst
  <2>3. CASE Event(d)
    BY <1>2, <1>7, <2>1, <2>3 DEF onsuccess, NextEvent
  <2> QED
    BY <2>2, <2>3 DEF InLine, Event, TypeInv, QueueIsOpening
<1>3. CASE Throws(call[c].op)
  <2>1. /\ transactions' = transactions /\ made' = made
        /\ call'[c].state = "lost"
    BY <1>3, Types DEF onsuccess, Handle, TypeInv, CallType
  <2>2. Numbered'
    BY <1>1, <1>5, <2>1, FewerStayNumbered DEF OrderInv
  <2>3. RSAFollows'
    BY <1>1, <2>1, RSAStays DEF OrderInv
  <2> QED
    BY <1>6, <2>2, <2>3 DEF OrderInv
<1>4. CASE ~Throws(call[c].op)
  <2>1. transactions' = transactions \cup {Work(c), RSA(c)} /\ made' = made + 2
    BY <1>4 DEF onsuccess, Handle
  <2>2. /\ Work(c).call = c /\ Work(c).kind = "work" /\ Work(c).nr = made + 1
        /\ RSA(c).call = c /\ RSA(c).kind = "RSA" /\ RSA(c).nr = made + 2
        /\ ~Work(c).done /\ ~RSA(c).done
    BY DEF Work, RSA
  <2>3. NumbersAreSpent'
    BY <1>1, <1>2, <2>1, <2>2 DEF OrderInv, Numbered, NumbersAreSpent
  <2>4. OneNumberEach'
    <3>1. \A d, e \in InLine' : call'[d].nr = call'[e].nr => d = e
      BY <1>1, <1>2, <1>5 DEF OrderInv, Numbered, OneNumberEach
    <3>2. \A t \in transactions : t.nr < Work(c).nr /\ t.nr < RSA(c).nr
      BY <1>2, <2>2 DEF OrderInv, Numbered, NumbersAreSpent
    <3>3. ASSUME NEW t \in transactions', NEW u \in transactions', t.nr = u.nr
          PROVE  t = u
      BY <1>2, <2>1, <2>2, <3>2, <3>3 DEF OrderInv, Numbered, OneNumberEach
    <3> QED
      BY <3>1, <3>3 DEF OneNumberEach
  <2>5. FIFO'
    <3> SUFFICES ASSUME NEW t \in transactions', NEW d \in InLine, d # c,
                        PageOf[t.call] = PageOf[d]
                 PROVE  call[t.call].nr < call[d].nr
      BY <1>1, <1>2, <1>5, <2>1, <2>2 DEF FIFO
    <3>1. CASE t \in transactions
      BY <3>1 DEF OrderInv, Numbered, FIFO
    <3>2. CASE t \in {Work(c), RSA(c)}
      BY <1>7, <2>2, <3>2
    <3> QED
      BY <2>1, <3>1, <3>2
  <2>6. SameOrder'
    <3> SUFFICES ASSUME NEW t \in transactions', NEW u \in transactions',
                        PageOf[t.call] = PageOf[u.call], call[t.call].nr < call[u.call].nr
                 PROVE  t.nr < u.nr
      BY <1>1, <1>2, <2>1, <2>2 DEF SameOrder
    <3>1. CASE t \in transactions
      BY <1>2, <2>1, <2>2, <3>1 DEF OrderInv, Numbered, SameOrder, NumbersAreSpent
    <3>2. CASE t \in {Work(c), RSA(c)}
      <4>1. t.call = c /\ u \in transactions
        BY <1>2, <2>1, <2>2, <3>2
      <4>2. call[u.call].nr < call[c].nr
        BY <1>1, <4>1 DEF OrderInv, Numbered, FIFO
      <4> QED
        BY <1>2, <4>1, <4>2
    <3> QED
      BY <2>1, <3>1, <3>2
  <2>7. DoneAlone'
    BY <1>2, <2>1, <2>2 DEF OrderInv, Numbered, DoneAlone, NumbersAreSpent
  <2>8. RSAFollows'
    <3> SUFFICES ASSUME NEW d \in Calls, call'[d].state = "requested"
                 PROVE  \E t, u \in transactions' :
                            /\ t.call = d /\ t.kind = "work" /\ u.call = d /\ u.kind = "RSA"
                            /\ t.nr < u.nr /\ ~u.done
      BY DEF RSAFollows
    <3>1. CASE d = c
      BY <1>2, <2>1, <2>2, <3>1
    <3>2. CASE d # c
      BY <1>1, <2>1, <3>2 DEF OrderInv, RSAFollows
    <3> QED
      BY <3>1, <3>2
  <2> QED
    BY <1>6, <2>3, <2>4, <2>5, <2>6, <2>7, <2>8 DEF OrderInv, Numbered
<1> QED
  BY <1>3, <1>4

\* A call that the database answers leaves its place to those behind it.
LEMMA RequestOrder ==
    ASSUME TypeInv, OrderInv, NEW t \in transactions,
           RequestSucceeds(t) \/ RequestFails(t)
    PROVE  OrderInv'
<1>1. /\ MayRun(t) /\ t.call \in Calls
      /\ queue' = queue /\ opens' = opens /\ made' = made
      /\ Done(t) \/ Drop(t)
  BY DEF RequestSucceeds, RequestFails, TypeInv, TypeOK
<1>2. /\ \A c \in Calls : call'[c].nr = call[c].nr
      /\ \A c \in Calls \ {t.call} : call'[c] = call[c]
      /\ call'[t.call].state \in {"ok", "error"}
  <2>1. PICK s \in {"ok", "error"} :
          \E r : call' = [call EXCEPT ![t.call] =
                              [call[t.call] EXCEPT !.state = s, !.result = r]]
    BY DEF RequestSucceeds, RequestFails, Answer
  <2>2. PICK r : call' = [call EXCEPT ![t.call] =
                              [call[t.call] EXCEPT !.state = s, !.result = r]]
    BY <2>1
  <2> QED
    BY <1>1, <2>2, Types DEF TypeInv, CallType
<1>3. Numbered'
  <2>0. InLine' \subseteq InLine
    BY <1>1, <1>2 DEF InLine
  <2>1. CASE Drop(t)
    BY <1>1, <1>2, <2>0, <2>1, FewerStayNumbered DEF OrderInv, Drop
  <2>2. CASE Done(t)
    BY <1>1, <1>2, <2>0, <2>2, DoneStaysNumbered DEF OrderInv
  <2> QED
    BY <1>1, <2>1, <2>2
<1>4. \A u \in transactions : u # t => u \in transactions'
  BY <1>1 DEF Done, Drop
<1>5. RSAFollows'
  BY <1>2, <1>4, RSAStays DEF OrderInv
<1>6. ServedFirst'
  BY <1>1, <1>2, ServedStays DEF OrderInv, Event
<1> QED
  BY <1>3, <1>5, <1>6 DEF OrderInv

\* The extra transaction runs only when the request of its call is over.
LEMMA ReadsRSAOrder ==
    ASSUME TypeInv, OrderInv, NEW t \in transactions, ReadsRSA(t)
    PROVE  OrderInv'
<1>1. /\ MayRun(t) /\ t.kind = "RSA" /\ t.call \in Calls /\ t.mode = "readwrite"
      /\ queue' = queue /\ opens' = opens /\ made' = made /\ call' = call
  BY DEF ReadsRSA, TypeInv, TypeOK, WorkIsCalled
<1>2. Numbered' /\ ServedFirst'
  BY <1>1, DoneStaysNumbered, ServedStays DEF OrderInv, ReadsRSA, InLine, Event
<1>3. call[t.call].state # "requested"
  <2> SUFFICES ASSUME call[t.call].state = "requested"
               PROVE  FALSE
    OBVIOUS
  <2>1. PICK w, u \in transactions :
          /\ u.call = t.call /\ u.kind = "RSA" /\ w.nr < u.nr
    BY <1>1 DEF OrderInv, RSAFollows
  <2>2. u = t
    BY <1>1, <2>1 DEF TypeInv, OneOfEach
  <2> QED
    BY <1>1, <2>1, <2>2 DEF MayRun
<1>4. \A u \in transactions : u # t => u \in transactions'
  BY DEF ReadsRSA, Done
<1>5. RSAFollows'
  BY <1>1, <1>3, <1>4, RSAStays DEF OrderInv
<1> QED
  BY <1>2, <1>5 DEF OrderInv

\* What ends had run, so nobody waits for it.
LEMMA CommitOrder ==
    ASSUME TypeInv, OrderInv, NEW t \in transactions, Commit(t) \/ CommitFails(t)
    PROVE  OrderInv'
<1>1. /\ t.done /\ t.call \in Calls /\ transactions' = transactions \ {t}
      /\ queue' = queue /\ opens' = opens /\ made' = made /\ call' = call
  BY DEF Commit, CommitFails, Drop, TypeInv, TypeOK
<1>2. Numbered' /\ ServedFirst'
  BY <1>1, FewerStayNumbered, ServedStays DEF OrderInv, InLine, Event
<1>3. call[t.call].state # "requested"
  <2> SUFFICES ASSUME call[t.call].state = "requested"
               PROVE  FALSE
    OBVIOUS
  <2>1. t.kind = "RSA"
    BY <1>1 DEF TypeInv, WorkIsCalled
  <2>2. PICK u \in transactions : u.call = t.call /\ u.kind = "RSA" /\ ~u.done
    BY <1>1 DEF OrderInv, RSAFollows
  <2> QED
    BY <1>1, <2>1, <2>2 DEF TypeInv, OneOfEach
<1>4. RSAFollows'
  BY <1>1, <1>3, RSAStays DEF OrderInv
<1> QED
  BY <1>2, <1>4 DEF OrderInv

\* A page that goes takes whole calls out of the order.
LEMMA ClosePageOrder ==
    ASSUME TypeInv, OrderInv, NEW p \in Pages, ClosePage(p)
    PROVE  OrderInv'
<1>1. /\ transactions' = {t \in transactions : PageOf[t.call] # p}
      /\ queue' = {c \in queue : PageOf[c] # p}
      /\ opens' = opens /\ made' = made
  BY DEF ClosePage
<1>2. \A c \in Calls :
        /\ call'[c].nr = call[c].nr
        /\ call'[c].state # "gone" => PageOf[c] # p \/ call[c].state \in {"ok", "error"}
        /\ call'[c].state # "gone" => call'[c].state = call[c].state
  BY Types DEF ClosePage, TypeInv, CallType
<1>3. Numbered'
  <2>1. InLine' \subseteq InLine
    BY <1>2 DEF InLine
  <2> QED
    BY <1>1, <1>2, <2>1, FewerStayNumbered DEF OrderInv
<1>4. RSAFollows'
  BY <1>1, <1>2, RSAStays DEF OrderInv
<1>5. ServedFirst'
  BY <1>1, <1>2, ServedStays DEF OrderInv, Event
<1> QED
  BY <1>3, <1>4, <1>5 DEF OrderInv

\* A call whose database did not open leaves the line.
LEMMA OnerrorOrder ==
    ASSUME TypeInv, OrderInv, NEW c \in Calls, onerror(c)
    PROVE  OrderInv'
<1>1. /\ transactions' = transactions /\ queue' = queue
      /\ opens' = opens /\ made' = made
  BY DEF onerror
<1>2. \A d \in Calls :
        /\ call'[d].nr = call[d].nr
        /\ call'[d].state # "error" => call'[d].state = call[d].state
  BY Types DEF onerror, Answer, TypeInv, CallType
<1>3. Numbered'
  <2>1. InLine' \subseteq InLine
    BY <1>2 DEF InLine
  <2> QED
    BY <1>1, <1>2, <2>1, FewerStayNumbered DEF OrderInv
<1>4. RSAFollows'
  BY <1>1, <1>2, RSAStays DEF OrderInv
<1>5. ServedFirst'
  BY <1>1, <1>2, ServedStays DEF OrderInv, Event
<1> QED
  BY <1>3, <1>4, <1>5 DEF OrderInv

\* Every step keeps the order.
LEMMA OrderNext == TypeInv /\ OrderInv /\ [Next]_vars => OrderInv'
<1> SUFFICES ASSUME TypeInv, OrderInv, [Next]_vars
             PROVE  OrderInv'
  OBVIOUS
<1>1. ASSUME NEW c \in Calls, Ask(c) PROVE OrderInv'
  BY <1>1, AskOrder
<1>0. ASSUME NEW c \in Calls, Opens(c) \/ OpenFails(c) PROVE OrderInv'
  BY <1>0, ServedOrder
<1>2. ASSUME NEW c \in Calls, onsuccess(c) PROVE OrderInv'
  BY <1>2, OnsuccessOrder
<1>3. ASSUME NEW c \in Calls, onerror(c) PROVE OrderInv'
  BY <1>3, OnerrorOrder
<1>4. ASSUME NEW t \in transactions, RequestSucceeds(t) \/ RequestFails(t) PROVE OrderInv'
  BY <1>4, RequestOrder
<1>5. ASSUME NEW t \in transactions, ReadsRSA(t) PROVE OrderInv'
  BY <1>5, ReadsRSAOrder
<1>6. ASSUME NEW t \in transactions, Commit(t) \/ CommitFails(t) PROVE OrderInv'
  BY <1>6, CommitOrder
<1>7. ASSUME NEW p \in Pages, ClosePage(p) PROVE OrderInv'
  BY <1>7, ClosePageOrder
<1>8. ASSUME UNCHANGED <<queue, transactions, call, opens, made>> PROVE OrderInv'
  BY <1>8, FewerStayNumbered, ServedStays, RSAStays DEF OrderInv, InLine, Event
<1>9. ASSUME NEW c \in Calls, Closes(c) PROVE OrderInv'
  BY <1>8, <1>9 DEF Closes
<1>10. CASE onupgradeneeded \/ UNCHANGED vars
  BY <1>8, <1>10 DEF onupgradeneeded, vars
<1> QED
  BY <1>0, <1>1, <1>2, <1>3, <1>4, <1>5, <1>6, <1>7, <1>9, <1>10 DEF Next, Browser, Runs

\* Always, the open requests, their events and the transactions of a page stand
\* in the order of its calls, behind each request stands a transaction that
\* writes, and a transaction that is done has at most readers before it.
THEOREM OrderInvariant == Spec => []OrderInv
BY TypeCorrect, OrderInit, OrderNext, PTL DEF Spec

\* No call takes effect while one that its page made before it still waits,
\* whatever other pages do and whatever fails.
THEOREM CallsActInOrder == Spec => InOrder
<1> DEFINE Step ==
      \A c, d \in Calls :
        PageOf[c] = PageOf[d] /\ Waits(c) /\ Waits(d) /\ call[c].nr < call[d].nr =>
            call'[d].state # "ok"
<1>1. TypeInv /\ OrderInv /\ [Next]_vars => [Step]_vars
  <2> SUFFICES ASSUME TypeInv, OrderInv, Next,
                      NEW c \in Calls, NEW d \in Calls, PageOf[c] = PageOf[d],
                      Waits(c), Waits(d), call[c].nr < call[d].nr, call'[d].state = "ok"
               PROVE  FALSE
    OBVIOUS
  <2>1. PICK t \in transactions : RequestSucceeds(t) /\ t.call = d
    <3>1. ASSUME NEW e \in Calls, Ask(e) PROVE FALSE
      BY <3>1, Types DEF Ask, TypeInv, CallType, Waits
    <3>0. ASSUME NEW e \in Calls, Opens(e) \/ OpenFails(e) PROVE FALSE
      BY <3>0, Types DEF Opens, OpenFails, TypeInv, CallType, Waits
    <3>2. ASSUME NEW e \in Calls, onsuccess(e) PROVE FALSE
      BY <3>2, Types DEF onsuccess, Handle, TypeInv, CallType, Waits
    <3>3. ASSUME NEW e \in Calls, onerror(e) PROVE FALSE
      BY <3>3, Types DEF onerror, Answer, TypeInv, CallType, Waits
    <3>4. ASSUME NEW t \in transactions, RequestFails(t) PROVE FALSE
      BY <3>4, Types DEF RequestFails, Answer, TypeInv, CallType, Waits
    <3>5. ASSUME NEW p \in Pages, ClosePage(p) PROVE FALSE
      BY <3>5, Types DEF ClosePage, TypeInv, CallType, Waits
    <3>6. call' # call
      BY DEF Waits
    <3>7. PICK t \in transactions : RequestSucceeds(t)
      BY <3>0, <3>1, <3>2, <3>3, <3>4, <3>5, <3>6
      DEF Next, Browser, Runs, onupgradeneeded, Closes, ReadsRSA, Commit, CommitFails
    <3>8. t.call = d
      BY <3>7, Types DEF RequestSucceeds, Answer, TypeInv, CallType, Waits
    <3> QED
      BY <3>7, <3>8
  <2>2. CASE c \in InLine
    <3>1. call[d].nr < call[c].nr /\ call[c].nr \in Nat /\ call[d].nr \in Nat
      BY <2>1, <2>2, Types DEF TypeInv, OrderInv, Numbered, FIFO, CallType
    <3> QED
      BY <3>1
  <2>3. CASE call[c].state = "requested"
    <3>1. PICK u \in transactions : u.call = c /\ u.kind = "RSA"
      BY <2>3 DEF OrderInv, RSAFollows
    <3>2. u.nr < t.nr
      BY <2>1, <3>1 DEF OrderInv, Numbered, SameOrder
    <3> QED
      BY <2>1, <3>1, <3>2 DEF RequestSucceeds, MayRun, TypeInv, WorkIsCalled
  <2> QED
    BY <2>2, <2>3 DEF Waits, InLine
<1> QED
  BY <1>1, TypeCorrect, OrderInvariant, PTL DEF Spec, InOrder

----------------------------------------------------------------------------
(* The refinement: the storage is one map that may forget its last change. *)

\* What the map of KeyMap is told and what it answers.
AnswerOf(x) ==
    CASE x.state = "ok"    -> <<"ok", x.result>>
      [] x.state = "error" -> <<"error">>
      [] x.state = "gone"  -> <<"gone">>
      [] OTHER             -> <<"none">>
asked == [c \in Calls |-> call[c].op]
answer == [c \in Calls |-> AnswerOf(call[c])]

\* At most one change is not in the store yet, and a reader sees the store
\* with this change.
OneChange ==
    /\ \A t, u \in Changes : t = u
    /\ Changes = {} => Visible = store
    /\ \A t \in Changes : Visible = Effect(call[t.call].op, store)

\* The order of the transactions leaves room for one change only.
LEMMA VisibleIs == TypeInv /\ OrderInv => OneChange
<1> SUFFICES ASSUME TypeInv, OrderInv
             PROVE  OneChange
  OBVIOUS
<1>1. ASSUME NEW t \in Changes, NEW u \in Changes
      PROVE  t = u
  <2>1. /\ t \in transactions /\ t.done /\ t.mode = "readwrite" /\ t.nr \in Nat
        /\ u \in transactions /\ u.done /\ u.mode = "readwrite" /\ u.nr \in Nat
    BY Types DEF TypeInv, TransactionType, Changes
  <2>2. ~(t.nr < u.nr) /\ ~(u.nr < t.nr)
    BY <2>1 DEF OrderInv, Numbered, DoneAlone
  <2> QED
    BY <2>1, <2>2 DEF OrderInv, Numbered, OneNumberEach
<1>2. ASSUME NEW t \in Changes
      PROVE  (CHOOSE u \in Changes : TRUE) = t
  BY <1>1
<1> QED
  BY <1>1, <1>2 DEF Visible, OneChange

\* What the refinement needs of a state.
MapInv == TypeInv /\ OrderInv /\ OneChange

\* A step that leaves the store and the changes leaves what is visible.
LEMMA VisibleStays ==
    ASSUME MapInv, OneChange', store' = store, Changes' = Changes,
           \A t \in Changes : call'[t.call].op = call[t.call].op
    PROVE  Visible' = Visible
BY DEF MapInv, OneChange

\* The initial states are those of the map.
LEMMA MapInit == Init => Abstract!Init
<1> SUFFICES ASSUME Init
             PROVE  Abstract!Init
  OBVIOUS
<1>1. Changes = {} /\ Visible = store
  BY DEF Init, Changes, Visible
<1>2. \A c \in Calls : call[c].op = << >> /\ AnswerOf(call[c]) = <<"none">>
  BY DEF Init, Fresh, AnswerOf
<1> QED
  BY <1>1, <1>2 DEF Init, Abstract!Init, AnswerOf

\* A call that is asked for is one the map is asked for.
LEMMA AskMap ==
    ASSUME MapInv, OneChange', NEW c \in Calls, Ask(c)
    PROVE  Abstract!Ask(c)
<1>1. PICK op \in Operations :
        /\ call' = [call EXCEPT ![c] = [op |-> op, nr |-> opens',
                                     state |-> "opening", result |-> NoValue]]
        /\ transactions' = transactions /\ store' = store /\ call[c].state = "none"
  BY DEF Ask
<1>2. /\ call'[c].op = op /\ call'[c].state = "opening"
      /\ \A d \in Calls \ {c} : call'[d] = call[d]
  BY <1>1, Types DEF MapInv, TypeInv
<1>3. Visible' = Visible
  <2>1. Changes' = Changes /\ \A t \in Changes : t.call \in Calls \ {c}
    BY <1>1, Types DEF Changes, MapInv, TypeInv, WorkIsCalled, TransactionType
  <2> QED
    BY <1>1, <1>2, <2>1, VisibleStays
<1>4. asked' = [asked EXCEPT ![c] = op]
  BY <1>2 DEF asked
<1>5. answer' = answer
  BY <1>1, <1>2 DEF answer, AnswerOf
<1>6. call[c].op = << >> /\ AnswerOf(call[c]) = <<"none">>
  BY <1>1 DEF MapInv, TypeInv, CallsHaveOps, AnswerOf
<1> QED
  BY <1>1, <1>3, <1>4, <1>5, <1>6
  DEF Abstract!Ask, Abstract!Operations, Operations, asked, answer, AnswerOf

\* A step that neither asks nor answers nor changes what is visible is none of
\* the map.
LEMMA Stutters ==
    ASSUME \A c \in Calls : /\ call'[c].op = call[c].op
                            /\ AnswerOf(call'[c]) = AnswerOf(call[c]),
           Visible' = Visible, store' = store
    PROVE  UNCHANGED Abstract!vars
BY DEF Abstract!vars, AnswerOf

\* The success handler is none of the map.
LEMMA OnsuccessMap ==
    ASSUME MapInv, OneChange', NEW c \in Calls, onsuccess(c)
    PROVE  UNCHANGED Abstract!vars
<1>1. call[c].state = "opened" /\ call[c].op \in Operations /\ store' = store
  BY DEF onsuccess, Handle, MapInv, TypeInv, CallsHaveOps
<1>2. PICK s \in {"lost", "requested"} :
        call' = [call EXCEPT ![c] = [call[c] EXCEPT !.state = s]]
  BY DEF onsuccess, Handle
<1>3. /\ \A d \in Calls : call'[d].op = call[d].op
      /\ call'[c].state = s
      /\ \A d \in Calls \ {c} : call'[d] = call[d]
  BY <1>2, Types DEF MapInv, TypeInv, CallType
<1>4. Changes' = Changes
  <2>1. ~Work(c).done /\ ~RSA(c).done
    BY DEF Work, RSA
  <2> QED
    BY <2>1 DEF onsuccess, Handle, Changes
<1>5. Visible' = Visible
  <2>1. \A t \in Changes : t.call \in Calls
    BY Types DEF MapInv, TypeInv, TransactionType, Changes
  <2> QED
    BY <1>1, <1>3, <1>4, <2>1, VisibleStays
<1>6. \A d \in Calls : AnswerOf(call'[d]) = AnswerOf(call[d])
  BY <1>1, <1>3 DEF AnswerOf
<1> QED
  BY <1>1, <1>3, <1>5, <1>6, Stutters

\* Nor is the service of an open request.
LEMMA ServedMap ==
    ASSUME MapInv, OneChange', NEW c \in Calls, Opens(c) \/ OpenFails(c)
    PROVE  UNCHANGED Abstract!vars
<1>1. /\ call[c].state = "opening" /\ store' = store /\ Changes' = Changes
      /\ \A t \in Changes : t.call \in Calls
  BY Types DEF Opens, OpenFails, First, MapInv, TypeInv, QueueIsOpening, Changes,
      TransactionType
<1>2. /\ \A d \in Calls : call'[d].op = call[d].op
      /\ call'[c].state \in {"opened", "failed"}
      /\ \A d \in Calls \ {c} : call'[d] = call[d]
  BY Types DEF Opens, OpenFails, MapInv, TypeInv, CallType
<1>3. Visible' = Visible
  BY <1>1, <1>2, VisibleStays
<1>4. \A d \in Calls : AnswerOf(call'[d]) = AnswerOf(call[d])
  BY <1>1, <1>2 DEF AnswerOf
<1> QED
  BY <1>1, <1>2, <1>3, <1>4, Stutters

\* What the map does when a call is answered.
LEMMA RefuseMap ==
    ASSUME MapInv, OneChange', NEW c \in Calls,
           call[c].state \in {"failed", "requested"}, Answer(c, "error", NoValue),
           Changes' = Changes, store' = store
    PROVE  Abstract!Refuse(c)
<1>1. /\ \A d \in Calls : call'[d].op = call[d].op
      /\ call'[c].state = "error"
      /\ \A d \in Calls \ {c} : call'[d] = call[d]
  BY Types DEF Answer, MapInv, TypeInv, CallType
<1>2. call[c].op # << >>
  BY OpIsNotEmpty DEF MapInv, TypeInv, CallsHaveOps
<1>3. Visible' = Visible
  <2>1. \A t \in Changes : t.call \in Calls
    BY Types DEF MapInv, TypeInv, TransactionType, Changes
  <2> QED
    BY <1>1, <2>1, VisibleStays
<1>4. answer' = [answer EXCEPT ![c] = <<"error">>]
  BY <1>1 DEF answer, AnswerOf
<1>5. AnswerOf(call[c]) = <<"none">> /\ asked' = asked
  BY <1>1 DEF AnswerOf, asked
<1> QED
  BY <1>2, <1>3, <1>4, <1>5
  DEF Abstract!Refuse, Abstract!Waiting, asked, answer, AnswerOf

\* A request that succeeds is the call acting on the map.
LEMMA ActMap ==
    ASSUME MapInv, MapInv', NEW t \in transactions, RequestSucceeds(t)
    PROVE  Abstract!Act(t.call)
<1> DEFINE c == t.call
           op == call[c].op
<1>1. /\ t \in TransactionType /\ t.kind = "work" /\ ~t.done /\ c \in Calls
      /\ call[c].state = "requested" /\ op \in Operations /\ t.mode = Mode(op)
      /\ MayRun(t) /\ store' = store
  BY Types DEF RequestSucceeds, MayRun, MapInv, TypeInv, WorkIsCalled, CallsHaveOps,
      TransactionType
<1>2. Changes = {}
  <2> SUFFICES ASSUME NEW u \in Changes
               PROVE  FALSE
    OBVIOUS
  <2>1. u \in transactions /\ u.nr \in Nat /\ t.nr \in Nat /\ u.done /\ u.mode = "readwrite"
    BY Types DEF MapInv, TypeInv, TransactionType, Changes
  <2>2. u.nr # t.nr
    BY <1>1, <2>1 DEF MapInv, OrderInv, Numbered, OneNumberEach
  <2>3. ~(u.nr < t.nr)
    BY <1>1, <2>1 DEF MayRun
  <2>4. ~(t.nr < u.nr)
    BY <1>1, <2>1 DEF MapInv, OrderInv, Numbered, DoneAlone
  <2> QED
    BY <2>1, <2>2, <2>3, <2>4
<1>3. Visible = store
  BY <1>2 DEF MapInv, OneChange
<1>4. PICK r : call' = [call EXCEPT ![c] = [call[c] EXCEPT !.state = "ok", !.result = r]]
               /\ r = Found(op)
  BY DEF RequestSucceeds, Answer
<1>5. /\ \A d \in Calls : call'[d].op = call[d].op
      /\ call'[c].state = "ok" /\ call'[c].result = r
      /\ \A d \in Calls \ {c} : call'[d] = call[d]
  BY <1>1, <1>4, Types DEF MapInv, TypeInv, CallType
<1>6. Visible' = Abstract!After(op, store) \/ (Careless # {} /\ Visible' = store)
  <2>1. CASE c \in Careless /\ Drop(t)
    <3>1. Changes' = {}
      BY <1>2, <2>1 DEF Drop, Changes
    <3> QED
      BY <1>1, <2>1, <3>1 DEF MapInv, OneChange
  <2>2. CASE Done(t)
    <3>1. PICK v :
            /\ transactions' = (transactions \ {t}) \cup {v}
            /\ v.call = c /\ v.kind = "work" /\ v.done /\ v.mode = Mode(op)
      <4>1. LET w == [t EXCEPT !.done = TRUE]
            IN  w.call = c /\ w.kind = "work" /\ w.done /\ w.mode = Mode(op)
        BY <1>1 DEF TransactionType
      <4> QED
        BY <2>2, <4>1 DEF Done
    <3>2. CASE op[1] = "get"
      <4>1. Changes' = {}
        BY <1>2, <3>1, <3>2 DEF Changes, Mode
      <4>2. Abstract!After(op, store) = store
        BY <3>2 DEF Abstract!After
      <4> QED
        BY <1>1, <4>1, <4>2 DEF MapInv, OneChange
    <3>3. CASE op[1] # "get"
      <4>1. v \in Changes'
        BY <3>1, <3>3 DEF Changes, Mode
      <4>2. Visible' = Effect(op, store)
        BY <1>1, <1>5, <3>1, <4>1 DEF MapInv, OneChange
      <4> QED
        BY <4>2 DEF Effect, Abstract!After
    <3> QED
      BY <3>2, <3>3
  <2> QED
    BY <2>1, <2>2 DEF RequestSucceeds
<1>7. answer' = [answer EXCEPT ![c] = <<"ok", Found(op)>>]
  <2>1. AnswerOf(call'[c]) = <<"ok", Found(op)>>
    BY <1>4, <1>5 DEF AnswerOf
  <2> QED
    BY <1>1, <1>5, <2>1 DEF answer, AnswerOf
<1>8. Found(op) = Abstract!Result(op, store)
  BY DEF Found, Abstract!Result
<1>9. op # << >> /\ AnswerOf(call[c]) = <<"none">> /\ asked' = asked
  BY <1>1, <1>5, OpIsNotEmpty DEF AnswerOf, asked
<1> QED
  BY <1>1, <1>3, <1>6, <1>7, <1>8, <1>9
  DEF Abstract!Act, Abstract!Waiting, asked, answer, AnswerOf

\* A request that fails refuses its call, and changes nothing.
LEMMA RequestFailsMap ==
    ASSUME MapInv, OneChange', NEW t \in transactions, RequestFails(t)
    PROVE  Abstract!Refuse(t.call)
<1>1. /\ t.call \in Calls /\ t.kind = "work" /\ ~t.done /\ call[t.call].state = "requested"
      /\ store' = store /\ Answer(t.call, "error", NoValue)
      /\ transactions' = transactions \ {t}
  BY Types DEF RequestFails, MayRun, Drop, MapInv, TypeInv, WorkIsCalled, TransactionType
<1>2. Changes' = Changes
  BY <1>1 DEF Changes
<1> QED
  BY <1>1, <1>2, RefuseMap

\* The extra transaction is none of the map.
LEMMA ReadsRSAMap ==
    ASSUME MapInv, OneChange', NEW t \in transactions, ReadsRSA(t)
    PROVE  UNCHANGED Abstract!vars
<1>1. /\ t.kind = "RSA" /\ store' = store /\ call' = call
      /\ transactions' = (transactions \ {t}) \cup {[t EXCEPT !.done = TRUE]}
  BY DEF ReadsRSA, Done
<1>2. [t EXCEPT !.done = TRUE].kind = "RSA"
  BY <1>1, Types DEF MapInv, TypeInv, TransactionType
<1>3. Changes' = Changes
  BY <1>1, <1>2 DEF Changes
<1> QED
  BY <1>1, <1>3, VisibleStays, Stutters

\* A commit saves the change of the map, if it has one.
LEMMA CommitMap ==
    ASSUME MapInv, OneChange', NEW t \in transactions, Commit(t)
    PROVE  Abstract!Save \/ UNCHANGED Abstract!vars
<1>1. /\ t \in TransactionType /\ t.done /\ call' = call
      /\ transactions' = transactions \ {t}
      /\ store' = IF t.kind = "RSA" THEN store ELSE Effect(call[t.call].op, store)
  BY Types DEF Commit, Drop, MapInv, TypeInv
<1>2. CASE t \in Changes
  <2>1. Visible = store' /\ Changes' = {}
    BY <1>1, <1>2 DEF MapInv, OneChange, Changes
  <2>2. Visible' = store'
    BY <2>1 DEF OneChange
  <2> QED
    BY <1>1, <2>1, <2>2 DEF Abstract!Save
<1>3. CASE t \notin Changes
  <2>1. Changes' = Changes
    BY <1>1, <1>3 DEF Changes
  <2>2. store' = store
    <3>1. CASE t.kind = "RSA"
      BY <1>1, <3>1
    <3>2. CASE t.kind = "work"
      <4>1. call[t.call].op[1] = "get"
        BY <1>1, <1>3, <3>2 DEF Changes, MapInv, TypeInv, WorkIsCalled, Mode, TransactionType
      <4> QED
        BY <1>1, <3>2, <4>1 DEF Effect
    <3> QED
      BY <1>1, <3>1, <3>2 DEF TransactionType
  <2> QED
    BY <1>1, <2>1, <2>2, VisibleStays, Stutters
<1> QED
  BY <1>2, <1>3

\* A commit that fails loses it.
LEMMA CommitFailsMap ==
    ASSUME MapInv, OneChange', NEW t \in transactions, CommitFails(t)
    PROVE  Abstract!Lose \/ UNCHANGED Abstract!vars
<1>1. /\ call' = call /\ store' = store /\ "commit" \in MayFail
      /\ transactions' = transactions \ {t}
  BY DEF CommitFails, Drop
<1>2. CASE t \in Changes
  <2>1. Changes' = {}
    BY <1>1, <1>2 DEF MapInv, OneChange, Changes
  <2>2. Visible' = store
    BY <1>1, <2>1 DEF OneChange
  <2> DEFINE gone == {}
  <2>3. answer' = [c \in Calls |-> IF c \in gone THEN <<"gone">> ELSE answer[c]]
    BY <1>1 DEF answer, AnswerOf
  <2>4. gone \in SUBSET {c \in Calls : answer[c] = <<"none">>} /\ asked' = asked
    BY <1>1 DEF asked
  <2> HIDE DEF gone
  <2> QED
    BY <1>1, <2>2, <2>3, <2>4, Zenon DEF Abstract!Lose, answer, asked, AnswerOf
<1>3. CASE t \notin Changes
  <2>1. Changes' = Changes
    BY <1>1, <1>3 DEF Changes
  <2> QED
    BY <1>1, <2>1, VisibleStays, Stutters
<1> QED
  BY <1>2, <1>3

\* A page that is closed takes its calls along, and the change if it is one of
\* them.
LEMMA ClosePageMap ==
    ASSUME MapInv, OneChange', NEW p \in Pages, ClosePage(p)
    PROVE  Abstract!Lose
<1> DEFINE gone == {c \in Calls : PageOf[c] = p /\ call[c].state \notin {"ok", "error", "gone"}}
<1>1. /\ PagesMayClose /\ store' = store
      /\ transactions' = {t \in transactions : PageOf[t.call] # p}
  BY DEF ClosePage
<1>2. \A c \in Calls :
        /\ call'[c].op = call[c].op
        /\ c \in gone => call'[c].state = "gone"
        /\ c \notin gone => call'[c].state = call[c].state /\ call'[c].result = call[c].result
  BY Types DEF ClosePage, MapInv, TypeInv, CallType
<1>3. Visible' \in {Visible, store}
  <2>1. Changes' \subseteq Changes
    BY <1>1 DEF Changes
  <2>2. CASE Changes' = {}
    BY <1>1, <2>2 DEF OneChange
  <2>3. CASE Changes' # {}
    <3>1. Changes' = Changes
      BY <2>1, <2>3 DEF MapInv, OneChange
    <3>2. \A t \in Changes : t.call \in Calls
      BY Types DEF MapInv, TypeInv, TransactionType, Changes
    <3> QED
      BY <1>1, <1>2, <3>1, <3>2, VisibleStays
  <2> QED
    BY <2>2, <2>3
<1>4. gone \in SUBSET {c \in Calls : answer[c] = <<"none">>}
  BY DEF answer, AnswerOf
<1>5. answer' = [c \in Calls |-> IF c \in gone THEN <<"gone">> ELSE answer[c]]
  <2>1. \A c \in Calls : AnswerOf(call'[c]) = IF c \in gone THEN <<"gone">> ELSE AnswerOf(call[c])
    BY <1>2 DEF AnswerOf
  <2> QED
    BY <2>1 DEF answer
<1>6. asked' = asked
  BY <1>2 DEF asked
<1> QED
  BY <1>1, <1>3, <1>4, <1>5, <1>6, Zenon DEF Abstract!Lose, answer, asked, AnswerOf

\* Every step of the storage is one of the map, or none.
LEMMA MapStep == MapInv /\ MapInv' /\ [Next]_vars => [Abstract!Next]_(Abstract!vars)
<1> SUFFICES ASSUME MapInv, MapInv', [Next]_vars
             PROVE  Abstract!Next \/ UNCHANGED Abstract!vars
  OBVIOUS
<1>0. OneChange' /\ \A t \in transactions : t.call \in Calls
  BY Types DEF MapInv, TypeInv, TransactionType
<1> USE DEF Abstract!Next
<1>1. ASSUME NEW c \in Calls, Ask(c) PROVE Abstract!Next
  BY <1>0, <1>1, AskMap
<1>2. ASSUME NEW c \in Calls, onsuccess(c) PROVE UNCHANGED Abstract!vars
  BY <1>0, <1>2, OnsuccessMap
<1>13. ASSUME NEW c \in Calls, Opens(c) \/ OpenFails(c) PROVE UNCHANGED Abstract!vars
  BY <1>0, <1>13, ServedMap
<1>3. ASSUME NEW c \in Calls, onerror(c) PROVE Abstract!Next
  <2>1. /\ call[c].state = "failed" /\ store' = store /\ Changes' = Changes
        /\ Answer(c, "error", NoValue)
    BY <1>3 DEF onerror, Changes
  <2> QED
    BY <1>0, <2>1, RefuseMap
<1>4. ASSUME NEW t \in transactions, RequestSucceeds(t) PROVE Abstract!Next
  BY <1>0, <1>4, ActMap
<1>5. ASSUME NEW t \in transactions, RequestFails(t) PROVE Abstract!Next
  BY <1>0, <1>5, RequestFailsMap
<1>6. ASSUME NEW t \in transactions, ReadsRSA(t) PROVE UNCHANGED Abstract!vars
  BY <1>0, <1>6, ReadsRSAMap
<1>7. ASSUME NEW t \in transactions, Commit(t) PROVE Abstract!Next \/ UNCHANGED Abstract!vars
  BY <1>0, <1>7, CommitMap
<1>8. ASSUME NEW t \in transactions, CommitFails(t)
      PROVE  Abstract!Next \/ UNCHANGED Abstract!vars
  BY <1>0, <1>8, CommitFailsMap
<1>9. ASSUME NEW p \in Pages, ClosePage(p) PROVE Abstract!Next
  BY <1>0, <1>9, ClosePageMap
<1>10. ASSUME UNCHANGED <<store, transactions, call>> PROVE UNCHANGED Abstract!vars
  <2>1. Changes' = Changes
    BY <1>10 DEF Changes
  <2> QED
    BY <1>0, <1>10, <2>1, VisibleStays, Stutters
<1>11. ASSUME NEW c \in Calls, Closes(c) PROVE UNCHANGED Abstract!vars
  BY <1>10, <1>11 DEF Closes
<1>12. CASE onupgradeneeded \/ UNCHANGED vars
  BY <1>10, <1>12 DEF onupgradeneeded, vars
<1> QED
  BY <1>1, <1>2, <1>3, <1>4, <1>5, <1>6, <1>7, <1>8, <1>9, <1>11, <1>12, <1>13
  DEF Next, Browser, Runs

\* All calls of all pages together are those of one map that forgets at most
\* the last change: the storage implements KeyMap.
THEOREM StorageImplementsMap == Spec => ImplementsKeyMap
<1>1. Spec => []MapInv
  BY TypeCorrect, OrderInvariant, VisibleIs, PTL DEF MapInv
<1>2. Init => Abstract!Init
  BY MapInit
<1>3. MapInv /\ MapInv' /\ [Next]_vars => [Abstract!Next]_(Abstract!vars)
  BY MapStep
<1> QED
  BY <1>1, <1>2, <1>3, PTL DEF Spec, ImplementsKeyMap, Abstract!Spec
=============================================================================
