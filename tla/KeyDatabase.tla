---------------------------- MODULE KeyDatabase ----------------------------
(***************************************************************************)
(* The key storage of simplecrypto.js (EmmaStreamingSolution): storage.put, *)
(* get and delete on IndexedDB, from the open request of each call to the  *)
(* commit of its transactions.                                             *)
(*                                                                         *)
(* Every call opens a connection of its own.  Open requests of a database  *)
(* are served in their order; what came of each is an event on the page    *)
(* that made it, and pages take their events in order but do not wait for  *)
(* each other.  Transactions on the one object store run in the order of   *)
(* their creation, readonly ones side by side.  The library answers a call *)
(* when its request succeeds, before the transaction commits.              *)
(***************************************************************************)
EXTENDS Naturals

CONSTANTS
    Calls, Pages,
    PageOf,            \* [Calls -> the page that makes the call]
    Before,            \* [Calls -> the calls that are made before it]
    Keys, Values,
    NoValue,           \* what get finds where nothing is
    Uncloneable,       \* values IndexedDB throws at
    MayFail,           \* what may go wrong: "open", "request", "commit"
    PagesMayClose,
    Careless           \* the calls whose onSuccess may throw

ASSUME KeyDatabaseAssumption ==
    /\ PageOf \in [Calls -> Pages] /\ Before \in [Calls -> SUBSET Calls]
    /\ NoValue \notin Values /\ Uncloneable \subseteq Values
    /\ MayFail \subseteq {"open", "request", "commit"}
    /\ PagesMayClose \in BOOLEAN /\ Careless \subseteq Calls

VARIABLES
    store,         \* the object store on disk
    created,       \* the database has its object store
    queue,         \* the calls whose open request is pending
    transactions,  \* those that are not finished
    connections,   \* the calls whose connection is open
    closing,       \* those that asked for it to be closed
    call,          \* [Calls -> [op, nr, state, result]]
    closed,        \* the pages that are gone
    opens, made    \* how many open requests and transactions there were
vars == <<store, created, queue, transactions, connections, closing, call,
          closed, opens, made>>

Fresh == [op |-> << >>, nr |-> 0, state |-> "none", result |-> NoValue]
Operations ==
    ({"put"} \X Keys \X Values) \cup ({"get", "delete"} \X Keys \X {NoValue})

Init ==
    /\ store = [k \in Keys |-> NoValue] /\ created = FALSE
    /\ queue = {} /\ transactions = {} /\ opens = 0 /\ made = 0
    /\ connections = {} /\ closing = {} /\ closed = {}
    /\ call = [c \in Calls |-> Fresh]

----------------------------------------------------------------------------
(* _openDB: the open request and what its events do.                       *)

Ask(c) ==
    /\ call[c].state = "none" /\ PageOf[c] \notin closed
    /\ \A d \in Before[c] : call[d].state # "none"
    /\ opens' = opens + 1
    /\ \E op \in Operations :
        call' = [call EXCEPT ![c] = [op |-> op, nr |-> opens',
                                     state |-> "opening", result |-> NoValue]]
    /\ queue' = queue \cup {c}
    /\ UNCHANGED <<store, created, transactions, connections, closing, closed, made>>

Answer(c, state, result) ==
    call' = [call EXCEPT ![c] = [@ EXCEPT !.state = state, !.result = result]]

\* Open requests are served in their order.
First(c) == c \in queue /\ \A d \in queue : call[c].nr <= call[d].nr

onupgradeneeded ==
    /\ queue # {} /\ ~created
    /\ created' = TRUE
    /\ UNCHANGED <<store, queue, transactions, connections, closing, call, closed,
                   opens, made>>

\* The database is open, which its page will hear of.
Opens(c) ==
    /\ First(c) /\ created
    /\ queue' = queue \ {c}
    /\ connections' = connections \cup {c}
    /\ call' = [call EXCEPT ![c] = [@ EXCEPT !.state = "opened"]]
    /\ UNCHANGED <<store, created, transactions, closing, closed, opens, made>>
\* It cannot be opened.
OpenFails(c) ==
    /\ "open" \in MayFail
    /\ First(c)
    /\ queue' = queue \ {c}
    /\ call' = [call EXCEPT ![c] = [@ EXCEPT !.state = "failed"]]
    /\ UNCHANGED <<store, created, transactions, connections, closing, closed,
                   opens, made>>

\* A page takes the events of its open requests in their order.
Event(c) == call[c].state \in {"opened", "failed"}
NextEvent(c) ==
    \A d \in Calls : Event(d) /\ PageOf[d] = PageOf[c] => call[c].nr <= call[d].nr

Mode(op) == IF op[1] = "get" THEN "readonly" ELSE "readwrite"
Work(c) == [call |-> c, kind |-> "work", mode |-> Mode(call[c].op),
            done |-> FALSE, nr |-> made + 1]
RSA(c) == [call |-> c, kind |-> "RSA", mode |-> "readwrite",
           done |-> FALSE, nr |-> made + 2]

\* IndexedDB clones the value before it makes the request.
Throws(op) == op[1] = "put" /\ op[3] \in Uncloneable

\* Mutant: the call is answered when its request is made.
MutHandleAnswers(c) ==
    /\ call' = [call EXCEPT ![c].state = "ok"]
    /\ transactions' = transactions \cup {Work(c), RSA(c)}
    /\ made' = made + 2
    /\ UNCHANGED <<store, created, queue, connections, closing, closed, opens>>
\* Mutant: no transaction but that of the call.
MutHandleNoRSA(c) ==
    /\ IF Throws(call[c].op)
       THEN /\ call' = [call EXCEPT ![c] = [@ EXCEPT !.state = "lost"]]
            /\ UNCHANGED <<transactions, made>>
       ELSE /\ call' = [call EXCEPT ![c] = [@ EXCEPT !.state = "requested"]]
            /\ transactions' = transactions \cup {Work(c)}
            /\ made' = made + 2
    /\ UNCHANGED <<store, created, queue, connections, closing, closed, opens>>
\* The success handler makes the request of the call and, after it, a
\* readwrite transaction of its own that reads the key "RSA".  If the request
\* throws, the connection stays open, its transaction is empty and nobody is
\* told.
Handle(c) ==
    /\ IF Throws(call[c].op)
       THEN /\ call' = [call EXCEPT ![c] = [@ EXCEPT !.state = "lost"]]
            /\ UNCHANGED <<transactions, made>>
       ELSE /\ call' = [call EXCEPT ![c] = [@ EXCEPT !.state = "requested"]]
            /\ transactions' = transactions \cup {Work(c), RSA(c)}
            /\ made' = made + 2
    /\ UNCHANGED <<store, created, queue, connections, closing, closed, opens>>

onsuccess(c) == call[c].state = "opened" /\ NextEvent(c) /\ Handle(c)

\* Mutant: the handler tells nobody, and the call waits on.
MutOnerrorSilent(c) ==
    /\ call[c].state = "failed" /\ NextEvent(c)
    /\ call' = [call EXCEPT ![c] = [@ EXCEPT !.state = "opening"]]
    /\ UNCHANGED <<store, created, queue, transactions, connections, closing, closed,
                   opens, made>>
onerror(c) ==
    /\ call[c].state = "failed" /\ NextEvent(c)
    /\ Answer(c, "error", NoValue)
    /\ UNCHANGED <<store, created, queue, transactions, connections, closing, closed,
                   opens, made>>

----------------------------------------------------------------------------
(* Transactions.                                                           *)

\* A transaction waits for every earlier one, unless both only read.
MayRun(t) ==
    /\ ~t.done
    /\ \A u \in transactions :
        u.nr < t.nr => t.mode = "readonly" /\ u.mode = "readonly"

Drop(t) == transactions' = transactions \ {t}
Done(t) == transactions' = (transactions \ {t}) \cup {[t EXCEPT !.done = TRUE]}

\* closeDB: the connection takes no new transaction.
closeDB(c) == closing' = closing \cup {c}

Effect(op, m) ==
    CASE op[1] = "put"    -> [m EXCEPT ![op[2]] = op[3]]
      [] op[1] = "delete" -> [m EXCEPT ![op[2]] = NoValue]
      [] op[1] = "get"    -> m
\* Mutant: get hands over the key's name.
MutFoundName(op) == op[2]
Found(op) == IF op[1] = "get" THEN store[op[2]] ELSE NoValue

\* The request of the call succeeds: close, and answer at once.  An onSuccess
\* that throws aborts the transaction.
RequestSucceeds(t) ==
    /\ t.kind = "work" /\ MayRun(t)
    /\ closeDB(t.call)
    /\ Answer(t.call, "ok", Found(call[t.call].op))
    /\ Done(t) \/ (t.call \in Careless /\ Drop(t))
    /\ UNCHANGED <<store, created, queue, connections, closed, opens, made>>

\* Mutant: a failed request leaves the connection open.
MutRequestFailsOpen(t) ==
    /\ "request" \in MayFail
    /\ t.kind = "work" /\ MayRun(t)
    /\ Answer(t.call, "error", NoValue)
    /\ Drop(t)
    /\ UNCHANGED <<store, created, queue, connections, closing, closed, opens, made>>

\* It fails: close, answer, and the transaction aborts.
RequestFails(t) ==
    /\ "request" \in MayFail
    /\ t.kind = "work" /\ MayRun(t)
    /\ closeDB(t.call)
    /\ Answer(t.call, "error", NoValue)
    /\ Drop(t)
    /\ UNCHANGED <<store, created, queue, connections, closed, opens, made>>

\* The request of the extra transaction has no handler.
ReadsRSA(t) ==
    /\ t.kind = "RSA" /\ MayRun(t)
    /\ Done(t)
    /\ UNCHANGED <<store, created, queue, connections, closing, call, closed,
                   opens, made>>

Commit(t) ==
    /\ t.done
    /\ store' = IF t.kind = "RSA" THEN store ELSE Effect(call[t.call].op, store)
    /\ Drop(t)
    /\ UNCHANGED <<created, queue, connections, closing, call, closed, opens, made>>
\* The disk is full or fails: no handler listens to the transaction.
CommitFails(t) ==
    /\ "commit" \in MayFail
    /\ t.done
    /\ Drop(t)
    /\ UNCHANGED <<store, created, queue, connections, closing, call, closed,
                   opens, made>>

\* A connection closes when its transactions are finished.
Closes(c) ==
    /\ c \in connections \cap closing
    /\ \A t \in transactions : t.call # c
    /\ connections' = connections \ {c}
    /\ closing' = closing \ {c}
    /\ UNCHANGED <<store, created, queue, transactions, call, closed, opens, made>>

\* The user closes a page: its requests and transactions are aborted.
ClosePage(p) ==
    LET Stays(c) == PageOf[c] # p
    IN  /\ PagesMayClose /\ p \notin closed
        /\ closed' = closed \cup {p}
        /\ queue' = {c \in queue : Stays(c)}
        /\ transactions' = {t \in transactions : Stays(t.call)}
        /\ connections' = {c \in connections : Stays(c)}
        /\ closing' = {c \in closing : Stays(c)}
        /\ call' = [c \in Calls |->
            IF ~Stays(c) /\ call[c].state \notin {"ok", "error"}
            THEN [call[c] EXCEPT !.state = "gone"] ELSE call[c]]
        /\ UNCHANGED <<store, created, opens, made>>

----------------------------------------------------------------------------
Runs(t) ==
    \/ RequestSucceeds(t) \/ RequestFails(t) \/ ReadsRSA(t)
    \/ Commit(t) \/ CommitFails(t)
\* What the browser does by itself.
Browser ==
    \/ onupgradeneeded
    \/ \E c \in Calls :
        Opens(c) \/ OpenFails(c) \/ onsuccess(c) \/ onerror(c) \/ Closes(c)
    \/ \E t \in transactions : Runs(t)
Next ==
    \/ Browser
    \/ \E c \in Calls : Ask(c)
    \/ \E p \in Pages : ClosePage(p)

\* The browser works on while it has something to do.
Spec == Init /\ [][Next]_vars /\ WF_vars(Browser)

----------------------------------------------------------------------------
(* What the storage promises.                                              *)

TypeOK ==
    /\ store \in [Keys -> Values \cup {NoValue}]
    /\ created \in BOOLEAN
    /\ queue \subseteq Calls
    /\ transactions \subseteq [call : Calls, kind : {"work", "RSA"}, nr : Nat,
            mode : {"readonly", "readwrite"}, done : BOOLEAN]
    /\ connections \subseteq Calls /\ closing \subseteq connections
    /\ closed \subseteq Pages
    /\ opens \in Nat /\ made \in Nat
    /\ call \in [Calls -> [op : Operations \cup {<< >>}, nr : Nat,
            state : {"none", "opening", "opened", "failed", "requested", "ok", "error",
                     "lost", "gone"},
            result : Values \cup {NoValue}]]

\* A page need not wait for one call before it makes the next: its calls take
\* effect in the order in which it made them.  It is the extra transaction of
\* each call that keeps two gets apart.  Between pages there is no order: the
\* handler of a page that is busy comes after those of calls made later.
Waits(c) == call[c].state \in {"opening", "opened", "failed", "requested"}
InOrder ==
    [][\A c, d \in Calls :
        PageOf[c] = PageOf[d] /\ Waits(c) /\ Waits(d) /\ call[c].nr < call[d].nr =>
            call'[d].state # "ok"]_vars

\* All calls together are those of one map that forgets at most the last
\* change: a get sees what was put, whole pages and commits may be lost.
Changes == {t \in transactions : t.kind = "work" /\ t.done /\ t.mode = "readwrite"}
Visible ==
    IF Changes = {} THEN store
    ELSE Effect(call[(CHOOSE t \in Changes : TRUE).call].op, store)
Abstract == INSTANCE KeyMap WITH
    map <- Visible, saved <- store,
    asked <- [c \in Calls |-> call[c].op],
    answer <- [c \in Calls |->
        CASE call[c].state = "ok"    -> <<"ok", call[c].result>>
          [] call[c].state = "error" -> <<"error">>
          [] call[c].state = "gone"  -> <<"gone">>
          [] OTHER                   -> <<"none">>],
    LossAllowed <- PagesMayClose \/ "commit" \in MayFail \/ Careless # {}
ImplementsKeyMap == Abstract!Spec

\* Every call is answered unless its page is closed, whatever fails, though
\* other calls are lost in the success handler of _openDB.
EveryCallAnswers ==
    \A c \in Calls :
        call[c].state = "opening" ~>
            call[c].state \in {"ok", "error", "gone", "lost"}

\* No call but a lost one leaves its connection open.
ConnectionsClose ==
    \A c \in Calls :
        c \in connections ~> c \notin connections \/ call[c].state = "lost"

\* A put that was answered with success is in the store when its transaction
\* is finished, until a later put or delete of that key has acted.
AckedPutIsStored ==
    \A c \in Calls :
        LET op == call[c].op
        IN  /\ call[c].state = "ok" /\ op[1] = "put"
            /\ \A t \in transactions : t.call # c
            /\ \A d \in Calls : /\ call[d].nr > call[c].nr
                                 /\ call[d].op[1] # "get" /\ call[d].op[2] = op[2]
                                => Waits(d)
            => store[op[2]] = op[3]
=============================================================================
