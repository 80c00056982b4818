------------------------------ MODULE KeyVault ------------------------------
(***************************************************************************)
(* What a key store promises the one program that uses it: it holds at     *)
(* most one entry per alias, under the password of the last write, which   *)
(* seals it; a get answers from what is held, and changes nothing; a write *)
(* that is not done breaks the seal, and with it every get, until a later  *)
(* write is done, but the entries it did not name are still there then.    *)
(***************************************************************************)
CONSTANTS
  Call, Create, Insert, Get,  \* the calls: each creates, inserts or gets
  None,                       \* no call, no seal
  EntryOf(_),                 \* the entry an insert asks for
  Lookup(_, _)                \* what a get finds in a set of entries

VARIABLES held, seal, call, answer

vars == <<held, seal, call, answer>>

Without(a) == {e \in held : e.alias # a}

Init == held = {} /\ seal = None /\ call = None /\ answer = "none"

Ask ==
  /\ call = None
  /\ call' \in Call
  /\ answer' = "none"
  /\ UNCHANGED <<held, seal>>

Reply(r) == call' = None /\ answer' = r

\* A write has begun: nothing can be read, and what it names is given up.
Break ==
  /\ \/ call \in Create /\ held' = {}
     \/ call \in Insert /\ held' \in {held, Without(call.alias)}
  /\ seal' = None
  /\ UNCHANGED <<call, answer>>

Write ==
  /\ \/ call \in Create /\ held' = {}
     \/ call \in Insert /\ held' = Without(call.alias) \cup {EntryOf(call)}
  /\ seal' = call.pass
  /\ Reply("ok")

\* A write may always be refused, a get only for the password of the store.
Refuse ==
  /\ call \in Create \cup Insert \/ (call \in Get /\ call.pass # seal)
  /\ Reply("thrown")
  /\ UNCHANGED <<held, seal>>

Answer ==
  /\ call \in Get /\ call.pass = seal
  /\ Reply(Lookup(call, held))
  /\ UNCHANGED <<held, seal>>

\* The program ends.
End == Reply("none") /\ UNCHANGED <<held, seal>>

Next == Ask \/ Break \/ Write \/ Refuse \/ Answer \/ End

Spec == Init /\ [][Next]_vars
=============================================================================
