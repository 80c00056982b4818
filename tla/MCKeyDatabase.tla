--------------------------- MODULE MCKeyDatabase ---------------------------
(***************************************************************************)
(* Small instances of KeyDatabase: two calls of one page and one of        *)
(* another on one key.                                                     *)
(***************************************************************************)
EXTENDS KeyDatabase, TLC

CONSTANTS c1, c2, c3, p, q

MCPageOf == c1 :> p @@ c2 :> p @@ c3 :> q

\* The calls of one page are named in the order in which it makes them.
MCBefore == c1 :> {} @@ c2 :> {c1} @@ c3 :> {}
=============================================================================
