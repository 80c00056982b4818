------------------------- MODULE KeyStoreRefinement -------------------------
(***************************************************************************)
(* A program that has the key store of EmmaKeyStore to itself uses a       *)
(* KeyVault: what is held are the entries whose insert returned, and the   *)
(* seal is the password of the image on disk, if there is one.             *)
(***************************************************************************)
EXTENDS EmmaKeyStore

\* The one program.
me == CHOOSE p \in Proc : TRUE

CallsOf(kinds) == {c \in Call : c.kind \in kinds}

Vault == INSTANCE KeyVault WITH
  Create <- CallsOf({"createKeyStore"}),
  Insert <- CallsOf({"insertKey", "insertCert"}),
  Get    <- CallsOf(Readers),
  held   <- acked,
  seal   <- file.pass,
  call   <- call[me],
  answer <- ret[me]

\* With one program and a disk that does not fail, the truncations, loads and
\* stores of KeyPrimStorage (lines 44-134) are the steps of a vault: a get that
\* returns gives what the last insert under the alias stored, null only where
\* nothing is stored, and throws only for the password or the type.
ImplementsVault == Vault!Spec
=============================================================================
