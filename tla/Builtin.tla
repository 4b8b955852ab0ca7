------------------------------ MODULE Builtin ------------------------------
(***************************************************************************)
(* A builtin of hc (hc/builtin.c), which both programs run: it makes a     *)
(* pool below the caller's, builds the table of hashes anew in that pool,  *)
(* looks the hash up, works, and destroys the pool.  The table is a global *)
(* of l2h/hashes.c that keeps pointing to where it was built last, so a    *)
(* look up after a builtin has closed reads a table that is gone.          *)
(***************************************************************************)
EXTENDS Integers, Sequences

CONSTANTS
  KnownHashes,   \* the names in the table
  PoolParent     \* a pool |-> the pool it is made in, "" for none

VARIABLES
  pools,         \* the pools that exist
  table,         \* the pool in which ht_algorithms was built last
  definition     \* builtin_hash: the name of the hash in use, "" is NULL

builtinVars == <<pools, table, definition>>

\* The pool p and those around it.
Enclosing[p \in DOMAIN PoolParent] ==
  {p} \cup IF PoolParent[p] = "" THEN {} ELSE Enclosing[PoolParent[p]]

\* apr_pool_destroy takes the pools inside p along.
Without(p) == {q \in pools : p \notin Enclosing[q]}

\* hsh_get_hash, as what it can return: in a table that is gone whatever has
\* become of that memory.
Lookup(hash) ==
  IF table \in pools THEN {hash \in KnownHashes} ELSE BOOLEAN

BuiltinIsOpen == definition # ""

\* builtin_init, which closes again at once if there is no such hash.
BuiltinInit(hash) ==
  /\ "builtin" \notin pools
  /\ table' = "builtin"
  /\ IF hash \in KnownHashes
       THEN pools' = pools \cup {"builtin"} /\ definition' = hash
       ELSE UNCHANGED <<pools, definition>>

BuiltinClose ==
  /\ BuiltinIsOpen
  /\ pools' = Without("builtin")
  /\ definition' = ""
  /\ UNCHANGED table
=============================================================================
