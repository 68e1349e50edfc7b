-------------------------- MODULE CredentialVault --------------------------
(***************************************************************************)
(* The credential store of src/auth/store.rs: the vault that the operating *)
(* system protects, the index file beside it, and the file lock that       *)
(* orders the processes of a host.  The index carries a generation, which  *)
(* every write changes, and a mark that says whether it may be relied on.  *)
(*                                                                         *)
(* A generation is 32 random bytes in the code and the next number here;   *)
(* what a registration holds is left to the modules that use this one.     *)
(***************************************************************************)
EXTENDS Naturals

CONSTANTS Calls,    \* the transactions and readers of all processes
          NoCall

ASSUME NoCallAssumption == NoCall \notin Calls

VARIABLES lock,     \* the owner of accounts.lock, or NoCall
          index,    \* accounts-index.json: [state, gen]
          vault,    \* the vault of the OS store
          gens,     \* the generations drawn so far
          copy      \* the LockedVault of a call: [vault, gen]

storeVars == <<lock, index, vault, gens, copy>>

Missing == [state |-> "missing", gen |-> 0]
Ready(g) == [state |-> "ready", gen |-> g]
Updating(g) == [state |-> "updating", gen |-> g]

(* What generation() tells a reader: the index if it may be relied on,     *)
(* and an error while another process has the lock or a write is under     *)
(* way or was given up half way.                                           *)
Generation ==
  IF lock # NoCall \/ index.state = "updating"
    THEN [state |-> "error", gen |-> 0]
    ELSE index

(* load_locked: fails fast on the lock, reads the vault and repairs an     *)
(* index that is missing or not ready under a new generation.  The caller  *)
(* goes on with the lock held, or drops it.                                *)
LoadLocked(c, held) ==
  /\ lock = NoCall
  /\ lock' = IF held THEN c ELSE NoCall
  /\ IF index.state = "ready"
       THEN UNCHANGED <<index, gens>>
       ELSE /\ gens' = gens + 1
            /\ index' = Ready(gens + 1)
  /\ UNCHANGED vault

(* The vault as the transaction of c read it, or has changed it.           *)
Hold(c, v) == copy' = [copy EXCEPT ![c] = [vault |-> v, gen |-> index'.gen]]

(* refresh_metadata: publishes the vault again under a new generation, so  *)
(* that every cache of an earlier generation is given up.                  *)
RefreshLocked(c) ==
  /\ lock = NoCall
  /\ gens' = gens + 1
  /\ index' = Ready(gens + 1)
  /\ Hold(c, vault)
  /\ UNCHANGED <<lock, vault>>

(* A variant that leaves the index ready, under the old generation, while  *)
(* the OS store is written.                                                *)
InvalidateNothing(c) ==
  /\ gens' = gens + 1
  /\ copy' = [copy EXCEPT ![c].gen = gens + 1]
  /\ UNCHANGED <<lock, index, vault>>

(* save_with_generation, in its three writes: the index is invalidated     *)
(* before the OS store is touched, and published after it.                 *)
Invalidate(c) ==
  /\ gens' = gens + 1
  /\ index' = Updating(gens + 1)
  /\ copy' = [copy EXCEPT ![c].gen = gens + 1]
  /\ UNCHANGED <<lock, vault>>

Keep(c) ==
  /\ vault' = copy[c].vault
  /\ UNCHANGED <<lock, index, gens, copy>>

Publish(c) ==
  /\ index' = Ready(copy[c].gen)
  /\ lock' = NoCall
  /\ UNCHANGED <<vault, gens, copy>>

(* The owner's LockedVault is dropped, by an early return, by the end of   *)
(* its scope or with its process.                                          *)
Unlocked(c) == IF lock = c THEN NoCall ELSE lock
=============================================================================
