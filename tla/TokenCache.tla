----------------------------- MODULE TokenCache -----------------------------
(***************************************************************************)
(* The access-token cache of src/auth/cache.rs, one for each process, and  *)
(* the calls that use it or write behind it: automatic and explicit        *)
(* requests for a token, cache-only requests, the explicit refresh of the  *)
(* account list, a sign-in that completes and a disconnection.  Several    *)
(* processes share one CredentialVault.                                    *)
(*                                                                         *)
(* Credentials are versions, numbered in the order the service issues      *)
(* them; 0 stands for an account without credentials.  A version expires   *)
(* at any time (the 90 seconds of FRESHNESS_MARGIN are part of that), and  *)
(* Elapse ends the back-off of five seconds.                               *)
(***************************************************************************)
EXTENDS CredentialVault, FiniteSets

CONSTANTS Accounts, Processes,
          Workloads,    \* which call does what: functions on Calls
          MaxFaults,    \* bound on failures, crashes and lost index files
          MaxExpiries   \* bound on the versions that expire

Jobs == [kind: {"auto", "explicit", "cached", "status", "signIn",
                "disconnect"}, account: Accounts, process: Processes]

ASSUME AccountsAssumption == IsFiniteSet(Accounts)
ASSUME WorkloadsAssumption == Workloads \subseteq [Calls -> Jobs]

NoVersion == [a \in Accounts |-> 0]
NoCopy == [vault |-> NoVersion, gen |-> 0]

VARIABLES work,       \* work[c] = [kind, account, process]
          pc,         \* where call c is
          read,       \* the generation that c read last
          token,      \* the version that c obtained from the service
          cache,      \* cache[p], the CacheState of process p
          mutex,      \* mutex[p], the call that holds the state of p
          issued,     \* the number of versions issued
          renewable,  \* the versions whose refresh token the service takes
          expired,
          lost,       \* accounts whose renewed version a fault threw away
          seen,       \* seen[c]: what the vault held for c's account so far
          served,     \* served[c]: the version c returned, 0 for none
          tries,      \* tries[p]: openings of the store that failed under
                      \* one back-off
          faults

cacheVars == <<work, pc, read, token, cache, mutex, issued, renewable,
               expired, lost, seen, served, tries, faults>>
vars == <<storeVars, cacheVars>>

Kind(c) == work[c].kind
Account(c) == work[c].account
Process(c) == work[c].process
Mine(c) == cache[Process(c)]

EmptyCache == [gen |-> 0, seeded |-> FALSE, tokens |-> NoVersion,
               failed |-> FALSE]

TypeOK ==
  /\ lock \in Calls \cup {NoCall}
  /\ index \in [state: {"missing", "ready", "updating"}, gen: Nat]
  /\ vault \in [Accounts -> Nat] /\ gens \in Nat
  /\ copy \in [Calls -> [vault: [Accounts -> Nat], gen: Nat]]
  /\ work \in [Calls -> Jobs]
  /\ pc \in [Calls -> {"start", "waiting", "reading", "deciding", "loading",
                       "renewing", "saving", "storing", "publishing",
                       "adopting", "seeding", "done"}]
  /\ read \in [Calls -> [state: {"missing", "ready", "updating", "error"},
                         gen: Nat]]
  /\ token \in [Calls -> Nat]
  /\ cache \in [Processes -> [gen: Nat, seeded: BOOLEAN,
                              tokens: [Accounts -> Nat], failed: BOOLEAN]]
  /\ mutex \in [Processes -> Calls \cup {NoCall}]
  /\ issued \in Nat

Init ==
  /\ vault = CHOOSE v \in [Accounts -> 1..Cardinality(Accounts)] :
               \A a, b \in Accounts : a # b => v[a] # v[b]
  /\ index = Missing
  /\ lock = NoCall /\ gens = 0
  /\ copy = [c \in Calls |-> NoCopy]
  /\ work \in Workloads
  /\ pc = [c \in Calls |-> "start"]
  /\ read = [c \in Calls |-> Missing]
  /\ token = [c \in Calls |-> 0]
  /\ cache = [p \in Processes |-> EmptyCache]
  /\ mutex = [p \in Processes |-> NoCall]
  /\ issued = Cardinality(Accounts)
  /\ renewable = 1..issued /\ expired = {} /\ lost = {}
  /\ seen = [c \in Calls |-> {}] /\ served = [c \in Calls |-> 0]
  /\ tries = [p \in Processes |-> 0] /\ faults = 0
-----------------------------------------------------------------------------
To(c, s) == pc' = [pc EXCEPT ![c] = s]
At(c, s) == pc[c] = s

Fresh(v) == v # 0 /\ v \notin expired

(* retain: what has expired is no longer served.                           *)
Retained(tokens) == [a \in Accounts |-> IF Fresh(tokens[a]) THEN tokens[a]
                                                            ELSE 0]

SetCache(c, s) == cache' = [cache EXCEPT ![Process(c)] = s]

Unheld(c) == [mutex EXCEPT ![Process(c)] = IF @ = c THEN NoCall ELSE @]

(* c returns, and its guard of the cache is dropped.                       *)
Return(c, v) ==
  /\ To(c, "done")
  /\ mutex' = Unheld(c)
  /\ served' = [served EXCEPT ![c] = v]

(* The calls under way see what the vault holds from now on.               *)
Witness == seen' = [c \in Calls |->
                      IF pc'[c] \in {"start", "done"} THEN seen[c]
                      ELSE seen[c] \cup {vault'[Account(c)]}]

Requests == {"auto", "explicit"}

(* A request that fails starts a back-off unless one is under way.         *)
Failed(c) ==
  IF Kind(c) \in Requests
    THEN /\ SetCache(c, [Mine(c) EXCEPT !.failed = TRUE])
         /\ tries' = IF Kind(c) = "auto"
                       THEN [tries EXCEPT ![Process(c)] = @ + 1] ELSE tries
    ELSE UNCHANGED <<cache, tries>>

Rest == UNCHANGED <<work, faults>>
Service == UNCHANGED <<issued, renewable, expired, lost>>
-----------------------------------------------------------------------------
(* A call begins.  A sign-in has received its callback and exchanges the   *)
(* code, which issues a version; a cache-only request gives up at once if  *)
(* the cache is busy.                                                      *)
Begin(c) ==
  /\ At(c, "start")
  /\ IF Kind(c) = "signIn"
       THEN /\ issued' = issued + 1 /\ renewable' = renewable \cup {issued + 1}
            /\ token' = [token EXCEPT ![c] = issued + 1]
       ELSE UNCHANGED <<issued, renewable, token>>
  /\ CASE Kind(c) \in {"signIn", "disconnect"} ->
            To(c, "loading") /\ UNCHANGED mutex
       [] Kind(c) = "cached" ->
            IF mutex[Process(c)] = NoCall
              THEN /\ To(c, "reading")
                   /\ mutex' = [mutex EXCEPT ![Process(c)] = c]
              ELSE To(c, "done") /\ UNCHANGED mutex
       [] OTHER -> To(c, "waiting") /\ UNCHANGED mutex
  /\ UNCHANGED <<storeVars, read, cache, expired, lost, served, tries>>
  /\ Rest

(* A variant without the exemption of deliberate retries from the          *)
(* back-off.                                                               *)
EnterPaced(c) ==
  /\ pc[c] \in {"waiting", "seeding"} /\ mutex[Process(c)] = NoCall
  /\ mutex' = [mutex EXCEPT ![Process(c)] = c]
  /\ To(c, IF Kind(c) = "status" THEN "loading" ELSE "reading")
  /\ UNCHANGED <<storeVars, cache, tries, read, token, served>>
  /\ Rest /\ Service

(* The call obtains the mutex of its process.  An explicit request forgets *)
(* the back-off.                                                           *)
Enter(c) ==
  /\ pc[c] \in {"waiting", "seeding"} /\ mutex[Process(c)] = NoCall
  /\ mutex' = [mutex EXCEPT ![Process(c)] = c]
  /\ To(c, IF Kind(c) = "status" THEN "loading" ELSE "reading")
  /\ IF Kind(c) = "explicit"
       THEN /\ SetCache(c, [Mine(c) EXCEPT !.failed = FALSE])
            /\ tries' = [tries EXCEPT ![Process(c)] = 0]
       ELSE UNCHANGED <<cache, tries>>
  /\ UNCHANGED <<storeVars, read, token, served>> /\ Rest /\ Service

Read(c) ==
  /\ At(c, "reading") /\ To(c, "deciding")
  /\ read' = [read EXCEPT ![c] = Generation]
  /\ UNCHANGED <<storeVars, token, cache, mutex, served, tries>>
  /\ Rest /\ Service

Usable(v) == [a \in Accounts |-> IF Fresh(v[a]) THEN v[a] ELSE 0]

(* The cache takes over the usable tokens of a LockedVault; what expires   *)
(* before they are used is dropped then.                                   *)
Seed(c, l) == /\ SetCache(c, [gen |-> l.gen, seeded |-> TRUE,
                              tokens |-> Usable(l.vault), failed |-> FALSE])
              /\ tries' = [tries EXCEPT ![Process(c)] = 0]

(* A variant of the next one that seeds whatever the index says now.       *)
SeedSavedUnchecked(c) ==
  /\ At(c, "deciding") /\ Kind(c) = "signIn" /\ Seed(c, copy[c])
  /\ Return(c, 0)
  /\ UNCHANGED <<storeVars, read, token>> /\ Rest /\ Service

(* The end of save_and_seed: a newer snapshot is not replaced.             *)
SeedSaved(c) ==
  /\ At(c, "deciding") /\ Kind(c) = "signIn"
  /\ IF read[c] = Ready(copy[c].gen) THEN Seed(c, copy[c])
     ELSE UNCHANGED <<cache, tries>>
  /\ Return(c, 0)
  /\ UNCHANGED <<storeVars, read, token>> /\ Rest /\ Service

(* cached_access: an entry of the current generation, or none.             *)
ServeCached(c) ==
  LET kept == Retained(Mine(c).tokens)
      current == read[c] = Ready(Mine(c).gen) IN
  /\ At(c, "deciding") /\ Kind(c) = "cached"
  /\ SetCache(c, [Mine(c) EXCEPT !.tokens = IF current THEN kept
                                            ELSE NoVersion])
  /\ Return(c, IF current THEN kept[Account(c)] ELSE 0)
  /\ UNCHANGED <<storeVars, read, token, tries>> /\ Rest /\ Service

(* A variant that keeps the entries across a change of the generation.     *)
SyncedKeeping(c) ==
  [Mine(c) EXCEPT !.gen = read[c].gen, !.tokens = Retained(@),
                  !.failed = @ /\ read[c].gen = Mine(c).gen]

(* What access_locked makes of the cache once it knows the generation.     *)
Synced(c) ==
  IF read[c].gen = Mine(c).gen
    THEN [Mine(c) EXCEPT !.tokens = Retained(@)]
    ELSE [Mine(c) EXCEPT !.gen = read[c].gen, !.tokens = NoVersion,
                         !.failed = FALSE]

(* access_locked, up to the opening of the store: an unreadable generation *)
(* and a lost index of a seeded cache are errors, a cached token is        *)
(* served, and a recent failure is not repeated.                           *)
Decide(c) ==
  /\ At(c, "deciding") /\ Kind(c) \in Requests
  /\ IF \/ read[c].state = "error"
        \/ read[c].state = "missing" /\ Mine(c).seeded
       THEN /\ Return(c, 0)
            /\ SetCache(c, [Mine(c) EXCEPT !.failed = TRUE,
                 !.tokens = IF read[c].state = "error" THEN @ ELSE NoVersion])
            /\ UNCHANGED tries
       ELSE /\ SetCache(c, Synced(c))
            /\ tries' = IF read[c].gen # Mine(c).gen
                          THEN [tries EXCEPT ![Process(c)] = 0] ELSE tries
            /\ \/ /\ Synced(c).tokens[Account(c)] # 0
                  /\ Return(c, Synced(c).tokens[Account(c)])
               \/ /\ Synced(c).tokens[Account(c)] = 0 /\ Synced(c).failed
                  /\ Return(c, 0)
               \/ /\ Synced(c).tokens[Account(c)] = 0 /\ ~Synced(c).failed
                  /\ To(c, "loading") /\ UNCHANGED <<mutex, served>>
  /\ UNCHANGED <<storeVars, read, token>> /\ Rest /\ Service
-----------------------------------------------------------------------------
(* The cache once a version was read or renewed under generation g.        *)
Adopted(s, a, v, g) ==
  [gen |-> g, seeded |-> TRUE, failed |-> FALSE,
   tokens |-> [(IF s.gen = g THEN s.tokens ELSE NoVersion) EXCEPT ![a] = v]]

Adopt(c, v, g) == /\ SetCache(c, Adopted(Mine(c), Account(c), v, g))
                  /\ tries' = [tries EXCEPT ![Process(c)] = 0]
                  /\ Return(c, v)

(* A request opens the store: it serves a fresh version, renews an expired *)
(* one with the lock in its hand, and fails for an account that has none.  *)
LoadRequest(c) ==
  LET v == vault[Account(c)] IN
  /\ At(c, "loading") /\ Kind(c) \in Requests
  /\ LoadLocked(c, v # 0 /\ ~Fresh(v)) /\ Hold(c, vault)
  /\ \/ v = 0 /\ Failed(c) /\ Return(c, 0)
     \/ Fresh(v) /\ Adopt(c, v, index'.gen)
     \/ /\ v # 0 /\ ~Fresh(v) /\ To(c, "renewing")
        /\ UNCHANGED <<cache, tries, mutex, served>>
  /\ UNCHANGED <<read, token>> /\ Rest /\ Service

(* refresh_metadata of the cache: publication and seeding keep together.   *)
LoadStatus(c) ==
  /\ At(c, "loading") /\ Kind(c) = "status"
  /\ RefreshLocked(c) /\ Seed(c, copy'[c]) /\ Return(c, 0)
  /\ UNCHANGED <<read, token>> /\ Rest /\ Service

(* PendingSignIn::complete opens the vault with its validated credentials. *)
LoadSignIn(c) ==
  /\ At(c, "loading") /\ Kind(c) = "signIn"
  /\ LoadLocked(c, TRUE)
  /\ Hold(c, [vault EXCEPT ![Account(c)] = token[c]])
  /\ To(c, "saving")
  /\ UNCHANGED <<read, token, cache, tries, mutex, served>>
  /\ Rest /\ Service

(* disconnect_chatgpt takes the credentials out of its copy, and tries to  *)
(* revoke them before it saves.                                            *)
LoadDisconnect(c) ==
  /\ At(c, "loading") /\ Kind(c) = "disconnect"
  /\ LoadLocked(c, TRUE) /\ Hold(c, [vault EXCEPT ![Account(c)] = 0])
  /\ renewable' \in {renewable, renewable \ {vault[Account(c)]}}
  /\ To(c, "saving")
  /\ UNCHANGED <<read, token, cache, tries, mutex, served>>
  /\ UNCHANGED <<issued, expired, lost>> /\ Rest

(* The service rotates the refresh token, or does not know it any more.    *)
Renew(c) ==
  LET v == vault[Account(c)] IN
  /\ At(c, "renewing") /\ v \in renewable
  /\ issued' = issued + 1
  /\ renewable' = (renewable \ {v}) \cup {issued + 1}
  /\ token' = [token EXCEPT ![c] = issued + 1]
  /\ copy' = [copy EXCEPT ![c].vault[Account(c)] = issued + 1]
  /\ To(c, "saving")
  /\ UNCHANGED <<lock, index, vault, gens, read, cache, tries, mutex, served,
                 expired, lost>> /\ Rest

Rejected(c) ==
  /\ At(c, "renewing") /\ vault[Account(c)] \notin renewable
  /\ Failed(c) /\ Return(c, 0) /\ lock' = Unlocked(c)
  /\ UNCHANGED <<index, vault, gens, copy, read, token>> /\ Rest /\ Service

Save(c) ==
  /\ \/ At(c, "saving") /\ Invalidate(c) /\ To(c, "storing")
     \/ At(c, "storing") /\ Keep(c) /\ To(c, "publishing")
     \/ /\ At(c, "publishing") /\ Publish(c) /\ Kind(c) # "disconnect"
        /\ To(c, IF Kind(c) = "signIn" THEN "seeding" ELSE "adopting")
  /\ UNCHANGED <<read, token, cache, tries, mutex, served>>
  /\ Rest /\ Service

EndDisconnect(c) ==
  /\ At(c, "publishing") /\ Kind(c) = "disconnect"
  /\ Publish(c) /\ Return(c, 0)
  /\ UNCHANGED <<read, token, cache, tries>> /\ Rest /\ Service

AdoptRenewed(c) ==
  /\ At(c, "adopting") /\ Adopt(c, token[c], copy[c].gen)
  /\ UNCHANGED <<storeVars, read, token>> /\ Rest /\ Service
-----------------------------------------------------------------------------
(* The accounts whose version in the vault cannot be renewed.              *)
Stranded == {a \in Accounts : vault[a] # 0 /\ vault[a] \notin renewable}

Fault == faults < MaxFaults /\ faults' = faults + 1

(* An opening of the store that finds the lock taken fails.                *)
Busy(c) ==
  /\ At(c, "loading") /\ lock # NoCall
  /\ Failed(c) /\ Return(c, 0)
  /\ UNCHANGED <<storeVars, read, token>> /\ Rest /\ Service

(* The OS store, the index file, the network or the validation of what the *)
(* service answered fails, and the call gives up.                          *)
Fail(c) ==
  /\ pc[c] \in {"loading", "renewing", "saving", "storing", "publishing"}
  /\ Fault /\ Failed(c) /\ Return(c, 0) /\ lock' = Unlocked(c)
  /\ lost' = lost \cup Stranded
  /\ UNCHANGED <<index, vault, gens, copy, work, read, token, issued,
                 renewable, expired>>

(* A process dies, and its cache with it.                                  *)
Crash(p) ==
  /\ Fault
  /\ pc' = [c \in Calls |-> IF Process(c) = p /\ pc[c] # "start"
                              THEN "done" ELSE pc[c]]
  /\ lock' = IF lock # NoCall /\ Process(lock) = p THEN NoCall ELSE lock
  /\ mutex' = [mutex EXCEPT ![p] = NoCall]
  /\ cache' = [cache EXCEPT ![p] = EmptyCache]
  /\ tries' = [tries EXCEPT ![p] = 0]
  /\ lost' = lost \cup Stranded
  /\ UNCHANGED <<index, vault, gens, copy, work, read, token, served, issued,
                 renewable, expired>>

(* Somebody removes the index file.                                        *)
LoseIndex ==
  /\ Fault /\ index # Missing /\ index' = Missing
  /\ UNCHANGED <<lock, vault, gens, copy, work, pc, read, token, cache,
                 mutex, served, tries>> /\ Service

(* The back-off of a process ends.                                         *)
Elapse(p) ==
  /\ cache[p].failed
  /\ cache' = [cache EXCEPT ![p].failed = FALSE]
  /\ tries' = [tries EXCEPT ![p] = 0]
  /\ UNCHANGED <<storeVars, pc, read, token, mutex, served>>
  /\ Rest /\ Service

Expire(v) ==
  /\ v \notin expired /\ Cardinality(expired) < MaxExpiries
  /\ expired' = expired \cup {v}
  /\ UNCHANGED <<storeVars, pc, read, token, cache, mutex, served, tries,
                 issued, renewable, lost>> /\ Rest

(* A variant in which the work of a request ends with its caller.          *)
DetachedWriters(c) == Kind(c) = "disconnect"

(* What goes on in a task of its own, whoever waits for it: requests, the  *)
(* refresh of the account list, disconnections, and a sign-in from its     *)
(* saving on.                                                              *)
Detached(c) == \/ Kind(c) \in Requests \cup {"status", "disconnect"}
               \/ Kind(c) = "signIn" /\ pc[c] # "loading"

(* The caller goes away.                                                   *)
Abandon(c) ==
  /\ pc[c] \notin {"start", "done"} /\ ~Detached(c)
  /\ Return(c, 0) /\ lock' = Unlocked(c)
  /\ UNCHANGED <<index, vault, gens, copy, read, token, cache, tries>>
  /\ Rest /\ Service

Step(c) ==
  \/ Begin(c) \/ Enter(c) \/ Read(c) \/ SeedSaved(c) \/ ServeCached(c)
  \/ Decide(c) \/ LoadRequest(c) \/ LoadStatus(c) \/ LoadSignIn(c)
  \/ LoadDisconnect(c) \/ Renew(c) \/ Rejected(c) \/ Save(c)
  \/ EndDisconnect(c) \/ AdoptRenewed(c) \/ Busy(c)

Disturb ==
  \/ \E c \in Calls : Fail(c) \/ Abandon(c)
  \/ \E p \in Processes : Crash(p) \/ Elapse(p)
  \/ LoseIndex
  \/ \E v \in 1..issued : Expire(v)

Next == ((\E c \in Calls : Step(c)) \/ Disturb) /\ Witness

Spec == Init /\ [][Next]_vars
-----------------------------------------------------------------------------
(* What is cached under the generation of a readable index is what the     *)
(* vault holds, in every process: a disconnection, a sign-in or a renewal  *)
(* anywhere leaves no stale token behind.                                  *)
CacheMatchesVault ==
  \A p \in Processes, a \in Accounts :
    index = Ready(cache[p].gen) /\ cache[p].tokens[a] # 0
      => cache[p].tokens[a] = vault[a]

(* A token that a call returns was in the vault at some moment of that     *)
(* call, however the reading of the generation, the use of the cache and   *)
(* the writes of other processes fall: after a disconnection returned, no  *)
(* later call is given its token.                                          *)
ServedWasCurrent == \A c \in Calls : served[c] # 0 => served[c] \in seen[c]

(* Unless a fault threw a renewed version away, what the vault holds when  *)
(* nobody writes it can be renewed, although callers give up in the middle *)
(* of a renewal and several processes renew ("Dropping the caller cannot   *)
(* discard an already-rotated refresh token", cache.rs).                   *)
VaultStaysRenewable == lock = NoCall => Stranded \subseteq lost

(* Under one back-off of a process the automatic requests open a failing   *)
(* store once, however many of them there are; and a deliberate retry does *)
(* not inherit their back-off, whatever failed before it got the cache.    *)
BackoffPaces ==
  /\ \A p \in Processes : tries[p] <= 1
  /\ \A c \in Calls : Kind(c) = "explicit" /\ pc[c] \in {"reading", "deciding"}
                       => ~Mine(c).failed

(* A seeded cache never goes back to an older generation: a sign-in that   *)
(* waited for the cache does not replace a newer snapshot.                 *)
CacheMovesForward ==
  [][\A p \in Processes : cache[p].seeded /\ cache'[p].seeded
                            => cache'[p].gen >= cache[p].gen]_vars
=============================================================================
