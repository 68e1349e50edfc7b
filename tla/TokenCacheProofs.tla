-------------------------- MODULE TokenCacheProofs --------------------------
(***************************************************************************)
(* Theorems about TokenCache for any accounts, processes, calls, failures  *)
(* and expiries: its types; that no token cached under the generation of a *)
(* readable index is stale; that what a call returns was in the vault       *)
(* during the call; that a cache never goes back; that a back-off paces;    *)
(* and that what the vault holds can be renewed.  The argument is about     *)
(* generations: while the vault is written the index is not ready, and the  *)
(* generation under which it will be published is one that nobody has read  *)
(* or cached.                                                               *)
(***************************************************************************)
EXTENDS TokenCache, FiniteSetTheorems, TLAPS

LEMMA WorkTypes ==
  ASSUME TypeOK, NEW c \in Calls
  PROVE  /\ work[c] \in Jobs /\ Kind(c) = work[c].kind
         /\ Account(c) \in Accounts /\ Process(c) \in Processes
  BY DEF TypeOK, Jobs, Kind, Account, Process

\* The vault can be filled with distinct versions.
LEMMA VaultExists ==
  \E v \in [Accounts -> 1..Cardinality(Accounts)] :
    \A a, b \in Accounts : a # b => v[a] # v[b]
<1>. DEFINE n == Cardinality(Accounts)
<1>1. PICK f : f \in Bijection(1..n, Accounts)
  BY AccountsAssumption, FS_CardinalityType DEF ExistsBijection
<1>2. \A a \in Accounts : \E i \in 1..n : f[i] = a
  BY <1>1 DEF Bijection, Surjection
<1>. DEFINE v == [a \in Accounts |-> CHOOSE i \in 1..n : f[i] = a]
<1>3. \A a \in Accounts : v[a] \in 1..n /\ f[v[a]] = a
  BY <1>2
<1>4. v \in [Accounts -> 1..n]
  BY <1>3
<1>5. \A a, b \in Accounts : a # b => v[a] # v[b]
  BY <1>3
<1>. HIDE DEF v, n
<1>. QED  BY <1>4, <1>5 DEF n

LEMMA TypesStart == Init => TypeOK
<1>. SUFFICES ASSUME Init PROVE TypeOK
  OBVIOUS
<1>1. vault \in [Accounts -> 1..Cardinality(Accounts)]
  BY VaultExists DEF Init
<1>2. Cardinality(Accounts) \in Nat
  BY AccountsAssumption, FS_CardinalityType
<1>3. vault \in [Accounts -> Nat] /\ issued \in Nat
  BY <1>1, <1>2 DEF Init
<1>4. NoCopy \in [vault: [Accounts -> Nat], gen: Nat]
  BY DEF NoCopy, NoVersion
<1>5. EmptyCache \in [gen: Nat, seeded: BOOLEAN, tokens: [Accounts -> Nat],
                      failed: BOOLEAN]
  BY DEF EmptyCache, NoVersion
<1>6. work \in [Calls -> Jobs]
  BY WorkloadsAssumption DEF Init
<1>. QED  BY <1>3, <1>4, <1>5, <1>6 DEF Init, TypeOK, Missing

CacheType == [gen: Nat, seeded: BOOLEAN, tokens: [Accounts -> Nat],
              failed: BOOLEAN]
CopyType == [vault: [Accounts -> Nat], gen: Nat]
IndexType == [state: {"missing", "ready", "updating"}, gen: Nat]
ReadType == [state: {"missing", "ready", "updating", "error"}, gen: Nat]
Places == {"start", "waiting", "reading", "deciding", "loading", "renewing",
           "saving", "storing", "publishing", "adopting", "seeding", "done"}

LEMMA PartTypes ==
  ASSUME TypeOK, NEW c \in Calls
  PROVE  /\ Mine(c) \in CacheType /\ copy[c] \in CopyType
         /\ index \in IndexType /\ read[c] \in ReadType
         /\ Retained(Mine(c).tokens) \in [Accounts -> Nat]
         /\ Usable(copy[c].vault) \in [Accounts -> Nat]
         /\ Retained(Mine(c).tokens) = [a \in Accounts |->
               IF Fresh(Mine(c).tokens[a]) THEN Mine(c).tokens[a] ELSE 0]
  BY WorkTypes DEF TypeOK, CacheType, CopyType, IndexType, ReadType, Mine,
                   Retained, Usable

\* The part of the types that a call moves without touching the store.
CallTypes ==
  /\ pc \in [Calls -> Places] /\ mutex \in [Processes -> Calls \cup {NoCall}]
  /\ cache \in [Processes -> CacheType] /\ read \in [Calls -> ReadType]
  /\ token \in [Calls -> Nat] /\ work \in [Calls -> Jobs] /\ issued \in Nat

StoreTypes ==
  /\ lock \in Calls \cup {NoCall} /\ index \in IndexType
  /\ vault \in [Accounts -> Nat] /\ gens \in Nat
  /\ copy \in [Calls -> CopyType]

LEMMA TypeParts == TypeOK <=> CallTypes /\ StoreTypes
  BY DEF TypeOK, CallTypes, StoreTypes, CacheType, CopyType, IndexType,
         ReadType, Places

LEMMA TypePartsNext == TypeOK' <=> CallTypes' /\ StoreTypes'
  BY DEF TypeOK, CallTypes, StoreTypes, CacheType, CopyType, IndexType,
         ReadType, Places

\* Where a call goes, and what it may do to the mutex and the cache.
LEMMA GoTypes ==
  ASSUME TypeOK, NEW c \in Calls, NEW s \in Places, To(c, s),
         mutex' \in [Processes -> Calls \cup {NoCall}],
         cache' \in [Processes -> CacheType],
         UNCHANGED <<read, token, work, issued>>
  PROVE  CallTypes'
  BY TypeParts DEF CallTypes, To

LEMMA UnheldTypes ==
  ASSUME TypeOK, NEW c \in Calls
  PROVE  Unheld(c) \in [Processes -> Calls \cup {NoCall}]
  BY WorkTypes DEF TypeOK, Unheld

LEMMA SetTypes ==
  ASSUME TypeOK, NEW c \in Calls, NEW s \in CacheType, SetCache(c, s)
  PROVE  cache' \in [Processes -> CacheType]
  BY WorkTypes, TypeParts DEF SetCache, CallTypes

LEMMA FailedTypes ==
  ASSUME TypeOK, NEW c \in Calls, Failed(c)
  PROVE  cache' \in [Processes -> CacheType]
<1>1. [Mine(c) EXCEPT !.failed = TRUE] \in CacheType
  BY PartTypes DEF CacheType
<1>. QED  BY <1>1, SetTypes, TypeParts DEF Failed, CallTypes

LEMMA SeedTypes ==
  ASSUME TypeOK, NEW c \in Calls, NEW l \in CopyType, Seed(c, l)
  PROVE  cache' \in [Processes -> CacheType]
<1>1. Usable(l.vault) \in [Accounts -> Nat]
  BY DEF Usable, CopyType
<1>2. [gen |-> l.gen, seeded |-> TRUE, tokens |-> Usable(l.vault),
       failed |-> FALSE] \in CacheType
  BY <1>1 DEF CacheType, CopyType
<1>. QED  BY <1>2, SetTypes DEF Seed

LEMMA AdoptTypes ==
  ASSUME TypeOK, NEW c \in Calls, NEW v \in Nat, NEW g \in Nat, Adopt(c, v, g)
  PROVE  cache' \in [Processes -> CacheType]
<1>1. Adopted(Mine(c), Account(c), v, g) \in CacheType
  BY PartTypes DEF Adopted, CacheType, NoVersion
<1>. QED  BY <1>1, SetTypes DEF Adopt

LEMMA SyncedTypes ==
  ASSUME TypeOK, NEW c \in Calls
  PROVE  Synced(c) \in CacheType
<1>1. /\ Mine(c) \in CacheType /\ read[c].gen \in Nat
      /\ Retained(Mine(c).tokens) \in [Accounts -> Nat]
  BY PartTypes DEF ReadType
<1>. QED  BY <1>1 DEF Synced, CacheType, NoVersion

LEMMA StoreStaysTyped ==
  ASSUME TypeOK, UNCHANGED <<index, vault, gens, copy>>,
         lock' \in Calls \cup {NoCall}
  PROVE  StoreTypes'
  BY TypeParts DEF StoreTypes

LEMMA UnlockedTyped ==
  ASSUME TypeOK, NEW c \in Calls
  PROVE  Unlocked(c) \in Calls \cup {NoCall}
  BY DEF TypeOK, Unlocked

LEMMA HoldTypes ==
  ASSUME TypeOK, NEW c \in Calls, NEW v \in [Accounts -> Nat], Hold(c, v),
         index' \in IndexType
  PROVE  copy' \in [Calls -> CopyType] /\ copy'[c] \in CopyType
<1>1. [vault |-> v, gen |-> index'.gen] \in CopyType
  BY DEF CopyType, IndexType
<1>2. copy \in [Calls -> CopyType]
  BY TypeParts DEF StoreTypes
<1>. QED  BY <1>1, <1>2 DEF Hold

LEMMA LoadTypes ==
  ASSUME TypeOK, NEW c \in Calls, NEW h \in BOOLEAN, LoadLocked(c, h)
  PROVE  /\ lock' \in Calls \cup {NoCall} /\ index' \in IndexType
         /\ vault' \in [Accounts -> Nat] /\ gens' \in Nat
  BY TypeParts DEF StoreTypes, LoadLocked, Ready, IndexType

LEMMA ReadTypes ==
  ASSUME TypeOK
  PROVE  Generation \in ReadType
  BY DEF TypeOK, Generation, ReadType

\* A step of a call keeps the types of what it moves: first those that leave
\* the store alone, then those that open or write it.
LEMMA CallStepTypes ==
  ASSUME TypeOK, NEW c \in Calls,
         \/ Begin(c) \/ Enter(c) \/ Read(c) \/ SeedSaved(c) \/ ServeCached(c)
         \/ Decide(c) \/ AdoptRenewed(c) \/ Busy(c)
  PROVE  TypeOK'
<1>. USE DEF Rest, Service, storeVars, At, Return, Places
<1>0. UNCHANGED storeVars => StoreTypes'
  BY StoreStaysTyped, TypeParts DEF StoreTypes
<1>t. /\ mutex \in [Processes -> Calls \cup {NoCall}] /\ Process(c) \in Processes
      /\ cache \in [Processes -> CacheType] /\ issued \in Nat
      /\ Unheld(c) \in [Processes -> Calls \cup {NoCall}]
  BY TypeParts, WorkTypes, UnheldTypes DEF CallTypes
<1>1. CASE Begin(c)
  <2>1. /\ issued' \in Nat /\ token' \in [Calls -> Nat]
        /\ mutex' \in [Processes -> Calls \cup {NoCall}]
    BY <1>1, <1>t, TypeParts DEF Begin, CallTypes, To
  <2>2. pc' \in [Calls -> Places]
    BY <1>1, TypeParts DEF Begin, CallTypes, To
  <2>3. UNCHANGED <<cache, read, work>> /\ UNCHANGED storeVars
    BY <1>1 DEF Begin
  <2>. QED  BY <2>1, <2>2, <2>3, <1>0, TypeParts, TypePartsNext DEF CallTypes
<1>2. CASE Enter(c)
  <2>1. mutex' \in [Processes -> Calls \cup {NoCall}]
    BY <1>2, <1>t DEF Enter
  <2>2. [Mine(c) EXCEPT !.failed = FALSE] \in CacheType
    BY PartTypes DEF CacheType
  <2>3. cache' \in [Processes -> CacheType]
    BY <1>2, <1>t, <2>2, SetTypes DEF Enter
  <2>4. UNCHANGED <<read, token, work, issued>> /\ UNCHANGED storeVars
    BY <1>2 DEF Enter
  <2>5. To(c, "loading") \/ To(c, "reading")
    BY <1>2 DEF Enter
  <2>. QED  BY <2>1, <2>3, <2>4, <2>5, <1>0, GoTypes, TypePartsNext
<1>3. CASE Read(c)
  <2>1. read' \in [Calls -> ReadType]
    BY <1>3, ReadTypes, TypeParts DEF Read, CallTypes
  <2>2. pc' \in [Calls -> Places]
    BY <1>3, TypeParts DEF Read, CallTypes, To
  <2>3. UNCHANGED <<cache, mutex, token, work, issued>> /\ UNCHANGED storeVars
    BY <1>3 DEF Read
  <2>. QED  BY <2>1, <2>2, <2>3, <1>0, TypeParts, TypePartsNext DEF CallTypes
<1>4. CASE SeedSaved(c)
  <2>1. cache' \in [Processes -> CacheType]
    BY <1>4, <1>t, PartTypes, SeedTypes DEF SeedSaved
  <2>2. /\ To(c, "done") /\ mutex' = Unheld(c) /\ UNCHANGED storeVars
        /\ UNCHANGED <<read, token, work, issued>>
    BY <1>4 DEF SeedSaved
  <2>. QED  BY <2>1, <2>2, <1>0, <1>t, GoTypes, TypePartsNext
<1>5. CASE ServeCached(c)
  <2>1. ASSUME NEW k \in [Accounts -> Nat], NEW cond
        PROVE  [Mine(c) EXCEPT !.tokens = IF cond THEN k ELSE NoVersion]
                 \in CacheType
    BY PartTypes DEF CacheType, NoVersion
  <2>2. cache' \in [Processes -> CacheType]
    BY <1>5, <2>1, PartTypes, SetTypes DEF ServeCached
  <2>3. /\ To(c, "done") /\ mutex' = Unheld(c) /\ UNCHANGED storeVars
        /\ UNCHANGED <<read, token, work, issued>>
    BY <1>5 DEF ServeCached
  <2>. QED  BY <2>2, <2>3, <1>0, <1>t, GoTypes, TypePartsNext
<1>6. CASE Decide(c)
  <2>1. ASSUME NEW cond
        PROVE  [Mine(c) EXCEPT !.failed = TRUE,
                  !.tokens = IF cond THEN @ ELSE NoVersion] \in CacheType
    BY PartTypes DEF CacheType, NoVersion
  <2>2. cache' \in [Processes -> CacheType]
    BY <1>6, <2>1, SyncedTypes, SetTypes DEF Decide
  <2>3. /\ To(c, "done") \/ To(c, "loading")
        /\ mutex' = Unheld(c) \/ mutex' = mutex
        /\ UNCHANGED <<read, token, work, issued>> /\ UNCHANGED storeVars
    BY <1>6 DEF Decide
  <2>. QED  BY <2>2, <2>3, <1>0, <1>t, GoTypes, TypePartsNext
<1>7. CASE AdoptRenewed(c)
  <2>1. token[c] \in Nat /\ copy[c].gen \in Nat
    BY PartTypes, TypeParts DEF CallTypes, CopyType
  <2>2. cache' \in [Processes -> CacheType]
    BY <1>7, <2>1, AdoptTypes DEF AdoptRenewed
  <2>3. /\ To(c, "done") /\ mutex' = Unheld(c) /\ UNCHANGED storeVars
        /\ UNCHANGED <<read, token, work, issued>>
    BY <1>7 DEF AdoptRenewed, Adopt
  <2>. QED  BY <2>2, <2>3, <1>0, <1>t, GoTypes, TypePartsNext
<1>8. CASE Busy(c)
  <2>1. /\ To(c, "done") /\ mutex' = Unheld(c) /\ Failed(c)
        /\ UNCHANGED <<read, token, work, issued>> /\ UNCHANGED storeVars
    BY <1>8 DEF Busy
  <2>. QED  BY <2>1, <1>0, <1>t, FailedTypes, GoTypes, TypePartsNext
<1>. QED
  BY <1>1, <1>2, <1>3, <1>4, <1>5, <1>6, <1>7, <1>8

LEMMA LoadStepTypes ==
  ASSUME TypeOK, NEW c \in Calls,
         \/ LoadRequest(c) \/ LoadStatus(c) \/ LoadSignIn(c) \/ LoadDisconnect(c)
  PROVE  TypeOK'
<1>. USE DEF Rest, Service, At, Return, Places
<1>t. /\ vault \in [Accounts -> Nat] /\ token[c] \in Nat
      /\ Account(c) \in Accounts /\ vault[Account(c)] \in Nat
      /\ mutex \in [Processes -> Calls \cup {NoCall}]
      /\ cache \in [Processes -> CacheType]
      /\ Unheld(c) \in [Processes -> Calls \cup {NoCall}]
  BY TypeParts, WorkTypes, UnheldTypes DEF CallTypes, StoreTypes
<1>1. CASE LoadRequest(c)
  <2>. DEFINE v == vault[Account(c)]
  <2>1. LoadLocked(c, v # 0 /\ ~Fresh(v)) /\ Hold(c, vault)
    BY <1>1 DEF LoadRequest
  <2>2. /\ lock' \in Calls \cup {NoCall} /\ index' \in IndexType
        /\ vault' \in [Accounts -> Nat] /\ gens' \in Nat
    BY <2>1, LoadTypes
  <2>3. StoreTypes'
    BY <2>1, <2>2, <1>t, HoldTypes DEF StoreTypes
  <2>4. cache' \in [Processes -> CacheType]
    <3>1. index'.gen \in Nat
      BY <2>2 DEF IndexType
    <3>2. Failed(c) \/ Adopt(c, v, index'.gen) \/ UNCHANGED cache
      BY <1>1 DEF LoadRequest
    <3>. QED  BY <3>1, <3>2, <1>t, FailedTypes, AdoptTypes
  <2>5. /\ To(c, "done") \/ To(c, "renewing")
        /\ mutex' = Unheld(c) \/ mutex' = mutex
        /\ UNCHANGED <<read, token, work, issued>>
    <3>1. CASE Failed(c) /\ Return(c, 0)
      BY <1>1, <3>1 DEF LoadRequest
    <3>2. CASE Adopt(c, v, index'.gen)
      BY <1>1, <3>2 DEF LoadRequest, Adopt
    <3>3. CASE To(c, "renewing") /\ UNCHANGED <<cache, tries, mutex, served>>
      BY <1>1, <3>3 DEF LoadRequest
    <3>. HIDE DEF v
    <3>. QED  BY <1>1, <3>1, <3>2, <3>3 DEF LoadRequest, v
  <2>. QED  BY <2>3, <2>4, <2>5, <1>t, GoTypes, TypePartsNext
<1>2. CASE LoadStatus(c)
  <2>1. /\ index' = Ready(gens + 1) /\ gens' = gens + 1
        /\ Hold(c, vault) /\ UNCHANGED <<lock, vault>>
    BY <1>2 DEF LoadStatus, RefreshLocked
  <2>2. index' \in IndexType /\ gens' \in Nat
    BY <2>1, TypeParts DEF StoreTypes, Ready, IndexType
  <2>3. StoreTypes' /\ copy'[c] \in CopyType
    BY <2>1, <2>2, <1>t, HoldTypes, TypeParts DEF StoreTypes
  <2>4. cache' \in [Processes -> CacheType]
    BY <1>2, <2>3, SeedTypes DEF LoadStatus
  <2>5. /\ To(c, "done") /\ mutex' = Unheld(c)
        /\ UNCHANGED <<read, token, work, issued>>
    BY <1>2 DEF LoadStatus
  <2>. QED  BY <2>3, <2>4, <2>5, <1>t, GoTypes, TypePartsNext
<1>3. CASE LoadSignIn(c) \/ LoadDisconnect(c)
  <2>1. LoadLocked(c, TRUE)
    BY <1>3 DEF LoadSignIn, LoadDisconnect
  <2>2. /\ lock' \in Calls \cup {NoCall} /\ index' \in IndexType
        /\ vault' \in [Accounts -> Nat] /\ gens' \in Nat
    BY <2>1, LoadTypes
  <2>3. \/ Hold(c, [vault EXCEPT ![Account(c)] = token[c]])
        \/ Hold(c, [vault EXCEPT ![Account(c)] = 0])
    BY <1>3 DEF LoadSignIn, LoadDisconnect
  <2>4. /\ [vault EXCEPT ![Account(c)] = token[c]] \in [Accounts -> Nat]
        /\ [vault EXCEPT ![Account(c)] = 0] \in [Accounts -> Nat]
    BY <1>t
  <2>5. StoreTypes'
    BY <2>2, <2>3, <2>4, HoldTypes DEF StoreTypes
  <2>6. /\ To(c, "saving") /\ UNCHANGED <<mutex, cache>>
        /\ UNCHANGED <<read, token, work, issued>>
    BY <1>3 DEF LoadSignIn, LoadDisconnect
  <2>. QED  BY <2>5, <2>6, <1>t, GoTypes, TypePartsNext
<1>. QED  BY <1>1, <1>2, <1>3

LEMMA WriteStepTypes ==
  ASSUME TypeOK, NEW c \in Calls,
         Renew(c) \/ Rejected(c) \/ Save(c) \/ EndDisconnect(c)
  PROVE  TypeOK'
<1>. USE DEF Rest, Service, At, Return, Places
<1>t. /\ mutex \in [Processes -> Calls \cup {NoCall}]
      /\ cache \in [Processes -> CacheType]
      /\ Unheld(c) \in [Processes -> Calls \cup {NoCall}]
      /\ copy \in [Calls -> CopyType] /\ copy[c] \in CopyType
      /\ gens \in Nat /\ Account(c) \in Accounts
  BY TypeParts, WorkTypes, UnheldTypes DEF CallTypes, StoreTypes
<1>1. CASE Renew(c)
  <2>1. issued' \in Nat /\ token' \in [Calls -> Nat]
    BY <1>1, TypeParts DEF Renew, CallTypes
  <2>2. [copy[c] EXCEPT !.vault[Account(c)] = issued + 1] \in CopyType
    <3>1. issued + 1 \in Nat /\ copy[c].vault \in [Accounts -> Nat]
      BY <1>t, TypeParts DEF CopyType, CallTypes
    <3>. DEFINE w == [copy[c].vault EXCEPT ![Account(c)] = issued + 1]
    <3>2. w \in [Accounts -> Nat]
      BY <3>1
    <3>3. [copy[c] EXCEPT !.vault[Account(c)] = issued + 1]
            = [copy[c] EXCEPT !.vault = w]
      BY <1>t DEF CopyType
    <3>. HIDE DEF w
    <3>. QED  BY <3>2, <3>3, <1>t DEF CopyType
  <2>3. copy' \in [Calls -> CopyType]
    <3>1. copy' = [copy EXCEPT ![c] =
                     [copy[c] EXCEPT !.vault[Account(c)] = issued + 1]]
      BY <1>1, <1>t DEF Renew, CopyType
    <3>. QED  BY <3>1, <2>2, <1>t
  <2>4. /\ pc' \in [Calls -> Places]
        /\ UNCHANGED <<lock, index, vault, gens, read, cache, mutex, work>>
    BY <1>1, TypeParts DEF Renew, CallTypes, To
  <2>. QED  BY <2>1, <2>3, <2>4, TypeParts, TypePartsNext DEF CallTypes, StoreTypes
<1>2. CASE Rejected(c)
  <2>1. /\ To(c, "done") /\ mutex' = Unheld(c) /\ Failed(c)
        /\ UNCHANGED <<read, token, work, issued>> /\ lock' = Unlocked(c)
        /\ UNCHANGED <<index, vault, gens, copy>>
    BY <1>2 DEF Rejected
  <2>. QED  BY <2>1, <1>t, FailedTypes, UnlockedTyped, StoreStaysTyped, GoTypes,
               TypePartsNext
<1>3. CASE Save(c) \/ EndDisconnect(c)
  <2>1. Invalidate(c) \/ Keep(c) \/ Publish(c)
    BY <1>3 DEF Save, EndDisconnect
  <2>2. StoreTypes'
    <3>1. [copy[c] EXCEPT !.gen = gens + 1] \in CopyType
      BY <1>t DEF CopyType
    <3>2. ASSUME copy' = [copy EXCEPT ![c].gen = gens + 1]
          PROVE  copy' \in [Calls -> CopyType]
      BY <3>1, <3>2, <1>t
    <3>3. copy[c].vault \in [Accounts -> Nat] /\ copy[c].gen \in Nat
      BY <1>t DEF CopyType
    <3>4. CASE Invalidate(c)
      BY <3>2, <3>4, <1>t, TypeParts
      DEF Invalidate, StoreTypes, IndexType, Updating
    <3>5. CASE Keep(c)
      BY <3>3, <3>5, TypeParts DEF Keep, StoreTypes
    <3>6. CASE Publish(c)
      BY <3>3, <3>6, TypeParts DEF Publish, StoreTypes, IndexType, Ready
    <3>. QED  BY <2>1, <3>4, <3>5, <3>6
  <2>3. /\ \E s \in Places : To(c, s)
        /\ mutex' = Unheld(c) \/ mutex' = mutex
        /\ UNCHANGED <<read, token, work, issued, cache>>
    BY <1>3 DEF Save, EndDisconnect
  <2>. QED  BY <2>2, <2>3, <1>t, GoTypes, TypePartsNext
<1>. QED  BY <1>1, <1>2, <1>3

LEMMA DisturbTypes ==
  ASSUME TypeOK, Disturb
  PROVE  TypeOK'
<1>. USE DEF Rest, Service, Return, Places, Fault, storeVars
<1>t. /\ mutex \in [Processes -> Calls \cup {NoCall}]
      /\ cache \in [Processes -> CacheType]
  BY TypeParts DEF CallTypes
<1>1. ASSUME NEW c \in Calls, Fail(c) \/ Abandon(c)
      PROVE  TypeOK'
  <2>1. /\ To(c, "done") /\ mutex' = Unheld(c)
        /\ Failed(c) \/ UNCHANGED cache
        /\ UNCHANGED <<read, token, work, issued>> /\ lock' = Unlocked(c)
        /\ UNCHANGED <<index, vault, gens, copy>>
    BY <1>1 DEF Fail, Abandon
  <2>. QED  BY <2>1, <1>t, FailedTypes, UnheldTypes, UnlockedTyped,
               StoreStaysTyped, GoTypes, TypePartsNext
<1>2. ASSUME NEW p \in Processes, Crash(p)
      PROVE  TypeOK'
  <2>1. pc' \in [Calls -> Places] /\ mutex' \in [Processes -> Calls \cup {NoCall}]
    BY <1>2, TypeParts DEF Crash, CallTypes
  <2>2. EmptyCache \in CacheType
    BY DEF EmptyCache, CacheType, NoVersion
  <2>3. cache' \in [Processes -> CacheType]
    BY <1>2, <1>t, <2>2 DEF Crash
  <2>4. /\ UNCHANGED <<index, vault, gens, copy>> /\ lock' \in Calls \cup {NoCall}
        /\ UNCHANGED <<read, token, work, issued>>
    BY <1>2, TypeParts DEF Crash, StoreTypes
  <2>. QED  BY <2>1, <2>3, <2>4, StoreStaysTyped, TypeParts, TypePartsNext
            DEF CallTypes
<1>3. ASSUME NEW p \in Processes, Elapse(p)
      PROVE  TypeOK'
  <2>1. [cache[p] EXCEPT !.failed = FALSE] \in CacheType
    BY <1>t DEF CacheType
  <2>2. cache' \in [Processes -> CacheType]
    BY <1>3, <1>t, <2>1 DEF Elapse
  <2>. QED  BY <1>3, <2>2, TypeParts, TypePartsNext DEF Elapse, CallTypes, StoreTypes
<1>4. CASE LoseIndex
  BY <1>4, TypeParts, TypePartsNext
  DEF LoseIndex, CallTypes, StoreTypes, IndexType, Missing
<1>5. ASSUME NEW v \in 1..issued, Expire(v)
      PROVE  TypeOK'
  BY <1>5, TypeParts, TypePartsNext DEF Expire, CallTypes, StoreTypes
<1>. QED  BY <1>1, <1>2, <1>3, <1>4, <1>5 DEF Disturb

\* Every state of the specification is well typed: the caches and the copies
\* of every process hold versions of the accounts under a generation.
THEOREM TypeCorrect == Spec => []TypeOK
<1>1. TypeOK /\ [Next]_vars => TypeOK'
  <2>. SUFFICES ASSUME TypeOK, [Next]_vars PROVE TypeOK'
    OBVIOUS
  <2>1. CASE UNCHANGED vars
    BY <2>1 DEF TypeOK, vars, storeVars, cacheVars
  <2>2. CASE Next
    BY <2>2, CallStepTypes, LoadStepTypes, WriteStepTypes, DisturbTypes
    DEF Next, Step
  <2>. QED  BY <2>1, <2>2
<1>. QED  BY <1>1, TypesStart, PTL DEF Spec
-----------------------------------------------------------------------------
Writing == {"storing", "publishing"}
Held == {"renewing", "saving"} \cup Writing

\* What a call has in its hand is locked, so there is one such call.
LockInv == \A c \in Calls : pc[c] \in Held => lock = c

\* Nobody knows a generation that was not drawn.
GenInv ==
  /\ index.gen <= gens
  /\ \A c \in Calls : copy[c].gen <= gens /\ read[c].gen <= gens
  /\ \A p \in Processes : cache[p].gen <= gens

\* While the vault is written the index is not ready, and what it will be
\* published under is a generation that nobody else knows.
WriteInv ==
  \A c \in Calls : pc[c] \in Writing =>
    /\ index.state # "ready" /\ copy[c].gen = gens
    /\ \A d \in Calls : read[d].gen < gens /\ (d # c => copy[d].gen < gens)
    /\ \A p \in Processes : cache[p].gen < gens

\* The copy that is written has the version of the call, and is what the
\* vault holds once it is kept.
CopyInv ==
  \A c \in Calls :
    /\ pc[c] \in {"saving"} \cup Writing /\ Kind(c) # "disconnect"
         => copy[c].vault[Account(c)] = token[c]
    /\ pc[c] = "publishing" => vault = copy[c].vault

\* A sign-in never waits for a cache that it has nothing to put into.
PlaceInv == \A c \in Calls : Kind(c) = "signIn" => pc[c] # "waiting"

\* What a writer will put into its cache is what the vault holds, as long as
\* the index still has the generation it was published under.
LaterInv ==
  \A c \in Calls : index = Ready(copy[c].gen) =>
    /\ pc[c] = "adopting" => token[c] = vault[Account(c)]
    /\ Kind(c) = "signIn" /\ pc[c] \in {"seeding", "reading", "deciding"}
         => copy[c].vault = vault

TokenInv ==
  /\ TypeOK /\ LockInv /\ GenInv /\ WriteInv /\ CopyInv /\ PlaceInv
  /\ LaterInv /\ CacheMatchesVault
-----------------------------------------------------------------------------
\* A cache under generation g of a readable index i holds what vault v holds.
Good(s, i, v) ==
  i = Ready(s.gen) => \A a \in Accounts : s.tokens[a] # 0 => s.tokens[a] = v[a]

LEMMA GoodCaches ==
  CacheMatchesVault <=> \A p \in Processes : Good(cache[p], index, vault)
  BY DEF CacheMatchesVault, Good

LEMMA GoodCachesNext ==
  CacheMatchesVault' <=> \A p \in Processes : Good(cache'[p], index', vault')
  BY DEF CacheMatchesVault, Good

\* The cache of c's process becomes one that is good, of a generation in G.
CacheMoves(c, G) ==
  \E s \in CacheType :
    /\ cache' = [cache EXCEPT ![Process(c)] = s]
    /\ s.gen \in G \cup {Mine(c).gen}
    /\ Good(s, index', vault')

LEMMA CacheMoved ==
  ASSUME TypeOK, NEW c \in Calls, NEW G, CacheMoves(c, G)
  PROVE  /\ \A p \in Processes : p # Process(c) => cache'[p] = cache[p]
         /\ cache'[Process(c)].gen \in G \cup {cache[Process(c)].gen}
         /\ Good(cache'[Process(c)], index', vault')
<1>1. Process(c) \in Processes /\ cache \in [Processes -> CacheType]
  BY WorkTypes, TypeParts DEF CallTypes
<1>. QED  BY <1>1 DEF CacheMoves, Mine

LEMMA CacheKept ==
  ASSUME TypeOK, CacheMatchesVault, NEW c \in Calls, NEW G,
         UNCHANGED <<cache, index, vault>>
  PROVE  CacheMoves(c, G)
<1>1. Process(c) \in Processes /\ cache \in [Processes -> CacheType]
  BY WorkTypes, TypeParts DEF CallTypes
<1>2. Mine(c) \in CacheType /\ Good(Mine(c), index, vault)
  BY <1>1, GoodCaches DEF Mine
<1>3. cache' = [cache EXCEPT ![Process(c)] = Mine(c)]
  BY <1>1 DEF Mine
<1>. QED  BY <1>2, <1>3 DEF CacheMoves

\* A step of c that leaves the store alone, but for a lock that it drops.
Quiet(c) ==
  /\ UNCHANGED <<index, vault, gens, copy, work>>
  /\ \E s \in {"waiting", "reading", "deciding", "loading", "done"} :
       /\ To(c, s)
       /\ Kind(c) = "signIn" => s # "waiting"
       /\ Kind(c) = "signIn" /\ s \in {"reading", "deciding"}
            => pc[c] \in {"seeding", "reading"}
  /\ lock' = lock \/ lock' = Unlocked(c)
  /\ \A d \in Calls : d # c => token'[d] = token[d]
  /\ \A d \in Calls : read'[d] = read[d] \/ read'[d] = Generation
  /\ CacheMoves(c, {read[c].gen, copy[c].gen})

LEMMA KnownGeneration ==
  ASSUME TypeOK, GenInv
  PROVE  Generation.gen <= gens /\ (lock # NoCall => Generation.gen = 0)
  BY DEF TypeOK, GenInv, Generation

LEMMA QuietKeeps ==
  ASSUME TypeOK, TypeOK', TokenInv, NEW c \in Calls, Quiet(c)
  PROVE  TokenInv'
<1>. DEFINE P == Process(c)
            G == {read[c].gen, copy[c].gen}
<1>1. /\ LockInv /\ GenInv /\ WriteInv /\ CopyInv /\ PlaceInv /\ LaterInv
      /\ CacheMatchesVault
  BY DEF TokenInv
<1>2. PICK s \in {"waiting", "reading", "deciding", "loading", "done"} :
        /\ To(c, s)
        /\ Kind(c) = "signIn" => s # "waiting"
        /\ Kind(c) = "signIn" /\ s \in {"reading", "deciding"}
             => pc[c] \in {"seeding", "reading"}
  BY DEF Quiet
<1>3. pc'[c] = s /\ \A d \in Calls : d # c => pc'[d] = pc[d]
  BY <1>2, TypeParts DEF To, CallTypes
<1>4. /\ UNCHANGED <<index, vault, gens, copy, work>>
      /\ \A d \in Calls : d # c => token'[d] = token[d]
      /\ \A d \in Calls : read'[d] = read[d] \/ read'[d] = Generation
  BY DEF Quiet
<1>5. /\ \A p \in Processes : p # P => cache'[p] = cache[p]
      /\ cache'[P].gen \in G \cup {cache[P].gen}
      /\ Good(cache'[P], index', vault')
  BY CacheMoved DEF Quiet
<1>6. lock' = lock \/ (lock = c /\ lock' = NoCall)
  BY DEF Quiet, Unlocked
<1>7. /\ P \in Processes /\ gens \in Nat
      /\ \A d \in Calls : /\ Kind(d)' = Kind(d) /\ Account(d)' = Account(d)
                           /\ copy[d].gen \in Nat /\ read[d].gen \in Nat
  <2>1. \A d \in Calls : Kind(d)' = Kind(d) /\ Account(d)' = Account(d)
    BY <1>4 DEF Kind, Account
  <2>2. \A d \in Calls : copy[d].gen \in Nat /\ read[d].gen \in Nat
    BY PartTypes DEF CopyType, ReadType
  <2>. QED  BY <2>1, <2>2, WorkTypes, TypeParts DEF StoreTypes
<1>a. LockInv'
  BY <1>1, <1>2, <1>3, <1>6 DEF LockInv, Held, Writing
<1>b. GenInv'
  BY <1>1, <1>4, <1>5, <1>7, KnownGeneration DEF GenInv
<1>c. WriteInv'
  <2>. SUFFICES ASSUME NEW d \in Calls, pc'[d] \in Writing
       PROVE  /\ index.state # "ready" /\ copy[d].gen = gens
              /\ \A e \in Calls : read'[e].gen < gens
                                  /\ (e # d => copy[e].gen < gens)
              /\ \A p \in Processes : cache'[p].gen < gens
    BY <1>4 DEF WriteInv
  <2>1. d # c /\ pc[d] \in Writing /\ lock = d
    BY <1>1, <1>2, <1>3 DEF Writing, Held, LockInv
  <2>2. /\ index.state # "ready" /\ copy[d].gen = gens
        /\ \A e \in Calls : read[e].gen < gens /\ (e # d => copy[e].gen < gens)
        /\ \A p \in Processes : cache[p].gen < gens
    BY <1>1, <2>1 DEF WriteInv
  <2>3. Generation.gen = 0 /\ 0 < gens
    BY <1>1, <1>7, <2>1, <2>2, KnownGeneration, NoCallAssumption
  <2>. QED  BY <1>4, <1>5, <1>7, <2>1, <2>2, <2>3
<1>d. CopyInv'
  BY <1>1, <1>2, <1>3, <1>4, <1>7 DEF CopyInv, Writing
<1>e. PlaceInv'
  BY <1>1, <1>2, <1>3, <1>7 DEF PlaceInv
<1>f. LaterInv'
  BY <1>1, <1>2, <1>3, <1>4, <1>7 DEF LaterInv
<1>g. CacheMatchesVault'
  BY <1>1, <1>4, <1>5, GoodCaches, GoodCachesNext
<1>. QED  BY <1>a, <1>b, <1>c, <1>d, <1>e, <1>f, <1>g DEF TokenInv

\* The ways in which a cache moves: its back-off, what it drops, and what it
\* takes over.
LEMMA SetMoves ==
  ASSUME TypeOK, NEW c \in Calls, NEW s \in CacheType, SetCache(c, s), NEW G,
         s.gen \in G \cup {Mine(c).gen}, Good(s, index', vault')
  PROVE  CacheMoves(c, G)
  BY DEF CacheMoves, SetCache

LEMMA MineGood ==
  ASSUME TypeOK, CacheMatchesVault, NEW c \in Calls
  PROVE  Good(Mine(c), index, vault) /\ Mine(c) \in CacheType
  BY GoodCaches, WorkTypes, PartTypes DEF Mine

LEMMA FlagMoves ==
  ASSUME TypeOK, CacheMatchesVault, NEW c \in Calls, NEW f \in BOOLEAN, NEW G,
         SetCache(c, [Mine(c) EXCEPT !.failed = f]), UNCHANGED <<index, vault>>
  PROVE  CacheMoves(c, G)
<1>. DEFINE s == [Mine(c) EXCEPT !.failed = f]
<1>1. s \in CacheType /\ s.gen = Mine(c).gen /\ s.tokens = Mine(c).tokens
  BY MineGood DEF CacheType
<1>2. Good(s, index, vault)
  BY <1>1, MineGood DEF Good
<1>3. SetCache(c, s)
  OBVIOUS
<1>. HIDE DEF s
<1>. QED  BY <1>1, <1>2, <1>3, SetMoves

LEMMA FailedMoves ==
  ASSUME TypeOK, CacheMatchesVault, NEW c \in Calls, NEW G, Failed(c),
         UNCHANGED <<index, vault>>
  PROVE  CacheMoves(c, G)
  BY FlagMoves, CacheKept DEF Failed

LEMMA SyncedMoves ==
  ASSUME TypeOK, CacheMatchesVault, NEW c \in Calls, SetCache(c, Synced(c)),
         UNCHANGED <<index, vault>>
  PROVE  CacheMoves(c, {read[c].gen, copy[c].gen})
<1>1. Synced(c) \in CacheType
  BY SyncedTypes
<1>2. Synced(c).gen = read[c].gen
  BY PartTypes DEF Synced, CacheType, ReadType
<1>3. Good(Synced(c), index, vault)
  <2>1. CASE read[c].gen = Mine(c).gen
    <3>1. /\ Synced(c).gen = Mine(c).gen
          /\ \A a \in Accounts : Synced(c).tokens[a] # 0
                => Synced(c).tokens[a] = Mine(c).tokens[a]
      BY <2>1, PartTypes DEF Synced, CacheType
    <3>. QED  BY <3>1, MineGood DEF Good
  <2>2. CASE read[c].gen # Mine(c).gen
    <3>1. \A a \in Accounts : Synced(c).tokens[a] = 0
      BY <2>2, PartTypes DEF Synced, CacheType, NoVersion
    <3>. QED  BY <3>1 DEF Good
  <2>. QED  BY <2>1, <2>2
<1>. QED  BY <1>1, <1>2, <1>3, SetMoves

\* Taking over the usable part of a copy that is what the vault holds.
LEMMA SeedMoves ==
  ASSUME TypeOK, NEW c \in Calls, NEW l \in CopyType, Seed(c, l), NEW G,
         l.gen \in G, index' = Ready(l.gen) => l.vault = vault'
  PROVE  CacheMoves(c, G)
<1>. DEFINE s == [gen |-> l.gen, seeded |-> TRUE, tokens |-> Usable(l.vault),
                  failed |-> FALSE]
<1>1. Usable(l.vault) \in [Accounts -> Nat]
  BY DEF Usable, CopyType
<1>2. s \in CacheType /\ s.gen = l.gen /\ s.tokens = Usable(l.vault)
  BY <1>1 DEF CacheType, CopyType
<1>3. \A a \in Accounts : Usable(l.vault)[a] # 0
                            => Usable(l.vault)[a] = l.vault[a]
  BY DEF Usable
<1>4. Good(s, index', vault')
  <2>. HIDE DEF s
  <2>. QED  BY <1>2, <1>3 DEF Good
<1>5. SetCache(c, s)
  BY DEF Seed
<1>. HIDE DEF s
<1>. QED  BY <1>2, <1>4, <1>5, SetMoves

\* Taking over one version under a generation: the others stay only if they
\* have that generation already.
LEMMA AdoptMoves ==
  ASSUME TypeOK, CacheMatchesVault, NEW c \in Calls, NEW v \in Nat,
         NEW g \in Nat, Adopt(c, v, g), NEW G, g \in G,
         index' = Ready(g) => v = vault'[Account(c)],
         vault' = vault, index' = index \/ index'.gen # Mine(c).gen
  PROVE  CacheMoves(c, G)
<1>. DEFINE s == Adopted(Mine(c), Account(c), v, g)
            kept == IF Mine(c).gen = g THEN Mine(c).tokens ELSE NoVersion
<1>1. kept \in [Accounts -> Nat] /\ Account(c) \in Accounts
  BY PartTypes, WorkTypes DEF CacheType, NoVersion
<1>2. /\ s.gen = g /\ s \in CacheType
      /\ \A a \in Accounts : s.tokens[a] = IF a = Account(c) THEN v ELSE kept[a]
  BY <1>1 DEF Adopted, CacheType
<1>3. ASSUME index' = Ready(g), NEW a \in Accounts, kept[a] # 0
      PROVE  kept[a] = vault'[a]
  <2>1. Mine(c).gen = g /\ kept[a] = Mine(c).tokens[a]
    BY <1>3 DEF NoVersion
  <2>2. index' = index
    BY <2>1, <1>3 DEF Ready
  <2>. QED  BY <1>3, <2>1, <2>2, MineGood DEF Good
<1>. HIDE DEF kept
<1>4. Good(s, index', vault')
  <2>. HIDE DEF s
  <2>. QED  BY <1>2, <1>3 DEF Good
<1>5. SetCache(c, s)
  BY DEF Adopt
<1>. HIDE DEF s
<1>. QED  BY <1>2, <1>4, <1>5, SetMoves

LEMMA QuietSteps ==
  ASSUME TypeOK, PlaceInv, LaterInv, CacheMatchesVault, NEW c \in Calls,
         \/ Begin(c) \/ Enter(c) \/ Read(c) \/ SeedSaved(c) \/ ServeCached(c)
         \/ Decide(c) \/ AdoptRenewed(c) \/ Busy(c)
  PROVE  Quiet(c)
<1>. DEFINE G == {read[c].gen, copy[c].gen}
<1>. USE DEF Rest, Service, storeVars, At, Return
<1>1. CASE Begin(c)
  <2>1. \A d \in Calls : d # c => token'[d] = token[d]
    BY <1>1, TypeParts DEF Begin, CallTypes
  <2>2. CacheMoves(c, G)
    BY <1>1, CacheKept DEF Begin
  <2>. QED  BY <1>1, <2>1, <2>2 DEF Begin, Quiet
<1>2. CASE Enter(c)
  <2>1. CacheMoves(c, G)
    BY <1>2, CacheKept, FlagMoves DEF Enter
  <2>2. Kind(c) = "signIn" => pc[c] = "seeding"
    BY <1>2 DEF Enter, PlaceInv
  <2>. QED  BY <1>2, <2>1, <2>2 DEF Enter, Quiet
<1>3. CASE Read(c)
  <2>1. \A d \in Calls : read'[d] = read[d] \/ read'[d] = Generation
    BY <1>3, TypeParts DEF Read, CallTypes
  <2>2. CacheMoves(c, G)
    BY <1>3, CacheKept DEF Read
  <2>. QED  BY <1>3, <2>1, <2>2 DEF Read, Quiet
<1>4. CASE SeedSaved(c)
  <2>1. CASE Seed(c, copy[c])
    <3>1. index = Ready(copy[c].gen) => copy[c].vault = vault
      BY <1>4 DEF SeedSaved, LaterInv
    <3>2. UNCHANGED <<index, vault>> /\ copy[c] \in CopyType
      BY <1>4, PartTypes DEF SeedSaved
    <3>3. (index' = Ready(copy[c].gen) => copy[c].vault = vault')
          /\ copy[c].gen \in G
      BY <3>1, <3>2
    <3>. HIDE DEF G
    <3>4. CacheMoves(c, G)
      BY <2>1, <3>2, <3>3, SeedMoves
    <3>. USE DEF G
    <3>. QED  BY <1>4, <3>4 DEF SeedSaved, Quiet
  <2>2. CASE UNCHANGED cache
    <3>1. CacheMoves(c, G)
      BY <1>4, <2>2, CacheKept DEF SeedSaved
    <3>. QED  BY <1>4, <3>1 DEF SeedSaved, Quiet
  <2>. QED  BY <1>4, <2>1, <2>2 DEF SeedSaved
<1>5. CASE ServeCached(c)
  <2>. DEFINE kept == Retained(Mine(c).tokens)
              k == IF read[c] = Ready(Mine(c).gen) THEN kept ELSE NoVersion
              s == [Mine(c) EXCEPT !.tokens = k]
  <2>1. /\ k \in [Accounts -> Nat]
        /\ \A a \in Accounts : k[a] # 0 => k[a] = Mine(c).tokens[a]
    BY PartTypes DEF NoVersion
  <2>. HIDE DEF k
  <2>2. s \in CacheType /\ s.gen = Mine(c).gen /\ s.tokens = k
    BY <2>1, MineGood DEF CacheType
  <2>3. SetCache(c, s)
    BY <1>5 DEF ServeCached, k
  <2>. HIDE DEF s
  <2>4. Good(s, index, vault)
    BY <2>1, <2>2, MineGood DEF Good
  <2>5. CacheMoves(c, G)
    BY <1>5, <2>2, <2>3, <2>4, SetMoves DEF ServeCached
  <2>. QED  BY <1>5, <2>5 DEF ServeCached, Quiet
<1>6. CASE Decide(c)
  <2>1. CacheMoves(c, G)
    <3>1. CASE SetCache(c, Synced(c))
      BY <1>6, <3>1, SyncedMoves DEF Decide
    <3>2. CASE SetCache(c, [Mine(c) EXCEPT !.failed = TRUE,
                 !.tokens = IF read[c].state = "error" THEN @ ELSE NoVersion])
      <4>. DEFINE k == IF read[c].state = "error" THEN Mine(c).tokens
                                                  ELSE NoVersion
                  s == [Mine(c) EXCEPT !.failed = TRUE, !.tokens = k]
      <4>1. /\ k \in [Accounts -> Nat]
            /\ \A a \in Accounts : k[a] # 0 => k[a] = Mine(c).tokens[a]
        BY PartTypes DEF CacheType, NoVersion
      <4>2. SetCache(c, s)
        BY <3>2
      <4>. HIDE DEF k
      <4>3. s \in CacheType /\ s.gen = Mine(c).gen /\ s.tokens = k
        BY <4>1, MineGood DEF CacheType
      <4>. HIDE DEF s
      <4>4. Good(s, index, vault)
        BY <4>1, <4>3, MineGood DEF Good
      <4>. QED  BY <1>6, <4>2, <4>3, <4>4, SetMoves DEF Decide
    <3>. QED  BY <1>6, <3>1, <3>2 DEF Decide
  <2>2. To(c, "done") \/ To(c, "loading")
    BY <1>6 DEF Decide
  <2>3. UNCHANGED <<storeVars, read, token, work>>
    BY <1>6 DEF Decide
  <2>. QED  BY <2>1, <2>2, <2>3 DEF Quiet
<1>7. CASE AdoptRenewed(c)
  <2>1. index = Ready(copy[c].gen) => token[c] = vault[Account(c)]
    BY <1>7 DEF AdoptRenewed, LaterInv
  <2>2. token[c] \in Nat /\ copy[c].gen \in Nat
    BY PartTypes, TypeParts DEF CallTypes, CopyType
  <2>3. /\ UNCHANGED <<storeVars, read, token, work>>
        /\ Adopt(c, token[c], copy[c].gen) /\ To(c, "done")
    BY <1>7 DEF AdoptRenewed, Adopt
  <2>4. Account(c)' = Account(c)
    BY <2>3 DEF Account
  <2>5. CacheMoves(c, G)
    BY <2>1, <2>2, <2>3, <2>4, AdoptMoves
  <2>. QED  BY <2>3, <2>5 DEF Quiet
<1>8. CASE Busy(c)
  <2>1. /\ UNCHANGED <<storeVars, read, token, work>> /\ Failed(c)
        /\ To(c, "done")
    BY <1>8 DEF Busy
  <2>2. CacheMoves(c, G)
    BY <2>1, FailedMoves
  <2>. QED  BY <2>1, <2>2 DEF Quiet
<1>. QED
  BY <1>1, <1>2, <1>3, <1>4, <1>5, <1>6, <1>7, <1>8

LEMMA GivingUp ==
  ASSUME TypeOK, CacheMatchesVault, NEW c \in Calls,
         Rejected(c) \/ Fail(c) \/ Abandon(c)
  PROVE  Quiet(c)
<1>1. /\ UNCHANGED <<index, vault, gens, copy, read, token, work>>
      /\ lock' = Unlocked(c) /\ To(c, "done")
      /\ Failed(c) \/ UNCHANGED cache
  BY DEF Rejected, Fail, Abandon, Return, Rest
<1>2. CacheMoves(c, {read[c].gen, copy[c].gen})
  BY <1>1, FailedMoves, CacheKept
<1>. QED  BY <1>1, <1>2 DEF Quiet

\* A step of c that opens the store: nobody has it, and the index is ready
\* or gets a generation that was not drawn.
Opens(c) ==
  /\ lock = NoCall /\ UNCHANGED <<vault, read, token, work>>
  /\ \/ index' = index /\ gens' = gens
     \/ index' = Ready(gens + 1) /\ gens' = gens + 1
  /\ \E v \in [Accounts -> Nat], s \in {"done", "renewing", "saving"} :
       /\ Hold(c, v) /\ To(c, s)
       /\ s # "done" => lock' = c
       /\ s = "saving" /\ Kind(c) # "disconnect" => v[Account(c)] = token[c]
  /\ CacheMoves(c, {index'.gen})

LEMMA OpensKeeps ==
  ASSUME TypeOK, TypeOK', TokenInv, NEW c \in Calls, Opens(c)
  PROVE  TokenInv'
<1>. DEFINE P == Process(c)
<1>1. /\ LockInv /\ GenInv /\ WriteInv /\ CopyInv /\ PlaceInv /\ LaterInv
      /\ CacheMatchesVault
  BY DEF TokenInv
<1>2. PICK v \in [Accounts -> Nat], s \in {"done", "renewing", "saving"} :
        /\ Hold(c, v) /\ To(c, s)
        /\ s # "done" => lock' = c
        /\ s = "saving" /\ Kind(c) # "disconnect" => v[Account(c)] = token[c]
  BY DEF Opens
<1>3. pc'[c] = s /\ \A d \in Calls : d # c => pc'[d] = pc[d]
  BY <1>2, TypeParts DEF To, CallTypes
<1>4. /\ copy'[c].vault = v /\ copy'[c].gen = index'.gen
      /\ \A d \in Calls : d # c => copy'[d] = copy[d]
  BY <1>2, TypeParts DEF Hold, StoreTypes
<1>5. /\ lock = NoCall /\ UNCHANGED <<vault, read, token, work>>
      /\ \/ index' = index /\ gens' = gens
         \/ index' = Ready(gens + 1) /\ gens' = gens + 1
  BY DEF Opens
<1>6. /\ \A p \in Processes : p # P => cache'[p] = cache[p]
      /\ cache'[P].gen \in {index'.gen} \cup {cache[P].gen}
      /\ Good(cache'[P], index', vault')
  BY CacheMoved DEF Opens
<1>7. \A d \in Calls : Kind(d)' = Kind(d) /\ Account(d)' = Account(d)
  BY <1>5 DEF Kind, Account
<1>8. /\ P \in Processes /\ gens \in Nat /\ index.gen \in Nat
      /\ \A d \in Calls : copy[d].gen \in Nat /\ read[d].gen \in Nat
      /\ \A p \in Processes : cache[p].gen \in Nat
  BY WorkTypes, PartTypes, TypeParts
  DEF StoreTypes, CallTypes, CopyType, ReadType, CacheType, IndexType
<1>9. \A d \in Calls : pc'[d] \in Held => d = c /\ pc'[d] \notin Writing
  BY <1>1, <1>2, <1>3, <1>5, NoCallAssumption DEF LockInv, Held, Writing
<1>a. LockInv'
  BY <1>2, <1>3, <1>9 DEF LockInv, Held, Writing
<1>b. GenInv'
  <2>1. index'.gen <= gens' /\ gens <= gens' /\ gens' \in Nat
    BY <1>1, <1>5, <1>8 DEF GenInv, Ready
  <2>2. \A d \in Calls : copy'[d].gen <= gens' /\ read'[d].gen <= gens'
    BY <1>1, <1>4, <1>5, <1>8, <2>1 DEF GenInv
  <2>3. \A p \in Processes : cache'[p].gen <= gens'
    BY <1>1, <1>6, <1>8, <2>1 DEF GenInv
  <2>. QED  BY <2>1, <2>2, <2>3 DEF GenInv
<1>c. WriteInv'
  BY <1>9 DEF WriteInv, Held
<1>d. CopyInv'
  <2>. SUFFICES ASSUME NEW d \in Calls, pc'[d] \in {"saving"} \cup Writing
       PROVE  /\ Kind(d) # "disconnect"
                   => copy'[d].vault[Account(d)] = token[d]
              /\ pc'[d] # "publishing"
    BY <1>5, <1>7 DEF CopyInv, Writing
  <2>1. d = c /\ s = "saving"
    BY <1>3, <1>9 DEF Held
  <2>. QED  BY <1>2, <1>3, <1>4, <2>1
<1>e. PlaceInv'
  BY <1>1, <1>2, <1>3, <1>7 DEF PlaceInv
<1>f. LaterInv'
  <2>. SUFFICES ASSUME NEW d \in Calls, index' = Ready(copy'[d].gen)
       PROVE  /\ pc'[d] = "adopting" => token[d] = vault[Account(d)]
              /\ Kind(d) = "signIn"
                   /\ pc'[d] \in {"seeding", "reading", "deciding"}
                   => copy'[d].vault = vault
    BY <1>5, <1>7 DEF LaterInv
  <2>1. CASE d = c
    BY <1>2, <1>3, <2>1
  <2>2. CASE d # c
    <3>1. copy'[d] = copy[d] /\ pc'[d] = pc[d] /\ copy[d].gen <= gens
      BY <1>1, <1>3, <1>4, <2>2 DEF GenInv
    <3>2. index' = index
      BY <1>5, <1>8, <3>1 DEF Ready
    <3>. QED  BY <1>1, <3>1, <3>2 DEF LaterInv
  <2>. QED  BY <2>1, <2>2
<1>g. CacheMatchesVault'
  <2>. SUFFICES ASSUME NEW p \in Processes, p # P
       PROVE  Good(cache[p], index', vault)
    BY <1>5, <1>6, GoodCachesNext
  <2>1. CASE index' = index
    BY <1>1, <2>1, GoodCaches
  <2>2. CASE index' = Ready(gens + 1)
    <3>1. cache[p].gen # gens + 1
      BY <1>1, <1>8 DEF GenInv
    <3>. QED  BY <2>2, <3>1 DEF Good, Ready
  <2>. QED  BY <1>5, <2>1, <2>2
<1>. QED  BY <1>a, <1>b, <1>c, <1>d, <1>e, <1>f, <1>g DEF TokenInv

\* Opening the store leaves a cache as good as it was.
LEMMA StaysGood ==
  ASSUME TypeOK, GenInv, CacheMatchesVault, NEW c \in Calls,
         NEW s \in CacheType, s.gen = Mine(c).gen, s.tokens = Mine(c).tokens,
         SetCache(c, s), UNCHANGED vault,
         index' = index \/ index' = Ready(gens + 1), NEW G
  PROVE  CacheMoves(c, G)
<1>1. CASE index' = index
  BY <1>1, MineGood, SetMoves DEF Good
<1>2. CASE index' = Ready(gens + 1)
  <2>1. gens \in Nat /\ s.gen \in Nat /\ s.gen <= gens
    BY WorkTypes, TypeParts DEF StoreTypes, CacheType, GenInv, Mine
  <2>2. s.gen # gens + 1
    BY <2>1
  <2>3. Good(s, index', vault')
    BY <1>2, <2>2 DEF Good, Ready
  <2>. QED  BY <2>3, SetMoves
<1>. QED  BY <1>1, <1>2

LEMMA OpeningSteps ==
  ASSUME TypeOK, TypeOK', GenInv, CacheMatchesVault, NEW c \in Calls,
         \/ LoadRequest(c) \/ LoadStatus(c) \/ LoadSignIn(c) \/ LoadDisconnect(c)
  PROVE  Opens(c)
<1>. USE DEF Rest, Service, At, Return
<1>t. /\ vault \in [Accounts -> Nat] /\ token[c] \in Nat
      /\ Account(c) \in Accounts /\ vault[Account(c)] \in Nat
      /\ index' \in IndexType /\ gens \in Nat /\ Mine(c).gen \in Nat
      /\ Mine(c).gen <= gens /\ index'.gen \in Nat
  BY TypeParts, TypePartsNext, WorkTypes, PartTypes
  DEF CallTypes, StoreTypes, IndexType, CacheType, GenInv, Mine
<1>1. CASE LoadRequest(c)
  <2>. DEFINE v == vault[Account(c)]
  <2>1. /\ LoadLocked(c, v # 0 /\ ~Fresh(v)) /\ Hold(c, vault)
        /\ UNCHANGED <<read, token, work>>
    BY <1>1 DEF LoadRequest
  <2>2. /\ lock = NoCall /\ UNCHANGED vault
        /\ \/ index' = index /\ gens' = gens
           \/ index' = Ready(gens + 1) /\ gens' = gens + 1
    BY <2>1 DEF LoadLocked
  <2>3. Account(c)' = Account(c)
    BY <2>1 DEF Account
  <2>4. \/ To(c, "done") /\ Failed(c)
        \/ To(c, "done") /\ Adopt(c, v, index'.gen)
        \/ To(c, "renewing") /\ UNCHANGED cache /\ v # 0 /\ ~Fresh(v)
    <3>1. \/ Failed(c) /\ Return(c, 0)
          \/ Adopt(c, v, index'.gen)
          \/ /\ v # 0 /\ ~Fresh(v) /\ To(c, "renewing")
             /\ UNCHANGED <<cache, tries, mutex, served>>
      BY <1>1 DEF LoadRequest
    <3>. HIDE DEF v
    <3>. QED  BY <3>1 DEF Adopt
  <2>5. CASE To(c, "done") /\ Failed(c)
    <3>1. CacheMoves(c, {index'.gen})
      <4>1. Failed(c) => \/ SetCache(c, [Mine(c) EXCEPT !.failed = TRUE])
                         \/ UNCHANGED cache
        BY DEF Failed
      <4>3. CASE SetCache(c, [Mine(c) EXCEPT !.failed = TRUE])
        <5>. DEFINE s == [Mine(c) EXCEPT !.failed = TRUE]
        <5>1. s \in CacheType /\ s.tokens = Mine(c).tokens /\ s.gen = Mine(c).gen
          BY MineGood DEF CacheType
        <5>2. SetCache(c, s)
          BY <4>3
        <5>. HIDE DEF s
        <5>. QED  BY <2>2, <5>1, <5>2, StaysGood
      <4>4. CASE UNCHANGED cache
        <5>1. SetCache(c, Mine(c))
          BY <4>4, WorkTypes, TypeParts DEF SetCache, Mine, CallTypes
        <5>. QED  BY <2>2, <5>1, MineGood, StaysGood
      <4>. QED  BY <2>5, <4>1, <4>3, <4>4
    <3>. QED  BY <1>t, <2>1, <2>2, <2>5, <3>1 DEF Opens
  <2>6. CASE To(c, "done") /\ Adopt(c, v, index'.gen)
    <3>1. index' = index \/ index'.gen # Mine(c).gen
      <4>1. gens + 1 # Mine(c).gen
        BY <1>t
      <4>. QED  BY <2>2, <4>1 DEF Ready
    <3>2. index' = Ready(index'.gen) => v = vault'[Account(c)]
      BY <2>2
    <3>. HIDE DEF v
    <3>3. CacheMoves(c, {index'.gen})
      BY <1>t, <2>2, <2>3, <2>6, <3>1, <3>2, AdoptMoves DEF v
    <3>. QED  BY <1>t, <2>1, <2>2, <2>6, <3>3 DEF Opens
  <2>7. CASE To(c, "renewing") /\ UNCHANGED cache /\ v # 0 /\ ~Fresh(v)
    <3>1. lock' = c
      BY <2>1, <2>7 DEF LoadLocked
    <3>2. CacheMoves(c, {index'.gen})
      <4>1. SetCache(c, Mine(c))
        BY <2>7, WorkTypes, TypeParts DEF SetCache, Mine, CallTypes
      <4>. QED  BY <2>2, <4>1, StaysGood, MineGood
    <3>. QED  BY <1>t, <2>1, <2>2, <2>7, <3>1, <3>2 DEF Opens
  <2>. QED  BY <2>4, <2>5, <2>6, <2>7
<1>2. CASE LoadStatus(c)
  <2>1. /\ lock = NoCall /\ gens' = gens + 1 /\ index' = Ready(gens + 1)
        /\ Hold(c, vault) /\ UNCHANGED <<vault, read, token, work>>
        /\ To(c, "done") /\ Seed(c, copy'[c])
    BY <1>2 DEF LoadStatus, RefreshLocked
  <2>2. copy'[c] = [vault |-> vault, gen |-> index'.gen]
    BY <2>1, TypeParts DEF Hold, StoreTypes
  <2>3. copy'[c] \in CopyType /\ copy'[c].vault = vault'
        /\ copy'[c].gen = index'.gen
    BY <1>t, <2>1, <2>2 DEF CopyType
  <2>4. CacheMoves(c, {index'.gen})
    BY <2>1, <2>3, SeedMoves
  <2>. QED  BY <1>t, <2>1, <2>4 DEF Opens
<1>3. CASE LoadSignIn(c) \/ LoadDisconnect(c)
  <2>1. /\ LoadLocked(c, TRUE) /\ UNCHANGED <<cache, read, token, work>>
        /\ To(c, "saving")
    BY <1>3 DEF LoadSignIn, LoadDisconnect
  <2>2. /\ lock = NoCall /\ lock' = c /\ UNCHANGED vault
        /\ \/ index' = index /\ gens' = gens
           \/ index' = Ready(gens + 1) /\ gens' = gens + 1
    BY <2>1 DEF LoadLocked
  <2>3. \E v \in [Accounts -> Nat] :
          /\ Hold(c, v)
          /\ Kind(c) # "disconnect" => v[Account(c)] = token[c]
    <3>1. CASE LoadSignIn(c)
      <4>. DEFINE v == [vault EXCEPT ![Account(c)] = token[c]]
      <4>1. v \in [Accounts -> Nat] /\ v[Account(c)] = token[c]
        BY <1>t
      <4>2. Hold(c, v)
        BY <3>1 DEF LoadSignIn
      <4>. HIDE DEF v
      <4>. QED  BY <4>1, <4>2
    <3>2. CASE LoadDisconnect(c)
      <4>. DEFINE v == [vault EXCEPT ![Account(c)] = 0]
      <4>1. v \in [Accounts -> Nat]
        BY <1>t
      <4>2. Hold(c, v) /\ Kind(c) = "disconnect"
        BY <3>2 DEF LoadDisconnect
      <4>. HIDE DEF v
      <4>. QED  BY <4>1, <4>2
    <3>. QED  BY <1>3, <3>1, <3>2
  <2>4. CacheMoves(c, {index'.gen})
    <3>1. SetCache(c, Mine(c))
      BY <2>1, WorkTypes, TypeParts DEF SetCache, Mine, CallTypes
    <3>. QED  BY <2>2, <3>1, StaysGood, MineGood
  <2>. QED  BY <2>1, <2>2, <2>3, <2>4 DEF Opens
<1>. QED  BY <1>1, <1>2, <1>3

\* The owner of the lock: the vault is written by nobody else.
LEMMA OneWriter ==
  ASSUME TypeOK, LockInv, NEW c \in Calls, pc[c] \in Held
  PROVE  \A d \in Calls : d # c => pc[d] \notin Held
  BY DEF LockInv

\* A step of the owner of the lock moves nothing of another call.
LEMMA WriterMoves ==
  ASSUME TypeOK, NEW c \in Calls, Renew(c) \/ Save(c) \/ EndDisconnect(c)
  PROVE  /\ pc[c] \in Held /\ UNCHANGED <<read, cache, work>>
         /\ \A d \in Calls : Kind(d)' = Kind(d) /\ Account(d)' = Account(d)
         /\ \A d \in Calls : d # c => /\ pc'[d] = pc[d] /\ copy'[d] = copy[d]
                                      /\ token'[d] = token[d]
<1>1. /\ pc[c] \in Held /\ UNCHANGED <<read, cache, work>> /\ \E s : To(c, s)
  BY DEF Renew, Save, EndDisconnect, At, Held, Writing, Rest, Return
<1>2. \A d \in Calls : d # c => pc'[d] = pc[d]
  BY <1>1, TypeParts DEF To, CallTypes
<1>3. \A d \in Calls : d # c => copy'[d] = copy[d] /\ token'[d] = token[d]
  BY TypeParts DEF Renew, Save, EndDisconnect, Invalidate, Keep, Publish,
                   CallTypes, StoreTypes
<1>4. \A d \in Calls : Kind(d)' = Kind(d) /\ Account(d)' = Account(d)
  BY <1>1 DEF Kind, Account
<1>. QED  BY <1>1, <1>2, <1>3, <1>4

LEMMA RenewKeeps ==
  ASSUME TypeOK, TypeOK', TokenInv, NEW c \in Calls, Renew(c)
  PROVE  TokenInv'
<1>1. /\ LockInv /\ GenInv /\ WriteInv /\ CopyInv /\ PlaceInv /\ LaterInv
      /\ CacheMatchesVault
  BY DEF TokenInv
<1>2. /\ UNCHANGED <<lock, index, vault, gens, read, cache, work>>
      /\ pc[c] = "renewing" /\ token' = [token EXCEPT ![c] = issued + 1]
      /\ To(c, "saving")
      /\ copy' = [copy EXCEPT ![c].vault[Account(c)] = issued + 1]
  BY DEF Renew, At, Rest
<1>3. /\ pc'[c] = "saving" /\ token'[c] = issued + 1
      /\ copy'[c].gen = copy[c].gen
      /\ copy'[c].vault[Account(c)] = issued + 1
  <2>1. copy[c] \in CopyType /\ Account(c) \in Accounts
    BY PartTypes, WorkTypes
  <2>. QED  BY <1>2, <2>1, TypeParts DEF To, CallTypes, StoreTypes, CopyType
<1>4. /\ \A d \in Calls : d # c => /\ pc'[d] = pc[d] /\ copy'[d] = copy[d]
                                   /\ token'[d] = token[d]
      /\ \A d \in Calls : Kind(d)' = Kind(d) /\ Account(d)' = Account(d)
  BY WriterMoves
<1>5. \A d \in Calls : pc'[d] \in Held => d = c
  BY <1>1, <1>2, <1>4, OneWriter DEF Held
<1>a. LockInv'
  BY <1>1, <1>2, <1>5 DEF LockInv, Held
<1>b. GenInv'
  BY <1>1, <1>2, <1>3, <1>4 DEF GenInv
<1>c. WriteInv'
  BY <1>3, <1>5 DEF WriteInv, Held, Writing
<1>d. CopyInv'
  BY <1>3, <1>4, <1>5 DEF CopyInv, Held, Writing
<1>e. PlaceInv'
  BY <1>1, <1>3, <1>4 DEF PlaceInv
<1>f. LaterInv'
  BY <1>1, <1>2, <1>3, <1>4 DEF LaterInv
<1>g. CacheMatchesVault'
  BY <1>1, <1>2, GoodCaches, GoodCachesNext
<1>. QED  BY <1>a, <1>b, <1>c, <1>d, <1>e, <1>f, <1>g DEF TokenInv

\* The index is invalidated under a generation that nobody knows.
LEMMA InvalidateKeeps ==
  ASSUME TypeOK, TypeOK', TokenInv, NEW c \in Calls, Save(c),
         pc[c] = "saving"
  PROVE  TokenInv'
<1>1. /\ LockInv /\ GenInv /\ WriteInv /\ CopyInv /\ PlaceInv /\ LaterInv
      /\ CacheMatchesVault
  BY DEF TokenInv
<1>2. /\ gens' = gens + 1 /\ index' = Updating(gens + 1)
      /\ copy' = [copy EXCEPT ![c].gen = gens + 1]
      /\ UNCHANGED <<lock, vault, read, token, cache, work>> /\ To(c, "storing")
  BY DEF Save, At, Invalidate, Rest
<1>3. /\ pc'[c] = "storing" /\ copy'[c].gen = gens + 1
      /\ copy'[c].vault = copy[c].vault /\ index'.state = "updating"
      /\ index'.gen = gens + 1
  BY <1>2, PartTypes, TypeParts
  DEF To, CallTypes, StoreTypes, CopyType, Updating
<1>4. /\ \A d \in Calls : d # c => /\ pc'[d] = pc[d] /\ copy'[d] = copy[d]
                                   /\ token'[d] = token[d]
      /\ \A d \in Calls : Kind(d)' = Kind(d) /\ Account(d)' = Account(d)
  BY WriterMoves
<1>5. \A d \in Calls : pc'[d] \in Held => d = c
  BY <1>1, <1>4, OneWriter DEF Held
<1>6. /\ gens \in Nat
      /\ \A d \in Calls : copy[d].gen \in Nat /\ read[d].gen \in Nat
      /\ \A p \in Processes : cache[p].gen \in Nat
  BY PartTypes, TypeParts
  DEF StoreTypes, CallTypes, CopyType, ReadType, CacheType
<1>7. ~ \E g \in Nat : index' = Ready(g)
  BY <1>3 DEF Ready
<1>a. LockInv'
  BY <1>1, <1>2, <1>5 DEF LockInv, Held
<1>b. GenInv'
  <2>1. \A d \in Calls : copy'[d].gen <= gens + 1 /\ read[d].gen <= gens + 1
    BY <1>1, <1>3, <1>4, <1>6 DEF GenInv
  <2>2. \A p \in Processes : cache[p].gen <= gens + 1
    BY <1>1, <1>6 DEF GenInv
  <2>. QED  BY <1>2, <1>3, <1>6, <2>1, <2>2 DEF GenInv
<1>c. WriteInv'
  <2>1. \A d \in Calls : /\ read[d].gen < gens + 1
                         /\ d # c => copy'[d].gen < gens + 1
    BY <1>1, <1>4, <1>6 DEF GenInv
  <2>2. \A p \in Processes : cache[p].gen < gens + 1
    BY <1>1, <1>6 DEF GenInv
  <2>3. \A d \in Calls : pc'[d] \in Writing => d = c
    BY <1>5 DEF Held
  <2>. QED  BY <1>2, <1>3, <2>1, <2>2, <2>3 DEF WriteInv
<1>d. CopyInv'
  BY <1>1, <1>2, <1>3, <1>4, <1>5 DEF CopyInv, Held, Writing
<1>e. PlaceInv'
  BY <1>1, <1>3, <1>4 DEF PlaceInv
<1>f. LaterInv'
  BY <1>3 DEF LaterInv, Ready
<1>g. CacheMatchesVault'
  BY <1>3, GoodCachesNext DEF Good, Ready
<1>. QED  BY <1>a, <1>b, <1>c, <1>d, <1>e, <1>f, <1>g DEF TokenInv

\* The vault is written while no index says that it may be relied on.
LEMMA KeepKeeps ==
  ASSUME TypeOK, TypeOK', TokenInv, NEW c \in Calls, Save(c),
         pc[c] = "storing"
  PROVE  TokenInv'
<1>1. /\ LockInv /\ GenInv /\ WriteInv /\ CopyInv /\ PlaceInv /\ LaterInv
      /\ CacheMatchesVault
  BY DEF TokenInv
<1>2. /\ vault' = copy[c].vault /\ To(c, "publishing")
      /\ UNCHANGED <<lock, index, gens, copy, read, token, cache, work>>
  BY DEF Save, At, Keep, Rest
<1>3. pc'[c] = "publishing" /\ index.state # "ready"
  BY <1>1, <1>2, TypeParts DEF To, CallTypes, WriteInv, Writing
<1>4. /\ \A d \in Calls : d # c => pc'[d] = pc[d]
      /\ \A d \in Calls : Kind(d)' = Kind(d) /\ Account(d)' = Account(d)
  BY WriterMoves
<1>5. \A d \in Calls : pc'[d] \in Held => d = c
  BY <1>1, <1>4, OneWriter DEF Held, Writing
<1>a. LockInv'
  BY <1>1, <1>2, <1>5 DEF LockInv, Held, Writing
<1>b. GenInv'
  BY <1>1, <1>2 DEF GenInv
<1>c. WriteInv'
  <2>. SUFFICES ASSUME NEW d \in Calls, pc'[d] \in Writing
       PROVE  pc[d] \in Writing
    BY <1>1, <1>2 DEF WriteInv
  <2>. QED  BY <1>5 DEF Held, Writing
<1>d. CopyInv'
  <2>. SUFFICES ASSUME NEW d \in Calls, pc'[d] \in {"saving"} \cup Writing
       PROVE  /\ Kind(d) # "disconnect" => copy[d].vault[Account(d)] = token[d]
              /\ pc'[d] = "publishing" => vault' = copy[d].vault
    BY <1>2, <1>4 DEF CopyInv, Writing
  <2>1. d = c
    BY <1>5 DEF Held
  <2>. QED  BY <1>1, <1>2, <2>1 DEF CopyInv, Writing
<1>e. PlaceInv'
  BY <1>1, <1>3, <1>4 DEF PlaceInv
<1>f. LaterInv'
  BY <1>2, <1>3 DEF LaterInv, Ready
<1>g. CacheMatchesVault'
  BY <1>2, <1>3, GoodCachesNext DEF Good, Ready
<1>. QED  BY <1>a, <1>b, <1>c, <1>d, <1>e, <1>f, <1>g DEF TokenInv

\* The index is published under a generation that only the writer knows.
LEMMA PublishKeeps ==
  ASSUME TypeOK, TypeOK', TokenInv, NEW c \in Calls,
         Save(c) \/ EndDisconnect(c), pc[c] = "publishing"
  PROVE  TokenInv'
<1>1. /\ LockInv /\ GenInv /\ WriteInv /\ CopyInv /\ PlaceInv /\ LaterInv
      /\ CacheMatchesVault
  BY DEF TokenInv
<1>2. /\ index' = Ready(copy[c].gen) /\ lock' = NoCall
      /\ UNCHANGED <<vault, gens, copy, read, token, cache, work>>
      /\ \/ Kind(c) = "signIn" /\ To(c, "seeding")
         \/ Kind(c) \notin {"signIn", "disconnect"} /\ To(c, "adopting")
         \/ Kind(c) = "disconnect" /\ To(c, "done")
  BY DEF Save, EndDisconnect, At, Publish, Rest, Return
<1>3. /\ copy[c].gen = gens /\ vault = copy[c].vault
      /\ \A d \in Calls : d # c => copy[d].gen < gens
      /\ \A p \in Processes : cache[p].gen < gens
      /\ Kind(c) # "disconnect" => copy[c].vault[Account(c)] = token[c]
  BY <1>1 DEF WriteInv, CopyInv, Writing
<1>4. /\ \A d \in Calls : d # c => pc'[d] = pc[d]
      /\ \A d \in Calls : Kind(d)' = Kind(d) /\ Account(d)' = Account(d)
  BY WriterMoves
<1>5. /\ pc'[c] \in {"seeding", "adopting", "done"}
      /\ pc'[c] = "adopting" => Kind(c) # "disconnect"
  BY <1>2, TypeParts DEF To, CallTypes
<1>6. /\ gens \in Nat /\ \A d \in Calls : copy[d].gen \in Nat
      /\ \A p \in Processes : cache[p].gen \in Nat
  BY PartTypes, TypeParts DEF StoreTypes, CallTypes, CopyType, CacheType
<1>7. \A d \in Calls : pc'[d] \notin Held
  BY <1>1, <1>4, <1>5, OneWriter DEF Held, Writing
<1>a. LockInv'
  BY <1>7 DEF LockInv
<1>b. GenInv'
  BY <1>1, <1>2, <1>3, <1>6 DEF GenInv, Ready
<1>c. WriteInv'
  BY <1>7 DEF WriteInv, Held
<1>d. CopyInv'
  BY <1>7 DEF CopyInv, Held, Writing
<1>e. PlaceInv'
  BY <1>1, <1>4, <1>5 DEF PlaceInv
<1>f. LaterInv'
  <2>. SUFFICES ASSUME NEW d \in Calls, index' = Ready(copy[d].gen)
       PROVE  /\ pc'[d] = "adopting" => token[d] = vault[Account(d)]
              /\ Kind(d) = "signIn"
                   /\ pc'[d] \in {"seeding", "reading", "deciding"}
                   => copy[d].vault = vault
    BY <1>2, <1>4 DEF LaterInv
  <2>1. d = c
    <3>1. copy[d].gen = gens
      BY <1>2, <1>3 DEF Ready
    <3>. QED  BY <1>3, <1>6, <3>1
  <2>. QED  BY <1>3, <1>5, <2>1
<1>g. CacheMatchesVault'
  <2>. SUFFICES ASSUME NEW p \in Processes
       PROVE  Good(cache[p], index', vault)
    BY <1>2, GoodCachesNext
  <2>1. cache[p].gen # gens
    BY <1>3, <1>6
  <2>. QED  BY <1>2, <1>3, <2>1 DEF Good, Ready
<1>. QED  BY <1>a, <1>b, <1>c, <1>d, <1>e, <1>f, <1>g DEF TokenInv

\* A process that dies leaves its cache empty and its calls ended.
LEMMA CrashKeeps ==
  ASSUME TypeOK, TypeOK', TokenInv, NEW p \in Processes, Crash(p)
  PROVE  TokenInv'
<1>1. /\ LockInv /\ GenInv /\ WriteInv /\ CopyInv /\ PlaceInv /\ LaterInv
      /\ CacheMatchesVault
  BY DEF TokenInv
<1>2. /\ UNCHANGED <<index, vault, gens, copy, read, token, work>>
      /\ \A d \in Calls :
           \/ pc'[d] = pc[d] /\ (Process(d) # p \/ pc[d] = "start")
           \/ pc'[d] = "done"
      /\ lock' = lock \/ (lock' = NoCall /\ lock # NoCall /\ Process(lock) = p)
      /\ cache' = [cache EXCEPT ![p] = EmptyCache]
  BY DEF Crash
<1>3. \A d \in Calls : Kind(d)' = Kind(d) /\ Account(d)' = Account(d)
  BY <1>2 DEF Kind, Account
<1>4. /\ \A q \in Processes : q # p => cache'[q] = cache[q]
      /\ cache'[p].gen = 0 /\ \A a \in Accounts : cache'[p].tokens[a] = 0
  BY <1>2, TypeParts DEF CallTypes, EmptyCache, NoVersion
<1>5. /\ gens \in Nat
      /\ \A d \in Calls : read[d].gen \in Nat
  BY PartTypes, TypeParts DEF StoreTypes, ReadType
<1>a. LockInv'
  <2>. SUFFICES ASSUME NEW d \in Calls, pc'[d] \in Held PROVE lock' = d
    BY DEF LockInv
  <2>1. pc[d] \in Held /\ Process(d) # p
    BY <1>2 DEF Held, Writing
  <2>. QED  BY <1>1, <1>2, <2>1 DEF LockInv
<1>b. GenInv'
  BY <1>1, <1>2, <1>4, <1>5 DEF GenInv
<1>c. WriteInv'
  <2>. SUFFICES ASSUME NEW d \in Calls, pc'[d] \in Writing
       PROVE  /\ index.state # "ready" /\ copy[d].gen = gens
              /\ \A e \in Calls : read[e].gen < gens
                                  /\ (e # d => copy[e].gen < gens)
              /\ \A q \in Processes : cache'[q].gen < gens
    BY <1>2 DEF WriteInv
  <2>1. pc[d] \in Writing
    BY <1>2 DEF Writing
  <2>2. read[d].gen < gens
    BY <1>1, <2>1 DEF WriteInv
  <2>3. 0 < gens
    BY <1>5, <2>2
  <2>. QED  BY <1>1, <1>4, <2>1, <2>3 DEF WriteInv
<1>d. CopyInv'
  BY <1>1, <1>2, <1>3 DEF CopyInv, Writing
<1>e. PlaceInv'
  BY <1>1, <1>2, <1>3 DEF PlaceInv
<1>f. LaterInv'
  BY <1>1, <1>2, <1>3 DEF LaterInv
<1>g. CacheMatchesVault'
  <2>1. Good(cache'[p], index, vault)
    BY <1>4 DEF Good
  <2>. QED  BY <1>1, <1>2, <1>4, <2>1, GoodCaches, GoodCachesNext
<1>. QED  BY <1>a, <1>b, <1>c, <1>d, <1>e, <1>f, <1>g DEF TokenInv

LEMMA LoseIndexKeeps ==
  ASSUME TypeOK, TypeOK', TokenInv, LoseIndex
  PROVE  TokenInv'
<1>1. /\ LockInv /\ GenInv /\ WriteInv /\ CopyInv /\ PlaceInv /\ LaterInv
      /\ CacheMatchesVault
  BY DEF TokenInv
<1>2. /\ UNCHANGED <<lock, vault, gens, copy, work, pc, read, token, cache>>
      /\ index'.state = "missing" /\ index'.gen = 0 /\ gens \in Nat
  BY TypeParts DEF LoseIndex, Missing, StoreTypes
<1>a. LockInv'
  BY <1>1, <1>2 DEF LockInv
<1>b. GenInv'
  BY <1>1, <1>2 DEF GenInv
<1>c. WriteInv'
  BY <1>1, <1>2 DEF WriteInv
<1>d. CopyInv'
  BY <1>1, <1>2 DEF CopyInv, Kind, Account
<1>e. PlaceInv'
  BY <1>1, <1>2 DEF PlaceInv, Kind
<1>f. LaterInv'
  BY <1>2 DEF LaterInv, Ready
<1>g. CacheMatchesVault'
  BY <1>2, GoodCachesNext DEF Good, Ready
<1>. QED  BY <1>a, <1>b, <1>c, <1>d, <1>e, <1>f, <1>g DEF TokenInv

\* What moves neither a call nor the store, and no token or generation of a
\* cache.
LEMMA StandingStill ==
  ASSUME TypeOK, TypeOK', TokenInv,
         UNCHANGED <<storeVars, work, pc, read, token>>,
         \A p \in Processes : /\ cache'[p].gen = cache[p].gen
                              /\ cache'[p].tokens = cache[p].tokens
  PROVE  TokenInv'
<1>1. /\ LockInv /\ GenInv /\ WriteInv /\ CopyInv /\ PlaceInv /\ LaterInv
      /\ CacheMatchesVault
  BY DEF TokenInv
<1>2. UNCHANGED <<lock, index, vault, gens, copy, work, pc, read, token>>
  BY DEF storeVars
<1>a. LockInv'
  BY <1>1, <1>2 DEF LockInv
<1>b. GenInv'
  BY <1>1, <1>2 DEF GenInv
<1>c. WriteInv'
  BY <1>1, <1>2 DEF WriteInv
<1>d. CopyInv'
  BY <1>1, <1>2 DEF CopyInv, Kind, Account
<1>e. PlaceInv'
  BY <1>1, <1>2 DEF PlaceInv, Kind
<1>f. LaterInv'
  BY <1>1, <1>2 DEF LaterInv, Kind, Account
<1>g. CacheMatchesVault'
  BY <1>1, <1>2 DEF CacheMatchesVault
<1>. QED  BY <1>a, <1>b, <1>c, <1>d, <1>e, <1>f, <1>g DEF TokenInv

LEMMA DisturbKeeps ==
  ASSUME TypeOK, TypeOK', TokenInv, Disturb
  PROVE  TokenInv'
<1>1. ASSUME NEW c \in Calls, Fail(c) \/ Abandon(c)
      PROVE  TokenInv'
  BY <1>1, GivingUp, QuietKeeps DEF TokenInv
<1>2. ASSUME NEW p \in Processes, Elapse(p)
      PROVE  TokenInv'
  <2>1. /\ UNCHANGED <<storeVars, work, pc, read, token>>
        /\ cache' = [cache EXCEPT ![p].failed = FALSE]
    BY <1>2 DEF Elapse, Rest
  <2>2. \A q \in Processes : /\ cache'[q].gen = cache[q].gen
                             /\ cache'[q].tokens = cache[q].tokens
    BY <2>1, TypeParts DEF CallTypes, CacheType
  <2>. QED  BY <2>1, <2>2, StandingStill
<1>3. ASSUME NEW v \in 1..issued, Expire(v)
      PROVE  TokenInv'
  BY <1>3, StandingStill DEF Expire, Rest
<1>. QED
  BY <1>1, <1>2, <1>3, CrashKeeps, LoseIndexKeeps DEF Disturb

LEMMA StepKeeps ==
  ASSUME TypeOK, TypeOK', TokenInv, NEW c \in Calls, Step(c)
  PROVE  TokenInv'
<1>0. PlaceInv /\ LaterInv /\ GenInv /\ CacheMatchesVault
  BY DEF TokenInv
<1>1. CASE \/ Begin(c) \/ Enter(c) \/ Read(c) \/ SeedSaved(c)
           \/ ServeCached(c) \/ Decide(c) \/ AdoptRenewed(c) \/ Busy(c)
  BY <1>0, <1>1, QuietSteps, QuietKeeps
<1>2. CASE Rejected(c)
  BY <1>0, <1>2, GivingUp, QuietKeeps
<1>3. CASE \/ LoadRequest(c) \/ LoadStatus(c) \/ LoadSignIn(c)
           \/ LoadDisconnect(c)
  BY <1>0, <1>3, OpeningSteps, OpensKeeps
<1>4. CASE Renew(c)
  BY <1>4, RenewKeeps
<1>5. CASE Save(c)
  <2>1. pc[c] \in {"saving", "storing", "publishing"}
    BY <1>5 DEF Save, At
  <2>. QED  BY <1>5, <2>1, InvalidateKeeps, KeepKeeps, PublishKeeps
<1>6. CASE EndDisconnect(c)
  BY <1>6, PublishKeeps DEF EndDisconnect, At
<1>. QED  BY <1>1, <1>2, <1>3, <1>4, <1>5, <1>6 DEF Step

LEMMA TokenStart == Init => TokenInv
<1>. SUFFICES ASSUME Init PROVE TokenInv
  OBVIOUS
<1>1. TypeOK
  BY TypesStart
<1>2. LockInv /\ WriteInv /\ CopyInv /\ PlaceInv
  BY DEF Init, LockInv, WriteInv, CopyInv, PlaceInv, Held, Writing
<1>3. GenInv
  BY DEF Init, GenInv, Missing, NoCopy, EmptyCache
<1>4. LaterInv /\ CacheMatchesVault
  BY DEF Init, LaterInv, CacheMatchesVault, Missing, Ready
<1>. QED  BY <1>1, <1>2, <1>3, <1>4 DEF TokenInv

LEMMA TokenInvHolds == Spec => []TokenInv
<1>1. TypeOK /\ TypeOK' /\ TokenInv /\ [Next]_vars => TokenInv'
  <2>. SUFFICES ASSUME TypeOK, TypeOK', TokenInv, [Next]_vars PROVE TokenInv'
    OBVIOUS
  <2>1. CASE UNCHANGED vars
    BY <2>1, StandingStill DEF vars, cacheVars
  <2>2. CASE Next
    BY <2>2, StepKeeps, DisturbKeeps DEF Next
  <2>. QED  BY <2>1, <2>2
<1>. QED  BY <1>1, TokenStart, TypeCorrect, PTL DEF Spec

\* What is cached under the generation of a readable index is what the vault
\* holds: renewals, sign-ins, disconnections, failures, crashes and a lost
\* index file of any processes leave no stale token behind.
THEOREM CacheNeverStale == Spec => []CacheMatchesVault
<1>1. TokenInv => CacheMatchesVault
  BY DEF TokenInv
<1>. QED  BY <1>1, TokenInvHolds, PTL

-----------------------------------------------------------------------------
(***************************************************************************)
(* The second theorem: a token that a call returns was in the vault during  *)
(* that call.  It rests on CacheNeverStale at the moment at which the call  *)
(* reads the generation, and on the mutex of the process from then to the   *)
(* moment at which the call uses what is cached.                            *)
(***************************************************************************)

\* The call is where only the owner of its process's cache can be.
Inside(c) ==
  IF Kind(c) \in {"signIn", "disconnect"}
    THEN pc[c] \in {"reading", "deciding", "adopting"}
    ELSE pc[c] \notin {"start", "waiting", "done"}

Owns(c) == Inside(c) => mutex[Process(c)] = c

\* What c found current, and what it is about to use, was in the vault
\* during the call.
Knows(c) ==
  pc[c] = "deciding" /\ read[c] = Ready(Mine(c).gen)
    => \/ Mine(c).tokens[Account(c)] = 0
       \/ Mine(c).tokens[Account(c)] \in seen[c]

Adopts(c) == pc[c] = "adopting" => token[c] \in seen[c]

Served(c) == served[c] # 0 => served[c] \in seen[c]

CallServes(c) == Owns(c) /\ Knows(c) /\ Adopts(c) /\ Served(c)

Blank(s) == ~s.seeded => \A a \in Accounts : s.tokens[a] = 0

\* The parts that are not about one call: what was never seeded is empty,
\* and no generation is read while the index is being updated.
ServeInv ==
  /\ served \in [Calls -> Nat]
  /\ \A c \in Calls : CallServes(c) /\ read[c].state # "updating"
  /\ \A c \in Calls : pc[c] \notin {"start", "done"}
                        => vault[Account(c)] \in seen[c]
  /\ \A p \in Processes : Blank(cache[p])
-----------------------------------------------------------------------------
LEMMA ServeStart == Init => ServeInv
<1>. SUFFICES ASSUME Init PROVE ServeInv
  OBVIOUS
<1>1. ASSUME NEW c \in Calls PROVE CallServes(c)
  BY DEF Init, CallServes, Owns, Inside, Knows, Adopts, Served
<1>2. \A p \in Processes : Blank(cache[p])
  BY DEF Init, Blank, EmptyCache, NoVersion
<1>. QED  BY <1>1, <1>2 DEF Init, ServeInv, Missing

LEMMA SeenGrows ==
  ASSUME Witness, work' = work
  PROVE  /\ \A c \in Calls : seen[c] \subseteq seen'[c]
         /\ \A c \in Calls : pc'[c] \notin {"start", "done"}
                               => vault'[Account(c)] \in seen'[c]
         /\ \A c \in Calls : /\ Kind(c)' = Kind(c)
                             /\ Account(c)' = Account(c)
                             /\ Process(c)' = Process(c)
  BY DEF Witness, Kind, Account, Process

\* What a step of c may do to the mutexes and the caches.
MutexMoves(c) ==
  \/ mutex' = mutex \/ mutex' = Unheld(c)
  \/ /\ mutex[Process(c)] = NoCall
     /\ mutex' = [mutex EXCEPT ![Process(c)] = c]

CacheWorks(c) ==
  \/ cache' = cache
  \/ /\ Inside(c) \/ mutex[Process(c)] = NoCall
     /\ \E s : SetCache(c, s) /\ Blank(s)

\* What it leaves to the other calls.
LeavesOthers(c) ==
  \A d \in Calls \ {c} : /\ pc'[d] = pc[d] /\ read'[d] = read[d]
                         /\ token'[d] = token[d] /\ served'[d] = served[d]

LEMMA StepServes ==
  ASSUME TypeOK, ServeInv, NEW c \in Calls, Witness, work' = work,
         MutexMoves(c), CacheWorks(c), LeavesOthers(c), CallServes(c)',
         read'[c].state # "updating", served' \in [Calls -> Nat]
  PROVE  ServeInv'
<1>1. /\ mutex \in [Processes -> Calls \cup {NoCall}]
      /\ cache \in [Processes -> CacheType]
  BY TypeParts DEF CallTypes
<1>2. \A d \in Calls : Process(d) \in Processes
  BY WorkTypes
<1>3. ASSUME NEW d \in Calls \ {c} PROVE CallServes(d)'
  <2>1. /\ Inside(d)' = Inside(d) /\ Process(d)' = Process(d)
        /\ Account(d)' = Account(d)
    BY SeenGrows DEF Inside, LeavesOthers
  <2>2. Inside(d) => /\ mutex[Process(d)] = d
                     /\ mutex'[Process(d)] = d
    BY <1>1, <1>2, NoCallAssumption
       DEF ServeInv, CallServes, Owns, MutexMoves, Unheld
  <2>3. Inside(d) => Mine(d)' = Mine(d)
    <3>1. CASE cache' = cache
      BY <2>1, <3>1 DEF Mine
    <3>2. CASE cache' # cache /\ Inside(d)
      <4>1. mutex[Process(c)] \in {c, NoCall}
        BY <3>2 DEF CacheWorks, ServeInv, CallServes, Owns
      <4>2. Process(d) # Process(c)
        BY <2>2, <3>2, <4>1, NoCallAssumption
      <4>. QED  BY <1>1, <1>2, <2>1, <3>2, <4>2
                DEF CacheWorks, SetCache, Mine
    <3>. QED  BY <3>1, <3>2
  <2>4. pc[d] \in {"deciding", "adopting"} => Inside(d)
    BY DEF Inside
  <2>5. Owns(d)' /\ Served(d)'
    BY <2>1, <2>2, SeenGrows
       DEF Owns, Served, ServeInv, CallServes, LeavesOthers
  <2>6. Knows(d)'
    BY <2>1, <2>3, <2>4, SeenGrows
       DEF Knows, ServeInv, CallServes, LeavesOthers
  <2>7. Adopts(d)'
    BY SeenGrows DEF Adopts, ServeInv, CallServes, LeavesOthers
  <2>. QED  BY <2>5, <2>6, <2>7 DEF CallServes
<1>4. ASSUME NEW d \in Calls PROVE read'[d].state # "updating"
  BY DEF ServeInv, LeavesOthers
<1>5. ASSUME NEW p \in Processes PROVE Blank(cache'[p])
  BY <1>1, <1>2 DEF CacheWorks, SetCache, ServeInv
<1>6. ASSUME NEW p \in Processes PROVE Blank(cache[p])'
  BY <1>5 DEF Blank
<1>. QED  BY <1>3, <1>4, <1>6, SeenGrows DEF ServeInv

\* How the moving call itself stays sound: it returns something of the
\* vault, or goes on to where it needs nothing.
LEMMA ReturnsSound ==
  ASSUME ServeInv, NEW c \in Calls, Witness, work' = work, NEW v \in Nat,
         Return(c, v), TypeOK, v # 0 => v \in seen[c]
  PROVE  CallServes(c)' /\ served' \in [Calls -> Nat] /\ MutexMoves(c)
<1>1. pc'[c] = "done" /\ served'[c] = v /\ served' \in [Calls -> Nat]
  BY TypeParts DEF Return, To, CallTypes, ServeInv
<1>2. CallServes(c)'
  BY <1>1, SeenGrows
     DEF CallServes, Owns, Inside, Knows, Adopts, Served
<1>. QED  BY <1>1, <1>2 DEF Return, MutexMoves

LEMMA GoesSound ==
  ASSUME ServeInv, NEW c \in Calls, Witness, work' = work,
         served' = served, pc'[c] \notin {"deciding", "adopting"},
         Owns(c)'
  PROVE  CallServes(c)' /\ served' \in [Calls -> Nat]
  BY SeenGrows DEF ServeInv, CallServes, Knows, Adopts, Served

\* A call that fails flags its cache, or none.
LEMMA FailedWorks ==
  ASSUME TypeOK, ServeInv, NEW c \in Calls, Failed(c),
         pc[c] \notin {"start", "waiting", "done"}
  PROVE  CacheWorks(c)
<1>1. Mine(c) \in CacheType /\ Blank(Mine(c))
  BY WorkTypes, PartTypes DEF Mine, ServeInv
<1>2. Blank([Mine(c) EXCEPT !.failed = TRUE])
  BY <1>1 DEF Blank, CacheType
<1>. QED  BY <1>2 DEF Failed, CacheWorks, Inside, Requests

\* A cached token that is current was in the vault during the call.
LEMMA CurrentWasSeen ==
  ASSUME TypeOK, ServeInv, NEW c \in Calls, pc[c] = "deciding",
         read[c] = Ready(Mine(c).gen)
  PROVE  LET v == Retained(Mine(c).tokens)[Account(c)]
         IN  v \in Nat /\ (v # 0 => v \in seen[c])
<1>1. Account(c) \in Accounts /\ Mine(c) \in CacheType
  BY WorkTypes, PartTypes
<1>2. /\ Mine(c).tokens[Account(c)] \in Nat
      /\ Mine(c).tokens[Account(c)] # 0
           => Mine(c).tokens[Account(c)] \in seen[c]
  BY <1>1 DEF CacheType, ServeInv, CallServes, Knows
<1>. QED  BY <1>1, <1>2 DEF Retained

LEMMA WaitingSteps ==
  ASSUME TypeOK, TokenInv, ServeInv, NEW c \in Calls, Witness,
         Begin(c) \/ Enter(c) \/ Read(c)
  PROVE  ServeInv'
<1>. USE DEF Rest, Service, At, To
<1>t. /\ pc \in [Calls -> Places] /\ served \in [Calls -> Nat]
      /\ mutex \in [Processes -> Calls \cup {NoCall}]
      /\ read \in [Calls -> ReadType] /\ Process(c) \in Processes
      /\ token \in [Calls -> Nat]
  BY WorkTypes, TypeParts DEF CallTypes, ServeInv
<1>1. CASE Begin(c)
  <2>1. /\ UNCHANGED <<work, read, cache, served>> /\ pc[c] = "start"
        /\ \A d \in Calls \ {c} : pc'[d] = pc[d] /\ token'[d] = token[d]
        /\ read'[c].state # "updating"
    BY <1>1, <1>t DEF Begin, ServeInv
  <2>2. /\ MutexMoves(c) /\ pc'[c] \in {"loading", "reading", "done", "waiting"}
        /\ pc'[c] = "reading" => mutex'[Process(c)] = c
        /\ pc'[c] = "loading" => Kind(c) \in {"signIn", "disconnect"}
    BY <1>1, <1>t DEF Begin, MutexMoves
  <2>3. Owns(c)'
    BY <2>1, <2>2, SeenGrows DEF Owns, Inside
  <2>4. CallServes(c)' /\ served' \in [Calls -> Nat]
    BY <2>1, <2>2, <2>3, GoesSound
  <2>. QED  BY <2>1, <2>2, <2>4, StepServes DEF CacheWorks, LeavesOthers
<1>2. CASE Enter(c)
  <2>1. /\ UNCHANGED <<work, read, token, served>>
        /\ mutex[Process(c)] = NoCall
        /\ mutex' = [mutex EXCEPT ![Process(c)] = c]
        /\ mutex'[Process(c)] = c
        /\ \A d \in Calls \ {c} : pc'[d] = pc[d]
        /\ pc'[c] \in {"loading", "reading"} /\ read'[c].state # "updating"
    BY <1>2, <1>t DEF Enter, ServeInv
  <2>2. Mine(c) \in CacheType /\ Blank(Mine(c))
    BY WorkTypes, PartTypes DEF Mine, ServeInv
  <2>3. Blank([Mine(c) EXCEPT !.failed = FALSE])
    BY <2>2 DEF Blank, CacheType
  <2>4. CacheWorks(c)
    BY <1>2, <2>1, <2>3 DEF Enter, CacheWorks
  <2>5. Owns(c)'
    BY <2>1, SeenGrows DEF Owns
  <2>6. CallServes(c)' /\ served' \in [Calls -> Nat]
    BY <2>1, <2>5, GoesSound
  <2>. QED  BY <2>1, <2>4, <2>6, StepServes DEF MutexMoves, LeavesOthers
<1>3. CASE Read(c)
  <2>1. /\ UNCHANGED <<work, cache, mutex, token, served>>
        /\ index' = index /\ vault' = vault
        /\ pc[c] = "reading" /\ pc'[c] = "deciding" /\ read'[c] = Generation
        /\ \A d \in Calls \ {c} : pc'[d] = pc[d] /\ read'[d] = read[d]
    BY <1>3, <1>t DEF Read, storeVars
  <2>2. Generation.state # "updating"
    BY DEF Generation
  <2>3. Owns(c)'
    BY <2>1, SeenGrows DEF Owns, Inside, ServeInv, CallServes
  <2>4. Knows(c)'
    <3>1. ASSUME Generation = Ready(Mine(c).gen),
                 Mine(c).tokens[Account(c)] # 0
          PROVE  Mine(c).tokens[Account(c)] \in seen[c]
      <4>1. index = Ready(Mine(c).gen)
        BY <3>1 DEF Generation, Ready
      <4>2. Mine(c).tokens[Account(c)] = vault[Account(c)]
        BY <3>1, <4>1, WorkTypes DEF TokenInv, CacheMatchesVault, Mine
      <4>. QED  BY <2>1, <4>2 DEF ServeInv
    <3>2. Mine(c)' = Mine(c)
      BY <2>1, SeenGrows DEF Mine
    <3>. QED  BY <2>1, <3>1, <3>2, SeenGrows DEF Knows
  <2>5. Adopts(c)' /\ Served(c)'
    BY <2>1, SeenGrows DEF Adopts, Served, ServeInv, CallServes
  <2>. QED  BY <1>t, <2>1, <2>2, <2>3, <2>4, <2>5, StepServes
            DEF CallServes, MutexMoves, CacheWorks, LeavesOthers
<1>. QED  BY <1>1, <1>2, <1>3

LEMMA DecidingSteps ==
  ASSUME TypeOK, TokenInv, ServeInv, NEW c \in Calls, Witness,
         SeedSaved(c) \/ ServeCached(c) \/ Decide(c) \/ AdoptRenewed(c)
  PROVE  ServeInv'
<1>. USE DEF Rest, Service, At
<1>1. /\ UNCHANGED <<work, read, token>>
      /\ pc[c] \in {"deciding", "adopting"} /\ Inside(c)
      /\ read'[c].state # "updating"
  BY DEF SeedSaved, ServeCached, Decide, AdoptRenewed, Inside, ServeInv
<1>2. Mine(c) \in CacheType /\ Blank(Mine(c)) /\ Account(c) \in Accounts
  BY WorkTypes, PartTypes DEF Mine, ServeInv
<1>3. ASSUME NEW v \in Nat, Return(c, v), v # 0 => v \in seen[c],
             CacheWorks(c)
      PROVE  ServeInv'
  <2>1. LeavesOthers(c)
    BY <1>1, <1>3, TypeParts DEF Return, To, LeavesOthers
  <2>. QED  BY <1>1, <1>3, <2>1, ReturnsSound, StepServes
<1>4. ASSUME NEW l, Seed(c, l) PROVE CacheWorks(c)
  BY <1>1, <1>4 DEF Seed, CacheWorks, Blank
<1>5. CASE SeedSaved(c)
  BY <1>1, <1>3, <1>4, <1>5 DEF SeedSaved, CacheWorks
<1>6. CASE ServeCached(c)
  <2>. DEFINE kept == Retained(Mine(c).tokens)
              current == read[c] = Ready(Mine(c).gen)
              s == [Mine(c) EXCEPT !.tokens = IF current THEN kept
                                              ELSE NoVersion]
  <2>1. SetCache(c, s) /\ Return(c, IF current THEN kept[Account(c)] ELSE 0)
    BY <1>6 DEF ServeCached
  <2>2. Blank(s)
    BY <1>2 DEF Blank, CacheType, Retained, NoVersion
  <2>3. current => /\ kept[Account(c)] \in Nat
                   /\ kept[Account(c)] # 0 => kept[Account(c)] \in seen[c]
    BY <1>6, CurrentWasSeen DEF ServeCached
  <2>. HIDE DEF s, kept, current
  <2>. QED  BY <1>1, <1>3, <2>1, <2>2, <2>3 DEF CacheWorks
<1>7. CASE Decide(c)
  <2>1. CASE \/ read[c].state = "error"
             \/ read[c].state = "missing" /\ Mine(c).seeded
    <3>. DEFINE s == [Mine(c) EXCEPT !.failed = TRUE,
           !.tokens = IF read[c].state = "error" THEN @ ELSE NoVersion]
    <3>1. Return(c, 0) /\ SetCache(c, s)
      BY <1>7, <2>1 DEF Decide
    <3>2. Blank(s)
      BY <1>2 DEF Blank, CacheType, NoVersion
    <3>. HIDE DEF s
    <3>. QED  BY <1>1, <1>3, <3>1, <3>2 DEF CacheWorks
  <2>2. CASE ~ \/ read[c].state = "error"
               \/ read[c].state = "missing" /\ Mine(c).seeded
    <3>. DEFINE v == Synced(c).tokens[Account(c)]
    <3>1. SetCache(c, Synced(c)) /\ pc[c] = "deciding"
      BY <1>7, <2>2 DEF Decide
    <3>2. Blank(Synced(c))
      BY <1>2 DEF Synced, Blank, CacheType, Retained, NoVersion
    <3>3. CacheWorks(c)
      BY <1>1, <3>1, <3>2 DEF CacheWorks
    <3>4. v \in Nat /\ (v # 0 => v \in seen[c])
      <4>1. CASE read[c].gen # Mine(c).gen
        BY <1>2, <4>1 DEF Synced, CacheType, NoVersion
      <4>2. CASE read[c].gen = Mine(c).gen /\ read[c].state = "ready"
        <5>1. read[c] = Ready(Mine(c).gen)
          BY <4>2, PartTypes DEF ReadType, Ready
        <5>2. Synced(c).tokens = Retained(Mine(c).tokens)
          BY <1>2, <4>2 DEF Synced, CacheType
        <5>. QED  BY <3>1, <5>1, <5>2, CurrentWasSeen
      <4>3. CASE read[c].gen = Mine(c).gen /\ read[c].state = "missing"
        <5>1. Mine(c).tokens[Account(c)] = 0
          BY <1>2, <2>2, <4>3 DEF Blank
        <5>. QED  BY <1>2, <4>3, <5>1 DEF Synced, CacheType, Retained
      <4>4. read[c].state \in {"ready", "missing"}
        BY <1>1, <2>2, PartTypes DEF ReadType, ServeInv
      <4>. QED  BY <4>1, <4>2, <4>3, <4>4
    <3>. HIDE DEF v
    <3>5. CASE Return(c, v) \/ Return(c, 0)
      BY <1>3, <3>3, <3>4, <3>5
    <3>6. CASE To(c, "loading") /\ UNCHANGED <<mutex, served>>
      <4>1. /\ pc'[c] = "loading" /\ LeavesOthers(c) /\ MutexMoves(c)
        BY <1>1, <3>6, TypeParts DEF To, CallTypes, LeavesOthers, MutexMoves
      <4>2. Owns(c)'
        BY <1>1, <3>6, SeenGrows DEF Owns, Inside, ServeInv, CallServes
      <4>3. CallServes(c)' /\ served' \in [Calls -> Nat]
        BY <1>1, <3>6, <4>1, <4>2, GoesSound
      <4>. QED  BY <1>1, <3>3, <4>1, <4>3, StepServes
    <3>. QED  BY <1>7, <2>2, <3>5, <3>6 DEF Decide, v
  <2>. QED  BY <2>1, <2>2
<1>8. CASE AdoptRenewed(c)
  <2>1. /\ token[c] \in Nat /\ token[c] \in seen[c]
        /\ SetCache(c, Adopted(Mine(c), Account(c), token[c], copy[c].gen))
        /\ Return(c, token[c])
    BY <1>8, TypeParts
       DEF AdoptRenewed, Adopt, CallTypes, ServeInv, CallServes, Adopts
  <2>2. CacheWorks(c)
    BY <1>1, <2>1 DEF Adopted, Blank, CacheWorks
  <2>. QED  BY <1>3, <2>1, <2>2
<1>. QED  BY <1>5, <1>6, <1>7, <1>8

\* A call that returns nothing is sound whatever happened.
LEMMA GivesUp ==
  ASSUME TypeOK, ServeInv, NEW c \in Calls, Witness, Return(c, 0),
         UNCHANGED <<work, read, token>>, CacheWorks(c)
  PROVE  ServeInv'
<1>1. LeavesOthers(c)
  BY TypeParts DEF Return, To, CallTypes, ServeInv, LeavesOthers
<1>2. read'[c].state # "updating"
  BY DEF ServeInv
<1>. QED  BY <1>1, <1>2, ReturnsSound, StepServes

\* So is one that goes on to where it needs only its mutex.
LEMMA GoesOn ==
  ASSUME TypeOK, ServeInv, NEW c \in Calls, Witness, NEW s \in Places,
         To(c, s), s \notin {"reading", "deciding", "adopting", "done"},
         Kind(c) \in {"signIn", "disconnect"} \/ Inside(c),
         UNCHANGED <<work, read, cache, mutex, served>>,
         \A d \in Calls \ {c} : token'[d] = token[d]
  PROVE  ServeInv'
<1>1. /\ pc'[c] = s /\ \A d \in Calls \ {c} : pc'[d] = pc[d]
      /\ read'[c].state # "updating"
  BY TypeParts DEF To, CallTypes, ServeInv
<1>2. Owns(c)'
  BY <1>1, SeenGrows DEF Owns, Inside, ServeInv, CallServes
<1>3. CallServes(c)' /\ served' \in [Calls -> Nat]
  BY <1>1, <1>2, GoesSound
<1>. QED  BY <1>1, <1>3, StepServes DEF MutexMoves, CacheWorks, LeavesOthers

LEMMA LoadingSteps ==
  ASSUME TypeOK, ServeInv, NEW c \in Calls, Witness,
         \/ LoadRequest(c) \/ LoadStatus(c) \/ LoadSignIn(c)
         \/ LoadDisconnect(c) \/ Busy(c)
  PROVE  ServeInv'
<1>. USE DEF Rest, Service, At
<1>1. /\ UNCHANGED <<work, read, token>> /\ pc[c] = "loading"
      /\ vault[Account(c)] \in seen[c] /\ vault[Account(c)] \in Nat
  BY WorkTypes, TypeParts
     DEF LoadRequest, LoadStatus, LoadSignIn, LoadDisconnect, Busy, ServeInv,
         StoreTypes
<1>2. CASE LoadRequest(c)
  <2>. DEFINE v == vault[Account(c)]
  <2>1. Inside(c)
    BY <1>1, <1>2 DEF LoadRequest, Inside, Requests
  <2>2. CASE Failed(c) /\ Return(c, 0)
    BY <1>1, <2>2, FailedWorks, GivesUp
  <2>3. CASE Adopt(c, v, index'.gen)
    <3>1. CacheWorks(c)
      BY <2>1, <2>3 DEF Adopt, Adopted, Blank, CacheWorks
    <3>2. /\ CallServes(c)' /\ served' \in [Calls -> Nat] /\ MutexMoves(c)
      BY <1>1, <2>3, ReturnsSound DEF Adopt
    <3>3. LeavesOthers(c) /\ read'[c].state # "updating"
      BY <1>1, <2>3, TypeParts
         DEF Adopt, Return, To, CallTypes, ServeInv, LeavesOthers
    <3>. QED  BY <1>1, <3>1, <3>2, <3>3, StepServes
  <2>4. CASE To(c, "renewing") /\ UNCHANGED <<cache, tries, mutex, served>>
    BY <1>1, <2>1, <2>4, GoesOn DEF Places
  <2>. QED  BY <1>2, <2>2, <2>3, <2>4 DEF LoadRequest
<1>3. CASE LoadStatus(c)
  <2>1. Inside(c)
    BY <1>1, <1>3 DEF LoadStatus, Inside
  <2>2. CacheWorks(c) /\ Return(c, 0)
    BY <1>3, <2>1 DEF LoadStatus, Seed, Blank, CacheWorks
  <2>. QED  BY <1>1, <2>2, GivesUp
<1>4. CASE LoadSignIn(c) \/ LoadDisconnect(c)
  BY <1>1, <1>4, GoesOn DEF LoadSignIn, LoadDisconnect, Places
<1>5. CASE Busy(c)
  BY <1>1, <1>5, FailedWorks, GivesUp DEF Busy
<1>. QED  BY <1>2, <1>3, <1>4, <1>5

LEMMA WritingSteps ==
  ASSUME TypeOK, TokenInv, ServeInv, NEW c \in Calls, Witness,
         Renew(c) \/ Rejected(c) \/ Save(c) \/ EndDisconnect(c)
  PROVE  ServeInv'
<1>. USE DEF Rest, Service, At
<1>0. UNCHANGED <<work, read>>
  BY DEF Renew, Rejected, Save, EndDisconnect
<1>1. pc[c] \in {"renewing", "saving", "storing", "publishing"} =>
        Kind(c) \in {"signIn", "disconnect"} \/ Inside(c)
  BY DEF Inside
<1>2. CASE Renew(c)
  <2>1. \A d \in Calls \ {c} : token'[d] = token[d]
    BY <1>2, TypeParts DEF Renew, CallTypes
  <2>. QED  BY <1>0, <1>1, <1>2, <2>1, GoesOn DEF Renew, Places
<1>3. CASE Rejected(c)
  BY <1>0, <1>3, FailedWorks, GivesUp DEF Rejected
<1>4. CASE EndDisconnect(c)
  BY <1>0, <1>4, GivesUp DEF EndDisconnect, CacheWorks
<1>5. CASE Save(c)
  <2>1. UNCHANGED <<token, cache, mutex, served>>
    BY <1>5 DEF Save
  <2>2. CASE \/ At(c, "saving") /\ To(c, "storing")
             \/ At(c, "storing") /\ To(c, "publishing")
             \/ At(c, "publishing") /\ To(c, "seeding")
    BY <1>0, <1>1, <2>1, <2>2, GoesOn DEF Places
  <2>3. CASE /\ At(c, "publishing") /\ Publish(c) /\ To(c, "adopting")
             /\ Kind(c) \notin {"signIn", "disconnect"}
    <3>1. /\ pc'[c] = "adopting" /\ vault' = vault /\ LeavesOthers(c)
          /\ read'[c].state # "updating" /\ served' \in [Calls -> Nat]
      BY <1>0, <2>1, <2>3, TypeParts
         DEF Publish, To, CallTypes, LeavesOthers, ServeInv
    <3>2. Owns(c)'
      BY <1>0, <1>1, <2>1, <2>3, SeenGrows
         DEF Owns, Inside, ServeInv, CallServes
    <3>3. Adopts(c)'
      <4>1. token[c] = vault[Account(c)]
        BY <2>3 DEF TokenInv, CopyInv, Writing
      <4>2. vault[Account(c)] \in seen[c]
        BY <2>3 DEF ServeInv
      <4>. QED  BY <1>0, <2>1, <4>1, <4>2, SeenGrows DEF Adopts
    <3>4. Knows(c)' /\ Served(c)'
      BY <1>0, <2>1, <3>1, SeenGrows DEF Knows, Served, ServeInv, CallServes
    <3>. QED  BY <1>0, <2>1, <3>1, <3>2, <3>3, <3>4, StepServes
              DEF CallServes, MutexMoves, CacheWorks
  <2>. QED  BY <1>5, <2>2, <2>3 DEF Save
<1>. QED  BY <1>2, <1>3, <1>4, <1>5
-----------------------------------------------------------------------------
\* A step of no call keeps what the calls know, but for those that die.
LEMMA OutsideSteps ==
  ASSUME TypeOK, ServeInv, Witness, UNCHANGED <<work, read, token, served>>,
         NEW D \in SUBSET Calls,
         \A c \in D : pc'[c] = "done",
         \A c \in Calls \ D :
           /\ pc'[c] = pc[c] /\ (Owns(c) => Owns(c)')
           /\ Inside(c) => /\ Mine(c)'.gen = Mine(c).gen
                           /\ Mine(c)'.tokens = Mine(c).tokens,
         \A p \in Processes : Blank(cache[p])'
  PROVE  ServeInv'
<1>1. ASSUME NEW c \in D PROVE CallServes(c)'
  BY <1>1, SeenGrows
     DEF CallServes, Owns, Inside, Knows, Adopts, Served, ServeInv
<1>2. ASSUME NEW c \in Calls \ D PROVE CallServes(c)'
  <2>1. Owns(c)' /\ Adopts(c)' /\ Served(c)'
    BY <1>2, SeenGrows DEF ServeInv, CallServes, Adopts, Served
  <2>2. pc[c] = "deciding" => Inside(c)
    BY DEF Inside
  <2>3. Knows(c)'
    BY <1>2, <2>2, SeenGrows DEF ServeInv, CallServes, Knows
  <2>. QED  BY <2>1, <2>3 DEF CallServes
<1>. QED  BY <1>1, <1>2, SeenGrows DEF ServeInv

LEMMA DisturbingSteps ==
  ASSUME TypeOK, ServeInv, Disturb, Witness
  PROVE  ServeInv'
<1>. USE DEF Rest, Service
<1>t. /\ cache \in [Processes -> CacheType]
      /\ mutex \in [Processes -> Calls \cup {NoCall}]
      /\ \A c \in Calls : Process(c) \in Processes
  BY WorkTypes, TypeParts DEF CallTypes
<1>0. ASSUME UNCHANGED <<work, read, token, served, pc, mutex>>,
             \A p \in Processes : /\ cache'[p].gen = cache[p].gen
                                  /\ cache'[p].tokens = cache[p].tokens
                                  /\ cache'[p].seeded = cache[p].seeded
      PROVE  ServeInv'
  <2>1. \A c \in Calls :
          /\ Owns(c) => Owns(c)'
          /\ Mine(c)'.gen = Mine(c).gen /\ Mine(c)'.tokens = Mine(c).tokens
    BY <1>t, <1>0, SeenGrows DEF Owns, Inside, Mine
  <2>2. \A p \in Processes : Blank(cache[p])'
    BY <1>0 DEF Blank, ServeInv
  <2>3. {} \in SUBSET Calls
    OBVIOUS
  <2>. QED  BY <1>0, <2>1, <2>2, <2>3, OutsideSteps
<1>1. ASSUME NEW c \in Calls, Fail(c) PROVE ServeInv'
  BY <1>1, FailedWorks, GivesUp DEF Fail
<1>2. ASSUME NEW c \in Calls, Abandon(c) PROVE ServeInv'
  BY <1>2, GivesUp DEF Abandon, CacheWorks
<1>3. ASSUME NEW p \in Processes, Crash(p) PROVE ServeInv'
  <2>. DEFINE D == {c \in Calls : Process(c) = p /\ pc[c] # "start"}
  <2>1. /\ UNCHANGED <<work, read, token, served>>
        /\ \A c \in D : pc'[c] = "done"
        /\ \A c \in Calls \ D : pc'[c] = pc[c]
        /\ mutex' = [mutex EXCEPT ![p] = NoCall]
        /\ cache' = [cache EXCEPT ![p] = EmptyCache]
    BY <1>3 DEF Crash
  <2>2. ASSUME NEW c \in Calls \ D
        PROVE  /\ Owns(c) => Owns(c)'
               /\ Inside(c) => /\ Mine(c)'.gen = Mine(c).gen
                               /\ Mine(c)'.tokens = Mine(c).tokens
    <3>1. /\ Inside(c)' = Inside(c) /\ Process(c)' = Process(c)
          /\ Inside(c) => pc[c] # "start"
      BY <2>1, SeenGrows DEF Inside
    <3>2. Inside(c) => Process(c) # p
      BY <3>1
    <3>. QED  BY <1>t, <2>1, <3>1, <3>2 DEF Owns, Mine
  <2>3. \A q \in Processes : Blank(cache'[q])
    <3>1. Blank(EmptyCache)
      BY DEF Blank, EmptyCache, NoVersion
    <3>. QED  BY <1>t, <2>1, <3>1 DEF ServeInv
  <2>4. \A q \in Processes : Blank(cache[q])'
    BY <2>3 DEF Blank
  <2>5. D \in SUBSET Calls
    OBVIOUS
  <2>. HIDE DEF D
  <2>. QED  BY <2>1, <2>2, <2>4, <2>5, OutsideSteps
<1>4. ASSUME NEW p \in Processes, Elapse(p) PROVE ServeInv'
  <2>1. /\ UNCHANGED <<work, read, token, served, pc, mutex>>
        /\ cache' = [cache EXCEPT ![p].failed = FALSE]
    BY <1>4 DEF Elapse
  <2>2. \A q \in Processes : /\ cache'[q].gen = cache[q].gen
                             /\ cache'[q].tokens = cache[q].tokens
                             /\ cache'[q].seeded = cache[q].seeded
    BY <1>t, <2>1 DEF CacheType
  <2>. QED  BY <1>0, <2>1, <2>2
<1>5. CASE LoseIndex
  BY <1>0, <1>5 DEF LoseIndex, Fault, cacheVars
<1>6. ASSUME NEW v \in 1..issued, Expire(v) PROVE ServeInv'
  BY <1>0, <1>6 DEF Expire
<1>. QED  BY <1>1, <1>2, <1>3, <1>4, <1>5, <1>6 DEF Disturb

LEMMA ServeStep ==
  ASSUME TypeOK, TokenInv, ServeInv, [Next]_vars
  PROVE  ServeInv'
<1>1. CASE UNCHANGED vars
  BY <1>1 DEF vars, storeVars, cacheVars, ServeInv, CallServes, Owns, Inside,
     Knows, Adopts, Served, Blank, Mine, Kind, Account, Process
<1>2. ASSUME NEW c \in Calls, Step(c), Witness PROVE ServeInv'
  BY <1>2, WaitingSteps, DecidingSteps, LoadingSteps, WritingSteps DEF Step
<1>3. CASE Disturb /\ Witness
  BY <1>3, DisturbingSteps
<1>. QED  BY <1>1, <1>2, <1>3 DEF Next

LEMMA ServeInvHolds == Spec => []ServeInv
<1>1. TypeOK /\ TokenInv /\ ServeInv /\ [Next]_vars => ServeInv'
  BY ServeStep
<1>. QED  BY <1>1, ServeStart, TypeCorrect, TokenInvHolds, PTL DEF Spec

\* For any accounts, processes, calls, failures and expiries: a token that
\* a call returns was in the vault at some moment of that call, however the
\* readings of the generation, the caches and the writes of other processes
\* interleave (auth/cache.rs).
THEOREM ServedHolds == Spec => []ServedWasCurrent
<1>1. ServeInv => ServedWasCurrent
  BY DEF ServeInv, CallServes, Served, ServedWasCurrent
<1>. QED  BY <1>1, ServeInvHolds, PTL
-----------------------------------------------------------------------------
(***************************************************************************)
(* The third theorem: a seeded cache never goes back to an older           *)
(* generation.  A ready index has the last generation that was drawn, so   *)
(* that a call which read it, or published under it, is not behind its own *)
(* cache, which nobody else touches meanwhile.                             *)
(***************************************************************************)
NewestIndex == index.state = "ready" => index.gen = gens

AheadOf(c) ==
  /\ pc[c] = "deciding" /\ read[c].state = "ready" => Mine(c).gen <= read[c].gen
  /\ pc[c] = "adopting" => Mine(c).gen <= copy[c].gen

ForwardInv == NewestIndex /\ \A c \in Calls : AheadOf(c)

\* Of two calls in one process only one can be at the cache.
LEMMA OthersElsewhere ==
  ASSUME TypeOK, ServeInv, NEW c \in Calls, Inside(c) \/ mutex[Process(c)] = NoCall,
         NEW d \in Calls \ {c}, Inside(d)
  PROVE  Process(d) # Process(c)
<1>1. mutex[Process(d)] = d /\ mutex[Process(c)] \in {c, NoCall}
  BY DEF ServeInv, CallServes, Owns
<1>. QED  BY <1>1, NoCallAssumption

\* A seeded cache that stays seeded does not go back.
Onward == \A p \in Processes : cache[p].seeded /\ cache'[p].seeded
                                 => cache'[p].gen >= cache[p].gen

CacheAdvances(c) ==
  \/ cache' = cache
  \/ /\ Inside(c) \/ mutex[Process(c)] = NoCall
     /\ \E s : /\ SetCache(c, s)
               /\ Mine(c).seeded /\ s.seeded => s.gen >= Mine(c).gen

LEMMA StepForward ==
  ASSUME TypeOK, ServeInv, ForwardInv, NEW c \in Calls, work' = work,
         NewestIndex', AheadOf(c)', CacheAdvances(c),
         \A d \in Calls \ {c} : /\ pc'[d] = pc[d] /\ read'[d] = read[d]
                                /\ copy'[d] = copy[d]
  PROVE  ForwardInv' /\ Onward
<1>1. /\ cache \in [Processes -> CacheType]
      /\ \A p \in Processes : cache[p].gen \in Nat
      /\ \A d \in Calls : Process(d) \in Processes
  BY WorkTypes, TypeParts DEF CallTypes, CacheType
<1>2. ASSUME NEW d \in Calls \ {c} PROVE AheadOf(d)'
  <2>1. Process(d)' = Process(d)
    BY DEF Process
  <2>2. pc[d] \in {"deciding", "adopting"} => Inside(d)
    BY DEF Inside
  <2>3. Inside(d) => Mine(d)' = Mine(d)
    BY <1>1, <2>1, OthersElsewhere DEF CacheAdvances, SetCache, Mine
  <2>. QED  BY <2>2, <2>3 DEF AheadOf, ForwardInv
<1>3. Onward
  <2>1. CASE cache' = cache
    BY <1>1, <2>1 DEF Onward
  <2>2. CASE \E s : /\ SetCache(c, s)
                    /\ Mine(c).seeded /\ s.seeded => s.gen >= Mine(c).gen
    BY <1>1, <2>2 DEF Onward, SetCache, Mine
  <2>. QED  BY <2>1, <2>2 DEF CacheAdvances
<1>. QED  BY <1>2, <1>3 DEF ForwardInv

\* What leaves the generation of the cache alone.
LEMMA SameGeneration ==
  ASSUME TypeOK, NEW c \in Calls, NEW s, SetCache(c, s), s.gen = Mine(c).gen,
         Inside(c) \/ mutex[Process(c)] = NoCall
  PROVE  CacheAdvances(c)
<1>1. Mine(c).gen \in Nat
  BY PartTypes DEF CacheType
<1>. QED  BY <1>1 DEF CacheAdvances

LEMMA FailedAdvances ==
  ASSUME TypeOK, NEW c \in Calls, Failed(c), pc[c] \notin {"start", "waiting", "done"}
  PROVE  CacheAdvances(c)
<1>1. CASE Kind(c) \in Requests
  <2>1. Inside(c)
    BY <1>1 DEF Inside, Requests
  <2>2. [Mine(c) EXCEPT !.failed = TRUE].gen = Mine(c).gen
    BY PartTypes DEF CacheType
  <2>. QED  BY <1>1, <2>1, <2>2, SameGeneration DEF Failed
<1>2. CASE Kind(c) \notin Requests
  BY <1>2 DEF Failed, CacheAdvances
<1>. QED  BY <1>1, <1>2

\* A call that goes elsewhere than to the reading or the adopting of a
\* generation owes nothing.
LEMMA GoesElsewhere ==
  ASSUME TypeOK, NEW c \in Calls, NEW s, To(c, s), s \notin {"deciding", "adopting"}
  PROVE  AheadOf(c)' /\ \A d \in Calls \ {c} : pc'[d] = pc[d]
  BY TypeParts DEF CallTypes, To, AheadOf

LEMMA StoreStands ==
  ASSUME ForwardInv, UNCHANGED <<index, gens>>
  PROVE  NewestIndex'
  BY DEF ForwardInv, NewestIndex

\* The index after an opening is ready under the last generation, and no cache
\* is ahead of it.
LEMMA OpenedIndex ==
  ASSUME TypeOK, GenInv, ForwardInv, NEW c \in Calls,
         \/ \E h : LoadLocked(c, h)
         \/ RefreshLocked(c)
  PROVE  NewestIndex' /\ index'.gen >= Mine(c).gen
<1>1. /\ gens \in Nat /\ index \in IndexType /\ Mine(c).gen \in Nat
      /\ Mine(c).gen <= gens
  BY TypeParts, WorkTypes, PartTypes DEF StoreTypes, GenInv, Mine, CacheType
<1>2. \/ index' = index /\ gens' = gens /\ index.state = "ready"
      \/ index' = Ready(gens + 1) /\ gens' = gens + 1
  BY DEF LoadLocked, RefreshLocked
<1>. QED  BY <1>1, <1>2 DEF ForwardInv, NewestIndex, Ready, IndexType

LEMMA ForwardCalls ==
  ASSUME TypeOK, TokenInv, ServeInv, ForwardInv, NEW c \in Calls,
         \/ Begin(c) \/ Enter(c) \/ Read(c) \/ SeedSaved(c) \/ ServeCached(c)
         \/ Decide(c) \/ AdoptRenewed(c) \/ Busy(c)
  PROVE  ForwardInv' /\ Onward
<1>. USE DEF Rest, Service, storeVars, At, Return
<1>0. /\ work' = work /\ UNCHANGED storeVars /\ NewestIndex'
  BY StoreStands DEF Begin, Enter, Read, SeedSaved, ServeCached, Decide, AdoptRenewed, Busy
<1>1. CASE Begin(c)
  <2>1. \E s : To(c, s) /\ s \notin {"deciding", "adopting"}
    BY <1>1 DEF Begin
  <2>. QED  BY <1>0, <1>1, <2>1, GoesElsewhere, StepForward DEF Begin, CacheAdvances
<1>2. CASE Enter(c)
  <2>1. \E s : To(c, s) /\ s \notin {"deciding", "adopting"}
    BY <1>2 DEF Enter
  <2>2. [Mine(c) EXCEPT !.failed = FALSE].gen = Mine(c).gen
    BY PartTypes DEF CacheType
  <2>3. CacheAdvances(c)
    <3>1. CASE cache' = cache
      BY <3>1 DEF CacheAdvances
    <3>2. CASE SetCache(c, [Mine(c) EXCEPT !.failed = FALSE])
      BY <1>2, <2>2, <3>2, SameGeneration DEF Enter
    <3>. QED  BY <1>2, <3>1, <3>2 DEF Enter
  <2>. QED  BY <1>0, <1>2, <2>1, <2>3, GoesElsewhere, StepForward DEF Enter
<1>3. CASE Read(c)
  <2>1. /\ cache' = cache /\ pc'[c] = "deciding" /\ read'[c] = Generation
        /\ \A d \in Calls \ {c} : pc'[d] = pc[d] /\ read'[d] = read[d]
    BY <1>3, TypeParts DEF Read, To, CallTypes
  <2>2. Generation.state = "ready" => Generation.gen = gens
    BY DEF Generation, ForwardInv, NewestIndex
  <2>3. Mine(c)' = Mine(c) /\ Mine(c).gen <= gens
    BY <1>0, <2>1, WorkTypes DEF Mine, Process, TokenInv, GenInv
  <2>4. AheadOf(c)'
    BY <2>1, <2>2, <2>3 DEF AheadOf
  <2>. QED  BY <1>0, <2>1, <2>4, StepForward DEF CacheAdvances
<1>4. CASE SeedSaved(c)
  <2>1. Inside(c) /\ AheadOf(c) /\ pc[c] = "deciding" /\ To(c, "done")
    BY <1>4 DEF SeedSaved, Inside, ForwardInv
  <2>2. CacheAdvances(c)
    <3>1. CASE read[c] = Ready(copy[c].gen) /\ Seed(c, copy[c])
      <4>1. copy[c].gen >= Mine(c).gen
        BY <2>1, <3>1, PartTypes DEF AheadOf, Ready, CacheType, CopyType
      <4>. QED  BY <2>1, <3>1, <4>1 DEF Seed, CacheAdvances
    <3>. QED  BY <1>4, <3>1 DEF SeedSaved, CacheAdvances
  <2>. QED  BY <1>0, <1>4, <2>1, <2>2, GoesElsewhere, StepForward DEF SeedSaved
<1>5. CASE ServeCached(c)
  <2>1. Inside(c) /\ To(c, "done")
    BY <1>5 DEF ServeCached, Inside
  <2>2. PICK k : SetCache(c, [Mine(c) EXCEPT !.tokens = k])
    BY <1>5 DEF ServeCached
  <2>3. [Mine(c) EXCEPT !.tokens = k].gen = Mine(c).gen
    BY PartTypes DEF CacheType
  <2>. QED  BY <1>0, <1>5, <2>1, <2>2, <2>3, SameGeneration, GoesElsewhere, StepForward
            DEF ServeCached
<1>6. CASE Decide(c)
  <2>1. /\ Inside(c) /\ AheadOf(c) /\ pc[c] = "deciding"
        /\ To(c, "done") \/ To(c, "loading")
    BY <1>6 DEF Decide, Inside, Requests, ForwardInv
  <2>2. CASE \E k : SetCache(c, [Mine(c) EXCEPT !.failed = TRUE, !.tokens = k])
    <3>1. PICK k : SetCache(c, [Mine(c) EXCEPT !.failed = TRUE, !.tokens = k])
      BY <2>2
    <3>2. [Mine(c) EXCEPT !.failed = TRUE, !.tokens = k].gen = Mine(c).gen
      BY PartTypes DEF CacheType
    <3>3. CacheAdvances(c)
      BY <2>1, <3>1, <3>2, SameGeneration
    <3>. QED  BY <1>0, <1>6, <2>1, <3>3, GoesElsewhere, StepForward DEF Decide
  <2>3. CASE /\ read[c].state # "error" /\ ~(read[c].state = "missing" /\ Mine(c).seeded)
             /\ SetCache(c, Synced(c))
    <3>1. read[c] \in ReadType /\ Mine(c) \in CacheType
      BY PartTypes
    <3>2. read[c].state = "ready" \/ ~Mine(c).seeded
      BY <2>3, <3>1 DEF ReadType, ServeInv
    <3>3. Synced(c).gen = read[c].gen /\ Synced(c).seeded = Mine(c).seeded
      BY <3>1 DEF Synced, CacheType
    <3>4. Mine(c).seeded => Synced(c).gen >= Mine(c).gen
      BY <2>1, <3>1, <3>2, <3>3 DEF AheadOf, ReadType, CacheType
    <3>5. CacheAdvances(c)
      BY <2>1, <2>3, <3>3, <3>4 DEF CacheAdvances
    <3>. QED  BY <1>0, <1>6, <2>1, <3>5, GoesElsewhere, StepForward DEF Decide
  <2>. QED  BY <1>6, <2>2, <2>3 DEF Decide
<1>7. CASE AdoptRenewed(c)
  <2>1. Inside(c) /\ AheadOf(c) /\ pc[c] = "adopting" /\ To(c, "done")
    BY <1>7 DEF AdoptRenewed, Adopt, Inside, ForwardInv
  <2>2. copy[c].gen >= Mine(c).gen
    BY <2>1, PartTypes DEF AheadOf, CacheType, CopyType
  <2>3. CacheAdvances(c)
    BY <1>7, <2>1, <2>2 DEF AdoptRenewed, Adopt, Adopted, CacheAdvances
  <2>. QED  BY <1>0, <1>7, <2>1, <2>3, GoesElsewhere, StepForward DEF AdoptRenewed
<1>8. CASE Busy(c)
  <2>1. pc[c] = "loading" /\ To(c, "done") /\ Failed(c)
    BY <1>8 DEF Busy
  <2>. QED  BY <1>0, <1>8, <2>1, FailedAdvances, GoesElsewhere, StepForward DEF Busy
<1>. QED  BY <1>1, <1>2, <1>3, <1>4, <1>5, <1>6, <1>7, <1>8

\* A call that opens the store holds a copy that is its own.
LEMMA HoldsItsOwn ==
  ASSUME TypeOK, NEW c \in Calls, NEW v, Hold(c, v)
  PROVE  \A d \in Calls \ {c} : copy'[d] = copy[d]
  BY TypeParts DEF Hold, StoreTypes

LEMMA ForwardLoads ==
  ASSUME TypeOK, TokenInv, ServeInv, ForwardInv, NEW c \in Calls,
         \/ LoadRequest(c) \/ LoadStatus(c) \/ LoadSignIn(c)
         \/ LoadDisconnect(c)
  PROVE  ForwardInv' /\ Onward
<1>0. /\ UNCHANGED <<work, read>> /\ pc[c] = "loading"
      /\ (\E h : LoadLocked(c, h)) \/ RefreshLocked(c)
      /\ \E v : Hold(c, v)
  BY DEF LoadRequest, LoadStatus, LoadSignIn, LoadDisconnect, Rest, At,
         RefreshLocked
<1>1. /\ NewestIndex' /\ index'.gen >= Mine(c).gen
      /\ \A d \in Calls \ {c} : copy'[d] = copy[d]
  BY <1>0, OpenedIndex, HoldsItsOwn DEF TokenInv
<1>2. CASE LoadRequest(c)
  <2>1. Inside(c)
    BY <1>0, <1>2 DEF LoadRequest, Inside, Requests
  <2>2. CASE Failed(c) /\ Return(c, 0)
    BY <1>0, <1>1, <2>2, FailedAdvances, GoesElsewhere, StepForward
       DEF Return
  <2>3. CASE Adopt(c, vault[Account(c)], index'.gen)
    <3>1. CacheAdvances(c)
      BY <1>1, <2>1, <2>3 DEF Adopt, Adopted, CacheAdvances
    <3>. QED  BY <1>0, <1>1, <2>3, <3>1, GoesElsewhere, StepForward
              DEF Adopt, Return
  <2>4. CASE To(c, "renewing") /\ cache' = cache
    BY <1>0, <1>1, <2>4, GoesElsewhere, StepForward DEF CacheAdvances
  <2>. QED  BY <1>2, <2>2, <2>3, <2>4 DEF LoadRequest
<1>3. CASE LoadStatus(c)
  <2>1. Inside(c) /\ Seed(c, copy'[c]) /\ To(c, "done") /\ Hold(c, vault)
    BY <1>0, <1>3 DEF LoadStatus, Inside, Return, RefreshLocked
  <2>2. copy'[c].gen = index'.gen
    BY <2>1, TypeParts DEF Hold, StoreTypes
  <2>3. CacheAdvances(c)
    BY <1>1, <2>1, <2>2 DEF Seed, CacheAdvances
  <2>. QED  BY <1>0, <1>1, <2>1, <2>3, GoesElsewhere, StepForward
<1>4. CASE LoadSignIn(c) \/ LoadDisconnect(c)
  <2>1. To(c, "saving") /\ cache' = cache
    BY <1>4 DEF LoadSignIn, LoadDisconnect
  <2>. QED  BY <1>0, <1>1, <2>1, GoesElsewhere, StepForward DEF CacheAdvances
<1>. QED  BY <1>2, <1>3, <1>4

LEMMA ForwardWrites ==
  ASSUME TypeOK, TokenInv, ServeInv, ForwardInv, NEW c \in Calls,
         Renew(c) \/ Rejected(c) \/ Save(c) \/ EndDisconnect(c)
  PROVE  ForwardInv' /\ Onward
<1>. USE DEF At, Rest, Service, Return
<1>0. UNCHANGED <<work, read>>
  BY DEF Renew, Rejected, Save, EndDisconnect
<1>1. CASE Renew(c)
  <2>1. /\ To(c, "saving") /\ UNCHANGED <<index, gens, cache>>
        /\ \A d \in Calls \ {c} : copy'[d] = copy[d]
    BY <1>1, TypeParts DEF Renew, StoreTypes
  <2>. QED  BY <1>0, <2>1, StoreStands, GoesElsewhere, StepForward
            DEF CacheAdvances
<1>2. CASE Rejected(c)
  <2>1. /\ To(c, "done") /\ Failed(c) /\ pc[c] = "renewing"
        /\ UNCHANGED <<index, gens, copy>>
    BY <1>2 DEF Rejected
  <2>. QED  BY <1>0, <2>1, StoreStands, FailedAdvances, GoesElsewhere,
               StepForward
<1>3. CASE Save(c) /\ pc[c] = "saving"
  <2>1. /\ To(c, "storing") /\ cache' = cache /\ index' = Updating(gens + 1)
        /\ \A d \in Calls \ {c} : copy'[d] = copy[d]
    BY <1>3, TypeParts DEF Save, Invalidate, StoreTypes
  <2>2. NewestIndex'
    BY <2>1 DEF NewestIndex, Updating
  <2>. QED  BY <1>0, <2>1, <2>2, GoesElsewhere, StepForward DEF CacheAdvances
<1>4. CASE Save(c) /\ pc[c] = "storing"
  <2>1. /\ To(c, "publishing") /\ UNCHANGED <<index, gens, copy, cache>>
    BY <1>4 DEF Save, Keep
  <2>. QED  BY <1>0, <2>1, StoreStands, GoesElsewhere, StepForward
            DEF CacheAdvances
<1>5. CASE (Save(c) \/ EndDisconnect(c)) /\ pc[c] = "publishing"
  <2>1. /\ Publish(c) /\ UNCHANGED <<gens, copy, cache>>
        /\ \E s : To(c, s) /\ s \in {"seeding", "adopting", "done"}
    BY <1>5 DEF Save, EndDisconnect, Publish
  <2>2. copy[c].gen = gens /\ Mine(c).gen < gens
    BY <1>5, WorkTypes DEF TokenInv, WriteInv, Writing, Mine
  <2>3. NewestIndex'
    BY <2>1, <2>2 DEF NewestIndex, Publish, Ready
  <2>4. Mine(c)' = Mine(c) /\ Mine(c).gen \in Nat /\ gens \in Nat
    BY <1>0, <2>1, PartTypes, TypeParts DEF Mine, Process, CacheType, StoreTypes
  <2>5. pc'[c] # "deciding" /\ \A d \in Calls \ {c} : pc'[d] = pc[d]
    BY <2>1, TypeParts DEF To, CallTypes
  <2>6. AheadOf(c)'
    BY <2>1, <2>2, <2>4, <2>5 DEF AheadOf
  <2>. QED  BY <1>0, <2>1, <2>3, <2>5, <2>6, StepForward DEF CacheAdvances
<1>. QED  BY <1>1, <1>2, <1>3, <1>4, <1>5 DEF Save, EndDisconnect

LEMMA ForwardDisturbs ==
  ASSUME TypeOK, TokenInv, ServeInv, ForwardInv, Disturb
  PROVE  ForwardInv' /\ Onward
<1>. USE DEF Rest, Service, Fault
<1>t. /\ cache \in [Processes -> CacheType]
      /\ \A p \in Processes : cache[p].gen \in Nat
      /\ \A c \in Calls : Process(c) \in Processes
  BY WorkTypes, TypeParts DEF CallTypes, CacheType
<1>1. ASSUME NEW c \in Calls, Fail(c)
      PROVE  ForwardInv' /\ Onward
  <2>1. /\ UNCHANGED <<work, read, index, gens, copy>> /\ To(c, "done")
        /\ Failed(c) /\ pc[c] \notin {"start", "waiting", "done"}
    BY <1>1 DEF Fail, Return
  <2>. QED  BY <2>1, StoreStands, FailedAdvances, GoesElsewhere, StepForward
<1>2. ASSUME NEW c \in Calls, Abandon(c)
      PROVE  ForwardInv' /\ Onward
  <2>1. UNCHANGED <<work, read, index, gens, copy, cache>> /\ To(c, "done")
    BY <1>2 DEF Abandon, Return
  <2>. QED  BY <2>1, StoreStands, GoesElsewhere, StepForward DEF CacheAdvances
<1>3. ASSUME NEW p \in Processes, Crash(p)
      PROVE  ForwardInv' /\ Onward
  <2>1. /\ UNCHANGED <<work, read, index, gens, copy>>
        /\ cache' = [cache EXCEPT ![p] = EmptyCache]
        /\ \A c \in Calls : pc'[c] = IF Process(c) = p /\ pc[c] # "start"
                                       THEN "done" ELSE pc[c]
    BY <1>3 DEF Crash
  <2>2. ASSUME NEW c \in Calls PROVE AheadOf(c)'
    <3>1. CASE Process(c) = p
      BY <2>1, <3>1 DEF AheadOf
    <3>2. CASE Process(c) # p
      <4>1. pc'[c] = pc[c] /\ Mine(c)' = Mine(c)
        BY <1>t, <2>1, <3>2 DEF Mine, Process
      <4>. QED  BY <2>1, <4>1 DEF AheadOf, ForwardInv
    <3>. QED  BY <3>1, <3>2
  <2>3. Onward
    BY <1>t, <2>1 DEF Onward, EmptyCache
  <2>. QED  BY <2>1, <2>2, <2>3, StoreStands DEF ForwardInv
<1>4. ASSUME UNCHANGED <<work, read, copy, pc>>, NewestIndex',
             \A p \in Processes : cache'[p].gen = cache[p].gen
      PROVE  ForwardInv' /\ Onward
  <2>1. \A c \in Calls : Mine(c)'.gen = Mine(c).gen
    BY <1>t, <1>4 DEF Mine, Process
  <2>. QED  BY <1>t, <1>4, <2>1 DEF ForwardInv, AheadOf, Onward
<1>5. ASSUME NEW p \in Processes, Elapse(p)
      PROVE  ForwardInv' /\ Onward
  <2>1. \A q \in Processes : cache'[q].gen = cache[q].gen
    BY <1>t, <1>5 DEF Elapse, CacheType
  <2>2. UNCHANGED <<work, read, copy, pc, index, gens>>
    BY <1>5 DEF Elapse, storeVars
  <2>. QED  BY <1>4, <2>1, <2>2, StoreStands
<1>6. CASE LoseIndex
  <2>1. UNCHANGED <<work, read, copy, pc, cache>> /\ NewestIndex'
    BY <1>6 DEF LoseIndex, NewestIndex, Missing
  <2>. QED  BY <1>4, <2>1
<1>7. ASSUME NEW v \in 1..issued, Expire(v)
      PROVE  ForwardInv' /\ Onward
  <2>1. UNCHANGED <<work, read, copy, pc, index, gens, cache>>
    BY <1>7 DEF Expire, storeVars
  <2>. QED  BY <1>4, <2>1, StoreStands
<1>. QED  BY <1>1, <1>2, <1>3, <1>5, <1>6, <1>7 DEF Disturb

LEMMA ForwardStart == Init => ForwardInv
<1>. SUFFICES ASSUME Init PROVE ForwardInv
  OBVIOUS
<1>1. NewestIndex
  BY DEF Init, NewestIndex, Missing
<1>2. \A c \in Calls : AheadOf(c)
  BY DEF Init, AheadOf
<1>. QED  BY <1>1, <1>2 DEF ForwardInv

LEMMA ForwardStep ==
  ASSUME TypeOK, TokenInv, ServeInv, ForwardInv, [Next]_vars
  PROVE  ForwardInv' /\ Onward
<1>1. CASE UNCHANGED vars
  <2>1. UNCHANGED <<work, read, copy, pc, index, gens, cache>>
    BY <1>1 DEF vars, storeVars, cacheVars
  <2>2. \A p \in Processes : cache[p].gen \in Nat
    BY PartTypes, TypeParts DEF CallTypes, CacheType
  <2>. QED  BY <2>1, <2>2
            DEF ForwardInv, NewestIndex, AheadOf, Mine, Process, Onward
<1>2. ASSUME NEW c \in Calls, Step(c) PROVE ForwardInv' /\ Onward
  BY <1>2, ForwardCalls, ForwardLoads, ForwardWrites DEF Step
<1>3. CASE Disturb
  BY <1>3, ForwardDisturbs
<1>. QED  BY <1>1, <1>2, <1>3 DEF Next

\* For any accounts, processes, calls, failures and expiries: a cache that
\* stays seeded never takes an older generation than the one it has, whoever
\* renewed, signed in or refreshed the account list meanwhile (save_and_seed
\* and access_locked of auth/cache.rs).
THEOREM CacheForwardHolds == Spec => CacheMovesForward
<1>1. TypeOK /\ TokenInv /\ ServeInv /\ ForwardInv /\ [Next]_vars
        => ForwardInv' /\ [\A p \in Processes : cache[p].seeded /\ cache'[p].seeded
                             => cache'[p].gen >= cache[p].gen]_vars
  BY ForwardStep DEF Onward
<1>. QED  BY <1>1, ForwardStart, TypeCorrect, TokenInvHolds, ServeInvHolds, PTL
          DEF Spec, CacheMovesForward
-----------------------------------------------------------------------------
(***************************************************************************)
(* The fourth theorem: the back-off paces automatic requests only.  What   *)
(* a request fails with, it records with the mutex of its process in hand. *)
(***************************************************************************)
Opened == {"loading", "renewing", "saving", "storing", "publishing", "adopting"}

Paced(c) ==
  /\ Kind(c) = "auto" /\ pc[c] \in Opened => tries[Process(c)] = 0
  /\ Kind(c) = "explicit" /\ pc[c] \in {"reading", "deciding"} => ~Mine(c).failed

PaceInv ==
  /\ tries \in [Processes -> {0, 1}]
  /\ \A p \in Processes : tries[p] = 1 => cache[p].failed
  /\ \A c \in Calls : Paced(c)

LEMMA PaceTypes ==
  ASSUME TypeOK, NEW c \in Calls
  PROVE  /\ Process(c) \in Processes /\ Mine(c) \in CacheType
         /\ cache \in [Processes -> CacheType]
         /\ pc \in [Calls -> Places]
  BY WorkTypes, PartTypes, TypeParts DEF CallTypes

\* The back-off of the process of c moves, and no other one.
PaceMoves(c) ==
  /\ tries' \in [Processes -> {0, 1}]
  /\ \A p \in Processes \ {Process(c)} : /\ tries'[p] = tries[p]
                                         /\ cache'[p] = cache[p]
  /\ tries'[Process(c)] = 1 => cache'[Process(c)].failed
  /\ Inside(c) \/ mutex[Process(c)] = NoCall \/ UNCHANGED <<cache, tries>>

LEMMA StepPaces ==
  ASSUME TypeOK, ServeInv, PaceInv, NEW c \in Calls, work' = work,
         \A d \in Calls \ {c} : pc'[d] = pc[d],
         PaceMoves(c), Paced(c)'
  PROVE  PaceInv'
<1>1. ASSUME NEW d \in Calls \ {c} PROVE Paced(d)'
  <2>1. /\ Process(d)' = Process(d) /\ Kind(d)' = Kind(d)
        /\ pc'[d] = pc[d] /\ Process(d) \in Processes
    BY PaceTypes DEF Process, Kind
  <2>2. Kind(d) \in {"auto", "explicit"}
          /\ pc[d] \in Opened \cup {"reading", "deciding"} => Inside(d)
    BY DEF Inside, Opened
  <2>3. Inside(d) => /\ tries'[Process(d)] = tries[Process(d)]
                     /\ cache'[Process(d)] = cache[Process(d)]
    BY <2>1, OthersElsewhere DEF PaceMoves
  <2>. QED  BY <2>1, <2>2, <2>3 DEF PaceInv, Paced, Mine
<1>2. \A p \in Processes : tries'[p] = 1 => cache'[p].failed
  BY DEF PaceMoves, PaceInv
<1>. QED  BY <1>1, <1>2 DEF PaceInv, PaceMoves

\* Where a call owes nothing.
LEMMA NotPaced ==
  ASSUME TypeOK, NEW c \in Calls, NEW s, To(c, s), work' = work,
         \/ s \notin Opened \cup {"reading", "deciding"}
         \/ Kind(c) \notin Requests
  PROVE  Paced(c)' /\ \A d \in Calls \ {c} : pc'[d] = pc[d]
  BY PaceTypes DEF To, Paced, Kind, Requests

\* A call that goes on with its request while the back-off stands.
LEMMA StaysPaced ==
  ASSUME TypeOK, PaceInv, NEW c \in Calls, NEW s, To(c, s),
         UNCHANGED <<work, cache, tries>>,
         \/ pc[c] \in Opened /\ s \in Opened
         \/ pc[c] = "reading" /\ s = "deciding"
  PROVE  Paced(c)' /\ \A d \in Calls \ {c} : pc'[d] = pc[d]
<1>1. /\ pc'[c] = s /\ \A d \in Calls \ {c} : pc'[d] = pc[d]
      /\ Kind(c)' = Kind(c) /\ Process(c)' = Process(c) /\ Mine(c)' = Mine(c)
  BY PaceTypes DEF To, Kind, Process, Mine
<1>. QED  BY <1>1 DEF Paced, PaceInv, Opened

LEMMA PaceStands ==
  ASSUME PaceInv, TypeOK, NEW c \in Calls, UNCHANGED <<cache, tries>>
  PROVE  PaceMoves(c)
  BY PaceTypes DEF PaceInv, PaceMoves

\* A cache that is set anew keeps the count only with the failure.
LEMMA PaceKept ==
  ASSUME PaceInv, TypeOK, NEW c \in Calls, NEW s, SetCache(c, s), tries' = tries,
         Mine(c).failed => s.failed, Inside(c) \/ mutex[Process(c)] = NoCall
  PROVE  PaceMoves(c)
  BY PaceTypes DEF PaceInv, PaceMoves, SetCache, Mine

LEMMA PaceReset ==
  ASSUME PaceInv, TypeOK, NEW c \in Calls, NEW s, SetCache(c, s),
         tries' = [tries EXCEPT ![Process(c)] = 0],
         Inside(c) \/ mutex[Process(c)] = NoCall
  PROVE  PaceMoves(c)
  BY PaceTypes DEF PaceInv, PaceMoves, SetCache

\* Who fails has found no back-off, so the failure is the first one.
LEMMA FailedPaces ==
  ASSUME PaceInv, TypeOK, NEW c \in Calls, Failed(c), pc[c] \in Opened
  PROVE  PaceMoves(c)
<1>1. CASE Kind(c) \notin Requests
  BY <1>1, PaceStands DEF Failed
<1>2. CASE Kind(c) \in Requests
  <2>1. Inside(c) /\ SetCache(c, [Mine(c) EXCEPT !.failed = TRUE])
    BY <1>2 DEF Inside, Opened, Requests, Failed
  <2>2. [Mine(c) EXCEPT !.failed = TRUE].failed
    BY PaceTypes DEF CacheType
  <2>3. CASE Kind(c) # "auto"
    <3>1. tries' = tries
      BY <1>2, <2>3 DEF Failed
    <3>. QED  BY <2>1, <2>2, <3>1, PaceKept
  <2>4. CASE Kind(c) = "auto"
    <3>1. tries[Process(c)] = 0 /\ tries' = [tries EXCEPT ![Process(c)] = @ + 1]
      BY <1>2, <2>4 DEF Failed, PaceInv, Paced
    <3>2. tries' = [tries EXCEPT ![Process(c)] = 1]
      BY <3>1
    <3>3. cache'[Process(c)].failed
      BY <2>1, <2>2, PaceTypes DEF SetCache
    <3>. QED  BY <2>1, <3>2, <3>3, PaceTypes DEF PaceInv, PaceMoves, SetCache
  <2>. QED  BY <2>3, <2>4
<1>. QED  BY <1>1, <1>2

LEMMA FailureEnds ==
  ASSUME TypeOK, ServeInv, PaceInv, NEW c \in Calls, work' = work,
         Failed(c), Return(c, 0), pc[c] \in Opened
  PROVE  PaceInv'
<1>1. To(c, "done") /\ "done" \notin Opened \cup {"reading", "deciding"}
  BY DEF Return, Opened
<1>. QED  BY <1>1, FailedPaces, NotPaced, StepPaces

LEMMA PacedDecision ==
  ASSUME TypeOK, ServeInv, PaceInv, NEW c \in Calls, Decide(c)
  PROVE  PaceInv'
<1>0. Inside(c) /\ work' = work /\ pc[c] = "deciding"
  BY DEF Decide, Inside, Requests, At, Rest
<1>1. CASE \E k : /\ SetCache(c, [Mine(c) EXCEPT !.failed = TRUE, !.tokens = k])
                  /\ Return(c, 0) /\ tries' = tries
  <2>1. PICK k : SetCache(c, [Mine(c) EXCEPT !.failed = TRUE, !.tokens = k])
    BY <1>1
  <2>2. [Mine(c) EXCEPT !.failed = TRUE, !.tokens = k].failed
    BY PaceTypes DEF CacheType
  <2>3. PaceMoves(c)
    BY <1>0, <1>1, <2>1, <2>2, PaceKept
  <2>4. To(c, "done") /\ "done" \notin Opened \cup {"reading", "deciding"}
    BY <1>1 DEF Return, Opened
  <2>. QED  BY <1>0, <2>3, <2>4, NotPaced, StepPaces
<1>2. CASE /\ SetCache(c, Synced(c))
           /\ read[c].gen # Mine(c).gen => tries' = [tries EXCEPT ![Process(c)] = 0]
           /\ read[c].gen = Mine(c).gen => tries' = tries
           /\ To(c, "done") \/ (To(c, "loading") /\ ~Synced(c).failed)
  <2>3. PaceMoves(c)
    <3>1. CASE read[c].gen # Mine(c).gen
      BY <1>0, <1>2, <3>1, PaceReset
    <3>2. CASE read[c].gen = Mine(c).gen
      <4>1. Synced(c).failed = Mine(c).failed
        BY <3>2, PaceTypes DEF Synced, CacheType
      <4>. QED  BY <1>0, <1>2, <3>2, <4>1, PaceKept
    <3>. QED  BY <3>1, <3>2
  <2>4. CASE To(c, "done")
    <3>1. "done" \notin Opened \cup {"reading", "deciding"}
      BY DEF Opened
    <3>. QED  BY <1>0, <2>3, <2>4, <3>1, NotPaced, StepPaces
  <2>5. CASE To(c, "loading") /\ ~Synced(c).failed
    <3>1. /\ pc'[c] = "loading" /\ \A d \in Calls \ {c} : pc'[d] = pc[d]
          /\ Kind(c)' = Kind(c) /\ Process(c)' = Process(c)
          /\ cache'[Process(c)] = Synced(c)
      BY <1>0, <1>2, <2>5, PaceTypes DEF To, Kind, Process, SetCache
    <3>2. tries'[Process(c)] = 0
      BY <2>3, <2>5, <3>1, PaceTypes DEF PaceMoves
    <3>3. Paced(c)'
      BY <3>1, <3>2 DEF Paced
    <3>. QED  BY <1>0, <2>3, <3>1, <3>3, StepPaces
  <2>. QED  BY <1>2, <2>4, <2>5
<1>. QED  BY <1>1, <1>2 DEF Decide, Return

LEMMA PacedCalls ==
  ASSUME TypeOK, ServeInv, PaceInv, NEW c \in Calls,
         \/ Begin(c) \/ Enter(c) \/ Read(c) \/ SeedSaved(c) \/ ServeCached(c)
         \/ AdoptRenewed(c) \/ Busy(c)
  PROVE  PaceInv'
<1>. USE DEF At, Rest, Service
<1>0. /\ work' = work
      /\ "done" \notin Opened \cup {"reading", "deciding"}
      /\ "waiting" \notin Opened \cup {"reading", "deciding"}
  BY DEF Begin, Enter, Read, SeedSaved, ServeCached, AdoptRenewed, Busy, Opened
<1>1. CASE Begin(c)
  <2>1. /\ UNCHANGED <<cache, tries>>
        /\ \E s : To(c, s) /\ (s \in {"waiting", "done"} \/ Kind(c) \notin Requests)
    BY <1>1 DEF Begin, Requests
  <2>. QED  BY <1>0, <2>1, PaceStands, NotPaced, StepPaces
<1>2. CASE Enter(c)
  <2>0. mutex[Process(c)] = NoCall
    BY <1>2 DEF Enter
  <2>1. CASE Kind(c) = "explicit"
    <3>1. /\ SetCache(c, [Mine(c) EXCEPT !.failed = FALSE])
          /\ tries' = [tries EXCEPT ![Process(c)] = 0] /\ To(c, "reading")
      BY <1>2, <2>1 DEF Enter
    <3>2. PaceMoves(c)
      BY <2>0, <3>1, PaceReset
    <3>3. /\ Kind(c)' = Kind(c) /\ Process(c)' = Process(c)
          /\ ~cache'[Process(c)].failed /\ \A d \in Calls \ {c} : pc'[d] = pc[d]
      BY <1>0, <3>1, PaceTypes DEF To, Kind, Process, SetCache, CacheType
    <3>4. Paced(c)'
      BY <2>1, <3>3 DEF Paced, Mine
    <3>. QED  BY <1>0, <3>2, <3>3, <3>4, StepPaces
  <2>2. CASE Kind(c) # "explicit"
    <3>1. /\ UNCHANGED <<cache, tries>> /\ "reading" \notin Opened
          /\ To(c, "reading") \/ (Kind(c) = "status" /\ To(c, "loading"))
      BY <1>2, <2>2 DEF Enter, Opened
    <3>2. Paced(c)' /\ \A d \in Calls \ {c} : pc'[d] = pc[d]
      <4>1. CASE To(c, "reading")
        BY <1>0, <2>2, <3>1, <4>1, PaceTypes DEF To, Paced, Kind
      <4>2. CASE Kind(c) = "status" /\ To(c, "loading")
        BY <1>0, <4>2, NotPaced DEF Requests
      <4>. QED  BY <3>1, <4>1, <4>2
    <3>. QED  BY <1>0, <3>1, <3>2, PaceStands, StepPaces
  <2>. QED  BY <2>1, <2>2
<1>3. CASE Read(c)
  <2>1. UNCHANGED <<cache, tries>> /\ To(c, "deciding") /\ pc[c] = "reading"
    BY <1>3 DEF Read
  <2>. QED  BY <1>0, <2>1, PaceStands, StaysPaced, StepPaces
<1>4. CASE SeedSaved(c)
  <2>1. Inside(c) /\ To(c, "done")
    BY <1>4 DEF SeedSaved, Inside, Return
  <2>2. PaceMoves(c)
    BY <1>4, <2>1, PaceReset, PaceStands DEF SeedSaved, Seed
  <2>. QED  BY <1>0, <2>1, <2>2, NotPaced, StepPaces
<1>5. CASE ServeCached(c)
  <2>1. Inside(c) /\ To(c, "done") /\ tries' = tries
    BY <1>5 DEF ServeCached, Inside, Return
  <2>2. PICK k : SetCache(c, [Mine(c) EXCEPT !.tokens = k])
    BY <1>5 DEF ServeCached
  <2>3. [Mine(c) EXCEPT !.tokens = k].failed = Mine(c).failed
    BY PaceTypes DEF CacheType
  <2>4. PaceMoves(c)
    BY <2>1, <2>2, <2>3, PaceKept
  <2>. QED  BY <1>0, <2>1, <2>4, NotPaced, StepPaces
<1>6. CASE AdoptRenewed(c)
  <2>1. Inside(c) /\ To(c, "done")
    BY <1>6 DEF AdoptRenewed, Adopt, Inside, Return
  <2>2. PaceMoves(c)
    BY <1>6, <2>1, PaceReset DEF AdoptRenewed, Adopt
  <2>. QED  BY <1>0, <2>1, <2>2, NotPaced, StepPaces
<1>7. CASE Busy(c)
  BY <1>0, <1>7, FailureEnds DEF Busy, Opened
<1>. QED  BY <1>1, <1>2, <1>3, <1>4, <1>5, <1>6, <1>7

LEMMA PacedStore ==
  ASSUME TypeOK, ServeInv, PaceInv, NEW c \in Calls,
         \/ LoadRequest(c) \/ LoadStatus(c) \/ LoadSignIn(c)
         \/ LoadDisconnect(c) \/ Renew(c) \/ Rejected(c) \/ Save(c)
         \/ EndDisconnect(c)
  PROVE  PaceInv'
<1>. USE DEF At, Rest, Service
<1>0. work' = work /\ "done" \notin Opened \cup {"reading", "deciding"}
  BY DEF LoadRequest, LoadStatus, LoadSignIn, LoadDisconnect, Renew, Rejected,
         Save, EndDisconnect, RefreshLocked, Opened
<1>1. ASSUME NEW s, To(c, s), UNCHANGED <<cache, tries>>,
             \/ pc[c] \in Opened /\ s \in Opened
             \/ s = "done" \/ Kind(c) \notin Requests
      PROVE  PaceInv'
  BY <1>0, <1>1, PaceStands, StaysPaced, NotPaced, StepPaces
<1>2. CASE LoadRequest(c)
  <2>1. pc[c] = "loading" /\ pc[c] \in Opened /\ Inside(c)
    BY <1>2 DEF LoadRequest, Opened, Inside, Requests
  <2>2. CASE Failed(c) /\ Return(c, 0)
    BY <1>0, <2>1, <2>2, FailureEnds
  <2>3. CASE Adopt(c, vault[Account(c)], index'.gen)
    <3>1. PaceMoves(c) /\ To(c, "done")
      BY <2>1, <2>3, PaceReset DEF Adopt, Return
    <3>. QED  BY <1>0, <3>1, NotPaced, StepPaces
  <2>4. CASE To(c, "renewing") /\ UNCHANGED <<cache, tries>>
    BY <1>1, <2>1, <2>4 DEF Opened
  <2>. QED  BY <1>2, <2>2, <2>3, <2>4 DEF LoadRequest
<1>3. CASE LoadStatus(c)
  <2>1. Inside(c) /\ Seed(c, copy'[c]) /\ To(c, "done")
    BY <1>3 DEF LoadStatus, Inside, Return
  <2>2. PaceMoves(c)
    BY <2>1, PaceReset DEF Seed
  <2>. QED  BY <1>0, <2>1, <2>2, NotPaced, StepPaces
<1>4. CASE LoadSignIn(c) \/ LoadDisconnect(c)
  BY <1>1, <1>4 DEF LoadSignIn, LoadDisconnect, Requests
<1>5. CASE Renew(c)
  BY <1>1, <1>5 DEF Renew, Opened
<1>6. CASE Rejected(c)
  BY <1>0, <1>6, FailureEnds DEF Rejected, Opened
<1>7. CASE Save(c)
  <2>1. CASE To(c, "seeding") /\ Kind(c) = "signIn"
    BY <1>1, <1>7, <2>1 DEF Save, Requests
  <2>2. CASE \E s \in {"storing", "publishing", "adopting"} : To(c, s)
    <3>1. pc[c] \in Opened /\ UNCHANGED <<cache, tries>>
      BY <1>7 DEF Save, Opened
    <3>. QED  BY <1>1, <2>2, <3>1 DEF Opened
  <2>. QED  BY <1>7, <2>1, <2>2 DEF Save
<1>8. CASE EndDisconnect(c)
  BY <1>1, <1>8 DEF EndDisconnect, Return
<1>. QED  BY <1>2, <1>3, <1>4, <1>5, <1>6, <1>7, <1>8

LEMMA PacedDisturbs ==
  ASSUME TypeOK, ServeInv, PaceInv, Disturb
  PROVE  PaceInv'
<1>. USE DEF Rest, Service, Fault
<1>t. /\ cache \in [Processes -> CacheType] /\ tries \in [Processes -> {0, 1}]
      /\ \A c \in Calls : Process(c) \in Processes
  BY WorkTypes, TypeParts DEF CallTypes, PaceInv
<1>1. ASSUME NEW c \in Calls, Fail(c) PROVE PaceInv'
  BY <1>1, FailureEnds DEF Fail, Opened
<1>2. ASSUME NEW c \in Calls, Abandon(c) PROVE PaceInv'
  <2>1. To(c, "done") /\ "done" \notin Opened \cup {"reading", "deciding"}
    BY <1>2 DEF Abandon, Return, Opened
  <2>. QED  BY <1>2, <2>1, PaceStands, NotPaced, StepPaces DEF Abandon
<1>3. ASSUME NEW p \in Processes, work' = work,
             \A c \in Calls : pc'[c] = pc[c] \/ pc'[c] = "done",
             tries' = [tries EXCEPT ![p] = 0],
             \A q \in Processes \ {p} : cache'[q] = cache[q],
             ~cache'[p].failed
      PROVE  PaceInv'
  <2>1. ASSUME NEW c \in Calls PROVE Paced(c)'
    <3>1. Kind(c)' = Kind(c) /\ Process(c)' = Process(c)
      BY <1>3 DEF Kind, Process
    <3>2. CASE pc'[c] = "done"
      BY <3>2 DEF Paced, Opened
    <3>3. CASE pc'[c] = pc[c] /\ Process(c) = p
      BY <1>t, <1>3, <3>1, <3>3 DEF Paced, Mine
    <3>4. CASE pc'[c] = pc[c] /\ Process(c) # p
      BY <1>t, <1>3, <3>1, <3>4 DEF Paced, Mine, PaceInv
    <3>. QED  BY <1>3, <3>2, <3>3, <3>4
  <2>2. \A q \in Processes : tries'[q] = 1 => cache'[q].failed
    BY <1>t, <1>3 DEF PaceInv
  <2>. QED  BY <1>t, <1>3, <2>1, <2>2 DEF PaceInv
<1>4. ASSUME NEW p \in Processes, Crash(p) PROVE PaceInv'
  <2>1. ~cache'[p].failed /\ \A q \in Processes \ {p} : cache'[q] = cache[q]
    BY <1>t, <1>4 DEF Crash, EmptyCache
  <2>. QED  BY <1>3, <1>4, <2>1 DEF Crash
<1>5. ASSUME NEW p \in Processes, Elapse(p) PROVE PaceInv'
  <2>1. ~cache'[p].failed /\ \A q \in Processes \ {p} : cache'[q] = cache[q]
    BY <1>t, <1>5 DEF Elapse, CacheType
  <2>. QED  BY <1>3, <1>5, <2>1 DEF Elapse
<1>6. ASSUME UNCHANGED <<work, pc, cache, tries>> PROVE PaceInv'
  BY <1>6 DEF PaceInv, Paced, Kind, Process, Mine
<1>7. CASE LoseIndex
  BY <1>6, <1>7 DEF LoseIndex
<1>8. ASSUME NEW v \in 1..issued, Expire(v) PROVE PaceInv'
  BY <1>6, <1>8 DEF Expire
<1>. QED  BY <1>1, <1>2, <1>4, <1>5, <1>7, <1>8 DEF Disturb

LEMMA PaceStart == Init => PaceInv
<1>. SUFFICES ASSUME Init PROVE PaceInv
  OBVIOUS
<1>1. \A c \in Calls : Paced(c)
  BY DEF Init, Paced, Opened
<1>. QED  BY <1>1 DEF Init, PaceInv

\* For any accounts, processes, calls, failures and expiries: under one
\* back-off the automatic requests of a process open a failing store once,
\* and an explicit request never works under a back-off (Entry and
\* FAILURE_BACKOFF of auth/cache.rs).
THEOREM BackoffHolds == Spec => []BackoffPaces
<1>1. TypeOK /\ ServeInv /\ PaceInv /\ [Next]_vars => PaceInv'
  <2>. SUFFICES ASSUME TypeOK, ServeInv, PaceInv, [Next]_vars PROVE PaceInv'
    OBVIOUS
  <2>1. CASE UNCHANGED vars
    BY <2>1 DEF vars, storeVars, cacheVars, PaceInv, Paced, Kind, Process, Mine
  <2>2. ASSUME NEW c \in Calls, Step(c) PROVE PaceInv'
    BY <2>2, PacedCalls, PacedDecision, PacedStore DEF Step
  <2>3. CASE Disturb
    BY <2>3, PacedDisturbs
  <2>. QED  BY <2>1, <2>2, <2>3 DEF Next
<1>2. PaceInv => BackoffPaces
  BY DEF PaceInv, Paced, BackoffPaces
<1>. QED  BY <1>1, <1>2, PaceStart, TypeCorrect, ServeInvHolds, PTL DEF Spec

-----------------------------------------------------------------------------
(***************************************************************************)
(* The fifth theorem: what the vault holds can be renewed.  A version that *)
(* the service has issued and the vault does not hold yet is in the hand   *)
(* of one call, and only the owner of the lock makes a stored one useless. *)
(***************************************************************************)
\* The version of c is issued and not yet in the vault.
Waits(c) ==
  \/ Kind(c) = "signIn" /\ pc[c] \in {"loading", "saving", "storing"}
  \/ Kind(c) \in Requests /\ pc[c] \in {"saving", "storing"}

Pending(c) ==
  Waits(c) =>
    /\ token[c] \in renewable /\ token[c] \in 1..issued
    /\ \A a \in Accounts : vault[a] # token[c]
    /\ \A d \in Calls : d # c /\ Waits(d) => token[d] # token[c]

\* What c will keep differs from the vault in its own account only.
Drafted(c) ==
  /\ pc[c] = "renewing" => copy[c].vault = vault
  /\ pc[c] \in {"saving", "storing"} =>
       copy[c].vault =
         [vault EXCEPT ![Account(c)] = IF Kind(c) = "disconnect" THEN 0
                                                                ELSE token[c]]

Placed(c) ==
  /\ pc[c] = "renewing" => Kind(c) \in Requests
  /\ pc[c] \in {"saving", "storing", "publishing"}
       => Kind(c) \in Requests \cup {"signIn", "disconnect"}
  /\ lock = c => pc[c] \in Held

Distinct ==
  /\ \A a \in Accounts : vault[a] \in 0..issued
  /\ \A a, b \in Accounts : vault[a] = vault[b] /\ a # b => vault[a] = 0

\* The account whose version is being replaced.
Replaced ==
  {a \in Accounts : \E c \in Calls : /\ lock = c /\ a = Account(c)
                                     /\ pc[c] \in {"saving", "storing"}}

RenewInv ==
  /\ Distinct
  /\ \A c \in Calls : Pending(c) /\ Drafted(c) /\ Placed(c)
  /\ Stranded \subseteq lost \cup Replaced

-----------------------------------------------------------------------------
LEMMA RenewTypes ==
  ASSUME TypeOK
  PROVE  /\ vault \in [Accounts -> Nat] /\ token \in [Calls -> Nat]
         /\ issued \in Nat /\ copy \in [Calls -> CopyType]
         /\ pc \in [Calls -> Places]
         /\ \A c \in Calls : Account(c) \in Accounts
  BY WorkTypes, TypeParts DEF CallTypes, StoreTypes

LEMMA RenewParts ==
  ASSUME RenewInv, NEW c \in Calls
  PROVE  Pending(c) /\ Drafted(c) /\ Placed(c)
  BY DEF RenewInv

\* A call away from the vault does not have the lock, and one at it does.
LEMMA LockPlaces ==
  ASSUME LockInv, RenewInv, NEW c \in Calls
  PROVE  pc[c] \in Held <=> lock = c
  BY DEF LockInv, RenewInv, Placed

\* No version is made useless but the one of an account that is replaced.
LEMMA StrandedGrows ==
  ASSUME TypeOK, RenewInv, NEW c \in Calls, vault' = vault,
         renewable \ {vault[Account(c)]} \subseteq renewable'
  PROVE  Stranded' \subseteq Stranded \cup {Account(c)}
<1>. SUFFICES ASSUME NEW a \in Accounts, a \in Stranded', a # Account(c)
     PROVE  a \in Stranded
  BY DEF Stranded
<1>1. vault[a] # 0 /\ vault[a] \notin renewable'
  BY DEF Stranded
<1>2. vault[a] # vault[Account(c)]
  BY <1>1, RenewTypes DEF RenewInv, Distinct
<1>. QED  BY <1>1, <1>2 DEF Stranded

LEMMA PendingKept ==
  ASSUME TypeOK, RenewInv, NEW c \in Calls,
         UNCHANGED <<token, vault, issued, work>>,
         renewable \ {vault[Account(c)]} \subseteq renewable',
         \A d \in Calls : Waits(d)' => Waits(d)
  PROVE  \A d \in Calls : Pending(d)'
<1>. TAKE d \in Calls
<1>1. CASE Waits(d)
  <2>1. /\ token[d] \in renewable /\ token[d] \in 1..issued
        /\ \A a \in Accounts : vault[a] # token[d]
        /\ \A e \in Calls : e # d /\ Waits(e) => token[e] # token[d]
    BY <1>1, RenewParts DEF Pending
  <2>2. token[d] \in renewable'
    BY <2>1, RenewTypes
  <2>. QED  BY <2>1, <2>2 DEF Pending
<1>2. CASE ~Waits(d)
  BY <1>2 DEF Pending
<1>. QED  BY <1>1, <1>2

\* A version that is drawn is a new one.
LEMMA PendingDrawn ==
  ASSUME TypeOK, RenewInv, NEW c \in Calls, UNCHANGED <<vault, work>>,
         token' = [token EXCEPT ![c] = issued + 1], issued' = issued + 1,
         (renewable \ {vault[Account(c)]}) \cup {issued + 1} \subseteq renewable',
         \A d \in Calls \ {c} : Waits(d)' => Waits(d)
  PROVE  \A d \in Calls : Pending(d)'
<1>. TAKE d \in Calls
<1>1. /\ token'[c] = issued + 1 /\ \A e \in Calls \ {c} : token'[e] = token[e]
      /\ issued \in Nat
  BY RenewTypes
<1>2. \A e \in Calls \ {c} : Waits(e)' =>
        /\ token[e] \in renewable /\ token[e] \in 1..issued
        /\ \A a \in Accounts : vault[a] # token[e]
        /\ \A f \in Calls : f # e /\ Waits(f) => token[f] # token[e]
  BY RenewParts DEF Pending
<1>3. CASE d = c
  <2>1. \A a \in Accounts : vault[a] # issued + 1
    BY <1>1 DEF RenewInv, Distinct
  <2>2. \A e \in Calls \ {c} : Waits(e)' => token'[e] # issued + 1
    BY <1>1, <1>2
  <2>. QED  BY <1>1, <1>3, <2>1, <2>2 DEF Pending
<1>4. CASE d # c /\ Waits(d)'
  <2>1. token'[d] = token[d] /\ token[d] \in 1..issued
    BY <1>1, <1>2, <1>4
  <2>2. token[d] \in renewable' /\ token[d] \in 1..issued'
    BY <1>1, <1>2, <1>4, RenewTypes
  <2>3. \A e \in Calls : e # d /\ Waits(e)' => token'[e] # token[d]
    BY <1>1, <1>2, <1>4, <2>1
  <2>. QED  BY <1>2, <1>4, <2>1, <2>2, <2>3 DEF Pending
<1>5. CASE ~Waits(d)'
  BY <1>5 DEF Pending
<1>. QED  BY <1>3, <1>4, <1>5

\* The other calls while c has the lock, or takes it.
LEMMA OthersWait ==
  ASSUME TypeOK, LockInv, NEW c \in Calls, lock \in {c, NoCall},
         \A d \in Calls \ {c} : pc'[d] = pc[d]
  PROVE  /\ \A d \in Calls \ {c} : pc[d] \notin Held /\ pc'[d] \notin Held
         /\ \A d \in Calls \ {c} : Drafted(d)'
         /\ Replaced \subseteq
              IF pc[c] \in {"saving", "storing"} THEN {Account(c)} ELSE {}
<1>1. \A d \in Calls \ {c} : pc[d] \notin Held
  BY NoCallAssumption DEF LockInv
<1>. QED  BY <1>1, NoCallAssumption DEF Drafted, Held, Writing, Replaced

\* A step after which c does not have the lock, and makes nothing useless.
LEMMA QuietRenews ==
  ASSUME TypeOK, LockInv, RenewInv, NEW c \in Calls,
         UNCHANGED <<work, token, vault, issued, renewable>>,
         lost \subseteq lost', lock' = Unlocked(c),
         \A d \in Calls \ {c} : pc'[d] = pc[d] /\ copy'[d] = copy[d],
         pc'[c] \notin Held, pc'[c] = "loading" => Kind(c) # "signIn",
         pc[c] \in {"saving", "storing"} => Stranded \subseteq lost'
  PROVE  RenewInv'
<1>1. \A d \in Calls : Kind(d)' = Kind(d) /\ Account(d)' = Account(d)
  BY DEF Kind, Account
<1>2. \A d \in Calls : Waits(d)' => Waits(d)
  BY <1>1 DEF Waits, Held, Writing
<1>3. \A d \in Calls : Pending(d)'
  BY <1>2, PendingKept
<1>4. Stranded' = Stranded
  BY DEF Stranded
<1>5. ASSUME NEW d \in Calls PROVE Drafted(d)' /\ Placed(d)'
  <2>1. CASE d = c
    <3>1. lock' # c
      BY NoCallAssumption DEF Unlocked
    <3>. QED  BY <2>1, <3>1 DEF Drafted, Placed, Held, Writing
  <2>2. CASE d # c
    <3>1. lock' = d => lock = d
      BY NoCallAssumption DEF Unlocked
    <3>. QED  BY <1>1, <2>2, <3>1, RenewParts DEF Drafted, Placed
  <2>. QED  BY <2>1, <2>2
<1>6. Stranded \subseteq lost' \cup Replaced'
  <2>1. CASE pc[c] \in {"saving", "storing"}
    BY <2>1
  <2>2. CASE pc[c] \notin {"saving", "storing"}
    <3>1. ASSUME NEW a \in Replaced PROVE a \in Replaced'
      <4>1. PICK d \in Calls : /\ lock = d /\ a = Account(d)
                               /\ pc[d] \in {"saving", "storing"}
        BY DEF Replaced
      <4>2. d # c /\ lock' = d
        BY <2>2, <4>1 DEF Unlocked
      <4>. QED  BY <1>1, <4>1, <4>2 DEF Replaced
    <3>. QED  BY <3>1 DEF RenewInv
  <2>. QED  BY <2>1, <2>2
<1>7. Distinct'
  BY DEF RenewInv, Distinct
<1>. QED  BY <1>3, <1>4, <1>5, <1>6, <1>7 DEF RenewInv

\* A step after which c has the lock.
LEMMA OwnerRenews ==
  ASSUME TypeOK, LockInv, RenewInv, NEW c \in Calls, work' = work,
         lock \in {c, NoCall}, lock' = c,
         \A d \in Calls \ {c} : pc'[d] = pc[d],
         pc'[c] \in Held, Kind(c) \in Requests \cup {"signIn", "disconnect"},
         pc'[c] = "renewing" => Kind(c) \in Requests,
         Drafted(c)', Distinct', \A d \in Calls : Pending(d)', lost' = lost,
         Stranded' \subseteq lost \cup
           IF pc'[c] \in {"saving", "storing"} THEN {Account(c)} ELSE {}
  PROVE  RenewInv'
<1>1. ASSUME NEW d \in Calls \ {c} PROVE Drafted(d)' /\ Placed(d)'
  <2>1. Drafted(d)' /\ pc'[d] \notin Held
    BY OthersWait
  <2>. QED  BY <2>1 DEF Placed, Held, Writing
<1>2. Placed(c)' /\ Account(c)' = Account(c)
  BY DEF Placed, Kind, Account
<1>3. pc'[c] \in {"saving", "storing"} => Account(c) \in Replaced'
  BY <1>2, RenewTypes DEF Replaced
<1>. QED  BY <1>1, <1>2, <1>3 DEF RenewInv


LEMMA MovesOne ==
  ASSUME TypeOK, NEW c \in Calls, NEW s, To(c, s)
  PROVE  pc'[c] = s /\ \A d \in Calls \ {c} : pc'[d] = pc[d]
  BY RenewTypes DEF To

LEMMA RenewCalls ==
  ASSUME TypeOK, TokenInv, RenewInv, NEW c \in Calls,
         \/ Begin(c) \/ Enter(c) \/ Read(c) \/ SeedSaved(c) \/ ServeCached(c)
         \/ Decide(c) \/ AdoptRenewed(c) \/ Busy(c)
  PROVE  RenewInv'
<1>. USE DEF At, Rest, Service, Return, storeVars
<1>0. /\ LockInv /\ PlaceInv /\ UNCHANGED <<work, vault, copy, lock, lost>>
      /\ pc[c] \notin Held /\ lock' = Unlocked(c)
  <2>1. /\ UNCHANGED <<work, vault, copy, lock, lost>> /\ pc[c] \notin Held
    BY DEF Begin, Enter, Read, SeedSaved, ServeCached, Decide, AdoptRenewed,
           Busy, Held, Writing
  <2>. QED  BY <2>1, LockPlaces DEF TokenInv, Unlocked
<1>1. ASSUME NEW s \in {"waiting", "reading", "deciding", "loading", "done"},
             To(c, s), s = "loading" => Kind(c) # "signIn",
             UNCHANGED <<token, issued, renewable>>
      PROVE  RenewInv'
  <2>1. pc'[c] = s /\ s \notin Held
    BY <1>1, MovesOne DEF Held, Writing
  <2>2. pc[c] \notin {"saving", "storing"}
    BY <1>0 DEF Held, Writing
  <2>. QED  BY <1>0, <1>1, <2>1, <2>2, MovesOne, QuietRenews
<1>2. CASE Begin(c)
  <2>1. CASE Kind(c) = "signIn"
    <3>1. /\ token' = [token EXCEPT ![c] = issued + 1] /\ issued' = issued + 1
          /\ renewable' = renewable \cup {issued + 1}
          /\ To(c, "loading") /\ pc[c] = "start"
      BY <1>2, <2>1 DEF Begin
    <3>2. pc'[c] = "loading" /\ \A d \in Calls \ {c} : pc'[d] = pc[d]
      BY <3>1, MovesOne
    <3>3. \A d \in Calls : Kind(d)' = Kind(d) /\ Account(d)' = Account(d)
      BY <1>0 DEF Kind, Account
    <3>4. \A d \in Calls : Pending(d)'
      BY <1>0, <3>1, <3>2, <3>3, PendingDrawn DEF Waits
    <3>5. \A d \in Calls : Drafted(d)' /\ Placed(d)'
      <4>1. lock # c
        BY <1>0, LockPlaces
      <4>2. \A d \in Calls \ {c} : token'[d] = token[d]
        BY <3>1, RenewTypes
      <4>. QED  BY <1>0, <3>2, <3>3, <4>1, <4>2, RenewParts
                DEF Drafted, Placed
    <3>6. Stranded' \subseteq Stranded
      BY <1>0, <3>1 DEF Stranded
    <3>7. Replaced \subseteq Replaced'
      BY <1>0, <3>1, <3>2, <3>3 DEF Replaced
    <3>8. Distinct'
      BY <1>0, <3>1, RenewTypes DEF RenewInv, Distinct
    <3>. QED  BY <1>0, <3>4, <3>5, <3>6, <3>7, <3>8 DEF RenewInv
  <2>2. CASE Kind(c) # "signIn"
    <3>1. /\ UNCHANGED <<token, issued, renewable>>
          /\ \E s \in {"waiting", "reading", "loading", "done"} : To(c, s)
      BY <1>2, <2>2 DEF Begin
    <3>. QED  BY <1>1, <2>2, <3>1
  <2>. QED  BY <2>1, <2>2
<1>3. CASE Enter(c)
  <2>1. /\ UNCHANGED <<token, issued, renewable>>
        /\ To(c, "reading") \/ (To(c, "loading") /\ Kind(c) # "signIn")
    BY <1>3 DEF Enter
  <2>. QED  BY <1>1, <2>1
<1>4. CASE Decide(c)
  <2>1. /\ UNCHANGED <<token, issued, renewable>> /\ Kind(c) # "signIn"
        /\ To(c, "done") \/ To(c, "loading")
    BY <1>4 DEF Decide, Requests
  <2>. QED  BY <1>1, <2>1
<1>5. CASE Read(c) \/ SeedSaved(c) \/ ServeCached(c) \/ AdoptRenewed(c) \/ Busy(c)
  <2>1. /\ UNCHANGED <<token, issued, renewable>>
        /\ To(c, "deciding") \/ To(c, "done")
    BY <1>5 DEF Read, SeedSaved, ServeCached, AdoptRenewed, Adopt, Busy
  <2>. QED  BY <1>1, <2>1
<1>. QED  BY <1>2, <1>3, <1>4, <1>5

LEMMA RenewLoads ==
  ASSUME TypeOK, TokenInv, RenewInv, NEW c \in Calls,
         \/ LoadRequest(c) \/ LoadStatus(c) \/ LoadSignIn(c)
         \/ LoadDisconnect(c)
  PROVE  RenewInv'
<1>. USE DEF At, Rest, Service, Return
<1>0. /\ LockInv /\ UNCHANGED <<work, vault, lost, token, issued>>
      /\ pc[c] = "loading" /\ lock = NoCall /\ c # NoCall
      /\ Kind(c)' = Kind(c) /\ Account(c)' = Account(c)
      /\ \E v : Hold(c, v)
  BY NoCallAssumption
     DEF TokenInv, LoadRequest, LoadStatus, LoadSignIn, LoadDisconnect,
         LoadLocked, RefreshLocked, Kind, Account
<1>1. /\ \A d \in Calls \ {c} : copy'[d] = copy[d]
      /\ Stranded \subseteq lost /\ Distinct'
  <2>1. Replaced \subseteq {}
    BY <1>0, NoCallAssumption DEF Replaced
  <2>. QED  BY <1>0, <2>1, HoldsItsOwn DEF RenewInv, Distinct
<1>2. ASSUME To(c, "done"), lock' = NoCall, renewable' = renewable
      PROVE  RenewInv'
  <2>1. pc'[c] = "done" /\ "done" \notin Held /\ lock' = Unlocked(c)
    BY <1>0, <1>2, MovesOne DEF Held, Writing, Unlocked
  <2>. QED  BY <1>0, <1>1, <1>2, <2>1, MovesOne, QuietRenews
<1>3. CASE LoadRequest(c)
  <2>1. LoadLocked(c, vault[Account(c)] # 0 /\ ~Fresh(vault[Account(c)]))
    BY <1>3 DEF LoadRequest
  <2>2. CASE vault[Account(c)] = 0 \/ Fresh(vault[Account(c)])
    BY <1>2, <1>3, <2>1, <2>2 DEF LoadRequest, LoadLocked, Adopt, Fresh
  <2>3. CASE vault[Account(c)] # 0 /\ ~Fresh(vault[Account(c)])
    <3>1. /\ lock' = c /\ To(c, "renewing") /\ Kind(c) \in Requests
          /\ renewable' = renewable /\ Hold(c, vault)
      BY <1>3, <2>1, <2>3 DEF LoadRequest, LoadLocked, Adopt, Fresh
    <3>2. pc'[c] = "renewing" /\ \A d \in Calls \ {c} : pc'[d] = pc[d]
      BY <3>1, MovesOne
    <3>3. copy'[c].vault = vault
      BY <3>1, RenewTypes DEF Hold
    <3>4. Drafted(c)'
      BY <1>0, <3>2, <3>3 DEF Drafted
    <3>5. \A d \in Calls : Pending(d)'
      <4>1. \A d \in Calls : Waits(d)' => Waits(d)
        BY <1>0, <3>2 DEF Waits, Kind
      <4>. QED  BY <1>0, <3>1, <4>1, PendingKept
    <3>6. Stranded' \subseteq lost
      BY <1>0, <1>1, <3>1 DEF Stranded
    <3>. QED  BY <1>0, <1>1, <3>1, <3>2, <3>4, <3>5, <3>6, OwnerRenews
              DEF Held
  <2>. QED  BY <2>2, <2>3
<1>4. CASE LoadStatus(c)
  BY <1>0, <1>2, <1>4 DEF LoadStatus, RefreshLocked
<1>5. CASE LoadSignIn(c) \/ LoadDisconnect(c)
  <2>1. /\ lock' = c /\ To(c, "saving") /\ Kind(c) \in {"signIn", "disconnect"}
        /\ renewable \ {vault[Account(c)]} \subseteq renewable'
        /\ Hold(c, [vault EXCEPT ![Account(c)] = IF Kind(c) = "disconnect"
                                                   THEN 0 ELSE token[c]])
    BY <1>5 DEF LoadSignIn, LoadDisconnect, LoadLocked
  <2>2. pc'[c] = "saving" /\ \A d \in Calls \ {c} : pc'[d] = pc[d]
    BY <2>1, MovesOne
  <2>3. copy'[c].vault = [vault EXCEPT ![Account(c)] =
                            IF Kind(c) = "disconnect" THEN 0 ELSE token[c]]
    BY <2>1, RenewTypes DEF Hold
  <2>4. Drafted(c)'
    BY <1>0, <2>2, <2>3 DEF Drafted
  <2>5. \A d \in Calls : Pending(d)'
    <3>1. \A d \in Calls : Waits(d)' => Waits(d)
      BY <1>0, <2>1, <2>2 DEF Waits, Kind, Requests
    <3>. QED  BY <1>0, <2>1, <3>1, PendingKept
  <2>6. Stranded' \subseteq lost \cup {Account(c)}
    BY <1>0, <1>1, <2>1, StrandedGrows
  <2>. QED  BY <1>0, <1>1, <2>1, <2>2, <2>4, <2>5, <2>6, OwnerRenews
            DEF Held, Requests
<1>. QED  BY <1>3, <1>4, <1>5

LEMMA RenewRenews ==
  ASSUME TypeOK, TokenInv, RenewInv, NEW c \in Calls, Renew(c)
  PROVE  RenewInv'
<1>0. /\ LockInv /\ pc[c] = "renewing" /\ Kind(c) \in Requests /\ lock = c
      /\ UNCHANGED <<work, lock, vault, lost>>
      /\ Kind(c)' = Kind(c) /\ Account(c)' = Account(c)
      /\ issued' = issued + 1 /\ token' = [token EXCEPT ![c] = issued + 1]
      /\ renewable' = (renewable \ {vault[Account(c)]}) \cup {issued + 1}
      /\ To(c, "saving")
  BY RenewParts DEF TokenInv, Renew, At, Rest, LockInv, Held, Placed, Kind, Account
<1>1. pc'[c] = "saving" /\ \A d \in Calls \ {c} : pc'[d] = pc[d]
  BY <1>0, MovesOne
<1>2. Drafted(c)'
  <2>1. copy[c].vault = vault /\ copy[c] \in CopyType /\ Account(c) \in Accounts
    BY <1>0, RenewParts, RenewTypes DEF Drafted
  <2>2. copy'[c].vault = [vault EXCEPT ![Account(c)] = issued + 1]
    BY <2>1, RenewTypes DEF Renew, CopyType
  <2>3. token'[c] = issued + 1
    BY <1>0, RenewTypes
  <2>. QED  BY <1>0, <1>1, <2>2, <2>3 DEF Drafted, Requests
<1>3. \A d \in Calls : Pending(d)'
  <2>1. \A d \in Calls \ {c} : Waits(d)' => Waits(d)
    BY <1>0, <1>1 DEF Waits, Kind
  <2>. QED  BY <1>0, <2>1, PendingDrawn
<1>4. Stranded' \subseteq lost \cup {Account(c)}
  <2>1. Replaced \subseteq {}
    BY <1>0 DEF Replaced
  <2>. QED  BY <1>0, <2>1, StrandedGrows DEF RenewInv
<1>5. Distinct'
  BY <1>0, RenewTypes DEF RenewInv, Distinct
<1>. QED  BY <1>0, <1>1, <1>2, <1>3, <1>4, <1>5, OwnerRenews DEF Held

LEMMA RenewSaves ==
  ASSUME TypeOK, TokenInv, RenewInv, NEW c \in Calls, Save(c),
         pc[c] \in {"saving", "storing"}
  PROVE  RenewInv'
<1>. USE DEF At, Rest, Service
<1>0. /\ LockInv /\ lock = c /\ Kind(c) \in Requests \cup {"signIn", "disconnect"}
      /\ UNCHANGED <<work, lock, token, issued, renewable, lost>>
      /\ Kind(c)' = Kind(c) /\ Account(c)' = Account(c)
  BY RenewParts
     DEF TokenInv, Save, Invalidate, Keep, LockInv, Held, Writing, Placed, Kind, Account
<1>d. copy[c].vault = [vault EXCEPT ![Account(c)] =
                         IF Kind(c) = "disconnect" THEN 0 ELSE token[c]]
  BY RenewParts DEF Drafted
<1>r. Stranded \subseteq lost \cup {Account(c)}
  <2>1. Replaced \subseteq {Account(c)}
    BY <1>0 DEF Replaced
  <2>. QED  BY <2>1 DEF RenewInv
<1>1. CASE pc[c] = "saving"
  <2>1. /\ vault' = vault /\ copy' = [copy EXCEPT ![c].gen = gens + 1]
        /\ To(c, "storing")
    BY <1>1 DEF Save, Invalidate
  <2>2. pc'[c] = "storing" /\ \A d \in Calls \ {c} : pc'[d] = pc[d]
    BY <2>1, MovesOne
  <2>3. copy'[c].vault = copy[c].vault
    BY <2>1, RenewTypes DEF CopyType
  <2>4. Drafted(c)'
    BY <1>0, <1>d, <2>1, <2>2, <2>3 DEF Drafted
  <2>5. \A d \in Calls : Pending(d)'
    <3>1. \A d \in Calls : Waits(d)' => Waits(d)
      BY <1>0, <1>1, <2>2 DEF Waits, Kind
    <3>. QED  BY <1>0, <2>1, <3>1, PendingKept
  <2>6. Stranded' = Stranded /\ Distinct'
    BY <1>0, <2>1 DEF Stranded, RenewInv, Distinct
  <2>. QED  BY <1>0, <1>r, <2>1, <2>2, <2>4, <2>5, <2>6, OwnerRenews
            DEF Held, Writing
<1>2. CASE pc[c] = "storing"
  <2>. DEFINE n == IF Kind(c) = "disconnect" THEN 0 ELSE token[c]
  <2>1. vault' = [vault EXCEPT ![Account(c)] = n] /\ To(c, "publishing")
    BY <1>2, <1>d DEF Save, Keep
  <2>2. pc'[c] = "publishing" /\ \A d \in Calls \ {c} : pc'[d] = pc[d]
    BY <2>1, MovesOne
  <2>3. /\ vault'[Account(c)] = n
        /\ \A a \in Accounts \ {Account(c)} : vault'[a] = vault[a]
    BY <2>1, RenewTypes
  <2>4. \/ n = 0
        \/ /\ n \in renewable /\ n \in 1..issued
           /\ \A a \in Accounts : vault[a] # n
           /\ \A d \in Calls : d # c /\ Waits(d) => token[d] # n
    BY <1>0, <1>2, RenewParts DEF Pending, Waits
  <2>. HIDE DEF n
  <2>5. Distinct'
    <3>1. \A a \in Accounts : vault'[a] \in 0..issued
      BY <1>0, <2>3, <2>4, RenewTypes DEF RenewInv, Distinct
    <3>2. \A a, b \in Accounts : vault'[a] = vault'[b] /\ a # b => vault'[a] = 0
      BY <2>3, <2>4 DEF RenewInv, Distinct
    <3>. QED  BY <1>0, <3>1, <3>2 DEF Distinct
  <2>6. ASSUME NEW d \in Calls PROVE Pending(d)'
    <3>1. Waits(d)' => d # c /\ Waits(d)
      BY <1>0, <2>2 DEF Waits, Kind
    <3>2. Waits(d)' => /\ token[d] \in renewable /\ token[d] \in 1..issued
                       /\ \A a \in Accounts : vault[a] # token[d]
                       /\ \A e \in Calls : e # d /\ Waits(e) => token[e] # token[d]
      BY <3>1, RenewParts DEF Pending
    <3>3. \A e \in Calls : Waits(e)' => Waits(e)
      BY <1>0, <1>2, <2>2 DEF Waits, Kind
    <3>4. Waits(d)' => \A a \in Accounts : vault'[a] # token[d]
      <4>1. Waits(d)' => n # token[d]
        BY <2>4, <3>1, <3>2
      <4>. QED  BY <2>3, <3>2, <4>1
    <3>. QED  BY <1>0, <3>2, <3>3, <3>4 DEF Pending
  <2>7. Stranded' \subseteq lost
    <3>1. \A a \in Stranded' : a # Account(c) /\ a \in Stranded
      BY <1>0, <2>3, <2>4 DEF Stranded
    <3>. QED  BY <1>r, <3>1
  <2>8. Drafted(c)'
    BY <2>2 DEF Drafted
  <2>. QED  BY <1>0, <2>2, <2>5, <2>6, <2>7, <2>8, OwnerRenews
            DEF Held, Writing
<1>. QED  BY <1>1, <1>2


LEMMA RenewEnds ==
  ASSUME TypeOK, TokenInv, RenewInv, NEW c \in Calls,
         \/ Rejected(c) \/ EndDisconnect(c)
         \/ Save(c) /\ pc[c] = "publishing"
         \/ Fail(c) \/ Abandon(c)
  PROVE  RenewInv'
<1>. USE DEF At, Rest, Service, Return
<1>0. /\ LockInv
      /\ UNCHANGED <<work, token, vault, issued, renewable, copy>>
      /\ lost \subseteq lost'
  BY DEF TokenInv, Rejected, EndDisconnect, Save, Publish, Fail, Abandon
<1>1. \E s \in {"done", "adopting", "seeding"} : To(c, s)
  BY DEF Rejected, EndDisconnect, Save, Fail, Abandon
<1>2. /\ pc'[c] \in {"done", "adopting", "seeding"}
      /\ \A d \in Calls \ {c} : pc'[d] = pc[d]
  BY <1>1, MovesOne
<1>3. pc'[c] \notin Held /\ pc'[c] # "loading"
  BY <1>2 DEF Held, Writing
<1>4. lock' = Unlocked(c)
  <2>1. CASE Rejected(c) \/ Fail(c) \/ Abandon(c)
    BY <2>1 DEF Rejected, Fail, Abandon
  <2>2. CASE EndDisconnect(c) \/ (Save(c) /\ pc[c] = "publishing")
    <3>1. pc[c] \in Held /\ lock' = NoCall
      BY <2>2 DEF EndDisconnect, Save, Publish, Held, Writing
    <3>. QED  BY <1>0, <3>1 DEF LockInv, Unlocked
  <2>. QED  BY <2>1, <2>2
<1>5. pc[c] \in {"saving", "storing"} => Stranded \subseteq lost'
  <2>1. CASE Fail(c)
    BY <2>1 DEF Fail
  <2>2. CASE Abandon(c)
    <3>1. Kind(c) \notin Requests \cup {"disconnect"}
             /\ (Kind(c) = "signIn" => pc[c] = "loading")
      BY <2>2 DEF Abandon, Detached
    <3>. QED  BY <3>1, RenewParts DEF Placed
  <2>3. CASE Rejected(c) \/ EndDisconnect(c) \/ (Save(c) /\ pc[c] = "publishing")
    BY <2>3 DEF Rejected, EndDisconnect
  <2>. QED  BY <2>1, <2>2, <2>3
<1>. QED  BY <1>0, <1>2, <1>3, <1>4, <1>5, QuietRenews

\* What leaves the vault, its versions and the versions under way alone.
LEMMA RenewStands ==
  ASSUME RenewInv,
         UNCHANGED <<lock, vault, copy, work, pc, token, issued, renewable, lost>>
  PROVE  RenewInv'
<1>1. /\ \A c \in Calls : Kind(c)' = Kind(c) /\ Account(c)' = Account(c)
      /\ \A c \in Calls : Waits(c)' = Waits(c)
  BY DEF Kind, Account, Waits
<1>2. ASSUME NEW c \in Calls PROVE Pending(c)' /\ Drafted(c)' /\ Placed(c)'
  BY <1>1, RenewParts DEF Pending, Drafted, Placed
<1>3. Distinct' /\ Stranded' = Stranded /\ Replaced' = Replaced
  BY <1>1 DEF RenewInv, Distinct, Stranded, Replaced
<1>. QED  BY <1>2, <1>3 DEF RenewInv

LEMMA RenewCrash ==
  ASSUME TypeOK, TokenInv, RenewInv, NEW p \in Processes, Crash(p)
  PROVE  RenewInv'
<1>1. /\ UNCHANGED <<work, vault, copy, token, issued, renewable>>
      /\ lost' = lost \cup Stranded
      /\ \A c \in Calls :
           \/ pc'[c] = pc[c] /\ (Process(c) # p \/ pc[c] = "start")
           \/ pc'[c] = "done"
      /\ lock' = IF lock # NoCall /\ Process(lock) = p THEN NoCall ELSE lock
  BY DEF Crash
<1>2. \A c \in Calls : Kind(c)' = Kind(c) /\ Account(c)' = Account(c)
  BY <1>1 DEF Kind, Account
<1>3. ASSUME NEW c \in Calls PROVE Pending(c)'
  <2>1. \A d \in Calls : Waits(d)' => Waits(d)
    BY <1>1, <1>2 DEF Waits
  <2>. QED  BY <1>1, <2>1, RenewParts DEF Pending
<1>4. ASSUME NEW c \in Calls PROVE Drafted(c)' /\ Placed(c)'
  <2>1. lock' = c => lock = c /\ Process(c) # p
    BY <1>1, NoCallAssumption
  <2>2. lock' = c => pc'[c] \in Held
    <3>1. lock' = c => pc[c] \in Held /\ pc[c] # "start" /\ Process(c) # p
      BY <2>1, LockPlaces DEF TokenInv, Held, Writing
    <3>2. Process(c) # p /\ pc[c] # "start" => pc'[c] = pc[c]
      BY DEF Crash
    <3>. QED  BY <3>1, <3>2
  <2>. QED  BY <1>1, <1>2, <2>2, RenewParts DEF Drafted, Placed
<1>5. Distinct' /\ Stranded' = Stranded
  BY <1>1 DEF RenewInv, Distinct, Stranded
<1>. QED  BY <1>1, <1>3, <1>4, <1>5 DEF RenewInv

LEMMA RenewStart == Init => RenewInv
<1>. SUFFICES ASSUME Init PROVE RenewInv
  OBVIOUS
<1>1. /\ vault \in [Accounts -> 1..Cardinality(Accounts)]
      /\ \A a, b \in Accounts : a # b => vault[a] # vault[b]
  BY VaultExists DEF Init
<1>2. Cardinality(Accounts) \in Nat
  BY AccountsAssumption, FS_CardinalityType
<1>i. issued = Cardinality(Accounts) /\ renewable = 1..issued
  BY DEF Init
<1>v. \A a \in Accounts : vault[a] \in 1..issued
  BY <1>1, <1>i
<1>3. Distinct /\ Stranded = {}
  <2>1. \A a \in Accounts : vault[a] \in 0..issued
    BY <1>2, <1>i, <1>v
  <2>2. \A a, b \in Accounts : a # b => vault[a] # vault[b]
    BY <1>1
  <2>. QED  BY <1>i, <1>v, <2>1, <2>2 DEF Distinct, Stranded
<1>4. ASSUME NEW c \in Calls PROVE Pending(c) /\ Drafted(c) /\ Placed(c)
  BY NoCallAssumption DEF Init, Pending, Waits, Drafted, Placed
<1>. QED  BY <1>3, <1>4 DEF RenewInv

LEMMA RenewStep ==
  ASSUME TypeOK, TokenInv, RenewInv, [Next]_vars
  PROVE  RenewInv'
<1>. USE DEF Rest, Service
<1>1. CASE UNCHANGED vars
  BY <1>1, RenewStands DEF vars, storeVars, cacheVars
<1>2. ASSUME NEW c \in Calls, Step(c) PROVE RenewInv'
  <2>1. CASE Save(c)
    <3>1. pc[c] \in {"saving", "storing", "publishing"}
      BY <2>1 DEF Save, At
    <3>. QED  BY <2>1, <3>1, RenewSaves, RenewEnds
  <2>2. CASE ~Save(c)
    BY <1>2, <2>2, RenewCalls, RenewLoads, RenewRenews, RenewEnds DEF Step
  <2>. QED  BY <2>1, <2>2
<1>3. ASSUME NEW c \in Calls, Fail(c) \/ Abandon(c) PROVE RenewInv'
  BY <1>3, RenewEnds
<1>4. ASSUME NEW p \in Processes, Elapse(p) PROVE RenewInv'
  BY <1>4, RenewStands DEF Elapse, storeVars
<1>5. CASE LoseIndex
  BY <1>5, RenewStands DEF LoseIndex, Fault
<1>6. ASSUME NEW v \in 1..issued, Expire(v) PROVE RenewInv'
  BY <1>6, RenewStands DEF Expire, storeVars
<1>. QED  BY <1>1, <1>2, <1>3, <1>4, <1>5, <1>6, RenewCrash DEF Next, Disturb

\* For any accounts, processes, calls, failures and expiries: what the vault
\* holds while nobody writes it can be renewed, unless a fault threw a renewed
\* version away, although callers give up in the middle of a renewal and
\* several processes renew (auth/cache.rs, auth/store.rs).
THEOREM VaultHolds == Spec => []VaultStaysRenewable
<1>1. TypeOK /\ TokenInv /\ RenewInv /\ [Next]_vars => RenewInv'
  BY RenewStep
<1>2. RenewInv => VaultStaysRenewable
  BY NoCallAssumption DEF RenewInv, Replaced, VaultStaysRenewable
<1>. QED  BY <1>1, <1>2, RenewStart, TypeCorrect, TokenInvHolds, PTL DEF Spec
=============================================================================
