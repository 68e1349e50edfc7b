---------------------------- MODULE SignInProofs ----------------------------
(***************************************************************************)
(* Theorems about SignIn for any calls, ids, clients, subjects and faults: *)
(* registrations stay bound, and attempts are told the truth.  A call that *)
(* writes the vault holds the lock from its reading to its publication, so *)
(* its copy succeeds the vault that it replaces.                           *)
(***************************************************************************)
EXTENDS SignIn, TLAPS

Places == {"start", "saving", "storing", "publishing", "waiting",
           "exchanging", "loading", "done"}
Registrations == [client: Clients, subject: Subjects,
                  by: Calls \cup {NoCall}]
Vaults == [host: Nat, accounts: [Ids -> Registrations \cup {NoAccount}]]
Indexes == [state: {"missing", "ready", "updating"}, gen: Nat]
Copies == [vault: Vaults, gen: Nat]

StoreTyped ==
  /\ lock \in Calls \cup {NoCall} /\ index \in Indexes /\ gens \in Nat
  /\ vault \in Vaults /\ copy \in [Calls -> Copies]

CallsTyped ==
  /\ pc \in [Calls -> Places] /\ goal \in [Calls -> {"host", "account"}]
  /\ account \in [Calls -> Ids \cup {NoId}]
  /\ chosen \in [Calls -> Registrations \cup {NoAccount}]
  /\ client \in [Calls -> Clients \cup {NoClient}]
  /\ subject \in [Calls -> Subjects] /\ url \in [Calls -> Nat]
  /\ outcome \in [Calls -> {"none", "declined", "saved", "failed"}]
  /\ hosts \in Nat

\* The calls that a vault may name anew when c has written it.
Authors(c) == IF c \in Attempts /\ goal[c] = "account" THEN {c} ELSE {}

\* The vault w keeps the registrations and the host of v.
Extended(v, w) ==
  /\ v.host # 0 => w.host = v.host
  /\ \A id \in Ids : v.accounts[id] # NoAccount =>
       /\ w.accounts[id] # NoAccount
       /\ w.accounts[id].client = v.accounts[id].client
       /\ w.accounts[id].subject = v.accounts[id].subject

\* Credentials in w are those of v, or were obtained by one of cs.
Credited(v, w, cs) ==
  \A id \in Ids :
    w.accounts[id] # NoAccount /\ w.accounts[id].by \in Attempts =>
      \/ w.accounts[id].by \in cs
      \/ /\ v.accounts[id] # NoAccount
         /\ v.accounts[id].by = w.accounts[id].by

\* The attempt of c is registered in v.
Entered(v, c) ==
  /\ account[c] \in Ids
  /\ v.accounts[account[c]] # NoAccount
  /\ v.accounts[account[c]].client = client[c]
  /\ v.accounts[account[c]].subject = subject[c]

Writing(c) == pc[c] \in {"saving", "storing", "publishing"}
Abroad(c) == pc[c] \in {"waiting", "exchanging", "loading"}

HoldsLock(c) == Writing(c) => lock = c

Prepared(c) ==
  /\ c \notin Attempts => goal[c] = "account"
  /\ chosen[c] # NoAccount => account[c] \in Ids
  /\ pc[c] \in {"exchanging", "loading"} => client[c] \in Clients
  /\ pc[c] = "loading" => account[c] \in Ids

CopySucceeds(c) ==
  /\ pc[c] \in {"saving", "storing"} =>
       /\ Extended(vault, copy[c].vault)
       /\ Credited(vault, copy[c].vault, Authors(c))
  /\ pc[c] = "publishing" => copy[c].vault = vault

CopyIsComplete(c) ==
  Writing(c) =>
    /\ goal[c] = "host" => copy[c].vault.host # 0
    /\ c \in Attempts /\ goal[c] = "account" => Entered(copy[c].vault, c)

HostTold(c) == Abroad(c) => url[c] = vault.host /\ vault.host # 0

CreditIsDue(c) ==
  c \in Attempts =>
    \A id \in Ids : Registered(id) /\ vault.accounts[id].by = c =>
      \/ pc[c] = "publishing"
      \/ pc[c] = "done" /\ outcome[c] # "declined"

\* Only an attempt that registers its account can be credited.
PublishesOwn(c) ==
  c \in Attempts /\ pc[c] = "publishing" /\ goal[c] = "host" =>
    \A id \in Ids : Registered(id) => vault.accounts[id].by # c

Told(c) ==
  /\ outcome[c] # "none" => pc[c] = "done"
  /\ c \in Attempts /\ outcome[c] = "saved" => Entered(vault, c)

CallSound(c) ==
  /\ HoldsLock(c) /\ Prepared(c) /\ CopySucceeds(c) /\ CopyIsComplete(c)
  /\ HostTold(c) /\ CreditIsDue(c) /\ PublishesOwn(c) /\ Told(c)

SignInInv == StoreTyped /\ CallsTyped /\ \A c \in Calls : CallSound(c)
-----------------------------------------------------------------------------
LEMMA SignInStart == Init => SignInInv
<1>. SUFFICES ASSUME Init PROVE SignInInv
  OBVIOUS
<1>1. vault \in Vaults /\ \A id \in Ids : vault.accounts[id] = NoAccount
  BY DEF Init, Vaults
<1>2. StoreTyped
  BY <1>1 DEF Init, StoreTyped, Indexes, Copies, Missing
<1>3. CallsTyped
  BY SubjectsAssumption DEF Init, CallsTyped, Places
<1>4. ASSUME NEW c \in Calls PROVE CallSound(c)
  <2>1. /\ pc[c] = "start" /\ outcome[c] = "none" /\ chosen[c] = NoAccount
        /\ goal[c] = "account"
    BY DEF Init
  <2>2. \A id \in Ids : ~Registered(id)
    BY <1>1 DEF Registered
  <2>. QED  BY <2>1, <2>2
       DEF CallSound, HoldsLock, Prepared, CopySucceeds, CopyIsComplete,
           HostTold, CreditIsDue, PublishesOwn, Told, Writing, Abroad
<1>. QED  BY <1>2, <1>3, <1>4 DEF SignInInv

\* What a step of another call leaves to c.
Same(c) ==
  /\ pc'[c] = pc[c] /\ goal'[c] = goal[c] /\ account'[c] = account[c]
  /\ chosen'[c] = chosen[c] /\ client'[c] = client[c]
  /\ subject'[c] = subject[c] /\ url'[c] = url[c]
  /\ outcome'[c] = outcome[c] /\ copy'[c] = copy[c]

LEMMA EnteredStays ==
  ASSUME NEW c \in Calls, NEW v, NEW w, Extended(v, w), Entered(v, c),
         account'[c] = account[c], client'[c] = client[c],
         subject'[c] = subject[c]
  PROVE  account'[c] \in Ids /\ w.accounts[account'[c]] # NoAccount
         /\ w.accounts[account'[c]].client = client'[c]
         /\ w.accounts[account'[c]].subject = subject'[c]
  BY DEF Extended, Entered

\* Another call stays sound while the vault stands and its lock is its own.
LEMMA OthersStand ==
  ASSUME NEW c \in Calls, CallSound(c), Same(c), vault' = vault,
         lock = c => lock' = c
  PROVE  CallSound(c)'
<1>1. (HoldsLock(c) /\ Prepared(c) /\ HostTold(c))'
  BY DEF CallSound, HoldsLock, Prepared, HostTold, Writing, Abroad, Same
<1>2. CopySucceeds(c)'
  BY DEF CallSound, CopySucceeds, Extended, Credited, Authors, Same
<1>3. CopyIsComplete(c)'
  BY DEF CallSound, CopyIsComplete, Writing, Entered, Same
<1>4. (CreditIsDue(c) /\ PublishesOwn(c) /\ Told(c))'
  BY DEF CallSound, CreditIsDue, PublishesOwn, Told, Registered, Entered,
         Same
<1>. QED  BY <1>1, <1>2, <1>3, <1>4 DEF CallSound

\* So it does when another call writes what succeeds the vault.
LEMMA OthersWritten ==
  ASSUME NEW c \in Calls, CallSound(c), Same(c), ~Writing(c),
         NEW cs, c \notin cs,
         Extended(vault, vault'), Credited(vault, vault', cs)
  PROVE  CallSound(c)'
<1>1. (HoldsLock(c) /\ Prepared(c) /\ CopySucceeds(c) /\ CopyIsComplete(c))'
  BY DEF CallSound, HoldsLock, Prepared, CopySucceeds, CopyIsComplete,
         Writing, Same
<1>2. HostTold(c)'
  BY DEF CallSound, HostTold, Abroad, Extended, Same
<1>3. CreditIsDue(c)' /\ PublishesOwn(c)'
  BY DEF CallSound, CreditIsDue, PublishesOwn, Registered, Credited, Writing,
         Same
<1>4. Told(c)'
  <2>1. Entered(vault, c) => Entered(vault, c)'
    BY DEF Entered, Extended, Same
  <2>. QED  BY <2>1 DEF CallSound, Told, Same
<1>. QED  BY <1>1, <1>2, <1>3, <1>4 DEF CallSound

\* A step of one call that leaves the vault alone.
LEMMA StepBy ==
  ASSUME SignInInv, NEW c \in Calls, StoreTyped', CallsTyped', CallSound(c)',
         vault' = vault,
         \A d \in Calls \ {c} : Same(d) /\ (lock = d => lock' = d)
  PROVE  SignInInv'
  BY OthersStand DEF SignInInv

LEMMA LoadFacts ==
  ASSUME StoreTyped, NEW c \in Calls, NEW held \in BOOLEAN,
         LoadLocked(c, held)
  PROVE  /\ lock' = (IF held THEN c ELSE NoCall)
         /\ lock' \in Calls \cup {NoCall} /\ vault' = vault
         /\ index' \in Indexes /\ gens' \in Nat
         /\ \A d \in Calls : lock # d
  BY NoCallAssumption DEF LoadLocked, StoreTyped, Indexes, Ready

LEMMA HoldFacts ==
  ASSUME StoreTyped, NEW c \in Calls, NEW v \in Vaults, index' \in Indexes,
         Hold(c, v)
  PROVE  /\ copy' \in [Calls -> Copies] /\ copy'[c].vault = v
         /\ \A d \in Calls \ {c} : copy'[d] = copy[d]
  BY DEF Hold, StoreTyped, Copies, Indexes

LEMMA VaultStands == Extended(vault, vault) /\ Credited(vault, vault, {})
  BY DEF Extended, Credited

\* Nothing in the vault is credited to an attempt that has not written it.
LEMMA NotCredited ==
  ASSUME SignInInv, NEW c \in Calls, c \in Attempts,
         pc[c] \notin {"publishing", "done"}, NEW id \in Ids, Registered(id)
  PROVE  vault.accounts[id].by # c
  BY DEF SignInInv, CallSound, CreditIsDue

\* A disconnection never saves a host id.
LEMMA GoalOf ==
  ASSUME SignInInv, NEW c \in Calls \ Attempts
  PROVE  goal[c] = "account"
  BY DEF SignInInv, CallSound, Prepared

LEMMA OpenKeeps ==
  ASSUME SignInInv, NEW t \in Attempts, Open(t)
  PROVE  SignInInv'
<1>. USE DEF SignInInv
<1>1. t \in Calls
  BY AttemptsAssumption
<1>2. PICK id \in Ids \cup {NoId} :
        /\ pc[t] = "start" /\ LoadLocked(t, NeedsHost)
        /\ id # NoId => Registered(id)
        /\ account' = [account EXCEPT ![t] = id]
        /\ chosen' = [chosen EXCEPT ![t] = IF id = NoId THEN NoAccount
                                           ELSE vault.accounts[id]]
        /\ IF NeedsHost
             THEN /\ hosts' = hosts + 1
                  /\ Hold(t, [vault EXCEPT !.host = hosts + 1])
                  /\ goal' = [goal EXCEPT ![t] = "host"] /\ To(t, "saving")
                  /\ UNCHANGED url
             ELSE /\ url' = [url EXCEPT ![t] = vault.host]
                  /\ To(t, "waiting")
                  /\ Hold(t, vault) /\ UNCHANGED <<goal, hosts>>
        /\ UNCHANGED <<client, subject, outcome, faults>>
  BY DEF Open, At
<1>3. /\ lock' = (IF NeedsHost THEN t ELSE NoCall)
      /\ lock' \in Calls \cup {NoCall} /\ vault' = vault
      /\ index' \in Indexes /\ gens' \in Nat /\ \A d \in Calls : lock # d
  BY <1>1, <1>2, LoadFacts DEF NeedsHost
<1>4. /\ account' \in [Calls -> Ids \cup {NoId}]
      /\ chosen' \in [Calls -> Registrations \cup {NoAccount}]
      /\ chosen'[t] # NoAccount => account'[t] \in Ids
  BY <1>1, <1>2 DEF CallsTyped, StoreTyped, Vaults
<1>5. \A i \in Ids : Registered(i) => vault.accounts[i].by # t
  BY <1>1, <1>2, NotCredited
<1>6. outcome[t] = "none"
  BY <1>1, <1>2 DEF CallSound, Told
<1>7. CASE NeedsHost
  <2>. DEFINE w == [vault EXCEPT !.host = hosts + 1]
  <2>1. w \in Vaults /\ w.host # 0 /\ w.accounts = vault.accounts
    BY DEF StoreTyped, CallsTyped, Vaults
  <2>2. /\ copy' \in [Calls -> Copies] /\ copy'[t].vault = w
        /\ \A d \in Calls \ {t} : copy'[d] = copy[d]
    BY <1>1, <1>2, <1>3, <1>7, <2>1, HoldFacts
  <2>. HIDE DEF w
  <2>3. /\ pc'[t] = "saving" /\ goal'[t] = "host" /\ outcome'[t] = "none"
        /\ hosts' = hosts + 1 /\ url' = url
        /\ pc' \in [Calls -> Places]
        /\ goal' \in [Calls -> {"host", "account"}]
    BY <1>1, <1>2, <1>6, <1>7 DEF To, CallsTyped, Places
  <2>4. StoreTyped' /\ CallsTyped'
    BY <1>2, <1>3, <1>4, <2>2, <2>3 DEF StoreTyped, CallsTyped
  <2>5. Extended(vault, w) /\ Credited(vault, w, {})
    BY <1>7, <2>1 DEF Extended, Credited, NeedsHost
  <2>6. (HoldsLock(t) /\ Prepared(t) /\ HostTold(t) /\ Told(t))'
    BY <1>3, <1>4, <1>7, <2>3
       DEF HoldsLock, Prepared, HostTold, Told, Writing, Abroad
  <2>7. (CopySucceeds(t) /\ CopyIsComplete(t))'
    BY <1>3, <2>1, <2>2, <2>3, <2>5
       DEF CopySucceeds, CopyIsComplete, Writing, Authors
  <2>8. (CreditIsDue(t) /\ PublishesOwn(t))'
    BY <1>3, <1>5, <2>3 DEF CreditIsDue, PublishesOwn, Registered
  <2>9. \A d \in Calls \ {t} : Same(d) /\ (lock = d => lock' = d)
    BY <1>1, <1>2, <1>3, <1>7, <2>2 DEF Same, To, CallsTyped
  <2>. QED  BY <1>1, <1>3, <2>4, <2>6, <2>7, <2>8, <2>9, StepBy
            DEF CallSound
<1>8. CASE ~NeedsHost
  <2>1. /\ copy' \in [Calls -> Copies]
        /\ \A d \in Calls \ {t} : copy'[d] = copy[d]
    BY <1>1, <1>2, <1>3, <1>8, HoldFacts DEF StoreTyped
  <2>2. /\ pc'[t] = "waiting" /\ url'[t] = vault.host
        /\ outcome'[t] = "none" /\ goal' = goal /\ hosts' = hosts
        /\ pc' \in [Calls -> Places] /\ url' \in [Calls -> Nat]
    BY <1>1, <1>2, <1>6, <1>8 DEF To, CallsTyped, StoreTyped, Vaults, Places
  <2>3. StoreTyped' /\ CallsTyped'
    BY <1>2, <1>3, <1>4, <2>1, <2>2 DEF StoreTyped, CallsTyped
  <2>4. CallSound(t)'
    BY <1>3, <1>4, <1>5, <1>8, <2>2
       DEF CallSound, HoldsLock, Prepared, CopySucceeds, CopyIsComplete,
           HostTold, CreditIsDue, PublishesOwn, Told, Writing, Abroad,
           Registered, NeedsHost
  <2>5. \A d \in Calls \ {t} : Same(d) /\ (lock = d => lock' = d)
    BY <1>1, <1>2, <1>3, <1>8, <2>1 DEF Same, To, CallsTyped
  <2>. QED  BY <1>1, <1>3, <2>3, <2>4, <2>5, StepBy
<1>. QED  BY <1>7, <1>8

\* A call that ends without success has only what it wrote before.
LEMMA EndsSound ==
  ASSUME SignInInv, NEW c \in Calls, vault' = vault,
         chosen' = chosen, account' = account, goal' = goal,
         pc'[c] = "done",
         outcome'[c] \in {"declined", "failed"},
         outcome'[c] = "declined" => pc[c] \notin {"publishing", "done"}
  PROVE  CallSound(c)'
<1>1. /\ chosen'[c] # NoAccount => account'[c] \in Ids
      /\ c \notin Attempts => goal'[c] = "account"
  BY DEF SignInInv, CallSound, Prepared
<1>2. outcome'[c] = "declined" /\ c \in Attempts =>
        \A id \in Ids : Registered(id) => vault.accounts[id].by # c
  BY NotCredited
<1>. QED  BY <1>1, <1>2
     DEF CallSound, HoldsLock, Prepared, CopySucceeds, CopyIsComplete,
         HostTold, CreditIsDue, PublishesOwn, Told, Writing, Abroad,
         Registered

LEMMA ReceiveKeeps ==
  ASSUME SignInInv, NEW t \in Attempts, NEW r \in Callbacks, Receive(t, r)
  PROVE  SignInInv'
<1>. USE DEF SignInInv
<1>1. /\ t \in Calls /\ pc[t] = "waiting" /\ StoreTyped' /\ lock' = lock
      /\ vault' = vault /\ copy' = copy
      /\ UNCHANGED <<goal, account, chosen, subject, url, hosts>>
  BY AttemptsAssumption DEF Receive, At, storeVars, StoreTyped
<1>2. CASE Accepts(t, r) /\ To(t, "exchanging")
           /\ client' = [client EXCEPT ![t] = IF chosen[t] = NoAccount
                                  THEN r.client ELSE chosen[t].client]
           /\ UNCHANGED outcome
  <2>1. r.client \in Clients \cup {NoClient}
    BY DEF Callbacks
  <2>2. /\ (IF chosen[t] = NoAccount THEN r.client ELSE chosen[t].client)
             \in Clients
        /\ chosen[t] # NoAccount => account[t] \in Ids
    BY <1>1, <1>2, <2>1 DEF Accepts, CallsTyped, Registrations, CallSound,
                            Prepared
  <2>3. /\ client' \in [Calls -> Clients \cup {NoClient}]
        /\ client'[t] \in Clients
        /\ pc' \in [Calls -> Places] /\ pc'[t] = "exchanging"
        /\ outcome[t] = "none"
    BY <1>1, <1>2, <2>2 DEF To, CallsTyped, Places, CallSound, Told
  <2>4. CallsTyped'
    BY <1>1, <1>2, <2>3 DEF CallsTyped
  <2>5. \A i \in Ids : Registered(i) => vault.accounts[i].by # t
    BY <1>1, NotCredited
  <2>6. CallSound(t)'
    BY <1>1, <1>2, <2>2, <2>3, <2>5
       DEF CallSound, HoldsLock, Prepared, CopySucceeds, CopyIsComplete,
           HostTold, CreditIsDue, PublishesOwn, Told, Writing, Abroad,
           Registered
  <2>7. \A d \in Calls \ {t} : Same(d) /\ (lock = d => lock' = d)
    BY <1>1, <1>2 DEF Same, To, CallsTyped
  <2>. QED  BY <1>1, <2>4, <2>6, <2>7, StepBy
<1>3. CASE End(t, "declined") /\ UNCHANGED client
  <2>1. /\ pc'[t] = "done" /\ outcome'[t] = "declined" /\ CallsTyped'
        /\ \A d \in Calls \ {t} : Same(d) /\ (lock = d => lock' = d)
    BY <1>1, <1>3 DEF End, To, Same, CallsTyped, Places
  <2>2. CallSound(t)'
    BY <1>1, <2>1, EndsSound
  <2>. QED  BY <1>1, <2>1, <2>2, StepBy
<1>. QED  BY <1>2, <1>3 DEF Receive

LEMMA ExchangeKeeps ==
  ASSUME SignInInv, NEW t \in Attempts, NEW s \in Subjects,
         NEW granted \in BOOLEAN, Exchange(t, s, granted)
  PROVE  SignInInv'
<1>. USE DEF SignInInv
<1>1. /\ t \in Calls /\ pc[t] = "exchanging" /\ StoreTyped' /\ lock' = lock
      /\ vault' = vault /\ copy' = copy
      /\ UNCHANGED <<goal, chosen, client, url, hosts>>
  BY AttemptsAssumption DEF Exchange, At, storeVars, StoreTyped
<1>2. CASE /\ subject' = [subject EXCEPT ![t] = s]
           /\ account' = [account EXCEPT ![t] = IF chosen[t] = NoAccount
                                                  THEN IdOf[client[t]] ELSE @]
           /\ To(t, "loading") /\ UNCHANGED outcome
  <2>1. client[t] \in Clients /\ (chosen[t] # NoAccount => account[t] \in Ids)
    BY <1>1 DEF CallSound, Prepared
  <2>2. /\ account' \in [Calls -> Ids \cup {NoId}] /\ account'[t] \in Ids
        /\ subject' \in [Calls -> Subjects]
        /\ pc' \in [Calls -> Places] /\ pc'[t] = "loading"
        /\ outcome[t] = "none"
    BY <1>1, <1>2, <2>1, IdOfAssumption
       DEF To, CallsTyped, Places, CallSound, Told
  <2>3. CallsTyped'
    BY <1>1, <1>2, <2>2 DEF CallsTyped
  <2>4. \A i \in Ids : Registered(i) => vault.accounts[i].by # t
    BY <1>1, NotCredited
  <2>5. CallSound(t)'
    BY <1>1, <1>2, <2>1, <2>2, <2>4
       DEF CallSound, HoldsLock, Prepared, CopySucceeds, CopyIsComplete,
           HostTold, CreditIsDue, PublishesOwn, Told, Writing, Abroad,
           Registered
  <2>6. \A d \in Calls \ {t} : Same(d) /\ (lock = d => lock' = d)
    BY <1>1, <1>2 DEF Same, To, CallsTyped
  <2>. QED  BY <1>1, <2>3, <2>5, <2>6, StepBy
<1>3. CASE End(t, "declined") /\ UNCHANGED <<subject, account>>
  <2>1. /\ pc'[t] = "done" /\ outcome'[t] = "declined" /\ CallsTyped'
        /\ \A d \in Calls \ {t} : Same(d) /\ (lock = d => lock' = d)
    BY <1>1, <1>3 DEF End, To, Same, CallsTyped, Places
  <2>2. CallSound(t)'
    BY <1>1, <1>3, <2>1, EndsSound
  <2>. QED  BY <1>1, <2>1, <2>2, StepBy
<1>. QED  BY <1>2, <1>3 DEF Exchange

LEMMA TimeOutKeeps ==
  ASSUME SignInInv, NEW t \in Attempts, TimeOut(t)
  PROVE  SignInInv'
<1>1. /\ t \in Calls /\ pc[t] = "waiting" /\ StoreTyped' /\ vault' = vault
      /\ chosen' = chosen /\ account' = account /\ goal' = goal
      /\ pc'[t] = "done" /\ outcome'[t] = "declined" /\ CallsTyped'
      /\ \A d \in Calls \ {t} : Same(d) /\ (lock = d => lock' = d)
  BY AttemptsAssumption DEF TimeOut, At, End, To, storeVars, SignInInv,
     StoreTyped, CallsTyped, Places, Same
<1>2. CallSound(t)'
  BY <1>1, EndsSound
<1>. QED  BY <1>1, <1>2, StepBy

LEMMA GiveUpKeeps ==
  ASSUME SignInInv, NEW t \in Attempts, GiveUp(t)
  PROVE  SignInInv'
<1>1. /\ t \in Calls /\ StoreTyped' /\ vault' = vault
      /\ chosen' = chosen /\ account' = account /\ goal' = goal
      /\ pc'[t] = "done" /\ outcome'[t] = "failed" /\ CallsTyped'
      /\ \A d \in Calls \ {t} : Same(d) /\ (lock = d => lock' = d)
  BY AttemptsAssumption DEF GiveUp, End, To, storeVars, SignInInv,
     StoreTyped, CallsTyped, Places, Same
<1>2. CallSound(t)'
  BY <1>1, EndsSound
<1>. QED  BY <1>1, <1>2, StepBy

LEMMA FailKeeps ==
  ASSUME SignInInv, NEW c \in Calls, Fail(c)
  PROVE  SignInInv'
<1>1. /\ StoreTyped' /\ vault' = vault
      /\ chosen' = chosen /\ account' = account /\ goal' = goal
      /\ pc'[c] = "done" /\ outcome'[c] = "failed" /\ CallsTyped'
      /\ \A d \in Calls \ {c} : Same(d) /\ (lock = d => lock' = d)
  BY DEF Fail, End, To, Unlocked, SignInInv, StoreTyped, CallsTyped, Places,
     Same
<1>2. CallSound(c)'
  BY <1>1, EndsSound
<1>. QED  BY <1>1, <1>2, StepBy

LEMMA RegisterKeeps ==
  ASSUME SignInInv, NEW t \in Attempts, Register(t)
  PROVE  SignInInv'
<1>. USE DEF SignInInv
<1>. DEFINE a == account[t]
            old == vault.accounts[a]
            same == old # NoAccount => /\ old.client = client[t]
                                       /\ old.subject = subject[t]
            w == [vault EXCEPT !.accounts[a] = Registration(t)]
<1>1. /\ t \in Calls /\ pc[t] = "loading" /\ LoadLocked(t, same)
      /\ UNCHANGED <<account, chosen, client, subject, url, hosts>>
      /\ \/ /\ same /\ Hold(t, w) /\ To(t, "saving") /\ UNCHANGED outcome
            /\ goal' = [goal EXCEPT ![t] = "account"]
         \/ ~same /\ Hold(t, vault) /\ End(t, "declined") /\ UNCHANGED goal
  BY AttemptsAssumption DEF Register, At
<1>2. /\ a \in Ids /\ client[t] \in Clients /\ outcome[t] = "none"
      /\ chosen[t] # NoAccount => account[t] \in Ids
  BY <1>1 DEF CallSound, Prepared, Told
<1>3. /\ lock' = (IF same THEN t ELSE NoCall)
      /\ lock' \in Calls \cup {NoCall} /\ vault' = vault
      /\ index' \in Indexes /\ gens' \in Nat /\ \A d \in Calls : lock # d
  <2>. HIDE DEF same
  <2>1. same \in BOOLEAN
    BY DEF same
  <2>. QED  BY <1>1, <2>1, LoadFacts
<1>4. \A i \in Ids : Registered(i) => vault.accounts[i].by # t
  BY <1>1, NotCredited
<1>5. /\ Registration(t) \in Registrations /\ Registration(t) # NoAccount
      /\ Registration(t).client = client[t] /\ Registration(t).by = t
      /\ Registration(t).subject = subject[t]
  BY <1>1, <1>2, NoAccountAssumption
     DEF Registration, Registrations, CallsTyped
<1>6. /\ w \in Vaults /\ w.host = vault.host /\ w.accounts[a] = Registration(t)
      /\ \A i \in Ids \ {a} : w.accounts[i] = vault.accounts[i]
  BY <1>2, <1>5 DEF StoreTyped, Vaults
<1>7. CASE same /\ Hold(t, w) /\ To(t, "saving") /\ UNCHANGED outcome
           /\ goal' = [goal EXCEPT ![t] = "account"]
  <2>1. Extended(vault, w) /\ Credited(vault, w, {t})
    BY <1>5, <1>6, <1>7 DEF Extended, Credited
  <2>. HIDE DEF w, same, old
  <2>2. /\ copy' \in [Calls -> Copies] /\ copy'[t].vault = w
        /\ \A d \in Calls \ {t} : copy'[d] = copy[d]
    BY <1>1, <1>3, <1>6, <1>7, HoldFacts
  <2>3. /\ pc'[t] = "saving" /\ goal'[t] = "account" /\ outcome'[t] = "none"
        /\ pc' \in [Calls -> Places]
        /\ goal' \in [Calls -> {"host", "account"}]
    BY <1>1, <1>2, <1>7 DEF To, CallsTyped, Places
  <2>4. StoreTyped' /\ CallsTyped'
    BY <1>1, <1>3, <1>7, <2>2, <2>3 DEF StoreTyped, CallsTyped
  <2>5. (HoldsLock(t) /\ Prepared(t) /\ HostTold(t) /\ Told(t))'
    BY <1>1, <1>2, <1>3, <1>7, <2>3
       DEF HoldsLock, Prepared, HostTold, Told, Writing, Abroad
  <2>6. CopySucceeds(t)'
    BY <1>3, <2>1, <2>2, <2>3 DEF CopySucceeds, Authors
  <2>7. CopyIsComplete(t)'
    BY <1>1, <1>2, <1>5, <1>6, <2>2, <2>3 DEF CopyIsComplete, Entered
  <2>8. (CreditIsDue(t) /\ PublishesOwn(t))'
    BY <1>3, <1>4, <2>3 DEF CreditIsDue, PublishesOwn, Registered
  <2>9. \A d \in Calls \ {t} : Same(d) /\ (lock = d => lock' = d)
    BY <1>1, <1>3, <1>7, <2>2 DEF Same, To, CallsTyped
  <2>. QED  BY <1>1, <1>3, <2>4, <2>5, <2>6, <2>7, <2>8, <2>9, StepBy
            DEF CallSound
<1>8. CASE ~same /\ Hold(t, vault) /\ End(t, "declined") /\ UNCHANGED goal
  <2>. HIDE DEF w, same, old, a
  <2>1. /\ copy' \in [Calls -> Copies]
        /\ \A d \in Calls \ {t} : copy'[d] = copy[d]
    BY <1>1, <1>3, <1>8, HoldFacts DEF StoreTyped
  <2>2. /\ pc'[t] = "done" /\ outcome'[t] = "declined"
        /\ StoreTyped' /\ CallsTyped'
    BY <1>1, <1>3, <1>8, <2>1 DEF End, To, StoreTyped, CallsTyped, Places
  <2>3. CallSound(t)'
    BY <1>1, <1>3, <1>8, <2>2, EndsSound
  <2>4. \A d \in Calls \ {t} : Same(d) /\ (lock = d => lock' = d)
    BY <1>1, <1>3, <1>8, <2>1 DEF Same, End, To, CallsTyped
  <2>. QED  BY <1>1, <1>3, <2>2, <2>3, <2>4, StepBy
<1>. HIDE DEF w, same, old, a
<1>. QED  BY <1>1, <1>7, <1>8

LEMMA DisconnectKeeps ==
  ASSUME SignInInv, NEW c \in Calls \ Attempts, Disconnect(c)
  PROVE  SignInInv'
<1>. USE DEF SignInInv
<1>1. PICK id \in Ids :
        /\ pc[c] = "start" /\ Registered(id) /\ LoadLocked(c, TRUE)
        /\ Hold(c, [vault EXCEPT !.accounts[id].by = NoCall])
        /\ account' = [account EXCEPT ![c] = id] /\ To(c, "saving")
        /\ UNCHANGED <<goal, chosen, client, subject, url, outcome, hosts>>
  BY DEF Disconnect, At
<1>. DEFINE w == [vault EXCEPT !.accounts[id].by = NoCall]
<1>2. /\ lock' = c /\ lock' \in Calls \cup {NoCall} /\ vault' = vault
      /\ index' \in Indexes /\ gens' \in Nat /\ \A d \in Calls : lock # d
  BY <1>1, LoadFacts
<1>3. /\ w \in Vaults /\ w.host = vault.host
      /\ w.accounts[id] = [vault.accounts[id] EXCEPT !.by = NoCall]
      /\ \A i \in Ids \ {id} : w.accounts[i] = vault.accounts[i]
  BY <1>1 DEF StoreTyped, Vaults, Registrations, Registered
<1>4. /\ w.accounts[id] \in Registrations /\ w.accounts[id].by = NoCall
      /\ w.accounts[id].client = vault.accounts[id].client
      /\ w.accounts[id].subject = vault.accounts[id].subject
  BY <1>1, <1>3 DEF StoreTyped, Vaults, Registrations, Registered
<1>5. w.accounts[id] # NoAccount /\ NoCall \notin Attempts
  BY <1>4, NoAccountAssumption, NoCallAssumption, AttemptsAssumption
     DEF Registrations
<1>. HIDE DEF w
<1>6. Extended(vault, w) /\ Credited(vault, w, {})
  BY <1>3, <1>4, <1>5 DEF Extended, Credited
<1>7. /\ copy' \in [Calls -> Copies] /\ copy'[c].vault = w
      /\ \A d \in Calls \ {c} : copy'[d] = copy[d]
  BY <1>1, <1>2, <1>3, HoldFacts DEF w
<1>8. /\ pc'[c] = "saving" /\ outcome'[c] = "none" /\ account'[c] \in Ids
      /\ pc' \in [Calls -> Places]
      /\ account' \in [Calls -> Ids \cup {NoId}]
  BY <1>1 DEF To, CallsTyped, Places, CallSound, Told
<1>9. StoreTyped' /\ CallsTyped'
  BY <1>1, <1>2, <1>7, <1>8 DEF StoreTyped, CallsTyped
<1>10. CallSound(c)'
  <2>1. (HoldsLock(c) /\ Prepared(c) /\ HostTold(c) /\ Told(c))'
    BY <1>1, <1>2, <1>8, GoalOf DEF HoldsLock, Prepared, HostTold, Told, Writing, Abroad
  <2>2. CopySucceeds(c)'
    BY <1>2, <1>6, <1>7, <1>8 DEF CopySucceeds, Authors
  <2>3. goal'[c] = "host" => w.host # 0
    BY <1>1, GoalOf
  <2>4. CopyIsComplete(c)'
    BY <1>7, <2>3 DEF CopyIsComplete
  <2>5. (CreditIsDue(c) /\ PublishesOwn(c))'
    BY DEF CreditIsDue, PublishesOwn
  <2>. QED  BY <2>1, <2>2, <2>4, <2>5 DEF CallSound
<1>11. \A d \in Calls \ {c} : Same(d) /\ (lock = d => lock' = d)
  BY <1>1, <1>2, <1>7 DEF Same, To, CallsTyped
<1>. QED  BY <1>2, <1>9, <1>10, <1>11, StepBy

\* The first write of a transaction: the index is no longer ready.
LEMMA InvalidateKeeps ==
  ASSUME SignInInv, NEW c \in Calls, pc[c] = "saving", Invalidate(c),
         To(c, "storing"),
         UNCHANGED <<goal, account, chosen, client, subject, url, outcome,
                     hosts>>
  PROVE  SignInInv'
<1>. USE DEF SignInInv
<1>1. /\ gens' \in Nat /\ index' \in Indexes /\ lock' = lock /\ vault' = vault
      /\ copy' \in [Calls -> Copies] /\ copy'[c].vault = copy[c].vault
      /\ \A d \in Calls \ {c} : copy'[d] = copy[d]
  BY DEF Invalidate, StoreTyped, Indexes, Updating, Copies
<1>2. pc' \in [Calls -> Places] /\ pc'[c] = "storing"
  BY DEF To, CallsTyped, Places
<1>3. StoreTyped' /\ CallsTyped'
  BY <1>1, <1>2 DEF StoreTyped, CallsTyped
<1>4. CallSound(c)'
  <2>1. (HoldsLock(c) /\ Prepared(c) /\ HostTold(c) /\ Told(c))'
    BY <1>1, <1>2 DEF CallSound, HoldsLock, Prepared, HostTold, Told,
                      Writing, Abroad
  <2>2. CopySucceeds(c)'
    <3>1. Authors(c)' = Authors(c)
      BY DEF Authors
    <3>. QED  BY <1>1, <1>2, <3>1
              DEF CallSound, CopySucceeds, Extended, Credited
  <2>3. CopyIsComplete(c)'
    BY <1>1, <1>2 DEF CallSound, CopyIsComplete, Writing, Entered
  <2>4. (CreditIsDue(c) /\ PublishesOwn(c))'
    BY <1>1, <1>2 DEF CallSound, CreditIsDue, PublishesOwn, Registered
  <2>. QED  BY <2>1, <2>2, <2>3, <2>4 DEF CallSound
<1>5. \A d \in Calls \ {c} : Same(d) /\ (lock = d => lock' = d)
  BY <1>1 DEF Same, To, CallsTyped
<1>. QED  BY <1>1, <1>3, <1>4, <1>5, StepBy

\* The second: the copy, which succeeds the vault, replaces it.
LEMMA KeepKeeps ==
  ASSUME SignInInv, NEW c \in Calls, pc[c] = "storing", Keep(c),
         To(c, "publishing"),
         UNCHANGED <<goal, account, chosen, client, subject, url, outcome,
                     hosts>>
  PROVE  SignInInv' /\ Extended(vault, vault')
<1>. USE DEF SignInInv
<1>1. /\ vault' = copy[c].vault /\ lock' = lock /\ index' = index
      /\ gens' = gens /\ copy' = copy
  BY DEF Keep
<1>2. Extended(vault, vault') /\ Credited(vault, vault', Authors(c))
  BY <1>1 DEF CallSound, CopySucceeds
<1>3. pc' \in [Calls -> Places] /\ pc'[c] = "publishing"
  BY DEF To, CallsTyped, Places
<1>4. StoreTyped' /\ CallsTyped'
  BY <1>1, <1>3 DEF StoreTyped, CallsTyped, Copies
<1>5. lock = c /\ outcome[c] = "none"
  BY DEF CallSound, HoldsLock, Writing, Told
<1>6. \A id \in Ids : c \in Attempts /\ Registered(id)
                        => vault.accounts[id].by # c
  BY NotCredited
<1>7. CallSound(c)'
  <2>1. (HoldsLock(c) /\ Prepared(c) /\ HostTold(c) /\ Told(c)
         /\ CopySucceeds(c))'
    BY <1>1, <1>3, <1>5
       DEF CallSound, HoldsLock, Prepared, HostTold, Told, Writing, Abroad,
           CopySucceeds
  <2>2. CopyIsComplete(c)'
    BY <1>1 DEF CallSound, CopyIsComplete, Writing, Entered
  <2>3. CreditIsDue(c)'
    BY <1>3 DEF CreditIsDue
  <2>4. PublishesOwn(c)'
    BY <1>2, <1>6 DEF PublishesOwn, Credited, Authors, Registered
  <2>. QED  BY <2>1, <2>2, <2>3, <2>4 DEF CallSound
<1>8. ASSUME NEW d \in Calls \ {c} PROVE CallSound(d)'
  <2>1. Same(d)
    BY <1>1 DEF Same, To, CallsTyped
  <2>2. ~Writing(d)
    BY <1>5 DEF CallSound, HoldsLock
  <2>3. d \notin Authors(c)
    BY DEF Authors
  <2>. QED  BY <1>2, <2>1, <2>2, <2>3, OthersWritten
<1>. QED  BY <1>2, <1>4, <1>7, <1>8

LEMMA EndSaveKeeps ==
  ASSUME SignInInv, NEW c \in Calls, EndSave(c)
  PROVE  SignInInv'
<1>. USE DEF SignInInv
<1>1. /\ pc[c] = "publishing" /\ lock' = NoCall /\ vault' = vault
      /\ gens' = gens /\ copy' = copy /\ index' = Ready(copy[c].gen)
      /\ UNCHANGED <<goal, account, chosen, client, subject, hosts>>
  BY DEF EndSave, At, Publish
<1>2. StoreTyped'
  BY <1>1 DEF StoreTyped, Ready, Indexes, Copies
<1>3. /\ lock = c /\ copy[c].vault = vault /\ outcome[c] = "none"
      /\ chosen[c] # NoAccount => account[c] \in Ids
      /\ c \notin Attempts => goal[c] = "account"
  BY <1>1 DEF CallSound, HoldsLock, Writing, CopySucceeds, Told, Prepared
<1>4. CASE /\ goal[c] = "host" /\ To(c, "waiting")
           /\ url' = [url EXCEPT ![c] = copy[c].vault.host]
           /\ UNCHANGED outcome
  <2>1. /\ pc' \in [Calls -> Places] /\ pc'[c] = "waiting"
        /\ url' \in [Calls -> Nat] /\ url'[c] = vault.host
    BY <1>3, <1>4 DEF To, CallsTyped, Places, StoreTyped, Vaults
  <2>2. CallsTyped'
    BY <1>1, <1>4, <2>1 DEF CallsTyped
  <2>3. vault.host # 0
    BY <1>1, <1>3, <1>4 DEF CallSound, CopyIsComplete, Writing
  <2>4. c \in Attempts =>
          \A id \in Ids : Registered(id) => vault.accounts[id].by # c
    BY <1>1, <1>4 DEF CallSound, PublishesOwn
  <2>5. CallSound(c)'
    <3>1. (HoldsLock(c) /\ Prepared(c) /\ HostTold(c) /\ Told(c)
           /\ CopySucceeds(c) /\ CopyIsComplete(c))'
      BY <1>1, <1>3, <1>4, <2>1, <2>3
         DEF HoldsLock, Prepared, HostTold, Told, CopySucceeds,
             CopyIsComplete, Writing, Abroad
    <3>2. (CreditIsDue(c) /\ PublishesOwn(c))'
      BY <1>1, <2>1, <2>4 DEF CreditIsDue, PublishesOwn, Registered
    <3>. QED  BY <1>1, <3>1, <3>2 DEF CallSound
  <2>6. \A d \in Calls \ {c} : Same(d) /\ (lock = d => lock' = d)
    BY <1>1, <1>3, <1>4 DEF Same, To, CallsTyped
  <2>. QED  BY <1>1, <1>2, <2>2, <2>5, <2>6, StepBy
<1>5. CASE goal[c] # "host" /\ End(c, "saved") /\ UNCHANGED url
  <2>1. /\ pc'[c] = "done" /\ outcome'[c] = "saved"
        /\ pc' \in [Calls -> Places] /\ CallsTyped'
    BY <1>1, <1>5 DEF End, To, CallsTyped, Places
  <2>2. c \in Attempts => Entered(vault, c)
    BY <1>1, <1>3, <1>5 DEF CallSound, CopyIsComplete, Writing, CallsTyped
  <2>3. CallSound(c)'
    <3>1. (HoldsLock(c) /\ Prepared(c) /\ HostTold(c)
           /\ CopySucceeds(c) /\ CopyIsComplete(c))'
      BY <1>1, <1>3, <2>1
         DEF HoldsLock, Prepared, HostTold, CopySucceeds,
             CopyIsComplete, Writing, Abroad
    <3>2. (CreditIsDue(c) /\ PublishesOwn(c))'
      BY <2>1 DEF CreditIsDue, PublishesOwn
    <3>3. Told(c)'
      BY <1>1, <2>1, <2>2 DEF Told, Entered
    <3>. QED  BY <1>1, <3>1, <3>2, <3>3 DEF CallSound
  <2>4. \A d \in Calls \ {c} : Same(d) /\ (lock = d => lock' = d)
    BY <1>1, <1>3, <1>5 DEF Same, End, To, CallsTyped
  <2>. QED  BY <1>1, <1>2, <2>1, <2>3, <2>4, StepBy
<1>. QED  BY <1>4, <1>5 DEF EndSave
-----------------------------------------------------------------------------
LEMMA SignInStep ==
  ASSUME SignInInv, [Next]_vars
  PROVE  SignInInv' /\ Extended(vault, vault')
<1>1. ASSUME vault' = vault PROVE Extended(vault, vault')
  BY <1>1, VaultStands DEF Extended
<1>2. ASSUME NEW t \in Attempts, Open(t) PROVE SignInInv' /\ vault' = vault
  BY <1>2, OpenKeeps DEF Open, LoadLocked
<1>3. ASSUME NEW t \in Attempts, NEW r \in Callbacks, Receive(t, r)
      PROVE  SignInInv' /\ vault' = vault
  BY <1>3, ReceiveKeeps DEF Receive, storeVars
<1>4. ASSUME NEW t \in Attempts, NEW s \in Subjects, NEW granted \in BOOLEAN,
             Exchange(t, s, granted)
      PROVE  SignInInv' /\ vault' = vault
  BY <1>4, ExchangeKeeps DEF Exchange, storeVars
<1>5. ASSUME NEW t \in Attempts, TimeOut(t) \/ GiveUp(t)
      PROVE  SignInInv' /\ vault' = vault
  BY <1>5, TimeOutKeeps, GiveUpKeeps DEF TimeOut, GiveUp, storeVars
<1>6. ASSUME NEW t \in Attempts, Register(t)
      PROVE  SignInInv' /\ vault' = vault
  BY <1>6, RegisterKeeps DEF Register, LoadLocked
<1>7. ASSUME NEW c \in Calls \ Attempts, Disconnect(c)
      PROVE  SignInInv' /\ vault' = vault
  BY <1>7, DisconnectKeeps DEF Disconnect, LoadLocked
<1>8. ASSUME NEW c \in Calls, Save(c)
      PROVE  SignInInv' /\ Extended(vault, vault')
  <2>1. CASE At(c, "saving") /\ Invalidate(c) /\ To(c, "storing")
    <3>1. SignInInv' /\ vault' = vault
      BY <1>8, <2>1, InvalidateKeeps DEF Save, At, Invalidate
    <3>. QED  BY <1>1, <3>1
  <2>2. CASE At(c, "storing") /\ Keep(c) /\ To(c, "publishing")
    BY <1>8, <2>2, KeepKeeps DEF Save, At
  <2>. QED  BY <1>8, <2>1, <2>2 DEF Save
<1>9. ASSUME NEW c \in Calls, EndSave(c) PROVE SignInInv' /\ vault' = vault
  BY <1>9, EndSaveKeeps DEF EndSave, Publish
<1>10. ASSUME NEW c \in Calls, Fail(c) PROVE SignInInv' /\ vault' = vault
  BY <1>10, FailKeeps DEF Fail
<1>11. CASE UNCHANGED vars
  <2>1. UNCHANGED <<lock, index, vault, gens, copy, pc, goal, account, chosen,
                    client, subject, url, outcome, hosts>>
    BY <1>11 DEF vars, storeVars, callVars
  <2>2. StoreTyped' /\ CallsTyped'
    BY <2>1 DEF SignInInv, StoreTyped, CallsTyped
  <2>3. ASSUME NEW c \in Calls PROVE CallSound(c)'
    BY <2>1, OthersStand DEF SignInInv, Same
  <2>. QED  BY <1>1, <2>1, <2>2, <2>3 DEF SignInInv
<1>. QED  BY <1>1, <1>2, <1>3, <1>4, <1>5, <1>6, <1>7, <1>8, <1>9, <1>10,
             <1>11 DEF Next

LEMMA SignInHolds == Spec => []SignInInv
<1>1. SignInInv /\ [Next]_vars => SignInInv'
  BY SignInStep
<1>. QED  BY <1>1, SignInStart, PTL DEF Spec

\* For any calls, ids, clients and faults: an account id stays registered
\* for its client and its subject (auth.rs, complete).
THEOREM BindingHolds == Spec => RegistrationBinding
<1>1. SignInInv /\ [Next]_vars =>
        [\A id \in Ids : Registered(id) =>
           /\ Registered(id)'
           /\ vault'.accounts[id].client = vault.accounts[id].client
           /\ vault'.accounts[id].subject = vault.accounts[id].subject]_vars
  BY SignInStep DEF Extended, Registered
<1>. QED  BY <1>1, SignInHolds, PTL DEF Spec, RegistrationBinding

\* For any calls, ids, clients and faults: what an attempt tells its owner
\* and the browser is what the vault holds (auth.rs, begin and complete).
THEOREM AttemptsHold == Spec => []AttemptsAreTrue
<1>1. SignInInv => AttemptsAreTrue
  <2>. SUFFICES ASSUME SignInInv PROVE AttemptsAreTrue
    OBVIOUS
  <2>1. ASSUME NEW t \in Attempts, outcome[t] = "declined",
               NEW id \in Ids, Registered(id)
        PROVE  vault.accounts[id].by # t
    BY <2>1, AttemptsAssumption DEF SignInInv, CallSound, CreditIsDue, Told
  <2>2. ASSUME NEW t \in Attempts, outcome[t] = "saved"
        PROVE  /\ Registered(account[t])
               /\ vault.accounts[account[t]].client = client[t]
               /\ vault.accounts[account[t]].subject = subject[t]
    BY <2>2, AttemptsAssumption
       DEF SignInInv, CallSound, Told, Entered, Registered
  <2>3. HostIdIsKept
    BY AttemptsAssumption DEF HostIdIsKept, SignInInv, CallSound, HostTold,
                              Abroad
  <2>. QED  BY <2>1, <2>2, <2>3 DEF AttemptsAreTrue, OutcomeIsTrue
<1>. QED  BY <1>1, SignInHolds, PTL
=============================================================================
