------------------------------- MODULE SignIn -------------------------------
(***************************************************************************)
(* Sign-in and disconnection of ChatGPT accounts (src/auth.rs) on the      *)
(* credential vault: the beginning of an attempt, which gives the host its *)
(* id, the loop that waits for the browser's callback, the exchange, and   *)
(* the transaction that registers the account.  Minutes may pass between   *)
(* the two transactions of an attempt, and others may run meanwhile.       *)
(*                                                                         *)
(* The vault is [host, accounts]; a registration is [client, subject,      *)
(* by], where "by" names the attempt that obtained its credentials, or is  *)
(* NoCall when the account is disconnected.                                *)
(***************************************************************************)
EXTENDS CredentialVault

CONSTANTS Attempts,       \* the calls that sign in; the others disconnect
          Ids, Clients, Subjects,
          NoId, NoClient, NoAccount,
          IdOf,           \* the account id that a client id hashes to
          MaxFaults

ASSUME IdOfAssumption == IdOf \in [Clients -> Ids]
ASSUME AttemptsAssumption == Attempts \subseteq Calls
ASSUME SubjectsAssumption == Subjects # {}
ASSUME NoAccountAssumption ==
  NoAccount \notin [client: Clients, subject: Subjects,
                    by: Calls \cup {NoCall}]

VARIABLES pc,
          goal,      \* "host" or "account": what the call is to save
          account,   \* the id that the call is about, or NoId
          chosen,    \* the registration that the attempt selected
          client,    \* the client id of the accepted callback
          subject,   \* the subject of the validated identity
          url,       \* the host id of the authorization URL
          outcome,   \* how the call ended
          hosts,     \* the host ids drawn so far
          faults

callVars == <<pc, goal, account, chosen, client, subject, url, outcome>>
vars == <<storeVars, callVars, hosts, faults>>

Registered(id) == vault.accounts[id] # NoAccount

Init ==
  /\ lock = NoCall /\ index = Missing /\ gens = 0
  /\ vault = [host |-> 0, accounts |-> [i \in Ids |-> NoAccount]]
  /\ copy = [c \in Calls |-> [vault |-> vault, gen |-> 0]]
  /\ pc = [c \in Calls |-> "start"]
  /\ goal = [c \in Calls |-> "account"]
  /\ account = [c \in Calls |-> NoId] /\ chosen = [c \in Calls |-> NoAccount]
  /\ client = [c \in Calls |-> NoClient]
  /\ subject = [c \in Calls |-> CHOOSE s \in Subjects : TRUE]
  /\ url = [c \in Calls |-> 0] /\ outcome = [c \in Calls |-> "none"]
  /\ hosts = 0 /\ faults = 0

At(c, s) == pc[c] = s
To(c, s) == pc' = [pc EXCEPT ![c] = s]
End(c, o) == To(c, "done") /\ outcome' = [outcome EXCEPT ![c] = o]
-----------------------------------------------------------------------------
(* A variant that shows the authorization page before the id is saved.     *)
OpenUnsaved(t) ==
  \E id \in Ids \cup {NoId} :
    /\ At(t, "start") /\ LoadLocked(t, FALSE) /\ Hold(t, vault)
    /\ id # NoId => Registered(id)
    /\ account' = [account EXCEPT ![t] = id]
    /\ chosen' = [chosen EXCEPT ![t] = IF id = NoId THEN NoAccount
                                       ELSE vault.accounts[id]]
    /\ hosts' = IF vault.host = 0 THEN hosts + 1 ELSE hosts
    /\ url' = [url EXCEPT ![t] = IF vault.host = 0 THEN hosts + 1
                                 ELSE vault.host]
    /\ To(t, "waiting")
    /\ UNCHANGED <<goal, client, subject, outcome, faults>>

(* ensure_host_id: the id is missing, or of the kind an earlier version    *)
(* wrote.                                                                  *)
NeedsHost == vault.host = 0

(* begin_chatgpt_sign_in reads the registration that is to sign in again,  *)
(* and gives the host an id if it has none; it goes on with the lock only  *)
(* to save that.                                                           *)
Open(t) ==
  \E id \in Ids \cup {NoId} :
    /\ At(t, "start") /\ LoadLocked(t, NeedsHost)
    /\ id # NoId => Registered(id)
    /\ account' = [account EXCEPT ![t] = id]
    /\ chosen' = [chosen EXCEPT ![t] = IF id = NoId THEN NoAccount
                                       ELSE vault.accounts[id]]
    /\ IF NeedsHost
         THEN /\ hosts' = hosts + 1
              /\ Hold(t, [vault EXCEPT !.host = hosts + 1])
              /\ goal' = [goal EXCEPT ![t] = "host"] /\ To(t, "saving")
              /\ UNCHANGED url
         ELSE /\ url' = [url EXCEPT ![t] = vault.host] /\ To(t, "waiting")
              /\ Hold(t, vault) /\ UNCHANGED <<goal, hosts>>
    /\ UNCHANGED <<client, subject, outcome, faults>>

(* A request to the loopback listener, as validate_callback reads it.      *)
Callbacks == [own: BOOLEAN, error: BOOLEAN, code: BOOLEAN,
              client: Clients \cup {NoClient}]

(* The client id that an attempt accepts: its registration's, or for a new *)
(* account the one that was issued.                                        *)
Accepts(t, r) ==
  /\ r.own /\ ~r.error /\ r.code
  /\ IF chosen[t] = NoAccount THEN r.client # NoClient
     ELSE r.client \in {NoClient, chosen[t].client}

(* receive_callback: requests that are malformed, stale or of somebody     *)
(* else are answered and forgotten; a denial with the state of the attempt *)
(* ends it.                                                                *)
Receive(t, r) ==
  /\ At(t, "waiting")
  /\ \/ /\ Accepts(t, r) /\ To(t, "exchanging")
        /\ client' = [client EXCEPT ![t] = IF chosen[t] = NoAccount
                                     THEN r.client ELSE chosen[t].client]
        /\ UNCHANGED outcome
     \/ r.own /\ r.error /\ End(t, "declined") /\ UNCHANGED client
  /\ UNCHANGED <<storeVars, goal, account, chosen, subject, url, hosts,
                 faults>>

TimeOut(t) ==
  /\ At(t, "waiting") /\ End(t, "declined")
  /\ UNCHANGED <<storeVars, goal, account, chosen, client, subject, url,
                 hosts, faults>>

(* The identity token holds (its signature, issuer, audience, expiry and   *)
(* nonce are one choice here), and names the subject that the selected     *)
(* registration is bound to.                                               *)
Confirmed(t, s, granted) ==
  granted /\ (chosen[t] # NoAccount => s = chosen[t].subject)

(* The code is exchanged and the identity validated.  A permission that is *)
(* not granted is refused like another identity.                           *)
Exchange(t, s, granted) ==
  /\ At(t, "exchanging")
  /\ IF Confirmed(t, s, granted)
       THEN /\ subject' = [subject EXCEPT ![t] = s]
            /\ account' = [account EXCEPT ![t] = IF chosen[t] = NoAccount
                                                   THEN IdOf[client[t]] ELSE @]
            /\ To(t, "loading") /\ UNCHANGED outcome
       ELSE End(t, "declined") /\ UNCHANGED <<subject, account>>
  /\ UNCHANGED <<storeVars, goal, chosen, client, url, hosts, faults>>

Registration(t) == [client |-> client[t], subject |-> subject[t], by |-> t]

(* A variant that does not look at the registration it replaces.           *)
RegisterBlindly(t) ==
  /\ At(t, "loading") /\ LoadLocked(t, TRUE)
  /\ Hold(t, [vault EXCEPT !.accounts[account[t]] = Registration(t)])
  /\ goal' = [goal EXCEPT ![t] = "account"] /\ To(t, "saving")
  /\ UNCHANGED <<account, chosen, client, subject, url, outcome, hosts, faults>>

(* complete opens the vault again: the id may be registered by now, and    *)
(* then has to belong to the same client and subject.                      *)
Register(t) ==
  LET old == vault.accounts[account[t]]
      same == old # NoAccount => /\ old.client = client[t]
                                 /\ old.subject = subject[t] IN
  /\ At(t, "loading") /\ LoadLocked(t, same)
  /\ IF same
       THEN /\ Hold(t, [vault EXCEPT !.accounts[account[t]] = Registration(t)])
            /\ goal' = [goal EXCEPT ![t] = "account"]
            /\ To(t, "saving") /\ UNCHANGED outcome
       ELSE Hold(t, vault) /\ End(t, "declined") /\ UNCHANGED goal
  /\ UNCHANGED <<account, chosen, client, subject, url, hosts, faults>>

(* disconnect_chatgpt: the credentials go, the registration stays.         *)
Disconnect(c) ==
  \E id \in Ids :
    /\ At(c, "start") /\ Registered(id)
    /\ LoadLocked(c, TRUE)
    /\ Hold(c, [vault EXCEPT !.accounts[id].by = NoCall])
    /\ account' = [account EXCEPT ![c] = id] /\ To(c, "saving")
    /\ UNCHANGED <<goal, chosen, client, subject, url, outcome, hosts, faults>>

Save(c) ==
  /\ \/ At(c, "saving") /\ Invalidate(c) /\ To(c, "storing")
     \/ At(c, "storing") /\ Keep(c) /\ To(c, "publishing")
  /\ UNCHANGED <<goal, account, chosen, client, subject, url, outcome, hosts,
                 faults>>

(* The transaction ends: an attempt goes on to the browser with the id     *)
(* that the vault now holds, or is connected.                              *)
EndSave(c) ==
  /\ At(c, "publishing") /\ Publish(c)
  /\ IF goal[c] = "host"
       THEN /\ To(c, "waiting")
            /\ url' = [url EXCEPT ![c] = copy[c].vault.host]
            /\ UNCHANGED outcome
       ELSE End(c, "saved") /\ UNCHANGED url
  /\ UNCHANGED <<goal, account, chosen, client, subject, hosts, faults>>

(* The lock is taken, the store or the network fails, or the process dies. *)
Fail(c) ==
  /\ pc[c] \notin {"done", "waiting"}
  /\ \/ pc[c] \in {"start", "loading"} /\ lock # NoCall /\ UNCHANGED faults
     \/ faults < MaxFaults /\ faults' = faults + 1
  /\ End(c, "failed") /\ lock' = Unlocked(c)
  /\ UNCHANGED <<index, vault, gens, copy, goal, account, chosen, client,
                 subject, url, hosts>>

(* The owner of an attempt gives it up; from its saving on it ends without *)
(* the owner.                                                              *)
GiveUp(t) ==
  /\ pc[t] \in {"waiting", "exchanging", "loading"} /\ End(t, "failed")
  /\ UNCHANGED <<storeVars, goal, account, chosen, client, subject, url,
                 hosts, faults>>

Next ==
  \/ \E t \in Attempts :
       \/ Open(t) \/ TimeOut(t) \/ Register(t) \/ GiveUp(t)
       \/ \E r \in Callbacks : Receive(t, r)
       \/ \E s \in Subjects, granted \in BOOLEAN : Exchange(t, s, granted)
  \/ \E c \in Calls \ Attempts : Disconnect(c)
  \/ \E c \in Calls : Save(c) \/ EndSave(c) \/ Fail(c)

Spec == Init /\ [][Next]_vars
-----------------------------------------------------------------------------
(* An account id stays with the client and the subject it was registered   *)
(* for, and is never unregistered, whichever attempts and disconnections   *)
(* overlap, and although different client ids may hash to one id.          *)
RegistrationBinding ==
  [][\A id \in Ids : Registered(id) =>
       /\ Registered(id)'
       /\ vault'.accounts[id].client = vault.accounts[id].client
       /\ vault'.accounts[id].subject = vault.accounts[id].subject]_vars

(* An attempt that was declined, timed out or refused left nothing in the  *)
(* vault, and one that was reported as connected is registered for the     *)
(* client and the subject it was completed with.                           *)
OutcomeIsTrue ==
  \A t \in Attempts :
    /\ outcome[t] = "declined" =>
         \A id \in Ids : Registered(id) => vault.accounts[id].by # t
    /\ outcome[t] = "saved" =>
         /\ Registered(account[t])
         /\ vault.accounts[account[t]].client = client[t]
         /\ vault.accounts[account[t]].subject = subject[t]

(* What the browser is told about the host is what the vault remembers,    *)
(* also when two attempts begin together and when saving fails: "Caller    *)
(* must persist a changed ID under the vault lock before authorization".   *)
HostIdIsKept ==
  \A t \in Attempts : pc[t] \in {"waiting", "exchanging", "loading"}
                        => url[t] = vault.host

(* What an attempt says, to the browser and to its owner, is what the      *)
(* vault holds.                                                            *)
AttemptsAreTrue == OutcomeIsTrue /\ HostIdIsKept
=============================================================================
