--------------------------- MODULE SshCredentials ---------------------------
(* Identity and trust of one SSH connection of the native app: the saved      *)
(* profile and its canonical identity, the credential staged for the next     *)
(* attempt, the credential vault of the operating system with the manager's   *)
(* in-memory quarantine, the live lease of the session, and the host keys     *)
(* approved through challenges (manager.rs, credential_vault.rs,              *)
(* credential_lease.rs, known_hosts.rs). A command runs under command_gate    *)
(* and is one action; an attempt to connect releases that gate while it       *)
(* shakes hands, so its steps interleave with the commands.                   *)
(*                                                                            *)
(* A password and a key passphrase are handled alike: both are a secret kept  *)
(* under the identity (host, port, user, auth mode) it was given for.         *)
EXTENDS Integers, FiniteSets

CONSTANTS Idents,        \* canonical connection identities
          Secrets,
          HostKeys,      \* the keys a server may offer, all of one algorithm
          RememberFor,   \* REMEMBER_FOR_DAYS
          ChallengeTtl,  \* CHALLENGE_TTL_SECONDS
          MaxNow, MaxStaged, MaxAttempt, MaxVaultFault \* bounds

ASSUME CredAssumption == "absent" \notin Idents /\ RememberFor \in Nat /\ ChallengeTtl \in Nat

VARIABLES profile,    \* the stored connection's identity, or Absent
          vault,      \* identity -> the record the vault holds
          quarantine, \* rejected_credentials
          staged,     \* loaded_passwords / loaded_keys
          link,       \* the connection: down, handshake, up, lost
          attempt,    \* the handshake in progress
          lease,      \* the credential of the live session
          trusted,    \* trust document: revision and keys of the endpoint
          challenges, \* HostKeyChallengeBook
          serverTakes,    \* the secret the server takes now
          cclock, attempts, stagings, vaultFaults,
          refused,    \* history: records the server refused on automatic reuse
          usedUp,      \* history: staged credentials an attempt has used
          pending     \* history: a cleanup answered CREDENTIAL_CLEANUP_PENDING

cvars == <<profile, vault, quarantine, staged, link, attempt, lease, trusted, challenges,
           serverTakes, cclock, attempts, stagings, vaultFaults, refused, usedUp, pending>>

Absent  == "absent"
NoRec   == [n |-> 0]
NotStaged == [n |-> 0, secret |-> Absent]
NoTry   == [pc |-> "none"]

(* CredentialRecord::new and the status a read of the vault answers.          *)
Record(n, s)  == [n |-> n, secret |-> s, exp |-> cclock + RememberFor, rejected |-> FALSE]
is_expired(r) == r.exp <= cclock
Saved(i)      == vault[i] # NoRec /\ ~is_expired(vault[i]) /\ ~vault[i].rejected

(* A lease: whose it is, its secret, whether it was reused from the vault,    *)
(* and when it expires (Never: it was typed and not saved).                   *)
NeverExp == -1
Lease(i, n, s, saved, exp) == [id |-> i, n |-> n, secret |-> s, saved |-> saved, exp |-> exp]
NoLease == [n |-> 0]
Fresh(l) == l = NoLease \/ l.exp = NeverExp \/ l.exp > cclock

CredInit ==
  /\ profile \in Idents \cup {Absent}
  /\ vault = [i \in Idents |-> NoRec] /\ quarantine = {} /\ staged = NotStaged
  /\ link = "down" /\ attempt = NoTry /\ lease = NoLease
  /\ \E ks \in SUBSET HostKeys : Cardinality(ks) <= 1 /\ trusted = [rev |-> 0, keys |-> ks]
  /\ challenges = {}
  /\ serverTakes \in Secrets /\ cclock = 0 /\ attempts = 0 /\ stagings = 0 /\ vaultFaults = 0
  /\ refused = {} /\ usedUp = {} /\ pending = FALSE

(* A call into the vault: it succeeds, or fails within the bound.             *)
VaultOk     == UNCHANGED vaultFaults
VaultFails  == vaultFaults < MaxVaultFault /\ vaultFaults' = vaultFaults + 1
Without(i)  == [vault EXCEPT ![i] = NoRec]

----------------------------------------------------------------------------
(* The commands.                                                              *)

create_connection(i) ==
  /\ profile = Absent /\ profile' = i
  /\ UNCHANGED <<vault, quarantine, staged, link, attempt, lease, trusted, challenges, serverTakes,
                 cclock, attempts, stagings, vaultFaults, refused, usedUp, pending>>

(* forget_saved_connection_credentials after the store has committed `next`:  *)
(* the credential goes, or the profile is put back, or neither can be done.   *)
ForgetAfterCommit(next) ==
  \/ /\ profile' = next /\ VaultOk /\ vault' = Without(profile)
     /\ quarantine' = quarantine \ {profile} /\ staged' = NotStaged /\ UNCHANGED pending
  \/ /\ VaultFails /\ UNCHANGED <<vault, quarantine, staged>>
     /\ \/ profile' = profile /\ UNCHANGED pending
        \/ profile' = next /\ pending' = TRUE

update_connection(i) ==
  /\ profile # Absent /\ link = "down" /\ i # profile
  /\ ForgetAfterCommit(i)
  /\ UNCHANGED <<link, attempt, lease, trusted, challenges, serverTakes, cclock, attempts, stagings, refused, usedUp>>

delete_connection ==
  /\ profile # Absent /\ link = "down"
  /\ ForgetAfterCommit(Absent)
  /\ challenges' = IF profile' = Absent /\ ~pending' THEN {} ELSE challenges
  /\ UNCHANGED <<link, attempt, lease, trusted, serverTakes, cclock, attempts, stagings, refused, usedUp>>

(* load_connection_password and load_connection_key replace what was staged.  *)
load_connection_password(s, remember) ==
  /\ profile # Absent /\ stagings < MaxStaged /\ stagings' = stagings + 1
  /\ staged' = [n |-> stagings + 1, secret |-> s, id |-> profile, remember |-> remember]
  /\ UNCHANGED <<profile, vault, quarantine, link, attempt, lease, trusted, challenges, serverTakes,
                 cclock, attempts, vaultFaults, refused, usedUp, pending>>

forget_credential ==
  /\ profile # Absent
  /\ \/ /\ VaultOk /\ vault' = Without(profile) /\ staged' = NotStaged
        /\ quarantine' = quarantine \ {profile}
     \/ VaultFails /\ UNCHANGED <<vault, staged, quarantine>>
  /\ UNCHANGED <<profile, link, attempt, lease, trusted, challenges, serverTakes, cclock, attempts, stagings,
                 refused, usedUp, pending>>

(* approve_connection_host: the challenge must be unexpired, of the current   *)
(* generation, and issued against the current trust revision.                 *)
approve(c) == c.exp > cclock /\ c.gen = attempts /\ c.rev = trusted.rev
approve_connection_host(c) ==
  /\ profile # Absent /\ approve(c)
  /\ trusted' = [rev |-> trusted.rev + 1, keys |-> trusted.keys \cup {c.key}]
  /\ challenges' = {d \in challenges : d.exp > cclock} \ {c}
  /\ staged' = NotStaged
  /\ UNCHANGED <<profile, vault, quarantine, link, attempt, lease, serverTakes, cclock, attempts, stagings,
                 vaultFaults, refused, usedUp, pending>>

(* purge_scope: the profile is already gone; every record of the scope goes.  *)
purge_scope ==
  /\ profile = Absent /\ link = "down"
  /\ VaultOk /\ vault' = [i \in Idents |-> NoRec]
  /\ UNCHANGED <<profile, quarantine, staged, link, attempt, lease, trusted, challenges, serverTakes,
                 cclock, attempts, stagings, refused, usedUp, pending>>

(* LoadedPasswordCleanup drops what the attempt was given, however it ends,   *)
(* but not a credential that was staged meanwhile.                            *)
Cleaned == IF attempt.given # NotStaged /\ staged = attempt.given THEN NotStaged ELSE staged
disconnect_connection ==
  /\ link # "down" /\ link' = "down" /\ attempt' = NoTry /\ lease' = NoLease
  /\ staged' = IF attempt = NoTry THEN staged ELSE Cleaned
  /\ UNCHANGED <<profile, vault, quarantine, trusted, challenges, serverTakes, cclock, attempts, stagings,
                 vaultFaults, refused, usedUp, pending>>

----------------------------------------------------------------------------
(* An attempt. connect_connection copies the profile, the trust document and  *)
(* the staged credential, then goes on without the gate.                      *)

Try(live) ==
  [pc |-> "transport", id |-> profile, trust |-> trusted, live |-> live,
   given |-> IF live = NoLease THEN staged ELSE NotStaged, uses |-> NoLease]

connect_connection ==
  /\ profile # Absent /\ link = "down" /\ attempts < MaxAttempt
  /\ attempts' = attempts + 1 /\ link' = "handshake" /\ attempt' = Try(NoLease)
  /\ usedUp' = usedUp \cup {staged.n}
  /\ UNCHANGED <<profile, vault, quarantine, staged, lease, trusted, challenges, serverTakes, cclock,
                 stagings, vaultFaults, refused, pending>>

(* reconnect_v2_connection starts over with the live lease of the session.    *)
reconnect_v2_connection ==
  /\ link = "lost" /\ attempt = NoTry /\ profile # Absent
  /\ attempt' = Try(lease)
  /\ UNCHANGED <<profile, vault, quarantine, staged, link, lease, trusted, challenges, serverTakes,
                 cclock, attempts, stagings, vaultFaults, refused, usedUp, pending>>

(* How an attempt ends.                                                       *)
Ends(to, l) == link' = to /\ attempt' = NoTry /\ lease' = l /\ staged' = Cleaned
Down == Ends("down", NoLease)

(* The server offers a key; inspect_trust decides on the copied document. An  *)
(* unknown endpoint gets a challenge, a changed key is an error.              *)
inspect_trust(t, k) ==
  CASE k \in t.keys -> "trusted" [] t.keys = {} -> "unknown" [] OTHER -> "changed"
issue_or_repeat(k) ==
  {c \in challenges : c.exp > cclock}
    \cup (IF \E c \in challenges : c.exp > cclock /\ c.gen = attempts /\ c.key = k /\ c.rev = attempt.trust.rev
          THEN {} ELSE {[gen |-> attempts, rev |-> attempt.trust.rev, key |-> k, exp |-> cclock + ChallengeTtl]})

Transport(k) ==
  /\ attempt.pc = "transport"
  /\ IF inspect_trust(attempt.trust, k) = "trusted"
     THEN attempt' = [attempt EXCEPT !.pc = "resolve"] /\ UNCHANGED <<link, lease, staged, challenges>>
     ELSE /\ Down
          /\ challenges' = IF inspect_trust(attempt.trust, k) = "unknown" /\ attempt.live = NoLease
                           THEN issue_or_repeat(k) ELSE challenges
  /\ UNCHANGED <<profile, vault, quarantine, trusted, serverTakes, cclock, attempts, stagings, vaultFaults,
                 refused, usedUp, pending>>

(* A transport that cannot be reached: a reconnect tries again later.         *)
Unreachable ==
  /\ attempt.pc = "transport"
  /\ IF link = "lost" THEN attempt' = NoTry /\ UNCHANGED <<link, lease, staged>> ELSE Down
  /\ UNCHANGED <<profile, vault, quarantine, trusted, challenges, serverTakes, cclock, attempts, stagings,
                 vaultFaults, refused, usedUp, pending>>

(* resolve_credentials: the staged credential, else the saved one unless it   *)
(* is rejected, quarantined, expired or unreadable, else none (the agent).    *)
FromVault == Lease(attempt.id, vault[attempt.id].n, vault[attempt.id].secret, TRUE, vault[attempt.id].exp)
Uses(l) == attempt' = [attempt EXCEPT !.pc = "auth", !.uses = l] /\ UNCHANGED <<link, lease, staged>>
Given   == Lease(attempt.given.id, 0, attempt.given.secret, FALSE, NeverExp)

resolve_credentials ==
  /\ attempt.pc = "resolve" /\ attempt.live = NoLease
  /\ \/ attempt.given # NotStaged /\ Uses(Given) /\ VaultOk /\ UNCHANGED vault
     \/ /\ attempt.given = NotStaged /\ attempt.id \notin quarantine
        /\ \/ Saved(attempt.id) /\ Uses(FromVault) /\ VaultOk /\ UNCHANGED vault
           \/ /\ ~Saved(attempt.id) /\ Uses(NoLease) /\ VaultOk
              /\ vault' = IF vault[attempt.id] # NoRec /\ is_expired(vault[attempt.id])
                          THEN Without(attempt.id) ELSE vault
           \/ vault[attempt.id] # NoRec /\ Uses(NoLease) /\ VaultFails /\ UNCHANGED vault
     \/ attempt.given = NotStaged /\ attempt.id \in quarantine /\ Uses(NoLease) /\ VaultOk /\ UNCHANGED vault
  /\ UNCHANGED <<profile, quarantine, trusted, challenges, serverTakes, cclock, attempts, stagings,
                 refused, usedUp, pending>>

(* resolve_live_credentials: the lease must be of this identity, and neither  *)
(* quarantined nor (ensure_credential_fresh) expired.                         *)
LiveOk == attempt.live.id = attempt.id /\ attempt.id \notin quarantine /\ Fresh(attempt.live)
resolve_live_credentials ==
  /\ attempt.pc = "resolve" /\ attempt.live # NoLease
  /\ IF LiveOk THEN Uses(attempt.live) ELSE Down
  /\ UNCHANGED <<profile, vault, quarantine, trusted, challenges, serverTakes, cclock, attempts, stagings,
                 vaultFaults, refused, usedUp, pending>>

\* Mutant: a vault that fails twice leaves the rejected secret usable.
mark_saved_credential_rejected_BestEffort(i) ==
  \/ /\ VaultOk /\ quarantine' = quarantine \cup {i}
     /\ vault' = IF vault[i] = NoRec THEN vault ELSE [vault EXCEPT ![i].rejected = TRUE]
  \/ VaultFails /\ vault' = Without(i) /\ quarantine' = quarantine \ {i}
  \/ VaultFails /\ UNCHANGED <<vault, quarantine>>

(* mark_saved_credential_rejected: marked in the vault, else deleted from it, *)
(* else kept out by the quarantine alone.                                     *)
mark_saved_credential_rejected(i) ==
  \/ /\ VaultOk /\ quarantine' = quarantine \cup {i}
     /\ vault' = IF vault[i] = NoRec THEN vault ELSE [vault EXCEPT ![i].rejected = TRUE]
  \/ VaultFails /\ vault' = Without(i) /\ quarantine' = quarantine \ {i}
  \/ VaultFails /\ UNCHANGED vault /\ quarantine' = quarantine \cup {i}

(* The server's answer. Without a credential the agent decides.               *)
Refused ==
  /\ attempt.pc = "auth"
  /\ attempt.uses # NoLease => attempt.uses.secret # serverTakes
  /\ IF attempt.uses # NoLease /\ attempt.uses.saved
     THEN mark_saved_credential_rejected(attempt.uses.id) /\ refused' = refused \cup {attempt.uses.n}
     ELSE VaultOk /\ UNCHANGED <<vault, quarantine, refused>>
  /\ Down
  /\ UNCHANGED <<profile, trusted, challenges, serverTakes, cclock, attempts, stagings, usedUp, pending>>

Accepted ==
  /\ attempt.pc = "auth"
  /\ attempt.uses # NoLease => attempt.uses.secret = serverTakes
  /\ attempt' = [attempt EXCEPT !.pc = "save"]
  /\ UNCHANGED <<profile, vault, quarantine, staged, link, lease, trusted, challenges, serverTakes,
                 cclock, attempts, stagings, vaultFaults, refused, usedUp, pending>>

(* save_credential_if_requested, then commit_established. A save that fails   *)
(* is only reported; a success lifts the quarantine.                          *)
Save ==
  /\ attempt.pc = "save"
  /\ LET l == attempt.uses
         wants == attempt.given # NotStaged /\ attempt.given.remember
         r == Record(attempts, l.secret)
     IN \/ /\ wants /\ VaultOk /\ vault' = [vault EXCEPT ![l.id] = r]
           /\ quarantine' = quarantine \ {l.id}
           /\ Ends("up", [l EXCEPT !.exp = r.exp])
        \/ /\ IF wants THEN VaultFails ELSE VaultOk
           /\ UNCHANGED <<vault, quarantine>> /\ Ends("up", l)
  /\ UNCHANGED <<profile, trusted, challenges, serverTakes, cclock, attempts, stagings, refused, usedUp, pending>>

----------------------------------------------------------------------------
(* The world: the session is lost, the server's secret changes, time passes,  *)
(* and sweep_expired deletes what has expired.                                *)
SessionLost ==
  /\ link = "up" /\ link' = "lost"
  /\ UNCHANGED <<profile, vault, quarantine, staged, attempt, lease, trusted, challenges, serverTakes,
                 cclock, attempts, stagings, vaultFaults, refused, usedUp, pending>>
Rotates(s) ==
  /\ s # serverTakes /\ serverTakes' = s
  /\ UNCHANGED <<profile, vault, quarantine, staged, link, attempt, lease, trusted, challenges,
                 cclock, attempts, stagings, vaultFaults, refused, usedUp, pending>>
Tick ==
  /\ cclock < MaxNow /\ cclock' = cclock + 1
  /\ UNCHANGED <<profile, vault, quarantine, staged, link, attempt, lease, trusted, challenges,
                 serverTakes, attempts, stagings, vaultFaults, refused, usedUp, pending>>
sweep_expired ==
  /\ \E i \in Idents : vault[i] # NoRec /\ is_expired(vault[i])
  /\ vault' = [i \in Idents |-> IF vault[i] # NoRec /\ is_expired(vault[i]) THEN NoRec ELSE vault[i]]
  /\ UNCHANGED <<profile, quarantine, staged, link, attempt, lease, trusted, challenges, serverTakes,
                 cclock, attempts, stagings, vaultFaults, refused, usedUp, pending>>

CredNext ==
  \/ \E i \in Idents : create_connection(i) \/ update_connection(i)
  \/ delete_connection \/ forget_credential \/ purge_scope
  \/ \E s \in Secrets, r \in BOOLEAN : load_connection_password(s, r)
  \/ \E c \in challenges : approve_connection_host(c)
  \/ connect_connection \/ disconnect_connection \/ reconnect_v2_connection
  \/ \E k \in HostKeys : attempt # NoTry /\ Transport(k)
  \/ attempt # NoTry /\ (Unreachable \/ resolve_credentials \/ resolve_live_credentials)
  \/ attempt # NoTry /\ (Refused \/ Accepted \/ Save)
  \/ SessionLost \/ Tick \/ sweep_expired \/ \E s \in Secrets : Rotates(s)
CredSpec == CredInit /\ [][CredNext]_cvars

----------------------------------------------------------------------------
CredTypeOK ==
  /\ profile \in Idents \cup {Absent} /\ DOMAIN vault = Idents /\ quarantine \subseteq Idents
  /\ link \in {"down", "handshake", "up", "lost"} /\ trusted.keys \subseteq HostKeys
  /\ attempt.pc \in {"none", "transport", "resolve", "auth", "save"}
  /\ serverTakes \in Secrets /\ pending \in BOOLEAN

(* A saved credential the server refused is not offered again, whichever of   *)
(* the vault's operations fail: not by a later connect, nor by a reconnect.   *)
RefusedNotReused ==
  attempt.pc = "auth" /\ attempt.uses # NoLease /\ attempt.uses.saved => attempt.uses.n \notin refused

(* No saved credential survives the identity it was saved for: the vault      *)
(* holds records of the stored profile only, unless a cleanup that could not  *)
(* be undone has been reported.                                               *)
VaultFollowsProfile ==
  ~pending => \A i \in Idents : vault[i] # NoRec => i = profile

(* An endpoint never has two trusted keys of one algorithm, however many      *)
(* challenges were pending when one was approved.                             *)
OneKeyPerEndpoint == Cardinality(trusted.keys) <= 1

(* A typed credential does not outlive the attempt that used it.              *)
StagedUsedOnce == attempt = NoTry /\ staged # NotStaged => staged.n \notin usedUp

(* A secret is only ever offered under the identity it was given for: a       *)
(* credential typed for one endpoint or user is not used for the profile's    *)
(* next one, unless the update ended in a cleanup it could not undo.          *)
SecretKeepsIdentity ==
  ~pending /\ attempt.pc = "auth" /\ attempt.uses # NoLease => attempt.uses.id = profile

(* Secrets and host keys stay where the user put them: with the profile's      *)
(* identity, for one attempt when they were typed, and never again once the    *)
(* server refused them (manager.rs, credential_vault.rs, known_hosts.rs).      *)
SecretsConfined ==
  /\ CredTypeOK /\ RefusedNotReused /\ VaultFollowsProfile
  /\ OneKeyPerEndpoint /\ StagedUsedOnce /\ SecretKeepsIdentity
=============================================================================
