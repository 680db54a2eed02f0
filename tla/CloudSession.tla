------------------------------- MODULE CloudSession -------------------------------
(***************************************************************************)
(* internal/cloudauth: the commands of one user share the renewable        *)
(* credential of an endpoint in the keyring.  Each takes a file lock,      *)
(* sends the credential to the service, which may answer with its          *)
(* successor, and saves what it got before it uses the access token.  The  *)
(* service honours the newest credential of a session, and ends a session  *)
(* that is renewed with an older one.                                      *)
(* A credential is <<session, number>>; sessions are numbered by logins.   *)
(***************************************************************************)
EXTENDS Naturals

CONSTANTS Command,    \* processes of one user
          MaxLogins,  \* bound: sessions
          MaxRenewals, \* bound: of a session
          MaxLosses   \* bound: processes killed, answers and saves lost

ASSUME CloudSessionAssumption ==
  MaxLogins \in Nat /\ MaxRenewals \in Nat \ {0} /\ MaxLosses \in Nat

VARIABLES keyring,    \* the stored credential, or NoCredential
          keyLock,    \* commands that hold the lock: one at most
          login,      \* of each command: what it is doing
          got,        \* of each command: the credential it loaded or was given
          credentials, \* of the service: the newest of each session, 0: it ended
          loginsMade, \* sessions the service has given out
          losses      \* bound, and the sessions they befell (history)

sessionVars == <<keyring, keyLock, login, got, credentials, loginsMade, losses>>

NoCredential == <<0, 0>>

CloudSessionInit ==
  /\ keyring = NoCredential /\ keyLock = {}
  /\ login = [p \in Command |-> "idle"] /\ got = [p \in Command |-> NoCredential]
  /\ credentials = [n \in 1..MaxLogins |-> 0] /\ loginsMade = 0
  /\ losses = [count |-> 0, lost |-> {}]

Honoured(k) == k # NoCredential /\ credentials[k[1]] = k[2]

Losing(k) == [count |-> losses.count + 1, lost |-> losses.lost \cup {k[1]}]

\* Login up to the answer of the device exchange (ExchangeDeviceCode): no lock.
ExchangeDevice(p) ==
  /\ login[p] = "idle" /\ loginsMade < MaxLogins
  /\ loginsMade' = loginsMade + 1
  /\ credentials' = [credentials EXCEPT ![loginsMade + 1] = 1]
  /\ got' = [got EXCEPT ![p] = <<loginsMade + 1, 1>>]
  /\ login' = [login EXCEPT ![p] = "accept"]
  /\ UNCHANGED <<keyring, keyLock, losses>>

\* Mutant of LockStore: the lock is not there.
MutantLockStore(p) == keyLock' = keyLock \cup {p}

LockStore(p) == keyLock = {} /\ keyLock' = {p}

\* accept; the lock may not be had within a minute, and the session is lost.
AcceptLogin(p) ==
  /\ login[p] = "accept"
  /\ LockStore(p)
  /\ login' = [login EXCEPT ![p] = "save"]
  /\ UNCHANGED <<keyring, got, credentials, loginsMade, losses>>

\* Token, when there is no access token or it has expired.
LoadCredential(p) ==
  /\ login[p] = "idle" /\ keyring # NoCredential
  /\ LockStore(p)
  /\ got' = [got EXCEPT ![p] = keyring]
  /\ login' = [login EXCEPT ![p] = "renew"]
  /\ UNCHANGED <<keyring, credentials, loginsMade, losses>>

Renewed(k) == <<k[1], k[2] + 1>>

\* Refresh: renewed, with a successor or without one; refused; or not answered.
RenewSession(p) ==
  /\ login[p] = "renew"
  /\ IF Honoured(got[p])
       THEN \/ /\ got[p][2] < MaxRenewals
               /\ credentials' = [credentials EXCEPT ![got[p][1]] = @ + 1]
               /\ got' = [got EXCEPT ![p] = Renewed(@)]
               /\ login' = [login EXCEPT ![p] = "save"]
            \/ login' = [login EXCEPT ![p] = "save"] /\ UNCHANGED <<credentials, got>>
       ELSE /\ credentials' = [credentials EXCEPT ![got[p][1]] = 0]
            /\ login' = [login EXCEPT ![p] = "unlock"]
            /\ UNCHANGED got
  /\ UNCHANGED <<keyring, keyLock, loginsMade, losses>>

\* The answer of the service does not come back.
RenewalLost(p) ==
  /\ login[p] = "renew" /\ Honoured(got[p]) /\ got[p][2] < MaxRenewals
  /\ losses.count < MaxLosses
  /\ credentials' = [credentials EXCEPT ![got[p][1]] = @ + 1]
  /\ losses' = Losing(got[p])
  /\ login' = [login EXCEPT ![p] = "unlock"]
  /\ UNCHANGED <<keyring, keyLock, got, loginsMade>>

\* Mutant of SaveCredential: only a login saves.
MutantSaveCredential(p) ==
  /\ login[p] = "save"
  /\ keyring' = IF keyring = NoCredential THEN got[p] ELSE keyring
  /\ login' = [login EXCEPT ![p] = "unlock"]
  /\ UNCHANGED <<keyLock, got, credentials, loginsMade, losses>>

\* acceptLocked: the credential first, the access token after it.
SaveCredential(p) ==
  /\ login[p] = "save"
  /\ keyring' = got[p]
  /\ login' = [login EXCEPT ![p] = "unlock"]
  /\ UNCHANGED <<keyLock, got, credentials, loginsMade, losses>>

\* The keyring refuses the save: the command fails, the keyring is as before.
SaveFails(p) ==
  /\ login[p] = "save" /\ losses.count < MaxLosses
  /\ losses' = Losing(got[p])
  /\ login' = [login EXCEPT ![p] = "unlock"]
  /\ UNCHANGED <<keyring, keyLock, got, credentials, loginsMade>>

UnlockStore(p) ==
  /\ login[p] = "unlock"
  /\ keyLock' = keyLock \ {p}
  /\ login' = [login EXCEPT ![p] = "idle"]
  /\ got' = [got EXCEPT ![p] = NoCredential]
  /\ UNCHANGED <<keyring, credentials, loginsMade, losses>>

\* Logout: the service is asked to end the session, and whatever it answers the
\* credential is deleted, if the keyring lets it; all under the lock.
LogOut(p) ==
  /\ login[p] = "idle" /\ keyring # NoCredential
  /\ LockStore(p)
  /\ \/ credentials' = [credentials EXCEPT
                          ![keyring[1]] = IF Honoured(keyring) THEN 0 ELSE @]
     \/ UNCHANGED credentials
  /\ \/ keyring' = NoCredential /\ UNCHANGED losses
     \/ /\ losses.count < MaxLosses
        /\ losses' = Losing(keyring) /\ UNCHANGED keyring
  /\ login' = [login EXCEPT ![p] = "unlock"]
  /\ UNCHANGED <<got, loginsMade>>

\* A command is killed; the system gives its lock back.
KillCommand(p) ==
  /\ login[p] # "idle" /\ losses.count < MaxLosses
  /\ losses' = Losing(got[p])
  /\ keyLock' = keyLock \ {p}
  /\ login' = [login EXCEPT ![p] = "idle"]
  /\ got' = [got EXCEPT ![p] = NoCredential]
  /\ UNCHANGED <<keyring, credentials, loginsMade>>

CloudSessionNext ==
  \E p \in Command :
    \/ ExchangeDevice(p) \/ AcceptLogin(p) \/ LoadCredential(p) \/ RenewSession(p)
    \/ RenewalLost(p) \/ SaveCredential(p) \/ SaveFails(p) \/ UnlockStore(p)
    \/ LogOut(p) \/ KillCommand(p)

CloudSessionSpec == CloudSessionInit /\ [][CloudSessionNext]_sessionVars

--------------------------------------------------------------------------------
(***************************************************************************)
(* auth.go:206, "Stores shared by processes/managers can serialize the     *)
(* complete credential rotation": while nobody holds the lock, the stored  *)
(* credential is one the service honours, however many commands renew it   *)
(* at the same time.  (Not after an answer, a save or a delete was lost,   *)
(* or a command killed, in the middle of it.)                              *)
(***************************************************************************)
CredentialHonoured ==
  keyLock = {} /\ keyring # NoCredential /\ keyring[1] \notin losses.lost
    => Honoured(keyring)

CloudSessionTypeOK ==
  /\ keyring[1] \in 0..MaxLogins /\ keyring[2] \in 0..MaxRenewals
  /\ keyLock \subseteq Command
  /\ login \in [Command -> {"idle", "accept", "renew", "save", "unlock"}]
  /\ credentials \in [1..MaxLogins -> 0..MaxRenewals] /\ loginsMade \in 0..MaxLogins
================================================================================
