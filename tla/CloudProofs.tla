------------------------------ MODULE CloudProofs ------------------------------
(***************************************************************************)
(* What the studio gives the Cloud and takes from it, for any number of    *)
(* commands, logins, journals, files and requests, and whatever is lost:   *)
(* the credential in the keyring works, a presentation is created once,    *)
(* what is published is what was here, and transfers, snapshots and        *)
(* differences are whole.  Each of the four parts is proved by itself; the *)
(* studio as a whole then behaves as each of them.                         *)
(***************************************************************************)
EXTENDS Studio, FiniteSetTheorems, TLAPS

--------------------------------------------------------------------------------
\* The credential (CloudSession).

Given == (1..loginsMade) \X Nat

\* The service will take k, or something was lost while k was in use.
Usable(k) == k[1] \in losses.lost \/ Honoured(k)

LockHolder == {"renew", "save", "unlock"}

SessionTyped ==
  /\ loginsMade \in 0..MaxLogins
  /\ credentials \in [1..MaxLogins -> Nat]
  /\ keyring \in Given \cup {NoCredential}
  /\ got \in [Command -> Given \cup {NoCredential}]
  /\ login \in [Command -> {"idle", "accept"} \cup LockHolder]

\* The lock is with the one command between its LockStore and its end.
LockKept ==
  \A p \in Command : login[p] \in LockHolder <=> keyLock = {p}

(***************************************************************************)
(* What a command holds.  One that renews has what is in the keyring; one  *)
(* that saves has a credential that works; before a login is saved nobody  *)
(* else has its session.                                                   *)
(***************************************************************************)
CommandFits(p) ==
  /\ login[p] = "renew" => got[p] = keyring /\ keyring # NoCredential
  /\ login[p] = "save" => /\ got[p] # NoCredential
                          /\ Usable(got[p])
  /\ login[p] = "accept" => /\ got[p] # NoCredential
                            /\ Usable(got[p])
                            /\ keyring[1] # got[p][1]
                            /\ \A q \in Command \ {p} : got[q][1] # got[p][1]

\* The keyring works, or the one who renews it is about to save its successor.
KeyringFits ==
  \/ keyring = NoCredential
  \/ Usable(keyring)
  \/ \E p \in Command : login[p] = "save" /\ got[p][1] = keyring[1]

SessionInv ==
  /\ SessionTyped
  /\ keyLock = {} \/ \E p \in Command : keyLock = {p}
  /\ LockKept
  /\ \A p \in Command : CommandFits(p)
  /\ KeyringFits

\* Nobody logged in at first.
LEMMA SessionInit == CloudSessionInit => SessionInv
<1> SUFFICES ASSUME CloudSessionInit PROVE SessionInv
  OBVIOUS
<1>1. SessionTyped
  BY CloudSessionAssumption
     DEF CloudSessionInit, SessionTyped, Given, LockHolder, NoCredential
<1>2. KeyringFits /\ LockKept /\ \A p \in Command : CommandFits(p)
  BY DEF CloudSessionInit, KeyringFits, LockKept, LockHolder, CommandFits
<1> QED
  BY <1>1, <1>2 DEF CloudSessionInit, SessionInv

\* Every step of a command keeps the invariant.
LEMMA SessionStep == SessionInv /\ [CloudSessionNext]_sessionVars => SessionInv'
<1> SUFFICES ASSUME SessionInv, [CloudSessionNext]_sessionVars
             PROVE  SessionInv'
  OBVIOUS
<1> USE CloudSessionAssumption DEF SessionInv, LockHolder
<1>a. /\ keyring[1] \in 0..loginsMade /\ keyring[2] \in Nat
      /\ keyring # NoCredential =>
           keyring[1] \in 1..loginsMade /\ keyring = <<keyring[1], keyring[2]>>
  BY DEF SessionTyped, Given, NoCredential
<1>b. \A q \in Command :
         /\ got[q][1] \in 0..loginsMade /\ got[q][2] \in Nat
         /\ got[q] # NoCredential =>
              got[q][1] \in 1..loginsMade /\ got[q] = <<got[q][1], got[q][2]>>
  BY DEF SessionTyped, Given, NoCredential
<1>1. CASE UNCHANGED sessionVars
  BY <1>1 DEF sessionVars, SessionTyped, LockKept, CommandFits, KeyringFits, Usable,
              Honoured, Given
<1>2. ASSUME NEW p \in Command, ExchangeDevice(p) PROVE SessionInv'
  <2> USE <1>2 DEF ExchangeDevice
  <2>a. \A k : k # NoCredential /\ k[1] \in 1..loginsMade =>
                Usable(k)' = Usable(k)
    BY DEF SessionTyped, Usable, Honoured
  <2>b. /\ \A q \in Command \ {p} : got'[q] = got[q] /\ login'[q] = login[q]
        /\ got'[p] = <<loginsMade + 1, 1>> /\ login'[p] = "accept"
        /\ credentials'[loginsMade + 1] = 1
    BY DEF SessionTyped
  <2>1. SessionTyped'
    BY DEF SessionTyped, Given, NoCredential, Honoured
  <2>2. (keyLock = {} \/ \E q \in Command : keyLock = {q})' /\ LockKept'
    BY DEF SessionTyped, LockKept
  <2>3. ASSUME NEW q \in Command PROVE CommandFits(q)'
    <3>1. CASE q = p
      <4>1. Honoured(got[p])'
        BY <2>b, CloudSessionAssumption DEF Honoured, NoCredential, SessionTyped
      <4>2. loginsMade + 1 # keyring[1] /\ \A r \in Command \ {p} : got[r][1] # loginsMade + 1
        BY <1>a, <1>b DEF SessionTyped
      <4> QED
        BY <3>1, <2>b, <4>1, <4>2 DEF CommandFits, Usable, NoCredential
    <3>2. CASE q # p
      <4>1. got[q][1] # loginsMade + 1
        BY <1>b DEF SessionTyped
      <4> QED
        BY <3>2, <2>a, <2>b, <1>b, <4>1 DEF CommandFits
    <3> QED
      BY <3>1, <3>2
  <2>4. KeyringFits'
    BY <1>a, <2>a, <2>b DEF KeyringFits
  <2> QED
    BY <2>1, <2>2, <2>3, <2>4
<1>3. ASSUME NEW p \in Command, AcceptLogin(p) PROVE SessionInv'
  BY <1>3 DEF AcceptLogin, LockStore, SessionTyped, LockKept, CommandFits, KeyringFits, Usable,
              Honoured, Given, NoCredential
<1>4. ASSUME NEW p \in Command, LoadCredential(p) PROVE SessionInv'
  BY ZenonT(40), <1>4
  DEF LoadCredential, LockStore, SessionTyped, LockKept, CommandFits, KeyringFits, Usable,
              Honoured, Given, NoCredential
<1>5. ASSUME NEW p \in Command, RenewSession(p) PROVE SessionInv'
  <2> USE <1>5 DEF RenewSession, Renewed
  <2>a. /\ \A q \in Command \ {p} : got'[q] = got[q] /\ login'[q] = login[q]
        /\ got[p] = keyring /\ got[p] # NoCredential /\ got'[p][1] = keyring[1]
        /\ login'[p] \in {"save", "unlock"}
        /\ \A n \in 1..MaxLogins : n # keyring[1] => credentials'[n] = credentials[n]
        /\ login'[p] = "save" => Honoured(got[p]) /\ Honoured(got[p])'
        /\ login'[p] = "unlock" => ~Honoured(got[p])
    <3>1. got[p] = keyring /\ got[p] # NoCredential
      BY DEF CommandFits
    <3>2. CASE Honoured(got[p])
      BY <1>a, <1>b, <3>1, <3>2 DEF SessionTyped, Honoured, NoCredential
    <3>3. CASE ~Honoured(got[p])
      BY <1>a, <1>b, <3>1, <3>3 DEF SessionTyped
    <3> QED
      BY <3>2, <3>3
  <2>b. \A q \in Command : login[q] \in {"renew", "save", "unlock"} => q = p
    BY DEF LockKept
  <2>1. SessionTyped'
    <3>1. got[p] \in Given /\ Renewed(got[p]) \in Given /\ got[p][1] \in 1..MaxLogins
      BY <1>b, <2>a DEF SessionTyped, Given
    <3>2. /\ got' \in [Command -> Given \cup {NoCredential}]
          /\ login' \in [Command -> {"idle", "accept"} \cup LockHolder]
      BY <3>1 DEF SessionTyped
    <3>3. credentials' \in [1..MaxLogins -> Nat]
      BY <3>1 DEF SessionTyped
    <3> QED
      BY <3>2, <3>3 DEF SessionTyped, Given
  <2>2. (keyLock = {} \/ \E q \in Command : keyLock = {q})' /\ LockKept'
    BY DEF SessionTyped, LockKept
  <2>3. ASSUME NEW q \in Command PROVE CommandFits(q)'
    <3>1. CASE q = p
      BY <3>1, <2>a, <1>a DEF CommandFits, Usable, NoCredential
    <3>2. CASE q # p
      <4>1. login[q] = "accept" => Usable(got[q])'
        BY <3>2, <2>a, <1>b DEF SessionTyped, CommandFits, Usable, Honoured
      <4> QED
        BY <3>2, <2>a, <2>b, <4>1 DEF CommandFits
    <3> QED
      BY <3>1, <3>2
  <2>4. KeyringFits'
    <3>1. CASE login'[p] = "save"
      BY <3>1, <2>a DEF KeyringFits
    <3>2. CASE login'[p] = "unlock"
      BY <3>2, <2>a, <2>b DEF KeyringFits, Usable
    <3> QED
      BY <2>a, <3>1, <3>2
  <2> QED
    BY <2>1, <2>2, <2>3, <2>4
<1>6. ASSUME NEW p \in Command, RenewalLost(p) PROVE SessionInv'
  <2> USE <1>6 DEF RenewalLost, Losing
  <2>a. /\ \A q \in Command \ {p} : login'[q] = login[q]
        /\ got[p] = keyring /\ got[p] # NoCredential /\ login'[p] = "unlock"
        /\ \A n \in 1..MaxLogins : n # keyring[1] => credentials'[n] = credentials[n]
        /\ keyring[1] \in losses'.lost /\ losses.lost \subseteq losses'.lost
    <3>1. got[p] = keyring /\ got[p] # NoCredential
      BY DEF CommandFits
    <3> QED
      BY <1>a, <1>b, <3>1 DEF SessionTyped, Honoured, NoCredential
  <2>b. \A q \in Command : login[q] \in {"renew", "save", "unlock"} => q = p
    BY DEF LockKept
  <2>1. SessionTyped'
    BY <1>a, <2>a DEF SessionTyped, Given
  <2>2. (keyLock = {} \/ \E q \in Command : keyLock = {q})' /\ LockKept'
    BY DEF SessionTyped, LockKept
  <2>3. ASSUME NEW q \in Command PROVE CommandFits(q)'
    <3>1. CASE q = p
      BY <3>1, <2>a, <1>a DEF CommandFits, Usable, NoCredential
    <3>2. CASE q # p
      <4>1. login[q] = "accept" => Usable(got[q])'
        <5>1. CASE login[q] # "accept"
          BY <5>1
        <5>2. CASE login[q] = "accept"
          <6>1. /\ got[q] # NoCredential /\ Usable(got[q]) /\ got[q][1] # keyring[1]
                /\ got[q][1] \in 1..MaxLogins
            BY <5>2, <1>b DEF CommandFits, SessionTyped
          <6>2. credentials'[got[q][1]] = credentials[got[q][1]]
            BY <6>1, <2>a
          <6> QED
            BY <6>1, <6>2, <2>a DEF Usable, Honoured
        <5> QED
          BY <5>1, <5>2
      <4> QED
        BY <3>2, <2>a, <2>b, <4>1 DEF CommandFits
    <3> QED
      BY <3>1, <3>2
  <2>4. KeyringFits'
    BY <2>a, <2>b DEF KeyringFits, Usable
  <2> QED
    BY <2>1, <2>2, <2>3, <2>4
<1>7. ASSUME NEW p \in Command, SaveCredential(p) PROVE SessionInv'
  <2> USE <1>7 DEF SaveCredential
  <2>1. SessionTyped'
    BY DEF SessionTyped, Given, NoCredential, Honoured
  <2>2. (keyLock = {} \/ \E q \in Command : keyLock = {q})' /\ LockKept'
    BY DEF SessionTyped, LockKept
  <2>3. ASSUME NEW q \in Command PROVE CommandFits(q)'
    BY DEF SessionTyped, LockKept, CommandFits, KeyringFits, Usable, Honoured, Given,
           NoCredential
  <2>4. KeyringFits'
    BY DEF SessionTyped, LockKept, CommandFits, KeyringFits, Usable, Honoured, Given,
           NoCredential
  <2> QED
    BY <2>1, <2>2, <2>3, <2>4
<1>8. ASSUME NEW p \in Command, SaveFails(p) PROVE SessionInv'
  BY ZenonT(40), <1>8
  DEF SaveFails, Losing, SessionTyped, LockKept, CommandFits, KeyringFits, Usable,
              Honoured, Given, NoCredential
<1>9. ASSUME NEW p \in Command, UnlockStore(p) PROVE SessionInv'
  <2> USE <1>9 DEF UnlockStore
  <2>a. /\ \A q \in Command \ {p} : got'[q] = got[q] /\ login'[q] = login[q]
        /\ login'[p] = "idle" /\ got'[p][1] = 0
        /\ \A k : Usable(k) => Usable(k)'
    BY DEF SessionTyped, NoCredential, Usable, Honoured
  <2>1. SessionTyped'
    BY DEF SessionTyped, Given, NoCredential, Honoured
  <2>2. (keyLock = {} \/ \E q \in Command : keyLock = {q})' /\ LockKept'
    BY DEF SessionTyped, LockKept
  <2>3. ASSUME NEW q \in Command PROVE CommandFits(q)'
    BY <1>b, <2>a DEF CommandFits, NoCredential
  <2>4. KeyringFits'
    BY DEF SessionTyped, LockKept, CommandFits, KeyringFits, Usable, Honoured, Given,
           NoCredential
  <2> QED
    BY <2>1, <2>2, <2>3, <2>4
<1>10. ASSUME NEW p \in Command, LogOut(p) PROVE SessionInv'
  <2> USE <1>10 DEF LogOut, LockStore, Losing
  <2>a. /\ \A q \in Command : got'[q] = got[q]
        /\ \A q \in Command \ {p} : login'[q] = login[q] /\ login[q] \in {"idle", "accept"}
        /\ login'[p] = "unlock"
        /\ \A n \in 1..MaxLogins : n # keyring[1] => credentials'[n] = credentials[n]
        /\ \A n : n \in losses.lost => n \in losses'.lost
    <3>1. \A q \in Command \ {p} : login[q] \in {"idle", "accept"}
      BY DEF LockKept, SessionTyped
    <3> QED
      BY <3>1, <1>a DEF SessionTyped
  <2>1. SessionTyped'
    <3>1. credentials' \in [1..MaxLogins -> Nat]
      BY <1>a DEF SessionTyped
    <3> QED
      BY <3>1 DEF SessionTyped, Given
  <2>2. (keyLock = {} \/ \E q \in Command : keyLock = {q})' /\ LockKept'
    BY DEF SessionTyped, LockKept
  <2>3. ASSUME NEW q \in Command PROVE CommandFits(q)'
    <3>1. login[q] = "accept" => Usable(got[q])'
      BY <2>a, <1>b DEF SessionTyped, CommandFits, Usable, Honoured
    <3>2. keyring' = keyring \/ keyring' = NoCredential
      OBVIOUS
    <3> QED
      BY <1>b, <2>a, <3>1, <3>2 DEF CommandFits, NoCredential
  <2>4. KeyringFits'
    BY DEF SessionTyped, LockKept, CommandFits, KeyringFits, Usable, Honoured, Given,
           NoCredential
  <2> QED
    BY <2>1, <2>2, <2>3, <2>4
<1>11. ASSUME NEW p \in Command, KillCommand(p) PROVE SessionInv'
  <2> USE <1>11 DEF KillCommand, Losing
  <2>a. /\ \A q \in Command \ {p} : got'[q] = got[q] /\ login'[q] = login[q]
        /\ login'[p] = "idle" /\ got'[p][1] = 0
        /\ \A k : Usable(k) => Usable(k)'
    BY DEF SessionTyped, NoCredential, Usable, Honoured
  <2>1. SessionTyped'
    BY DEF SessionTyped, Given, NoCredential, Honoured
  <2>2. (keyLock = {} \/ \E q \in Command : keyLock = {q})' /\ LockKept'
    <3>1. CASE keyLock = {p}
      BY <3>1, <2>a DEF LockKept
    <3>2. CASE keyLock # {p}
      <4>1. keyLock' = keyLock
        BY <3>2
      <4> QED
        BY <3>2, <4>1, <2>a DEF LockKept
    <3> QED
      BY <3>1, <3>2
  <2>3. ASSUME NEW q \in Command PROVE CommandFits(q)'
    BY <1>b, <2>a DEF CommandFits, NoCredential
  <2>4. KeyringFits'
    BY DEF SessionTyped, LockKept, CommandFits, KeyringFits, Usable, Honoured, Given,
           NoCredential
  <2> QED
    BY <2>1, <2>2, <2>3, <2>4
<1> QED
  BY <1>1, <1>2, <1>3, <1>4, <1>5, <1>6, <1>7, <1>8, <1>9, <1>10, <1>11 DEF CloudSessionNext

\* The credential in the keyring is honoured, however many commands renew it.
THEOREM SessionKept == CloudSessionSpec => []CredentialHonoured
<1>1. SessionInv => CredentialHonoured
  <2> SUFFICES ASSUME SessionInv, keyLock = {}, keyring # NoCredential,
                      keyring[1] \notin losses.lost
               PROVE  Honoured(keyring)
    BY DEF CredentialHonoured
  <2>1. \A p \in Command : login[p] # "save"
    BY DEF SessionInv, LockKept, LockHolder
  <2> QED
    BY <2>1 DEF SessionInv, KeyringFits, Usable
<1> QED
  BY <1>1, SessionInit, SessionStep, PTL DEF CloudSessionSpec

--------------------------------------------------------------------------------
\* What an editor session gives (EditorSession).

EditorRequest ==
  [step : {"none", "edit", "read"}, edit : Nat, read : [EditedFile -> Nat \cup {Absence}],
   todo : SUBSET EditedFile, before : SUBSET Nat]

EditorTyped ==
  /\ editions \in Nat
  /\ folder \in [EditedFile -> Nat]
  /\ finished \subseteq 0..editions
  /\ gatewayWork \in [Gateway -> EditorRequest]

\* The lock is with the one request that is under way.
RequestLocked ==
  \A g \in Gateway : gatewayWork[g].step # "none" <=> sessionMu = {g}

\* Every file was written by the same edit, and by the last that was answered.
FolderWhole ==
  /\ \A f, h \in EditedFile : folder[f] = folder[h]
  /\ \A f \in EditedFile, e \in finished : folder[f] >= e

(***************************************************************************)
(* What the request holds.  An edit is the newest, and has written what is *)
(* not to do; while files are read they are whole, and what was read of    *)
(* them is what they are.                                                  *)
(***************************************************************************)
GatewayFits(g) ==
  /\ gatewayWork[g].step = "edit" =>
       /\ gatewayWork[g].edit = editions
       /\ \A f \in EditedFile \ gatewayWork[g].todo : folder[f] = editions
  /\ gatewayWork[g].step = "read" =>
       /\ FolderWhole
       /\ gatewayWork[g].before = finished
       /\ \A f \in EditedFile \ gatewayWork[g].todo : gatewayWork[g].read[f] = folder[f]

SnapshotWhole(s) ==
  /\ s.files \in [EditedFile -> Nat]
  /\ \A f, h \in EditedFile : s.files[f] = s.files[h]
  /\ \A f \in EditedFile, e \in s.before : s.files[f] >= e

EditorInv ==
  /\ EditorTyped
  /\ sessionMu = {} \/ \E g \in Gateway : sessionMu = {g}
  /\ RequestLocked
  /\ sessionMu = {} => FolderWhole
  /\ \A g \in Gateway : GatewayFits(g)
  /\ \A s \in snapshots : SnapshotWhole(s)

\* The folder is whole at first, and nothing was asked for.
LEMMA EditorStart == EditorInit => EditorInv
<1> SUFFICES ASSUME EditorInit PROVE EditorInv
  OBVIOUS
<1>1. EditorTyped
  BY DEF EditorInit, EditorTyped, EditorRequest, NoEditorRequest, NoFiles
<1> QED
  BY <1>1 DEF EditorInit, EditorInv, RequestLocked, FolderWhole, GatewayFits,
              NoEditorRequest

\* Every step of a request keeps the invariant.
LEMMA EditorStep == EditorInv /\ [EditorNext]_editorVars => EditorInv'
<1> SUFFICES ASSUME EditorInv, [EditorNext]_editorVars
             PROVE  EditorInv'
  OBVIOUS
<1> USE DEF EditorInv
<1>a. NoEditorRequest \in EditorRequest /\ NoEditorRequest.step = "none"
  BY DEF EditorRequest, NoEditorRequest, NoFiles
<1>1. CASE UNCHANGED editorVars \/ Expire
  <2>1. UNCHANGED <<folder, editions, sessionMu, gatewayWork, snapshots, finished>>
    BY <1>1 DEF editorVars, Expire
  <2>2. EditorTyped' /\ RequestLocked' /\ FolderWhole' = FolderWhole
    BY <2>1 DEF EditorTyped, RequestLocked, FolderWhole
  <2>3. \A g \in Gateway : GatewayFits(g)'
    BY <2>1, <2>2 DEF GatewayFits
  <2>4. \A s \in snapshots' : SnapshotWhole(s)'
    BY <2>1 DEF SnapshotWhole
  <2> QED
    BY <2>1, <2>2, <2>3, <2>4
<1>2. ASSUME NEW g \in Gateway, BeginEdition(g) PROVE EditorInv'
  <2> USE <1>2 DEF BeginEdition, LockSession
  <2>a. /\ gatewayWork[g].step = "none" /\ sessionMu = {} /\ sessionMu' = {g}
        /\ \A h \in Gateway : gatewayWork[h].step = "none"
        /\ \A h \in Gateway \ {g} : gatewayWork'[h] = gatewayWork[h]
        /\ gatewayWork'[g].step = "edit" /\ gatewayWork'[g].edit = editions'
        /\ gatewayWork'[g].todo = EditedFile
    BY DEF EditorTyped, EditorRequest, RequestLocked, NoEditorRequest
  <2>1. EditorTyped'
    <3>1. [NoEditorRequest EXCEPT !.step = "edit", !.edit = editions + 1,
                                  !.todo = EditedFile] \in EditorRequest
      <4>1. editions + 1 \in Nat
        BY DEF EditorTyped
      <4> QED
        BY ONLY <1>a, <4>1 DEF EditorRequest
    <3> QED
      BY <3>1 DEF EditorTyped
  <2>2. RequestLocked'
    BY <2>a DEF RequestLocked
  <2>3. ASSUME NEW h \in Gateway PROVE GatewayFits(h)'
    BY <2>a DEF GatewayFits
  <2>4. \A s \in snapshots' : SnapshotWhole(s)'
    BY DEF SnapshotWhole
  <2> QED
    BY <2>a, <2>1, <2>2, <2>3, <2>4
<1>3. ASSUME NEW g \in Gateway, WriteEdition(g) PROVE EditorInv'
  <2> USE <1>3 DEF WriteEdition
  <2>a. PICK f \in gatewayWork[g].todo :
          /\ folder' = [folder EXCEPT ![f] = gatewayWork[g].edit]
          /\ gatewayWork' = [gatewayWork EXCEPT ![g].todo = @ \ {f}]
    OBVIOUS
  <2>b. /\ sessionMu = {g} /\ f \in EditedFile /\ gatewayWork[g].edit = editions
        /\ \A h \in Gateway \ {g} :
             gatewayWork'[h] = gatewayWork[h] /\ gatewayWork[h].step = "none"
        /\ gatewayWork'[g].step = "edit" /\ gatewayWork'[g].edit = editions
        /\ gatewayWork'[g].todo = gatewayWork[g].todo \ {f}
        /\ folder'[f] = editions
        /\ \A e \in EditedFile \ {f} : folder'[e] = folder[e]
        /\ gatewayWork'[g] \in EditorRequest
    <3>1. gatewayWork[g] \in EditorRequest /\ sessionMu = {g}
      BY DEF EditorTyped, RequestLocked
    <3>2. f \in EditedFile /\ gatewayWork[g].edit = editions
      BY <3>1 DEF EditorRequest, GatewayFits
    <3>3. /\ gatewayWork'[g] = [gatewayWork[g] EXCEPT !.todo = @ \ {f}]
          /\ \A h \in Gateway \ {g} : gatewayWork'[h] = gatewayWork[h]
      BY <2>a DEF EditorTyped
    <3>4. \A h \in Gateway \ {g} : gatewayWork[h].step = "none"
      BY <3>1 DEF RequestLocked
    <3>5. /\ gatewayWork'[g].step = "edit" /\ gatewayWork'[g].edit = editions
          /\ gatewayWork'[g].todo = gatewayWork[g].todo \ {f}
          /\ gatewayWork'[g] \in EditorRequest
      BY <3>1, <3>2, <3>3 DEF EditorRequest
    <3>6. folder'[f] = editions /\ \A e \in EditedFile \ {f} : folder'[e] = folder[e]
      BY <2>a, <3>2 DEF EditorTyped
    <3> QED
      BY <3>1, <3>2, <3>3, <3>4, <3>5, <3>6
  <2>1. EditorTyped'
    BY <2>a, <2>b DEF EditorTyped
  <2>2. RequestLocked'
    BY <2>b DEF RequestLocked
  <2>3. ASSUME NEW h \in Gateway PROVE GatewayFits(h)'
    BY <2>b DEF GatewayFits
  <2>4. \A s \in snapshots' : SnapshotWhole(s)'
    BY DEF SnapshotWhole
  <2> QED
    BY <2>b, <2>1, <2>2, <2>3, <2>4
<1>4. ASSUME NEW g \in Gateway, EndEdition(g) PROVE EditorInv'
  <2> USE <1>4 DEF EndEdition, EndEditorRequest
  <2>a. /\ sessionMu = {g} /\ sessionMu' = {} /\ gatewayWork[g].edit = editions
        /\ finished' = finished \cup {editions}
        /\ \A f \in EditedFile : folder[f] = editions
        /\ \A h \in Gateway : gatewayWork'[h].step = "none"
    BY <1>a DEF EditorTyped, RequestLocked, GatewayFits
  <2>1. EditorTyped'
    BY <1>a, <2>a DEF EditorTyped
  <2>2. RequestLocked'
    BY <2>a DEF RequestLocked
  <2>3. FolderWhole'
    BY <2>a DEF FolderWhole, EditorTyped
  <2>4. ASSUME NEW h \in Gateway PROVE GatewayFits(h)'
    BY <2>a DEF GatewayFits
  <2>5. \A s \in snapshots' : SnapshotWhole(s)'
    BY DEF SnapshotWhole
  <2> QED
    BY <2>a, <2>1, <2>2, <2>3, <2>4, <2>5
<1>5. ASSUME NEW g \in Gateway, BeginSnapshot(g) PROVE EditorInv'
  <2> USE <1>5 DEF BeginSnapshot, LockSession
  <2>a. /\ sessionMu = {} /\ sessionMu' = {g}
        /\ \A h \in Gateway : gatewayWork[h].step = "none"
        /\ \A h \in Gateway \ {g} : gatewayWork'[h] = gatewayWork[h]
        /\ gatewayWork'[g].step = "read" /\ gatewayWork'[g].todo = EditedFile
        /\ gatewayWork'[g].before = finished
    BY DEF EditorTyped, EditorRequest, RequestLocked, NoEditorRequest
  <2>1. EditorTyped'
    <3>1. [NoEditorRequest EXCEPT !.step = "read", !.todo = EditedFile,
                                  !.before = finished] \in EditorRequest
      <4>1. finished \subseteq Nat
        BY DEF EditorTyped
      <4> QED
        BY ONLY <1>a, <4>1 DEF EditorRequest
    <3> QED
      BY <3>1 DEF EditorTyped
  <2>2. RequestLocked'
    BY <2>a DEF RequestLocked
  <2>3. FolderWhole'
    BY <2>a DEF FolderWhole
  <2>4. ASSUME NEW h \in Gateway PROVE GatewayFits(h)'
    BY <2>a, <2>3 DEF GatewayFits
  <2>5. \A s \in snapshots' : SnapshotWhole(s)'
    BY DEF SnapshotWhole
  <2> QED
    BY <2>a, <2>1, <2>2, <2>4, <2>5
<1>6. ASSUME NEW g \in Gateway, ReadFiles(g) PROVE EditorInv'
  <2> USE <1>6 DEF ReadFiles
  <2>a. PICK f \in gatewayWork[g].todo :
          gatewayWork' = [gatewayWork EXCEPT ![g].todo = @ \ {f}, ![g].read[f] = folder[f]]
    OBVIOUS
  <2>b. /\ gatewayWork[g] \in EditorRequest /\ f \in EditedFile /\ folder[f] \in Nat
        /\ gatewayWork'[g] = [gatewayWork[g] EXCEPT !.todo = @ \ {f}, !.read[f] = folder[f]]
        /\ \A h \in Gateway \ {g} : gatewayWork'[h] = gatewayWork[h]
        /\ gatewayWork' = [h \in Gateway |-> gatewayWork'[h]]
    BY <2>a DEF EditorTyped, EditorRequest
  <2>c. /\ gatewayWork'[g] \in EditorRequest
        /\ gatewayWork'[g].step = gatewayWork[g].step
        /\ gatewayWork'[g].before = gatewayWork[g].before
        /\ gatewayWork'[g].todo = gatewayWork[g].todo \ {f}
        /\ gatewayWork'[g].read[f] = folder[f]
        /\ \A e \in EditedFile \ {f} : gatewayWork'[g].read[e] = gatewayWork[g].read[e]
    <3>1. PICK r, n, v : r = gatewayWork[g] /\ n = gatewayWork'[g] /\ v = folder[f]
      OBVIOUS
    <3>2. r \in EditorRequest /\ n = [r EXCEPT !.todo = @ \ {f}, !.read[f] = v]
      BY <2>b, <3>1
    <3>3. PICK c : c = [r.read EXCEPT ![f] = v]
      OBVIOUS
    <3>4. c \in [EditedFile -> Nat \cup {Absence}]
      BY <2>b, <3>1, <3>3 DEF EditorRequest
    <3>5. n = [r EXCEPT !.todo = r.todo \ {f}, !.read = c]
      BY <3>2, <3>3 DEF EditorRequest
    <3>6. /\ n \in EditorRequest
          /\ n.step = r.step /\ n.before = r.before /\ n.todo = r.todo \ {f} /\ n.read = c
      <4>1. /\ r.step \in {"none", "edit", "read"} /\ r.edit \in Nat
            /\ r.todo \ {f} \in SUBSET EditedFile /\ r.before \in SUBSET Nat
        BY ONLY <3>2 DEF EditorRequest
      <4>2. n = [step |-> r.step, edit |-> r.edit, read |-> c, todo |-> r.todo \ {f},
                 before |-> r.before]
        BY ONLY <3>2, <3>5 DEF EditorRequest
      <4> QED
        BY ONLY <3>4, <4>1, <4>2 DEF EditorRequest
    <3>7. n.read[f] = v /\ \A e \in EditedFile \ {f} : n.read[e] = r.read[e]
      BY <2>b, <3>2, <3>3, <3>6 DEF EditorRequest
    <3> QED
      BY <3>1, <3>6, <3>7
  <2>1. EditorTyped'
    BY <2>b, <2>c DEF EditorTyped
  <2>2. RequestLocked'
    BY <2>b, <2>c DEF RequestLocked
  <2>3. FolderWhole' = FolderWhole
    BY DEF FolderWhole
  <2>4. ASSUME NEW h \in Gateway PROVE GatewayFits(h)'
    <3>1. CASE h = g
      BY <3>1, <2>c, <2>3 DEF GatewayFits
    <3>2. CASE h # g
      <4>1. gatewayWork'[h] = gatewayWork[h]
        BY <3>2, <2>b
      <4> QED
        BY <4>1, <2>3 DEF GatewayFits
    <3> QED
      BY <3>1, <3>2
  <2>5. \A s \in snapshots' : SnapshotWhole(s)'
    BY DEF SnapshotWhole
  <2> QED
    BY <2>1, <2>2, <2>3, <2>4, <2>5
<1>7. ASSUME NEW g \in Gateway, ServeSnapshot(g) PROVE EditorInv'
  <2> USE <1>7 DEF ServeSnapshot, EndEditorRequest
  <2>a. /\ sessionMu = {g} /\ sessionMu' = {} /\ FolderWhole
        /\ gatewayWork[g].before = finished
        /\ \A f \in EditedFile : gatewayWork[g].read[f] = folder[f]
        /\ gatewayWork[g].read \in [EditedFile -> Nat \cup {Absence}]
        /\ \A h \in Gateway : gatewayWork'[h].step = "none"
    BY <1>a DEF EditorTyped, EditorRequest, RequestLocked, GatewayFits
  <2>1. EditorTyped'
    BY <1>a DEF EditorTyped
  <2>2. RequestLocked'
    BY <2>a DEF RequestLocked
  <2>3. FolderWhole'
    BY <2>a DEF FolderWhole
  <2>4. ASSUME NEW h \in Gateway PROVE GatewayFits(h)'
    BY <2>a DEF GatewayFits
  <2>5. ASSUME NEW s \in snapshots' PROVE SnapshotWhole(s)
    <3>1. CASE s \in snapshots
      BY <3>1
    <3>2. CASE s = [files |-> gatewayWork[g].read, before |-> gatewayWork[g].before]
      <4>1. gatewayWork[g].read \in [EditedFile -> Nat]
        BY <2>a DEF EditorTyped
      <4> QED
        BY <3>2, <2>a, <4>1 DEF SnapshotWhole, FolderWhole
    <3> QED
      BY <3>1, <3>2
  <2> QED
    BY <2>a, <2>1, <2>2, <2>3, <2>4, <2>5 DEF SnapshotWhole
<1>8. ASSUME NEW g \in Gateway, RestoreCheckpoint(g) PROVE EditorInv'
  <2> USE <1>8 DEF RestoreCheckpoint
  <2>a. PICK s \in snapshots :
          /\ folder' = s.files
          /\ finished' = {e \in finished : e \in {s.files[f] : f \in EditedFile}}
    OBVIOUS
  <2>b. \A h \in Gateway : gatewayWork'[h].step = "none"
    BY DEF RequestLocked
  <2>1. EditorTyped'
    BY <2>a DEF EditorTyped, SnapshotWhole
  <2>2. RequestLocked'
    BY <2>b DEF RequestLocked
  <2>3. FolderWhole'
    <3>1. \A f, h \in EditedFile : folder'[f] = folder'[h] /\ folder'[f] \in Nat
      BY <2>a DEF SnapshotWhole
    <3>2. \A e \in finished' : \E f \in EditedFile : e = folder'[f]
      BY <2>a
    <3> QED
      BY <3>1, <3>2 DEF FolderWhole
  <2>4. ASSUME NEW h \in Gateway PROVE GatewayFits(h)'
    BY <2>b DEF GatewayFits
  <2>5. \A t \in snapshots' : SnapshotWhole(t)'
    BY DEF SnapshotWhole
  <2> QED
    BY <2>1, <2>2, <2>3, <2>4, <2>5
<1> QED
  BY <1>1, <1>2, <1>3, <1>4, <1>5, <1>6, <1>7, <1>8 DEF EditorNext

\* What a transform answers with is enough to have what it made.
LEMMA DeltaIsEnough ==
  ASSUME NEW before, NEW after, after = [f \in EditedFile |-> after[f]]
  PROVE  WithDelta(before, after) = after
BY DEF WithDelta, Delta

\* Every snapshot is the work of whole edits, and has those that were answered.
THEOREM EditorKept == EditorSpec => [](SnapshotsAreWhole /\ DeltasAreWhole)
<1>1. EditorInv => SnapshotsAreWhole
  BY DEF EditorInv, SnapshotWhole, SnapshotsAreWhole
<1>2. DeltasAreWhole
  BY DeltaIsEnough DEF DeltasAreWhole
<1> QED
  BY <1>1, <1>2, EditorStart, EditorStep, PTL DEF EditorSpec

--------------------------------------------------------------------------------
\* What is sent by reference (CloudTransfer).

\* What the service is known to have already.
KnownToService == IF speaks = "incremental" THEN baseFiles ELSE Nothing

(***************************************************************************)
(* A request is the snapshot by reference to what the service has; an      *)
(* answer says the hash of the revision, whatever came with it; and until  *)
(* one is accepted the client has nothing of it.                           *)
(***************************************************************************)
ExchangeInv ==
  /\ captured \in Files /\ baseFiles \in Files
  /\ rebuilt \in {Nothing, captured}
  /\ wire.kind \in {"unset", "none", "request"} => rebuilt = Nothing
  /\ wire.kind = "request" => wire.content = TransferFiles(captured, KnownToService).content
  /\ wire.kind = "answer" => wire.hash = headFiles
  /\ wire.kind # "done" => accepted = Nothing
  /\ accepted \in {Nothing, headFiles}

\* Nothing was sent at first.
LEMMA ExchangeStart == CloudTransferInit => ExchangeInv
BY DEF CloudTransferInit, ExchangeInv, Files, Nothing, NoMessage

\* A message that was not tampered with is completed to what was meant.
LEMMA ReferencesResolve ==
  ASSUME NEW f \in Files, NEW known, known = Nothing \/ known \in Files,
         NEW other, known = Nothing \/ known = other
  PROVE  Completed(TransferFiles(f, known), other) = f
BY CloudTransferAssumption DEF Completed, TransferFiles, Files, Nothing

\* Every step of the exchange keeps the invariant.
LEMMA ExchangeStep ==
  ExchangeInv /\ [CloudTransferNext]_transferringVars => ExchangeInv'
<1> SUFFICES ASSUME ExchangeInv, [CloudTransferNext]_transferringVars
             PROVE  ExchangeInv'
  OBVIOUS
<1> USE DEF ExchangeInv
<1>1. CASE UNCHANGED transferringVars
  BY <1>1 DEF transferringVars, KnownToService
<1>2. CASE Capture
  BY <1>2 DEF Capture, NoMessage
<1>3. CASE SendSync
  BY <1>3 DEF SendSync, KnownToService, TransferFiles
<1>4. CASE ServeSync
  <2>1. wire.content = TransferFiles(captured, KnownToService).content
    BY <1>4 DEF ServeSync
  <2>2. Completed(wire, baseFiles) = Completed(TransferFiles(captured, KnownToService), baseFiles)
    BY <2>1 DEF Completed
  <2>3. rebuilt' = captured
    BY <1>4, <2>2, ReferencesResolve DEF ServeSync, KnownToService
  <2> QED
    BY <1>4, <2>3 DEF ServeSync
<1>5. CASE SendDownload
  BY <1>5 DEF SendDownload
<1>6. CASE Answer
  BY <1>6 DEF Answer, TransferFiles
<1>7. CASE AcceptAnswer
  BY <1>7 DEF AcceptAnswer, Resolvable, NoMessage
<1>8. CASE LoseMessage
  BY <1>8 DEF LoseMessage, NoMessage
<1> QED
  BY <1>1, <1>2, <1>3, <1>4, <1>5, <1>6, <1>7, <1>8 DEF CloudTransferNext

\* The service rebuilds the client's snapshot, the client takes the revision meant.
THEOREM TransferKept == CloudTransferSpec => []TransfersAreWhole
<1>1. ExchangeInv => TransfersAreWhole
  BY DEF ExchangeInv, TransfersAreWhole
<1> QED
  BY <1>1, ExchangeStart, ExchangeStep, PTL DEF CloudTransferSpec

--------------------------------------------------------------------------------
\* Creating and publishing (CloudRelease).

Releases == [step : {"idle", "snapshot", "journalled", "created", "connected",
                     "base", "clean", "lookup"}, digest : Nat, op : Nat]

ReleaseTyped ==
  /\ local \in Nat \ {0} /\ newest \in Nat \ {0} /\ head \in Nat
  /\ operations \in 0..MaxOperations
  /\ journal \in [state : {"none", "torn", "written"}, digest : Nat, op : 0..operations]
  /\ connected \in [op : 0..operations, revision : Nat]
  /\ workspaces \in [1..MaxOperations -> Nat]
  /\ release \in [Releaser -> Releases]

Uploading == {"journalled", "created"}
Creating == Uploading \cup {"snapshot", "connected"}

\* A command that creates has a content, and uploads it for an operation that was drawn.
CommandDrawn(p) ==
  /\ release[p].step \in Creating => release[p].digest # 0
  /\ release[p].step \in Uploading => release[p].op \in 1..operations
  /\ release[p].step = "created" => workspaces[release[p].op] # 0

\* Operation ids that were drawn are what journals, commands and workspaces name.
OperationsDrawn ==
  /\ journal.state = "written" => journal.op # 0
  /\ connected # NotConnected => connected.op # 0 /\ workspaces[connected.op] # 0
  /\ \A o \in 1..MaxOperations : workspaces[o] # 0 => o <= operations /\ head # 0
  /\ \A p \in Releaser : CommandDrawn(p)

(***************************************************************************)
(* An operation is about one content: in the journal, in every command     *)
(* that works on it, and in the service.                                   *)
(***************************************************************************)
OneContent ==
  \E about \in [Nat -> Nat] :
    /\ journal.state = "written" => journal.digest = about[journal.op]
    /\ \A p \in Releaser :
         release[p].step \in Uploading => release[p].digest = about[release[p].op]
    /\ \A o \in 1..MaxOperations : workspaces[o] # 0 => workspaces[o] = about[o]

(***************************************************************************)
(* As long as no creation met another command there is one creation at a   *)
(* time, on the operation in the journal, and that operation is the only   *)
(* one the service knows.                                                  *)
(***************************************************************************)
Alone ==
  /\ \A p, q \in Releaser :
       release[p].step \in Creating /\ release[q].step \in Creating => p = q
  /\ \A p \in Releaser :
       /\ release[p].step \in Uploading \cup {"snapshot"} => connected = NotConnected
       /\ release[p].step = "connected" => connected # NotConnected
       /\ release[p].step \in Uploading =>
            journal.state = "written" /\ journal.op = release[p].op
  /\ \A o, m \in 1..MaxOperations : workspaces[o] # 0 /\ workspaces[m] # 0 => o = m
  /\ connected = NotConnected =>
       \A o \in 1..MaxOperations :
         workspaces[o] # 0 => journal.state = "written" /\ journal.op = o

(***************************************************************************)
(* A publish command has the base it read until it is overtaken, and found *)
(* the files at that base.                                                 *)
(***************************************************************************)
BaseCurrent ==
  \A p \in Releaser \ overtaken :
    /\ release[p].step = "base" => release[p].digest = connected.revision
    /\ release[p].step \in {"clean", "lookup"} => release[p].op = release[p].digest

ReleaseInv ==
  /\ ReleaseTyped
  /\ OperationsDrawn
  /\ OneContent
  /\ collided \/ Alone
  /\ BaseCurrent
  /\ PublishedWhatWasThere

\* Nothing was created at first.
LEMMA ReleaseStart == CloudReleaseInit => ReleaseInv
<1> SUFFICES ASSUME CloudReleaseInit PROVE ReleaseInv
  OBVIOUS
<1> USE CloudReleaseAssumption DEF CloudReleaseInit, NoJournalYet, NotConnected, NoRelease
<1>1. ReleaseTyped
  BY DEF ReleaseTyped, Releases
<1>2. OperationsDrawn /\ Alone /\ BaseCurrent /\ PublishedWhatWasThere
  BY DEF OperationsDrawn, CommandDrawn, Alone, Creating, Uploading, BaseCurrent,
         PublishedWhatWasThere
<1>3. OneContent
  <2>1. [n \in Nat |-> 0] \in [Nat -> Nat]
    OBVIOUS
  <2> QED
    BY <2>1 DEF OneContent, Uploading
<1> QED
  BY <1>1, <1>2, <1>3 DEF ReleaseInv

\* A command that ends is idle, and the others go on.
LEMMA CommandLeaves ==
  ASSUME ReleaseTyped, NEW p \in Releaser, Leaves(p)
  PROVE  /\ release' \in [Releaser -> Releases]
         /\ release'[p].step = "idle"
         /\ \A q \in Releaser \ {p} : release'[q] = release[q]
BY DEF ReleaseTyped, Releases, Leaves, NoRelease

Becomes(p, r) ==
  /\ release' \in [Releaser -> Releases]
  /\ release'[p] = r
  /\ \A q \in Releaser \ {p} : release'[q] = release[q]

\* A command at its next step has the content and the operation it had.
LEMMA CommandSteps ==
  ASSUME ReleaseTyped, NEW p \in Releaser, NEW s \in {"created", "connected", "lookup"},
         Steps(p, s)
  PROVE  Becomes(p, [step |-> s, digest |-> release[p].digest, op |-> release[p].op])
BY DEF ReleaseTyped, Releases, Steps, Becomes

\* What a content is about is kept when nothing new is said of it.
LEMMA ContentStays ==
  ASSUME OneContent,
         journal' = journal \/ journal'.state # "written",
         workspaces' = workspaces,
         \A q \in Releaser :
           release'[q].step \in Uploading =>
             /\ release[q].step \in Uploading
             /\ release'[q].digest = release[q].digest /\ release'[q].op = release[q].op
  PROVE  OneContent'
<1>1. PICK about \in [Nat -> Nat] :
    /\ journal.state = "written" => journal.digest = about[journal.op]
    /\ \A p \in Releaser :
         release[p].step \in Uploading => release[p].digest = about[release[p].op]
    /\ \A o \in 1..MaxOperations : workspaces[o] # 0 => workspaces[o] = about[o]
  BY DEF OneContent
<1> QED
  BY <1>1 DEF OneContent

\* Every step, of a command or of the world, keeps the invariant.
LEMMA ReleaseStep == ReleaseInv /\ [CloudReleaseNext]_releaseVars => ReleaseInv'
<1> SUFFICES ASSUME ReleaseInv, [CloudReleaseNext]_releaseVars
             PROVE  ReleaseInv'
  OBVIOUS
<1> USE CloudReleaseAssumption DEF ReleaseInv, contents, connection, service, history,
        Creating, Uploading, NotConnected, NoJournalYet
<1>0. CASE UNCHANGED releaseVars
  BY <1>0, ContentStays
     DEF releaseVars, ReleaseTyped, OperationsDrawn, CommandDrawn, Alone, BaseCurrent,
         PublishedWhatWasThere
<1>1. CASE EditFiles
  <2> USE <1>1 DEF EditFiles
  <2>a. release' = release
    OBVIOUS
  <2>1. ReleaseTyped'
    BY <2>a DEF ReleaseTyped
  <2>2. OperationsDrawn'
    BY <2>a DEF OperationsDrawn, CommandDrawn, ReleaseTyped
  <2>3. OneContent'
    BY <2>a, ContentStays
  <2>4. collided' \/ Alone'
    BY <2>a DEF Alone
  <2>5. BaseCurrent'
    BY <2>a DEF BaseCurrent
  <2>6. PublishedWhatWasThere'
    BY <2>a DEF PublishedWhatWasThere
  <2> QED
    BY <2>1, <2>2, <2>3, <2>4, <2>5, <2>6
<1>2. CASE EditInCloud
  <2> USE <1>2 DEF EditInCloud
  <2>a. release' = release
    OBVIOUS
  <2>1. ReleaseTyped'
    BY <2>a DEF ReleaseTyped
  <2>2. OperationsDrawn'
    BY <2>a DEF OperationsDrawn, CommandDrawn, ReleaseTyped
  <2>3. OneContent'
    BY <2>a, ContentStays
  <2>4. collided' \/ Alone'
    BY <2>a DEF Alone
  <2>5. BaseCurrent'
    BY <2>a DEF BaseCurrent
  <2>6. PublishedWhatWasThere'
    BY <2>a DEF PublishedWhatWasThere
  <2> QED
    BY <2>1, <2>2, <2>3, <2>4, <2>5, <2>6
<1>3. CASE Synchronize
  <2> USE <1>3 DEF Synchronize, Releasing
  <2>a. /\ release' = release
        /\ connected'.op = connected.op /\ connected'.op # 0 /\ connected' # NotConnected
        /\ connected' \in [op : 0..operations, revision : Nat]
        /\ local' \in {local, head} /\ head' = local' /\ head # 0
    BY DEF ReleaseTyped, OperationsDrawn
  <2>1. ReleaseTyped'
    BY <2>a DEF ReleaseTyped
  <2>2. OperationsDrawn'
    BY <2>a DEF OperationsDrawn, CommandDrawn, ReleaseTyped
  <2>3. OneContent'
    BY <2>a, ContentStays
  <2>4. collided' \/ Alone'
    BY <2>a DEF Alone
  <2>5. BaseCurrent'
    BY <2>a DEF BaseCurrent
  <2>6. PublishedWhatWasThere'
    BY <2>a DEF PublishedWhatWasThere
  <2> QED
    BY <2>1, <2>2, <2>3, <2>4, <2>5, <2>6
<1>4. ASSUME NEW p \in Releaser, BeginCreate(p) PROVE ReleaseInv'
  <2> USE <1>4 DEF BeginCreate, AtStep, Releasing
  <2>a. /\ release' \in [Releaser -> Releases]
        /\ release'[p] = [step |-> "snapshot", digest |-> local, op |-> 0]
        /\ \A q \in Releaser \ {p} : release'[q] = release[q]
    BY DEF ReleaseTyped, Releases
  <2>1. ReleaseTyped'
    BY <2>a DEF ReleaseTyped
  <2>2. OperationsDrawn'
    <3>1. /\ journal.state = "written" => journal.op # 0
          /\ connected # NotConnected => connected.op # 0 /\ workspaces[connected.op] # 0
          /\ \A o \in 1..MaxOperations :
               workspaces[o] # 0 => o <= operations /\ head # 0
      BY DEF OperationsDrawn
    <3>2. /\ journal'.state = "written" => journal'.op # 0
          /\ connected' # NotConnected => connected'.op # 0 /\ workspaces'[connected'.op] # 0
          /\ \A o \in 1..MaxOperations :
               workspaces'[o] # 0 => o <= operations' /\ head' # 0
      BY <2>a, <3>1 DEF ReleaseTyped
    <3>3. CommandDrawn(p)'
      BY <2>a DEF OperationsDrawn, CommandDrawn, ReleaseTyped
    <3>4. ASSUME NEW q \in Releaser \ {p} PROVE CommandDrawn(q)'
      BY <2>a DEF OperationsDrawn, CommandDrawn, ReleaseTyped
    <3> QED
      BY <3>2, <3>3, <3>4 DEF OperationsDrawn
  <2>3. OneContent'
    BY <2>a, ContentStays
  <2>4. collided' \/ Alone'
    BY <2>a, Zenon DEF Alone
  <2>5. BaseCurrent'
    BY <2>a DEF BaseCurrent
  <2>6. PublishedWhatWasThere'
    BY <2>a DEF PublishedWhatWasThere
  <2> QED
    BY <2>1, <2>2, <2>3, <2>4, <2>5, <2>6
<1>5. ASSUME NEW p \in Releaser, Journal(p) PROVE ReleaseInv'
  <2> USE <1>5 DEF Journal, AtStep
  <2>a. /\ release' \in [Releaser -> Releases]
        /\ release'[p].step = "journalled" /\ release'[p].digest = release[p].digest
        /\ release'[p].op = journal'.op
        /\ \A q \in Releaser \ {p} : release'[q] = release[q]
        /\ journal'.state = "written" /\ journal'.digest = release[p].digest
        /\ release[p].digest \in Nat \ {0}
        /\ \/ /\ journal.state = "none" /\ operations' = operations + 1
              /\ operations < MaxOperations
              /\ journal' = [state |-> "written", digest |-> release[p].digest,
                             op |-> operations + 1]
           \/ /\ journal' = journal /\ operations' = operations
              /\ journal.op \in 1..operations
    <3>1. /\ release[p] \in Releases /\ release[p].digest \in Nat \ {0}
          /\ journal.state = "written" => journal.op \in 1..operations
          /\ operations \in Nat
          /\ journal.op \in Nat /\ journal.digest \in Nat
      BY DEF ReleaseTyped, Releases, OperationsDrawn, CommandDrawn
    <3>2. PICK o \in Nat : /\ release' = [release EXCEPT ![p].step = "journalled", ![p].op = o]
                         /\ o = journal'.op
      BY <3>1 DEF ChooseOperation
    <3>3. Becomes(p, [step |-> "journalled", digest |-> release[p].digest, op |-> o])
      BY ONLY <3>1, <3>2, ReleaseTyped DEF ReleaseTyped, Releases, Becomes
    <3> QED
      BY <3>1, <3>2, <3>3 DEF ChooseOperation, Becomes
  <2>1. ReleaseTyped'
    BY <2>a DEF ReleaseTyped
  <2>2. OperationsDrawn'
    <3>1. /\ journal.state = "written" => journal.op # 0
          /\ connected # NotConnected => connected.op # 0 /\ workspaces[connected.op] # 0
          /\ \A o \in 1..MaxOperations :
               workspaces[o] # 0 => o <= operations /\ head # 0
      BY DEF OperationsDrawn
    <3>2. /\ journal'.state = "written" => journal'.op # 0
          /\ connected' # NotConnected => connected'.op # 0 /\ workspaces'[connected'.op] # 0
          /\ \A o \in 1..MaxOperations :
               workspaces'[o] # 0 => o <= operations' /\ head' # 0
      <4>1. journal'.state = "written" => journal'.op # 0
        BY <2>a, <3>1 DEF ReleaseTyped
      <4>2. UNCHANGED <<connected, workspaces, head>> /\ operations <= operations'
        BY <2>a DEF ReleaseTyped
      <4>3. \A o \in 1..MaxOperations : workspaces'[o] # 0 => o <= operations' /\ head' # 0
        BY <2>a, <3>1, <4>2 DEF ReleaseTyped
      <4> QED
        BY <3>1, <4>1, <4>2, <4>3
    <3>3. CommandDrawn(p)'
      BY <2>a DEF OperationsDrawn, CommandDrawn, ReleaseTyped
    <3>4. ASSUME NEW q \in Releaser \ {p} PROVE CommandDrawn(q)'
      BY <2>a DEF OperationsDrawn, CommandDrawn, ReleaseTyped
    <3> QED
      BY <3>2, <3>3, <3>4 DEF OperationsDrawn
  <2>3. OneContent'
    <3>1. PICK about \in [Nat -> Nat] :
            /\ journal.state = "written" => journal.digest = about[journal.op]
            /\ \A q \in Releaser :
                 release[q].step \in Uploading => release[q].digest = about[release[q].op]
            /\ \A o \in 1..MaxOperations : workspaces[o] # 0 => workspaces[o] = about[o]
      BY DEF OneContent
    <3>2. CASE journal' = journal
      BY <3>1, <3>2, <2>a DEF OneContent
    <3>3. CASE journal' # journal
      <4>1. release[p].digest \in Nat /\ operations \in Nat
        BY <2>a, CloudReleaseAssumption DEF ReleaseTyped, Releases
      <4>2. PICK now : now = [about EXCEPT ![operations + 1] = release[p].digest]
        OBVIOUS
      <4>3. /\ now \in [Nat -> Nat] /\ now[operations + 1] = release[p].digest
            /\ \A n \in 0..operations : now[n] = about[n]
        BY ONLY <3>1, <4>1, <4>2
      <4>4. \A q \in Releaser \ {p} : release'[q].step \in Uploading =>
               release'[q].op \in 0..operations /\ release'[q].digest = now[release'[q].op]
        BY <2>a, <3>1, <4>3 DEF OperationsDrawn, CommandDrawn
      <4>5. \A o \in 1..MaxOperations : workspaces'[o] # 0 => workspaces'[o] = now[o]
        BY <3>1, <4>1, <4>3 DEF OperationsDrawn
      <4>6. journal'.op = operations + 1 /\ journal'.digest = release[p].digest
        BY <2>a, <3>3
      <4>7. \A q \in Releaser : release'[q].step \in Uploading =>
               release'[q].digest = now[release'[q].op]
        BY <2>a, <4>3, <4>4, <4>6
      <4> QED
        BY ZenonT(40), <4>3, <4>5, <4>6, <4>7 DEF OneContent
    <3> QED
      BY <3>2, <3>3
  <2>4. collided' \/ Alone'
    BY <2>a DEF Alone
  <2>5. BaseCurrent'
    BY <2>a DEF BaseCurrent
  <2>6. PublishedWhatWasThere'
    BY <2>a DEF PublishedWhatWasThere
  <2> QED
    BY <2>1, <2>2, <2>3, <2>4, <2>5, <2>6
<1>6. ASSUME NEW p \in Releaser, JournalFailed(p) PROVE ReleaseInv'
  <2> USE <1>6 DEF JournalFailed, AtStep, Faulty
  <2>a. /\ release' \in [Releaser -> Releases]
        /\ release'[p].step = "idle"
        /\ \A q \in Releaser \ {p} : release'[q] = release[q]
    BY CommandLeaves
  <2>b. \/ journal' = journal
        \/ journal.state = "none" /\ journal' = [state |-> "torn", digest |-> 0, op |-> 0]
    OBVIOUS
  <2>1. ReleaseTyped'
    BY <2>a, <2>b DEF ReleaseTyped
  <2>2. OperationsDrawn'
    <3>1. /\ journal.state = "written" => journal.op # 0
          /\ connected # NotConnected => connected.op # 0 /\ workspaces[connected.op] # 0
          /\ \A o \in 1..MaxOperations :
               workspaces[o] # 0 => o <= operations /\ head # 0
      BY DEF OperationsDrawn
    <3>2. /\ journal'.state = "written" => journal'.op # 0
          /\ connected' # NotConnected => connected'.op # 0 /\ workspaces'[connected'.op] # 0
          /\ \A o \in 1..MaxOperations :
               workspaces'[o] # 0 => o <= operations' /\ head' # 0
      BY <2>a, <2>b, <3>1 DEF ReleaseTyped
    <3>3. CommandDrawn(p)'
      BY <2>a, <2>b DEF OperationsDrawn, CommandDrawn, ReleaseTyped
    <3>4. ASSUME NEW q \in Releaser \ {p} PROVE CommandDrawn(q)'
      BY <2>a, <2>b DEF OperationsDrawn, CommandDrawn, ReleaseTyped
    <3> QED
      BY <3>2, <3>3, <3>4 DEF OperationsDrawn
  <2>3. OneContent'
    BY <2>a, <2>b, ContentStays
  <2>4. collided' \/ Alone'
    BY <2>a, <2>b DEF Alone
  <2>5. BaseCurrent'
    BY <2>a DEF BaseCurrent
  <2>6. PublishedWhatWasThere'
    BY <2>a DEF PublishedWhatWasThere
  <2> QED
    BY <2>1, <2>2, <2>3, <2>4, <2>5, <2>6
<1>7. ASSUME NEW p \in Releaser, Upload(p) PROVE ReleaseInv'
  <2> USE <1>7 DEF Upload, AtStep
  <2>a. /\ release' \in [Releaser -> Releases]
        /\ release'[p].step = "created" =>
             release'[p].digest = release[p].digest /\ release'[p].op = release[p].op
        /\ release'[p].step \in {"created", "idle"}
        /\ \A q \in Releaser \ {p} : release'[q] = release[q]
    <3>1. CASE Steps(p, "created")
      <4>1. Becomes(p, [step |-> "created", digest |-> release[p].digest, op |-> release[p].op])
        BY ONLY <3>1, ReleaseTyped, p \in Releaser, CommandSteps
      <4> QED
        BY <4>1 DEF Becomes
    <3>2. CASE Leaves(p)
      BY <3>2, CommandLeaves
    <3> QED
      BY <3>1, <3>2
  <2>b. /\ release[p].op \in 1..operations /\ release[p].op \in 1..MaxOperations
        /\ release[p].digest \in Nat \ {0}
        /\ workspaces' \in [1..MaxOperations -> Nat]
        /\ workspaces'[release[p].op] # 0
        /\ workspaces[release[p].op] = 0 =>
             workspaces'[release[p].op] = release[p].digest
        /\ \A o \in 1..MaxOperations :
             workspaces[o] # 0 \/ o # release[p].op => workspaces'[o] = workspaces[o]
        /\ head' \in Nat
    BY DEF ReleaseTyped, Releases, OperationsDrawn, CommandDrawn
  <2>1. ReleaseTyped'
    BY <2>a, <2>b DEF ReleaseTyped
  <2>2. OperationsDrawn'
    <3>1. /\ journal.state = "written" => journal.op # 0
          /\ connected # NotConnected => connected.op # 0 /\ workspaces[connected.op] # 0
          /\ \A o \in 1..MaxOperations :
               workspaces[o] # 0 => o <= operations /\ head # 0
      BY DEF OperationsDrawn
    <3>2. /\ journal'.state = "written" => journal'.op # 0
          /\ connected' # NotConnected => connected'.op # 0 /\ workspaces'[connected'.op] # 0
          /\ \A o \in 1..MaxOperations :
               workspaces'[o] # 0 => o <= operations' /\ head' # 0
      BY <2>a, <2>b, <3>1 DEF ReleaseTyped
    <3>3. CommandDrawn(p)'
      BY <2>a, <2>b DEF OperationsDrawn, CommandDrawn, ReleaseTyped
    <3>4. ASSUME NEW q \in Releaser \ {p} PROVE CommandDrawn(q)'
      BY <2>a, <2>b DEF OperationsDrawn, CommandDrawn, ReleaseTyped
    <3> QED
      BY <3>2, <3>3, <3>4 DEF OperationsDrawn
  <2>3. OneContent'
    <3>1. PICK about \in [Nat -> Nat] :
            /\ journal.state = "written" => journal.digest = about[journal.op]
            /\ \A q \in Releaser :
                 release[q].step \in Uploading => release[q].digest = about[release[q].op]
            /\ \A o \in 1..MaxOperations : workspaces[o] # 0 => workspaces[o] = about[o]
      BY DEF OneContent
    <3>2. \A o \in 1..MaxOperations : workspaces'[o] # 0 => workspaces'[o] = about[o]
      BY <2>b, <3>1
    <3>3. \A q \in Releaser : release'[q].step \in Uploading =>
             release'[q].digest = about[release'[q].op]
      BY <2>a, <3>1
    <3> QED
      BY <3>1, <3>2, <3>3 DEF OneContent
  <2>4. collided' \/ Alone'
    BY <2>a, <2>b DEF Alone
  <2>5. BaseCurrent'
    BY <2>a DEF BaseCurrent
  <2>6. PublishedWhatWasThere'
    BY <2>a DEF PublishedWhatWasThere
  <2> QED
    BY <2>1, <2>2, <2>3, <2>4, <2>5, <2>6
<1>8. ASSUME NEW p \in Releaser, SaveConnection(p) PROVE ReleaseInv'
  <2> USE <1>8 DEF SaveConnection, AtStep, Releasing
  <2>a. /\ release' \in [Releaser -> Releases]
        /\ \A q \in Releaser \ {p} : release'[q] = release[q]
        /\ \/ /\ connected' = [op |-> release[p].op, revision |-> release[p].digest]
              /\ overtaken' = overtaken \cup (Releasing \ {p})
              /\ release'[p].step = "connected" /\ release'[p].digest = release[p].digest
           \/ /\ connected' = connected /\ overtaken' = overtaken
              /\ release'[p].step = "idle"
    <3>2. CASE Leaves(p) /\ UNCHANGED <<connected, overtaken>>
      BY <3>2, CommandLeaves
    <3>1. CASE /\ Steps(p, "connected") /\ overtaken' = overtaken \cup (Releasing \ {p})
               /\ connected' = [op |-> release[p].op, revision |-> release[p].digest]
      <4>1. Becomes(p, [step |-> "connected", digest |-> release[p].digest,
                        op |-> release[p].op])
        BY ONLY <3>1, ReleaseTyped, p \in Releaser, CommandSteps
      <4> QED
        BY <3>1, <4>1 DEF Becomes
    <3> QED
      BY <3>1, <3>2
  <2>b. /\ release[p].op \in 1..operations /\ workspaces[release[p].op] # 0
        /\ release[p].digest \in Nat \ {0} /\ release[p].op \in 1..MaxOperations
    BY DEF OperationsDrawn, CommandDrawn, ReleaseTyped, Releases
  <2>1. ReleaseTyped'
    BY <2>a, <2>b DEF ReleaseTyped
  <2>2. OperationsDrawn'
    <3>1. /\ journal.state = "written" => journal.op # 0
          /\ connected # NotConnected => connected.op # 0 /\ workspaces[connected.op] # 0
          /\ \A o \in 1..MaxOperations :
               workspaces[o] # 0 => o <= operations /\ head # 0
      BY DEF OperationsDrawn
    <3>2. /\ journal'.state = "written" => journal'.op # 0
          /\ connected' # NotConnected => connected'.op # 0 /\ workspaces'[connected'.op] # 0
          /\ \A o \in 1..MaxOperations :
               workspaces'[o] # 0 => o <= operations' /\ head' # 0
      BY <2>a, <2>b, <3>1 DEF ReleaseTyped
    <3>3. CommandDrawn(p)'
      BY <2>a, <2>b DEF OperationsDrawn, CommandDrawn, ReleaseTyped
    <3>4. ASSUME NEW q \in Releaser \ {p} PROVE CommandDrawn(q)'
      BY <2>a, <2>b DEF OperationsDrawn, CommandDrawn, ReleaseTyped
    <3> QED
      BY <3>2, <3>3, <3>4 DEF OperationsDrawn
  <2>3. OneContent'
    BY <2>a, ContentStays
  <2>4. collided' \/ Alone'
    BY <2>a, <2>b DEF Alone
  <2>5. BaseCurrent'
    BY <2>a DEF BaseCurrent
  <2>6. PublishedWhatWasThere'
    BY <2>a DEF PublishedWhatWasThere
  <2> QED
    BY <2>1, <2>2, <2>3, <2>4, <2>5, <2>6
<1>9. ASSUME NEW p \in Releaser, RemoveJournal(p) PROVE ReleaseInv'
  <2> USE <1>9 DEF RemoveJournal, AtStep
  <2>a. /\ release' \in [Releaser -> Releases]
        /\ release'[p].step = "idle"
        /\ \A q \in Releaser \ {p} : release'[q] = release[q]
    BY CommandLeaves
  <2>b. journal' = journal \/ journal' = NoJournalYet
    OBVIOUS
  <2>1. ReleaseTyped'
    BY <2>a, <2>b DEF ReleaseTyped
  <2>2. OperationsDrawn'
    <3>1. /\ journal.state = "written" => journal.op # 0
          /\ connected # NotConnected => connected.op # 0 /\ workspaces[connected.op] # 0
          /\ \A o \in 1..MaxOperations :
               workspaces[o] # 0 => o <= operations /\ head # 0
      BY DEF OperationsDrawn
    <3>2. /\ journal'.state = "written" => journal'.op # 0
          /\ connected' # NotConnected => connected'.op # 0 /\ workspaces'[connected'.op] # 0
          /\ \A o \in 1..MaxOperations :
               workspaces'[o] # 0 => o <= operations' /\ head' # 0
      BY <2>a, <2>b, <3>1 DEF ReleaseTyped
    <3>3. CommandDrawn(p)'
      BY <2>a, <2>b DEF OperationsDrawn, CommandDrawn, ReleaseTyped
    <3>4. ASSUME NEW q \in Releaser \ {p} PROVE CommandDrawn(q)'
      BY <2>a, <2>b DEF OperationsDrawn, CommandDrawn, ReleaseTyped
    <3> QED
      BY <3>2, <3>3, <3>4 DEF OperationsDrawn
  <2>3. OneContent'
    BY <2>a, <2>b, ContentStays
  <2>4. collided' \/ Alone'
    BY <2>a, <2>b DEF Alone
  <2>5. BaseCurrent'
    BY <2>a DEF BaseCurrent
  <2>6. PublishedWhatWasThere'
    BY <2>a DEF PublishedWhatWasThere
  <2> QED
    BY <2>1, <2>2, <2>3, <2>4, <2>5, <2>6
<1>10. ASSUME NEW p \in Releaser, ReadConnection(p) PROVE ReleaseInv'
  <2> USE <1>10 DEF ReadConnection, AtStep
  <2>a. /\ release' \in [Releaser -> Releases]
        /\ release'[p] = [step |-> "base", digest |-> connected.revision, op |-> 0]
        /\ \A q \in Releaser \ {p} : release'[q] = release[q]
    BY DEF ReleaseTyped, Releases
  <2>1. ReleaseTyped'
    BY <2>a DEF ReleaseTyped
  <2>2. OperationsDrawn'
    <3>1. /\ journal.state = "written" => journal.op # 0
          /\ connected # NotConnected => connected.op # 0 /\ workspaces[connected.op] # 0
          /\ \A o \in 1..MaxOperations :
               workspaces[o] # 0 => o <= operations /\ head # 0
      BY DEF OperationsDrawn
    <3>2. /\ journal'.state = "written" => journal'.op # 0
          /\ connected' # NotConnected => connected'.op # 0 /\ workspaces'[connected'.op] # 0
          /\ \A o \in 1..MaxOperations :
               workspaces'[o] # 0 => o <= operations' /\ head' # 0
      BY <2>a, <3>1 DEF ReleaseTyped
    <3>3. CommandDrawn(p)'
      BY <2>a DEF OperationsDrawn, CommandDrawn, ReleaseTyped
    <3>4. ASSUME NEW q \in Releaser \ {p} PROVE CommandDrawn(q)'
      BY <2>a DEF OperationsDrawn, CommandDrawn, ReleaseTyped
    <3> QED
      BY <3>2, <3>3, <3>4 DEF OperationsDrawn
  <2>3. OneContent'
    BY <2>a, ContentStays
  <2>4. collided' \/ Alone'
    BY <2>a DEF Alone
  <2>5. BaseCurrent'
    BY <2>a DEF BaseCurrent
  <2>6. PublishedWhatWasThere'
    BY <2>a DEF PublishedWhatWasThere
  <2> QED
    BY <2>1, <2>2, <2>3, <2>4, <2>5, <2>6
<1>11. ASSUME NEW p \in Releaser, CheckClean(p) PROVE ReleaseInv'
  <2> USE <1>11 DEF CheckClean, AtStep
  <2>a. /\ release' \in [Releaser -> Releases]
        /\ release'[p].step \in {"clean", "idle"}
        /\ release'[p].step = "clean" =>
             /\ local = connected.revision
             /\ release'[p].digest = release[p].digest /\ release'[p].op = local
        /\ \A q \in Releaser \ {p} : release'[q] = release[q]
    <3>1. CASE Clean
      BY ONLY <3>1, CheckClean(p), ReleaseTyped, p \in Releaser
         DEF CheckClean, ReleaseTyped, Releases, Clean
    <3>2. CASE ~Clean
      BY <3>2, CommandLeaves
    <3> QED
      BY <3>1, <3>2
  <2>1. ReleaseTyped'
    BY <2>a DEF ReleaseTyped
  <2>2. OperationsDrawn'
    <3>1. /\ journal.state = "written" => journal.op # 0
          /\ connected # NotConnected => connected.op # 0 /\ workspaces[connected.op] # 0
          /\ \A o \in 1..MaxOperations :
               workspaces[o] # 0 => o <= operations /\ head # 0
      BY DEF OperationsDrawn
    <3>2. /\ journal'.state = "written" => journal'.op # 0
          /\ connected' # NotConnected => connected'.op # 0 /\ workspaces'[connected'.op] # 0
          /\ \A o \in 1..MaxOperations :
               workspaces'[o] # 0 => o <= operations' /\ head' # 0
      BY <2>a, <3>1 DEF ReleaseTyped
    <3>3. CommandDrawn(p)'
      BY <2>a DEF OperationsDrawn, CommandDrawn, ReleaseTyped
    <3>4. ASSUME NEW q \in Releaser \ {p} PROVE CommandDrawn(q)'
      BY <2>a DEF OperationsDrawn, CommandDrawn, ReleaseTyped
    <3> QED
      BY <3>2, <3>3, <3>4 DEF OperationsDrawn
  <2>3. OneContent'
    BY <2>a, ContentStays
  <2>4. collided' \/ Alone'
    BY <2>a DEF Alone
  <2>5. BaseCurrent'
    BY <2>a DEF BaseCurrent
  <2>6. PublishedWhatWasThere'
    BY <2>a DEF PublishedWhatWasThere
  <2> QED
    BY <2>1, <2>2, <2>3, <2>4, <2>5, <2>6
<1>12. ASSUME NEW p \in Releaser, SendPublish(p) PROVE ReleaseInv'
  <2> USE <1>12 DEF SendPublish, AtStep, Answered
  <2>a. /\ release' \in [Releaser -> Releases]
        /\ release'[p].step \in {"lookup", "idle"}
        /\ release'[p].step = "lookup" =>
             release'[p].digest = release[p].digest /\ release'[p].op = release[p].op
        /\ \A q \in Releaser \ {p} : release'[q] = release[q]
    <3>1. CASE Steps(p, "lookup")
      <4>1. Becomes(p, [step |-> "lookup", digest |-> release[p].digest, op |-> release[p].op])
        BY ONLY <3>1, ReleaseTyped, p \in Releaser, CommandSteps
      <4> QED
        BY <4>1 DEF Becomes
    <3>2. CASE Leaves(p)
      BY <3>2, CommandLeaves
    <3> QED
      BY <3>1, <3>2
  <2>1. ReleaseTyped'
    BY <2>a DEF ReleaseTyped
  <2>2. OperationsDrawn'
    <3>1. /\ journal.state = "written" => journal.op # 0
          /\ connected # NotConnected => connected.op # 0 /\ workspaces[connected.op] # 0
          /\ \A o \in 1..MaxOperations :
               workspaces[o] # 0 => o <= operations /\ head # 0
      BY DEF OperationsDrawn
    <3>2. /\ journal'.state = "written" => journal'.op # 0
          /\ connected' # NotConnected => connected'.op # 0 /\ workspaces'[connected'.op] # 0
          /\ \A o \in 1..MaxOperations :
               workspaces'[o] # 0 => o <= operations' /\ head' # 0
      BY <2>a, <3>1 DEF ReleaseTyped
    <3>3. CommandDrawn(p)'
      BY <2>a DEF OperationsDrawn, CommandDrawn, ReleaseTyped
    <3>4. ASSUME NEW q \in Releaser \ {p} PROVE CommandDrawn(q)'
      BY <2>a DEF OperationsDrawn, CommandDrawn, ReleaseTyped
    <3> QED
      BY <3>2, <3>3, <3>4 DEF OperationsDrawn
  <2>3. OneContent'
    BY <2>a, ContentStays
  <2>4. collided' \/ Alone'
    BY <2>a DEF Alone
  <2>5. BaseCurrent'
    BY <2>a DEF BaseCurrent
  <2>6. PublishedWhatWasThere'
    <3>1. published \subseteq published'
      OBVIOUS
    <3>2. ASSUME NEW a \in answers' PROVE a \in answers \/
             /\ a.revision = release[p].digest /\ a.looked = release[p].op
             /\ a.excused = (p \in overtaken) /\ release[p].digest \in published'
      BY <3>2
    <3>3. p \notin overtaken => release[p].op = release[p].digest
      BY DEF BaseCurrent
    <3> QED
      BY <3>1, <3>2, <3>3 DEF PublishedWhatWasThere
  <2> QED
    BY <2>1, <2>2, <2>3, <2>4, <2>5, <2>6
<1>13. ASSUME NEW p \in Releaser, LookUp(p) PROVE ReleaseInv'
  <2> USE <1>13 DEF LookUp, AtStep, Answered
  <2>a. /\ release' \in [Releaser -> Releases]
        /\ release'[p].step = "idle"
        /\ \A q \in Releaser \ {p} : release'[q] = release[q]
    BY CommandLeaves
  <2>1. ReleaseTyped'
    BY <2>a DEF ReleaseTyped
  <2>2. OperationsDrawn'
    <3>1. /\ journal.state = "written" => journal.op # 0
          /\ connected # NotConnected => connected.op # 0 /\ workspaces[connected.op] # 0
          /\ \A o \in 1..MaxOperations :
               workspaces[o] # 0 => o <= operations /\ head # 0
      BY DEF OperationsDrawn
    <3>2. /\ journal'.state = "written" => journal'.op # 0
          /\ connected' # NotConnected => connected'.op # 0 /\ workspaces'[connected'.op] # 0
          /\ \A o \in 1..MaxOperations :
               workspaces'[o] # 0 => o <= operations' /\ head' # 0
      BY <2>a, <3>1 DEF ReleaseTyped
    <3>3. CommandDrawn(p)'
      BY <2>a DEF OperationsDrawn, CommandDrawn, ReleaseTyped
    <3>4. ASSUME NEW q \in Releaser \ {p} PROVE CommandDrawn(q)'
      BY <2>a DEF OperationsDrawn, CommandDrawn, ReleaseTyped
    <3> QED
      BY <3>2, <3>3, <3>4 DEF OperationsDrawn
  <2>3. OneContent'
    BY <2>a, ContentStays
  <2>4. collided' \/ Alone'
    BY <2>a DEF Alone
  <2>5. BaseCurrent'
    BY <2>a DEF BaseCurrent
  <2>6. PublishedWhatWasThere'
    <3>1. ASSUME NEW a \in answers' PROVE a \in answers \/
             /\ a.revision = release[p].digest /\ a.looked = release[p].op
             /\ a.excused = (p \in overtaken) /\ release[p].digest \in published
      BY <3>1
    <3>2. p \notin overtaken => release[p].op = release[p].digest
      BY DEF BaseCurrent
    <3> QED
      BY <3>1, <3>2 DEF PublishedWhatWasThere
  <2> QED
    BY <2>1, <2>2, <2>3, <2>4, <2>5, <2>6
<1>14. ASSUME NEW p \in Releaser, KillRelease(p) PROVE ReleaseInv'
  <2> USE <1>14 DEF KillRelease
  <2>a. /\ release' \in [Releaser -> Releases]
        /\ release'[p].step = "idle"
        /\ \A q \in Releaser \ {p} : release'[q] = release[q]
    BY CommandLeaves
  <2>1. ReleaseTyped'
    BY <2>a DEF ReleaseTyped
  <2>2. OperationsDrawn'
    <3>1. /\ journal.state = "written" => journal.op # 0
          /\ connected # NotConnected => connected.op # 0 /\ workspaces[connected.op] # 0
          /\ \A o \in 1..MaxOperations :
               workspaces[o] # 0 => o <= operations /\ head # 0
      BY DEF OperationsDrawn
    <3>2. /\ journal'.state = "written" => journal'.op # 0
          /\ connected' # NotConnected => connected'.op # 0 /\ workspaces'[connected'.op] # 0
          /\ \A o \in 1..MaxOperations :
               workspaces'[o] # 0 => o <= operations' /\ head' # 0
      BY <2>a, <3>1 DEF ReleaseTyped
    <3>3. CommandDrawn(p)'
      BY <2>a DEF OperationsDrawn, CommandDrawn, ReleaseTyped
    <3>4. ASSUME NEW q \in Releaser \ {p} PROVE CommandDrawn(q)'
      BY <2>a DEF OperationsDrawn, CommandDrawn, ReleaseTyped
    <3> QED
      BY <3>2, <3>3, <3>4 DEF OperationsDrawn
  <2>3. OneContent'
    BY <2>a, ContentStays
  <2>4. collided' \/ Alone'
    BY <2>a DEF Alone
  <2>5. BaseCurrent'
    BY <2>a DEF BaseCurrent
  <2>6. PublishedWhatWasThere'
    BY <2>a DEF PublishedWhatWasThere
  <2> QED
    BY <2>1, <2>2, <2>3, <2>4, <2>5, <2>6
<1> QED
  BY <1>0, <1>1, <1>2, <1>3, <1>4, <1>5, <1>6, <1>7, <1>8, <1>9, <1>10, <1>11, <1>12, <1>13, <1>14
     DEF CloudReleaseNext

\* A presentation is created once, and what is published is what was there.
THEOREM ReleaseKept == CloudReleaseSpec => [](CreatedOnce /\ PublishedWhatWasThere)
<1>1. ReleaseInv => CreatedOnce
  <2> SUFFICES ASSUME ReleaseInv PROVE CreatedOnce
    OBVIOUS
  <2> DEFINE NumbersMade == {o \in 1..MaxOperations : workspaces[o] # 0}
  <2>1. Alone => Cardinality(NumbersMade) <= 1
    <3>1. CASE NumbersMade = {}
      BY <3>1, FS_EmptySet
    <3>2. CASE \E o : o \in NumbersMade
      <4>1. PICK o \in 1..MaxOperations : workspaces[o] # 0
        BY <3>2
      <4>2. Alone => NumbersMade = {o}
        BY <4>1 DEF Alone
      <4> QED
        <5>1. Cardinality({o}) = 1
          BY ONLY FS_Singleton
        <5> QED
          BY <4>2, <5>1
    <3> QED
      BY <3>1, <3>2
  <2>2. collided \/ ~(Cardinality(NumbersMade) > 1)
    <3>1. Alone => ~(Cardinality(NumbersMade) > 1)
      <4>1. IsFiniteSet(NumbersMade)
        <5>1. IsFiniteSet(1..MaxOperations)
          BY FS_Interval, CloudReleaseAssumption
        <5> QED
          BY <5>1, FS_Subset
      <4>2. Cardinality(NumbersMade) \in Nat
        BY <4>1, FS_CardinalityType
      <4> QED
        BY <2>1, <4>2
    <3> QED
      BY <3>1 DEF ReleaseInv
  <2>3. journal.state = "written" /\ workspaces[journal.op] # 0
          => workspaces[journal.op] = journal.digest
    <3>1. ReleaseTyped /\ OneContent /\ OperationsDrawn
      BY DEF ReleaseInv
    <3>2. journal.state = "written" => journal.op \in 1..MaxOperations
      BY <3>1, CloudReleaseAssumption DEF ReleaseTyped, OperationsDrawn
    <3> QED
      BY <3>1, <3>2 DEF OneContent
  <2> QED
    BY <2>2, <2>3 DEF CreatedOnce, ReleaseInv, OperationsDrawn
<1>2. ReleaseInv => PublishedWhatWasThere
  BY DEF ReleaseInv
<1> QED
  BY <1>1, <1>2, ReleaseStart, ReleaseStep, PTL DEF CloudReleaseSpec

--------------------------------------------------------------------------------
\* The types of the four parts (the invariants above say most of them).

\* What SessionInv leaves out of CloudSessionTypeOK: how often a session is renewed.
RenewalsBounded ==
  /\ \A n \in 1 .. MaxLogins : credentials[n] <= MaxRenewals
  /\ \A p \in Command : got[p][2] <= MaxRenewals
  /\ keyring[2] <= MaxRenewals

\* With it the invariant says the types of the credentials.
LEMMA SessionTypes == SessionInv /\ RenewalsBounded => CloudSessionTypeOK
<1> SUFFICES ASSUME SessionInv, RenewalsBounded PROVE CloudSessionTypeOK
  OBVIOUS
<1>1. MaxLogins \in Nat /\ MaxRenewals \in Nat
  BY CloudSessionAssumption
<1>2. credentials \in [1..MaxLogins -> 0..MaxRenewals]
  <2>1. credentials \in [1..MaxLogins -> Nat]
    BY DEF SessionInv, SessionTyped
  <2> QED
    BY <1>1, <2>1 DEF RenewalsBounded
<1>3. keyring[1] \in 0..MaxLogins /\ keyring[2] \in 0..MaxRenewals
  BY <1>1 DEF SessionInv, SessionTyped, Given, NoCredential, RenewalsBounded
<1>4. keyLock \subseteq Command
  BY DEF SessionInv
<1> QED
  BY <1>2, <1>3, <1>4 DEF SessionInv, SessionTyped, LockHolder, CloudSessionTypeOK

\* Nothing is renewed at first.
LEMMA RenewalsStart == CloudSessionInit => RenewalsBounded
BY CloudSessionAssumption DEF CloudSessionInit, RenewalsBounded, NoCredential

\* A session is renewed within the bound.
LEMMA RenewalsStep ==
  SessionInv /\ RenewalsBounded /\ [CloudSessionNext]_sessionVars => RenewalsBounded'
<1> SUFFICES ASSUME SessionInv, RenewalsBounded, [CloudSessionNext]_sessionVars
             PROVE  RenewalsBounded'
  OBVIOUS
<1>1. /\ MaxLogins \in Nat /\ MaxRenewals \in Nat \ {0} /\ loginsMade \in 0..MaxLogins
      /\ credentials \in [1..MaxLogins -> Nat]
      /\ keyring \in Given \cup {NoCredential} /\ got \in [Command -> Given \cup {NoCredential}]
  BY CloudSessionAssumption DEF SessionInv, SessionTyped
<1>2. NoCredential[2] = 0
  BY DEF NoCredential
<1>3. CASE UNCHANGED sessionVars
  BY <1>3 DEF sessionVars, RenewalsBounded
<1>4. ASSUME NEW p \in Command, ExchangeDevice(p) PROVE RenewalsBounded'
  BY <1>1, <1>4 DEF ExchangeDevice, RenewalsBounded
<1>5. ASSUME NEW p \in Command, LoadCredential(p) PROVE RenewalsBounded'
  BY <1>1, <1>5 DEF LoadCredential, RenewalsBounded
<1>6. ASSUME NEW p \in Command, RenewSession(p) \/ RenewalLost(p) PROVE RenewalsBounded'
  <2> DEFINE n == got[p][1]
  <2>1. Honoured(got[p]) => n \in 1..MaxLogins /\ credentials[n] = got[p][2]
    BY <1>1 DEF Honoured, Given
  <2>2. keyring' = keyring
    BY <1>6 DEF RenewSession, RenewalLost
  <2>3. ASSUME NEW m \in 1..MaxLogins PROVE credentials'[m] <= MaxRenewals
    <3>1. \/ credentials' = credentials \/ credentials' = [credentials EXCEPT ![n] = 0]
          \/ /\ Honoured(got[p]) /\ got[p][2] < MaxRenewals
             /\ credentials' = [credentials EXCEPT ![n] = @ + 1]
      BY <1>6 DEF RenewSession, RenewalLost
    <3> HIDE DEF n
    <3>2. \/ credentials'[m] = credentials[m] \/ credentials'[m] = 0
          \/ /\ Honoured(got[p]) /\ got[p][2] < MaxRenewals
             /\ credentials'[m] = credentials[n] + 1
      BY <1>1, <3>1
    <3>3. credentials[m] <= MaxRenewals /\ got[p][2] \in Nat
      BY <1>1 DEF Given, NoCredential, RenewalsBounded
    <3> QED
      BY <1>1, <2>1, <3>2, <3>3
  <2>4. ASSUME NEW q \in Command PROVE got'[q][2] <= MaxRenewals
    <3>1. got[q][2] \in Nat
      BY <1>1 DEF Given, NoCredential
    <3>2. \/ got' = got
          \/ got' = [got EXCEPT ![p] = Renewed(got[p])] /\ got[p][2] < MaxRenewals
      BY <1>6 DEF RenewSession, RenewalLost, Renewed
    <3>3. got'[q] = got[q] \/ (got'[q] = Renewed(got[q]) /\ got[q][2] < MaxRenewals)
      BY <1>1, <3>2
    <3>4. Renewed(got[q])[2] = got[q][2] + 1
      BY DEF Renewed
    <3> HIDE DEF Renewed
    <3> QED
      BY <1>1, <3>1, <3>3, <3>4 DEF RenewalsBounded
  <2> QED
    BY <2>2, <2>3, <2>4 DEF RenewalsBounded
<1>7. ASSUME NEW p \in Command, SaveCredential(p) PROVE RenewalsBounded'
  BY <1>1, <1>7 DEF SaveCredential, RenewalsBounded
<1>8. ASSUME NEW p \in Command, UnlockStore(p) \/ KillCommand(p) PROVE RenewalsBounded'
  BY <1>1, <1>2, <1>8 DEF UnlockStore, KillCommand, RenewalsBounded
<1>9. ASSUME NEW p \in Command, LogOut(p) PROVE RenewalsBounded'
  <2>1. got' = got /\ (keyring' = keyring \/ keyring' = NoCredential)
    BY <1>9 DEF LogOut
  <2>2. \A m \in 1..MaxLogins : credentials'[m] = credentials[m] \/ credentials'[m] = 0
    BY <1>1, <1>9 DEF LogOut
  <2> QED
    BY <1>1, <1>2, <2>1, <2>2 DEF RenewalsBounded
<1>10. ASSUME NEW p \in Command, AcceptLogin(p) \/ SaveFails(p) PROVE RenewalsBounded'
  BY <1>10 DEF AcceptLogin, SaveFails, RenewalsBounded
<1> QED
  BY <1>3, <1>4, <1>5, <1>6, <1>7, <1>8, <1>9, <1>10 DEF CloudSessionNext

\* What ReleaseInv leaves out of CloudReleaseTypeOK: no content is newer than the newest
\* there is, and what is connected and published is a content.
ContentsBounded ==
  /\ newest <= MaxContent /\ local <= newest /\ head <= newest
  /\ connected.revision <= newest
  /\ connected # NotConnected => connected.revision # 0
  /\ \A o \in 1 .. MaxOperations : workspaces[o] <= newest
  /\ \A p \in Releaser :
       /\ release[p].digest <= newest
       /\ release[p].step \in {"base", "clean", "lookup"} => release[p].digest # 0
  /\ published \subseteq 1 .. newest
  /\ faults \in 0 .. MaxFaults

\* With it the invariant says the types of creation and publication.
LEMMA ReleaseTypes == ReleaseInv /\ ContentsBounded => CloudReleaseTypeOK
<1> SUFFICES ASSUME ReleaseInv, ContentsBounded PROVE CloudReleaseTypeOK
  OBVIOUS
<1>1. /\ MaxContent \in Nat /\ MaxOperations \in Nat
      /\ local \in Nat \ {0} /\ newest \in Nat \ {0} /\ head \in Nat
      /\ operations \in 0..MaxOperations /\ newest <= MaxContent
      /\ journal \in [state : {"none", "torn", "written"}, digest : Nat, op : 0..operations]
      /\ workspaces \in [1..MaxOperations -> Nat]
  BY CloudReleaseAssumption DEF ReleaseInv, ReleaseTyped, ContentsBounded
<1>2. workspaces \in [1..MaxOperations -> 0..MaxContent]
  <2>1. \A o \in 1..MaxOperations : workspaces[o] \in 0..MaxContent
    BY <1>1 DEF ContentsBounded
  <2> QED
    BY <1>1, <2>1
<1>3. journal.op \in 0..MaxOperations
  BY <1>1
<1>4. published \subseteq 1..MaxContent
  BY <1>1 DEF ContentsBounded
<1> QED
  BY <1>1, <1>2, <1>3, <1>4 DEF ContentsBounded, CloudReleaseTypeOK

\* The first content is the newest at first.
LEMMA ContentsStart == CloudReleaseInit => ContentsBounded
BY CloudReleaseAssumption DEF CloudReleaseInit, ContentsBounded, NotConnected, NoRelease

\* Edits make contents within the bound, and the commands pass those on.
LEMMA ContentsStep ==
  ReleaseInv /\ ContentsBounded /\ [CloudReleaseNext]_releaseVars => ContentsBounded'
<1> SUFFICES ASSUME ReleaseInv, ContentsBounded, [CloudReleaseNext]_releaseVars
             PROVE  ContentsBounded'
  OBVIOUS
<1>1. /\ MaxContent \in Nat /\ MaxFaults \in Nat
      /\ local \in Nat \ {0} /\ newest \in Nat \ {0} /\ head \in Nat
      /\ connected \in [op : 0..operations, revision : Nat]
      /\ workspaces \in [1..MaxOperations -> Nat]
      /\ release \in [Releaser -> Releases]
  BY CloudReleaseAssumption DEF ReleaseInv, ReleaseTyped
<1>2. \A p \in Releaser :
        /\ release[p] = [step |-> release[p].step, digest |-> release[p].digest,
                         op |-> release[p].op]
        /\ release[p].digest \in Nat
  BY <1>1 DEF Releases
<1>3. Faulty => faults' \in 0 .. MaxFaults
  BY <1>1 DEF Faulty, ContentsBounded
<1>4. \A p \in Releaser : Leaves(p) =>
        \A q \in Releaser : release'[q] = release[q] \/ release'[q] = NoRelease
  BY <1>1 DEF Leaves
<1> HIDE DEF Faulty, Leaves
<1>5. CASE UNCHANGED releaseVars
  BY <1>5 DEF releaseVars, ContentsBounded
<1>6. CASE EditFiles \/ EditInCloud
  <2>1. /\ newest < MaxContent /\ newest' = newest + 1
        /\ local' \in {local, newest + 1} /\ head' \in {head, newest + 1}
        /\ UNCHANGED <<connected, workspaces, release, published, faults>>
    BY <1>6 DEF EditFiles, EditInCloud, connection, service
  <2>2. published' \subseteq 1 .. newest'
    BY <1>1, <2>1 DEF ContentsBounded
  <2>3. /\ newest' <= MaxContent /\ local' <= newest' /\ head' <= newest'
        /\ connected'.revision <= newest'
        /\ \A o \in 1 .. MaxOperations : workspaces'[o] <= newest'
        /\ \A p \in Releaser : release'[p].digest <= newest'
    BY <1>1, <1>2, <2>1 DEF ContentsBounded
  <2> QED
    BY <2>1, <2>2, <2>3 DEF ContentsBounded
<1>7. CASE Synchronize
  <2>1. head # 0
    <3>1. connected.op \in 0..operations /\ operations \in 0..MaxOperations
      BY <1>1 DEF ReleaseInv, ReleaseTyped
    <3>2. connected.op # 0 /\ workspaces[connected.op] # 0
      BY <1>7 DEF Synchronize, ReleaseInv, OperationsDrawn
    <3>3. connected.op \in 1..MaxOperations
      BY <3>1, <3>2, CloudReleaseAssumption
    <3> QED
      BY <3>2, <3>3 DEF ReleaseInv, OperationsDrawn
  <2>2. PICK c \in {local, head} :
          /\ local' = c /\ head' = c /\ connected' = [connected EXCEPT !.revision = c]
    BY <1>7 DEF Synchronize
  <2>3. c \in Nat \ {0} /\ c <= newest /\ connected'.revision = c
    BY <1>1, <2>1, <2>2 DEF ContentsBounded
  <2> QED
    BY <1>7, <2>2, <2>3 DEF Synchronize, ContentsBounded
<1>8. ASSUME UNCHANGED <<newest, local, head, connected, workspaces, published>>,
             faults' \in 0 .. MaxFaults,
             \A q \in Releaser :
               \/ release'[q] = NoRelease
               \/ /\ release'[q].digest = local
                  /\ release'[q].step \notin {"base", "clean", "lookup"}
               \/ /\ release'[q].digest = release[q].digest
                  /\ release'[q].step \in {"base", "clean", "lookup"} =>
                       release[q].step \in {"base", "clean", "lookup"}
      PROVE  ContentsBounded'
  BY <1>1, <1>8 DEF ContentsBounded, NoRelease
<1>9. faults \in 0 .. MaxFaults
  BY DEF ContentsBounded
<1>10. ASSUME NEW p \in Releaser, BeginCreate(p) PROVE ContentsBounded'
  <2>1. /\ UNCHANGED <<newest, local, head, connected, workspaces, published, faults>>
        /\ release' = [release EXCEPT ![p] = [step |-> "snapshot", digest |-> local, op |-> 0]]
    BY <1>10 DEF BeginCreate, contents, connection, service
  <2> QED
    BY <1>1, <1>8, <1>9, <2>1
<1>11. ASSUME NEW p \in Releaser, Journal(p) PROVE ContentsBounded'
  <2>1. /\ UNCHANGED <<newest, local, head, connected, workspaces, published, faults>>
        /\ \E o : release' = [release EXCEPT ![p].step = "journalled", ![p].op = o]
    BY <1>11 DEF Journal, ChooseOperation, contents, service
  <2> QED
    BY <1>1, <1>2, <1>8, <1>9, <2>1
<1>12. ASSUME NEW p \in Releaser, JournalFailed(p) \/ RemoveJournal(p) \/ KillRelease(p)
       PROVE  ContentsBounded'
  <2>1. /\ UNCHANGED <<newest, local, head, connected, workspaces, published>>
        /\ (Faulty \/ faults' = faults) /\ Leaves(p)
    BY <1>12 DEF JournalFailed, RemoveJournal, KillRelease, contents, service, connection
  <2> QED
    BY <1>3, <1>4, <1>8, <1>9, <2>1
<1>13. ASSUME NEW p \in Releaser, CheckClean(p) PROVE ContentsBounded'
  <2>1. /\ UNCHANGED <<newest, local, head, connected, workspaces, published, faults>>
        /\ AtStep(p, "base")
        /\ Leaves(p) \/ release' = [release EXCEPT ![p].step = "clean", ![p].op = local]
    BY <1>13 DEF CheckClean, contents, service, connection
  <2>2. \A q \in Releaser :
          \/ release'[q] = NoRelease
          \/ /\ release'[q].digest = release[q].digest
             /\ release'[q].step = release[q].step \/ q = p
    BY <1>1, <1>2, <1>4, <2>1
  <2> QED
    BY <1>8, <1>9, <2>1, <2>2 DEF AtStep
<1>14. ASSUME NEW p \in Releaser, Upload(p) PROVE ContentsBounded'
  <2>1. /\ UNCHANGED <<newest, local, connected, published>> /\ (Faulty \/ faults' = faults)
        /\ Leaves(p) \/ Steps(p, "created")
        /\ workspaces' = [workspaces EXCEPT ![release[p].op] =
                            IF @ = 0 THEN release[p].digest ELSE @]
        /\ head' = release[p].digest \/ head' = head
    BY <1>14 DEF Upload, contents, connection
  <2>2. \A q \in Releaser :
          \/ release'[q] = release[q] \/ release'[q] = NoRelease
          \/ release'[q].digest = release[q].digest /\ release'[q].step = "created"
    BY <1>1, <1>2, <1>4, <2>1 DEF Steps
  <2>3. head' <= newest /\ \A o \in 1 .. MaxOperations : workspaces'[o] <= newest
    BY <1>1, <2>1 DEF ContentsBounded
  <2> QED
    BY <1>1, <1>3, <1>9, <2>1, <2>2, <2>3 DEF ContentsBounded, NoRelease
<1>15. ASSUME NEW p \in Releaser, SaveConnection(p) PROVE ContentsBounded'
  <2>1. /\ UNCHANGED <<newest, local, head, workspaces, published>>
        /\ (Faulty \/ faults' = faults)
        /\ Leaves(p) \/ Steps(p, "connected")
        /\ connected' = connected
             \/ connected' = [op |-> release[p].op, revision |-> release[p].digest]
        /\ release[p].step = "created"
    BY <1>15 DEF SaveConnection, contents, service, AtStep
  <2>2. \A q \in Releaser :
          \/ release'[q] = release[q] \/ release'[q] = NoRelease
          \/ release'[q].digest = release[q].digest /\ release'[q].step = "connected"
    BY <1>1, <1>2, <1>4, <2>1 DEF Steps
  <2>3. release[p].digest # 0 /\ release[p].digest <= newest
    BY <2>1 DEF ReleaseInv, OperationsDrawn, CommandDrawn, Creating, Uploading, ContentsBounded
  <2> QED
    BY <1>1, <1>3, <1>9, <2>1, <2>2, <2>3 DEF ContentsBounded, NoRelease
<1>16. ASSUME NEW p \in Releaser, ReadConnection(p) PROVE ContentsBounded'
  <2>1. /\ UNCHANGED <<newest, local, head, connected, workspaces, published, faults>>
        /\ connected # NotConnected
        /\ release' = [release EXCEPT ![p] = [step |-> "base", digest |-> connected.revision,
                                              op |-> 0]]
    BY <1>16 DEF ReadConnection, contents, connection, service
  <2> QED
    BY <1>1, <1>9, <2>1 DEF ContentsBounded
<1>17. ASSUME NEW p \in Releaser, SendPublish(p) \/ LookUp(p) PROVE ContentsBounded'
  <2>1. /\ UNCHANGED <<newest, local, head, connected, workspaces>>
        /\ release[p].step \in {"clean", "lookup"}
        /\ (Faulty \/ faults' = faults) /\ (Leaves(p) \/ Steps(p, "lookup"))
        /\ published' \in {published, published \cup {release[p].digest}}
    BY <1>17 DEF SendPublish, LookUp, Answered, AtStep, contents, connection, service
  <2>2. \A q \in Releaser :
          \/ release'[q] = release[q] \/ release'[q] = NoRelease
          \/ q = p /\ release'[q].digest = release[q].digest
    BY <1>1, <1>2, <1>4, <2>1 DEF Steps
  <2>3. release[p].digest \in 1 .. newest
    BY <1>1, <1>2, <2>1 DEF ContentsBounded
  <2> QED
    BY <1>1, <1>3, <1>9, <2>1, <2>2, <2>3 DEF ContentsBounded, NoRelease
<1> QED
  BY <1>5, <1>6, <1>7, <1>10, <1>11, <1>12, <1>13, <1>14, <1>15, <1>16, <1>17
     DEF CloudReleaseNext

\* What ExchangeInv leaves out of CloudTransferTypeOK: the kinds of messages, and that
\* the service's revision is one.
MessagesTyped ==
  /\ headFiles \in Files
  /\ wire.kind \in {"unset", "none", "request", "serve", "answer", "done"}

\* With it the invariant says the types of the exchange.
LEMMA ExchangeTypes == ExchangeInv /\ MessagesTyped => CloudTransferTypeOK
BY DEF ExchangeInv, MessagesTyped, Files, Nothing, CloudTransferTypeOK

\* Nothing is on the wire at first.
LEMMA MessagesStart == CloudTransferInit => MessagesTyped
BY DEF CloudTransferInit, MessagesTyped, Files, Nothing, NoMessage

\* Each side sends messages of its kinds, of files.
LEMMA MessagesStep == MessagesTyped /\ [CloudTransferNext]_transferringVars => MessagesTyped'
<1> SUFFICES ASSUME MessagesTyped, [CloudTransferNext]_transferringVars PROVE MessagesTyped'
  OBVIOUS
<1>1. headFiles' = headFiles \/ headFiles' \in Files
  BY DEF CloudTransferNext, transferringVars, Capture, SendSync, ServeSync, SendDownload,
         Answer, AcceptAnswer, LoseMessage
<1>2. wire'.kind = wire.kind
        \/ wire'.kind \in {"none", "request", "serve", "answer", "done"}
  BY DEF CloudTransferNext, transferringVars, Capture, SendSync, ServeSync, SendDownload,
         Answer, AcceptAnswer, LoseMessage, NoMessage
<1> QED
  BY <1>1, <1>2 DEF MessagesTyped

\* What EditorInv leaves out of EditorTypeOK: files, and snapshots of them, are by the
\* edits there were.
EditionsBounded ==
  /\ editions <= MaxEditions
  /\ \A f \in EditedFile : folder[f] <= editions
  /\ \A s \in snapshots, f \in EditedFile : s.files[f] \in 0 .. editions

\* With it the invariant says the types of editor sessions.
LEMMA EditorTypes == EditorInv /\ EditionsBounded => EditorTypeOK
<1> SUFFICES ASSUME EditorInv, EditionsBounded PROVE EditorTypeOK
  OBVIOUS
<1>1. /\ MaxEditions \in Nat /\ editions \in Nat /\ folder \in [EditedFile -> Nat]
      /\ gatewayWork \in [Gateway -> EditorRequest]
  BY EditorAssumption DEF EditorInv, EditorTyped
<1>2. folder \in [EditedFile -> 0..MaxEditions]
  BY <1>1 DEF EditionsBounded
<1>3. sessionMu \subseteq Gateway
  BY DEF EditorInv
<1> QED
  BY <1>1, <1>2, <1>3 DEF EditionsBounded, EditorRequest, EditorTypeOK

\* Nothing is edited at first.
LEMMA EditionsStart == EditorInit => EditionsBounded
BY EditorAssumption DEF EditorInit, EditionsBounded

\* Edits are numbered within the bound, and snapshots are of what was read.
LEMMA EditionsStep == EditorInv /\ EditionsBounded /\ [EditorNext]_editorVars => EditionsBounded'
<1> SUFFICES ASSUME EditorInv, EditionsBounded, [EditorNext]_editorVars PROVE EditionsBounded'
  OBVIOUS
<1>1. /\ MaxEditions \in Nat /\ editions \in Nat /\ folder \in [EditedFile -> Nat]
      /\ gatewayWork \in [Gateway -> EditorRequest]
  BY EditorAssumption DEF EditorInv, EditorTyped
<1>2. CASE UNCHANGED <<editions, folder, snapshots>>
  BY <1>2 DEF EditionsBounded
<1>3. ASSUME NEW g \in Gateway, BeginEdition(g) PROVE EditionsBounded'
  BY <1>1, <1>3 DEF BeginEdition, EditionsBounded
<1>4. ASSUME NEW g \in Gateway, WriteEdition(g) PROVE EditionsBounded'
  <2>1. gatewayWork[g].edit = editions
    BY <1>4 DEF WriteEdition, EditorInv, GatewayFits
  <2> QED
    BY <1>1, <1>4, <2>1 DEF WriteEdition, EditionsBounded
<1>5. ASSUME NEW g \in Gateway, ServeSnapshot(g) PROVE EditionsBounded'
  <2> DEFINE read == gatewayWork[g].read
  <2>1. \A f \in EditedFile : read[f] = folder[f]
    BY <1>5 DEF ServeSnapshot, EditorInv, GatewayFits
  <2>2. /\ snapshots' = snapshots \cup {[files |-> read, before |-> gatewayWork[g].before]}
        /\ UNCHANGED <<folder, editions>>
    BY <1>5 DEF ServeSnapshot
  <2> HIDE DEF read
  <2> QED
    BY <1>1, <2>1, <2>2 DEF EditionsBounded
<1>6. ASSUME NEW g \in Gateway, RestoreCheckpoint(g) PROVE EditionsBounded'
  <2>1. /\ \E s \in snapshots : folder' = s.files
        /\ UNCHANGED <<editions, snapshots>>
    BY <1>6 DEF RestoreCheckpoint
  <2> QED
    BY <1>1, <2>1 DEF EditionsBounded
<1>7. ASSUME NEW g \in Gateway, EndEdition(g) \/ BeginSnapshot(g) \/ ReadFiles(g)
      PROVE  UNCHANGED <<editions, folder, snapshots>>
  BY <1>7 DEF EndEdition, BeginSnapshot, ReadFiles
<1>8. CASE Expire \/ UNCHANGED editorVars
  BY <1>2, <1>8 DEF Expire, editorVars
<1> QED
  BY <1>2, <1>3, <1>4, <1>5, <1>6, <1>7, <1>8 DEF EditorNext

--------------------------------------------------------------------------------
\* The studio: whatever part moves, each of these takes a step of its own or rests.
LEMMA CloudMoves ==
  [StudioNext]_studioVars =>
    /\ [CloudSessionNext]_sessionVars
    /\ [CloudReleaseNext]_releaseVars
    /\ [CloudTransferNext]_transferringVars
    /\ [EditorNext]_editorVars
<1> SUFFICES ASSUME [StudioNext]_studioVars
             PROVE  /\ [CloudSessionNext]_sessionVars
                    /\ [CloudReleaseNext]_releaseVars
                    /\ [CloudTransferNext]_transferringVars
                    /\ [EditorNext]_editorVars
  OBVIOUS
<1>1. CASE StudioNext
  BY <1>1, Zenon DEF StudioNext
<1>2. CASE UNCHANGED studioVars
  BY <1>2 DEF studioVars
<1> QED
  BY <1>1, <1>2

\* The studio's credential, presentations, publications, transfers and snapshots.
THEOREM CloudIsKept == StudioSpec => []CloudKept
<1>1. StudioInit => CloudSessionInit /\ CloudReleaseInit /\ CloudTransferInit /\ EditorInit
  BY DEF StudioInit
<1>2. StudioSpec => CloudSessionSpec /\ CloudReleaseSpec /\ CloudTransferSpec /\ EditorSpec
  BY <1>1, CloudMoves, PTL
     DEF StudioSpec, CloudSessionSpec, CloudReleaseSpec, CloudTransferSpec, EditorSpec
<1> QED
  BY <1>2, SessionKept, ReleaseKept, TransferKept, EditorKept, PTL DEF CloudKept
================================================================================
