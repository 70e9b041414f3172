--------------------------- MODULE EnrollmentProofs ---------------------------
(***************************************************************************)
(* Theorems about Enrollment, for all sets of hosts, installations,        *)
(* attempts and tokens, and any number of faults.                          *)
(***************************************************************************)
EXTENDS Enrollment, TLAPS

USE EnrollmentAssumption

(***************************************************************************)
(* Types.  ControlOK is the part of TypeOK that Goto and Refuse maintain,  *)
(* with the fact that only an attempt that never started is idle; TypeInv  *)
(* adds that a rotation is a fault.                                        *)
(***************************************************************************)
Points == Running \cup {"idle", "challenged", "refused", "ended"}

ControlOK ==
  /\ pc \in [Attempts -> Points]
  /\ refusal \in [Attempts -> Reasons]
  /\ \A a \in Attempts : pc[a] = "refused" <=> refusal[a] # "none"
  /\ client \in [Attempts -> {"idle", "waiting", "over"}]
  /\ \A a \in Attempts : client[a] = "idle" <=> pc[a] = "idle"

TypeInv == TypeOK /\ ControlOK /\ rsa <= faults

LEMMA GotoControl ==
  ASSUME ControlOK, NEW a \in Attempts, NEW label \in Running \cup {"challenged"},
         pc[a] \notin {"idle", "refused"}, Goto(a, label)
  PROVE  ControlOK'
BY DEF ControlOK, Points, Goto, Running, Phase1, Phase2, Paid

LEMMA RefuseControl ==
  ASSUME ControlOK, NEW a \in Attempts, NEW reason \in Reasons \ {"none"},
         pc[a] # "idle", Refuse(a, reason)
  PROVE  ControlOK'
BY DEF ControlOK, Points, Refuse

LEMMA TypeInvariant == Spec => []TypeInv
<1>1. Init => TypeInv
  BY DEF Init, TypeInv, TypeOK, ControlOK, Points, Running, Phase1, Phase2, Paid, Reasons
<1>2. TypeInv /\ [Next]_vars => TypeInv'
  <2> SUFFICES ASSUME TypeInv, [Next]_vars PROVE TypeInv'
    OBVIOUS
  <2> USE DEF TypeInv, TypeOK, Host, Token, tables, memory, handler, minion, history, Fault, Act
  <2>c. ControlOK
    OBVIOUS
  <2>l. \A a \in Attempts, label \in Running \cup {"challenged"} :
          pc[a] \notin {"idle", "refused"} /\ Goto(a, label) => ControlOK'
    BY <2>c, GotoControl
  <2>r. \A a \in Attempts, reason \in Reasons \ {"none"} :
          pc[a] # "idle" /\ Refuse(a, reason) => ControlOK'
    BY <2>c, RefuseControl
  <2>v. {"keys1", "keys2", "nonce", "consume", "spend", "authorize", "register", "issued",
         "validate2"} \subseteq Running
    BY DEF Running, Phase1, Phase2, Paid
  <2>w. {"token", "db", "unauthorized", "no_challenge", "decryption", "mismatch"}
          \subseteq Reasons \ {"none"}
    BY DEF Reasons
  <2>0. CASE UNCHANGED vars
    BY <2>0 DEF vars, ControlOK, Points
  <2>1. ASSUME NEW a \in Attempts, Start(a) PROVE TypeInv'
    BY <2>1 DEF Start, Running, Phase1, ControlOK, Points
  <2>2. ASSUME NEW a \in Attempts, AnswerChallenge(a) PROVE TypeInv'
    <3>1. ControlOK'
      BY <2>2, <2>l, <2>v DEF AnswerChallenge
    <3> QED BY <2>2, <3>1 DEF AnswerChallenge, ControlOK, Points
  <2>3. ASSUME NEW a \in Attempts, StoreJwt(a) PROVE TypeInv'
    BY <2>3 DEF StoreJwt, ControlOK, Points
  <2>4. ASSUME NEW a \in Attempts, Validate(a) PROVE TypeInv'
    <3>1. ControlOK'
      BY <2>4, <2>l, <2>r, <2>v, <2>w DEF Validate
    <3> QED BY <2>4, <3>1 DEF Validate, ControlOK, Points
  <2>5. ASSUME NEW a \in Attempts, ReadKeys(a) PROVE TypeInv'
    <3>1. ControlOK'
      BY <2>5, <2>l, <2>v DEF ReadKeys
    <3>2. offered' \in [Attempts -> 0..MaxFaults] /\ held' \in [Attempts -> 0..MaxFaults]
      BY <2>5 DEF ReadKeys
    <3>3. UNCHANGED <<tables, memory, jwt, history>>
      BY <2>5 DEF ReadKeys
    <3> QED BY <3>1, <3>2, <3>3 DEF ControlOK, Points
  <2>6. ASSUME NEW a \in Attempts, StorePendingNonce(a) PROVE TypeInv'
    <3>1. ControlOK'
      BY <2>6, <2>l, <2>v DEF StorePendingNonce
    <3> QED BY <2>6, <3>1 DEF StorePendingNonce, Displaced, ControlOK, Points
  <2>7. ASSUME NEW a \in Attempts, ConsumePendingNonce(a) PROVE TypeInv'
    <3>1. Verdict(a, pending[Host(a)]) \in {"no_challenge", "decryption", "mismatch", "none"}
      BY DEF Verdict
    <3>2. ControlOK'
      BY <2>7, <3>1, <2>l, <2>r, <2>v, <2>w DEF ConsumePendingNonce
    <3> QED BY <2>7, <3>2 DEF ConsumePendingNonce, Displaced, ControlOK, Points
  <2>8. ASSUME NEW a \in Attempts, ConsumeEnrollmentToken(a) PROVE TypeInv'
    <3>1. ControlOK'
      BY <2>8, <2>l, <2>r, <2>v, <2>w DEF ConsumeEnrollmentToken
    <3> QED BY <2>8, <3>1 DEF ConsumeEnrollmentToken, ControlOK, Points
  <2>9. ASSUME NEW a \in Attempts, AddAuthorizedKey(a) PROVE TypeInv'
    <3>1. ControlOK'
      BY <2>9, <2>l, <2>v DEF AddAuthorizedKey
    <3> QED BY <2>9, <3>1 DEF AddAuthorizedKey, ControlOK, Points
  <2>10. ASSUME NEW a \in Attempts, PersistAgent(a) PROVE TypeInv'
    <3>1. ControlOK'
      BY <2>10, <2>l, <2>r, <2>v, <2>w DEF PersistAgent
    <3>2. /\ agents' \in [Hosts -> [key: Installs, jti: Attempts] \cup {None}]
          /\ deleted' \in SUBSET Hosts
      BY <2>10 DEF PersistAgent
    <3>3. UNCHANGED <<token, spent, authorized, memory, offered, held, jwt, faults, acts, lost>>
      BY <2>10 DEF PersistAgent
    <3> QED BY <3>1, <3>2, <3>3 DEF ControlOK, Points
  <2>11. ASSUME NEW a \in Attempts, GetAuthorizedKey(a) PROVE TypeInv'
    <3>1. ControlOK'
      BY <2>11, <2>l, <2>r, <2>v, <2>w DEF GetAuthorizedKey
    <3> QED BY <2>11, <3>1 DEF GetAuthorizedKey, ControlOK, Points
  <2>12. ASSUME NEW a \in Attempts, Abandon(a) \/ NonceExpires(a) PROVE TypeInv'
    <3>1. CASE Abandon(a)
      BY <3>1 DEF Abandon, ControlOK, Points
    <3>2. CASE NonceExpires(a)
      BY <3>2 DEF NonceExpires, ControlOK, Points
    <3> QED BY <2>12, <3>1, <3>2
  <2>13. ASSUME NEW t \in Tokens, AdminDeleteToken(t) \/ ExpireToken(t) PROVE TypeInv'
    BY <2>13 DEF AdminDeleteToken, ExpireToken, Remove, ControlOK, Points
  <2>14. ASSUME NEW i \in Installs, AdminAuthorize(i) \/ ForgetJwt(i) PROVE TypeInv'
    <3>1. CASE AdminAuthorize(i)
      <4>1. authorized' \in [Hosts -> Installs \cup {None}]
        BY <3>1 DEF AdminAuthorize
      <4> QED BY <3>1, <4>1 DEF AdminAuthorize, ControlOK, Points
    <3>2. CASE ForgetJwt(i)
      BY <3>2 DEF ForgetJwt, ControlOK, Points
    <3> QED BY <2>14, <3>1, <3>2
  <2>15. ASSUME NEW h \in Hosts, DeleteAgent(h) PROVE TypeInv'
    BY <2>15 DEF DeleteAgent, ControlOK, Points
  <2>16. CASE AdminPurgeTokens
    BY <2>16 DEF AdminPurgeTokens, Remove, ControlOK, Points
  <2>17. CASE RotateKeys
    BY <2>17 DEF RotateKeys, ControlOK, Points
  <2>18. CASE Crash
    BY <2>18 DEF Crash, Reasons, ControlOK, Points
  <2> QED
    BY <2>0, <2>1, <2>2, <2>3, <2>4, <2>5, <2>6, <2>7, <2>8, <2>9, <2>10, <2>11, <2>12,
       <2>13, <2>14, <2>15, <2>16, <2>17, <2>18 DEF Next, Enroll, RegisterAgent
<1> QED BY <1>1, <1>2, PTL DEF Spec

\* Every variable keeps its type, and exactly the refused attempts have a reason.
THEOREM TypeCorrect == Spec => []TypeOK
<1>1. TypeInv => TypeOK
  BY DEF TypeInv
<1> QED BY <1>1, TypeInvariant, PTL

-----------------------------------------------------------------------------
(***************************************************************************)
(* Uses.  Whoever is past ConsumeEnrollmentToken has been counted; only an *)
(* attempt without token gets there by another way.                        *)
(***************************************************************************)
Counts(a) == a \in Legacy \/ a \in spent[Token(a)]

UsesInv ==
  /\ \A a \in Attempts : pc[a] = "lookup" => a \in Legacy
  /\ \A a \in Attempts : pc[a] \in Paid \cup {"ended"} => Counts(a)
  /\ \A h \in Hosts : agents[h] # None => Counts(agents[h].jti)
  /\ \A i \in Installs : jwt[i] # None => Counts(jwt[i])

LEMMA UsesStep == ASSUME TypeInv, UsesInv, [Next]_vars PROVE UsesInv'
<1> USE DEF UsesInv, Counts, TypeInv, TypeOK, Token, Goto, Refuse, Paid, tables, memory, handler,
            minion, history
<1>0. CASE UNCHANGED vars
  BY <1>0 DEF vars
<1>1. ASSUME NEW a \in Attempts, Start(a) PROVE UsesInv'
  BY <1>1 DEF Start
<1>2. ASSUME NEW a \in Attempts, AnswerChallenge(a) PROVE UsesInv'
  BY <1>2 DEF AnswerChallenge
<1>3. ASSUME NEW a \in Attempts, StoreJwt(a) PROVE UsesInv'
  BY <1>3 DEF StoreJwt
<1>4. ASSUME NEW a \in Attempts, Validate(a) \/ ReadKeys(a) PROVE UsesInv'
  BY <1>4 DEF Validate, ReadKeys
<1>5. ASSUME NEW a \in Attempts, StorePendingNonce(a) \/ ConsumePendingNonce(a) PROVE UsesInv'
  BY <1>5 DEF StorePendingNonce, ConsumePendingNonce
<1>6. ASSUME NEW a \in Attempts, ConsumeEnrollmentToken(a) PROVE UsesInv'
  <2>0. \A b \in Attempts : Token(b) \in Tokens
    BY EnrollmentAssumption
  <2>1. \A t \in Tokens : spent[t] \subseteq spent'[t]
    BY <1>6, <2>0 DEF ConsumeEnrollmentToken
  <2>2. pc'[a] = "authorize" => a \in spent'[Token(a)]
    BY <1>6, EnrollmentAssumption DEF ConsumeEnrollmentToken
  <2>3. pc'[a] \in {"authorize", "refused"} /\ UNCHANGED <<agents, jwt>>
    BY <1>6 DEF ConsumeEnrollmentToken
  <2>4. \A b \in Attempts \ {a} : pc'[b] = pc[b]
    BY <1>6 DEF ConsumeEnrollmentToken
  <2> QED BY <2>0, <2>1, <2>2, <2>3, <2>4
<1>7. ASSUME NEW a \in Attempts, AddAuthorizedKey(a) PROVE UsesInv'
  BY <1>7 DEF AddAuthorizedKey
<1>8. ASSUME NEW a \in Attempts, PersistAgent(a) PROVE UsesInv'
  BY <1>8 DEF PersistAgent, Host
<1>9. ASSUME NEW a \in Attempts, GetAuthorizedKey(a) PROVE UsesInv'
  BY <1>9 DEF GetAuthorizedKey
<1>10. ASSUME NEW a \in Attempts, Abandon(a) \/ NonceExpires(a) PROVE UsesInv'
  BY <1>10 DEF Abandon, NonceExpires
<1>11. ASSUME NEW t \in Tokens, AdminDeleteToken(t) \/ ExpireToken(t) PROVE UsesInv'
  BY <1>11 DEF AdminDeleteToken, ExpireToken, Remove
<1>12. ASSUME NEW i \in Installs, AdminAuthorize(i) \/ ForgetJwt(i) PROVE UsesInv'
  BY <1>12 DEF AdminAuthorize, ForgetJwt
<1>13. ASSUME NEW h \in Hosts, DeleteAgent(h) PROVE UsesInv'
  BY <1>13 DEF DeleteAgent
<1>14. CASE AdminPurgeTokens \/ RotateKeys
  BY <1>14 DEF AdminPurgeTokens, Remove, RotateKeys
<1>15. CASE Crash
  BY <1>15 DEF Crash
<1> QED
  BY <1>0, <1>1, <1>2, <1>3, <1>4, <1>5, <1>6, <1>7, <1>8, <1>9, <1>10, <1>11, <1>12, <1>13,
     <1>14, <1>15 DEF Next, Enroll, RegisterAgent

\* use_count is never short of the enrolments a token paid for, whatever write
\* fails, whoever leaves and whatever is deleted meanwhile.
THEOREM UsesAreCounted == Spec => []UsesCoverEnrolments
<1>1. Init => UsesInv
  BY DEF Init, UsesInv, Counts, Paid
<1>2. UsesInv => UsesCoverEnrolments
  <2> SUFFICES ASSUME UsesInv, NEW a \in Attempts \ Legacy,
                      \/ pc[a] \in Paid
                      \/ \E h \in Hosts : agents[h] # None /\ agents[h].jti = a
                      \/ jwt[InstallOf[a]] = a
               PROVE  a \in spent[Token(a)]
    BY DEF UsesCoverEnrolments
  <2>1. CASE pc[a] \in Paid
    BY <2>1 DEF UsesInv, Counts
  <2>2. CASE \E h \in Hosts : agents[h] # None /\ agents[h].jti = a
    BY <2>2 DEF UsesInv, Counts
  <2>3. CASE jwt[InstallOf[a]] = a
    <3>1. InstallOf[a] \in Installs /\ a # None
      BY EnrollmentAssumption
    <3> QED BY <2>3, <3>1 DEF UsesInv, Counts
  <2> QED BY <2>1, <2>2, <2>3
<1> QED BY <1>1, <1>2, UsesStep, TypeInvariant, PTL DEF Spec

-----------------------------------------------------------------------------
(***************************************************************************)
(* Rows.  A handler that has a client to answer has just written the row;  *)
(* the installation has no other attempt waiting, so whatever its other    *)
(* handlers write later is abandoned.                                      *)
(***************************************************************************)
Waiting == {a \in Attempts : client[a] = "waiting"}
Served  == {a \in Waiting : pc[a] = "issued"}

Single ==
  /\ \A a, b \in Waiting : InstallOf[a] = InstallOf[b] => a = b
  /\ \A i \in Installs : jwt[i] # None =>
       InstallOf[jwt[i]] = i /\ \A a \in Waiting : InstallOf[a] # i

Written == \A a \in Served : Host(a) \notin deleted => OnFile(a)

HolderInv == Single /\ Written /\ HolderIsOnFile

rows == <<agents, deleted, jwt>>

\* The steps that neither start an attempt nor touch a row or a JWT: they leave
\* fewer clients waiting, and fewer of them served.
Quiet == UNCHANGED rows /\ Waiting' \subseteq Waiting /\ Served' \subseteq Served

LEMMA QuietSteps ==
  ASSUME TypeInv, [Next]_vars
  PROVE  \/ Quiet
         \/ \E a \in Attempts : Start(a) \/ StoreJwt(a) \/ PersistAgent(a)
         \/ \E i \in Installs : ForgetJwt(i)
         \/ \E h \in Hosts : DeleteAgent(h)
<1> USE DEF Quiet, rows, Waiting, Served, TypeInv, TypeOK, Goto, Refuse, tables, memory, handler,
            minion, history
<1>0. CASE UNCHANGED vars
  BY <1>0 DEF vars
<1>1. ASSUME NEW a \in Attempts, AnswerChallenge(a) PROVE Quiet
  BY <1>1 DEF AnswerChallenge
<1>2. ASSUME NEW a \in Attempts, Validate(a) PROVE Quiet
  BY <1>2 DEF Validate
<1>3. ASSUME NEW a \in Attempts, ReadKeys(a) PROVE Quiet
  BY <1>3 DEF ReadKeys
<1>4. ASSUME NEW a \in Attempts, StorePendingNonce(a) \/ ConsumePendingNonce(a) PROVE Quiet
  BY <1>4 DEF StorePendingNonce, ConsumePendingNonce
<1>5. ASSUME NEW a \in Attempts, ConsumeEnrollmentToken(a) PROVE Quiet
  BY <1>5 DEF ConsumeEnrollmentToken
<1>6. ASSUME NEW a \in Attempts, AddAuthorizedKey(a) PROVE Quiet
  BY <1>6 DEF AddAuthorizedKey
<1>7. ASSUME NEW a \in Attempts, GetAuthorizedKey(a) PROVE Quiet
  BY <1>7 DEF GetAuthorizedKey
<1>8. ASSUME NEW a \in Attempts, Abandon(a) \/ NonceExpires(a) PROVE Quiet
  BY <1>8 DEF Abandon, NonceExpires
<1>9. ASSUME NEW t \in Tokens, AdminDeleteToken(t) \/ ExpireToken(t) PROVE Quiet
  BY <1>9 DEF AdminDeleteToken, ExpireToken, Remove
<1>10. ASSUME NEW i \in Installs, AdminAuthorize(i) PROVE Quiet
  BY <1>10 DEF AdminAuthorize
<1>11. CASE AdminPurgeTokens \/ RotateKeys
  BY <1>11 DEF AdminPurgeTokens, Remove, RotateKeys
<1>12. CASE Crash
  BY <1>12 DEF Crash
<1> QED
  BY <1>0, <1>1, <1>2, <1>3, <1>4, <1>5, <1>6, <1>7, <1>8, <1>9, <1>10, <1>11, <1>12
     DEF Next, Enroll, RegisterAgent

\* Who abandoned an attempt never comes back for the answer.
LEMMA AbandonedForGood ==
  ASSUME TypeInv, [Next]_vars PROVE Abandoned \subseteq Abandoned'
<1> USE DEF Abandoned, TypeInv, TypeOK, Goto, Refuse, tables, memory, handler, minion, history
<1>0. CASE UNCHANGED vars
  BY <1>0 DEF vars
<1>1. ASSUME NEW a \in Attempts, Start(a) \/ StoreJwt(a) PROVE Abandoned \subseteq Abandoned'
  BY <1>1 DEF Start, StoreJwt
<1>2. ASSUME NEW a \in Attempts, AnswerChallenge(a) PROVE Abandoned \subseteq Abandoned'
  BY <1>2 DEF AnswerChallenge
<1>3. ASSUME NEW a \in Attempts, Validate(a) PROVE Abandoned \subseteq Abandoned'
  BY <1>3 DEF Validate
<1>4. ASSUME NEW a \in Attempts, ReadKeys(a) PROVE Abandoned \subseteq Abandoned'
  BY <1>4 DEF ReadKeys
<1>5. ASSUME NEW a \in Attempts, StorePendingNonce(a) \/ ConsumePendingNonce(a)
      PROVE  Abandoned \subseteq Abandoned'
  BY <1>5 DEF StorePendingNonce, ConsumePendingNonce
<1>6. ASSUME NEW a \in Attempts, ConsumeEnrollmentToken(a) \/ AddAuthorizedKey(a)
      PROVE  Abandoned \subseteq Abandoned'
  BY <1>6 DEF ConsumeEnrollmentToken, AddAuthorizedKey
<1>7. ASSUME NEW a \in Attempts, PersistAgent(a) \/ GetAuthorizedKey(a)
      PROVE  Abandoned \subseteq Abandoned'
  BY <1>7 DEF PersistAgent, GetAuthorizedKey
<1>8. ASSUME NEW a \in Attempts, Abandon(a) \/ NonceExpires(a)
      PROVE  Abandoned \subseteq Abandoned'
  BY <1>8 DEF Abandon, NonceExpires
<1>9. ASSUME NEW t \in Tokens, AdminDeleteToken(t) \/ ExpireToken(t)
      PROVE  Abandoned \subseteq Abandoned'
  BY <1>9 DEF AdminDeleteToken, ExpireToken, Remove
<1>10. ASSUME NEW i \in Installs, AdminAuthorize(i) \/ ForgetJwt(i)
       PROVE  Abandoned \subseteq Abandoned'
  BY <1>10 DEF AdminAuthorize, ForgetJwt
<1>11. ASSUME NEW h \in Hosts, DeleteAgent(h) PROVE Abandoned \subseteq Abandoned'
  BY <1>11 DEF DeleteAgent
<1>12. CASE AdminPurgeTokens \/ RotateKeys
  BY <1>12 DEF AdminPurgeTokens, Remove, RotateKeys
<1>13. CASE Crash
  BY <1>13 DEF Crash, Running, Phase1, Phase2, Paid
<1> QED
  BY <1>0, <1>1, <1>2, <1>3, <1>4, <1>5, <1>6, <1>7, <1>8, <1>9, <1>10, <1>11, <1>12, <1>13
     DEF Next, Enroll, RegisterAgent

\* A row that serves attempt a goes on serving it while nobody writes rows.
LEMMA OnFileStays ==
  ASSUME TypeInv, [Next]_vars, UNCHANGED agents, NEW a \in Attempts, OnFile(a)
  PROVE  OnFile(a)'
BY AbandonedForGood DEF OnFile, Host

\* What HolderIsOnFile says of the next state, an attempt at a time.
LEMMA HolderNext ==
  ASSUME TypeInv',
         \A i \in Installs, a \in Attempts :
           jwt'[i] = a /\ HostOf[i] \notin deleted' => OnFile(a)'
  PROVE  HolderIsOnFile'
BY DEF HolderIsOnFile, OnFile, Host, Abandoned, TypeInv, TypeOK

LEMMA HolderStep == ASSUME TypeInv, TypeInv', HolderInv, [Next]_vars PROVE HolderInv'
<1>1. CASE Quiet
  <2> USE <1>1 DEF Quiet, rows
  <2>1. Single'
    BY DEF HolderInv, Single
  <2>2. Written'
    BY OnFileStays DEF HolderInv, Written, Served, Waiting, Host
  <2>3. HolderIsOnFile'
    BY OnFileStays DEF HolderInv, HolderIsOnFile, TypeInv, TypeOK
  <2> QED BY <2>1, <2>2, <2>3 DEF HolderInv
<1>2. ASSUME NEW a \in Attempts, Start(a) PROVE HolderInv'
  <2>0. /\ UNCHANGED rows
        /\ Waiting' = Waiting \cup {a}
        /\ Served' \subseteq Served
    BY <1>2 DEF Start, rows, Waiting, Served, TypeInv, TypeOK, tables, history
  <2>1. Single'
    BY <1>2, <2>0 DEF HolderInv, Single, Start, Waiting, rows
  <2>2. Written'
    BY <2>0, OnFileStays DEF HolderInv, Written, Served, Waiting, Host, rows
  <2>3. HolderIsOnFile'
    BY <2>0, OnFileStays DEF HolderInv, HolderIsOnFile, TypeInv, TypeOK, rows
  <2> QED BY <2>1, <2>2, <2>3 DEF HolderInv
<1>3. ASSUME NEW a \in Attempts, StoreJwt(a) PROVE HolderInv'
  <2>0. /\ UNCHANGED <<agents, deleted>>
        /\ Waiting' = Waiting \ {a}
        /\ Served' \subseteq Served
        /\ a \in Served
        /\ jwt' = [jwt EXCEPT ![InstallOf[a]] = a]
    BY <1>3 DEF StoreJwt, Waiting, Served, TypeInv, TypeOK, tables, history
  <2>1. Single'
    BY <2>0, EnrollmentAssumption DEF HolderInv, Single, Served, Waiting, TypeInv, TypeOK
  <2>2. Written'
    BY <2>0, OnFileStays DEF HolderInv, Written, Served, Waiting, Host
  <2>3. HolderIsOnFile'
    <3>1. ASSUME NEW i \in Installs, NEW b \in Attempts, jwt'[i] = b, HostOf[i] \notin deleted'
          PROVE  OnFile(b)'
      <4>1. CASE i = InstallOf[a]
        <5>1. b = a /\ OnFile(a)
          BY <2>0, <3>1, <4>1 DEF HolderInv, Written, Host, TypeInv, TypeOK
        <5> QED BY <5>1, <2>0, OnFileStays
      <4>2. CASE i # InstallOf[a]
        <5>1. jwt[i] = b /\ OnFile(b)
          BY <2>0, <3>1, <4>2, EnrollmentAssumption DEF HolderInv, HolderIsOnFile, TypeInv, TypeOK
        <5> QED BY <5>1, <2>0, OnFileStays
      <4> QED BY <4>1, <4>2
    <3> QED BY <3>1, HolderNext
  <2> QED BY <2>1, <2>2, <2>3 DEF HolderInv
<1>4. ASSUME NEW a \in Attempts, PersistAgent(a) PROVE HolderInv'
  <2>0. CASE Refuse(a, "db") /\ UNCHANGED <<agents, deleted>>
    <3>1. Quiet
      BY <1>4, <2>0, EnrollmentAssumption
         DEF PersistAgent, Quiet, rows, Waiting, Served, Refuse, Goto, TypeInv, TypeOK, Host
    <3> QED BY <3>1, <1>1
  <2>1. CASE /\ agents' = [agents EXCEPT ![Host(a)] = [key |-> InstallOf[a], jti |-> a]]
             /\ deleted' = deleted \ {Host(a)}
             /\ Goto(a, "issued")
    <3>0. /\ pc[a] = "register" /\ UNCHANGED <<client, jwt>>
          /\ Waiting' = Waiting
          /\ Served' \subseteq Served \cup {a}
          /\ pc'[a] = "issued"
          /\ Host(a) \in Hosts
      BY <1>4, <2>1, EnrollmentAssumption
         DEF PersistAgent, Waiting, Served, Goto, TypeInv, TypeOK, Host
    <3>1. client[a] # "idle"
      BY <3>0 DEF TypeInv, ControlOK
    <3>2. client[a] \in {"waiting", "over"}
      BY <3>1 DEF TypeInv, TypeOK
    <3>3. Abandoned \subseteq Abandoned'
      BY AbandonedForGood
    <3>r. agents'[Host(a)] = [key |-> InstallOf[a], jti |-> a]
      BY <2>1, <3>0 DEF TypeInv, TypeOK
    <3>n. agents'[Host(a)] # None /\ agents'[Host(a)].jti = a
      BY <3>r, EnrollmentAssumption
    <3>o. \A h \in Hosts \ {Host(a)} : agents'[h] = agents[h] /\ (h \in deleted' <=> h \in deleted)
      BY <2>1 DEF TypeInv, TypeOK
    \* In the host of a, the row serves a, and every other attempt it cannot hurt.
    <3>4. OnFile(a)'
      BY <3>n DEF OnFile, Host
    <3>5. ASSUME NEW b \in Attempts, Host(b) = Host(a), InstallOf[b] = InstallOf[a] => a \notin Waiting
          PROVE  OnFile(b)'
      <4>1. InstallOf[b] = InstallOf[a] => a \in Abandoned'
        BY <3>0, <3>2, <3>5 DEF Abandoned, Waiting
      <4> QED BY <3>5, <3>n, <4>1 DEF OnFile, Host
    \* Elsewhere nothing changes.
    <3>6. ASSUME NEW b \in Attempts, Host(b) # Host(a), OnFile(b) PROVE OnFile(b)'
      <4>1. Host(b) \in Hosts
        BY EnrollmentAssumption DEF Host
      <4>2. agents'[Host(b)] = agents[Host(b)]
        BY <4>1, <3>6, <3>o
      <4> QED BY <3>6, <4>2, <3>3 DEF OnFile, Host
    <3>7. Single'
      BY <3>0 DEF HolderInv, Single
    <3>8. Written'
      <4> SUFFICES ASSUME NEW b \in Served', Host(b) \notin deleted' PROVE OnFile(b)'
        BY DEF Written, Host
      <4>0. b \in Attempts /\ b \in Waiting /\ (b \in Served \/ b = a)
        BY <3>0 DEF Served, Waiting
      <4>1. CASE b = a
        BY <4>1, <3>4
      <4>2. CASE b # a /\ Host(b) = Host(a)
        <5>1. InstallOf[b] = InstallOf[a] => a \notin Waiting
          BY <4>0, <4>2 DEF HolderInv, Single
        <5> QED BY <5>1, <4>0, <4>2, <3>5
      <4>3. CASE Host(b) # Host(a)
        <5>1. Host(b) \notin deleted
          BY <2>1, <4>3
        <5>2. OnFile(b)
          BY <5>1, <4>0, <4>3 DEF HolderInv, Written
        <5> QED BY <5>2, <4>0, <4>3, <3>6
      <4> QED BY <4>1, <4>2, <4>3
    <3>9. HolderIsOnFile'
      <4>1. ASSUME NEW i \in Installs, NEW b \in Attempts, jwt'[i] = b, HostOf[i] \notin deleted'
            PROVE  OnFile(b)'
        <5>0. jwt[i] = b /\ InstallOf[b] = i /\ \A c \in Waiting : InstallOf[c] # i
          BY <3>0, <4>1, EnrollmentAssumption DEF HolderInv, Single
        <5>1. CASE Host(b) = Host(a)
          BY <5>0, <5>1, <3>5
        <5>2. CASE Host(b) # Host(a)
          <6>1. HostOf[i] \notin deleted
            BY <2>1, <4>1, <5>0, <5>2 DEF Host
          <6>2. OnFile(b)
            BY <5>0, <6>1, EnrollmentAssumption DEF HolderInv, HolderIsOnFile
          <6> QED BY <6>2, <5>2, <3>6
        <5> QED BY <5>1, <5>2
      <4> QED BY <4>1, HolderNext
    <3> QED BY <3>7, <3>8, <3>9 DEF HolderInv
  <2> QED BY <2>0, <2>1, <1>4 DEF PersistAgent
<1>5. ASSUME NEW i \in Installs, ForgetJwt(i) PROVE HolderInv'
  <2>0. /\ UNCHANGED <<agents, deleted, client, pc>>
        /\ jwt' = [jwt EXCEPT ![i] = None]
    BY <1>5 DEF ForgetJwt, tables, handler
  <2>1. Single'
    BY <2>0 DEF HolderInv, Single, Waiting, TypeInv, TypeOK
  <2>2. Written'
    BY <2>0, OnFileStays DEF HolderInv, Written, Served, Waiting, Host
  <2>3. HolderIsOnFile'
    <3>1. ASSUME NEW j \in Installs, NEW b \in Attempts, jwt'[j] = b, HostOf[j] \notin deleted'
          PROVE  OnFile(b)'
      <4>1. jwt[j] = b /\ OnFile(b)
        BY <2>0, <3>1, EnrollmentAssumption DEF HolderInv, HolderIsOnFile, TypeInv, TypeOK
      <4> QED BY <4>1, <2>0, OnFileStays
    <3> QED BY <3>1, HolderNext
  <2> QED BY <2>1, <2>2, <2>3 DEF HolderInv
<1>6. ASSUME NEW h \in Hosts, DeleteAgent(h) PROVE HolderInv'
  <2>0. /\ UNCHANGED <<client, pc, jwt>>
        /\ deleted' = deleted \cup {h}
        /\ agents' = [agents EXCEPT ![h] = None]
    BY <1>6 DEF DeleteAgent, handler, minion
  <2>1. Single'
    BY <2>0 DEF HolderInv, Single, Waiting
  <2>2. ASSUME NEW b \in Attempts, Host(b) \notin deleted', OnFile(b) PROVE OnFile(b)'
    <3>1. Host(b) \in Hosts
      BY EnrollmentAssumption DEF Host
    <3>2. agents'[Host(b)] = agents[Host(b)]
      BY <2>0, <2>2, <3>1 DEF TypeInv, TypeOK
    <3> QED BY <2>0, <2>2, <3>2 DEF OnFile, Host, Abandoned
  <2>3. Written'
    BY <2>0, <2>2 DEF HolderInv, Written, Served, Waiting, Host
  <2>4. HolderIsOnFile'
    <3>1. ASSUME NEW j \in Installs, NEW b \in Attempts, jwt'[j] = b, HostOf[j] \notin deleted'
          PROVE  OnFile(b)'
      <4>1. jwt[j] = b /\ OnFile(b)
        BY <2>0, <3>1, EnrollmentAssumption DEF HolderInv, HolderIsOnFile
      <4>2. Host(b) = HostOf[j]
        BY <4>1, EnrollmentAssumption DEF HolderInv, Single, Host
      <4> QED BY <4>1, <4>2, <3>1, <2>2
    <3> QED BY <3>1, HolderNext
  <2> QED BY <2>1, <2>3, <2>4 DEF HolderInv
<1> QED BY <1>1, <1>2, <1>3, <1>4, <1>5, <1>6, QuietSteps

\* An agent that holds a JWT has a row, unless an administrator deleted it, with the
\* JTI of its JWT, or of an attempt that no client of its own was waiting for.
THEOREM HoldersAreOnFile == Spec => []HolderIsOnFile
<1>1. Init => HolderInv
  BY DEF Init, HolderInv, Single, Written, HolderIsOnFile, Waiting, Served
<1>2. HolderInv => HolderIsOnFile
  BY DEF HolderInv
<1> QED BY <1>1, <1>2, HolderStep, TypeInvariant, PTL DEF Spec

-----------------------------------------------------------------------------
(* Refusals                                                                *)

\* Before an attempt spends its token it is in no use_count; its nonce is
\* pending, or was removed by something else, until it consumes it; the RSA
\* key of the server only changes for a later one.
Unspent == Phase1 \cup {"idle", "challenged", "validate2", "keys2", "consume", "spend"}
Challenged == {"challenged", "validate2", "keys2", "consume"}

CauseInv ==
  /\ \A a \in Attempts :
       /\ pc[a] \in Unspent => \A t \in Tokens : a \notin spent[t]
       /\ pc[a] \in Challenged => pending[Host(a)] = a \/ a \in lost
       /\ offered[a] <= rsa
       /\ held[a] <= rsa
       /\ pc[a] = "consume" => offered[a] <= held[a]
       /\ refusal[a] = "decryption" => offered[a] < rsa
  /\ RefusalHasCause

LEMMA CauseStep == ASSUME TypeInv, CauseInv, [Next]_vars PROVE CauseInv'
<1> USE DEF tables, memory, handler, minion, history, Unspent, Challenged, Phase1
<1>t. /\ pc \in [Attempts -> Points] /\ refusal \in [Attempts -> Reasons]
      /\ offered \in [Attempts -> Nat] /\ held \in [Attempts -> Nat] /\ rsa \in Nat
      /\ pending \in [Hosts -> Attempts \cup {None}]
      /\ spent \in [Tokens -> SUBSET Attempts] /\ lost \subseteq Attempts
      /\ token \in [Tokens -> {"valid", "expired", "gone"}]
      /\ \A a \in Attempts : pc[a] = "refused" <=> refusal[a] # "none"
      /\ \A a \in Attempts : Host(a) \in Hosts /\ Token(a) \in Tokens /\ a # None
  <2>1. /\ pc \in [Attempts -> Points] /\ refusal \in [Attempts -> Reasons]
        /\ pending \in [Hosts -> Attempts \cup {None}]
        /\ spent \in [Tokens -> SUBSET Attempts] /\ lost \subseteq Attempts
        /\ token \in [Tokens -> {"valid", "expired", "gone"}]
        /\ \A a \in Attempts : pc[a] = "refused" <=> refusal[a] # "none"
    BY DEF TypeInv, TypeOK, ControlOK
  <2>2. offered \in [Attempts -> Nat] /\ held \in [Attempts -> Nat] /\ rsa \in Nat
    BY DEF TypeInv, TypeOK
  <2>3. \A a \in Attempts : Host(a) \in Hosts /\ Token(a) \in Tokens /\ a # None
    <3>1. \A a \in Attempts : Host(a) \in Hosts /\ Token(a) \in Tokens
      <4>1. \A a \in Attempts : InstallOf[a] \in Installs
        BY EnrollmentAssumption
      <4>2. \A i \in Installs : HostOf[i] \in Hosts /\ TokenOf[i] \in Tokens
        BY EnrollmentAssumption
      <4> QED BY <4>1, <4>2, Zenon DEF Host, Token
    <3>2. None \notin Attempts
      BY EnrollmentAssumption, Zenon
    <3> QED BY <3>1, <3>2
  <2> QED BY <2>1, <2>2, <2>3
\* What the steps of all attempts have in common.
<1>g. ASSUME \A t \in Tokens : spent[t] \subseteq spent'[t] /\ (token'[t] = "valid" => token[t] = "valid"),
             lost \subseteq lost', rsa <= rsa', rsa' \in Nat, UNCHANGED <<offered, held>>,
             \A a \in Attempts :
               /\ pc'[a] \in Unspent => pc[a] \in Unspent /\ \A t \in Tokens : a \in spent'[t] => a \in spent[t]
               /\ pc'[a] \in Challenged => pending'[Host(a)] = a \/ a \in lost'
               /\ pc'[a] = "consume" => pc[a] = "consume" \/ held[a] = rsa
               /\ \/ refusal'[a] = refusal[a]
                  \/ refusal'[a] \in {"none", "db", "unauthorized", "crash"}
                  \/ refusal'[a] \in {"no_challenge", "mismatch"} /\ a \in lost'
                  \/ refusal'[a] = "decryption" /\ offered[a] < rsa
                  \/ refusal'[a] = "token" /\ (~Valid(a) \/ (Token(a) \notin Reusable /\ spent[Token(a)] \ {a} # {}))
      PROVE  CauseInv'
  <2>1. \A a \in Attempts : /\ offered[a] <= rsa' /\ held[a] <= rsa'
                            /\ offered[a] < rsa => offered[a] < rsa'
    BY <1>g, <1>t DEF CauseInv
  <2>2. \A a \in Attempts : pc'[a] = "consume" => offered[a] <= held[a]
    BY <1>g DEF CauseInv
  <2>3. \A a \in Attempts :
          ~Valid(a) \/ (Token(a) \notin Reusable /\ spent[Token(a)] \ {a} # {})
            => ~Valid(a)' \/ (Token(a) \notin Reusable /\ spent'[Token(a)] \ {a} # {})
    BY <1>g, <1>t DEF Valid
  <2>4. \A a \in Attempts :
          /\ pc'[a] \in Unspent => \A t \in Tokens : a \notin spent'[t]
          /\ refusal'[a] = "decryption" => offered[a] < rsa'
    BY <1>g, <2>1 DEF CauseInv
  <2>5. RefusalHasCause'
    <3>1. \A a \in Attempts : refusal'[a] \in {"no_challenge", "mismatch"} => a \in lost'
      BY <1>g DEF CauseInv, RefusalHasCause
    <3>2. \A a \in Attempts : refusal'[a] = "decryption" => rsa' # offered'[a]
      BY <1>g, <1>t, <2>4
    <3>3. \A a \in Attempts : refusal'[a] = "token" =>
            ~Valid(a)' \/ (Token(a) \notin Reusable /\ spent'[Token(a)] \ {a} # {})
      BY <1>g, <2>3 DEF CauseInv, RefusalHasCause
    <3> QED BY <3>1, <3>2, <3>3 DEF RefusalHasCause, Token
  <2>6. \A a \in Attempts : pc'[a] \in Challenged => pending'[Host(a)] = a \/ a \in lost'
    BY <1>g
  <2> QED BY <1>g, <2>1, <2>2, <2>4, <2>5, <2>6 DEF CauseInv, Host
<1>n. \A a \in Attempts : pc[a] \in Challenged => pending[Host(a)] = a \/ a \in lost
  BY DEF CauseInv
<1>0. CASE UNCHANGED vars
  BY <1>0, <1>g, <1>t, <1>n DEF vars
<1>1. ASSUME NEW a \in Attempts, Start(a) PROVE CauseInv'
  <2>1. pc[a] = "idle"
    BY <1>1 DEF Start, TypeInv, ControlOK
  <2> QED BY <1>1, <2>1, <1>g, <1>t, <1>n DEF Start
<1>2. ASSUME NEW a \in Attempts, AnswerChallenge(a) PROVE CauseInv'
  BY <1>2, <1>g, <1>t, <1>n DEF AnswerChallenge, Goto
<1>3. ASSUME NEW a \in Attempts, StoreJwt(a) PROVE CauseInv'
  BY <1>3, <1>g, <1>t, <1>n DEF StoreJwt
<1>4. ASSUME NEW a \in Attempts, Validate(a) PROVE CauseInv'
  <2>1. pc[a] \in {"validate1", "validate2"} /\ UNCHANGED <<tables, memory, offered, held, history>>
    BY <1>4 DEF Validate
  <2>2. \A b \in Attempts \ {a} : pc'[b] = pc[b] /\ refusal'[b] = refusal[b]
    BY <1>4, <1>t DEF Validate, Goto, Refuse
  <2>3. \/ pc[a] = "validate1" /\ pc'[a] = "keys1" /\ refusal'[a] = refusal[a]
        \/ pc[a] = "validate2" /\ pc'[a] = "keys2" /\ refusal'[a] = refusal[a]
        \/ ~Usable(a) /\ pc'[a] = "refused" /\ refusal'[a] = "token"
        \/ pc'[a] = "refused" /\ refusal'[a] = "db"
    BY <1>4, <1>t DEF Validate, Goto, Refuse
  <2>4. ~Usable(a) => ~Valid(a) \/ (Token(a) \notin Reusable /\ spent[Token(a)] \ {a} # {})
    BY <2>1, <1>t DEF Usable, CauseInv
  <2> QED BY <2>1, <2>2, <2>3, <2>4, <1>g, <1>t, <1>n
<1>5. ASSUME NEW a \in Attempts, ReadKeys(a) PROVE CauseInv'
  <2>1. /\ pc[a] \in {"keys1", "keys2"} /\ UNCHANGED <<tables, memory, refusal, history>>
        /\ \A b \in Attempts \ {a} : pc'[b] = pc[b] /\ offered'[b] = offered[b] /\ held'[b] = held[b]
        /\ refusal[a] = "none"
    BY <1>5, <1>t DEF ReadKeys, Goto
  <2>2. \/ pc[a] = "keys1" /\ pc'[a] = "nonce" /\ offered'[a] = rsa /\ held'[a] = held[a]
        \/ pc[a] = "keys2" /\ pc'[a] = "consume" /\ offered'[a] = offered[a] /\ held'[a] = rsa
    BY <1>5, <1>t DEF ReadKeys, Goto
  <2>3. RefusalHasCause'
    BY <2>1, <2>2 DEF CauseInv, RefusalHasCause, Valid, Token
  <2>4. \A b \in Attempts : /\ offered'[b] <= rsa /\ held'[b] <= rsa
                            /\ pc'[b] = "consume" => offered'[b] <= held'[b]
    BY <2>1, <2>2, <1>t DEF CauseInv
  <2>5. \A b \in Attempts :
          /\ pc'[b] \in Unspent => pc[b] \in Unspent
          /\ pc'[b] \in Challenged => pc[b] \in Challenged
          /\ refusal[b] = "decryption" => offered'[b] < rsa
    BY <2>1, <2>2 DEF CauseInv
  <2> QED BY <2>1, <2>3, <2>4, <2>5 DEF CauseInv, Host
<1>6. ASSUME NEW a \in Attempts, StorePendingNonce(a) PROVE CauseInv'
  <2>1. \A b \in Attempts : pc'[b] \in Challenged => pending'[Host(b)] = b \/ b \in lost'
    <3>1. /\ \A b \in Attempts \ {a} : pc'[b] = pc[b]
          /\ pending' = [pending EXCEPT ![Host(a)] = a]
          /\ lost' = lost \cup ({pending[Host(a)]} \ {None, a})
      BY <1>6, <1>t DEF StorePendingNonce, Goto, Displaced
    <3>2. pending'[Host(a)] = a
      BY <3>1, <1>t
    <3> TAKE b \in Attempts
    <3> HAVE pc'[b] \in Challenged
    <3>3. CASE b = a
      BY <3>2, <3>3
    <3>4. CASE b # a /\ pending[Host(b)] # b
      BY <3>1, <3>4, <1>n
    <3>5. CASE b # a /\ pending[Host(b)] = b
      BY <3>1, <3>5, <1>t
    <3> QED BY <3>3, <3>4, <3>5
  <2> QED BY <1>6, <2>1, <1>g, <1>t DEF StorePendingNonce, Goto
<1>7. ASSUME NEW a \in Attempts, ConsumePendingNonce(a) PROVE CauseInv'
  <2> DEFINE verdict == Verdict(a, pending[Host(a)])
  <2>1. /\ pc[a] = "consume" /\ UNCHANGED <<tables, rsa, offered, held>>
        /\ lost \subseteq lost'
        /\ pending' = [pending EXCEPT ![Host(a)] = None]
        /\ lost' = lost \cup Displaced(Host(a), a)
    BY <1>7 DEF ConsumePendingNonce
  <2>2. IF verdict = "none" THEN Goto(a, "spend") ELSE Refuse(a, verdict)
    BY <1>7 DEF ConsumePendingNonce
  <2>3. \A b \in Attempts \ {a} : pc'[b] = pc[b] /\ refusal'[b] = refusal[b]
    BY <2>2, <1>t DEF Goto, Refuse
  <2>4. \A b \in Attempts : pc'[b] \in Challenged => pending'[Host(b)] = b \/ b \in lost'
    <3>1. pc'[a] \notin Challenged
      BY <2>2, <1>t DEF Goto, Refuse
    <3> QED BY <2>1, <2>3, <3>1, <1>t, <1>n DEF Displaced
  <2>5. \/ refusal'[a] = refusal[a] /\ pc'[a] = "spend"
        \/ /\ pc'[a] = "refused"
           /\ \/ refusal'[a] \in {"no_challenge", "mismatch"} /\ a \in lost'
              \/ refusal'[a] = "decryption" /\ offered[a] < rsa
    <3>1. CASE verdict = "none"
      BY <2>2, <3>1, <1>t DEF Goto
    <3>2. CASE verdict # "none"
      <4>1. pc'[a] = "refused" /\ refusal'[a] = verdict
        BY <2>2, <3>2, <1>t DEF Refuse
      <4>2. pending[Host(a)] # a => a \in lost'
        BY <2>1, <1>n
      <4>3. \/ verdict \in {"no_challenge", "mismatch"} /\ pending[Host(a)] # a
            \/ verdict = "decryption" /\ held[a] # offered[a]
        <5>1. verdict \in {"none", "no_challenge", "mismatch", "decryption"}
          BY DEF Verdict
        <5>2. verdict \in {"no_challenge", "mismatch"} => pending[Host(a)] # a
          BY <1>t DEF Verdict
        <5>3. verdict = "decryption" => held[a] # offered[a]
          BY DEF Verdict
        <5> QED BY <3>2, <5>1, <5>2, <5>3
      <4>4. held[a] # offered[a] => offered[a] < rsa
        BY <2>1, <1>t DEF CauseInv
      <4> QED BY <4>1, <4>2, <4>3, <4>4
    <3> QED BY <3>1, <3>2
  <2> HIDE DEF verdict
  <2> QED BY <2>1, <2>3, <2>4, <2>5, <1>g, <1>t
<1>8. ASSUME NEW a \in Attempts, ConsumeEnrollmentToken(a) PROVE CauseInv'
  <2>1. /\ pc[a] = "spend" /\ UNCHANGED <<token, memory, offered, held, lost>>
        /\ \A b \in Attempts \ {a} : pc'[b] = pc[b] /\ refusal'[b] = refusal[b]
        /\ pc'[a] \in {"authorize", "refused"} /\ refusal'[a] \in {refusal[a], "db"}
    BY <1>8, <1>t DEF ConsumeEnrollmentToken, Goto, Refuse
  <2>2. \A t \in Tokens : spent[t] \subseteq spent'[t] /\ spent'[t] \subseteq spent[t] \cup {a}
    BY <1>8, <1>t DEF ConsumeEnrollmentToken
  <2> QED BY <2>1, <2>2, <1>g, <1>t, <1>n
<1>9. ASSUME NEW a \in Attempts, AddAuthorizedKey(a) PROVE CauseInv'
  BY <1>9, <1>g, <1>t, <1>n DEF AddAuthorizedKey, Goto
<1>10. ASSUME NEW a \in Attempts, PersistAgent(a) PROVE CauseInv'
  BY <1>10, <1>g, <1>t, <1>n DEF PersistAgent, Goto, Refuse
<1>11. ASSUME NEW a \in Attempts, GetAuthorizedKey(a) PROVE CauseInv'
  BY <1>11, <1>g, <1>t, <1>n DEF GetAuthorizedKey, Goto, Refuse
<1>12. ASSUME NEW a \in Attempts, Abandon(a) PROVE CauseInv'
  BY <1>12, <1>g, <1>t, <1>n DEF Abandon
<1>13. ASSUME NEW a \in Attempts, NonceExpires(a) PROVE CauseInv'
  <2>1. \A b \in Attempts : pc'[b] \in Challenged => pending'[Host(b)] = b \/ b \in lost'
    BY <1>13, <1>t, <1>n DEF NonceExpires
  <2> QED BY <1>13, <2>1, <1>g, <1>t DEF NonceExpires
<1>14. ASSUME NEW gone, Remove(gone), UNCHANGED <<faults, lost>> PROVE CauseInv'
  BY <1>14, <1>g, <1>t, <1>n DEF Remove
<1>15. ASSUME NEW t \in Tokens, ExpireToken(t) PROVE CauseInv'
  BY <1>15, <1>g, <1>t, <1>n DEF ExpireToken
<1>16. ASSUME NEW i \in Installs, AdminAuthorize(i) \/ ForgetJwt(i) PROVE CauseInv'
  BY <1>16, <1>g, <1>t, <1>n DEF AdminAuthorize, ForgetJwt
<1>17. ASSUME NEW h \in Hosts, DeleteAgent(h) PROVE CauseInv'
  BY <1>17, <1>g, <1>t, <1>n DEF DeleteAgent
<1>18. CASE RotateKeys
  BY <1>18, <1>g, <1>t, <1>n DEF RotateKeys
<1>19. CASE Crash
  <2>1. \A b \in Attempts :
          /\ \/ pc'[b] = pc[b] /\ refusal'[b] = refusal[b]
             \/ pc'[b] = "refused" /\ refusal'[b] = "crash"
          /\ pc'[b] \in Challenged => pc[b] \in Challenged
    BY <1>19 DEF Crash
  <2>2. \A b \in Attempts : pc'[b] \in Challenged => b \in lost'
    BY <1>19, <2>1, <1>t, <1>n DEF Crash
  <2> QED BY <1>19, <2>1, <2>2, <1>g, <1>t DEF Crash
<1> QED
  BY <1>0, <1>1, <1>2, <1>3, <1>4, <1>5, <1>6, <1>7, <1>8, <1>9, <1>10, <1>11, <1>12, <1>13, <1>14,
     <1>15, <1>16, <1>17, <1>18, <1>19
     DEF Next, Enroll, RegisterAgent, AdminDeleteToken, AdminPurgeTokens, Remove

\* A refusal in phase 2 has its cause outside the attempt: its nonce was removed
\* by another, by a crash or by time, the RSA key was rotated, or the token was
\* dropped or used by another.
THEOREM RefusalsHaveCause == Spec => []RefusalHasCause
<1>1. Init => CauseInv
  BY DEF Init, CauseInv, RefusalHasCause, Challenged
<1>2. TypeInv /\ CauseInv /\ [Next]_vars => CauseInv'
  BY CauseStep
<1>3. CauseInv => RefusalHasCause
  BY DEF CauseInv
<1> QED BY <1>1, <1>2, <1>3, TypeInvariant, PTL DEF Spec

----------------------------------------------------------------------
(* When nothing gets in the way.                                           *)

\* An attempt in progress has its client waiting, its nonce pending, and both of
\* the RSA keys it saw are the one in force.
CalmInv(a) ==
  /\ client[a] = "over" <=> pc[a] = "ended"
  /\ pc[a] \notin {"refused", "lookup"}
  /\ pc[a] \in Challenged \cup {"nonce"} => offered[a] = rsa
  /\ pc[a] \in Challenged => pending[Host(a)] = a
  /\ pc[a] = "consume" => held[a] = rsa

LEMMA CalmFrame ==
  ASSUME TypeInv, NEW a \in Attempts, CalmInv(a),
         pc'[a] = pc[a], client'[a] = client[a],
         client[a] = "waiting" =>
           /\ UNCHANGED rsa
           /\ offered'[a] = offered[a] /\ held'[a] = held[a]
           /\ pending'[Host(a)] = pending[Host(a)]
  PROVE  CalmInv(a)'
<1>1. client[a] = "waiting" \/ pc[a] \in {"idle", "ended"}
  BY DEF TypeInv, ControlOK, CalmInv
<1> QED BY <1>1 DEF CalmInv, Challenged, Host

\* The attempt's own steps.
LEMMA CalmOwnStep ==
  ASSUME TypeInv, CauseInv, NEW a \in Attempts, a \notin Legacy, CalmInv(a), Entitled(a),
         client[a] = "waiting", Enroll(a) \/ RegisterAgent(a)
  PROVE  CalmInv(a)'
<1> USE DEF Goto, Challenged
<1>t. /\ pc \in [Attempts -> Points] /\ client \in [Attempts -> {"idle", "waiting", "over"}]
      /\ offered \in [Attempts -> Nat] /\ held \in [Attempts -> Nat]
      /\ pending \in [Hosts -> Attempts \cup {None}]
      /\ Host(a) \in Hosts /\ Token(a) \in Tokens /\ a # None
  <2>1. Host(a) \in Hosts /\ Token(a) \in Tokens /\ a # None
    BY EnrollmentAssumption DEF Host, Token
  <2> QED BY <2>1 DEF TypeInv, TypeOK, ControlOK
<1>c. ~Cancelled(a)
  BY DEF Cancelled
<1>u. pc[a] \in {"validate1", "validate2"} => Usable(a)
  <2>1. pc[a] \in {"validate1", "validate2"} => a \notin spent[Token(a)]
    BY <1>t DEF CauseInv, Unspent, Phase1
  <2> QED BY <2>1 DEF Entitled, Usable
<1>1. CASE AnswerChallenge(a)
  BY <1>1, <1>t DEF AnswerChallenge, CalmInv, memory
<1>2. CASE StoreJwt(a)
  BY <1>2, <1>t DEF StoreJwt, CalmInv, memory
<1>3. CASE Validate(a)
  BY <1>3, <1>t, <1>c, <1>u DEF Validate, CalmInv, memory
<1>4. CASE ReadKeys(a)
  BY <1>4, <1>t DEF ReadKeys, CalmInv, memory, Host
<1>5. CASE StorePendingNonce(a)
  BY <1>5, <1>t DEF StorePendingNonce, CalmInv, Host
<1>6. CASE ConsumePendingNonce(a)
  <2>1. pc[a] = "consume" /\ pending[Host(a)] = a /\ held[a] = offered[a]
    BY <1>6 DEF ConsumePendingNonce, CalmInv
  <2>2. Verdict(a, pending[Host(a)]) = "none"
    BY <2>1, <1>t DEF Verdict
  <2>3. pc' = [pc EXCEPT ![a] = "spend"] /\ UNCHANGED <<refusal, client>>
    BY <1>6, <2>2 DEF ConsumePendingNonce
  <2> QED BY <2>1, <2>3, <1>t DEF CalmInv
<1>7. CASE ConsumeEnrollmentToken(a)
  <2>1. token[Token(a)] # "gone"
    BY DEF Entitled, Valid
  <2> QED BY <1>7, <2>1, <1>t, <1>c DEF ConsumeEnrollmentToken, CalmInv
<1>8. CASE AddAuthorizedKey(a)
  BY <1>8, <1>t DEF AddAuthorizedKey, CalmInv
<1>9. CASE PersistAgent(a)
  BY <1>9, <1>t, <1>c DEF PersistAgent, CalmInv
<1>10. CASE GetAuthorizedKey(a)
  BY <1>10 DEF GetAuthorizedKey, CalmInv
<1> QED
  BY <1>1, <1>2, <1>3, <1>4, <1>5, <1>6, <1>7, <1>8, <1>9, <1>10 DEF Enroll, RegisterAgent

\* Those of another attempt, of the same hostname or not.
LEMMA CalmOtherStep ==
  ASSUME TypeInv, NEW a \in Attempts, CalmInv(a), NEW b \in Attempts \ {a},
         Start(b) \/ Enroll(b) \/ RegisterAgent(b) \/ Abandon(b) \/ NonceExpires(b),
         client[a] = "waiting" => ~Disturbs(a)
  PROVE  CalmInv(a)'
<1> USE DEF Goto, Refuse, memory
<1>t. /\ pc \in [Attempts -> Points] /\ client \in [Attempts -> {"idle", "waiting", "over"}]
      /\ refusal \in [Attempts -> Reasons]
      /\ offered \in [Attempts -> Nat] /\ held \in [Attempts -> Nat]
      /\ pending \in [Hosts -> Attempts \cup {None}]
      /\ Host(a) \in Hosts /\ Host(b) \in Hosts
  <2>1. Host(a) \in Hosts /\ Host(b) \in Hosts
    BY EnrollmentAssumption DEF Host
  <2> QED BY <2>1 DEF TypeInv, TypeOK, ControlOK
<1>1. pc'[a] = pc[a] /\ client'[a] = client[a]
  BY <1>t DEF Start, Enroll, AnswerChallenge, StoreJwt, RegisterAgent, Validate, ReadKeys,
              StorePendingNonce, ConsumePendingNonce, ConsumeEnrollmentToken,
              AddAuthorizedKey, PersistAgent, GetAuthorizedKey, Abandon, NonceExpires,
              handler, minion
<1>2. UNCHANGED rsa /\ offered'[a] = offered[a] /\ held'[a] = held[a]
  BY <1>t DEF Start, Enroll, AnswerChallenge, StoreJwt, RegisterAgent, Validate, ReadKeys,
              StorePendingNonce, ConsumePendingNonce, ConsumeEnrollmentToken,
              AddAuthorizedKey, PersistAgent, GetAuthorizedKey, Abandon, NonceExpires,
              handler
<1>3. \/ UNCHANGED pending
      \/ pending' = [pending EXCEPT ![Host(b)] = b] /\ StorePendingNonce(b)
      \/ pending' = [pending EXCEPT ![Host(b)] = None] /\ ConsumePendingNonce(b)
      \/ pending' = [pending EXCEPT ![Host(b)] = None] /\ pending[Host(b)] = b
  BY DEF Start, Enroll, AnswerChallenge, StoreJwt, RegisterAgent, Validate, ReadKeys,
         StorePendingNonce, ConsumePendingNonce, ConsumeEnrollmentToken,
         AddAuthorizedKey, PersistAgent, GetAuthorizedKey, Abandon, NonceExpires
<1>4. client[a] = "waiting" => pending'[Host(a)] = pending[Host(a)]
      \/ (Host(a) = Host(b) /\ pending[Host(b)] = b)
  BY <1>3, <1>t DEF Disturbs
<1>5. CASE pc[a] \in Challenged
  <2>1. pending[Host(a)] = a
    BY <1>5 DEF CalmInv
  <2> QED BY <1>1, <1>2, <1>4, <2>1, CalmFrame
<1>6. CASE pc[a] \notin Challenged
  BY <1>1, <1>2, <1>6 DEF CalmInv, Challenged
<1> QED BY <1>5, <1>6

LEMMA CalmStepKeeps ==
  ASSUME TypeInv, CauseInv, NEW a \in Attempts, a \notin Legacy, CalmInv(a), [Next]_vars,
         [CalmStep(a)]_vars
  PROVE  CalmInv(a)'
<1>0. CASE UNCHANGED vars
  BY <1>0, CalmFrame DEF vars, memory, handler, minion
<1>c. CASE CalmStep(a) /\ Next
  <2>t. /\ pc \in [Attempts -> Points] /\ client \in [Attempts -> {"idle", "waiting", "over"}]
        /\ (client[a] = "idle" <=> pc[a] = "idle")
    BY DEF TypeInv, ControlOK
  <2>d. client[a] = "waiting" => Entitled(a) /\ ~Disturbs(a)
    BY <1>c DEF CalmStep
  <2>w. pc[a] \notin {"idle", "ended"} => client[a] = "waiting"
    BY <2>t DEF CalmInv
  <2>1. CASE Start(a)
    BY <2>1, <2>t DEF Start, CalmInv, Challenged
  <2>2. CASE Enroll(a) \/ RegisterAgent(a)
    <3>1. pc[a] \notin {"idle", "ended"}
      BY <2>2 DEF Enroll, AnswerChallenge, StoreJwt, RegisterAgent, Validate, ReadKeys,
                  StorePendingNonce, ConsumePendingNonce, ConsumeEnrollmentToken,
                  AddAuthorizedKey, PersistAgent, GetAuthorizedKey
    <3> QED BY <2>2, <2>d, <2>w, <3>1, CalmOwnStep
  <2>3. CASE Abandon(a) \/ NonceExpires(a) \/ RotateKeys
    <3>1. pc[a] \in {"idle", "ended"}
      BY <2>3, <2>d, <2>w DEF Disturbs
    <3>2. UNCHANGED <<pc, client>>
      BY <2>3, <3>1, <2>t DEF Abandon, NonceExpires, RotateKeys, handler, minion, CalmInv
    <3> QED BY <3>1, <3>2 DEF CalmInv, Challenged
  <2>4. CASE Crash
    <3>1. pc[a] \in {"idle", "ended"}
      BY <2>4, <2>d, <2>w DEF Disturbs
    <3>2. pc'[a] = pc[a] /\ client'[a] = client[a]
      BY <2>4, <3>1, <2>t DEF Crash, Running, Phase1, Phase2, Paid
    <3> QED BY <3>1, <3>2 DEF CalmInv, Challenged
  <2>5. ASSUME NEW b \in Attempts \ {a},
               Start(b) \/ Enroll(b) \/ RegisterAgent(b) \/ Abandon(b) \/ NonceExpires(b)
        PROVE  CalmInv(a)'
    BY <2>5, <2>d, CalmOtherStep
  <2>6. CASE \/ \E t \in Tokens : AdminDeleteToken(t) \/ ExpireToken(t)
             \/ \E i \in Installs : AdminAuthorize(i) \/ ForgetJwt(i)
             \/ \E h \in Hosts : DeleteAgent(h)
             \/ AdminPurgeTokens
    BY <2>6, CalmFrame
       DEF AdminDeleteToken, ExpireToken, AdminAuthorize, ForgetJwt, DeleteAgent,
           AdminPurgeTokens, Remove, memory, handler, minion
  <2> QED BY <1>c, <2>1, <2>2, <2>3, <2>4, <2>5, <2>6 DEF Next
<1> QED BY <1>0, <1>c

\* What RefusalHasCause names, and the 500s of a cancelled context, are all that
\* RegisterAgent refuses for: an attempt whose token is of use, and that meets none
\* of the faults and no handler that takes the place of its nonce, is not refused,
\* whatever other attempts, administrators and earlier crashes left behind.
THEOREM CalmAttemptsPass ==
  ASSUME NEW a \in Attempts \ Legacy
  PROVE  Spec /\ Calm(a) => [](pc[a] # "refused")
<1>1. Init => CauseInv
  BY DEF Init, CauseInv, RefusalHasCause, Challenged
<1>2. TypeInv /\ CauseInv /\ [Next]_vars => CauseInv'
  BY CauseStep
<1>3. Init => CalmInv(a)
  BY DEF Init, CalmInv, Challenged
<1>4. TypeInv /\ CauseInv /\ CalmInv(a) /\ [Next]_vars /\ [CalmStep(a)]_vars => CalmInv(a)'
  BY CalmStepKeeps
<1>5. CalmInv(a) => pc[a] # "refused"
  BY DEF CalmInv
<1> QED BY <1>1, <1>2, <1>3, <1>4, <1>5, TypeInvariant, PTL DEF Spec, Calm

-----------------------------------------------------------------------------
(* One-shot tokens.                                                        *)

\* A handler that is about to pay with a one-shot token found it unused.
OnePayInv ==
  /\ \A a \in Attempts :
       pc[a] \in Paying /\ Token(a) \notin Reusable => spent[Token(a)] = {}
  /\ OneShotIsUsedOnce

LEMMA OnePayStep ==
  ASSUME TypeInv, OnePayInv, OnePayer, [Next]_vars PROVE OnePayInv'
<1> USE DEF tables, memory, handler, minion, history, Paying
<1>t. /\ pc \in [Attempts -> Points] /\ spent \in [Tokens -> SUBSET Attempts]
      /\ \A a \in Attempts : Token(a) \in Tokens
  <2>1. \A a \in Attempts : Token(a) \in Tokens
    BY EnrollmentAssumption DEF Token
  <2> QED BY <2>1 DEF TypeInv, TypeOK, ControlOK
<1>f. ASSUME UNCHANGED spent,
             \A a \in Attempts : pc'[a] \in Paying =>
               pc[a] \in Paying \/ Token(a) \in Reusable \/ spent[Token(a)] = {}
      PROVE  OnePayInv'
  BY <1>f DEF OnePayInv, OneShotIsUsedOnce, Token
<1>1. ASSUME NEW a \in Attempts, ConsumeEnrollmentToken(a), ~UNCHANGED spent PROVE OnePayInv'
  <2>1. /\ pc[a] = "spend" /\ pc' = [pc EXCEPT ![a] = "authorize"]
        /\ spent' = [spent EXCEPT ![Token(a)] = @ \cup {a}]
    BY <1>1 DEF ConsumeEnrollmentToken, Goto
  <2>2. CASE Token(a) \in Reusable
    BY <2>1, <2>2, <1>t DEF OnePayInv, OneShotIsUsedOnce, Token
  <2>3. CASE Token(a) \notin Reusable
    <3>1. spent'[Token(a)] = {a}
      BY <2>1, <2>3, <1>t DEF OnePayInv
    <3>2. \A b \in Attempts : pc'[b] \in Paying /\ Token(b) \notin Reusable
            => spent'[Token(b)] = {}
      BY <2>1, <2>3, <1>t DEF OnePayInv, OnePayer
    <3>3. OneShotIsUsedOnce'
      BY <2>1, <3>1, <1>t DEF OnePayInv, OneShotIsUsedOnce
    <3> QED BY <3>2, <3>3 DEF OnePayInv, Token
  <2> QED BY <2>2, <2>3
<1>2. ASSUME NEW a \in Attempts, ConsumeEnrollmentToken(a), UNCHANGED spent PROVE OnePayInv'
  BY <1>2, <1>t, <1>f DEF ConsumeEnrollmentToken, Goto, Refuse
<1>3. ASSUME NEW a \in Attempts, Validate(a) PROVE OnePayInv'
  BY <1>3, <1>t, <1>f DEF Validate, Usable, Goto, Refuse
<1>4. ASSUME NEW a \in Attempts,
             \/ Start(a) \/ Enroll(a) \/ ReadKeys(a) \/ StorePendingNonce(a)
             \/ ConsumePendingNonce(a) \/ AddAuthorizedKey(a) \/ PersistAgent(a)
             \/ GetAuthorizedKey(a) \/ Abandon(a) \/ NonceExpires(a)
      PROVE  OnePayInv'
  BY <1>4, <1>t, <1>f
     DEF Start, Enroll, AnswerChallenge, StoreJwt, ReadKeys, StorePendingNonce,
         ConsumePendingNonce, AddAuthorizedKey, PersistAgent, GetAuthorizedKey, Abandon,
         NonceExpires, Goto, Refuse
<1>5. CASE \/ \E t \in Tokens : AdminDeleteToken(t) \/ ExpireToken(t)
           \/ \E i \in Installs : AdminAuthorize(i) \/ ForgetJwt(i)
           \/ \E h \in Hosts : DeleteAgent(h)
           \/ AdminPurgeTokens \/ RotateKeys \/ UNCHANGED vars
  BY <1>5, <1>f
     DEF AdminDeleteToken, ExpireToken, AdminAuthorize, ForgetJwt, DeleteAgent,
         AdminPurgeTokens, Remove, RotateKeys, vars
<1>6. CASE Crash
  BY <1>6, <1>f DEF Crash
<1> QED
  BY <1>1, <1>2, <1>3, <1>4, <1>5, <1>6 DEF Next, RegisterAgent

\* ConsumeEnrollmentToken looks at no use_count (register.go:567), so a one-shot
\* token may be used twice; it takes two handlers between validateEnrollmentToken
\* and ConsumeEnrollmentToken at one moment.
THEOREM OneShotTokensAreUsedOnce == Spec /\ []OnePayer => []OneShotIsUsedOnce
<1>1. Init => OnePayInv
  BY DEF Init, OnePayInv, Paying, OneShotIsUsedOnce
<1>2. TypeInv /\ OnePayInv /\ OnePayer /\ [Next]_vars => OnePayInv'
  BY OnePayStep
<1>3. OnePayInv => OneShotIsUsedOnce
  BY DEF OnePayInv
<1> QED BY <1>1, <1>2, <1>3, TypeInvariant, PTL DEF Spec
=============================================================================
