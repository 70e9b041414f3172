----------------------------- MODULE Enrollment -----------------------------
(***************************************************************************)
(* Enrolment of agents: RegisterAgent of secagent-server                   *)
(* (internal/handlers/register.go, with the rows it reads and writes) and  *)
(* loadOrEnroll and Enroll of secagent-minion.                             *)
(*                                                                         *)
(* An attempt is one call of Enroll by an installation: a challenge        *)
(* (phase 1), its answer (phase 2), a JWT.  An installation is named by    *)
(* its RSA key, which it makes before its first attempt and keeps; a       *)
(* reinstalled machine is another installation of the same hostname.  A    *)
(* nonce, and a JTI, is named by the attempt it was made for.  use_count   *)
(* of a token is the set of the attempts that incremented it.              *)
(*                                                                         *)
(* A handler outlives its client: when the client goes away the context    *)
(* of the request is cancelled, and each later access to the database may  *)
(* fail, or still succeed.                                                 *)
(***************************************************************************)
EXTENDS Naturals

CONSTANTS
  Hosts,      \* hostnames
  Installs,   \* installations of an agent
  HostOf,     \* the hostname each installation registers
  Attempts,   \* calls of Enroll, and requests of the legacy flow
  InstallOf,  \* the installation of each attempt
  Legacy,     \* requests of older agents, without token (authorized_keys flow)
  Tokens,     \* enrollment_tokens rows
  TokenOf,    \* the token of each installation, whose pattern its hostname matches
  Reusable,   \* tokens with reusable = 1
  None,
  MaxFaults,  \* bound: lost clients, expired nonces, rotations, crashes, lost JWTs
  MaxAdmin    \* bound: actions of the administrator

ASSUME EnrollmentAssumption ==
  /\ HostOf \in [Installs -> Hosts]
  /\ InstallOf \in [Attempts -> Installs]
  /\ TokenOf \in [Installs -> Tokens]
  /\ Legacy \subseteq Attempts
  /\ Reusable \subseteq Tokens
  /\ None \notin Attempts \cup Installs \cup [key: Installs, jti: Attempts]
  /\ MaxFaults \in Nat
  /\ MaxAdmin \in Nat

VARIABLES
  token,      \* Tokens -> "valid", "expired", or "gone": the row is removed
  spent,      \* Tokens -> attempts that incremented use_count
  authorized, \* authorized_keys: Hosts -> key, or None
  agents,     \* agents: Hosts -> key and JTI, or None
  pending,    \* pendingNonces: Hosts -> nonce not older than nonceTTL, or None
  rsa,        \* the RSA key of the server, by the number of rotations
  pc,         \* Attempts -> control point of the handler
  offered,    \* Attempts -> RSA key offered with the challenge
  held,       \* Attempts -> RSA key read by the handler in phase 2
  refusal,    \* Attempts -> why the server refused, or "none"
  client,     \* Attempts -> "idle", "waiting" or "over"
  jwt,        \* Installs -> attempt that gave the JWT on disk, or None
  faults,     \* number of faults so far
  acts,       \* number of the administrator's actions so far
  lost,       \* history: nonces removed by another attempt, a crash or time
  deleted     \* history: hosts whose row was deleted since it was last written

tables  == <<token, spent, authorized, agents>>
memory  == <<pending, rsa>>
handler == <<pc, offered, held, refusal>>
minion  == <<client, jwt>>
history == <<faults, acts, lost, deleted>>
vars    == <<tables, memory, handler, minion, history>>

Host(a)  == HostOf[InstallOf[a]]
Token(a) == TokenOf[InstallOf[a]]
Valid(a) == token[Token(a)] = "valid"

\* Control points of a handler of phase 1, and of phase 2 or of the legacy flow.
Phase1 == {"validate1", "keys1", "nonce"}
Paid   == {"authorize", "register", "issued"}
Phase2 == {"validate2", "keys2", "consume", "spend"} \cup Paid
Running == Phase1 \cup Phase2 \cup {"lookup"}

Reasons == {"none", "token", "no_challenge", "decryption", "mismatch",
            "unauthorized", "db", "crash"}

TypeOK ==
  /\ token \in [Tokens -> {"valid", "expired", "gone"}]
  /\ spent \in [Tokens -> SUBSET Attempts]
  /\ authorized \in [Hosts -> Installs \cup {None}]
  /\ agents \in [Hosts -> [key: Installs, jti: Attempts] \cup {None}]
  /\ pending \in [Hosts -> Attempts \cup {None}]
  /\ rsa \in 0..MaxFaults
  /\ pc \in [Attempts -> Running \cup {"idle", "challenged", "refused", "ended"}]
  /\ offered \in [Attempts -> 0..MaxFaults]
  /\ held \in [Attempts -> 0..MaxFaults]
  /\ refusal \in [Attempts -> Reasons]
  /\ \A a \in Attempts : pc[a] = "refused" <=> refusal[a] # "none"
  /\ client \in [Attempts -> {"idle", "waiting", "over"}]
  /\ jwt \in [Installs -> Attempts \cup {None}]
  /\ faults \in 0..MaxFaults
  /\ acts \in 0..MaxAdmin
  /\ lost \in SUBSET Attempts
  /\ deleted \in SUBSET Hosts

Init ==
  /\ token = [t \in Tokens |-> "valid"]
  /\ spent = [t \in Tokens |-> {}]
  /\ authorized = [h \in Hosts |-> None]
  /\ agents = [h \in Hosts |-> None]
  /\ pending = [h \in Hosts |-> None]
  /\ rsa = 0
  /\ pc = [a \in Attempts |-> "idle"]
  /\ offered = [a \in Attempts |-> 0]
  /\ held = [a \in Attempts |-> 0]
  /\ refusal = [a \in Attempts |-> "none"]
  /\ client = [a \in Attempts |-> "idle"]
  /\ jwt = [i \in Installs |-> None]
  /\ faults = 0
  /\ acts = 0
  /\ lost = {}
  /\ deleted = {}

Goto(a, label) == pc' = [pc EXCEPT ![a] = label] /\ UNCHANGED <<refusal, client>>

\* Any other status ends main (log.Fatalf).
Refuse(a, reason) ==
  /\ pc' = [pc EXCEPT ![a] = "refused"]
  /\ refusal' = [refusal EXCEPT ![a] = reason]
  /\ client' = [client EXCEPT ![a] = "over"]

\* The context of the request is cancelled.
Cancelled(a) == client[a] = "over"

-----------------------------------------------------------------------------
(* The agent: loadOrEnroll, Enroll                                         *)

\* main starts, finds no JWT and enrols; a start at a time.
Start(a) ==
  /\ client[a] = "idle"
  /\ jwt[InstallOf[a]] = None
  /\ \A b \in Attempts : InstallOf[b] = InstallOf[a] => client[b] # "waiting"
  /\ client' = [client EXCEPT ![a] = "waiting"]
  /\ pc' = [pc EXCEPT ![a] = IF a \in Legacy THEN "lookup" ELSE "validate1"]
  /\ UNCHANGED <<tables, memory, offered, held, refusal, jwt, history>>

\* The challenge is decrypted and answered: enrollStep2.
AnswerChallenge(a) ==
  /\ pc[a] = "challenged"
  /\ client[a] = "waiting"
  /\ Goto(a, "validate2")
  /\ UNCHANGED <<tables, memory, offered, held, jwt, history>>

\* The JWT is decrypted and written to disk.
StoreJwt(a) ==
  /\ pc[a] = "issued"
  /\ client[a] = "waiting"
  /\ client' = [client EXCEPT ![a] = "over"]
  /\ jwt' = [jwt EXCEPT ![InstallOf[a]] = a]
  /\ pc' = [pc EXCEPT ![a] = "ended"]
  /\ UNCHANGED <<tables, memory, offered, held, refusal, history>>

-----------------------------------------------------------------------------
(* RegisterAgent with a token                                              *)

\* Mutant: use_count is looked at whatever the kind of token.
Usable_OneShot(a) == Valid(a) /\ spent[Token(a)] = {}

\* validateEnrollmentToken.
Usable(a) ==
  /\ Valid(a)
  /\ Token(a) \in Reusable \/ spent[Token(a)] = {}

Validate(a) ==
  /\ \/ Usable(a) /\ pc[a] = "validate1" /\ Goto(a, "keys1")
     \/ Usable(a) /\ pc[a] = "validate2" /\ Goto(a, "keys2")
     \/ ~Usable(a) /\ pc[a] \in {"validate1", "validate2"} /\ Refuse(a, "token")
     \/ Cancelled(a) /\ pc[a] \in {"validate1", "validate2"} /\ Refuse(a, "db")
  /\ UNCHANGED <<tables, memory, offered, held, jwt, history>>

\* Mutant: phase 1 offers the key of the next rotation.
ReadKeys_Next(a) ==
  /\ \/ /\ pc[a] = "keys1"
        /\ offered' = [offered EXCEPT ![a] = rsa + 1]
        /\ Goto(a, "nonce")
        /\ UNCHANGED held
     \/ /\ pc[a] = "keys2"
        /\ held' = [held EXCEPT ![a] = rsa]
        /\ Goto(a, "consume")
        /\ UNCHANGED offered
  /\ UNCHANGED <<tables, memory, jwt, history>>

\* The keys are read under server.mu; phase 1 will send the public one.
ReadKeys(a) ==
  /\ \/ /\ pc[a] = "keys1"
        /\ offered' = [offered EXCEPT ![a] = rsa]
        /\ Goto(a, "nonce")
        /\ UNCHANGED held
     \/ /\ pc[a] = "keys2"
        /\ held' = [held EXCEPT ![a] = rsa]
        /\ Goto(a, "consume")
        /\ UNCHANGED offered
  /\ UNCHANGED <<tables, memory, jwt, history>>

\* Another nonce was pending for the host.
Displaced(h, a) == {pending[h]} \ {None, a}

\* Mutant: a pending nonce is kept until it is consumed.
StorePendingNonce_KeepsOld(a) ==
  /\ pc[a] = "nonce"
  /\ pending' = [pending EXCEPT ![Host(a)] = IF @ = None THEN a ELSE @]
  /\ Goto(a, "challenged")
  /\ UNCHANGED <<tables, rsa, offered, held, jwt, history>>

StorePendingNonce(a) ==
  /\ pc[a] = "nonce"
  /\ pending' = [pending EXCEPT ![Host(a)] = a]
  /\ lost' = lost \cup Displaced(Host(a), a)
  /\ Goto(a, "challenged")
  /\ UNCHANGED <<tables, rsa, offered, held, jwt, faults, acts, deleted>>

\* consumePendingNonce, then the decryption and the comparison of the answer,
\* which carries the nonce and the token of this attempt.
Verdict(a, nonce) ==
  CASE nonce = None            -> "no_challenge"
    [] held[a] # offered[a]    -> "decryption"
    [] nonce # a               -> "mismatch"
    [] OTHER                   -> "none"

ConsumePendingNonce(a) ==
  /\ pc[a] = "consume"
  /\ pending' = [pending EXCEPT ![Host(a)] = None]
  /\ lost' = lost \cup Displaced(Host(a), a)
  /\ LET verdict == Verdict(a, pending[Host(a)])
     IN  IF verdict = "none" THEN Goto(a, "spend") ELSE Refuse(a, verdict)
  /\ UNCHANGED <<tables, rsa, offered, held, jwt, faults, acts, deleted>>

\* Mutant: the error is logged and the enrolment goes on.
ConsumeEnrollmentToken_Logged(a) ==
  /\ pc[a] = "spend"
  /\ \/ spent' = [spent EXCEPT ![Token(a)] = @ \cup {a}]
     \/ token[Token(a)] = "gone" /\ UNCHANGED spent
  /\ Goto(a, "authorize")
  /\ UNCHANGED <<token, authorized, agents, memory, offered, held, jwt, history>>

\* An expired token still has its row.
ConsumeEnrollmentToken(a) ==
  /\ pc[a] = "spend"
  /\ \/ /\ token[Token(a)] # "gone"
        /\ spent' = [spent EXCEPT ![Token(a)] = @ \cup {a}]
        /\ Goto(a, "authorize")
     \/ /\ Cancelled(a) \/ token[Token(a)] = "gone"
        /\ Refuse(a, "db")
        /\ UNCHANGED spent
  /\ UNCHANGED <<token, authorized, agents, memory, offered, held, jwt, history>>

\* An error is only logged.
AddAuthorizedKey(a) ==
  /\ pc[a] = "authorize"
  /\ \/ authorized' = [authorized EXCEPT ![Host(a)] = InstallOf[a]]
     \/ Cancelled(a) /\ UNCHANGED authorized
  /\ Goto(a, "register")
  /\ UNCHANGED <<token, spent, agents, memory, offered, held, jwt, history>>

\* Mutant: the error of the last write is only logged too.
PersistAgent_Logged(a) ==
  /\ pc[a] = "register"
  /\ Goto(a, "issued")
  /\ \/ /\ agents' = [agents EXCEPT ![Host(a)] = [key |-> InstallOf[a], jti |-> a]]
        /\ deleted' = deleted \ {Host(a)}
     \/ UNCHANGED <<agents, deleted>>
  /\ UNCHANGED <<token, spent, authorized, memory, offered, held, jwt, faults, acts, lost>>

\* registerStore.RegisterAgent: insert or replace the row.
PersistAgent(a) ==
  /\ pc[a] = "register"
  /\ \/ /\ agents' = [agents EXCEPT ![Host(a)] = [key |-> InstallOf[a], jti |-> a]]
        /\ deleted' = deleted \ {Host(a)}
        /\ Goto(a, "issued")
     \/ /\ Cancelled(a)
        /\ Refuse(a, "db")
        /\ UNCHANGED <<agents, deleted>>
  /\ UNCHANGED <<token, spent, authorized, memory, offered, held, jwt, faults, acts, lost>>

\* registerAgentLegacy: the key must be the authorized one.
GetAuthorizedKey(a) ==
  /\ pc[a] = "lookup"
  /\ \/ /\ authorized[Host(a)] = InstallOf[a]
        /\ Goto(a, "register")
     \/ /\ authorized[Host(a)] # InstallOf[a]
        /\ Refuse(a, "unauthorized")
     \/ Cancelled(a) /\ Refuse(a, "db")
  /\ UNCHANGED <<tables, memory, offered, held, jwt, history>>

-----------------------------------------------------------------------------
(* The administrator                                                       *)

Act == acts < MaxAdmin /\ acts' = acts + 1

Remove(gone) ==
  /\ token' = [t \in Tokens |-> IF t \in gone THEN "gone" ELSE token[t]]
  /\ UNCHANGED <<spent, authorized, agents, memory, handler, minion, faults, lost, deleted>>

AdminDeleteToken(t) == Act /\ Remove({t})

\* Expired tokens, one-shot tokens that were used, or both.
AdminPurgeTokens ==
  /\ Act
  /\ LET expired == {t \in Tokens : token[t] = "expired"}
         used    == {t \in Tokens \ Reusable : spent[t] # {}}
     IN  \E purged \in {expired, used, expired \cup used} : Remove(purged)

AdminAuthorize(i) ==
  /\ Act
  /\ authorized' = [authorized EXCEPT ![HostOf[i]] = i]
  /\ UNCHANGED <<token, spent, agents, memory, handler, minion, faults, lost, deleted>>

\* AdminDeleteMinion: the row, and the authorized key if its deletion succeeds.
DeleteAgent(h) ==
  /\ agents[h] # None
  /\ Act
  /\ agents' = [agents EXCEPT ![h] = None]
  /\ authorized' \in {authorized, [authorized EXCEPT ![h] = None]}
  /\ deleted' = deleted \cup {h}
  /\ UNCHANGED <<token, spent, memory, handler, minion, faults, lost>>

-----------------------------------------------------------------------------
(* Faults                                                                  *)

Fault == faults < MaxFaults /\ faults' = faults + 1

\* The client times out, or its process ends before the JWT is on disk.
Abandon(a) ==
  /\ client[a] = "waiting"
  /\ Fault
  /\ client' = [client EXCEPT ![a] = "over"]
  /\ UNCHANGED <<tables, memory, handler, jwt, acts, lost, deleted>>

ExpireToken(t) ==
  /\ token[t] = "valid"
  /\ Fault
  /\ token' = [token EXCEPT ![t] = "expired"]
  /\ UNCHANGED <<spent, authorized, agents, memory, handler, minion, acts, lost, deleted>>

\* An expired nonce counts as none.
NonceExpires(a) ==
  /\ pending[Host(a)] = a
  /\ Fault
  /\ pending' = [pending EXCEPT ![Host(a)] = None]
  /\ lost' = lost \cup {a}
  /\ UNCHANGED <<tables, rsa, handler, minion, acts, deleted>>

\* AdminRotateKeys replaces the RSA key (KeyRotation).
RotateKeys ==
  /\ Fault
  /\ rsa' = rsa + 1
  /\ UNCHANGED <<tables, pending, handler, minion, acts, lost, deleted>>

\* pendingNonces is in memory only; requests being handled get no answer.
Crash ==
  /\ Fault
  /\ pending' = [h \in Hosts |-> None]
  /\ lost' = lost \cup ({pending[h] : h \in Hosts} \ {None})
  /\ pc' = [a \in Attempts |-> IF pc[a] \in Running THEN "refused" ELSE pc[a]]
  /\ refusal' = [a \in Attempts |-> IF pc[a] \in Running THEN "crash" ELSE refusal[a]]
  /\ client' = [a \in Attempts |-> IF pc[a] \in Running THEN "over" ELSE client[a]]
  /\ UNCHANGED <<tables, rsa, offered, held, jwt, acts, deleted>>

\* After a 401 the agent removes its JWT (AgentDispatcher).
ForgetJwt(i) ==
  /\ jwt[i] # None
  /\ Fault
  /\ jwt' = [jwt EXCEPT ![i] = None]
  /\ UNCHANGED <<tables, memory, handler, client, acts, lost, deleted>>

-----------------------------------------------------------------------------
RegisterAgent(a) ==
  \/ Validate(a) \/ ReadKeys(a) \/ StorePendingNonce(a) \/ ConsumePendingNonce(a)
  \/ ConsumeEnrollmentToken(a) \/ AddAuthorizedKey(a) \/ PersistAgent(a)
  \/ GetAuthorizedKey(a)

Enroll(a) == AnswerChallenge(a) \/ StoreJwt(a)

Next ==
  \/ \E a \in Attempts :
       Start(a) \/ Enroll(a) \/ RegisterAgent(a) \/ Abandon(a) \/ NonceExpires(a)
  \/ \E t \in Tokens : AdminDeleteToken(t) \/ ExpireToken(t)
  \/ \E i \in Installs : AdminAuthorize(i) \/ ForgetJwt(i)
  \/ \E h \in Hosts : DeleteAgent(h)
  \/ AdminPurgeTokens \/ RotateKeys \/ Crash

Spec == Init /\ [][Next]_vars

\* Handlers run, and so does an agent that started; nothing makes one start.  An
\* attempt has finitely many steps: to be fair to all together is to be fair to each.
FairSpec == Spec /\ WF_vars(\E a \in Attempts : RegisterAgent(a) \/ Enroll(a))

-----------------------------------------------------------------------------
(* Properties                                                              *)

\* An enrolment through a token is counted before the agent is on file or has
\* its JWT: use_count ("incremente a chaque enrollement") is never short, even
\* when a write fails, a client leaves or the token is deleted meanwhile.
UsesCoverEnrolments ==
  \A a \in Attempts \ Legacy :
    \/ pc[a] \in Paid
    \/ \E h \in Hosts : agents[h] # None /\ agents[h].jti = a
    \/ jwt[InstallOf[a]] = a
    => a \in spent[Token(a)]

\* Attempts whose client left before it had an answer.
Abandoned == {a \in Attempts : client[a] = "over" /\ pc[a] # "ended"}

\* The row of the host holds attempt a's JTI, or that of an attempt a cannot help:
\* of another installation, or of its own and abandoned, whose handler came last.
OnFile(a) ==
  LET row == agents[Host(a)]
  IN  /\ row # None
      /\ row.jti = a \/ InstallOf[row.jti] # InstallOf[a] \/ row.jti \in Abandoned

\* An agent that holds a JWT is on file unless an administrator deleted it, and the
\* JTI on file, the one AdminRevokeMinion blacklists, is that of its JWT except when
\* a handler it gave up on, or another installation of the hostname, wrote after.
HolderIsOnFile ==
  \A i \in Installs : jwt[i] # None /\ HostOf[i] \notin deleted => OnFile(jwt[i])

\* A refusal in phase 2 has its cause outside the attempt: another attempt of
\* the host, or a crash, removed its nonce, the nonce expired, the keys were
\* rotated, the token was dropped or used by another.
RefusalHasCause ==
  \A a \in Attempts :
    /\ refusal[a] \in {"no_challenge", "mismatch"} => a \in lost
    /\ refusal[a] = "decryption" => rsa # offered[a]
    /\ refusal[a] = "token" =>
         ~Valid(a) \/ (Token(a) \notin Reusable /\ spent[Token(a)] \ {a} # {})

\* Nothing else is going on: no fault to come, no other handler for the host.
Alone(a) ==
  /\ faults = MaxFaults
  /\ Valid(a)
  /\ \A b \in Attempts \ {a} : Host(b) = Host(a) => pc[b] \notin Running

\* An attempt with a reusable token that runs alone gets its JWT, whatever the
\* attempts, rotations and crashes before it left behind: an unanswered nonce, a
\* use of the token, another key authorized or on file under the hostname.
AloneAttemptSucceeds ==
  \A a \in {b \in Attempts \ Legacy : Token(b) \in Reusable} :
    (pc[a] = "validate1" /\ client[a] = "waiting" /\ Alone(a))
      ~> (jwt[InstallOf[a]] = a \/ ~Alone(a))

-----------------------------------------------------------------------------
(* What is left when nothing gets in the way.                              *)

\* The token of attempt a is of use to it.
Entitled(a) ==
  Valid(a) /\ (Token(a) \in Reusable \/ spent[Token(a)] \subseteq {a})

\* What another may do to an attempt in progress: the client gives it up, the
\* nonce expires or is lost in a crash, the RSA key is replaced, or a handler of
\* the same hostname takes the place of its nonce.
Disturbs(a) ==
  \/ Abandon(a) \/ NonceExpires(a) \/ RotateKeys \/ Crash
  \/ \E b \in Attempts \ {a} :
       Host(b) = Host(a) /\ (StorePendingNonce(b) \/ ConsumePendingNonce(b))

CalmStep(a) == client[a] = "waiting" => Entitled(a) /\ ~Disturbs(a)
Calm(a) == [][CalmStep(a)]_vars

\* Between the check of a one-shot token and its consumption there is one handler.
Paying == {"keys2", "consume", "spend"}
OnePayer ==
  \A a, b \in Attempts :
    /\ pc[a] \in Paying /\ pc[b] \in Paying
    /\ Token(a) = Token(b) /\ Token(a) \notin Reusable
    => a = b

OneShotIsUsedOnce == \A t \in Tokens \ Reusable : \A a, b \in spent[t] : a = b
=============================================================================
