---------------------------- MODULE MinionAdmin -----------------------------
(***************************************************************************)
(* The row of an enrolled agent and everything that works on it at once:   *)
(* the handlers of internal/handlers/admin.go (revoke, delete, suspend,    *)
(* resume, set-state, vars, list), those that issue its JWT (the last step *)
(* of RegisterAgent, TokenRefresh, sendRekeyToAgent), the inventory, and   *)
(* the methods of internal/storage/store.go they call.                     *)
(*                                                                         *)
(* One host: no statement but the listings touches two rows.  A JTI, and   *)
(* the value of a variable, is named by the call that makes it.  dbMu      *)
(* makes each method of Store one step, except the two that read the vars  *)
(* document and write it back by a second statement.  The hostname, its    *)
(* authorized_keys row and its RSA key are those of module Enrollment; the *)
(* registry entry and its races are those of module TaskRelay, reduced     *)
(* here to the entry and the messages on their way to the agent.           *)
(***************************************************************************)
EXTENDS PluginTokens, Naturals, Sequences, FiniteSets

CONSTANTS
  Keys,   \* keys of Ansible variables
  First   \* the JTI of the enrolment that came before all calls

ASSUME MinionAdminAssumption == First \notin Calls \cup {None} /\ IsFiniteSet(Calls)

Jtis == Calls \cup {First}

VARIABLES
  agent,      \* the agents row, or None
  blacklist,  \* JTIs listed in the blacklist table
  overdue,    \* JTIs whose last entry there has its expires_at (25 h later) in the past
  registered, \* wsConnections has the host
  inbox,      \* rekey messages on their way to the agent, by JTI
  held,       \* JTI of the JWT of the agent, or None
  jti,        \* Calls -> JTI read by AdminRevokeMinion, or None
  todo,       \* Calls -> keys AdminSetMinionVars has still to set
  copy,       \* Calls -> vars document read under dbMu, or None
  connected,  \* Calls -> the host was in the registry when a listing read it
  shown,      \* Calls -> the host is in the answer of a listing
  flight,     \* history: calls whose JWT is on file or sent, and not yet with the agent
  clean,      \* history: the only such call, if it has been alone since it began, or None
  astray,     \* history: a JWT was lost or raced another, and none came cleanly since
  quiet,      \* history: revocations begun since a clean issue, with no issue since
  lives,      \* history: number of times the row was inserted
  buried,     \* history: deleted, as an administrator was told, and not registered since
  late        \* history: listings that arrived since then

adminVars   == <<agent, blacklist, overdue>>
linkVars    == <<registered, inbox, held>>
localVars   == <<jti, todo, copy, connected, shown>>
issueVars   == <<flight, clean, astray, quiet>>
lifeVars    == <<lives, buried, late>>
vars == <<callVars, tokenVars, adminVars, linkVars, localVars, issueVars, lifeVars>>

Documents == [Keys -> Calls \cup {None}]
Rows == [jti: Jtis, vars: Documents, suspended: BOOLEAN,
         status: {"connected", "disconnected"}]

ASSUME RowAssumption == None \notin Rows

VarWrites == {"sv_write", "dv_write"}
Points == TokenPoints \cup VarWrites \cup
  {"idle", "done", "rv_blacklist", "rv_close", "rv_mark", "dl_close", "dl_row",
   "sv_next", "rk_update", "rk_send", "rf_update", "rf_answer", "en_row",
   "en_answer", "inv_table", "ls_table", "ls_registry"}
Replies == TokenReplies \cup
  {"none", "revoked", "deleted", "updated", "refreshed", "sent", "enrolled", "listed", "over"}

TypeOK ==
  /\ TokenTypeOK
  /\ pc \in [Calls -> Points]
  /\ reply \in [Calls -> Replies]
  /\ dbMu \in Calls \cup {None}
  /\ agent \in Rows \cup {None}
  /\ blacklist \in SUBSET Jtis
  /\ overdue \in SUBSET Jtis
  /\ registered \in BOOLEAN
  /\ inbox \in Seq(Calls)
  /\ held \in Jtis \cup {None}
  /\ jti \in [Calls -> Jtis \cup {None}]
  /\ todo \in [Calls -> SUBSET Keys]
  /\ copy \in [Calls -> Documents \cup {None}]
  /\ connected \in [Calls -> BOOLEAN]
  /\ shown \in [Calls -> BOOLEAN]
  /\ flight \in SUBSET Calls
  /\ clean \in Calls \cup {None}
  /\ astray \in BOOLEAN
  /\ quiet \in SUBSET Calls
  /\ lives \in Nat
  /\ buried \in BOOLEAN
  /\ late \in SUBSET Calls

NewRow(j) ==
  [jti |-> j, vars |-> [k \in Keys |-> None], suspended |-> FALSE, status |-> "disconnected"]

\* The host was enrolled before the calls, or never.
Init ==
  /\ pc = [c \in Calls |-> "idle"]
  /\ reply = [c \in Calls |-> "none"]
  /\ dbMu = None
  /\ TokenInit
  /\ \/ agent = NewRow(First) /\ held = First /\ lives = 1
     \/ agent = None /\ held = None /\ lives = 0
  /\ blacklist = {}
  /\ overdue = {}
  /\ registered = FALSE
  /\ inbox = <<>>
  /\ jti = [c \in Calls |-> None]
  /\ todo = [c \in Calls |-> {}]
  /\ copy = [c \in Calls |-> None]
  /\ connected = [c \in Calls |-> FALSE]
  /\ shown = [c \in Calls |-> FALSE]
  /\ flight = {}
  /\ clean = None
  /\ astray = FALSE
  /\ quiet = {}
  /\ buried = FALSE
  /\ late = {}

-----------------------------------------------------------------------------
(* AdminRevokeMinion                                                       *)

\* GetAgent, for the JTI on file.
RevokeGet(c) ==
  /\ pc[c] = "idle"
  /\ StoreFree
  /\ \/ /\ agent # None
        /\ jti' = [jti EXCEPT ![c] = agent.jti]
        /\ quiet' = IF flight = {} /\ ~astray THEN quiet \cup {c} ELSE quiet
        /\ Goto(c, "rv_blacklist")
     \/ agent = None /\ Answer(c, "not_found") /\ UNCHANGED <<jti, quiet>>
     \/ Answer(c, "error") /\ UNCHANGED <<jti, quiet>>
  /\ UNCHANGED <<dbMu, tokenVars, adminVars, linkVars, todo, copy, connected, shown,
                 flight, clean, astray, lifeVars>>

\* AddToBlacklist: an entry already there keeps its expires_at.  A failure is
\* logged, and the revocation goes on.
RevokeBlacklist(c) ==
  /\ pc[c] = "rv_blacklist"
  /\ StoreFree
  /\ \/ /\ blacklist' = blacklist \cup {jti[c]}
        /\ overdue' = overdue \ ({jti[c]} \ blacklist)
        /\ UNCHANGED quiet
     \/ UNCHANGED <<blacklist, overdue>> /\ quiet' = quiet \ {c}
  /\ Goto(c, "rv_close")
  /\ UNCHANGED <<dbMu, tokenVars, agent, linkVars, localVars, flight, clean, astray, lifeVars>>

\* CloseAgent: the entry leaves the registry.  What was already sent on the
\* connection may still reach the agent before the close frame.
Close(c, from, to) ==
  /\ pc[c] = from
  /\ registered' = FALSE
  /\ Goto(c, to)
  /\ UNCHANGED <<dbMu, tokenVars, adminVars, inbox, held, localVars, issueVars, lifeVars>>

RevokeClose(c) == Close(c, "rv_close", "rv_mark")

\* UpdateAgentStatus, its error ignored, then the host.revoked event.
RevokeMark(c) ==
  /\ pc[c] = "rv_mark"
  /\ StoreFree
  /\ \/ agent # None /\ agent' = [agent EXCEPT !.status = "disconnected"]
     \/ UNCHANGED agent
  /\ Answer(c, "revoked")
  /\ UNCHANGED <<dbMu, tokenVars, blacklist, overdue, linkVars, localVars, issueVars, lifeVars>>

-----------------------------------------------------------------------------
(* AdminDeleteMinion                                                       *)

DeleteGet(c) ==
  /\ pc[c] = "idle"
  /\ StoreFree
  /\ \/ agent # None /\ Goto(c, "dl_close")
     \/ agent = None /\ Answer(c, "not_found")
     \/ Answer(c, "error")
  /\ UNCHANGED <<dbMu, tokenVars, adminVars, linkVars, localVars, issueVars, lifeVars>>

DeleteClose(c) == Close(c, "dl_close", "dl_row")

\* The number of affected rows is not looked at.
DeleteRow_Unchecked(c) ==
  /\ pc[c] = "dl_row"
  /\ StoreFree
  /\ \/ agent' = None /\ buried' = TRUE /\ Answer(c, "deleted")
     \/ Answer(c, "error") /\ UNCHANGED <<agent, buried>>
  /\ UNCHANGED <<dbMu, tokenVars, blacklist, overdue, linkVars, localVars, issueVars,
                 lives, late>>

\* DeleteAgent tells from the affected rows whether another deletion was
\* faster; host.deleted is dispatched only when it was this one.
DeleteRow(c) ==
  /\ pc[c] = "dl_row"
  /\ StoreFree
  /\ \/ agent # None /\ agent' = None /\ buried' = TRUE /\ Answer(c, "deleted")
     \/ agent = None /\ Answer(c, "not_found") /\ UNCHANGED <<agent, buried>>
     \/ Answer(c, "error") /\ UNCHANGED <<agent, buried>>
  /\ UNCHANGED <<dbMu, tokenVars, blacklist, overdue, linkVars, localVars, issueVars,
                 lives, late>>

-----------------------------------------------------------------------------
(* Handlers of one statement                                               *)

\* AdminSuspendMinion and AdminResumeMinion.
SetSuspended(c) ==
  /\ pc[c] = "idle"
  /\ StoreFree
  /\ \/ /\ agent # None
        /\ \E b \in BOOLEAN : agent' = [agent EXCEPT !.suspended = b]
        /\ Answer(c, "updated")
     \/ agent = None /\ Answer(c, "not_found") /\ UNCHANGED agent
     \/ Answer(c, "error") /\ UNCHANGED agent
  /\ UNCHANGED <<dbMu, tokenVars, blacklist, overdue, linkVars, localVars, issueVars, lifeVars>>

\* The status of the body is not validated.
SetState_AnyStatus(c) ==
  /\ pc[c] = "idle"
  /\ StoreFree
  /\ \/ /\ agent # None
        /\ \E s \in {"connected", "disconnected", "other"} :
             agent' = [agent EXCEPT !.status = s]
        /\ Answer(c, "updated")
     \/ agent = None /\ Answer(c, "updated") /\ UNCHANGED agent
     \/ Answer(c, "error") /\ UNCHANGED agent
  /\ UNCHANGED <<dbMu, tokenVars, blacklist, overdue, linkVars, localVars, issueVars, lifeVars>>

\* AdminSetMinionState: 200 whether the row exists or not.
SetState(c) ==
  /\ pc[c] = "idle"
  /\ StoreFree
  /\ \/ /\ agent # None
        /\ \E s \in {"connected", "disconnected"} : agent' = [agent EXCEPT !.status = s]
        /\ Answer(c, "updated")
     \/ agent = None /\ Answer(c, "updated") /\ UNCHANGED agent
     \/ Answer(c, "error") /\ UNCHANGED agent
  /\ UNCHANGED <<dbMu, tokenVars, blacklist, overdue, linkVars, localVars, issueVars, lifeVars>>

\* Every entry is purged, not only those of the past.
PurgeBlacklist_All(c) ==
  /\ pc[c] = "idle"
  /\ StoreFree
  /\ \/ blacklist' = {} /\ Answer(c, "over")
     \/ UNCHANGED blacklist /\ Answer(c, "error")
  /\ UNCHANGED <<dbMu, tokenVars, agent, overdue, linkVars, localVars, issueVars, lifeVars>>

\* AdminSecurityBlacklistPurge: PurgeExpiredBlacklist.
PurgeBlacklist(c) ==
  /\ pc[c] = "idle"
  /\ StoreFree
  /\ \/ blacklist' = blacklist \ overdue /\ Answer(c, "over")
     \/ UNCHANGED blacklist /\ Answer(c, "error")
  /\ UNCHANGED <<dbMu, tokenVars, agent, overdue, linkVars, localVars, issueVars, lifeVars>>

\* Time passes expires_at of an entry.
EntryOverdue(j) ==
  /\ j \in blacklist \ overdue
  /\ overdue' = overdue \cup {j}
  /\ UNCHANGED <<callVars, tokenVars, agent, blacklist, linkVars, localVars, issueVars, lifeVars>>

-----------------------------------------------------------------------------
(* AdminSetMinionVars and AdminDeleteMinionVar                             *)

\* UPDATE agents SET vars: no effect without a row.
WithVars(document) == IF agent = None THEN None ELSE [agent EXCEPT !.vars = document]

\* AdminSetMinionVars has decoded the body.
SetVarsCall(c) ==
  /\ pc[c] = "idle"
  /\ \E K \in SUBSET Keys \ {{}} : todo' = [todo EXCEPT ![c] = K]
  /\ Goto(c, "sv_next")
  /\ UNCHANGED <<dbMu, tokenVars, adminVars, linkVars, jti, copy, connected, shown,
                 issueVars, lifeVars>>

\* dbMu is not held between the two statements.
SetVarRead_NoLock(c) ==
  /\ pc[c] = "sv_next"
  /\ StoreFree
  /\ \/ /\ agent # None
        /\ copy' = [copy EXCEPT ![c] = agent.vars]
        /\ Goto(c, "sv_write")
     \/ agent = None /\ Answer(c, "not_found") /\ UNCHANGED copy
     \/ Answer(c, "error") /\ UNCHANGED copy
  /\ UNCHANGED <<dbMu, tokenVars, adminVars, linkVars, jti, todo, connected, shown,
                 issueVars, lifeVars>>

\* SetAgentVar, first statement, for the next key of the body, in the order
\* of a Go map: any.  dbMu is kept for the second.
SetVarRead(c) ==
  /\ pc[c] = "sv_next"
  /\ StoreFree
  /\ \/ /\ agent # None
        /\ dbMu' = c
        /\ copy' = [copy EXCEPT ![c] = agent.vars]
        /\ Goto(c, "sv_write")
     \/ agent = None /\ Answer(c, "not_found") /\ UNCHANGED <<dbMu, copy>>
     \/ Answer(c, "error") /\ UNCHANGED <<dbMu, copy>>
  /\ UNCHANGED <<tokenVars, adminVars, linkVars, jti, todo, connected, shown,
                 issueVars, lifeVars>>

\* Second statement, with the whole document; a failure leaves the keys
\* already set as they are.
SetVarWrite(c) ==
  /\ pc[c] = "sv_write"
  /\ dbMu' = None
  /\ copy' = [copy EXCEPT ![c] = None]
  /\ \/ \E k \in todo[c] :
          /\ agent' = WithVars([copy[c] EXCEPT ![k] = c])
          /\ todo' = [todo EXCEPT ![c] = @ \ {k}]
          /\ IF todo[c] = {k} THEN Answer(c, "updated") ELSE Goto(c, "sv_next")
     \/ UNCHANGED <<agent, todo>> /\ Answer(c, "error")
  /\ UNCHANGED <<tokenVars, blacklist, overdue, linkVars, jti, connected, shown,
                 issueVars, lifeVars>>

\* DeleteAgentVar, first statement; an absent key ends it there.
DeleteVarRead(c) ==
  /\ pc[c] = "idle"
  /\ StoreFree
  /\ \/ \E k \in Keys :
          /\ agent # None
          /\ agent.vars[k] # None
          /\ dbMu' = c
          /\ copy' = [copy EXCEPT ![c] = agent.vars]
          /\ todo' = [todo EXCEPT ![c] = {k}]
          /\ Goto(c, "dv_write")
     \/ /\ IF agent = None THEN TRUE ELSE \E k \in Keys : agent.vars[k] = None
        /\ Answer(c, "not_found")
        /\ UNCHANGED <<dbMu, copy, todo>>
     \/ Answer(c, "error") /\ UNCHANGED <<dbMu, copy, todo>>
  /\ UNCHANGED <<tokenVars, adminVars, linkVars, jti, connected, shown, issueVars, lifeVars>>

DeleteVarWrite(c) ==
  /\ pc[c] = "dv_write"
  /\ dbMu' = None
  /\ copy' = [copy EXCEPT ![c] = None]
  /\ todo' = [todo EXCEPT ![c] = {}]
  /\ \/ \E k \in todo[c] :
          /\ agent' = WithVars([copy[c] EXCEPT ![k] = None])
          /\ Answer(c, "updated")
     \/ UNCHANGED agent /\ Answer(c, "error")
  /\ UNCHANGED <<tokenVars, blacklist, overdue, linkVars, jti, connected, shown,
                 issueVars, lifeVars>>

-----------------------------------------------------------------------------
(* Issue of a JWT: the JTI goes to the agents row, the JWT to the agent    *)

\* Call c has put a JTI on file.
Issue(c) ==
  /\ flight' = flight \cup {c}
  /\ clean' = IF flight = {} THEN c ELSE None
  /\ astray' = (astray \/ flight # {})
  /\ quiet' = {}

\* Call c goes on with a JWT whose JTI is not on file.
IssueUnfiled(c) ==
  /\ flight' = flight \cup {c}
  /\ clean' = None
  /\ astray' = TRUE
  /\ quiet' = {}

\* The agent has the JWT of call c, and saves it.
Deliver(c) ==
  /\ held' = c
  /\ flight' = flight \ {c}
  /\ clean' = IF clean = c THEN None ELSE clean
  /\ astray' = (astray /\ clean # c)
  /\ UNCHANGED quiet

\* The JWTs of the calls of C will never be with the agent.
Stray(C) ==
  /\ flight' = flight \ C
  /\ clean' = IF clean \in C THEN None ELSE clean
  /\ astray' = (astray \/ C # {})
  /\ UNCHANGED quiet

\* The JTI on file is left as it is.
UpdateTokenJTI_Skipped(c) == UNCHANGED agent /\ Issue(c)

\* UpdateTokenJTI: no effect without a row; its error is logged only.
UpdateTokenJTI(c) ==
  \/ /\ agent' = IF agent = None THEN None ELSE [agent EXCEPT !.jti = c]
     /\ Issue(c)
  \/ UNCHANGED agent /\ IssueUnfiled(c)

\* sendRekeyToAgent, called by a rotation for every host that was connected
\* when it listed them, and by AgentHandler: GetAgent for the public key.
RekeyGet(c) ==
  /\ pc[c] = "idle"
  /\ StoreFree
  /\ \/ agent # None /\ Goto(c, "rk_update")
     \/ Answer(c, "over")
  /\ UNCHANGED <<dbMu, tokenVars, adminVars, linkVars, localVars, issueVars, lifeVars>>

RekeyUpdate(c) ==
  /\ pc[c] = "rk_update"
  /\ StoreFree
  /\ UpdateTokenJTI(c)
  /\ Goto(c, "rk_send")
  /\ UNCHANGED <<dbMu, tokenVars, blacklist, overdue, linkVars, localVars, lifeVars>>

\* SendToAgent: without a connection, or when the write fails, the JWT is lost.
RekeySend(c) ==
  /\ pc[c] = "rk_send"
  /\ \/ /\ registered
        /\ inbox' = Append(inbox, c)
        /\ Answer(c, "sent")
        /\ UNCHANGED issueVars
     \/ UNCHANGED inbox /\ Stray({c}) /\ Answer(c, "over")
  /\ UNCHANGED <<dbMu, tokenVars, adminVars, registered, held, localVars, lifeVars>>

\* TokenRefresh: GetAgent for the public key ...
RefreshGet(c) ==
  /\ pc[c] = "idle"
  /\ StoreFree
  /\ \/ agent # None /\ Goto(c, "rf_update")
     \/ agent = None /\ Answer(c, "not_found")
     \/ Answer(c, "error")
  /\ UNCHANGED <<dbMu, tokenVars, adminVars, linkVars, localVars, issueVars, lifeVars>>

\* ... UpdateTokenJTI ...
RefreshUpdate(c) ==
  /\ pc[c] = "rf_update"
  /\ StoreFree
  /\ UpdateTokenJTI(c)
  /\ Goto(c, "rf_answer")
  /\ UNCHANGED <<dbMu, tokenVars, blacklist, overdue, linkVars, localVars, lifeVars>>

\* ... and the answer, which the agent gets, or not when it is gone.
AnswerJWT(c, from, r) ==
  /\ pc[c] = from
  /\ \/ Deliver(c)
     \/ Stray({c}) /\ UNCHANGED held
  /\ Answer(c, r)
  /\ UNCHANGED <<dbMu, tokenVars, adminVars, registered, inbox, localVars, lifeVars>>

RefreshAnswer(c) == AnswerJWT(c, "rf_answer", "refreshed")

\* An agent that is not connected enrols.
EnrolStart(c) ==
  /\ pc[c] = "idle"
  /\ ~registered
  /\ inbox = <<>>
  /\ Goto(c, "en_row")
  /\ UNCHANGED <<dbMu, tokenVars, adminVars, linkVars, localVars, issueVars, lifeVars>>

\* RegisterAgent of the store: an upsert that keeps the vars, the suspension
\* and the status of a row already there.
EnrolRow(c) ==
  /\ pc[c] = "en_row"
  /\ StoreFree
  /\ \/ /\ agent' = IF agent = None THEN NewRow(c) ELSE [agent EXCEPT !.jti = c]
        /\ lives' = IF agent = None THEN lives + 1 ELSE lives
        /\ buried' = FALSE
        /\ late' = {}
        /\ Issue(c)
        /\ Goto(c, "en_answer")
     \/ Answer(c, "error") /\ UNCHANGED <<agent, issueVars, lifeVars>>
  /\ UNCHANGED <<dbMu, tokenVars, blacklist, overdue, linkVars, localVars>>

EnrolAnswer(c) == AnswerJWT(c, "en_answer", "enrolled")

-----------------------------------------------------------------------------
(* The agent                                                               *)

\* JWTAuth looks at the signature and the dates, AgentHandler at neither the
\* blacklist nor the row: any JWT the agent holds opens the connection.
Connect ==
  /\ ~registered
  /\ inbox = <<>>
  /\ held # None
  /\ registered' = TRUE
  /\ UNCHANGED <<callVars, tokenVars, adminVars, inbox, held, localVars, issueVars, lifeVars>>

\* A JWT that cannot be saved is given up.
ReadRekey ==
  /\ inbox # <<>>
  /\ inbox' = Tail(inbox)
  /\ \/ Deliver(Head(inbox))
     \/ Stray({Head(inbox)}) /\ UNCHANGED held
  /\ UNCHANGED <<callVars, tokenVars, adminVars, registered, localVars, lifeVars>>

LoseConnection ==
  /\ registered \/ inbox # <<>>
  /\ registered' = FALSE
  /\ inbox' = <<>>
  /\ Stray({inbox[i] : i \in DOMAIN inbox})
  /\ UNCHANGED <<callVars, tokenVars, adminVars, held, localVars, lifeVars>>

-----------------------------------------------------------------------------
(* GetInventory, after requirePluginAuth, and AdminListMinions             *)

Arrived(c) == late' = IF buried THEN late \cup {c} ELSE late

InventoryCall(c) ==
  /\ PluginCall(c)
  /\ Arrived(c)
  /\ UNCHANGED <<adminVars, linkVars, localVars, issueVars, lives, buried>>

\* AdminGetInventory: the same, for an administrator.
AdminInventoryCall(c) ==
  /\ pc[c] = "idle"
  /\ Arrived(c)
  /\ Goto(c, "admitted")
  /\ UNCHANGED <<dbMu, tokenVars, adminVars, linkVars, localVars, issueVars, lives, buried>>

\* buildInventoryResponse: the registry first ...
InventoryRegistry(c) ==
  /\ pc[c] = "admitted"
  /\ connected' = [connected EXCEPT ![c] = registered]
  /\ Goto(c, "inv_table")
  /\ UNCHANGED <<dbMu, tokenVars, adminVars, linkVars, jti, todo, copy, shown,
                 issueVars, lifeVars>>

\* The connected hosts are listed whatever the table says.
InventoryTable_OfRegistry(c) ==
  /\ pc[c] = "inv_table"
  /\ StoreFree
  /\ shown' = [shown EXCEPT ![c] = connected[c] \/ agent # None]
  /\ Answer(c, "listed")
  /\ UNCHANGED <<dbMu, tokenVars, adminVars, linkVars, jti, todo, copy, connected,
                 issueVars, lifeVars>>

\* ... then the table: all hosts, or those that were connected (only_connected);
\* an error of ListAgents gives an empty inventory.
InventoryTable(c) ==
  /\ pc[c] = "inv_table"
  /\ StoreFree
  /\ \E s \in {agent # None, agent # None /\ connected[c], FALSE} :
       shown' = [shown EXCEPT ![c] = s]
  /\ Answer(c, "listed")
  /\ UNCHANGED <<dbMu, tokenVars, adminVars, linkVars, jti, todo, copy, connected,
                 issueVars, lifeVars>>

\* AdminListMinions: the table first, then the registry for the statuses.
ListCall(c) ==
  /\ pc[c] = "idle"
  /\ Arrived(c)
  /\ Goto(c, "ls_table")
  /\ UNCHANGED <<dbMu, tokenVars, adminVars, linkVars, localVars, issueVars, lives, buried>>

ListTable(c) ==
  /\ pc[c] = "ls_table"
  /\ StoreFree
  /\ \/ shown' = [shown EXCEPT ![c] = agent # None] /\ Goto(c, "ls_registry")
     \/ UNCHANGED shown /\ Answer(c, "error")
  /\ UNCHANGED <<dbMu, tokenVars, adminVars, linkVars, jti, todo, copy, connected,
                 issueVars, lifeVars>>

ListRegistry(c) ==
  /\ pc[c] = "ls_registry"
  /\ connected' = [connected EXCEPT ![c] = registered]
  /\ Answer(c, "listed")
  /\ UNCHANGED <<dbMu, tokenVars, adminVars, linkVars, jti, todo, copy, shown,
                 issueVars, lifeVars>>

-----------------------------------------------------------------------------

Elsewhere == UNCHANGED <<adminVars, linkVars, localVars, issueVars, lifeVars>>

\* A request arrives: its first step.
Arrive(c) ==
  \/ RevokeGet(c) \/ DeleteGet(c) \/ SetSuspended(c) \/ SetState(c)
  \/ PurgeBlacklist(c) \/ SetVarsCall(c) \/ DeleteVarRead(c) \/ RekeyGet(c) \/ RefreshGet(c)
  \/ EnrolStart(c) \/ InventoryCall(c) \/ AdminInventoryCall(c) \/ ListCall(c)
  \/ AdminCreateToken(c) /\ Elsewhere
  \/ AdminRevokeToken(c) /\ Elsewhere
  \/ DeleteEnrollmentToken(c) /\ Elsewhere

\* A handler goes on.
Serve(c) ==
  \/ RevokeBlacklist(c) \/ RevokeClose(c) \/ RevokeMark(c)
  \/ DeleteClose(c) \/ DeleteRow(c)
  \/ SetVarRead(c) \/ SetVarWrite(c) \/ DeleteVarWrite(c)
  \/ RekeyUpdate(c) \/ RekeySend(c) \/ RefreshUpdate(c) \/ RefreshAnswer(c)
  \/ EnrolRow(c) \/ EnrolAnswer(c)
  \/ InventoryRegistry(c) \/ InventoryTable(c) \/ ListTable(c) \/ ListRegistry(c)
  \/ TokenStep(c) /\ Elsewhere

Time ==
  \/ \E t \in Tokens : TokenExpires(t) /\ Elsewhere
  \/ \E j \in Jtis : EntryOverdue(j)

Next ==
  \/ \E c \in Calls : Arrive(c) \/ Serve(c)
  \/ Connect \/ ReadRekey \/ LoseConnection
  \/ Time

Spec == Init /\ [][Next]_vars

-----------------------------------------------------------------------------
(* Properties                                                              *)

\* Nobody enters with a token that was revoked, deleted or expired when the
\* request arrived, and last_used_at never tells of such a request, whatever
\* requests and administrators come between the lookup and the audit.
AdmittedWasValid ==
  /\ \A c \in hopeless :
       pc[c] \notin {"touch", "admitted", "inv_table"} /\ reply[c] # "listed"
  /\ \A t \in Tokens : lastUse[t] \notin hopeless

\* host.deleted is dispatched, and 200 answered, once per life of the row,
\* however many administrators delete the agent at once and whatever enrols
\* it again in between.
DeletedOnce ==
  Cardinality({c \in Calls : reply[c] = "deleted"}) + (IF agent = None THEN 0 ELSE 1) = lives

\* An agent whose deletion was answered is in no listing that comes later, even
\* if it connected again, or something wrote to its row, until it enrols again.
DeletedIsNotListed ==
  \A c \in late : ~shown[c]

\* Unless a JWT is on its way, was lost, or raced another since the last clean
\* issue, the JTI on file is that of the JWT the agent holds.
HolderIsCurrent ==
  flight = {} /\ ~astray /\ agent # None /\ held # None => agent.jti = held

\* A revocation that began then has the JTI of the JWT in use in the blacklist,
\* until that entry may be purged or a new JWT is issued: neither a refresh, a
\* rekey nor a registration makes it list another, and no purge removes it
\* early (REST_ADMIN.md, revoke: "Blackliste le JTI du JWT actif").
RevocationIsEffective ==
  \A c \in quiet : pc[c] \in {"rv_close", "rv_mark", "done"} =>
    held \in blacklist \cup overdue \cup {None}

\* The writers of the row, each with its own statements, act on it as if one
\* at a time.
T == INSTANCE AgentTable WITH Values <- Calls
TableIsAtomic == T!Spec
=============================================================================
