---------------------------- MODULE PluginTokens ----------------------------
(***************************************************************************)
(* Plugin tokens: requirePluginAuth (internal/handlers/plugin_auth.go),    *)
(* the handlers of internal/handlers/admin_tokens.go that create, revoke   *)
(* and delete them, and the rows of plugin_tokens they work on             *)
(* (internal/storage/store_plugin_tokens.go).                              *)
(*                                                                         *)
(* A call is one HTTP request.  Every method of Store runs under dbMu, so  *)
(* it is one step here unless it runs several statements that matter; a    *)
(* method may fail at any time (busy database, context cancelled by the    *)
(* client).  A token is named by its row: its id and its hash are fresh.   *)
(*                                                                         *)
(* The module also holds what all calls to the server share: where each    *)
(* one stands, what it answered, and who holds dbMu.                       *)
(***************************************************************************)
CONSTANTS
  Calls,   \* HTTP requests to the server
  Tokens,  \* rows plugin_tokens may have
  None

ASSUME PluginTokensAssumption == None \notin Calls \cup Tokens

VARIABLES
  pc,       \* Calls -> control point of the handler
  reply,    \* Calls -> what the handler answered, or "none"
  dbMu,     \* the call that holds dbMu between two statements, or None
  request,  \* Calls -> the token the request carries or is about, or None
  tokens,   \* Tokens -> "absent" (not yet created), "live", "revoked", "gone"
  lapsed,   \* tokens whose expires_at is past
  lastUse,  \* Tokens -> the call last_used_at and last_used_ip tell of, or None
  hopeless  \* history: calls whose token was of no use when they arrived

callVars  == <<pc, reply, dbMu>>
tokenVars == <<request, tokens, lapsed, lastUse, hopeless>>

TokenPoints == {"lookup", "check", "touch", "admitted", "dt_plugin"}
TokenReplies == {"refused", "created", "token_revoked", "token_deleted", "not_found", "error"}

TokenTypeOK ==
  /\ request \in [Calls -> Tokens \cup {None}]
  /\ tokens \in [Tokens -> {"absent", "live", "revoked", "gone"}]
  /\ lapsed \in SUBSET Tokens
  /\ lastUse \in [Tokens -> Calls \cup {None}]
  /\ hopeless \in SUBSET Calls

TokenInit ==
  /\ request = [c \in Calls |-> None]
  /\ tokens \in [Tokens -> {"absent", "live"}]
  /\ lapsed = {}
  /\ lastUse = [t \in Tokens |-> None]
  /\ hopeless = {}

\* No other call is inside a method of Store.
StoreFree == dbMu = None

\* Handler c goes on at another point, or answers and returns.
Goto(c, label) == pc' = [pc EXCEPT ![c] = label] /\ UNCHANGED reply
Answer(c, r) ==
  /\ pc' = [pc EXCEPT ![c] = "done"]
  /\ reply' = [reply EXCEPT ![c] = r]

\* The token lets nobody in, and never will again.
Useless(t) == tokens[t] \in {"revoked", "gone"} \/ t \in lapsed

-----------------------------------------------------------------------------
(* requirePluginAuth, which GetInventory, ExecCommand, UploadFile and      *)
(* FetchFile call first                                                    *)

\* The request of a plugin arrives with a token it was given.
PluginCall(c) ==
  /\ pc[c] = "idle"
  /\ \E t \in Tokens :
       /\ tokens[t] # "absent"
       /\ request' = [request EXCEPT ![c] = t]
       /\ hopeless' = IF Useless(t) THEN hopeless \cup {c} ELSE hopeless
  /\ Goto(c, "lookup")
  /\ UNCHANGED <<dbMu, tokens, lapsed, lastUse>>

\* The revoked flag is not looked at.
LookupToken_AnyRow(c) ==
  /\ pc[c] = "lookup"
  /\ StoreFree
  /\ \/ tokens[request[c]] \in {"live", "revoked"} /\ Goto(c, "check")
     \/ tokens[request[c]] \in {"absent", "gone"} /\ Answer(c, "refused")
     \/ Answer(c, "error")
  /\ UNCHANGED <<dbMu, tokenVars>>

\* GetPluginTokenByHash, then the revoked flag of the row it returned.
LookupToken(c) ==
  /\ pc[c] = "lookup"
  /\ StoreFree
  /\ \/ tokens[request[c]] = "live" /\ Goto(c, "check")
     \/ tokens[request[c]] # "live" /\ Answer(c, "refused")
     \/ Answer(c, "error")
  /\ UNCHANGED <<dbMu, tokenVars>>

\* expires_at against the clock, then allowed_ips and allowed_hostname_pattern
\* against the client, on the row as it was read.
CheckToken(c) ==
  /\ pc[c] = "check"
  /\ \/ request[c] \notin lapsed /\ Goto(c, "touch")
     \/ Answer(c, "refused")
  /\ UNCHANGED <<dbMu, tokenVars>>

\* TouchPluginToken: an UPDATE, so a row deleted meanwhile stays deleted; its
\* error is logged only.
TouchToken(c) ==
  /\ pc[c] = "touch"
  /\ StoreFree
  /\ \/ /\ tokens[request[c]] \in {"live", "revoked"}
        /\ lastUse' = [lastUse EXCEPT ![request[c]] = c]
     \/ UNCHANGED lastUse
  /\ Goto(c, "admitted")
  /\ UNCHANGED <<dbMu, request, tokens, lapsed, hopeless>>

-----------------------------------------------------------------------------
(* The administrator                                                       *)

\* AdminCreateToken: one INSERT, with or without an expiry.
AdminCreateToken(c) ==
  /\ pc[c] = "idle"
  /\ StoreFree
  /\ \E t \in Tokens :
       /\ tokens[t] = "absent"
       /\ \/ tokens' = [tokens EXCEPT ![t] = "live"] /\ Answer(c, "created")
          \/ UNCHANGED tokens /\ Answer(c, "error")
  /\ UNCHANGED <<dbMu, request, lapsed, lastUse, hopeless>>

\* AdminRevokeToken: RevokePluginToken.
AdminRevokeToken(c) ==
  /\ pc[c] = "idle"
  /\ StoreFree
  /\ \E t \in Tokens :
       \/ /\ tokens[t] \in {"live", "revoked"}
          /\ tokens' = [tokens EXCEPT ![t] = "revoked"]
          /\ Answer(c, "token_revoked")
       \/ /\ tokens[t] \in {"absent", "gone"}
          /\ Answer(c, "not_found")
          /\ UNCHANGED tokens
       \/ Answer(c, "error") /\ UNCHANGED tokens
  /\ UNCHANGED <<dbMu, request, lapsed, lastUse, hopeless>>

\* AdminDeleteToken looks among the enrolment tokens first, and gives up when
\* that fails ...
DeleteEnrollmentToken(c) ==
  /\ pc[c] = "idle"
  /\ StoreFree
  /\ \E t \in Tokens : request' = [request EXCEPT ![c] = t]
  /\ Goto(c, "dt_plugin") \/ Answer(c, "error")
  /\ UNCHANGED <<dbMu, tokens, lapsed, lastUse, hopeless>>

\* ... then deletes the plugin token.
DeletePluginToken(c) ==
  /\ pc[c] = "dt_plugin"
  /\ StoreFree
  /\ \/ /\ tokens[request[c]] \in {"live", "revoked"}
        /\ tokens' = [tokens EXCEPT ![request[c]] = "gone"]
        /\ Answer(c, "token_deleted")
     \/ /\ tokens[request[c]] \in {"absent", "gone"}
        /\ Answer(c, "not_found")
        /\ UNCHANGED tokens
     \/ Answer(c, "error") /\ UNCHANGED tokens
  /\ UNCHANGED <<dbMu, request, lapsed, lastUse, hopeless>>

\* Time passes expires_at of a token created with one.
TokenExpires(t) ==
  /\ tokens[t] # "absent"
  /\ t \notin lapsed
  /\ lapsed' = lapsed \cup {t}
  /\ UNCHANGED <<callVars, request, tokens, lastUse, hopeless>>

TokenStep(c) ==
  LookupToken(c) \/ CheckToken(c) \/ TouchToken(c) \/ DeletePluginToken(c)
=============================================================================
