------------------------- MODULE MinionAdminProofs --------------------------
(***************************************************************************)
(* Theorems about MinionAdmin, for all sets of calls, tokens and keys.     *)
(***************************************************************************)
EXTENDS MinionAdmin, FiniteSetTheorems, SequenceTheorems, TLAPS

USE PluginTokensAssumption, MinionAdminAssumption, RowAssumption

-----------------------------------------------------------------------------
(* Types                                                                   *)

LEMMA RowTypes ==
  /\ \A j \in Jtis : NewRow(j) \in Rows
  /\ \A row \in Rows :
       /\ row.jti \in Jtis /\ row.vars \in Documents
       /\ \A j \in Jtis : [row EXCEPT !.jti = j] \in Rows
       /\ \A d \in Documents : [row EXCEPT !.vars = d] \in Rows
       /\ \A b \in BOOLEAN : [row EXCEPT !.suspended = b] \in Rows
       /\ \A s \in {"connected", "disconnected"} : [row EXCEPT !.status = s] \in Rows
BY DEF Rows, NewRow, Documents

LEMMA RowStep ==
  ASSUME agent \in Rows
  PROVE  /\ \A j \in Jtis : agent' = [agent EXCEPT !.jti = j] => agent' \in Rows
         /\ \A d \in Documents : agent' = [agent EXCEPT !.vars = d] => agent' \in Rows
         /\ (\E b \in BOOLEAN : agent' = [agent EXCEPT !.suspended = b]) => agent' \in Rows
         /\ \A s \in {"connected", "disconnected"} :
              agent' = [agent EXCEPT !.status = s] => agent' \in Rows
BY RowTypes DEF Rows

LEMMA DocumentTypes ==
  ASSUME NEW d \in Documents, NEW k \in Keys, NEW v \in Calls \cup {None}
  PROVE  [d EXCEPT ![k] = v] \in Documents
BY DEF Documents

\* Control points and answers on the one hand, data on the other.
ControlOK == pc \in [Calls -> Points] /\ reply \in [Calls -> Replies]

DataOK ==
  /\ TokenTypeOK
  /\ dbMu \in Calls \cup {None}
  /\ agent \in Rows \cup {None}
  /\ blacklist \in SUBSET Jtis
  /\ overdue \in SUBSET Jtis
  /\ registered \in BOOLEAN
  /\ inbox \in Seq(Calls)
  /\ held \in Jtis \cup {None}
  /\ jti \in [Calls -> Jtis \cup {None}]
  /\ todo \in [Calls -> SUBSET Keys]
  /\ copy \in [Calls -> Documents \cup {None}]
  /\ connected \in [Calls -> BOOLEAN]
  /\ shown \in [Calls -> BOOLEAN]
  /\ flight \in SUBSET Calls
  /\ clean \in Calls \cup {None}
  /\ astray \in BOOLEAN
  /\ quiet \in SUBSET Calls
  /\ lives \in Nat
  /\ buried \in BOOLEAN
  /\ late \in SUBSET Calls

\* What a handler read is there when it is used.
LocalsOK ==
  \A c \in Calls :
    /\ pc[c] = "rv_blacklist" => jti[c] # None
    /\ pc[c] \in VarWrites => dbMu = c /\ agent # None /\ copy[c] = agent.vars

Typed == ControlOK /\ LocalsOK /\ DataOK

LEMMA TypeParts == TypeOK <=> ControlOK /\ DataOK
BY DEF TypeOK, ControlOK, DataOK

LEMMA Strings ==
  /\ Points = {"lookup", "check", "touch", "admitted", "dt_plugin", "sv_write", "dv_write",
       "idle", "done", "rv_blacklist", "rv_close", "rv_mark", "dl_close", "dl_row", "sv_next",
       "rk_update", "rk_send", "rf_update", "rf_answer", "en_row", "en_answer", "inv_table",
       "ls_table", "ls_registry"}
  /\ Replies = {"refused", "created", "token_revoked", "token_deleted", "not_found", "error",
       "none", "revoked", "deleted", "updated", "refreshed", "sent", "enrolled", "listed", "over"}
BY DEF Points, Replies, TokenPoints, TokenReplies, VarWrites

LEMMA ControlStep ==
  ASSUME ControlOK, NEW c \in Calls
  PROVE  /\ \A label \in Points : Goto(c, label) => ControlOK'
         /\ \A r \in Replies : Answer(c, r) => ControlOK'
BY Strings DEF ControlOK, Goto, Answer

\* A handler that has dbMu to itself, or does not touch the row, moves to a
\* point where it relies on nothing.
LEMMA LocalsStep ==
  ASSUME Typed, NEW c \in Calls, UNCHANGED <<jti, copy>>,
         StoreFree \/ UNCHANGED <<dbMu, agent>>
  PROVE  /\ \A label \in Points \ {"rv_blacklist", "sv_write", "dv_write"} :
              Goto(c, label) => LocalsOK'
         /\ \A r \in Replies : Answer(c, r) => LocalsOK'
BY Strings DEF Typed, LocalsOK, ControlOK, DataOK, Goto, Answer, StoreFree, VarWrites

LEMMA TypeInvariant == Spec => []Typed
<1>1. Init => Typed
  <2> SUFFICES ASSUME Init PROVE Typed
    OBVIOUS
  <2>1. ControlOK /\ LocalsOK
    BY Strings DEF Init, ControlOK, LocalsOK, VarWrites
  <2>2. agent \in Rows \cup {None} /\ held \in Jtis \cup {None} /\ lives \in Nat
    BY RowTypes DEF Init, Jtis
  <2>3. TokenTypeOK
    BY DEF Init, TokenInit, TokenTypeOK
  <2>4. inbox \in Seq(Calls)
    BY DEF Init
  <2> QED BY <2>1, <2>2, <2>3, <2>4 DEF Init, Typed, DataOK
<1>2. Typed /\ [Next]_vars => Typed'
  <2> SUFFICES ASSUME Typed, [Next]_vars PROVE Typed'
    OBVIOUS
  <2>c. ControlOK /\ LocalsOK /\ DataOK
    BY DEF Typed
  <2>r. agent # None => agent \in Rows /\ agent.jti \in Jtis /\ agent.vars \in Documents
    BY <2>c, RowTypes DEF DataOK
  <2>d. \A c \in Calls : /\ \A label \in Points : Goto(c, label) => ControlOK'
                         /\ \A r \in Replies : Answer(c, r) => ControlOK'
    BY <2>c, ControlStep
  <2>e. ASSUME UNCHANGED <<jti, copy>>, StoreFree \/ UNCHANGED <<dbMu, agent>>, NEW c \in Calls
        PROVE  /\ \A label \in Points \ {"rv_blacklist", "sv_write", "dv_write"} :
                    Goto(c, label) => LocalsOK'
               /\ \A r \in Replies : Answer(c, r) => LocalsOK'
    BY <2>e, LocalsStep
  <2> USE DEF Typed, DataOK, TokenTypeOK, tokenVars, adminVars, linkVars, localVars, issueVars,
              lifeVars, Jtis
  <2>0. CASE UNCHANGED vars
    BY <2>0, <2>c DEF vars, callVars, ControlOK, LocalsOK
  <2>1. ASSUME NEW c \in Calls, RevokeGet(c) PROVE Typed'
    <3>1. ControlOK'
      BY <2>1, <2>d, Strings DEF RevokeGet
    <3>2. LocalsOK'
      BY <2>1, <2>c, <2>r, RowTypes DEF RevokeGet, LocalsOK, ControlOK, Goto, Answer, VarWrites, StoreFree
    <3>3. DataOK'
      BY <2>1, <2>c, <2>r, RowTypes, DocumentTypes DEF RevokeGet
    <3> QED BY <3>1, <3>2, <3>3, TypeParts
  <2>2. ASSUME NEW c \in Calls, RevokeBlacklist(c) PROVE Typed'
    <3>1. ControlOK'
      BY <2>2, <2>d, Strings DEF RevokeBlacklist
    <3>2. LocalsOK'
      BY <2>2, <2>e, Strings DEF RevokeBlacklist
    <3>3. jti[c] \in Jtis
      BY <2>2, <2>c DEF RevokeBlacklist, LocalsOK
    <3>4. DataOK'
      BY <2>2, <2>c, <3>3 DEF RevokeBlacklist
    <3> QED BY <3>1, <3>2, <3>4, TypeParts
  <2>3. ASSUME NEW c \in Calls, RevokeClose(c) PROVE Typed'
    <3>1. ControlOK'
      BY <2>3, <2>d, Strings DEF RevokeClose, Close
    <3>2. LocalsOK'
      BY <2>3, <2>e, Strings DEF RevokeClose, Close
    <3>3. DataOK'
      BY <2>3, <2>c, <2>r, RowTypes, DocumentTypes DEF RevokeClose, Close
    <3> QED BY <3>1, <3>2, <3>3, TypeParts
  <2>4. ASSUME NEW c \in Calls, RevokeMark(c) PROVE Typed'
    <3>1. ControlOK'
      BY <2>4, <2>d, Strings DEF RevokeMark
    <3>2. LocalsOK'
      BY <2>4, <2>e, Strings DEF RevokeMark
    <3>3. agent' \in Rows \cup {None}
      BY <2>4, <2>c, <2>r, RowTypes, RowStep DEF RevokeMark
    <3>4. DataOK'
      BY <2>4, <3>3, <2>c DEF RevokeMark
    <3> QED BY <3>1, <3>2, <3>4, TypeParts
  <2>5. ASSUME NEW c \in Calls, DeleteGet(c) PROVE Typed'
    <3>1. ControlOK'
      BY <2>5, <2>d, Strings DEF DeleteGet
    <3>2. LocalsOK'
      BY <2>5, <2>e, Strings DEF DeleteGet
    <3>3. DataOK'
      BY <2>5, <2>c, <2>r, RowTypes, DocumentTypes DEF DeleteGet
    <3> QED BY <3>1, <3>2, <3>3, TypeParts
  <2>6. ASSUME NEW c \in Calls, DeleteClose(c) PROVE Typed'
    <3>1. ControlOK'
      BY <2>6, <2>d, Strings DEF DeleteClose, Close
    <3>2. LocalsOK'
      BY <2>6, <2>e, Strings DEF DeleteClose, Close
    <3>3. DataOK'
      BY <2>6, <2>c, <2>r, RowTypes, DocumentTypes DEF DeleteClose, Close
    <3> QED BY <3>1, <3>2, <3>3, TypeParts
  <2>7. ASSUME NEW c \in Calls, DeleteRow(c) PROVE Typed'
    <3>1. ControlOK'
      BY <2>7, <2>d, Strings DEF DeleteRow
    <3>2. LocalsOK'
      BY <2>7, <2>e, Strings DEF DeleteRow
    <3>3. DataOK'
      BY <2>7, <2>c, <2>r, RowTypes, DocumentTypes DEF DeleteRow
    <3> QED BY <3>1, <3>2, <3>3, TypeParts
  <2>8. ASSUME NEW c \in Calls, SetSuspended(c) PROVE Typed'
    <3>1. ControlOK'
      BY <2>8, <2>d, Strings DEF SetSuspended
    <3>2. LocalsOK'
      BY <2>8, <2>e, Strings DEF SetSuspended
    <3>3. agent' \in Rows \cup {None}
      BY <2>8, <2>c, <2>r, RowTypes, RowStep DEF SetSuspended
    <3>4. DataOK'
      BY <2>8, <3>3, <2>c DEF SetSuspended
    <3> QED BY <3>1, <3>2, <3>4, TypeParts
  <2>9. ASSUME NEW c \in Calls, SetState(c) PROVE Typed'
    <3>1. ControlOK'
      BY <2>9, <2>d, Strings DEF SetState
    <3>2. LocalsOK'
      BY <2>9, <2>e, Strings DEF SetState
    <3>3. agent' \in Rows \cup {None}
      BY <2>9, <2>c, <2>r, RowTypes, RowStep DEF SetState
    <3>4. DataOK'
      BY <2>9, <3>3, <2>c DEF SetState
    <3> QED BY <3>1, <3>2, <3>4, TypeParts
  <2>10. ASSUME NEW c \in Calls, PurgeBlacklist(c) PROVE Typed'
    <3>1. ControlOK'
      BY <2>10, <2>d, Strings DEF PurgeBlacklist
    <3>2. LocalsOK'
      BY <2>10, <2>e, Strings DEF PurgeBlacklist
    <3>3. DataOK'
      BY <2>10, <2>c, <2>r, RowTypes, DocumentTypes DEF PurgeBlacklist
    <3> QED BY <3>1, <3>2, <3>3, TypeParts
  <2>11. ASSUME NEW c \in Calls, SetVarsCall(c) PROVE Typed'
    <3>1. ControlOK'
      BY <2>11, <2>d, Strings DEF SetVarsCall
    <3>2. LocalsOK'
      BY <2>11, <2>e, Strings DEF SetVarsCall
    <3>3. DataOK'
      BY <2>11, <2>c, <2>r, RowTypes, DocumentTypes DEF SetVarsCall
    <3> QED BY <3>1, <3>2, <3>3, TypeParts
  <2>12. ASSUME NEW c \in Calls, SetVarRead(c) PROVE Typed'
    <3>1. ControlOK'
      BY <2>12, <2>d, Strings DEF SetVarRead
    <3>2. LocalsOK'
      BY <2>12, <2>c, <2>r, RowTypes DEF SetVarRead, LocalsOK, ControlOK, Goto, Answer, VarWrites, StoreFree
    <3>3. DataOK'
      BY <2>12, <2>c, <2>r, RowTypes, DocumentTypes DEF SetVarRead
    <3> QED BY <3>1, <3>2, <3>3, TypeParts
  <2>13. ASSUME NEW c \in Calls, SetVarWrite(c) PROVE Typed'
    <3>1. ControlOK'
      BY <2>13, <2>d, Strings DEF SetVarWrite
    <3>2. LocalsOK'
      BY <2>13, <2>c, <2>r, RowTypes DEF SetVarWrite, LocalsOK, ControlOK, Goto, Answer, VarWrites, StoreFree, WithVars
    <3>3. copy[c] \in Documents /\ agent # None
      BY <2>13, <2>c, <2>r DEF SetVarWrite, LocalsOK, VarWrites
    <3>4. \A k \in Keys : [copy[c] EXCEPT ![k] = c] \in Documents
      BY <3>3, DocumentTypes
    <3>5. agent' \in Rows
      BY <2>13, <2>c, <2>r, <3>3, <3>4, RowStep DEF SetVarWrite, WithVars
    <3>6. ASSUME NEW k \in todo[c], todo' = [todo EXCEPT ![c] = todo[c] \ {k}]
         PROVE  todo' \in [Calls -> SUBSET Keys]
      BY <2>c, <3>6
    <3>7. todo' \in [Calls -> SUBSET Keys]
      BY <2>13, <2>c, <3>6 DEF SetVarWrite
    <3>8. copy' \in [Calls -> Documents \cup {None}]
      BY <2>13, <2>c DEF SetVarWrite
    <3>9. DataOK'
      BY <2>13, <2>c, <3>5, <3>7, <3>8 DEF SetVarWrite
    <3> QED BY <3>1, <3>2, <3>9, TypeParts
  <2>14. ASSUME NEW c \in Calls, DeleteVarRead(c) PROVE Typed'
    <3>1. ControlOK'
      BY <2>14, <2>d, Strings DEF DeleteVarRead
    <3>2. LocalsOK'
      BY <2>14, <2>c, <2>r, RowTypes DEF DeleteVarRead, LocalsOK, ControlOK, Goto, Answer, VarWrites, StoreFree
    <3>3. \A k \in Keys : [todo EXCEPT ![c] = {k}] \in [Calls -> SUBSET Keys]
      BY <2>c
    <3>4. todo' \in [Calls -> SUBSET Keys]
      BY <2>14, <2>c, <3>3 DEF DeleteVarRead
    <3>5. copy' \in [Calls -> Documents \cup {None}]
      BY <2>14, <2>c, <2>r DEF DeleteVarRead
    <3>6. DataOK'
      BY <2>14, <2>c, <3>4, <3>5 DEF DeleteVarRead
    <3> QED BY <3>1, <3>2, <3>6, TypeParts
  <2>15. ASSUME NEW c \in Calls, DeleteVarWrite(c) PROVE Typed'
    <3>1. ControlOK'
      BY <2>15, <2>d, Strings DEF DeleteVarWrite
    <3>2. LocalsOK'
      BY <2>15, <2>c, <2>r, RowTypes DEF DeleteVarWrite, LocalsOK, ControlOK, Goto, Answer, VarWrites, StoreFree, WithVars
    <3>3. copy[c] \in Documents /\ agent # None
      BY <2>15, <2>c, <2>r DEF DeleteVarWrite, LocalsOK, VarWrites
    <3>4. \A k \in Keys : [copy[c] EXCEPT ![k] = None] \in Documents
      BY <3>3, DocumentTypes
    <3>5. agent' \in Rows
      BY <2>15, <2>c, <2>r, <3>3, <3>4, RowStep DEF DeleteVarWrite, WithVars
    <3>6. todo' \in [Calls -> SUBSET Keys] /\ copy' \in [Calls -> Documents \cup {None}]
      BY <2>15, <2>c DEF DeleteVarWrite
    <3>7. DataOK'
      BY <2>15, <2>c, <3>5, <3>6 DEF DeleteVarWrite
    <3> QED BY <3>1, <3>2, <3>7, TypeParts
  <2>16. ASSUME NEW c \in Calls, RekeyGet(c) PROVE Typed'
    <3>1. ControlOK'
      BY <2>16, <2>d, Strings DEF RekeyGet
    <3>2. LocalsOK'
      BY <2>16, <2>e, Strings DEF RekeyGet
    <3>3. DataOK'
      BY <2>16, <2>c, <2>r, RowTypes, DocumentTypes DEF RekeyGet
    <3> QED BY <3>1, <3>2, <3>3, TypeParts
  <2>17. ASSUME NEW c \in Calls, RekeyUpdate(c) PROVE Typed'
    <3>1. ControlOK'
      BY <2>17, <2>d, Strings DEF RekeyUpdate
    <3>2. LocalsOK'
      BY <2>17, <2>e, Strings DEF RekeyUpdate
    <3>3. agent' \in Rows \cup {None}
      BY <2>17, <2>c, <2>r, RowTypes, RowStep DEF RekeyUpdate, UpdateTokenJTI
    <3>4. DataOK'
      BY <2>17, <3>3, <2>c DEF RekeyUpdate, UpdateTokenJTI, Issue, IssueUnfiled
    <3> QED BY <3>1, <3>2, <3>4, TypeParts
  <2>18. ASSUME NEW c \in Calls, RekeySend(c) PROVE Typed'
    <3>1. ControlOK'
      BY <2>18, <2>d, Strings DEF RekeySend
    <3>2. LocalsOK'
      BY <2>18, <2>e, Strings DEF RekeySend
    <3>3. Append(inbox, c) \in Seq(Calls)
      BY <2>c
    <3>4. inbox' \in Seq(Calls)
      BY <2>18, <2>c, <3>3 DEF RekeySend
    <3>5. DataOK'
      BY <2>18, <2>c, <3>4 DEF RekeySend, Stray
    <3> QED BY <3>1, <3>2, <3>5, TypeParts
  <2>19. ASSUME NEW c \in Calls, RefreshGet(c) PROVE Typed'
    <3>1. ControlOK'
      BY <2>19, <2>d, Strings DEF RefreshGet
    <3>2. LocalsOK'
      BY <2>19, <2>e, Strings DEF RefreshGet
    <3>3. DataOK'
      BY <2>19, <2>c, <2>r, RowTypes, DocumentTypes DEF RefreshGet
    <3> QED BY <3>1, <3>2, <3>3, TypeParts
  <2>20. ASSUME NEW c \in Calls, RefreshUpdate(c) PROVE Typed'
    <3>1. ControlOK'
      BY <2>20, <2>d, Strings DEF RefreshUpdate
    <3>2. LocalsOK'
      BY <2>20, <2>e, Strings DEF RefreshUpdate
    <3>3. agent' \in Rows \cup {None}
      BY <2>20, <2>c, <2>r, RowTypes, RowStep DEF RefreshUpdate, UpdateTokenJTI
    <3>4. DataOK'
      BY <2>20, <3>3, <2>c DEF RefreshUpdate, UpdateTokenJTI, Issue, IssueUnfiled
    <3> QED BY <3>1, <3>2, <3>4, TypeParts
  <2>21. ASSUME NEW c \in Calls, RefreshAnswer(c) PROVE Typed'
    <3>1. ControlOK'
      BY <2>21, <2>d, Strings DEF RefreshAnswer, AnswerJWT
    <3>2. LocalsOK'
      BY <2>21, <2>e, Strings DEF RefreshAnswer, AnswerJWT
    <3>3. DataOK'
      BY <2>21, <2>c, <2>r, RowTypes, DocumentTypes DEF RefreshAnswer, AnswerJWT, Deliver, Stray
    <3> QED BY <3>1, <3>2, <3>3, TypeParts
  <2>22. ASSUME NEW c \in Calls, EnrolStart(c) PROVE Typed'
    <3>1. ControlOK'
      BY <2>22, <2>d, Strings DEF EnrolStart
    <3>2. LocalsOK'
      BY <2>22, <2>e, Strings DEF EnrolStart
    <3>3. DataOK'
      BY <2>22, <2>c, <2>r, RowTypes, DocumentTypes DEF EnrolStart
    <3> QED BY <3>1, <3>2, <3>3, TypeParts
  <2>23. ASSUME NEW c \in Calls, EnrolRow(c) PROVE Typed'
    <3>1. ControlOK'
      BY <2>23, <2>d, Strings DEF EnrolRow
    <3>2. LocalsOK'
      BY <2>23, <2>e, Strings DEF EnrolRow
    <3>3. agent' \in Rows \cup {None}
      BY <2>23, <2>c, <2>r, RowTypes, RowStep DEF EnrolRow, Issue
    <3>4. lives' \in Nat
      BY <2>23, <2>c DEF EnrolRow
    <3>5. flight' \in SUBSET Calls /\ clean' \in Calls \cup {None} /\ astray' \in BOOLEAN /\ quiet' \in SUBSET Calls
      BY <2>23, <2>c DEF EnrolRow, Issue
    <3>6. DataOK'
      BY <2>23, <2>c, <3>3, <3>4, <3>5 DEF EnrolRow
    <3> QED BY <3>1, <3>2, <3>6, TypeParts
  <2>24. ASSUME NEW c \in Calls, EnrolAnswer(c) PROVE Typed'
    <3>1. ControlOK'
      BY <2>24, <2>d, Strings DEF EnrolAnswer, AnswerJWT
    <3>2. LocalsOK'
      BY <2>24, <2>e, Strings DEF EnrolAnswer, AnswerJWT
    <3>3. DataOK'
      BY <2>24, <2>c, <2>r, RowTypes, DocumentTypes DEF EnrolAnswer, AnswerJWT, Deliver, Stray
    <3> QED BY <3>1, <3>2, <3>3, TypeParts
  <2>25. ASSUME NEW c \in Calls, InventoryCall(c) PROVE Typed'
    <3>1. ControlOK'
      BY <2>25, <2>d, Strings DEF InventoryCall, PluginCall
    <3>2. LocalsOK'
      BY <2>25, <2>e, Strings DEF InventoryCall, PluginCall
    <3>3. DataOK'
      BY <2>25, <2>c, <2>r, RowTypes, DocumentTypes DEF InventoryCall, PluginCall, Arrived
    <3> QED BY <3>1, <3>2, <3>3, TypeParts
  <2>26. ASSUME NEW c \in Calls, InventoryRegistry(c) PROVE Typed'
    <3>1. ControlOK'
      BY <2>26, <2>d, Strings DEF InventoryRegistry
    <3>2. LocalsOK'
      BY <2>26, <2>e, Strings DEF InventoryRegistry
    <3>3. DataOK'
      BY <2>26, <2>c, <2>r, RowTypes, DocumentTypes DEF InventoryRegistry
    <3> QED BY <3>1, <3>2, <3>3, TypeParts
  <2>27. ASSUME NEW c \in Calls, InventoryTable(c) PROVE Typed'
    <3>1. ControlOK'
      BY <2>27, <2>d, Strings DEF InventoryTable
    <3>2. LocalsOK'
      BY <2>27, <2>e, Strings DEF InventoryTable
    <3>3. shown' \in [Calls -> BOOLEAN]
      BY <2>27, <2>c DEF InventoryTable
    <3>4. DataOK'
      BY <2>27, <2>c, <3>3 DEF InventoryTable
    <3> QED BY <3>1, <3>2, <3>4, TypeParts
  <2>28. ASSUME NEW c \in Calls, AdminInventoryCall(c) PROVE Typed'
    <3>1. ControlOK'
      BY <2>28, <2>d, Strings DEF AdminInventoryCall
    <3>2. LocalsOK'
      BY <2>28, <2>e, Strings DEF AdminInventoryCall
    <3>3. DataOK'
      BY <2>28, <2>c, <2>r, RowTypes, DocumentTypes DEF AdminInventoryCall, Arrived
    <3> QED BY <3>1, <3>2, <3>3, TypeParts
  <2>29. ASSUME NEW c \in Calls, ListCall(c) PROVE Typed'
    <3>1. ControlOK'
      BY <2>29, <2>d, Strings DEF ListCall
    <3>2. LocalsOK'
      BY <2>29, <2>e, Strings DEF ListCall
    <3>3. DataOK'
      BY <2>29, <2>c, <2>r, RowTypes, DocumentTypes DEF ListCall, Arrived
    <3> QED BY <3>1, <3>2, <3>3, TypeParts
  <2>30. ASSUME NEW c \in Calls, ListTable(c) PROVE Typed'
    <3>1. ControlOK'
      BY <2>30, <2>d, Strings DEF ListTable
    <3>2. LocalsOK'
      BY <2>30, <2>e, Strings DEF ListTable
    <3>3. DataOK'
      BY <2>30, <2>c, <2>r, RowTypes, DocumentTypes DEF ListTable
    <3> QED BY <3>1, <3>2, <3>3, TypeParts
  <2>31. ASSUME NEW c \in Calls, ListRegistry(c) PROVE Typed'
    <3>1. ControlOK'
      BY <2>31, <2>d, Strings DEF ListRegistry
    <3>2. LocalsOK'
      BY <2>31, <2>e, Strings DEF ListRegistry
    <3>3. DataOK'
      BY <2>31, <2>c, <2>r, RowTypes, DocumentTypes DEF ListRegistry
    <3> QED BY <3>1, <3>2, <3>3, TypeParts
  <2>32. ASSUME NEW c \in Calls, AdminCreateToken(c) /\ Elsewhere PROVE Typed'
    <3>1. ControlOK'
      BY <2>32, <2>d, Strings DEF AdminCreateToken
    <3>2. LocalsOK'
      BY <2>32, <2>e, Strings DEF AdminCreateToken, Elsewhere
    <3>3. DataOK'
      BY <2>32, <2>c, <2>r, RowTypes, DocumentTypes DEF AdminCreateToken, Elsewhere
    <3> QED BY <3>1, <3>2, <3>3, TypeParts
  <2>33. ASSUME NEW c \in Calls, AdminRevokeToken(c) /\ Elsewhere PROVE Typed'
    <3>1. ControlOK'
      BY <2>33, <2>d, Strings DEF AdminRevokeToken
    <3>2. LocalsOK'
      BY <2>33, <2>e, Strings DEF AdminRevokeToken, Elsewhere
    <3>3. DataOK'
      BY <2>33, <2>c, <2>r, RowTypes, DocumentTypes DEF AdminRevokeToken, Elsewhere
    <3> QED BY <3>1, <3>2, <3>3, TypeParts
  <2>34. ASSUME NEW c \in Calls, DeleteEnrollmentToken(c) /\ Elsewhere PROVE Typed'
    <3>1. ControlOK'
      BY <2>34, <2>d, Strings DEF DeleteEnrollmentToken
    <3>2. LocalsOK'
      BY <2>34, <2>e, Strings DEF DeleteEnrollmentToken, Elsewhere
    <3>3. DataOK'
      BY <2>34, <2>c, <2>r, RowTypes, DocumentTypes DEF DeleteEnrollmentToken, Elsewhere
    <3> QED BY <3>1, <3>2, <3>3, TypeParts
  <2>35. ASSUME NEW c \in Calls, LookupToken(c) /\ Elsewhere PROVE Typed'
    <3>1. ControlOK'
      BY <2>35, <2>d, Strings DEF LookupToken
    <3>2. LocalsOK'
      BY <2>35, <2>e, Strings DEF LookupToken, Elsewhere
    <3>3. DataOK'
      BY <2>35, <2>c, <2>r, RowTypes, DocumentTypes DEF LookupToken, Elsewhere
    <3> QED BY <3>1, <3>2, <3>3, TypeParts
  <2>36. ASSUME NEW c \in Calls, CheckToken(c) /\ Elsewhere PROVE Typed'
    <3>1. ControlOK'
      BY <2>36, <2>d, Strings DEF CheckToken
    <3>2. LocalsOK'
      BY <2>36, <2>e, Strings DEF CheckToken, Elsewhere
    <3>3. DataOK'
      BY <2>36, <2>c, <2>r, RowTypes, DocumentTypes DEF CheckToken, Elsewhere
    <3> QED BY <3>1, <3>2, <3>3, TypeParts
  <2>37. ASSUME NEW c \in Calls, TouchToken(c) /\ Elsewhere PROVE Typed'
    <3>1. ControlOK'
      BY <2>37, <2>d, Strings DEF TouchToken
    <3>2. LocalsOK'
      BY <2>37, <2>e, Strings DEF TouchToken, Elsewhere
    <3>3. DataOK'
      BY <2>37, <2>c, <2>r, RowTypes, DocumentTypes DEF TouchToken, Elsewhere
    <3> QED BY <3>1, <3>2, <3>3, TypeParts
  <2>38. ASSUME NEW c \in Calls, DeletePluginToken(c) /\ Elsewhere PROVE Typed'
    <3>1. ControlOK'
      BY <2>38, <2>d, Strings DEF DeletePluginToken
    <3>2. LocalsOK'
      BY <2>38, <2>e, Strings DEF DeletePluginToken, Elsewhere
    <3>3. DataOK'
      BY <2>38, <2>c, <2>r, RowTypes, DocumentTypes DEF DeletePluginToken, Elsewhere
    <3> QED BY <3>1, <3>2, <3>3, TypeParts
  <2>200. ASSUME Connect PROVE Typed'
    BY <2>200, <2>c DEF Connect, callVars, ControlOK, LocalsOK
  <2>201. ASSUME ReadRekey PROVE Typed'
    <3>1. Head(inbox) \in Calls /\ inbox' \in Seq(Calls)
      BY <2>201, <2>c DEF ReadRekey
    <3> QED BY <2>201, <2>c, <3>1 DEF ReadRekey, Deliver, Stray, callVars, ControlOK, LocalsOK
  <2>202. ASSUME LoseConnection PROVE Typed'
    <3>1. inbox' \in Seq(Calls)
      BY <2>202 DEF LoseConnection
    <3> QED BY <2>202, <2>c, <3>1 DEF LoseConnection, Stray, callVars, ControlOK, LocalsOK
  <2>203. ASSUME NEW t \in Tokens, TokenExpires(t) /\ Elsewhere PROVE Typed'
    BY <2>203, <2>c DEF TokenExpires, Elsewhere, callVars, ControlOK, LocalsOK
  <2>204. ASSUME NEW j \in Jtis, EntryOverdue(j) PROVE Typed'
    BY <2>204, <2>c DEF EntryOverdue, callVars, ControlOK, LocalsOK
  <2> QED
  BY <2>0, <2>1, <2>2, <2>3, <2>4, <2>5, <2>6, <2>7, <2>8, <2>9, <2>10, <2>11, <2>12, <2>13,
     <2>14, <2>15, <2>16, <2>17, <2>18, <2>19, <2>20, <2>21, <2>22, <2>23, <2>24, <2>25,
     <2>26, <2>27, <2>28, <2>29, <2>30, <2>31, <2>32, <2>33, <2>34, <2>35, <2>36, <2>37,
     <2>38, <2>200, <2>201, <2>202, <2>203, <2>204
     DEF Next, Arrive, Serve, Time, TokenStep
<1> QED BY <1>1, <1>2, PTL DEF Spec

\* Every variable keeps its type, and what a handler has read of the row is
\* there when the handler uses it.
THEOREM TypeCorrect == Spec => []TypeOK
<1>1. Typed => TypeOK
  BY TypeParts DEF Typed
<1> QED BY <1>1, TypeInvariant, PTL

-----------------------------------------------------------------------------
(* The handlers implement AgentTable                                       *)

\* The steps that write no row.
LEMMA RowFrame ==
  /\ \A c \in Calls :
       /\ Arrive(c) => SetSuspended(c) \/ SetState(c) \/ UNCHANGED agent
       /\ Serve(c) => \/ RevokeMark(c) \/ DeleteRow(c) \/ SetVarWrite(c) \/ DeleteVarWrite(c)
                      \/ RekeyUpdate(c) \/ RefreshUpdate(c) \/ EnrolRow(c) \/ UNCHANGED agent
  /\ Connect \/ ReadRekey \/ LoseConnection \/ Time => UNCHANGED agent
<1> USE DEF adminVars, Elsewhere
<1>1. ASSUME NEW c \in Calls, Arrive(c)
      PROVE  SetSuspended(c) \/ SetState(c) \/ UNCHANGED agent
  BY <1>1 DEF Arrive, RevokeGet, DeleteGet, PurgeBlacklist, SetVarsCall, DeleteVarRead, RekeyGet,
     RefreshGet, EnrolStart, InventoryCall, AdminInventoryCall, ListCall
<1>2. ASSUME NEW c \in Calls, Serve(c)
      PROVE  \/ RevokeMark(c) \/ DeleteRow(c) \/ SetVarWrite(c) \/ DeleteVarWrite(c)
             \/ RekeyUpdate(c) \/ RefreshUpdate(c) \/ EnrolRow(c) \/ UNCHANGED agent
  BY <1>2 DEF Serve, RevokeBlacklist, RevokeClose, DeleteClose, Close, SetVarRead, RekeySend,
     RefreshAnswer, EnrolAnswer, AnswerJWT, InventoryRegistry, InventoryTable, ListTable, ListRegistry
<1>3. Connect \/ ReadRekey \/ LoseConnection \/ Time => UNCHANGED agent
  BY DEF Connect, ReadRekey, LoseConnection, Time, EntryOverdue
<1> QED BY <1>1, <1>2, <1>3

LEMMA RowSteps ==
  ASSUME Typed, [Next]_vars
  PROVE  [T!Next]_agent
<1> USE DEF T!Next
<1>r. agent # None => agent \in Rows
  BY DEF Typed, DataOK
<1>1. ASSUME NEW c \in Calls, SetSuspended(c) PROVE T!Next \/ UNCHANGED agent
  BY <1>1 DEF SetSuspended, T!SetSuspended
<1>2. ASSUME NEW c \in Calls, SetState(c) PROVE T!Next \/ UNCHANGED agent
  BY <1>2 DEF SetState, T!SetStatus
<1>3. ASSUME NEW c \in Calls, RevokeMark(c) PROVE T!Next \/ UNCHANGED agent
  BY <1>3 DEF RevokeMark, T!SetStatus
<1>4. ASSUME NEW c \in Calls, DeleteRow(c) PROVE T!Next \/ UNCHANGED agent
  BY <1>4 DEF DeleteRow, T!Delete
<1>5. ASSUME NEW c \in Calls, SetVarWrite(c) PROVE T!Next \/ UNCHANGED agent
  <2>1. agent # None /\ copy[c] = agent.vars /\ todo[c] \subseteq Keys
    BY <1>5 DEF SetVarWrite, Typed, LocalsOK, DataOK, VarWrites
  <2>2. ASSUME NEW k \in todo[c], agent' = WithVars([copy[c] EXCEPT ![k] = c])
        PROVE  T!SetVar(k, c)
    BY <2>1, <2>2, <1>r DEF WithVars, T!SetVar, Rows
  <2> QED BY <1>5, <2>1, <2>2 DEF SetVarWrite
<1>6. ASSUME NEW c \in Calls, DeleteVarWrite(c) PROVE T!Next \/ UNCHANGED agent
  <2>1. agent # None /\ copy[c] = agent.vars /\ todo[c] \subseteq Keys
    BY <1>6 DEF DeleteVarWrite, Typed, LocalsOK, DataOK, VarWrites
  <2>2. ASSUME NEW k \in todo[c], agent' = WithVars([copy[c] EXCEPT ![k] = None])
        PROVE  T!SetVar(k, None)
    BY <2>1, <2>2, <1>r DEF WithVars, T!SetVar, Rows
  <2> QED BY <1>6, <2>1, <2>2 DEF DeleteVarWrite
<1>7. ASSUME NEW c \in Calls, UpdateTokenJTI(c) PROVE T!Next \/ UNCHANGED agent
  BY <1>7 DEF UpdateTokenJTI, T!SetJti, Jtis
<1>8. ASSUME NEW c \in Calls, EnrolRow(c) PROVE T!Next \/ UNCHANGED agent
  BY <1>8 DEF EnrolRow, NewRow, T!Register, T!Fresh, Jtis
<1>9. ASSUME NEW c \in Calls, Arrive(c) \/ Serve(c) PROVE T!Next \/ UNCHANGED agent
  BY <1>9, <1>1, <1>2, <1>3, <1>4, <1>5, <1>6, <1>7, <1>8, RowFrame
     DEF RekeyUpdate, RefreshUpdate
<1> QED BY <1>9, RowFrame DEF Next, vars, adminVars

\* The two statements by which a variable is set or removed act on the row as
\* one, because dbMu is kept between them: no handler undoes or revives what
\* another wrote, and the row always is what one handler at a time makes of it.
THEOREM RowIsAtomic == Spec => TableIsAtomic
<1>1. Init => T!Init
  BY DEF Init, T!Init, NewRow, T!Fresh, Jtis
<1>2. Typed /\ [Next]_vars => [T!Next]_agent
  BY RowSteps
<1> QED BY <1>1, <1>2, TypeInvariant, PTL DEF Spec, TableIsAtomic, T!Spec

-----------------------------------------------------------------------------
(* Plugin tokens                                                           *)

\* A handler that has nothing to do with a token moves.
Elsewhen(c) ==
  /\ UNCHANGED tokenVars
  /\ pc[c] \notin {"lookup", "check", "touch", "done"}
  /\ \/ \E label \in Points \ {"idle"} : Goto(c, label)
     \/ \E r \in Replies : Answer(c, r)

LEMMA TokenFrame ==
  /\ \A c \in Calls :
       /\ Arrive(c) => \/ PluginCall(c) \/ AdminCreateToken(c) \/ AdminRevokeToken(c)
                       \/ DeleteEnrollmentToken(c) \/ Elsewhen(c)
       /\ Serve(c) => TokenStep(c) \/ Elsewhen(c)
  /\ Connect \/ ReadRekey \/ LoseConnection => UNCHANGED <<callVars, tokenVars>>
  /\ Time => UNCHANGED <<callVars, tokenVars>> \/ \E t \in Tokens : TokenExpires(t)
<1> USE Strings DEF Elsewhen
<1>1. ASSUME NEW c \in Calls, Arrive(c)
      PROVE  \/ PluginCall(c) \/ AdminCreateToken(c) \/ AdminRevokeToken(c)
             \/ DeleteEnrollmentToken(c) \/ Elsewhen(c)
  <2>1. CASE RevokeGet(c) \/ DeleteGet(c) \/ SetSuspended(c) \/ SetState(c) \/ PurgeBlacklist(c)
    BY <2>1 DEF RevokeGet, DeleteGet, SetSuspended, SetState, PurgeBlacklist
  <2>2. CASE SetVarsCall(c) \/ DeleteVarRead(c) \/ RekeyGet(c) \/ RefreshGet(c) \/ EnrolStart(c)
    BY <2>2 DEF SetVarsCall, DeleteVarRead, RekeyGet, RefreshGet, EnrolStart
  <2>3. CASE InventoryCall(c) \/ AdminInventoryCall(c) \/ ListCall(c)
    BY <2>3 DEF InventoryCall, AdminInventoryCall, ListCall
  <2> QED BY <1>1, <2>1, <2>2, <2>3 DEF Arrive
<1>2. ASSUME NEW c \in Calls, Serve(c)
      PROVE  TokenStep(c) \/ Elsewhen(c)
  <2>1. CASE RevokeBlacklist(c) \/ RevokeClose(c) \/ RevokeMark(c) \/ DeleteClose(c) \/ DeleteRow(c)
    BY <2>1 DEF RevokeBlacklist, RevokeClose, RevokeMark, DeleteClose, DeleteRow, Close
  <2>2. CASE SetVarRead(c) \/ SetVarWrite(c) \/ DeleteVarWrite(c)
    BY <2>2 DEF SetVarRead, SetVarWrite, DeleteVarWrite
  <2>3. CASE RekeyUpdate(c) \/ RekeySend(c) \/ RefreshUpdate(c) \/ RefreshAnswer(c)
    BY <2>3 DEF RekeyUpdate, RekeySend, RefreshUpdate, RefreshAnswer, AnswerJWT
  <2>4. CASE EnrolRow(c) \/ EnrolAnswer(c)
    BY <2>4 DEF EnrolRow, EnrolAnswer, AnswerJWT
  <2>5. CASE InventoryRegistry(c) \/ InventoryTable(c) \/ ListTable(c) \/ ListRegistry(c)
    BY <2>5 DEF InventoryRegistry, InventoryTable, ListTable, ListRegistry
  <2> QED BY <1>2, <2>1, <2>2, <2>3, <2>4, <2>5 DEF Serve
<1>3. Connect \/ ReadRekey \/ LoseConnection => UNCHANGED <<callVars, tokenVars>>
  BY DEF Connect, ReadRekey, LoseConnection
<1>4. Time => UNCHANGED <<callVars, tokenVars>> \/ \E t \in Tokens : TokenExpires(t)
  BY DEF Time, EntryOverdue
<1> QED BY <1>1, <1>2, <1>3, <1>4

\* What a call whose token was of no use on arrival can do: look its row up,
\* find it expired, and be refused.
HopelessInv ==
  /\ \A c \in Calls : pc[c] = "idle" => reply[c] = "none" /\ c \notin hopeless
  /\ \A c \in hopeless :
       /\ request[c] \in Tokens
       /\ Useless(request[c])
       /\ pc[c] \in {"lookup", "check", "done"}
       /\ pc[c] = "check" => request[c] \in lapsed
       /\ reply[c] \in {"none", "refused", "error"}
  /\ \A t \in Tokens : lastUse[t] # None =>
       pc[lastUse[t]] # "idle" /\ lastUse[t] \notin hopeless

LEMMA HopelessStep ==
  ASSUME TypeOK, HopelessInv, [Next]_vars
  PROVE  HopelessInv'
<1> USE DEF HopelessInv, Useless, tokenVars
<1>t. /\ pc \in [Calls -> Points] /\ reply \in [Calls -> Replies] /\ TokenTypeOK
  BY DEF TypeOK
<1> USE <1>t DEF TokenTypeOK
<1>0. CASE UNCHANGED <<callVars, tokenVars>>
  BY <1>0 DEF callVars
<1>1. ASSUME NEW c \in Calls, PluginCall(c) PROVE HopelessInv'
  <2>1. PICK t \in Tokens : /\ tokens[t] # "absent"
                            /\ request' = [request EXCEPT ![c] = t]
                            /\ hopeless' = IF Useless(t) THEN hopeless \cup {c} ELSE hopeless
    BY <1>1 DEF PluginCall
  <2>2. /\ pc[c] = "idle" /\ pc' = [pc EXCEPT ![c] = "lookup"]
        /\ UNCHANGED <<reply, tokens, lapsed, lastUse>>
    BY <1>1 DEF PluginCall, Goto
  <2>3. \A d \in Calls : d # c => (d \in hopeless' <=> d \in hopeless) /\ request'[d] = request[d]
                                  /\ pc'[d] = pc[d]
    BY <2>1, <2>2
  <2>4. c \in hopeless' => Useless(t) /\ request'[c] = t
    BY <2>1, <2>2
  <2> QED BY <2>1, <2>2, <2>3, <2>4
<1>2. ASSUME NEW c \in Calls, LookupToken(c) PROVE HopelessInv'
  BY <1>2 DEF LookupToken, Goto, Answer
<1>3. ASSUME NEW c \in Calls, CheckToken(c) PROVE HopelessInv'
  BY <1>3 DEF CheckToken, Goto, Answer
<1>4. ASSUME NEW c \in Calls, TouchToken(c) PROVE HopelessInv'
  <2>1. c \notin hopeless
    BY <1>4 DEF TouchToken
  <2> QED BY <1>4, <2>1 DEF TouchToken, Goto
<1>5. ASSUME NEW c \in Calls, AdminCreateToken(c) PROVE HopelessInv'
  BY <1>5 DEF AdminCreateToken, Answer
<1>6. ASSUME NEW c \in Calls, AdminRevokeToken(c) PROVE HopelessInv'
  BY <1>6 DEF AdminRevokeToken, Answer
<1>7. ASSUME NEW c \in Calls, DeleteEnrollmentToken(c) PROVE HopelessInv'
  BY <1>7 DEF DeleteEnrollmentToken, Goto, Answer
<1>8. ASSUME NEW c \in Calls, DeletePluginToken(c) PROVE HopelessInv'
  BY <1>8 DEF DeletePluginToken, Answer
<1>9. ASSUME NEW c \in Calls, Elsewhen(c) PROVE HopelessInv'
  <2>1. /\ c \notin hopeless /\ UNCHANGED tokenVars
        /\ pc' \in [Calls -> Points] /\ pc'[c] # "idle"
        /\ \A d \in Calls \ {c} : pc'[d] = pc[d] /\ reply'[d] = reply[d]
    BY <1>9, Strings DEF Elsewhen, Goto, Answer
  <2> QED BY <2>1
<1>10. ASSUME NEW t \in Tokens, TokenExpires(t) PROVE HopelessInv'
  BY <1>10 DEF TokenExpires, callVars
<1> QED
  BY <1>0, <1>1, <1>2, <1>3, <1>4, <1>5, <1>6, <1>7, <1>8, <1>9, <1>10, TokenFrame
     DEF Next, TokenStep, vars

\* A request whose token was revoked, deleted or expired on arrival goes no
\* further than the lookup and the check of the expiry of the row it read, and
\* leaves no trace in last_used_at.
THEOREM UselessTokensAreRefused == Spec => []AdmittedWasValid
<1>1. Init => HopelessInv
  BY DEF Init, TokenInit, HopelessInv
<1>2. TypeOK /\ HopelessInv /\ [Next]_vars => HopelessInv'
  BY HopelessStep
<1>3. TypeOK /\ HopelessInv => AdmittedWasValid
  BY DEF HopelessInv, AdmittedWasValid, TypeOK, TokenTypeOK
<1> QED BY <1>1, <1>2, <1>3, TypeCorrect, PTL DEF Spec

-----------------------------------------------------------------------------
(* Lives of the row                                                        *)

\* A step that neither inserts nor deletes the row, and tells nobody that it was
\* deleted.
Ordinary ==
  /\ UNCHANGED <<lives, buried>>
  /\ agent = None <=> agent' = None
  /\ \/ UNCHANGED callVars
     \/ \E c \in Calls :
          /\ pc[c] # "done"
          /\ \/ \E label \in Points \ {"idle"} : Goto(c, label)
             \/ \E r \in Replies \ {"deleted"} : Answer(c, r)

LEMMA Removals ==
  ASSUME Typed, NEW c \in Calls
  PROVE  /\ SetSuspended(c) \/ SetState(c) \/ RevokeMark(c) \/ SetVarWrite(c) \/ DeleteVarWrite(c)
            => (agent = None <=> agent' = None)
         /\ UpdateTokenJTI(c) => (agent = None <=> agent' = None)
<1>1. agent # None => agent \in Rows
  BY DEF Typed, DataOK
<1>2. agent # None => /\ \A b \in BOOLEAN : [agent EXCEPT !.suspended = b] # None
                      /\ \A s \in {"connected", "disconnected"} : [agent EXCEPT !.status = s] # None
                      /\ \A j \in Jtis : [agent EXCEPT !.jti = j] # None
                      /\ \A d \in Documents : [agent EXCEPT !.vars = d] # None
  <2>1. ASSUME agent \in Rows
        PROVE  /\ \A b \in BOOLEAN : [agent EXCEPT !.suspended = b] \in Rows
               /\ \A s \in {"connected", "disconnected"} : [agent EXCEPT !.status = s] \in Rows
               /\ \A j \in Jtis : [agent EXCEPT !.jti = j] \in Rows
               /\ \A d \in Documents : [agent EXCEPT !.vars = d] \in Rows
    BY <2>1, RowTypes, Zenon
  <2> QED BY <1>1, <2>1
<1>3. ASSUME agent # None, \E b \in BOOLEAN : agent' = [agent EXCEPT !.suspended = b]
      PROVE  agent' # None
  BY <1>1, <1>3, RowStep
<1>4. SetSuspended(c) => (agent = None <=> agent' = None)
  BY <1>3 DEF SetSuspended
<1>5. SetState(c) \/ RevokeMark(c) => (agent = None <=> agent' = None)
  BY <1>2 DEF SetState, RevokeMark
<1>6. UpdateTokenJTI(c) => (agent = None <=> agent' = None)
  BY <1>2 DEF UpdateTokenJTI, Jtis
<1>7. ASSUME pc[c] \in VarWrites
      PROVE  \A k \in todo[c] : /\ [copy[c] EXCEPT ![k] = c] \in Documents
                                /\ [copy[c] EXCEPT ![k] = None] \in Documents
  <2>1. copy[c] \in Documents /\ todo[c] \subseteq Keys
    BY <1>7, RowTypes DEF Typed, LocalsOK, DataOK
  <2> QED BY <2>1, DocumentTypes
<1>8. SetVarWrite(c) \/ DeleteVarWrite(c) => (agent = None <=> agent' = None)
  BY <1>2, <1>7 DEF SetVarWrite, DeleteVarWrite, VarWrites, WithVars
<1> QED BY <1>4, <1>5, <1>6, <1>8

LEMMA LifeFrame ==
  ASSUME Typed, [Next]_vars
  PROVE  Ordinary \/ \E c \in Calls : DeleteRow(c) \/ EnrolRow(c)
<1> USE Strings DEF Ordinary, adminVars, lifeVars
<1>1. ASSUME NEW c \in Calls, Arrive(c) PROVE Ordinary
  <2>1. CASE RevokeGet(c) \/ DeleteGet(c) \/ PurgeBlacklist(c)
    BY <2>1 DEF RevokeGet, DeleteGet, PurgeBlacklist
  <2>2. CASE SetSuspended(c) \/ SetState(c)
    BY <2>2, Removals DEF SetSuspended, SetState
  <2>3. CASE SetVarsCall(c) \/ DeleteVarRead(c) \/ RekeyGet(c) \/ RefreshGet(c) \/ EnrolStart(c)
    BY <2>3 DEF SetVarsCall, DeleteVarRead, RekeyGet, RefreshGet, EnrolStart
  <2>4. CASE InventoryCall(c) \/ AdminInventoryCall(c) \/ ListCall(c)
    BY <2>4 DEF InventoryCall, PluginCall, AdminInventoryCall, ListCall
  <2>5. CASE Elsewhere /\ (AdminCreateToken(c) \/ AdminRevokeToken(c) \/ DeleteEnrollmentToken(c))
    BY <2>5 DEF Elsewhere, AdminCreateToken, AdminRevokeToken, DeleteEnrollmentToken
  <2> QED BY <1>1, <2>1, <2>2, <2>3, <2>4, <2>5 DEF Arrive
<1>2. ASSUME NEW c \in Calls, Serve(c), ~DeleteRow(c), ~EnrolRow(c) PROVE Ordinary
  <2>1. CASE RevokeBlacklist(c) \/ RevokeClose(c) \/ DeleteClose(c)
    BY <2>1 DEF RevokeBlacklist, RevokeClose, DeleteClose, Close
  <2>2. CASE RevokeMark(c) \/ SetVarWrite(c) \/ DeleteVarWrite(c)
    BY <2>2, Removals DEF RevokeMark, SetVarWrite, DeleteVarWrite
  <2>3. CASE SetVarRead(c)
    BY <2>3 DEF SetVarRead
  <2>4. CASE RekeyUpdate(c) \/ RefreshUpdate(c)
    BY <2>4, Removals DEF RekeyUpdate, RefreshUpdate
  <2>5. CASE RekeySend(c) \/ RefreshAnswer(c) \/ EnrolAnswer(c)
    BY <2>5 DEF RekeySend, RefreshAnswer, EnrolAnswer, AnswerJWT
  <2>6. CASE InventoryRegistry(c) \/ InventoryTable(c) \/ ListTable(c) \/ ListRegistry(c)
    BY <2>6 DEF InventoryRegistry, InventoryTable, ListTable, ListRegistry
  <2>7. CASE Elsewhere /\ TokenStep(c)
    BY <2>7 DEF Elsewhere, TokenStep, LookupToken, CheckToken, TouchToken, DeletePluginToken
  <2> QED BY <1>2, <2>1, <2>2, <2>3, <2>4, <2>5, <2>6, <2>7 DEF Serve
<1>3. Connect \/ ReadRekey \/ LoseConnection => Ordinary
  BY DEF Connect, ReadRekey, LoseConnection
<1>4. Time => Ordinary
  BY DEF Time, TokenExpires, Elsewhere, EntryOverdue
<1>5. UNCHANGED vars => Ordinary
  BY DEF vars
<1> QED BY <1>1, <1>2, <1>3, <1>4, <1>5 DEF Next

\* Every call that was told of a deletion, and the row that is there, stand for
\* one life of the row each; a call answers once.
LivesInv ==
  /\ \A c \in Calls : pc[c] # "done" => reply[c] = "none"
  /\ DeletedOnce

LEMMA LivesStep ==
  ASSUME Typed, LivesInv, [Next]_vars
  PROVE  LivesInv'
<1> DEFINE Told == {c \in Calls : reply[c] = "deleted"}
<1>t. pc \in [Calls -> Points] /\ reply \in [Calls -> Replies] /\ lives \in Nat
  BY DEF Typed, ControlOK, DataOK
<1>f. IsFiniteSet(Told) /\ Cardinality(Told) \in Nat
  BY FS_Subset, FS_CardinalityType
<1>1. ASSUME Ordinary PROVE LivesInv'
  <2>1. Told' = Told /\ \A c \in Calls : pc'[c] # "done" => reply'[c] = "none"
    <3>1. CASE UNCHANGED callVars
      BY <3>1 DEF callVars, LivesInv
    <3>2. ASSUME NEW c \in Calls, pc[c] # "done",
                 \/ \E label \in Points \ {"idle"} : Goto(c, label)
                 \/ \E r \in Replies \ {"deleted"} : Answer(c, r)
          PROVE  Told' = Told /\ \A d \in Calls : pc'[d] # "done" => reply'[d] = "none"
      <4>1. /\ reply[c] = "none" /\ reply'[c] # "deleted"
            /\ \A d \in Calls \ {c} : reply'[d] = reply[d] /\ pc'[d] = pc[d]
            /\ pc'[c] # "done" => reply'[c] = "none"
        BY <3>2, <1>t, Strings DEF LivesInv, Goto, Answer
      <4> QED BY <4>1 DEF LivesInv
    <3> QED BY <1>1, <3>1, <3>2 DEF Ordinary
  <2>2. UNCHANGED lives /\ (agent = None <=> agent' = None)
    BY <1>1 DEF Ordinary
  <2> QED BY <2>1, <2>2 DEF LivesInv, DeletedOnce
<1>2. ASSUME NEW c \in Calls, DeleteRow(c) PROVE LivesInv'
  <2>1. pc[c] # "done" /\ reply[c] = "none"
    BY <1>2 DEF DeleteRow, LivesInv
  <2>2. \A d \in Calls : pc'[d] # "done" => reply'[d] = "none"
    BY <1>2, <1>t DEF DeleteRow, Answer, LivesInv
  <2>3. CASE agent # None /\ agent' = None /\ Answer(c, "deleted")
    <3>1. Told' = Told \cup {c} /\ c \notin Told
      BY <2>3, <2>1, <1>t DEF Answer
    <3>2. Cardinality(Told') = Cardinality(Told) + 1
      BY <3>1, <1>f, FS_AddElement
    <3>3. lives' = lives
      BY <1>2 DEF DeleteRow
    <3> QED BY <2>2, <2>3, <3>2, <3>3, <1>f DEF LivesInv, DeletedOnce
  <2>4. CASE UNCHANGED agent /\ (Answer(c, "not_found") \/ Answer(c, "error"))
    <3>1. Told' = Told
      BY <2>4, <2>1, <1>t DEF Answer
    <3>2. lives' = lives
      BY <1>2 DEF DeleteRow
    <3> QED BY <2>2, <2>4, <3>1, <3>2 DEF LivesInv, DeletedOnce
  <2> QED BY <1>2, <2>3, <2>4 DEF DeleteRow
<1>3. ASSUME NEW c \in Calls, EnrolRow(c) PROVE LivesInv'
  <2>1. pc[c] # "done" /\ reply[c] = "none"
    BY <1>3 DEF EnrolRow, LivesInv
  <2>2. \A d \in Calls : pc'[d] # "done" => reply'[d] = "none"
    BY <1>3, <1>t DEF EnrolRow, Answer, Goto, LivesInv
  <2>3. Told' = Told
    BY <1>3, <2>1, <1>t DEF EnrolRow, Answer, Goto
  <2>4. agent # None => agent \in Rows
    BY DEF Typed, DataOK
  <2>5. CASE Answer(c, "error") /\ UNCHANGED <<agent, lives>>
    BY <2>2, <2>3, <2>5 DEF LivesInv, DeletedOnce
  <2>6. CASE /\ agent' = IF agent = None THEN NewRow(c) ELSE [agent EXCEPT !.jti = c]
             /\ lives' = IF agent = None THEN lives + 1 ELSE lives
    <3>1. agent' # None
      BY <2>6, <2>4, RowTypes, RowStep DEF Jtis
    <3>2. Cardinality(Told) + (IF agent = None THEN 0 ELSE 1) = lives
      BY DEF LivesInv, DeletedOnce
    <3>3. Cardinality(Told) + 1 = lives'
      BY <3>2, <2>6, <1>f, <1>t
    <3>4. Cardinality(Told') + (IF agent' = None THEN 0 ELSE 1) = lives'
      BY <2>3, <3>1, <3>3
    <3> QED BY <2>2, <3>4 DEF LivesInv, DeletedOnce
  <2> QED BY <1>3, <2>5, <2>6 DEF EnrolRow, lifeVars
<1> QED BY <1>1, <1>2, <1>3, LifeFrame

\* host.deleted is dispatched, and 200 answered, exactly as often as the row
\* was inserted and is gone, for any number of administrators and enrolments
\* at once.
THEOREM DeletionIsToldOnce == Spec => []DeletedOnce
<1>1. Init => LivesInv
  <2> SUFFICES ASSUME Init PROVE LivesInv
    OBVIOUS
  <2>1. {c \in Calls : reply[c] = "deleted"} = {}
    BY DEF Init
  <2>2. Cardinality({}) = 0
    BY FS_EmptySet
  <2>3. (agent = None /\ lives = 0) \/ (agent # None /\ lives = 1)
    BY RowTypes DEF Init, Jtis
  <2>4. Cardinality({c \in Calls : reply[c] = "deleted"}) = 0
    BY <2>1, <2>2
  <2>5. (IF agent = None THEN 0 ELSE 1) = lives
    BY <2>3
  <2>6. DeletedOnce
    BY <2>4, <2>5, <2>3 DEF DeletedOnce
  <2>7. \A c \in Calls : reply[c] = "none"
    BY DEF Init
  <2> QED BY <2>6, <2>7 DEF LivesInv
<1>2. Typed /\ LivesInv /\ [Next]_vars => LivesInv'
  BY LivesStep
<1>3. LivesInv => DeletedOnce
  BY DEF LivesInv
<1> QED BY <1>1, <1>2, <1>3, TypeInvariant, PTL DEF Spec

-----------------------------------------------------------------------------
(* Deleted agents and the listings                                         *)

\* A deleted row stays away until an enrolment, so a listing that arrived since
\* the deletion was told can find none, whatever the registry says.
LateInv ==
  /\ buried => agent = None
  /\ \A c \in late : buried /\ ~shown[c]
  /\ \A c \in Calls : pc[c] = "idle" => ~shown[c]

Arrival(c) == InventoryCall(c) \/ AdminInventoryCall(c) \/ ListCall(c)
Listing(c) == InventoryTable(c) \/ ListTable(c)

LEMMA ListFrame ==
  ASSUME [Next]_vars
  PROVE  \/ UNCHANGED <<shown, late>>
         \/ \E c \in Calls : EnrolRow(c) \/ Arrival(c) \/ Listing(c)
<1> USE DEF Arrival, Listing, localVars, lifeVars, Elsewhere
<1>1. ASSUME NEW c \in Calls, Arrive(c), ~Arrival(c) PROVE UNCHANGED <<shown, late>>
  BY <1>1 DEF Arrive, RevokeGet, DeleteGet, SetSuspended, SetState, PurgeBlacklist, SetVarsCall,
     DeleteVarRead, RekeyGet, RefreshGet, EnrolStart
<1>2. ASSUME NEW c \in Calls, Serve(c), ~EnrolRow(c), ~Listing(c) PROVE UNCHANGED <<shown, late>>
  BY <1>2 DEF Serve, RevokeBlacklist, RevokeClose, RevokeMark, DeleteClose, DeleteRow, Close,
     SetVarRead, SetVarWrite, DeleteVarWrite, RekeyUpdate, RekeySend, RefreshUpdate, RefreshAnswer,
     EnrolAnswer, AnswerJWT, InventoryRegistry, ListRegistry
<1>3. Connect \/ ReadRekey \/ LoseConnection \/ Time => UNCHANGED <<shown, late>>
  BY DEF Connect, ReadRekey, LoseConnection, Time, EntryOverdue
<1> QED BY <1>1, <1>2, <1>3 DEF Next, vars

LEMMA LateStep ==
  ASSUME Typed, LateInv, [Next]_vars
  PROVE  LateInv'
<1> USE Strings
<1>t. pc \in [Calls -> Points] /\ shown \in [Calls -> BOOLEAN] /\ late \subseteq Calls
  BY DEF Typed, ControlOK, DataOK, LocalsOK
<1>p. \A c \in Calls : pc'[c] = "idle" => pc[c] = "idle"
  <2>1. CASE Ordinary
    BY <2>1, <1>t DEF Ordinary, Goto, Answer, callVars
  <2>2. ASSUME NEW c \in Calls, DeleteRow(c) \/ EnrolRow(c)
        PROVE  \A d \in Calls : pc'[d] = "idle" => pc[d] = "idle"
    BY <2>2, <1>t DEF DeleteRow, EnrolRow, Goto, Answer
  <2> QED BY <2>1, <2>2, LifeFrame
<1>1. ASSUME NEW c \in Calls, EnrolRow(c) PROVE LateInv'
  <2>1. CASE Goto(c, "en_answer") /\ late' = {} /\ buried' = FALSE
    BY <1>1, <1>p, <2>1 DEF EnrolRow, LateInv, localVars
  <2>2. CASE Answer(c, "error") /\ UNCHANGED <<agent, lifeVars>>
    BY <1>1, <1>p, <2>2 DEF EnrolRow, LateInv, localVars, lifeVars
  <2> QED BY <1>1, <2>1, <2>2 DEF EnrolRow
<1>2. ASSUME NEW c \in Calls, Arrival(c) PROVE LateInv'
  <2>1. /\ pc[c] = "idle" /\ late' \subseteq late \cup {c} /\ (late' # late => buried)
        /\ UNCHANGED <<agent, shown, buried>>
    BY <1>2 DEF Arrival, InventoryCall, PluginCall, AdminInventoryCall, ListCall, Arrived,
       localVars, adminVars
  <2> QED BY <2>1, <1>p, <1>t DEF LateInv
<1>3. ASSUME NEW c \in Calls, Listing(c) PROVE LateInv'
  <2>1. /\ pc[c] # "idle" /\ pc'[c] # "idle"
        /\ UNCHANGED <<agent, buried, late>>
        /\ \A d \in Calls \ {c} : shown'[d] = shown[d]
        /\ shown'[c] # shown[c] => agent # None \/ shown'[c] = FALSE
    BY <1>3, <1>t DEF Listing, InventoryTable, ListTable, Goto, Answer, adminVars, lifeVars
  <2> QED BY <2>1, <1>p, <1>t DEF LateInv
<1>4. ASSUME UNCHANGED <<shown, late>> PROVE LateInv'
  <2>1. CASE Ordinary
    BY <1>4, <2>1, <1>p DEF Ordinary, LateInv
  <2>2. ASSUME NEW c \in Calls, DeleteRow(c) PROVE LateInv'
    BY <1>4, <2>2, <1>p DEF DeleteRow, LateInv, lifeVars
  <2> QED BY <2>1, <2>2, <1>1, LifeFrame
<1> QED BY <1>1, <1>2, <1>3, <1>4, ListFrame

\* An agent whose deletion was answered is in no listing of any plugin or
\* administrator that comes later, until it enrols again.
THEOREM DeletedStaysUnlisted == Spec => []DeletedIsNotListed
<1>1. Init => LateInv
  BY DEF Init, LateInv
<1>2. Typed /\ LateInv /\ [Next]_vars => LateInv'
  BY LateStep
<1>3. LateInv => DeletedIsNotListed
  BY DEF LateInv, DeletedIsNotListed
<1> QED BY <1>1, <1>2, <1>3, TypeInvariant, PTL DEF Spec

-----------------------------------------------------------------------------
(* The JWT of the agent, its JTI on file, and revocations                  *)

Sending == {"rk_send", "rf_answer", "en_answer"}

\* Where the JWTs on their way are.
FlightInv ==
  /\ \A c \in Calls : pc[c] \in Sending => c \in flight
  /\ \A i \in 1..Len(inbox) : inbox[i] \in flight /\ pc[inbox[i]] = "done"
  /\ \A i, k \in 1..Len(inbox) : inbox[i] = inbox[k] => i = k

\* What the history says of the JTI on file.
HolderInv ==
  /\ FlightInv
  /\ clean # None => flight = {clean} /\ (agent # None => agent.jti = clean)
  /\ ~astray => flight = {} \/ clean # None
  /\ HolderIsCurrent

\* The JTI on file stays, or goes with the row.
JtiKept == agent' = None \/ (agent # None /\ agent' # None /\ agent'.jti = agent.jti)

\* A step that has nothing to do with a JWT.
Aside ==
  /\ UNCHANGED <<inbox, held, flight, clean, astray>>
  /\ JtiKept
  /\ \/ UNCHANGED callVars
     \/ \E c \in Calls :
          /\ pc[c] # "done"
          /\ \/ \E label \in Points \ Sending : Goto(c, label)
             \/ \E r \in Replies : Answer(c, r)

\* A step that files a JTI, or sends a JWT, or ends its way.
Delivery ==
  \/ \E c \in Calls : \/ RekeyUpdate(c) \/ RefreshUpdate(c) \/ EnrolRow(c)
                      \/ RekeySend(c) \/ RefreshAnswer(c) \/ EnrolAnswer(c)
  \/ ReadRekey \/ LoseConnection

LEMMA OtherColumns ==
  ASSUME Typed, NEW c \in Calls,
         SetSuspended(c) \/ SetState(c) \/ RevokeMark(c) \/ SetVarWrite(c) \/ DeleteVarWrite(c)
  PROVE  JtiKept
<1>1. agent # None => agent \in Rows
  BY DEF Typed, DataOK
<1>2. ASSUME agent \in Rows
      PROVE  /\ \A b \in BOOLEAN : [agent EXCEPT !.suspended = b] # None
                                   /\ [agent EXCEPT !.suspended = b].jti = agent.jti
             /\ \A s \in {"connected", "disconnected"} : [agent EXCEPT !.status = s] # None
                                   /\ [agent EXCEPT !.status = s].jti = agent.jti
             /\ \A d : [agent EXCEPT !.vars = d].jti = agent.jti
  <2>1. \A b \in BOOLEAN : [agent EXCEPT !.suspended = b] # None
    BY <1>2, RowTypes
  <2>2. \A s \in {"connected", "disconnected"} : [agent EXCEPT !.status = s] # None
    BY <1>2, RowTypes
  <2> QED BY <1>2, <2>1, <2>2 DEF Rows
<1>3. CASE SetSuspended(c)
  <2>1. CASE agent # None /\ \E b \in BOOLEAN : agent' = [agent EXCEPT !.suspended = b]
    <3>1. PICK b \in BOOLEAN : agent' = [agent EXCEPT !.suspended = b]
      BY <2>1
    <3> QED BY <2>1, <3>1, <1>1, <1>2 DEF JtiKept
  <2> QED BY <1>3, <2>1 DEF SetSuspended, JtiKept
<1>4. CASE SetState(c)
  BY <1>4, <1>1, <1>2 DEF SetState, JtiKept
<1>5. CASE RevokeMark(c)
  BY <1>5, <1>1, <1>2 DEF RevokeMark, JtiKept
<1>6. CASE SetVarWrite(c) \/ DeleteVarWrite(c)
  BY <1>6, <1>1, <1>2, Removals DEF SetVarWrite, DeleteVarWrite, WithVars, JtiKept
<1> QED BY <1>3, <1>4, <1>5, <1>6

LEMMA DeliveryFrame ==
  ASSUME Typed, [Next]_vars
  PROVE  Aside \/ Delivery
<1> USE Strings DEF Sending, Aside, adminVars, linkVars, issueVars, Elsewhere
<1>k. UNCHANGED agent => JtiKept
  BY DEF JtiKept
<1>1. ASSUME NEW c \in Calls, Arrive(c) PROVE Aside
  <2>1. CASE RevokeGet(c) \/ DeleteGet(c) \/ PurgeBlacklist(c)
    BY <2>1, <1>k DEF RevokeGet, DeleteGet, PurgeBlacklist
  <2>2. CASE SetSuspended(c) \/ SetState(c)
    BY <2>2, OtherColumns DEF SetSuspended, SetState
  <2>3. CASE SetVarsCall(c) \/ DeleteVarRead(c) \/ RekeyGet(c) \/ RefreshGet(c) \/ EnrolStart(c)
    BY <2>3, <1>k DEF SetVarsCall, DeleteVarRead, RekeyGet, RefreshGet, EnrolStart
  <2>4. CASE InventoryCall(c) \/ AdminInventoryCall(c) \/ ListCall(c)
    BY <2>4, <1>k DEF InventoryCall, PluginCall, AdminInventoryCall, ListCall
  <2>5. CASE Elsewhere /\ (AdminCreateToken(c) \/ AdminRevokeToken(c) \/ DeleteEnrollmentToken(c))
    BY <2>5, <1>k DEF AdminCreateToken, AdminRevokeToken, DeleteEnrollmentToken
  <2> QED BY <1>1, <2>1, <2>2, <2>3, <2>4, <2>5 DEF Arrive
<1>2. ASSUME NEW c \in Calls, Serve(c), ~Delivery PROVE Aside
  <2>1. CASE RevokeBlacklist(c) \/ RevokeClose(c) \/ DeleteClose(c)
    BY <2>1, <1>k DEF RevokeBlacklist, RevokeClose, DeleteClose, Close
  <2>2. CASE RevokeMark(c) \/ SetVarWrite(c) \/ DeleteVarWrite(c)
    BY <2>2, OtherColumns DEF RevokeMark, SetVarWrite, DeleteVarWrite
  <2>3. CASE SetVarRead(c)
    BY <2>3, <1>k DEF SetVarRead
  <2>4. CASE DeleteRow(c)
    BY <2>4, <1>k DEF DeleteRow, JtiKept
  <2>6. CASE InventoryRegistry(c) \/ InventoryTable(c) \/ ListTable(c) \/ ListRegistry(c)
    BY <2>6, <1>k DEF InventoryRegistry, InventoryTable, ListTable, ListRegistry
  <2>7. CASE Elsewhere /\ TokenStep(c)
    BY <2>7, <1>k DEF TokenStep, LookupToken, CheckToken, TouchToken, DeletePluginToken
  <2> QED BY <1>2, <2>1, <2>2, <2>3, <2>4, <2>6, <2>7 DEF Serve, Delivery
<1>3. Connect => Aside
  BY <1>k DEF Connect
<1>4. Time => Aside
  BY <1>k DEF Time, TokenExpires, EntryOverdue
<1>5. UNCHANGED vars => Aside
  BY <1>k DEF vars
<1> QED BY <1>1, <1>2, <1>3, <1>4, <1>5 DEF Next, Delivery

LEMMA HolderStep ==
  ASSUME Typed, HolderInv, [Next]_vars
  PROVE  HolderInv'
<1> USE Strings DEF Sending, linkVars, issueVars
<1>t. /\ pc \in [Calls -> Points] /\ inbox \in Seq(Calls) /\ flight \subseteq Calls
      /\ agent # None => agent \in Rows
  BY DEF Typed, ControlOK, DataOK
<1>1. ASSUME Aside PROVE HolderInv'
  <2>1. FlightInv'
    <3>1. CASE UNCHANGED callVars
      BY <1>1, <3>1 DEF Aside, callVars, HolderInv, FlightInv
    <3>2. ASSUME NEW c \in Calls, pc[c] # "done",
                 \/ \E label \in Points \ Sending : Goto(c, label)
                 \/ \E r \in Replies : Answer(c, r)
          PROVE  FlightInv'
      <4>1. /\ \A d \in Calls \ {c} : pc'[d] = pc[d]
            /\ pc'[c] \notin Sending
        BY <3>2, <1>t DEF Goto, Answer
      <4>2. \A i \in 1..Len(inbox) : inbox[i] \in Calls \ {c}
        BY <3>2, <1>t DEF HolderInv, FlightInv
      <4> QED BY <4>1, <4>2, <1>1 DEF Aside, HolderInv, FlightInv
    <3> QED BY <1>1, <3>1, <3>2 DEF Aside
  <2> QED BY <2>1, <1>1 DEF Aside, JtiKept, HolderInv, HolderIsCurrent
<1>2. ASSUME NEW c \in Calls, pc[c] # "done", Goto(c, "rk_send") \/ Goto(c, "rf_answer") \/ Goto(c, "en_answer"),
             (Issue(c) /\ (agent' = None \/ agent'.jti = c)) \/ IssueUnfiled(c), UNCHANGED <<inbox, held>>
      PROVE  HolderInv'
  <2>1. flight' = flight \cup {c} /\ \A d \in Calls \ {c} : pc'[d] = pc[d]
    BY <1>2, <1>t DEF Issue, IssueUnfiled, Goto
  <2>2. FlightInv'
    <3>1. \A i \in 1..Len(inbox) : inbox[i] \in Calls \ {c}
      BY <1>2, <1>t DEF HolderInv, FlightInv
    <3> QED BY <2>1, <3>1, <1>2 DEF HolderInv, FlightInv
  <2> QED BY <1>2, <2>1, <2>2 DEF Issue, IssueUnfiled, HolderInv, HolderIsCurrent
<1>3. ASSUME NEW c \in Calls, c \in flight, Deliver(c), UNCHANGED agent, FlightInv' PROVE HolderInv'
  BY <1>3 DEF Deliver, HolderInv, HolderIsCurrent
<1>4. ASSUME NEW C, C \subseteq flight, Stray(C), UNCHANGED <<agent, held>>, FlightInv' PROVE HolderInv'
  <2>1. CASE C = {}
    BY <1>4, <2>1 DEF Stray, HolderInv, HolderIsCurrent
  <2>2. CASE C # {}
    BY <1>4, <2>2 DEF Stray, HolderInv, HolderIsCurrent
  <2> QED BY <2>1, <2>2
<1>5. ASSUME NEW c \in Calls, pc[c] \in Sending, UNCHANGED inbox, flight' = flight \ {c},
             NEW r, Answer(c, r)
      PROVE  FlightInv'
  <2>1. \A d \in Calls \ {c} : pc'[d] = pc[d]
    BY <1>5, <1>t DEF Answer
  <2>2. pc'[c] = "done"
    BY <1>5, <1>t DEF Answer
  <2>3. \A i \in 1..Len(inbox) : inbox[i] \in Calls \ {c}
    BY <1>5, <1>t DEF HolderInv, FlightInv
  <2> QED BY <1>5, <2>1, <2>2, <2>3 DEF HolderInv, FlightInv
<1>6. ASSUME NEW c \in Calls, RekeyUpdate(c) \/ RefreshUpdate(c) PROVE HolderInv'
  <2>1. UpdateTokenJTI(c) /\ pc[c] # "done" /\ UNCHANGED <<inbox, held>>
        /\ (Goto(c, "rk_send") \/ Goto(c, "rf_answer"))
    BY <1>6 DEF RekeyUpdate, RefreshUpdate
  <2>2. (Issue(c) /\ (agent' = None \/ agent'.jti = c)) \/ IssueUnfiled(c)
    BY <2>1, <1>t DEF UpdateTokenJTI, Rows
  <2> QED BY <1>2, <2>1, <2>2
<1>7. ASSUME NEW c \in Calls, EnrolRow(c) PROVE HolderInv'
  <2>1. CASE Aside
    BY <1>1, <2>1
  <2>2. CASE ~Aside
    <3>1. ~(Answer(c, "error") /\ UNCHANGED <<agent, issueVars>>)
      BY <1>7, <2>2 DEF EnrolRow, Aside, JtiKept
    <3>2. /\ agent' = IF agent = None THEN NewRow(c) ELSE [agent EXCEPT !.jti = c]
          /\ Issue(c) /\ Goto(c, "en_answer") /\ pc[c] # "done" /\ UNCHANGED <<inbox, held>>
      BY <1>7, <3>1 DEF EnrolRow
    <3>3. agent'.jti = c
      BY <3>2, <1>t DEF NewRow, Rows
    <3> QED BY <1>2, <3>2, <3>3
  <2> QED BY <2>1, <2>2
<1>8. ASSUME NEW c \in Calls, RekeySend(c) PROVE HolderInv'
  <2>1. pc[c] = "rk_send" /\ c \in flight /\ UNCHANGED <<agent, held>>
    BY <1>8 DEF RekeySend, HolderInv, FlightInv, adminVars
  <2>2. CASE inbox' = Append(inbox, c) /\ Answer(c, "sent") /\ UNCHANGED issueVars
    <3>1. /\ \A d \in Calls \ {c} : pc'[d] = pc[d]
          /\ pc'[c] = "done"
      BY <2>2, <1>t DEF Answer
    <3>2. /\ Len(inbox') = Len(inbox) + 1 /\ inbox'[Len(inbox) + 1] = c
          /\ \A i \in 1..Len(inbox) : inbox'[i] = inbox[i] /\ inbox[i] \in Calls \ {c}
          /\ Len(inbox) \in Nat
      BY <2>1, <2>2, <1>t DEF HolderInv, FlightInv
    <3>3. FlightInv'
      BY <2>1, <2>2, <3>1, <3>2 DEF HolderInv, FlightInv
    <3> QED BY <2>1, <2>2, <3>3 DEF HolderInv, HolderIsCurrent
  <2>3. CASE UNCHANGED inbox /\ Stray({c}) /\ Answer(c, "over")
    <3>1. FlightInv'
      BY <2>1, <2>3, <1>5 DEF Stray
    <3> QED BY <2>1, <2>3, <3>1, <1>4
  <2> QED BY <1>8, <2>2, <2>3 DEF RekeySend
<1>9. ASSUME NEW c \in Calls, RefreshAnswer(c) \/ EnrolAnswer(c) PROVE HolderInv'
  <2>1. /\ pc[c] \in Sending /\ c \in flight /\ UNCHANGED <<agent, inbox>>
        /\ Deliver(c) \/ (Stray({c}) /\ UNCHANGED held)
        /\ Answer(c, "refreshed") \/ Answer(c, "enrolled")
    BY <1>9 DEF RefreshAnswer, EnrolAnswer, AnswerJWT, HolderInv, FlightInv, adminVars
  <2>2. FlightInv'
    BY <2>1, <1>5 DEF Deliver, Stray
  <2> QED BY <2>1, <2>2, <1>3, <1>4
<1>10. ASSUME ReadRekey PROVE HolderInv'
  <2> DEFINE c == Head(inbox)
  <2>1. /\ c = inbox[1] /\ c \in flight /\ pc[c] = "done" /\ UNCHANGED <<agent, pc>>
        /\ inbox' \in Seq(Calls) /\ Len(inbox) \in Nat /\ Len(inbox') = Len(inbox) - 1
        /\ \A i \in 1..Len(inbox') : inbox'[i] = inbox[i + 1]
        /\ flight' = flight \ {c}
    BY <1>10, <1>t, HeadTailProperties DEF ReadRekey, Deliver, Stray, HolderInv, FlightInv, callVars, adminVars
  <2>2. \A i \in 1..Len(inbox') : i + 1 \in 1..Len(inbox) /\ inbox[i + 1] # c
    BY <2>1 DEF HolderInv, FlightInv
  <2>3. FlightInv'
    BY <2>1, <2>2 DEF HolderInv, FlightInv
  <2> HIDE DEF c
  <2>4. Deliver(c) \/ (Stray({c}) /\ UNCHANGED held)
    BY <1>10 DEF ReadRekey, c
  <2> QED BY <2>1, <2>3, <2>4, <1>3, <1>4, <1>t
<1>11. ASSUME LoseConnection PROVE HolderInv'
  <2> DEFINE C == {inbox[i] : i \in DOMAIN inbox}
  <2>1. /\ Stray(C) /\ UNCHANGED <<agent, held, pc>> /\ inbox' = <<>>
    BY <1>11 DEF LoseConnection, callVars, adminVars
  <2>2. C \subseteq flight /\ \A c \in C : pc[c] = "done"
    BY <1>t DEF HolderInv, FlightInv
  <2>3. FlightInv'
    BY <2>1, <2>2 DEF Stray, HolderInv, FlightInv
  <2> QED BY <2>1, <2>2, <2>3, <1>4
<1> QED BY <1>1, <1>6, <1>7, <1>8, <1>9, <1>10, <1>11, DeliveryFrame DEF Delivery

LEMMA HolderInvariant == Spec => []HolderInv
<1>1. Init => HolderInv
  BY DEF Init, HolderInv, FlightInv, HolderIsCurrent, NewRow, Sending
<1>2. Typed /\ HolderInv /\ [Next]_vars => HolderInv'
  BY HolderStep
<1> QED BY <1>1, <1>2, TypeInvariant, PTL DEF Spec

\* Unless a JWT is on its way, was lost or raced another since the last clean
\* issue, the agents row has the JTI of the JWT the agent holds.
THEOREM HolderStaysCurrent == Spec => []HolderIsCurrent
<1>1. HolderInv => HolderIsCurrent
  BY DEF HolderInv
<1> QED BY <1>1, HolderInvariant, PTL

\* A revocation that began in quiet read the JTI of the JWT in use, and nothing
\* takes that JTI out of the blacklist before its entry is overdue.
QuietInv ==
  \A c \in quiet :
    /\ flight = {} /\ ~astray
    /\ pc[c] \in {"rv_blacklist", "rv_close", "rv_mark", "done"}
    /\ held # None => jti[c] = held
    /\ pc[c] # "rv_blacklist" => jti[c] \in blacklist \cup overdue

\* A step that leaves the JWTs alone and drops no JTI from the blacklist.
Undisturbed ==
  /\ UNCHANGED <<quiet, held, flight, astray, jti>>
  /\ blacklist \cup overdue \subseteq blacklist' \cup overdue'
  /\ \/ UNCHANGED callVars
     \/ \E c \in Calls :
          /\ pc[c] \notin {"rv_blacklist", "done"}
          /\ (\E label \in Points : Goto(c, label)) \/ (\E r \in Replies : Answer(c, r))
          /\ pc[c] \in {"rv_close", "rv_mark"} => pc'[c] \in {"rv_mark", "done"}

LEMMA QuietFrame ==
  ASSUME Typed, [Next]_vars
  PROVE  Undisturbed \/ Delivery \/ \E c \in Calls : RevokeGet(c) \/ RevokeBlacklist(c)
<1> USE Strings DEF Undisturbed, adminVars, linkVars, localVars, issueVars, Elsewhere
<1>t. pc \in [Calls -> Points]
  BY DEF Typed, ControlOK
<1>1. ASSUME NEW c \in Calls, Arrive(c), ~RevokeGet(c) PROVE Undisturbed
  <2>1. CASE DeleteGet(c) \/ PurgeBlacklist(c)
    BY <2>1 DEF DeleteGet, PurgeBlacklist
  <2>2. CASE SetSuspended(c) \/ SetState(c)
    BY <2>2 DEF SetSuspended, SetState
  <2>3. CASE SetVarsCall(c) \/ DeleteVarRead(c) \/ RekeyGet(c) \/ RefreshGet(c) \/ EnrolStart(c)
    BY <2>3 DEF SetVarsCall, DeleteVarRead, RekeyGet, RefreshGet, EnrolStart
  <2>4. CASE InventoryCall(c) \/ AdminInventoryCall(c) \/ ListCall(c)
    BY <2>4 DEF InventoryCall, PluginCall, AdminInventoryCall, ListCall
  <2>5. CASE Elsewhere /\ (AdminCreateToken(c) \/ AdminRevokeToken(c) \/ DeleteEnrollmentToken(c))
    BY <2>5 DEF AdminCreateToken, AdminRevokeToken, DeleteEnrollmentToken
  <2> QED BY <1>1, <2>1, <2>2, <2>3, <2>4, <2>5 DEF Arrive
<1>2. ASSUME NEW c \in Calls, Serve(c), ~Delivery, ~RevokeBlacklist(c) PROVE Undisturbed
  <2>1. CASE RevokeClose(c) \/ DeleteClose(c)
    <3>1. pc'[c] \in {"rv_mark", "dl_row"} /\ (pc[c] = "dl_close" \/ pc'[c] = "rv_mark")
      BY <2>1, <1>t DEF RevokeClose, DeleteClose, Close, Goto
    <3> QED BY <2>1, <3>1 DEF RevokeClose, DeleteClose, Close
  <2>2. CASE RevokeMark(c)
    <3>1. pc'[c] = "done"
      BY <2>2, <1>t DEF RevokeMark, Answer
    <3> QED BY <2>2, <3>1 DEF RevokeMark
  <2>3. CASE SetVarWrite(c) \/ DeleteVarWrite(c) \/ SetVarRead(c)
    BY <2>3 DEF SetVarWrite, DeleteVarWrite, SetVarRead
  <2>4. CASE DeleteRow(c)
    BY <2>4 DEF DeleteRow
  <2>6. CASE InventoryRegistry(c) \/ InventoryTable(c) \/ ListTable(c) \/ ListRegistry(c)
    BY <2>6 DEF InventoryRegistry, InventoryTable, ListTable, ListRegistry
  <2>7. CASE Elsewhere /\ TokenStep(c)
    BY <2>7 DEF TokenStep, LookupToken, CheckToken, TouchToken, DeletePluginToken
  <2> QED BY <1>2, <2>1, <2>2, <2>3, <2>4, <2>6, <2>7 DEF Serve, Delivery
<1>3. Connect => Undisturbed
  BY DEF Connect
<1>4. Time => Undisturbed
  BY DEF Time, TokenExpires, EntryOverdue
<1>5. UNCHANGED vars => Undisturbed
  BY DEF vars
<1> QED BY <1>1, <1>2, <1>3, <1>4, <1>5 DEF Next, Delivery

LEMMA QuietStep ==
  ASSUME Typed, HolderInv, QuietInv, [Next]_vars
  PROVE  QuietInv'
<1> USE Strings DEF linkVars, localVars, issueVars, adminVars
<1>t. /\ pc \in [Calls -> Points] /\ jti \in [Calls -> Jtis \cup {None}] /\ quiet \subseteq Calls
      /\ inbox \in Seq(Calls)
  BY DEF Typed, ControlOK, DataOK
<1>a. astray \in BOOLEAN
  BY DEF Typed, DataOK
<1>1. ASSUME Undisturbed PROVE QuietInv'
  <2>1. CASE UNCHANGED callVars
    BY <1>1, <2>1 DEF Undisturbed, callVars, QuietInv
  <2>2. ASSUME NEW c \in Calls, pc[c] \notin {"rv_blacklist", "done"},
               (\E label \in Points : Goto(c, label)) \/ (\E r \in Replies : Answer(c, r)),
               pc[c] \in {"rv_close", "rv_mark"} => pc'[c] \in {"rv_mark", "done"}
        PROVE  QuietInv'
    <3>1. \A d \in Calls \ {c} : pc'[d] = pc[d]
      BY <2>2, <1>t DEF Goto, Answer
    <3> QED BY <1>1, <1>t, <2>2, <3>1 DEF Undisturbed, QuietInv
  <2> QED BY <1>1, <2>1, <2>2 DEF Undisturbed
<1>2. ASSUME Delivery PROVE QuietInv'
  <2>1. CASE quiet' = {}
    BY <2>1 DEF QuietInv
  <2>2. CASE quiet' # {}
    <3>1. ~ \E c \in Calls : RekeyUpdate(c) \/ RefreshUpdate(c)
      BY <2>2 DEF RekeyUpdate, RefreshUpdate, UpdateTokenJTI, Issue, IssueUnfiled
    <3>2. ~ \E c \in Calls : EnrolRow(c) /\ Issue(c)
      BY <2>2 DEF Issue
    <3>3. ASSUME NEW c \in Calls, EnrolRow(c), ~Issue(c) PROVE Undisturbed
      BY <3>3 DEF EnrolRow, Undisturbed
    <3>4. \A c \in Calls : RekeySend(c) \/ RefreshAnswer(c) \/ EnrolAnswer(c) => quiet' = quiet /\ flight # {}
      BY DEF RekeySend, RefreshAnswer, EnrolAnswer, AnswerJWT, Stray, Deliver, HolderInv, FlightInv, Sending
    <3>5. ReadRekey => quiet' = quiet /\ flight # {}
      <4>1. inbox # <<>> => 1 \in 1..Len(inbox)
        BY <1>t
      <4> QED BY <4>1 DEF ReadRekey, Stray, Deliver, HolderInv, FlightInv
    <3>6. flight # {} /\ quiet' = quiet => FALSE
      BY <2>2 DEF QuietInv
    <3>7. ASSUME LoseConnection PROVE Undisturbed
      <4>1. quiet' = quiet /\ flight = {}
        BY <3>6, <3>7 DEF LoseConnection, Stray
      <4>2. {inbox[i] : i \in DOMAIN inbox} = {}
        BY <4>1, <1>t DEF HolderInv, FlightInv
      <4>3. Stray({})
        BY <3>7, <4>2 DEF LoseConnection
      <4>4. UNCHANGED <<flight, astray, quiet>>
        BY <4>3, <1>a DEF Stray
      <4> QED BY <3>7, <4>4 DEF LoseConnection, Undisturbed
    <3> QED BY <1>1, <1>2, <3>1, <3>2, <3>3, <3>4, <3>5, <3>6, <3>7 DEF Delivery
  <2> QED BY <2>1, <2>2
<1>3. ASSUME NEW c \in Calls, RevokeGet(c) PROVE QuietInv'
  <2>1. /\ UNCHANGED <<held, flight, astray, blacklist, overdue>>
        /\ \A d \in Calls \ {c} : pc'[d] = pc[d] /\ jti'[d] = jti[d]
        /\ c \notin quiet
    BY <1>3, <1>t DEF RevokeGet, Goto, Answer, QuietInv
  <2>2. CASE quiet' = quiet
    BY <1>t, <2>1, <2>2 DEF QuietInv
  <2>3. CASE quiet' # quiet
    <3>1. /\ quiet' = quiet \cup {c} /\ flight = {} /\ ~astray /\ agent # None
          /\ jti'[c] = agent.jti /\ pc'[c] = "rv_blacklist"
      BY <1>3, <1>t, <2>3 DEF RevokeGet, Goto
    <3>2. held # None => agent.jti = held
      BY <3>1 DEF HolderInv, HolderIsCurrent
    <3> QED BY <1>t, <2>1, <3>1, <3>2 DEF QuietInv
  <2> QED BY <2>2, <2>3
<1>4. ASSUME NEW c \in Calls, RevokeBlacklist(c) PROVE QuietInv'
  <2>1. /\ UNCHANGED <<held, flight, astray, jti>> /\ quiet' \subseteq quiet
        /\ blacklist \cup overdue \subseteq blacklist' \cup overdue'
        /\ \A d \in Calls \ {c} : pc'[d] = pc[d]
        /\ pc'[c] = "rv_close"
        /\ c \in quiet' => jti[c] \in blacklist'
    BY <1>4, <1>t DEF RevokeBlacklist, Goto
  <2> QED BY <1>t, <2>1 DEF QuietInv
<1> QED BY <1>1, <1>2, <1>3, <1>4, QuietFrame

\* A revocation that began while the agents row told the JWT in use has that JTI
\* in the blacklist, until the entry may be purged or a new JWT is issued.
THEOREM RevocationsHold == Spec => []RevocationIsEffective
<1>1. Init => QuietInv
  BY DEF Init, QuietInv
<1>2. Typed /\ HolderInv /\ QuietInv /\ [Next]_vars => QuietInv'
  BY QuietStep
<1>3. QuietInv => RevocationIsEffective
  BY DEF QuietInv, RevocationIsEffective
<1> QED BY <1>1, <1>2, <1>3, TypeInvariant, HolderInvariant, PTL DEF Spec
=============================================================================
