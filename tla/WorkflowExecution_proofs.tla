----------------------- MODULE WorkflowExecution_proofs -----------------------
(***************************************************************************)
(* Proofs about the workflow service.  First WorkflowSync: types, whose    *)
(* n8n workflow a mapping names, what blank rows stay, and what one        *)
(* handler at a time keeps in step.  Then WorkflowExecution: types, the    *)
(* invariants of the runs, and the refinement of ExecutionStatus.          *)
(*                                                                         *)
(* The step lemmas of WorkflowSync speak of SyncAction, which covers the   *)
(* steps of SyncNext and those WorkflowExecution takes with the count of   *)
(* deleteWorkflow bound to its own executions.                             *)
(***************************************************************************)
EXTENDS WorkflowExecution, TLAPS

SyncAction == SyncStep \/ CrashCalls \/ \E c \in Call, active \in BOOLEAN : DeleteCount(c, active)

LEMMA SyncTypeInit == SyncInit => SyncTypeOK
  BY SyncAssumption DEF SyncInit, SyncTypeOK, WorkflowStatus, Frame, Idle, CallStep

(* Every step of a handler, of the operator and a crash keep the types. *)
LEMMA SyncTypeStep == SyncTypeOK /\ [SyncAction]_syncVars => SyncTypeOK'
<1> SUFFICES ASSUME SyncTypeOK, [SyncAction]_syncVars
             PROVE  SyncTypeOK'
  OBVIOUS
<1> USE SyncAssumption DEF SyncTypeOK, WorkflowStatus, Mapping, Frame, CallStep, Idle,
                           Goto, Return, rowVars, n8nVars, Linked, Exists
<1> DEFINE CallOK(f) == \A b \in Call : /\ f[b].pc # "idle" => f[b].wf \in Workflow
                                        /\ f[b].pc = "saveMapping" => f[b].id \in N8nId
<1>1. ASSUME NEW w \in Workflow, NEW d \in Def, CreateWorkflow(w, d)
      PROVE  SyncTypeOK'
  BY <1>1 DEF CreateWorkflow
<1>2. ASSUME NEW w \in Workflow, Activate(w)
      PROVE  SyncTypeOK'
  BY <1>2 DEF Activate
<1>3. ASSUME NEW c \in Call, HandlerStep(c)
      PROVE  SyncTypeOK'
  <2>1. ASSUME NEW w \in Workflow, NEW r \in Def \cup {None}, UpdateRead(c, w, r)
        PROVE  SyncTypeOK'
    BY <2>1 DEF UpdateRead
  <2>2. CASE UpdateWrite(c)
    BY <2>2 DEF UpdateWrite
  <2>3. CASE UpdateReject(c)
    BY <2>3 DEF UpdateReject
  <2>4. CASE SyncLookup(c)
    <3>1. call[c].wf \in Workflow /\ call[c] \in Frame
      BY <2>4 DEF SyncLookup
    <3>2. CASE mapping[call[c].wf] # None
      <4>1. mapping[call[c].wf].id \in N8nId \cup {Blank}
        BY <3>1, <3>2
      <4>2. call' = [call EXCEPT ![c].pc = "put", ![c].id = mapping[call[c].wf].id]
        BY <2>4, <3>2 DEF SyncLookup
      <4>3. call'[c] \in Frame /\ call'[c].wf \in Workflow
        BY <3>1, <4>1, <4>2
      <4> QED
        BY <2>4, <4>2, <4>3 DEF SyncLookup
    <3>3. CASE mapping[call[c].wf] = None
      BY <2>4, <3>1, <3>3 DEF SyncLookup
    <3> QED
      BY <3>2, <3>3
  <2>5. CASE PutOk(c)
    BY <2>5 DEF PutOk
  <2>6. CASE PutFails(c)
    BY <2>6 DEF PutFails
  <2>7. ASSUME NEW i \in N8nId, PostOk(c, i)
        PROVE  SyncTypeOK'
    <3>1. call[c].wf \in Workflow /\ call[c] \in Frame
      BY <2>7 DEF PostOk
    <3>2. call'[c] \in Frame /\ call'[c].wf \in Workflow
      BY <2>7, <3>1 DEF PostOk
    <3>3. call' \in [Call -> Frame] /\ CallOK(call')
      BY <2>7, <3>2 DEF PostOk
    <3> QED
      BY <2>7, <3>1, <3>3 DEF PostOk, N8nCreates
  <2>8. CASE PostFails(c)
    BY <2>8 DEF PostFails, N8nCreates
  <2>9. CASE SaveSynced(c)
    <3>1. call[c].wf \in Workflow
      BY <2>9 DEF SaveSynced
    <3>2. CASE mapping[call[c].wf] # None
      <4>1. [mapping[call[c].wf] EXCEPT !.sync = "synced"] \in Mapping
        BY <3>1, <3>2
      <4>2. mapping' \in [Workflow -> Mapping \cup {None}]
        BY <2>9, <3>1, <3>2, <4>1 DEF SaveSynced
      <4>3. call' = [call EXCEPT ![c] = Idle] /\ UNCHANGED <<rowVars, n8nVars>>
        BY <2>9, <3>2 DEF SaveSynced
      <4>4. call' \in [Call -> Frame] /\ CallOK(call')
        BY <4>3
      <4> QED
        BY <4>2, <4>3, <4>4
    <3>3. CASE mapping[call[c].wf] = None
      <4>1. /\ call' = [call EXCEPT ![c].pc = "saveError"]
            /\ UNCHANGED <<mapping, rowVars, n8nVars>>
        BY <2>9, <3>3 DEF SaveSynced
      <4> QED
        BY <3>1, <4>1
    <3> QED
      BY <3>2, <3>3
  <2>10. CASE SaveMapping(c)
    <3>1. call[c].wf \in Workflow /\ call[c] \in Frame
      BY <2>10 DEF SaveMapping
    <3>2. CASE mapping[call[c].wf] = None
      <4>1. call[c].id \in N8nId /\ call' = [call EXCEPT ![c] = Idle] /\ UNCHANGED <<rowVars, n8nVars>>
        BY <2>10, <3>2 DEF SaveMapping
      <4>2. mapping' \in [Workflow -> Mapping \cup {None}]
        BY <2>10, <3>1, <3>2, <4>1 DEF SaveMapping
      <4> QED
        BY <4>1, <4>2
    <3>3. CASE mapping[call[c].wf] # None
      <4>1. /\ call' = [call EXCEPT ![c].pc = "saveError"]
            /\ UNCHANGED <<mapping, rowVars, n8nVars>>
        BY <2>10, <3>3 DEF SaveMapping
      <4> QED
        BY <3>1, <4>1
    <3> QED
      BY <3>2, <3>3
  <2>11. CASE SaveError(c)
    BY <2>11 DEF SaveError
  <2>12. ASSUME NEW w \in Workflow, DeleteRead(c, w)
         PROVE  SyncTypeOK'
    <3>1. PICK f \in Frame : /\ f.pc = "count" /\ f.wf = w /\ call' = [call EXCEPT ![c] = f]
                            /\ UNCHANGED <<rowVars, mapping, n8nVars>>
      <4>1. [Idle EXCEPT !.pc = "count", !.wf = w] \in Frame
        OBVIOUS
      <4> QED
        BY <2>12, <4>1 DEF DeleteRead
    <3>2. call' \in [Call -> Frame] /\ CallOK(call')
      BY <3>1
    <3> QED
      BY <3>1, <3>2
  <2>13. CASE DeleteLookup(c)
    <3>1. call[c].wf \in Workflow /\ call[c] \in Frame /\ UNCHANGED <<rowVars, mapping, n8nVars>>
      BY <2>13 DEF DeleteLookup
    <3>2. \/ Linked(call[c].wf) /\ call' = [call EXCEPT ![c].pc = "n8nDelete", ![c].id = mapping[call[c].wf].id]
          \/ call' = [call EXCEPT ![c].pc = "archive"]
      BY <2>13 DEF DeleteLookup
    <3>3. Linked(call[c].wf) => mapping[call[c].wf].id \in N8nId \cup {Blank}
      BY <3>1
    <3>4. PICK f \in Frame : f.wf \in Workflow /\ f.pc # "saveMapping" /\ call' = [call EXCEPT ![c] = f]
      BY <3>1, <3>2, <3>3
    <3>5. call' \in [Call -> Frame] /\ CallOK(call')
      BY <3>4
    <3> QED
      BY <3>1, <3>5
  <2>14. CASE N8nDeleteOk(c)
    BY <2>14 DEF N8nDeleteOk
  <2>15. CASE N8nDeleteFails(c)
    BY <2>15 DEF N8nDeleteFails
  <2>16. CASE Unmap(c)
    BY <2>16 DEF Unmap
  <2>17. CASE Archive(c)
    BY <2>17 DEF Archive
  <2> QED
    BY <1>3, <2>1, <2>2, <2>3, <2>4, <2>5, <2>6, <2>7, <2>8, <2>9, <2>10, <2>11,
       <2>12, <2>13, <2>14, <2>15, <2>16, <2>17 DEF HandlerStep
<1>4. ASSUME NEW c \in Call, NEW active \in BOOLEAN, DeleteCount(c, active)
      PROVE  SyncTypeOK'
  BY <1>4 DEF DeleteCount
<1>5. CASE CrashCalls
  BY <1>5 DEF CrashCalls
<1>6. CASE UNCHANGED syncVars
  BY <1>6 DEF syncVars
<1> QED
  BY <1>1, <1>2, <1>3, <1>4, <1>5, <1>6 DEF SyncAction, SyncStep

(* What the row of a mapping and an answer of n8n about to be stored have in *)
(* common: their id was created for the workflow they belong to.            *)
OwnIds ==
  /\ MappingIsOwn
  /\ \A c \in Call : call[c].pc = "saveMapping" => n8nOwner[call[c].id] = call[c].wf

LEMMA OwnIdsInit == SyncInit => OwnIds
  BY DEF SyncInit, OwnIds, MappingIsOwn, Linked, Idle

LEMMA OwnIdsStep == SyncTypeOK /\ OwnIds /\ [SyncAction]_syncVars => OwnIds'
<1> SUFFICES ASSUME SyncTypeOK, OwnIds, [SyncAction]_syncVars
             PROVE  OwnIds'
  OBVIOUS
<1> USE SyncAssumption DEF OwnIds, MappingIsOwn, SyncTypeOK, Mapping, Frame, Idle,
                           Goto, Return, rowVars, n8nVars, Linked
<1>1. ASSUME NEW w \in Workflow, NEW d \in Def, CreateWorkflow(w, d)
      PROVE  OwnIds'
  BY <1>1 DEF CreateWorkflow
<1>2. ASSUME NEW w \in Workflow, Activate(w)
      PROVE  OwnIds'
  BY <1>2 DEF Activate
<1>3. ASSUME NEW c \in Call, HandlerStep(c)
      PROVE  OwnIds'
  (* Steps that change neither the rows nor the owners and do not reach      *)
  (* "saveMapping".                                                         *)
  <2>1. ASSUME UNCHANGED <<mapping, n8nOwner>>, call'[c].pc # "saveMapping",
               \A b \in Call : b # c => call'[b] = call[b]
        PROVE  OwnIds'
    BY <2>1
  <2>2. ASSUME NEW w \in Workflow, NEW r \in Def \cup {None}, UpdateRead(c, w, r)
        PROVE  OwnIds'
    BY <2>1, <2>2 DEF UpdateRead
  <2>3. CASE UpdateWrite(c)
    BY <2>1, <2>3 DEF UpdateWrite
  <2>4. CASE UpdateReject(c)
    BY <2>1, <2>4 DEF UpdateReject
  <2>5. CASE SyncLookup(c)
    BY <2>1, <2>5 DEF SyncLookup
  <2>6. CASE PutOk(c)
    BY <2>1, <2>6 DEF PutOk
  <2>7. CASE PutFails(c)
    BY <2>1, <2>7 DEF PutFails
  <2>8. ASSUME NEW i \in N8nId, PostOk(c, i)
        PROVE  OwnIds'
    BY <2>8 DEF PostOk, N8nCreates
  <2>9. CASE PostFails(c)
    BY <2>9 DEF PostFails, N8nCreates
  <2>10. CASE SaveSynced(c)
    BY <2>10 DEF SaveSynced
  <2>11. CASE SaveMapping(c)
    BY <2>11 DEF SaveMapping
  <2>12. CASE SaveError(c)
    BY <2>12 DEF SaveError
  <2>13. ASSUME NEW w \in Workflow, DeleteRead(c, w)
         PROVE  OwnIds'
    BY <2>1, <2>13 DEF DeleteRead
  <2>14. CASE DeleteLookup(c)
    BY <2>1, <2>14 DEF DeleteLookup
  <2>15. CASE N8nDeleteOk(c)
    BY <2>1, <2>15 DEF N8nDeleteOk
  <2>16. CASE N8nDeleteFails(c)
    BY <2>1, <2>16 DEF N8nDeleteFails
  <2>17. CASE Unmap(c)
    BY <2>17 DEF Unmap
  <2>18. CASE Archive(c)
    BY <2>1, <2>18 DEF Archive
  <2> QED
    BY <1>3, <2>2, <2>3, <2>4, <2>5, <2>6, <2>7, <2>8, <2>9, <2>10, <2>11,
       <2>12, <2>13, <2>14, <2>15, <2>16, <2>17, <2>18 DEF HandlerStep
<1>4. ASSUME NEW c \in Call, NEW active \in BOOLEAN, DeleteCount(c, active)
      PROVE  OwnIds'
  <2>1. /\ UNCHANGED <<mapping, n8nOwner>> /\ call'[c].pc # "saveMapping"
        /\ \A b \in Call : b # c => call'[b] = call[b]
    BY <1>4 DEF DeleteCount
  <2> QED
    BY <2>1
<1>5. CASE CrashCalls
  BY <1>5 DEF CrashCalls
<1>6. CASE UNCHANGED syncVars
  BY <1>6 DEF syncVars
<1> QED
  BY <1>1, <1>2, <1>3, <1>4, <1>5, <1>6 DEF SyncAction, SyncStep

(* Types of the rows, of n8n's store and of the handlers in flight.         *)
THEOREM SyncTypes == SyncSpec => []SyncTypeOK
<1>1. SyncNext => SyncAction
  BY DEF SyncNext, SyncAction
<1> QED
  BY <1>1, SyncTypeInit, SyncTypeStep, PTL DEF SyncSpec

(* A mapping row never names an n8n workflow made for another workflow.     *)
THEOREM SyncOwnMapping == SyncSpec => []MappingIsOwn
<1>1. SyncNext => SyncAction
  BY DEF SyncNext, SyncAction
<1>2. OwnIds => MappingIsOwn
  BY DEF OwnIds
<1> QED
  BY <1>1, <1>2, SyncTypes, OwnIdsInit, OwnIdsStep, PTL DEF SyncSpec

-------------------------------------------------------------------------------
(* A handler of deleteWorkflow works on the row it looked up: as long as the *)
(* n8n workflow it is about to delete exists, the row names it, and after    *)
(* the DELETE the row still names it, for that handler alone to remove.      *)
DeletesOwnRow ==
  /\ \A c \in Call : LET f == call[c] IN
       /\ f.pc = "n8nDelete" => f.id \in N8nId /\ n8nOwner[f.id] # None
       /\ f.pc = "n8nDelete" /\ Exists(f.id) => Linked(f.wf) /\ mapping[f.wf].id = f.id
       /\ f.pc = "unmap" => Linked(f.wf) /\ mapping[f.wf].id = f.id /\ ~Exists(f.id)
  /\ \A c, b \in Call : call[c].pc = "unmap" /\ call[b].pc = "unmap" /\ c # b
                         => call[c].wf # call[b].wf

LEMMA DeletesOwnRowInit == SyncInit => DeletesOwnRow
  BY DEF SyncInit, DeletesOwnRow, Idle

LEMMA DeletesOwnRowStep ==
  SyncTypeOK /\ OwnIds /\ DeletesOwnRow /\ [SyncAction]_syncVars => DeletesOwnRow'
<1> SUFFICES ASSUME SyncTypeOK, OwnIds, DeletesOwnRow, [SyncAction]_syncVars
             PROVE  DeletesOwnRow'
  OBVIOUS
<1> USE SyncAssumption DEF DeletesOwnRow, SyncTypeOK, Mapping, Frame, Idle,
                           Goto, Return, rowVars, n8nVars, Linked, Exists
(* Steps that change neither the rows nor n8n and end no deletion.          *)
<1>0. ASSUME NEW c \in Call, UNCHANGED <<mapping, n8nVars>>, call'[c].pc \notin {"n8nDelete", "unmap"},
             \A b \in Call : b # c => call'[b] = call[b]
      PROVE  DeletesOwnRow'
  BY <1>0
<1>1. ASSUME NEW w \in Workflow, NEW d \in Def, CreateWorkflow(w, d)
      PROVE  DeletesOwnRow'
  BY <1>1 DEF CreateWorkflow
<1>2. ASSUME NEW w \in Workflow, Activate(w)
      PROVE  DeletesOwnRow'
  <2>1. UNCHANGED <<mapping, n8nVars, call>>
    BY <1>2, SMTT(30) DEF Activate
  <2> QED
    BY <2>1
<1>3. ASSUME NEW c \in Call, HandlerStep(c)
      PROVE  DeletesOwnRow'
  <2>1. ASSUME UNCHANGED <<mapping, n8nVars>>, call'[c].pc \notin {"n8nDelete", "unmap"},
               \A b \in Call : b # c => call'[b] = call[b]
        PROVE  DeletesOwnRow'
    BY <1>0, <2>1
  <2>2. ASSUME NEW w \in Workflow, NEW r \in Def \cup {None}, UpdateRead(c, w, r)
        PROVE  DeletesOwnRow'
    BY <2>1, <2>2 DEF UpdateRead
  <2>3. CASE UpdateWrite(c)
    BY <2>1, <2>3 DEF UpdateWrite
  <2>4. CASE UpdateReject(c)
    BY <2>1, <2>4 DEF UpdateReject
  <2>5. CASE SyncLookup(c)
    BY <2>1, <2>5 DEF SyncLookup
  <2>6. CASE PutOk(c)
    BY <2>6 DEF PutOk
  <2>7. CASE PutFails(c)
    BY <2>7 DEF PutFails
  <2>8. ASSUME NEW i \in N8nId, PostOk(c, i)
        PROVE  DeletesOwnRow'
    BY <2>8 DEF PostOk, N8nCreates, OwnIds, MappingIsOwn
  <2>9. CASE PostFails(c)
    BY <2>9 DEF PostFails, N8nCreates, OwnIds, MappingIsOwn
  <2>10. CASE SaveSynced(c)
    <3>1. call[c].wf \in Workflow
      BY <2>10 DEF SaveSynced
    <3>2. /\ call'[c].pc \notin {"n8nDelete", "unmap"}
          /\ \A b \in Call : b # c => call'[b] = call[b]
          /\ UNCHANGED n8nVars
      BY <2>10 DEF SaveSynced
    <3>3. \A w \in Workflow : Linked(w) => Linked(w)' /\ mapping'[w].id = mapping[w].id
      BY <2>10, <3>1 DEF SaveSynced
    <3> QED
      BY <3>2, <3>3
  <2>11. CASE SaveMapping(c)
    <3>1. call[c].wf \in Workflow
      BY <2>11 DEF SaveMapping
    <3>2. /\ call'[c].pc \notin {"n8nDelete", "unmap"}
          /\ \A b \in Call : b # c => call'[b] = call[b]
          /\ UNCHANGED n8nVars
      BY <2>11 DEF SaveMapping
    <3>3. \A w \in Workflow : Linked(w) => mapping'[w] = mapping[w]
      <4>1. mapping' = mapping \/ \E v \in Workflow : \E m : mapping[v] = None /\ mapping' = [mapping EXCEPT ![v] = m]
        BY <2>11, <3>1 DEF SaveMapping
      <4> QED
        BY <4>1
    <3>4. \A w \in Workflow : Linked(w) => Linked(w)' /\ mapping'[w].id = mapping[w].id
      BY <3>3
    <3> QED
      BY <3>2, <3>4
  <2>12. CASE SaveError(c)
    <3>1. call[c].wf \in Workflow
      BY <2>12 DEF SaveError
    <3>2. /\ call'[c].pc \notin {"n8nDelete", "unmap"}
          /\ \A b \in Call : b # c => call'[b] = call[b]
          /\ UNCHANGED n8nVars
      BY <2>12 DEF SaveError
    <3>3. \A w \in Workflow : Linked(w) => Linked(w)' /\ mapping'[w].id = mapping[w].id
      BY <2>12, <3>1 DEF SaveError
    <3> QED
      BY <3>2, <3>3
  <2>13. ASSUME NEW w \in Workflow, DeleteRead(c, w)
         PROVE  DeletesOwnRow'
    BY <2>1, <2>13 DEF DeleteRead
  <2>14. CASE DeleteLookup(c)
    <3>1. /\ call[c].wf \in Workflow /\ UNCHANGED <<mapping, n8nVars>>
          /\ \A b \in Call : b # c => call'[b] = call[b]
      BY <2>14 DEF DeleteLookup
    <3>2. \/ Linked(call[c].wf) /\ call' = [call EXCEPT ![c].pc = "n8nDelete", ![c].id = mapping[call[c].wf].id]
          \/ call' = [call EXCEPT ![c].pc = "archive"]
      BY <2>14 DEF DeleteLookup
    <3>3. CASE call' = [call EXCEPT ![c].pc = "archive"]
      <4>1. call'[c].pc = "archive"
        BY <3>3
      <4> QED
        BY <1>0, <3>1, <4>1
    <3>4. CASE Linked(call[c].wf) /\ call' = [call EXCEPT ![c].pc = "n8nDelete", ![c].id = mapping[call[c].wf].id]
      <4>1. mapping[call[c].wf].id \in N8nId /\ n8nOwner[mapping[call[c].wf].id] # None
        BY <3>1, <3>4 DEF OwnIds, MappingIsOwn
      <4>2. call'[c].pc = "n8nDelete" /\ call'[c].wf = call[c].wf /\ call'[c].id = mapping[call[c].wf].id
        BY <3>4
      <4> QED
        BY <3>1, <3>4, <4>1, <4>2
    <3> QED
      BY <3>2, <3>3, <3>4
  <2>15. CASE N8nDeleteOk(c)
    BY <2>15 DEF N8nDeleteOk
  <2>16. CASE N8nDeleteFails(c)
    BY <2>16 DEF N8nDeleteFails
  <2>17. CASE Unmap(c)
    BY <2>17 DEF Unmap
  <2>18. CASE Archive(c)
    BY <2>1, <2>18 DEF Archive
  <2> QED
    BY <1>3, <2>2, <2>3, <2>4, <2>5, <2>6, <2>7, <2>8, <2>9, <2>10, <2>11,
       <2>12, <2>13, <2>14, <2>15, <2>16, <2>17, <2>18 DEF HandlerStep
<1>4. ASSUME NEW c \in Call, NEW active \in BOOLEAN, DeleteCount(c, active)
      PROVE  DeletesOwnRow'
  <2>1. /\ UNCHANGED <<mapping, n8nVars>> /\ call'[c].pc \notin {"n8nDelete", "unmap"}
        /\ \A b \in Call : b # c => call'[b] = call[b]
    BY <1>4 DEF DeleteCount
  <2> QED
    BY <1>0, <2>1
<1>5. CASE CrashCalls
  BY <1>5 DEF CrashCalls
<1>6. CASE UNCHANGED syncVars
  BY <1>6 DEF syncVars
<1> QED
  BY <1>1, <1>2, <1>3, <1>4, <1>5, <1>6 DEF SyncAction, SyncStep

(* A mapping row with a blank id stays blank: no update repairs it and no    *)
(* delete removes it.                                                       *)
THEOREM SyncBlankIsForever == SyncSpec => BlankIsForever
<1> DEFINE Stays == \A w \in Workflow : mapping[w] # None /\ mapping[w].id = Blank
                                        => mapping'[w] # None /\ mapping'[w].id = Blank
<1>1. SyncTypeOK /\ DeletesOwnRow /\ [SyncNext]_syncVars => [Stays]_syncVars
  <2> SUFFICES ASSUME SyncTypeOK, DeletesOwnRow, [SyncNext]_syncVars
               PROVE  Stays
    OBVIOUS
  <2> USE SyncAssumption DEF SyncTypeOK, Mapping, rowVars, n8nVars
  <2>1. CASE UNCHANGED mapping
    BY <2>1
  <2>2. ASSUME NEW c \in Call, SaveSynced(c)
        PROVE  Stays
    BY <2>2 DEF SaveSynced
  <2>3. ASSUME NEW c \in Call, SaveMapping(c)
        PROVE  Stays
    BY <2>3 DEF SaveMapping
  <2>4. ASSUME NEW c \in Call, SaveError(c)
        PROVE  Stays
    BY <2>4 DEF SaveError
  <2>5. ASSUME NEW c \in Call, Unmap(c)
        PROVE  Stays
    <3>1. call[c].wf \in Workflow /\ mapping' = [mapping EXCEPT ![call[c].wf] = None]
      BY <2>5 DEF Unmap
    <3>2. mapping[call[c].wf].id # Blank
      BY <2>5 DEF Unmap, DeletesOwnRow, Linked
    <3> QED
      BY <3>1, <3>2
  <2>6. UNCHANGED mapping \/ \E c \in Call : SaveSynced(c) \/ SaveMapping(c) \/ SaveError(c) \/ Unmap(c)
    <3>1. ASSUME NEW c \in Call, HandlerStep(c)
          PROVE  UNCHANGED mapping \/ SaveSynced(c) \/ SaveMapping(c) \/ SaveError(c) \/ Unmap(c)
      BY <3>1, Zenon DEF HandlerStep, UpdateRead, UpdateWrite, UpdateReject, SyncLookup, PutOk, PutFails, PostOk, PostFails,
             DeleteRead, DeleteLookup, N8nDeleteOk, N8nDeleteFails, Archive
    <3>2. (\A c \in Call : ~HandlerStep(c)) => UNCHANGED mapping
      BY DEF SyncNext, SyncStep, CrashCalls, DeleteCount, CreateWorkflow, Activate, syncVars
    <3> QED
      BY <3>1, <3>2
  <2> QED
    BY <2>1, <2>2, <2>3, <2>4, <2>5, <2>6
<1>2. SyncNext => SyncAction
  BY DEF SyncNext, SyncAction
<1>3. SyncSpec => []DeletesOwnRow
  <2>1. SyncSpec => []OwnIds
    BY <1>2, SyncTypes, OwnIdsInit, OwnIdsStep, PTL DEF SyncSpec
  <2> QED
    BY <1>2, <2>1, SyncTypes, DeletesOwnRowInit, DeletesOwnRowStep, PTL DEF SyncSpec
<1> QED
  BY <1>1, <1>3, SyncTypes, PTL DEF SyncSpec, BlankIsForever

-------------------------------------------------------------------------------
(***************************************************************************)
(* One handler at a time, and no failed request: what then holds of every  *)
(* row, of everything n8n stores, and of the handler in flight.            *)
(***************************************************************************)

(* The rows: the definition is set with the row; an update in flight holds   *)
(* the definition it writes.                                                *)
RowsSet ==
  /\ \A w \in Workflow : status[w] = "none" => mapping[w] = None
  /\ \A w \in Workflow : status[w] # "none" => def[w] # None
  /\ \A c \in Call : call[c].pc # "idle" => status[call[c].wf] # "none"
  /\ \A c \in Call : call[c].pc = "write" => call[c].def # None
  /\ \A c \in Call : call[c].pc \in {"sync", "put", "post"} => call[c].def = def[call[c].wf]

(* A handler that makes the mapping of w follow what it did to w or to n8n.  *)
Repairs(w) ==
  \E c \in Call : /\ call[c].wf = w
                  /\ \/ call[c].pc \in {"sync", "put"} /\ Exists(mapping[w].id)
                     \/ call[c].pc = "unmap"

(* Every mapping is linked and current, but where a handler is about to      *)
(* repair it; every workflow n8n holds is mapped or about to be.            *)
InSync ==
  /\ \A w \in Workflow : mapping[w] # None =>
       Linked(w) /\ (n8nDef[mapping[w].id] = def[w] \/ Repairs(w))
  /\ \A i \in N8nId : Exists(i) =>
       /\ n8nOwner[i] \in Workflow
       /\ \/ mapping[n8nOwner[i]] # None /\ mapping[n8nOwner[i]].id = i
          \/ \E c \in Call : call[c].pc = "saveMapping" /\ call[c].id = i /\ call[c].wf = n8nOwner[i]

(* Where the handler in flight is.                                          *)
HandlerAt ==
  \A c \in Call : LET f == call[c] IN
    /\ f.pc # "saveError"
    /\ f.pc \in {"put", "n8nDelete"} => Linked(f.wf) /\ mapping[f.wf].id = f.id /\ Exists(f.id)
    /\ f.pc = "saveSynced" => mapping[f.wf] # None
    /\ f.pc \in {"post", "saveMapping"} => mapping[f.wf] = None
    /\ f.pc = "saveMapping" => n8nDef[f.id] = def[f.wf]
    /\ f.pc = "unmap" => ~Exists(f.id) /\ mapping[f.wf] # None /\ mapping[f.wf].id = f.id

Sequential == RowsSet /\ InSync /\ HandlerAt

LEMMA SequentialInit == SyncInit => Sequential
  BY SyncAssumption DEF SyncInit, Sequential, RowsSet, InSync, HandlerAt, Linked, Exists, Idle, Repairs

(* With one caller and no fault, the three parts hold together: a mapping is *)
(* wrong only between two statements of the one handler that repairs it.    *)
LEMMA SequentialStep ==
  ASSUME Faults = FALSE, \A c, b \in Call : c = b,
         SyncTypeOK, OwnIds, Sequential, [SyncNext]_syncVars
  PROVE  Sequential'
<1> USE SyncAssumption DEF SyncTypeOK, Mapping, Frame, Linked, Exists, Idle, Goto, Return, rowVars, n8nVars
<1> DEFINE Row(w)  == mapping[w] # None => Linked(w) /\ (n8nDef[mapping[w].id] = def[w] \/ Repairs(w))
           Held(i) == Exists(i) =>
                        /\ n8nOwner[i] \in Workflow
                        /\ \/ mapping[n8nOwner[i]] # None /\ mapping[n8nOwner[i]].id = i
                           \/ \E c \in Call : call[c].pc = "saveMapping" /\ call[c].id = i
                                              /\ call[c].wf = n8nOwner[i]
(* Two mapped workflows have different ids in n8n.                          *)
<1>0. \A w, v \in Workflow : Linked(w) /\ Linked(v) /\ mapping[w].id = mapping[v].id => w = v
  BY DEF OwnIds, MappingIsOwn
<1>1. ASSUME NEW w \in Workflow, NEW d \in Def, CreateWorkflow(w, d)
      PROVE  Sequential'
  <2>1. RowsSet'
    BY <1>1 DEF CreateWorkflow, Sequential, RowsSet
  <2>2. InSync'
    BY <1>1 DEF CreateWorkflow, Sequential, RowsSet, InSync, Repairs
  <2>3. HandlerAt'
    BY <1>1 DEF CreateWorkflow, Sequential, RowsSet, HandlerAt
  <2> QED
    BY <2>1, <2>2, <2>3 DEF Sequential
<1>2. ASSUME NEW w \in Workflow, Activate(w)
      PROVE  Sequential'
  <2>1. RowsSet'
    BY <1>2 DEF Activate, Sequential, RowsSet
  <2>2. InSync' /\ HandlerAt'
    BY <1>2 DEF Activate, Sequential, InSync, HandlerAt, Repairs
  <2> QED
    BY <2>1, <2>2 DEF Sequential
<1>3. ASSUME NEW c \in Call, NEW active \in BOOLEAN, DeleteCount(c, active)
      PROVE  Sequential'
  <2>1. RowsSet'
    BY <1>3 DEF DeleteCount, Sequential, RowsSet
  <2>2. InSync'
    BY <1>3 DEF DeleteCount, Sequential, InSync, Repairs
  <2>3. HandlerAt'
    BY <1>3 DEF DeleteCount, Sequential, HandlerAt
  <2> QED
    BY <2>1, <2>2, <2>3 DEF Sequential
<1>4. ASSUME NEW c \in Call, HandlerStep(c)
      PROVE  Sequential'
  <2>0. Call = {c}
    OBVIOUS
  <2>1. ASSUME NEW w \in Workflow, NEW r \in Def \cup {None}, UpdateRead(c, w, r)
        PROVE  Sequential'
    <3>1. RowsSet'
      BY <2>0, <2>1 DEF UpdateRead, Sequential, RowsSet
    <3>2. \A v \in Workflow : Row(v)'
      BY <1>0, <2>0, <2>1 DEF UpdateRead, Sequential, RowsSet, InSync, HandlerAt, Repairs, OwnIds, MappingIsOwn
    <3>3. \A k \in N8nId : Held(k)'
      BY <1>0, <2>0, <2>1 DEF UpdateRead, Sequential, InSync, HandlerAt, OwnIds, MappingIsOwn
    <3>4. HandlerAt'
      BY <2>0, <2>1 DEF UpdateRead, Sequential, RowsSet, InSync, HandlerAt, OwnIds, MappingIsOwn, Repairs
    <3> QED
      BY <3>1, <3>2, <3>3, <3>4 DEF Sequential, InSync
  <2>2. CASE UpdateWrite(c)
    <3>1. RowsSet'
      BY <2>0, <2>2 DEF UpdateWrite, Sequential, RowsSet
    <3>2. \A v \in Workflow : Row(v)'
      BY <1>0, <2>0, <2>2 DEF UpdateWrite, Sequential, RowsSet, InSync, HandlerAt, Repairs, OwnIds, MappingIsOwn
    <3>3. \A k \in N8nId : Held(k)'
      BY <1>0, <2>0, <2>2 DEF UpdateWrite, Sequential, InSync, HandlerAt, OwnIds, MappingIsOwn
    <3>4. HandlerAt'
      BY <2>0, <2>2 DEF UpdateWrite, Sequential, RowsSet, InSync, HandlerAt, OwnIds, MappingIsOwn, Repairs
    <3> QED
      BY <3>1, <3>2, <3>3, <3>4 DEF Sequential, InSync
  <2>3. CASE UpdateReject(c)
    <3>1. RowsSet'
      BY <2>0, <2>3 DEF UpdateReject, Sequential, RowsSet
    <3>2. \A v \in Workflow : Row(v)'
      BY <1>0, <2>0, <2>3 DEF UpdateReject, Sequential, RowsSet, InSync, HandlerAt, Repairs, OwnIds, MappingIsOwn
    <3>3. \A k \in N8nId : Held(k)'
      BY <1>0, <2>0, <2>3 DEF UpdateReject, Sequential, InSync, HandlerAt, OwnIds, MappingIsOwn
    <3>4. HandlerAt'
      BY <2>0, <2>3 DEF UpdateReject, Sequential, RowsSet, InSync, HandlerAt, OwnIds, MappingIsOwn, Repairs
    <3> QED
      BY <3>1, <3>2, <3>3, <3>4 DEF Sequential, InSync
  <2>4. CASE SyncLookup(c)
    <3>1. RowsSet'
      BY <2>0, <2>4 DEF SyncLookup, Sequential, RowsSet
    <3>2. \A v \in Workflow : Row(v)'
      BY <1>0, <2>0, <2>4 DEF SyncLookup, Sequential, RowsSet, InSync, HandlerAt, Repairs, OwnIds, MappingIsOwn
    <3>3. \A k \in N8nId : Held(k)'
      BY <1>0, <2>0, <2>4 DEF SyncLookup, Sequential, InSync, HandlerAt, OwnIds, MappingIsOwn
    <3>4. HandlerAt'
      BY <2>0, <2>4 DEF SyncLookup, Sequential, RowsSet, InSync, HandlerAt, OwnIds, MappingIsOwn, Repairs
    <3> QED
      BY <3>1, <3>2, <3>3, <3>4 DEF Sequential, InSync
  <2>5. CASE PutOk(c)
    <3>1. RowsSet'
      BY <2>0, <2>5 DEF PutOk, Sequential, RowsSet
    <3>2. \A v \in Workflow : Row(v)'
      BY <1>0, <2>0, <2>5 DEF PutOk, Sequential, RowsSet, InSync, HandlerAt, Repairs, OwnIds, MappingIsOwn
    <3>3. \A k \in N8nId : Held(k)'
      BY <1>0, <2>0, <2>5 DEF PutOk, Sequential, InSync, HandlerAt, OwnIds, MappingIsOwn
    <3>4. HandlerAt'
      BY <2>0, <2>5 DEF PutOk, Sequential, RowsSet, InSync, HandlerAt, OwnIds, MappingIsOwn, Repairs
    <3> QED
      BY <3>1, <3>2, <3>3, <3>4 DEF Sequential, InSync
  <2>6. CASE PutFails(c)
    BY <2>6 DEF PutFails, Sequential, HandlerAt
  <2>7. ASSUME NEW i \in N8nId, PostOk(c, i)
        PROVE  Sequential'
    <3>1. RowsSet'
      BY <2>0, <2>7 DEF PostOk, N8nCreates, Sequential, RowsSet
    <3>2. \A v \in Workflow : Row(v)'
      BY <1>0, <2>0, <2>7 DEF PostOk, N8nCreates, Sequential, RowsSet, InSync, HandlerAt, Repairs, OwnIds, MappingIsOwn
    <3>3. \A k \in N8nId : Held(k)'
      BY <1>0, <2>0, <2>7 DEF PostOk, N8nCreates, Sequential, InSync, HandlerAt, OwnIds, MappingIsOwn
    <3>4. HandlerAt'
      BY <2>0, <2>7 DEF PostOk, N8nCreates, Sequential, RowsSet, InSync, HandlerAt, OwnIds, MappingIsOwn, Repairs
    <3> QED
      BY <3>1, <3>2, <3>3, <3>4 DEF Sequential, InSync
  <2>8. CASE PostFails(c)
    BY <2>8 DEF PostFails
  <2>9. CASE SaveSynced(c)
    <3>1. RowsSet'
      BY <2>0, <2>9 DEF SaveSynced, Sequential, RowsSet
    <3>2. \A v \in Workflow : Row(v)'
      BY <1>0, <2>0, <2>9 DEF SaveSynced, Sequential, RowsSet, InSync, HandlerAt, Repairs, OwnIds, MappingIsOwn
    <3>3. \A k \in N8nId : Held(k)'
      BY <1>0, <2>0, <2>9 DEF SaveSynced, Sequential, InSync, HandlerAt, OwnIds, MappingIsOwn
    <3>4. HandlerAt'
      BY <2>0, <2>9 DEF SaveSynced, Sequential, RowsSet, InSync, HandlerAt, OwnIds, MappingIsOwn, Repairs
    <3> QED
      BY <3>1, <3>2, <3>3, <3>4 DEF Sequential, InSync
  <2>10. CASE SaveMapping(c)
    <3>1. RowsSet'
      BY <2>0, <2>10 DEF SaveMapping, Sequential, RowsSet
    <3>2. \A v \in Workflow : Row(v)'
      BY <1>0, <2>0, <2>10 DEF SaveMapping, Sequential, RowsSet, InSync, HandlerAt, Repairs, OwnIds, MappingIsOwn
    <3>3. \A k \in N8nId : Held(k)'
      BY <1>0, <2>0, <2>10 DEF SaveMapping, Sequential, InSync, HandlerAt, OwnIds, MappingIsOwn
    <3>4. HandlerAt'
      BY <2>0, <2>10 DEF SaveMapping, Sequential, RowsSet, InSync, HandlerAt, OwnIds, MappingIsOwn, Repairs
    <3> QED
      BY <3>1, <3>2, <3>3, <3>4 DEF Sequential, InSync
  <2>11. CASE SaveError(c)
    BY <2>11 DEF SaveError, Sequential, HandlerAt
  <2>12. ASSUME NEW w \in Workflow, DeleteRead(c, w)
        PROVE  Sequential'
    <3>1. RowsSet'
      BY <2>0, <2>12 DEF DeleteRead, Sequential, RowsSet
    <3>2. \A v \in Workflow : Row(v)'
      BY <1>0, <2>0, <2>12 DEF DeleteRead, Sequential, RowsSet, InSync, HandlerAt, Repairs, OwnIds, MappingIsOwn
    <3>3. \A k \in N8nId : Held(k)'
      BY <1>0, <2>0, <2>12 DEF DeleteRead, Sequential, InSync, HandlerAt, OwnIds, MappingIsOwn
    <3>4. HandlerAt'
      BY <2>0, <2>12 DEF DeleteRead, Sequential, RowsSet, InSync, HandlerAt, OwnIds, MappingIsOwn, Repairs
    <3> QED
      BY <3>1, <3>2, <3>3, <3>4 DEF Sequential, InSync
  <2>13. CASE DeleteLookup(c)
    <3>1. RowsSet'
      BY <2>0, <2>13 DEF DeleteLookup, Sequential, RowsSet
    <3>2. \A v \in Workflow : Row(v)'
      BY <1>0, <2>0, <2>13 DEF DeleteLookup, Sequential, RowsSet, InSync, HandlerAt, Repairs, OwnIds, MappingIsOwn
    <3>3. \A k \in N8nId : Held(k)'
      BY <1>0, <2>0, <2>13 DEF DeleteLookup, Sequential, InSync, HandlerAt, OwnIds, MappingIsOwn
    <3>4. HandlerAt'
      BY <2>0, <2>13 DEF DeleteLookup, Sequential, RowsSet, InSync, HandlerAt, OwnIds, MappingIsOwn, Repairs
    <3> QED
      BY <3>1, <3>2, <3>3, <3>4 DEF Sequential, InSync
  <2>14. CASE N8nDeleteOk(c)
    <3>1. RowsSet'
      BY <2>0, <2>14 DEF N8nDeleteOk, Sequential, RowsSet
    <3>2. \A v \in Workflow : Row(v)'
      BY <1>0, <2>0, <2>14 DEF N8nDeleteOk, Sequential, RowsSet, InSync, HandlerAt, Repairs, OwnIds, MappingIsOwn
    <3>3. \A k \in N8nId : Held(k)'
      BY <1>0, <2>0, <2>14 DEF N8nDeleteOk, Sequential, InSync, HandlerAt, OwnIds, MappingIsOwn
    <3>4. HandlerAt'
      BY <2>0, <2>14 DEF N8nDeleteOk, Sequential, RowsSet, InSync, HandlerAt, OwnIds, MappingIsOwn, Repairs
    <3> QED
      BY <3>1, <3>2, <3>3, <3>4 DEF Sequential, InSync
  <2>15. CASE N8nDeleteFails(c)
    BY <2>15 DEF N8nDeleteFails, Sequential, HandlerAt
  <2>16. CASE Unmap(c)
    <3>1. RowsSet'
      BY <2>0, <2>16 DEF Unmap, Sequential, RowsSet
    <3>2. \A v \in Workflow : Row(v)'
      BY <1>0, <2>0, <2>16 DEF Unmap, Sequential, RowsSet, InSync, HandlerAt, Repairs, OwnIds, MappingIsOwn
    <3>3. \A k \in N8nId : Held(k)'
      BY <1>0, <2>0, <2>16 DEF Unmap, Sequential, InSync, HandlerAt, OwnIds, MappingIsOwn
    <3>4. HandlerAt'
      BY <2>0, <2>16 DEF Unmap, Sequential, RowsSet, InSync, HandlerAt, OwnIds, MappingIsOwn, Repairs
    <3> QED
      BY <3>1, <3>2, <3>3, <3>4 DEF Sequential, InSync
  <2>17. CASE Archive(c)
    <3>1. RowsSet'
      BY <2>0, <2>17 DEF Archive, Sequential, RowsSet
    <3>2. \A v \in Workflow : Row(v)'
      BY <1>0, <2>0, <2>17 DEF Archive, Sequential, RowsSet, InSync, HandlerAt, Repairs, OwnIds, MappingIsOwn
    <3>3. \A k \in N8nId : Held(k)'
      BY <1>0, <2>0, <2>17 DEF Archive, Sequential, InSync, HandlerAt, OwnIds, MappingIsOwn
    <3>4. HandlerAt'
      BY <2>0, <2>17 DEF Archive, Sequential, RowsSet, InSync, HandlerAt, OwnIds, MappingIsOwn, Repairs
    <3> QED
      BY <3>1, <3>2, <3>3, <3>4 DEF Sequential, InSync
  <2> QED
    BY <1>4, <2>1, <2>2, <2>3, <2>4, <2>5, <2>6, <2>7, <2>8, <2>9, <2>10, <2>11, <2>12, <2>13, <2>14, <2>15, <2>16, <2>17 DEF HandlerStep
<1>5. CASE UNCHANGED syncVars
  BY <1>5 DEF syncVars, Sequential, RowsSet, InSync, HandlerAt, Repairs
<1> QED
  BY <1>1, <1>2, <1>3, <1>4, <1>5 DEF SyncNext, SyncStep, CrashCalls

LEMMA SequentialInvariant ==
  ASSUME Faults = FALSE, \A c, b \in Call : c = b
  PROVE  SyncSpec => []Sequential
<1>1. SyncNext => SyncAction
  BY DEF SyncNext, SyncAction
<1>2. SyncSpec => []OwnIds
  BY <1>1, SyncTypes, OwnIdsInit, OwnIdsStep, PTL DEF SyncSpec
<1>3. SyncTypeOK /\ OwnIds /\ Sequential /\ [SyncNext]_syncVars => Sequential'
  BY SequentialStep
<1> QED
  BY <1>2, <1>3, SyncTypes, SequentialInit, PTL DEF SyncSpec

(* Updates one after the other that meet no failure leave every quiet row    *)
(* that says "synced" with its own definition in n8n, for any number of      *)
(* workflows, definitions and versions.                                     *)
THEOREM SyncedWhenSequential ==
  ASSUME Faults = FALSE, \A c, b \in Call : c = b
  PROVE  SyncSpec => []SyncedIsCurrent
<1>1. Sequential => SyncedIsCurrent
  BY DEF Sequential, InSync, Repairs, SyncedIsCurrent, Quiet
<1> QED
  BY <1>1, SequentialInvariant, PTL

(* Under the same conditions, all that n8n holds for a quiet workflow is the *)
(* one workflow its row names.                                              *)
THEOREM NoOrphanWhenSequential ==
  ASSUME Faults = FALSE, \A c, b \in Call : c = b
  PROVE  SyncSpec => []NoOrphan
<1>1. Sequential => NoOrphan
  BY DEF Sequential, InSync, NoOrphan, Quiet
<1> QED
  BY <1>1, SequentialInvariant, PTL

-------------------------------------------------------------------------------
(***************************************************************************)
(* WorkflowExecution                                                       *)
(***************************************************************************)

(* The steps that belong to WorkflowSync leave executions alone; those of    *)
(* the execution service leave WorkflowSync alone, but for a crash.         *)
LEMMA NextSplit ==
  Next => \/ SyncAction /\ UNCHANGED execVars
          \/ (\E x \in XCall : Request(x)) /\ UNCHANGED syncVars
          \/ (\E e \in Execution : ChainAdvances(e) \/ RunEnds(e)) /\ UNCHANGED syncVars
          \/ CrashCalls /\ Crash
<1> SUFFICES ASSUME Next
             PROVE  \/ SyncAction /\ UNCHANGED execVars
                    \/ (\E x \in XCall : Request(x)) /\ UNCHANGED syncVars
                    \/ (\E e \in Execution : ChainAdvances(e) \/ RunEnds(e)) /\ UNCHANGED syncVars
                    \/ CrashCalls /\ Crash
  OBVIOUS
<1>1. ASSUME NEW c \in Call, DeleteCount(c, HasActive(call[c].wf))
      PROVE  SyncAction
  <2>1. HasActive(call[c].wf) \in BOOLEAN
    BY DEF HasActive
  <2> QED
    BY <1>1, <2>1 DEF SyncAction
<1>2. ASSUME NEW x \in XCall, Request(x)
      PROVE  UNCHANGED syncVars
  BY <1>2 DEF Request, ExecuteCheck, ExecuteCreate, RetryCheck, RetryCreate, CancelCheck,
              CancelLookup, CancelStop, CancelWrite
<1>3. ASSUME NEW e \in Execution, ChainAdvances(e) \/ RunEnds(e)
      PROVE  UNCHANGED syncVars
  BY <1>3 DEF ChainAdvances, RunEnds, ChainMap, ChainPost, ChainPostFails, ChainReply,
              ChainReplyLost, ChainStore, ChainComplete, ChainCompleteFails, ChainFail
<1> QED
  BY <1>1, <1>2, <1>3 DEF Next, Crash, SyncAction

(* The types of WorkflowSync hold in the composition. *)
LEMMA SyncInComposition == Spec => []SyncTypeOK
<1>1. Init => SyncTypeOK
  BY SyncTypeInit DEF Init
<1>2. SyncTypeOK /\ [Next]_vars => SyncTypeOK'
  <2>1. [Next]_vars => [SyncAction]_syncVars
    BY NextSplit DEF vars, SyncAction
  <2> QED
    BY <2>1, SyncTypeStep
<1> QED
  BY <1>1, <1>2, PTL DEF Spec

-------------------------------------------------------------------------------
(* Where a handler in flight can be, given its frame. *)
FrameOK ==
  \A x \in XCall :
    /\ xcall[x].pc \in {"create", "recreate"} => xcall[x].wf \in Workflow
    /\ xcall[x].pc \in {"stopLookup", "stop", "cancel", "recreate"}
         => xcall[x].ex \in Execution /\ exStatus[xcall[x].ex] # "none"
    /\ xcall[x].pc = "stop" => xcall[x].n8n \in Execution

(* How far the chain of an execution is, given its row and its run. *)
ChainOK ==
  \A e \in Execution :
    /\ exStatus[e] = "none" <=> chain[e].pc = "none"
    /\ exStatus[e] = "none" => exN8n[e] = None
    /\ exStatus[e] # "none" => exWf[e] \in Workflow
    /\ chain[e].pc \in {"none", "map", "post"} => run[e] = "none"
    /\ chain[e].pc \in {"reply", "store", "complete"} => run[e] # "none"
    /\ chain[e].pc = "complete" => exN8n[e] = e
    /\ chain[e].pc = "post" => chain[e].id \in N8nId

ExecInv == ExecTypeOK /\ FrameOK /\ ChainOK /\ ActiveIsOwned /\ CompletedRan

LEMMA ExecInvInit == ExecInit => ExecInv
  BY ExecAssumption DEF ExecInit, ExecInv, ExecTypeOK, FrameOK, ChainOK, ActiveIsOwned, CompletedRan,
     XIdle, XFrame, XStep, ChainStep, RunState, Active, Terminal, InProgress

LEMMA ExecInvStep == SyncTypeOK /\ ExecInv /\ [Next]_vars => ExecInv'
<1> SUFFICES ASSUME SyncTypeOK, ExecInv, [Next]_vars
             PROVE  ExecInv'
  OBVIOUS
<1> USE ExecAssumption, SyncAssumption
    DEF ExecInv, ExecTypeOK, FrameOK, ChainOK, ActiveIsOwned, CompletedRan, XIdle, XFrame,
        XStep, ChainStep, RunState, Active, Terminal, InProgress, XGoto, XReturn, ChainGoto
<1>1. ASSUME NEW x \in XCall, Request(x)
      PROVE  ExecInv'
  <2>1. ASSUME NEW w \in Workflow, ExecuteCheck(x, w)
        PROVE  ExecInv'
    <3>1. xcall' = [xcall EXCEPT ![x] = [pc |-> "create", wf |-> w, ex |-> None, n8n |-> None]]
      BY <2>1 DEF ExecuteCheck
    <3>2. UNCHANGED <<exStatus, exWf, exN8n, retryOf, run, chain>>
      BY <2>1 DEF ExecuteCheck
    <3>3. xcall' \in [XCall -> XFrame] /\ FrameOK'
      BY <3>1, <3>2
    <3>4. ChainOK' /\ ActiveIsOwned' /\ CompletedRan'
      BY <3>2
    <3> QED
      BY <3>2, <3>3, <3>4
  <2>2. ASSUME NEW e \in Execution, ExecuteCreate(x, e)
        PROVE  ExecInv'
    <3>1. ExecTypeOK'
      BY <2>2 DEF ExecuteCreate, CreateExecution
    <3>2. FrameOK'
      BY <2>2 DEF ExecuteCreate, CreateExecution
    <3>3. ChainOK' /\ ActiveIsOwned' /\ CompletedRan'
      BY <2>2 DEF ExecuteCreate, CreateExecution
    <3> QED
      BY <3>1, <3>2, <3>3
  <2>3. ASSUME NEW e \in Execution, RetryCheck(x, e)
        PROVE  ExecInv'
    BY <2>3 DEF RetryCheck
  <2>4. ASSUME NEW e \in Execution, RetryCreate(x, e)
        PROVE  ExecInv'
    <3>1. ExecTypeOK'
      BY <2>4, SMTT(30) DEF RetryCreate, CreateExecution
    <3>2. FrameOK'
      BY <2>4 DEF RetryCreate, CreateExecution
    <3>3. ChainOK' /\ ActiveIsOwned' /\ CompletedRan'
      BY <2>4 DEF RetryCreate, CreateExecution
    <3> QED
      BY <3>1, <3>2, <3>3
  <2>5. ASSUME NEW e \in Execution, CancelCheck(x, e)
        PROVE  ExecInv'
    BY <2>5 DEF CancelCheck
  <2>6. CASE CancelLookup(x)
    <3>1. exN8n[xcall[x].ex] \in Execution \cup {None} /\ xcall[x] \in XFrame /\ xcall[x].ex \in Execution
      BY <2>6 DEF CancelLookup
    <3>2. \/ xcall' = [xcall EXCEPT ![x] = [pc |-> "stop", wf |-> None, ex |-> xcall[x].ex,
                                            n8n |-> exN8n[xcall[x].ex]]]
             /\ exN8n[xcall[x].ex] # None
          \/ xcall' = [xcall EXCEPT ![x].pc = "cancel"]
      BY <2>6, <3>1 DEF CancelLookup
    <3>3. UNCHANGED <<exStatus, exWf, exN8n, retryOf, run, chain>>
      BY <2>6 DEF CancelLookup
    <3>4. /\ xcall' \in [XCall -> XFrame]
          /\ \A y \in XCall : y # x => xcall'[y] = xcall[y]
      BY <3>1, <3>2
    <3>5. /\ xcall'[x].ex = xcall[x].ex
          /\ xcall'[x].pc \in {"stop", "cancel"}
          /\ xcall'[x].pc = "stop" => xcall'[x].n8n \in Execution
      BY <3>1, <3>2
    <3>6. exStatus[xcall[x].ex] # "none"
      BY <2>6 DEF CancelLookup
    <3>7. FrameOK'
      <4> SUFFICES ASSUME NEW y \in XCall
                   PROVE  /\ xcall'[y].pc \in {"create", "recreate"} => xcall'[y].wf \in Workflow
                          /\ xcall'[y].pc \in {"stopLookup", "stop", "cancel", "recreate"}
                               => xcall'[y].ex \in Execution /\ exStatus'[xcall'[y].ex] # "none"
                          /\ xcall'[y].pc = "stop" => xcall'[y].n8n \in Execution
        OBVIOUS
      <4>1. CASE y = x
        BY <3>1, <3>3, <3>5, <3>6, <4>1
      <4>2. CASE y # x
        BY <3>3, <3>4, <4>2
      <4> QED
        BY <4>1, <4>2
    <3>8. ExecTypeOK' /\ ChainOK' /\ ActiveIsOwned' /\ CompletedRan'
      BY <3>3, <3>4
    <3> QED
      BY <3>7, <3>8
  <2>7. CASE CancelStop(x)
    <3>1. xcall' = [xcall EXCEPT ![x].pc = "cancel"] /\ xcall[x].pc = "stop"
      BY <2>7 DEF CancelStop
    <3>2. UNCHANGED <<exStatus, exWf, exN8n, retryOf, chain>>
      BY <2>7 DEF CancelStop
    <3>3. /\ run' \in [Execution -> RunState]
          /\ \A e \in Execution : run'[e] = "none" <=> run[e] = "none"
      BY <2>7 DEF CancelStop
    <3>4. xcall' \in [XCall -> XFrame]
      <4>1. [xcall[x] EXCEPT !.pc = "cancel"] \in XFrame
        OBVIOUS
      <4> QED
        BY <3>1, <4>1
    <3>5. FrameOK'
      BY <3>1, <3>2
    <3>6. ChainOK' /\ ActiveIsOwned' /\ CompletedRan'
      BY <3>2, <3>3
    <3> QED
      BY <3>2, <3>3, <3>4, <3>5, <3>6
  <2>8. CASE CancelWrite(x)
    <3>1. ExecTypeOK'
      BY <2>8 DEF CancelWrite
    <3>2. FrameOK'
      BY <2>8 DEF CancelWrite
    <3>3. ChainOK' /\ ActiveIsOwned' /\ CompletedRan'
      BY <2>8 DEF CancelWrite
    <3> QED
      BY <3>1, <3>2, <3>3
  <2> QED
    BY <1>1, <2>1, <2>2, <2>3, <2>4, <2>5, <2>6, <2>7, <2>8 DEF Request
<1>2. ASSUME NEW e \in Execution, ChainAdvances(e)
      PROVE  ExecInv'
  <2>1. CASE ChainMap(e)
    <3>0. Linked(exWf[e]) => mapping[exWf[e]].id \in N8nId
      BY <2>1 DEF ChainMap, Linked, SyncTypeOK, Mapping
    <3>1. ExecTypeOK'
      <4>1. CASE Linked(exWf[e])
        <5>1. chain' = [chain EXCEPT ![e] = [pc |-> "post", id |-> mapping[exWf[e]].id]]
          BY <2>1, <4>1 DEF ChainMap
        <5> QED
          BY <2>1, <3>0, <4>1, <5>1 DEF ChainMap
      <4>2. CASE ~Linked(exWf[e])
        <5>1. chain' = [chain EXCEPT ![e].pc = "fail"]
          BY <2>1, <4>2 DEF ChainMap
        <5> QED
          BY <2>1, <5>1 DEF ChainMap
      <4> QED
        BY <4>1, <4>2
    <3>2. FrameOK'
      BY <2>1 DEF ChainMap
    <3>3. ChainOK'
      <4>1. CASE Linked(exWf[e])
        <5>1. chain' = [chain EXCEPT ![e] = [pc |-> "post", id |-> mapping[exWf[e]].id]]
          BY <2>1, <4>1 DEF ChainMap
        <5> QED
          BY <2>1, <3>0, <4>1, <5>1 DEF ChainMap
      <4>2. CASE ~Linked(exWf[e])
        <5>1. chain' = [chain EXCEPT ![e].pc = "fail"]
          BY <2>1, <4>2 DEF ChainMap
        <5> QED
          BY <2>1, <5>1 DEF ChainMap
      <4> QED
        BY <4>1, <4>2
    <3>4. ActiveIsOwned' /\ CompletedRan'
      BY <2>1 DEF ChainMap
    <3> QED
      BY <3>1, <3>2, <3>3, <3>4
  <2>2. CASE ChainPost(e)
    BY <2>2 DEF ChainPost
  <2>3. CASE ChainPostFails(e)
    BY <2>3 DEF ChainPostFails
  <2>4. CASE ChainReply(e)
    BY <2>4 DEF ChainReply
  <2>5. CASE ChainReplyLost(e)
    BY <2>5 DEF ChainReplyLost
  <2>6. CASE ChainStore(e)
    BY <2>6 DEF ChainStore
  <2>7. CASE ChainComplete(e)
    BY <2>7 DEF ChainComplete
  <2>8. CASE ChainCompleteFails(e)
    BY <2>8 DEF ChainCompleteFails
  <2>9. CASE ChainFail(e)
    BY <2>9 DEF ChainFail
  <2> QED
    BY <1>2, <2>1, <2>2, <2>3, <2>4, <2>5, <2>6, <2>7, <2>8, <2>9 DEF ChainAdvances
<1>3. ASSUME NEW e \in Execution, RunEnds(e)
      PROVE  ExecInv'
  BY <1>3 DEF RunEnds
<1>4. CASE Crash
  BY <1>4 DEF Crash
<1>5. CASE UNCHANGED execVars
  BY <1>5 DEF execVars
<1> QED
  BY <1>1, <1>2, <1>3, <1>4, <1>5 DEF Next, vars

LEMMA ExecInvariant == Spec => []ExecInv
<1>1. Init => ExecInv
  BY ExecInvInit DEF Init
<1> QED
  BY <1>1, ExecInvStep, SyncInComposition, PTL DEF Spec

(* Every row, run, chain and handler in flight has its type.                *)
THEOREM TypeCorrect == Spec => []TypeOK
<1>1. ExecInv /\ SyncTypeOK => TypeOK
  BY DEF ExecInv, TypeOK
<1> QED
  BY <1>1, ExecInvariant, SyncInComposition, PTL

(* An active execution has a chain on its way or lost in a crash; a settled  *)
(* chain leaves a terminal status.                                          *)
THEOREM ActiveOwned == Spec => []ActiveIsOwned
<1>1. ExecInv => ActiveIsOwned
  BY DEF ExecInv
<1> QED
  BY <1>1, ExecInvariant, PTL

(* COMPLETED means that n8n ran the execution and its run's id is recorded. *)
THEOREM CompletedHasRun == Spec => []CompletedRan
<1>1. ExecInv => CompletedRan
  BY DEF ExecInv
<1> QED
  BY <1>1, ExecInvariant, PTL

-------------------------------------------------------------------------------
(***************************************************************************)
(* The status column changes only by its owners.                           *)
(***************************************************************************)

(* A status without owner is final.                                         *)
THEOREM StatusFinal == Spec => FinalWhenUnowned
<1> DEFINE Final == \A e \in Execution :
                      /\ exStatus[e] # "none"
                      /\ chain[e].pc \notin InProgress
                      /\ CancelPending(e) = {}
                      => exStatus'[e] = exStatus[e]
<1>1. ExecInv /\ [Next]_vars => [Final]_vars
  <2> SUFFICES ASSUME ExecInv, [Next]_vars, NEW e \in Execution,
                      exStatus[e] # "none", chain[e].pc \notin InProgress,
                      CancelPending(e) = {}
               PROVE  exStatus'[e] = exStatus[e]
    OBVIOUS
  <2> USE DEF ExecInv, ExecTypeOK, FrameOK, ChainOK, XFrame, InProgress
  <2>1. ASSUME NEW x \in XCall, NEW f \in Execution, ExecuteCreate(x, f) \/ RetryCreate(x, f)
        PROVE  exStatus'[e] = exStatus[e]
    BY <2>1 DEF ExecuteCreate, RetryCreate, CreateExecution
  <2>2. ASSUME NEW x \in XCall, CancelWrite(x)
        PROVE  exStatus'[e] = exStatus[e]
    BY <2>2 DEF CancelWrite, CancelPending
  <2>3. ASSUME NEW f \in Execution, ChainComplete(f) \/ ChainFail(f)
        PROVE  exStatus'[e] = exStatus[e]
    BY <2>3 DEF ChainComplete, ChainFail
  <2>4. \/ UNCHANGED exStatus
        \/ \E x \in XCall : \/ \E f \in Execution : ExecuteCreate(x, f) \/ RetryCreate(x, f)
                           \/ CancelWrite(x)
        \/ \E f \in Execution : ChainComplete(f) \/ ChainFail(f)
    BY DEF Next, Request, ChainAdvances, ExecuteCheck, RetryCheck, CancelCheck, CancelLookup,
           CancelStop, ChainMap, ChainPost, ChainPostFails, ChainReply, ChainReplyLost, ChainStore,
           ChainCompleteFails, RunEnds, Crash, execVars, vars
  <2> QED
    BY <2>1, <2>2, <2>3, <2>4
<1> QED
  BY <1>1, ExecInvariant, PTL DEF Spec, FinalWhenUnowned

-------------------------------------------------------------------------------
(***************************************************************************)
(* The n8n id in the metadata, which retryExecution copies.                *)
(***************************************************************************)

(* The run of execution r was posted, and for workflow w. *)
RunOf(r, w) == r \in Execution /\ exStatus[r] # "none" /\ run[r] # "none" /\ exWf[r] = w

MetadataOK ==
  /\ \A e \in Execution : exN8n[e] # None => RunOf(exN8n[e], exWf[e])
  /\ \A x \in XCall :
       /\ xcall[x].pc = "recreate" => xcall[x].wf = exWf[xcall[x].ex]
       /\ xcall[x].pc = "recreate" /\ xcall[x].n8n # None => RunOf(xcall[x].n8n, xcall[x].wf)
       /\ xcall[x].pc = "stop" => RunOf(xcall[x].n8n, exWf[xcall[x].ex])
       /\ xcall[x].pc = "stopLookup" => xcall[x].n8n = None

LEMMA MetadataInit == ExecInit => MetadataOK
  BY DEF ExecInit, MetadataOK, XIdle

LEMMA MetadataStep == ExecInv /\ MetadataOK /\ [Next]_vars => MetadataOK'
<1> SUFFICES ASSUME ExecInv, MetadataOK, [Next]_vars
             PROVE  MetadataOK'
  OBVIOUS
<1> USE ExecAssumption
    DEF ExecInv, ExecTypeOK, FrameOK, ChainOK, XIdle, XFrame, XGoto, XReturn, ChainGoto
<1>1. ASSUME NEW x \in XCall, Request(x)
      PROVE  MetadataOK'
  <2>1. ASSUME NEW w \in Workflow, ExecuteCheck(x, w)
        PROVE  MetadataOK'
    BY <2>1 DEF ExecuteCheck, MetadataOK, RunOf
  <2>2. ASSUME NEW e \in Execution, ExecuteCreate(x, e)
        PROVE  MetadataOK'
    BY <2>2 DEF ExecuteCreate, CreateExecution, MetadataOK, RunOf
  <2>3. ASSUME NEW e \in Execution, RetryCheck(x, e)
        PROVE  MetadataOK'
    BY <2>3 DEF RetryCheck, MetadataOK, RunOf
  <2>4. ASSUME NEW e \in Execution, RetryCreate(x, e)
        PROVE  MetadataOK'
    BY <2>4 DEF RetryCreate, CreateExecution, MetadataOK, RunOf
  <2>5. ASSUME NEW e \in Execution, CancelCheck(x, e)
        PROVE  MetadataOK'
    BY <2>5 DEF CancelCheck, MetadataOK, RunOf
  <2>6. CASE CancelLookup(x)
    BY <2>6 DEF CancelLookup, MetadataOK, RunOf
  <2>7. CASE CancelStop(x)
    BY <2>7 DEF CancelStop, MetadataOK, RunOf
  <2>8. CASE CancelWrite(x)
    BY <2>8 DEF CancelWrite, MetadataOK, RunOf
  <2> QED
    BY <1>1, <2>1, <2>2, <2>3, <2>4, <2>5, <2>6, <2>7, <2>8 DEF Request
<1>2. ASSUME NEW e \in Execution, ChainStore(e)
      PROVE  MetadataOK'
  BY <1>2 DEF ChainStore, MetadataOK, RunOf
<1>3. ASSUME NEW e \in Execution, ChainAdvances(e) \/ RunEnds(e), ~ChainStore(e)
      PROVE  MetadataOK'
  <2>1. /\ UNCHANGED <<exWf, exN8n, xcall>>
        /\ \A r \in Execution : exStatus[r] # "none" => exStatus'[r] # "none"
        /\ \A r \in Execution : run[r] # "none" => run'[r] # "none"
    BY <1>3 DEF ChainAdvances, ChainMap, ChainPost, ChainPostFails, ChainReply, ChainReplyLost,
                ChainComplete, ChainCompleteFails, ChainFail, RunEnds
  <2> QED
    BY <2>1 DEF MetadataOK, RunOf
<1>4. CASE Crash
  BY <1>4 DEF Crash, MetadataOK, RunOf
<1>5. CASE UNCHANGED execVars
  BY <1>5 DEF execVars, MetadataOK, RunOf
<1> QED
  BY <1>1, <1>2, <1>3, <1>4, <1>5 DEF Next, vars

(* A cancellation stops a run of the workflow its execution belongs to.     *)
THEOREM StopsOnlyOwnWorkflow == Spec => []StopsOwnWorkflow
<1>1. Init => MetadataOK
  BY MetadataInit DEF Init
<1>2. MetadataOK => StopsOwnWorkflow
  BY DEF MetadataOK, RunOf, StopsOwnWorkflow
<1> QED
  BY <1>1, <1>2, MetadataStep, ExecInvariant, PTL DEF Spec

LEMMA StoppedStep ==
  ASSUME Faults = FALSE
  PROVE  ExecInv /\ MetadataOK /\ StoppedBeforeCancelled /\ [Next]_vars => StoppedBeforeCancelled'
<1> SUFFICES ASSUME ExecInv, MetadataOK, StoppedBeforeCancelled, [Next]_vars,
                    NEW y \in XCall, xcall'[y].pc = "cancel", xcall'[y].n8n = xcall'[y].ex
             PROVE  run'[xcall'[y].ex] \in {"ended", "stopped"}
  BY DEF StoppedBeforeCancelled
<1> USE ExecAssumption
    DEF ExecInv, ExecTypeOK, FrameOK, ChainOK, XIdle, XFrame, XGoto, XReturn, ChainGoto,
        StoppedBeforeCancelled, MetadataOK, RunOf, RunState
<1>1. ASSUME NEW x \in XCall, Request(x)
      PROVE  run'[xcall'[y].ex] \in {"ended", "stopped"}
  <2>1. CASE CancelLookup(x)
    <3>1. UNCHANGED run
      BY <2>1 DEF CancelLookup
    <3>2. CASE y # x
      BY <2>1, <3>1, <3>2 DEF CancelLookup
    <3>3. CASE y = x
      <4>1. xcall'[x].pc = "cancel" => exN8n[xcall[x].ex] = None
        BY <2>1 DEF CancelLookup
      <4>2. xcall' = [xcall EXCEPT ![x].pc = "cancel"]
        BY <2>1, <3>3, <4>1 DEF CancelLookup
      <4>3. xcall[x].n8n = None /\ xcall[x].ex \in Execution
        BY <2>1 DEF CancelLookup
      <4> QED
        BY <3>3, <4>2, <4>3
    <3> QED
      BY <3>2, <3>3
  <2>2. CASE CancelStop(x)
    BY <2>2 DEF CancelStop
  <2>3. ASSUME NEW w \in Workflow, ExecuteCheck(x, w)
        PROVE  xcall'[y] = xcall[y] /\ UNCHANGED run
    BY <2>3 DEF ExecuteCheck
  <2>4. ASSUME NEW e \in Execution, ExecuteCreate(x, e)
        PROVE  xcall'[y] = xcall[y] /\ UNCHANGED run
    BY <2>4 DEF ExecuteCreate, CreateExecution
  <2>5. ASSUME NEW e \in Execution, RetryCheck(x, e) \/ CancelCheck(x, e)
        PROVE  xcall'[y] = xcall[y] /\ UNCHANGED run
    BY <2>5 DEF RetryCheck, CancelCheck
  <2>6. ASSUME NEW e \in Execution, RetryCreate(x, e)
        PROVE  xcall'[y] = xcall[y] /\ UNCHANGED run
    BY <2>6 DEF RetryCreate, CreateExecution
  <2>7. CASE CancelWrite(x)
    <3>1. xcall'[y] = xcall[y] /\ UNCHANGED run
      BY <2>7 DEF CancelWrite
    <3> QED
      BY <3>1
  <2> QED
    BY <1>1, <2>1, <2>2, <2>3, <2>4, <2>5, <2>6, <2>7 DEF Request
<1>2. ASSUME NEW e \in Execution, ChainAdvances(e) \/ RunEnds(e)
      PROVE  run'[xcall'[y].ex] \in {"ended", "stopped"}
  <2>1. /\ UNCHANGED xcall
        /\ xcall[y].ex \in Execution
        /\ run[xcall[y].ex] \in {"ended", "stopped"}
    BY <1>2 DEF ChainAdvances, ChainMap, ChainPost, ChainPostFails, ChainReply, ChainReplyLost,
                ChainStore, ChainComplete, ChainCompleteFails, ChainFail, RunEnds
  <2> QED
    BY <1>2, <2>1 DEF ChainAdvances, ChainMap, ChainPost, ChainPostFails, ChainReply,
       ChainReplyLost, ChainStore, ChainComplete, ChainCompleteFails, ChainFail, RunEnds
<1>3. CASE Crash
  BY <1>3 DEF Crash
<1>4. CASE UNCHANGED execVars
  BY <1>4 DEF execVars
<1> QED
  BY <1>1, <1>2, <1>3, <1>4 DEF Next, vars

(* Without failed requests, a cancellation that knows the id of its own run  *)
(* writes CANCELLED after the run has stopped.                              *)
THEOREM CancelStopsFirst ==
  ASSUME Faults = FALSE
  PROVE  Spec => []StoppedBeforeCancelled
<1>1. Init => MetadataOK /\ StoppedBeforeCancelled
  BY MetadataInit DEF Init, ExecInit, StoppedBeforeCancelled, XIdle
<1> QED
  BY <1>1, MetadataStep, StoppedStep, ExecInvariant, PTL DEF Spec

-------------------------------------------------------------------------------
(***************************************************************************)
(* Refinement of ExecutionStatus.                                          *)
(***************************************************************************)

Cancels(x, e) == xcall[x].pc \in {"stopLookup", "stop", "cancel"} /\ xcall[x].ex = e

LEMMA WritersFun ==
  /\ Writers = [e \in Execution |-> Writers[e]]
  /\ Writers' = [e \in Execution |-> Writers'[e]]
  BY DEF Writers

(* A step that changes neither who cancels what nor which chains are on      *)
(* their way leaves the writers as they are.                                *)
LEMMA WritersSame ==
  ASSUME \A e \in Execution : /\ \A x \in XCall : Cancels(x, e)' <=> Cancels(x, e)
                              /\ chain'[e].pc \in InProgress <=> chain[e].pc \in InProgress
  PROVE  Writers' = Writers
<1>1. \A e \in Execution : CancelPending(e)' = CancelPending(e)
  BY DEF CancelPending, Cancels
<1> QED
  BY <1>1 DEF Writers

LEMMA StatusStep == ExecInv /\ [Next]_vars => [Promise!StatusNext]_(Promise!statusVars)
<1> SUFFICES ASSUME ExecInv, [Next]_vars
             PROVE  Promise!StatusNext \/ (exStatus' = exStatus /\ Writers' = Writers)
  BY DEF Promise!statusVars
<1> USE ExecAssumption
    DEF ExecInv, ExecTypeOK, FrameOK, ChainOK, XIdle, XFrame, XGoto, XReturn, ChainGoto
(* A new row starts with its chain as the only writer.                      *)
<1>1. ASSUME NEW x \in XCall, NEW e \in Execution, ExecuteCreate(x, e) \/ RetryCreate(x, e)
      PROVE  Promise!Start(e)
  <2>1. /\ exStatus[e] = "none" /\ exStatus' = [exStatus EXCEPT ![e] = "PENDING"]
        /\ chain' = [chain EXCEPT ![e].pc = "map"]
        /\ xcall[x].pc \in {"create", "recreate"} /\ xcall' = [xcall EXCEPT ![x] = XIdle]
    BY <1>1 DEF ExecuteCreate, RetryCreate, CreateExecution
  <2>2. \A y \in XCall, f \in Execution : Cancels(y, f)' <=> Cancels(y, f)
    BY <2>1 DEF Cancels
  <2>3. \A f \in Execution : f # e => CancelPending(f)' = CancelPending(f) /\ chain'[f] = chain[f]
    BY <2>1, <2>2 DEF CancelPending, Cancels
  <2>4. CancelPending(e)' = {}
    BY <2>1, <2>2 DEF CancelPending, Cancels
  <2>5. chain'[e].pc \in InProgress
    BY <2>1 DEF InProgress
  <2>6. Writers' = [Writers EXCEPT ![e] = {None}]
    BY <2>3, <2>4, <2>5 DEF Writers
  <2> QED
    BY <2>1, <2>6 DEF Promise!Start
(* An accepted cancellation becomes a writer.                               *)
<1>2. ASSUME NEW x \in XCall, NEW e \in Execution, CancelCheck(x, e)
      PROVE  Promise!AcceptCancel(e, x)
  <2>1. /\ exStatus[e] \in Active /\ UNCHANGED <<exStatus, chain>> /\ xcall[x].pc = "idle"
        /\ xcall' = [xcall EXCEPT ![x] = [pc |-> "stopLookup", wf |-> None, ex |-> e, n8n |-> None]]
    BY <1>2 DEF CancelCheck
  <2>2. \A f \in Execution : CancelPending(f)' = IF f = e THEN CancelPending(f) \cup {x} ELSE CancelPending(f)
    BY <2>1 DEF CancelPending
  <2>3. Writers' = [Writers EXCEPT ![e] = @ \cup {x}]
    BY <2>1, <2>2 DEF Writers
  <2>4. x \notin Writers[e]
    BY <2>1, ExecAssumption DEF Writers, CancelPending
  <2> QED
    BY <2>1, <2>3, <2>4 DEF Promise!AcceptCancel, Promise!Active, Active
(* Its write of CANCELLED is that writer's one write.                       *)
<1>3. ASSUME NEW x \in XCall, CancelWrite(x)
      PROVE  Promise!Write(xcall[x].ex, x)
  <2> DEFINE e == xcall[x].ex
  <2>1. /\ exStatus' = [exStatus EXCEPT ![e] = "CANCELLED"] /\ UNCHANGED chain
        /\ xcall[x].pc = "cancel" /\ xcall' = [xcall EXCEPT ![x] = XIdle] /\ e \in Execution
    BY <1>3 DEF CancelWrite
  <2>2. \A f \in Execution : CancelPending(f)' = IF f = e THEN CancelPending(f) \ {x} ELSE CancelPending(f)
    BY <2>1 DEF CancelPending
  <2>3. Writers' = [Writers EXCEPT ![e] = @ \ {x}]
    <3>1. x # None
      OBVIOUS
    <3>2. \A f \in Execution : Writers'[f] = IF f = e THEN Writers[f] \ {x} ELSE Writers[f]
      BY <2>1, <2>2, <3>1 DEF Writers
    <3> QED
      BY <3>2, WritersFun
  <2>4. x \in Writers[e] /\ x # None
    BY <2>1, ExecAssumption DEF Writers, CancelPending
  <2> QED
    BY <2>1, <2>3, <2>4 DEF Promise!Write
(* The outcome is the chain's one write.                                    *)
<1>4. ASSUME NEW e \in Execution, ChainComplete(e) \/ ChainFail(e)
      PROVE  Promise!Write(e, None)
  <2>1. /\ \E o \in {"COMPLETED", "FAILED"} : exStatus' = [exStatus EXCEPT ![e] = o]
        /\ UNCHANGED xcall /\ chain' = [chain EXCEPT ![e].pc = "settled"]
        /\ chain[e].pc \in InProgress
    BY <1>4 DEF ChainComplete, ChainFail, InProgress
  <2>2. \A f \in Execution : CancelPending(f)' = CancelPending(f) /\ None \notin CancelPending(f)
    BY <2>1, ExecAssumption DEF CancelPending
  <2>3. \A f \in Execution : f # e => chain'[f] = chain[f]
    BY <2>1
  <2>4. chain'[e].pc \notin InProgress
    BY <2>1 DEF InProgress
  <2>5. Writers' = [Writers EXCEPT ![e] = @ \ {None}]
    <3>1. Writers'[e] = Writers[e] \ {None}
      BY <2>2, <2>4 DEF Writers
    <3>2. \A f \in Execution : f # e => Writers'[f] = Writers[f]
      BY <2>2, <2>3 DEF Writers
    <3> QED
      BY <3>1, <3>2, WritersFun
  <2>6. None \in Writers[e]
    BY <2>1 DEF Writers
  <2> QED
    BY <2>1, <2>5, <2>6 DEF Promise!Write
<1>5. CASE Crash
  <2>1. /\ UNCHANGED exStatus /\ xcall' = [x \in XCall |-> XIdle]
        /\ \A e \in Execution : chain'[e].pc \notin InProgress
    BY <1>5 DEF Crash, InProgress
  <2>2. \A e \in Execution : CancelPending(e)' = {}
    BY <2>1 DEF CancelPending
  <2>3. Writers' = [e \in Execution |-> {}]
    BY <2>1, <2>2 DEF Writers
  <2> QED
    BY <2>1, <2>3 DEF Promise!StatusNext, Promise!LoseWriters
(* The other steps leave the status and its writers alone.                  *)
<1>6. ASSUME NEW x \in XCall,
             \/ \E w \in Workflow : ExecuteCheck(x, w)
             \/ \E e \in Execution : RetryCheck(x, e)
             \/ CancelLookup(x) \/ CancelStop(x)
      PROVE  exStatus' = exStatus /\ Writers' = Writers
  <2>1. UNCHANGED <<exStatus, chain>>
    BY <1>6 DEF ExecuteCheck, RetryCheck, CancelLookup, CancelStop
  <2>2. CASE \E w \in Workflow : ExecuteCheck(x, w)
    BY <2>1, <2>2, WritersSame DEF ExecuteCheck, Cancels
  <2>3. CASE \E e \in Execution : RetryCheck(x, e)
    BY <2>1, <2>3, WritersSame DEF RetryCheck, Cancels
  <2>4. CASE CancelLookup(x)
    <3>1. /\ xcall'[x].pc \in {"stop", "cancel"} /\ xcall'[x].ex = xcall[x].ex
          /\ xcall[x].pc = "stopLookup"
          /\ \A y \in XCall : y # x => xcall'[y] = xcall[y]
      BY <2>4 DEF CancelLookup
    <3>2. \A y \in XCall, e \in Execution : Cancels(y, e)' <=> Cancels(y, e)
      BY <3>1 DEF Cancels
    <3> QED
      BY <2>1, <3>2, WritersSame
  <2>5. CASE CancelStop(x)
    BY <2>1, <2>5, WritersSame DEF CancelStop, Cancels
  <2> QED
    BY <1>6, <2>1, <2>2, <2>3, <2>4, <2>5
<1>7. ASSUME NEW e \in Execution, ChainAdvances(e) \/ RunEnds(e), ~ChainComplete(e), ~ChainFail(e)
      PROVE  exStatus' = exStatus /\ Writers' = Writers
  <2>1. UNCHANGED <<exStatus, xcall>>
    BY <1>7 DEF ChainAdvances, ChainMap, ChainPost, ChainPostFails, ChainReply, ChainReplyLost,
                ChainStore, ChainCompleteFails, RunEnds
  <2>2. \A f \in Execution : chain'[f].pc \in InProgress <=> chain[f].pc \in InProgress
    BY <1>7 DEF ChainAdvances, ChainMap, ChainPost, ChainPostFails, ChainReply, ChainReplyLost,
                ChainStore, ChainCompleteFails, RunEnds, InProgress
  <2> QED
    BY <2>1, <2>2, WritersSame DEF Cancels
<1>8. CASE UNCHANGED execVars
  BY <1>8, WritersSame DEF execVars, Cancels
<1>9. ASSUME NEW x \in XCall, Request(x)
      PROVE  Promise!StatusNext \/ (exStatus' = exStatus /\ Writers' = Writers)
  <2>1. ASSUME NEW e \in Execution, ExecuteCreate(x, e) \/ RetryCreate(x, e)
        PROVE  Promise!StatusNext
    BY <1>1, <2>1 DEF Promise!StatusNext
  <2>2. ASSUME NEW e \in Execution, CancelCheck(x, e)
        PROVE  Promise!StatusNext
    BY <1>2, <2>2 DEF Promise!StatusNext
  <2>3. CASE CancelWrite(x)
    <3>1. xcall[x].ex \in Execution
      BY <2>3 DEF CancelWrite
    <3> QED
      BY <1>3, <2>3, <3>1 DEF Promise!StatusNext
  <2> QED
    BY <1>6, <1>9, <2>1, <2>2, <2>3 DEF Request
<1>10. ASSUME NEW e \in Execution, ChainAdvances(e) \/ RunEnds(e)
       PROVE  Promise!StatusNext \/ (exStatus' = exStatus /\ Writers' = Writers)
  <2>1. ASSUME ChainComplete(e) \/ ChainFail(e)
        PROVE  Promise!StatusNext
    BY <1>4, <2>1 DEF Promise!StatusNext
  <2> QED
    BY <1>7, <1>10, <2>1
<1> QED
  <2>1. \/ UNCHANGED execVars \/ Crash
        \/ \E x \in XCall : Request(x)
        \/ \E e \in Execution : ChainAdvances(e) \/ RunEnds(e)
    BY DEF Next, vars
  <2> QED
    BY <1>5, <1>8, <1>9, <1>10, <2>1

(* The execution service keeps the promise of ExecutionStatus.              *)
THEOREM StatusRefinement == Spec => ImplementsStatus
<1>1. Init => Promise!StatusInit
  <2> SUFFICES ASSUME Init
               PROVE  Promise!StatusInit
    OBVIOUS
  <2>1. \A e \in Execution : CancelPending(e) = {} /\ chain[e].pc \notin InProgress
    BY DEF Init, ExecInit, XIdle, CancelPending, InProgress
  <2> QED
    BY <2>1 DEF Init, ExecInit, Promise!StatusInit, Writers
<1> QED
  BY <1>1, StatusStep, ExecInvariant, PTL DEF Spec, ImplementsStatus, Promise!StatusSpec
===============================================================================
