----------------------------- MODULE WorkflowSync -----------------------------
(***************************************************************************)
(* workflow-service: WorkflowService (create, update, delete) and the half *)
(* of N8nService that keeps one n8n workflow in step with every workflow   *)
(* row.  Each handler is a sequence of awaited statements (a Prisma query  *)
(* or an HTTP request); one action is one statement, so concurrent         *)
(* handlers interleave exactly where the code awaits.                      *)
(*                                                                         *)
(* A definition (the JSON document) is a member of Def; n8n's own workflow *)
(* ids are the members of N8nId, handed out once each.                     *)
(***************************************************************************)
EXTENDS Naturals

CONSTANTS Workflow,    \* workflow ids
          Def,         \* workflow definitions
          N8nId,       \* ids n8n can give to a workflow it creates
          Call,        \* concurrent update / delete handlers
          MaxVersion,  \* bound on the version column
          Faults,      \* TRUE: requests may fail and the process may crash
          None,        \* null, or a row that does not exist
          Blank        \* the empty string, used as an n8n workflow id

ASSUME SyncAssumption ==
  /\ MaxVersion \in Nat \ {0}
  /\ Faults \in BOOLEAN
  /\ None \notin Workflow \cup Def \cup N8nId \cup {Blank}
  /\ Blank \notin N8nId
  /\ None \notin [id : N8nId \cup {Blank}, sync : {"synced", "error"}]

VARIABLES status,      \* workflow.status, "none" before the row is created
          version,     \* workflow.version
          def,         \* workflow.definition
          mapping,     \* the n8nMapping row of a workflow, or None
          n8nOwner,    \* n8n: the workflow an id was created for, or None
          n8nDef,      \* n8n: the definition stored under an id, or None
          call         \* the handlers in flight

rowVars  == <<status, version, def>>
n8nVars  == <<n8nOwner, n8nDef>>
syncVars == <<status, version, def, mapping, n8nOwner, n8nDef, call>>

WorkflowStatus == {"none", "DRAFT", "ACTIVE", "ARCHIVED"}

Mapping == [id : N8nId \cup {Blank}, sync : {"synced", "error"}]

CallStep == {"idle", "write", "sync", "put", "post", "saveSynced", "saveMapping",
             "saveError", "count", "lookup", "n8nDelete", "unmap", "archive"}

Frame == [pc : CallStep, wf : Workflow \cup {None}, def : Def \cup {None},
          id : N8nId \cup {None, Blank}]

Idle == [pc |-> "idle", wf |-> None, def |-> None, id |-> None]

SyncTypeOK ==
  /\ status \in [Workflow -> WorkflowStatus]
  /\ version \in [Workflow -> 1..MaxVersion]
  /\ def \in [Workflow -> Def \cup {None}]
  /\ mapping \in [Workflow -> Mapping \cup {None}]
  /\ n8nOwner \in [N8nId -> Workflow \cup {None}]
  /\ n8nDef \in [N8nId -> Def \cup {None}]
  /\ call \in [Call -> Frame]
  /\ \A c \in Call : /\ call[c].pc # "idle" => call[c].wf \in Workflow
                     /\ call[c].pc = "saveMapping" => call[c].id \in N8nId

SyncInit ==
  /\ status = [w \in Workflow |-> "none"]
  /\ version = [w \in Workflow |-> 1]
  /\ def = [w \in Workflow |-> None]
  /\ mapping = [w \in Workflow |-> None]
  /\ n8nOwner = [i \in N8nId |-> None]
  /\ n8nDef = [i \in N8nId |-> None]
  /\ call = [c \in Call |-> Idle]

(* The row names an n8n workflow: "mapping && mapping.n8nWorkflowId". *)
Linked(w) == mapping[w] # None /\ mapping[w].id # Blank

Goto(c, step) == call' = [call EXCEPT ![c].pc = step]
Return(c)     == call' = [call EXCEPT ![c] = Idle]

-------------------------------------------------------------------------------
(***************************************************************************)
(* createWorkflow always stores DRAFT, so its own call of syncWorkflow is  *)
(* dead code.  Nothing in the repository moves a workflow to ACTIVE, which *)
(* executeWorkflow demands: Activate is an operator's update of the row.   *)
(***************************************************************************)
CreateWorkflow(w, d) ==
  /\ status[w] = "none"
  /\ status' = [status EXCEPT ![w] = "DRAFT"]
  /\ def' = [def EXCEPT ![w] = d]
  /\ UNCHANGED <<version, mapping, n8nVars, call>>

Activate(w) ==
  /\ status[w] = "DRAFT"
  /\ status' = [status EXCEPT ![w] = "ACTIVE"]
  /\ UNCHANGED <<version, def, mapping, n8nVars, call>>

(***************************************************************************)
(* updateWorkflow reads the row, then writes the definition of the request *)
(* or, when the request has none, the definition it READ; the version      *)
(* increment is done by the database.  There is no test of the status.     *)
(***************************************************************************)
UpdateRead(c, w, request) ==
  /\ call[c].pc = "idle"
  /\ status[w] # "none"
  /\ version[w] < MaxVersion
  /\ call' = [call EXCEPT ![c] =
                [pc  |-> "write", wf |-> w, id |-> None,
                 def |-> IF request = None THEN def[w] ELSE request]]
  /\ UNCHANGED <<rowVars, mapping, n8nVars>>

(* Mutant: syncs the definition read before the update. *)
UpdateWriteSyncsOld(c) ==
  LET w == call[c].wf IN
  /\ call[c].pc = "write"
  /\ version[w] < MaxVersion
  /\ def' = [def EXCEPT ![w] = call[c].def]
  /\ version' = [version EXCEPT ![w] = @ + 1]
  /\ call' = [call EXCEPT ![c].pc = "sync", ![c].def = def[w]]
  /\ UNCHANGED <<status, mapping, n8nVars>>

UpdateWrite(c) ==
  LET w == call[c].wf IN
  /\ call[c].pc = "write"
  /\ version[w] < MaxVersion
  /\ def' = [def EXCEPT ![w] = call[c].def]
  /\ version' = [version EXCEPT ![w] = @ + 1]
  /\ Goto(c, "sync")
  /\ UNCHANGED <<status, mapping, n8nVars>>

(* The update statement rejects (unique [tenantId, name, version], or the   *)
(* bound on versions of the model): the handler throws before any sync.    *)
UpdateReject(c) ==
  /\ call[c].pc = "write"
  /\ Faults \/ version[call[c].wf] = MaxVersion
  /\ Return(c)
  /\ UNCHANGED <<rowVars, mapping, n8nVars>>

-------------------------------------------------------------------------------
(***************************************************************************)
(* syncWorkflow                                                            *)
(***************************************************************************)
SyncLookup(c) ==
  LET row == mapping[call[c].wf] IN
  /\ call[c].pc = "sync"
  /\ \/ /\ row # None
        /\ call' = [call EXCEPT ![c].pc = "put", ![c].id = row.id]
     \/ /\ row = None
        /\ Goto(c, "post")
  /\ UNCHANGED <<rowVars, mapping, n8nVars>>

(* n8n knows an id from the moment it creates the workflow until deletion. *)
Exists(i) == i \in N8nId /\ n8nDef[i] # None

PutOk(c) ==
  /\ call[c].pc = "put"
  /\ Exists(call[c].id)
  /\ n8nDef' = [n8nDef EXCEPT ![call[c].id] = call[c].def]
  /\ Goto(c, "saveSynced")
  /\ UNCHANGED <<rowVars, mapping, n8nOwner>>

(* The request is answered 404, or it fails before or after n8n applied it. *)
PutFails(c) ==
  /\ call[c].pc = "put"
  /\ Goto(c, "saveError")
  /\ \/ /\ Faults \/ ~Exists(call[c].id)
        /\ UNCHANGED n8nDef
     \/ /\ Exists(call[c].id) /\ Faults
        /\ n8nDef' = [n8nDef EXCEPT ![call[c].id] = call[c].def]
  /\ UNCHANGED <<rowVars, mapping, n8nOwner>>

(* n8n creates a workflow under a fresh id for the workflow of the call.    *)
N8nCreates(c, i) ==
  /\ n8nOwner[i] = None
  /\ n8nOwner' = [n8nOwner EXCEPT ![i] = call[c].wf]
  /\ n8nDef' = [n8nDef EXCEPT ![i] = call[c].def]

PostOk(c, i) ==
  /\ call[c].pc = "post"
  /\ N8nCreates(c, i)
  /\ call' = [call EXCEPT ![c].pc = "saveMapping", ![c].id = i]
  /\ UNCHANGED <<rowVars, mapping>>

PostFails(c) ==
  /\ call[c].pc = "post"
  /\ Faults
  /\ UNCHANGED n8nVars \/ \E i \in N8nId : N8nCreates(c, i)
  /\ Goto(c, "saveError")
  /\ UNCHANGED <<rowVars, mapping>>

(* n8nMapping.update throws when the row is gone, and the catch runs. *)
SaveSynced(c) ==
  LET w == call[c].wf IN
  /\ call[c].pc = "saveSynced"
  /\ \/ /\ mapping[w] # None
        /\ mapping' = [mapping EXCEPT ![w].sync = "synced"]
        /\ Return(c)
     \/ /\ mapping[w] = None
        /\ Goto(c, "saveError")
        /\ UNCHANGED mapping
  /\ UNCHANGED <<rowVars, n8nVars>>

(* Mutant: the id of n8n's answer is not stored. *)
SaveMappingBlank(c) ==
  LET w == call[c].wf IN
  /\ call[c].pc = "saveMapping"
  /\ mapping[w] = None
  /\ mapping' = [mapping EXCEPT ![w] = [id |-> Blank, sync |-> "synced"]]
  /\ Return(c)
  /\ UNCHANGED <<rowVars, n8nVars>>

(* Mutant: the row is created for whichever workflow. *)
SaveMappingAnywhere(c) ==
  /\ call[c].pc = "saveMapping"
  /\ \E w \in Workflow : mapping' = [mapping EXCEPT ![w] = [id |-> call[c].id, sync |-> "synced"]]
  /\ Return(c)
  /\ UNCHANGED <<rowVars, n8nVars>>

(* n8nMapping.create: workflowId is unique, a second row is refused. *)
SaveMapping(c) ==
  LET w == call[c].wf IN
  /\ call[c].pc = "saveMapping"
  /\ \/ /\ mapping[w] = None
        /\ mapping' = [mapping EXCEPT ![w] = [id |-> call[c].id, sync |-> "synced"]]
        /\ Return(c)
     \/ /\ mapping[w] # None
        /\ Goto(c, "saveError")
        /\ UNCHANGED mapping
  /\ UNCHANGED <<rowVars, n8nVars>>

(* Mutant: a third value of the sync status. *)
SaveErrorPending(c) ==
  /\ call[c].pc = "saveError"
  /\ mapping' = [mapping EXCEPT ![call[c].wf] = [id |-> Blank, sync |-> "pending"]]
  /\ Return(c)
  /\ UNCHANGED <<rowVars, n8nVars>>

(* The catch of syncWorkflow: the upsert creates a row with a blank id or   *)
(* marks the row there is; updateWorkflow then rethrows.                   *)
SaveError(c) ==
  LET w == call[c].wf IN
  /\ call[c].pc = "saveError"
  /\ mapping' = [mapping EXCEPT ![w] = IF @ = None THEN [id |-> Blank, sync |-> "error"]
                                                   ELSE [@ EXCEPT !.sync = "error"]]
  /\ Return(c)
  /\ UNCHANGED <<rowVars, n8nVars>>

-------------------------------------------------------------------------------
(***************************************************************************)
(* deleteWorkflow.  "active" is the outcome of its count of PENDING and    *)
(* RUNNING executions; errors of n8nService.deleteWorkflow are swallowed.  *)
(***************************************************************************)
DeleteRead(c, w) ==
  /\ call[c].pc = "idle"
  /\ status[w] # "none"
  /\ call' = [call EXCEPT ![c] = [Idle EXCEPT !.pc = "count", !.wf = w]]
  /\ UNCHANGED <<rowVars, mapping, n8nVars>>

DeleteCount(c, active) ==
  /\ call[c].pc = "count"
  /\ IF active THEN Return(c) ELSE Goto(c, "lookup")
  /\ UNCHANGED <<rowVars, mapping, n8nVars>>

(* Mutant: a row with a blank id is removed with its workflow. *)
DeleteLookupUnmapsBlank(c) ==
  LET w == call[c].wf IN
  /\ call[c].pc = "lookup"
  /\ call' = [call EXCEPT ![c].pc = IF Linked(w) THEN "n8nDelete" ELSE "unmap",
                          ![c].id = IF Linked(w) THEN mapping[w].id ELSE None]
  /\ UNCHANGED <<rowVars, mapping, n8nVars>>

DeleteLookup(c) ==
  LET w == call[c].wf IN
  /\ call[c].pc = "lookup"
  /\ \/ /\ Linked(w)
        /\ call' = [call EXCEPT ![c].pc = "n8nDelete", ![c].id = mapping[w].id]
     \/ /\ ~Linked(w)
        /\ Goto(c, "archive")
  /\ UNCHANGED <<rowVars, mapping, n8nVars>>

N8nDeleteOk(c) ==
  /\ call[c].pc = "n8nDelete"
  /\ Exists(call[c].id)
  /\ n8nDef' = [n8nDef EXCEPT ![call[c].id] = None]
  /\ Goto(c, "unmap")
  /\ UNCHANGED <<rowVars, mapping, n8nOwner>>

N8nDeleteFails(c) ==
  /\ call[c].pc = "n8nDelete"
  /\ Goto(c, "archive")
  /\ \/ /\ Faults \/ ~Exists(call[c].id)
        /\ UNCHANGED n8nDef
     \/ /\ Exists(call[c].id) /\ Faults
        /\ n8nDef' = [n8nDef EXCEPT ![call[c].id] = None]
  /\ UNCHANGED <<rowVars, mapping, n8nOwner>>

(* n8nMapping.delete by workflowId; a missing row is an error, swallowed. *)
Unmap(c) ==
  /\ call[c].pc = "unmap"
  /\ mapping' = [mapping EXCEPT ![call[c].wf] = None]
  /\ Goto(c, "archive")
  /\ UNCHANGED <<rowVars, n8nVars>>

Archive(c) ==
  /\ call[c].pc = "archive"
  /\ status' = [status EXCEPT ![call[c].wf] = "ARCHIVED"]
  /\ Return(c)
  /\ UNCHANGED <<version, def, mapping, n8nVars>>

(* The process dies: every handler in flight stops where it is. *)
CrashCalls ==
  /\ Faults
  /\ call' = [c \in Call |-> Idle]
  /\ UNCHANGED <<rowVars, mapping, n8nVars>>

(* One step of a handler, other than the count of deleteWorkflow. *)
HandlerStep(c) ==
  \/ \E w \in Workflow, request \in Def \cup {None} : UpdateRead(c, w, request)
  \/ UpdateWrite(c) \/ UpdateReject(c)
  \/ SyncLookup(c) \/ PutOk(c) \/ PutFails(c)
  \/ (\E i \in N8nId : PostOk(c, i)) \/ PostFails(c)
  \/ SaveSynced(c) \/ SaveMapping(c) \/ SaveError(c)
  \/ \E w \in Workflow : DeleteRead(c, w)
  \/ DeleteLookup(c) \/ N8nDeleteOk(c) \/ N8nDeleteFails(c)
  \/ Unmap(c) \/ Archive(c)

SyncStep ==
  \/ \E w \in Workflow, d \in Def : CreateWorkflow(w, d)
  \/ \E w \in Workflow : Activate(w)
  \/ \E c \in Call : HandlerStep(c)

(* On its own, the module lets the count of executions come out either way. *)
SyncNext ==
  \/ SyncStep
  \/ \E c \in Call, active \in BOOLEAN : DeleteCount(c, active)
  \/ CrashCalls

SyncSpec == SyncInit /\ [][SyncNext]_syncVars

-------------------------------------------------------------------------------
(***************************************************************************)
(* Properties                                                              *)
(***************************************************************************)

(* A mapping row never names an n8n workflow made for another workflow, so  *)
(* running, updating or deleting one workflow never touches another's.      *)
MappingIsOwn ==
  \A w \in Workflow : Linked(w) => n8nOwner[mapping[w].id] = w

(* A row whose first synchronisation failed keeps its blank id for good: the *)
(* later updates PUT to it and deleteWorkflow steps over it.                *)
BlankIsForever ==
  [][\A w \in Workflow : mapping[w] # None /\ mapping[w].id = Blank
                           => mapping'[w] # None /\ mapping'[w].id = Blank]_syncVars

Quiet(w) == \A c \in Call : call[c].wf # w

(* Once no handler works on a workflow, "synced" means that n8n holds the    *)
(* definition the row has: the last update won on both sides.               *)
SyncedIsCurrent ==
  \A w \in Workflow : Quiet(w) /\ mapping[w] # None /\ mapping[w].sync = "synced"
      => Linked(w) /\ n8nDef[mapping[w].id] = def[w]

(* Once no handler works on a workflow, the only workflow n8n still holds    *)
(* for it is the one its row names: nothing active is left behind in n8n.   *)
NoOrphan ==
  \A i \in N8nId : LET w == n8nOwner[i] IN
     Exists(i) /\ Quiet(w) => mapping[w] # None /\ mapping[w].id = i
===============================================================================
