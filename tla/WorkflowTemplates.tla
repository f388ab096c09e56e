-------------------------- MODULE WorkflowTemplates --------------------------
(***************************************************************************)
(* Templates of workflows (TemplateService), the workflows made of them,   *)
(* and what n8n is given to run: a node for each step and the connections  *)
(* between them (N8nService).                                              *)
(*                                                                         *)
(* A step has an id, the ids it depends on, a type of which only "service" *)
(* matters, since only its node carries the input, and one input: a plain  *)
(* value or a placeholder {{p}}, which is the parameter p.  The row of the *)
(* workflow and its copy in n8n are those of WorkflowSync.                 *)
(***************************************************************************)
EXTENDS Naturals, Sequences

CONSTANTS Names, Callers, Ids, Params,
          StartId,       \* the id "start", which convertToN8nFormat uses too
          Definitions,   \* [steps, globals], as they come from a client
          None

Step == [id: Ids, deps: SUBSET Ids, type: {"service", "other"}, input: Params \cup {"plain"}]
TemplateAssumption ==
  /\ StartId \in Ids
  /\ Definitions \subseteq [steps: Seq(Step), globals: SUBSET Params]

VARIABLES
  templates,   \* the template of a name, or None
  checked,     \* calls of createTemplate that found their name free
  instance     \* the last workflow that was made of a template

vars == <<templates, checked, instance>>

TypeOK ==
  /\ templates \in [Names -> Definitions \cup {None}]
  /\ checked \in [Callers -> Names \cup {None}]
  /\ instance # None =>
       /\ instance.of \in Definitions /\ instance.given \subseteq Params
       /\ instance.edges \in [Ids -> SUBSET Ids]
       /\ \A x \in instance.nodes : x.id \in Ids /\ x.input \in Params \cup {"plain"}

Init ==
  /\ templates = [t \in Names |-> None]
  /\ checked = [c \in Callers |-> None]
  /\ instance = None

Steps(d)   == {d.steps[i] : i \in DOMAIN d.steps}
StepIds(d) == {s.id : s \in Steps(d)}

-----------------------------------------------------------------------------
(* TemplateService: the definition as it is stored and filled in.          *)

\* The parameters that extractParameterSchemas says are required.
ParameterSchemas(d) == {s.input : s \in Steps(d)} \ (d.globals \cup {"plain"})

ApplyParameterOverrides(d, given) ==
  [d EXCEPT !.steps = [i \in DOMAIN d.steps |->
     IF d.steps[i].input \in given THEN [d.steps[i] EXCEPT !.input = "plain"] ELSE d.steps[i]]]

-----------------------------------------------------------------------------
(* WorkflowService.                                                        *)

ValidateWorkflowDefinition(d) ==
  /\ d.steps # <<>>
  /\ \A i, j \in DOMAIN d.steps : d.steps[i].id = d.steps[j].id => i = j
  /\ \A s \in Steps(d) : s.deps \subseteq StepIds(d)

-----------------------------------------------------------------------------
(* N8nService.                                                             *)

(* Mutant: the start node is connected to the first of them.               *)
FirstRoot(d) == {d.steps[i].id : i \in {j \in DOMAIN d.steps :
                   d.steps[j].deps = {} /\ \A k \in 1..(j - 1) : d.steps[k].deps # {}}}
Roots(d) == {s.id : s \in {r \in Steps(d) : r.deps = {}}}

ConvertStepToNode(s) == [id |-> s.id, input |-> IF s.type = "service" THEN s.input ELSE "plain"]

\* A node "start" of its own, if some step depends on none ...
Nodes(d) == {ConvertStepToNode(s) : s \in Steps(d)}
            \cup {[id |-> r, input |-> "plain"] : r \in IF Roots(d) = {} THEN {} ELSE {StartId}}
\* ... whose connections take the place of those of a step with that id.
Connections(d) ==
  [x \in Ids |-> IF x = StartId /\ Roots(d) # {} THEN Roots(d)
                 ELSE {s.id : s \in {t \in Steps(d) : x \in t.deps}}]

-----------------------------------------------------------------------------
\* createTemplate: a look for the name, and the insert, which refuses a name
\* that was taken in between.
CreateTemplate(c, t) ==
  /\ \/ checked[c] = None /\ templates[t] = None
        /\ checked' = [checked EXCEPT ![c] = t] /\ UNCHANGED templates
     \/ /\ checked[c] = t
        /\ checked' = [checked EXCEPT ![c] = None]
        /\ IF templates[t] = None
           THEN \E d \in Definitions : templates' = [templates EXCEPT ![t] = d]
           ELSE UNCHANGED templates
  /\ UNCHANGED instance

\* instantiateTemplate, which calls createWorkflow, which calls n8n.
InstantiateTemplate(t, given) ==
  /\ templates[t] # None
  /\ LET d == ApplyParameterOverrides(templates[t], given)
     IN /\ ValidateWorkflowDefinition(d)
        /\ instance' = [of |-> templates[t], given |-> given,
                        nodes |-> Nodes(d), edges |-> Connections(d)]
  /\ UNCHANGED <<templates, checked>>

Next == \E t \in Names :
  \/ \E c \in Callers : CreateTemplate(c, t)
  \/ \E given \in SUBSET Params : InstantiateTemplate(t, given)

Spec == Init /\ [][Next]_vars

-----------------------------------------------------------------------------
(* A workflow that is made of a template, with every parameter its schemas *)
(* require, runs to its end in n8n: the connections lead from the start    *)
(* node to every step (every set of steps is entered from outside), to     *)
(* nothing else, and the only placeholders left are parameters that have a *)
(* default.  Two things that validateWorkflowDefinition lets pass are in   *)
(* the way: a cycle, and a step whose id is "start".                       *)
Acyclic(d) ==
  \A S \in SUBSET StepIds(d) : S # {} => \E s \in Steps(d) : s.id \in S /\ s.deps \cap S = {}
Entered(S, edges) == \E x \in Ids \ S : edges[x] \cap S # {}

InstanceRuns ==
  instance # None /\ Acyclic(instance.of) /\ StartId \notin StepIds(instance.of) =>
    /\ \A S \in SUBSET StepIds(instance.of) : S # {} => Entered(S, instance.edges)
    /\ \A x \in Ids : instance.edges[x] # {} =>
         \E n \in instance.nodes : n.id = x /\ instance.edges[x] \subseteq StepIds(instance.of)
    /\ ParameterSchemas(instance.of) \subseteq instance.given =>
         \A n \in instance.nodes : n.input \in instance.of.globals \cup {"plain"}
=============================================================================
