----------------------- MODULE WorkflowTemplates_proofs -----------------------
(***************************************************************************)
(* Proofs about WorkflowTemplates: what convertToN8nFormat makes of any    *)
(* sound definition runs to its end, however many steps it has.            *)
(***************************************************************************)
EXTENDS WorkflowTemplates, TLAPS

(* The instance is what was made of a template of this kind.               *)
InstanceIsMade ==
  instance # None =>
    LET d == ApplyParameterOverrides(instance.of, instance.given)
    IN /\ instance.of \in Definitions
       /\ instance.given \subseteq Params
       /\ ValidateWorkflowDefinition(d)
       /\ instance.nodes = Nodes(d)
       /\ instance.edges = Connections(d)

TemplateInv ==
  /\ templates \in [Names -> Definitions \cup {None}]
  /\ checked \in [Callers -> Names \cup {None}]
  /\ InstanceIsMade

-----------------------------------------------------------------------------
LEMMA StepsOf ==
  ASSUME TemplateAssumption, NEW o \in Definitions
  PROVE  /\ o.steps \in Seq(Step) /\ o.globals \subseteq Params
         /\ \A i \in DOMAIN o.steps : o.steps[i] \in Step
  BY DEF TemplateAssumption

(* Filling in parameters changes no id and no dependency.                  *)
LEMMA Overrides ==
  ASSUME TemplateAssumption, NEW o \in Definitions, NEW given \in SUBSET Params, NEW d,
         d = ApplyParameterOverrides(o, given)
  PROVE  /\ DOMAIN d.steps = DOMAIN o.steps
         /\ \A i \in DOMAIN o.steps :
              /\ d.steps[i] \in Step
              /\ d.steps[i].id = o.steps[i].id
              /\ d.steps[i].deps = o.steps[i].deps
              /\ d.steps[i].input = IF o.steps[i].input \in given THEN "plain" ELSE o.steps[i].input
         /\ StepIds(d) = StepIds(o)
<1>1. o \in [steps: Seq(Step), globals: SUBSET Params]
  BY DEF TemplateAssumption
<1>2. d.steps = [i \in DOMAIN o.steps |->
                   IF o.steps[i].input \in given THEN [o.steps[i] EXCEPT !.input = "plain"] ELSE o.steps[i]]
  BY <1>1 DEF ApplyParameterOverrides
<1>3. ASSUME NEW i \in DOMAIN o.steps
      PROVE  /\ d.steps[i] \in Step
             /\ d.steps[i].id = o.steps[i].id
             /\ d.steps[i].deps = o.steps[i].deps
             /\ d.steps[i].input = IF o.steps[i].input \in given THEN "plain" ELSE o.steps[i].input
  <2>1. o.steps[i] \in Step
    BY StepsOf
  <2>2. CASE o.steps[i].input \in given
    <3>1. d.steps[i] = [o.steps[i] EXCEPT !.input = "plain"]
      BY <1>2, <2>2
    <3> QED
      BY <2>1, <2>2, <3>1 DEF Step
  <2>3. CASE o.steps[i].input \notin given
    <3>1. d.steps[i] = o.steps[i]
      BY <1>2, <2>3
    <3> QED
      BY <2>1, <2>3, <3>1
  <2> QED
    BY <2>2, <2>3
<1>4. DOMAIN d.steps = DOMAIN o.steps
  BY <1>2
<1>5. StepIds(d) = StepIds(o)
  BY <1>3, <1>4 DEF StepIds, Steps
<1> QED
  BY <1>3, <1>4, <1>5

-----------------------------------------------------------------------------
(* Every set of steps is entered: some step of it depends on none of them, *)
(* and what it depends on, or the start node, is connected to it.          *)
LEMMA EverySetIsEntered ==
  ASSUME TemplateAssumption, NEW o \in Definitions, NEW given \in SUBSET Params, NEW d,
         d = ApplyParameterOverrides(o, given), ValidateWorkflowDefinition(d),
         Acyclic(o), StartId \notin StepIds(o),
         NEW S \in SUBSET StepIds(o), S # {}
  PROVE  Entered(S, Connections(d))
<1>1. PICK s \in Steps(o) : s.id \in S /\ s.deps \cap S = {}
  BY DEF Acyclic
<1>2. PICK i \in DOMAIN o.steps : s = o.steps[i]
  BY <1>1 DEF Steps
<1> DEFINE t == d.steps[i]
<1>3. t \in Steps(d) /\ t.id = s.id /\ t.deps = s.deps /\ StepIds(d) = StepIds(o) /\ t \in Step
  BY <1>2, Overrides DEF Steps
<1> HIDE DEF t
<1>4. CASE t.deps = {}
  <2>1. t.id \in Roots(d)
    BY <1>3, <1>4 DEF Roots
  <2>2. Connections(d)[StartId] = Roots(d)
    BY <2>1 DEF Connections, TemplateAssumption
  <2>3. StartId \in Ids \ S
    BY DEF TemplateAssumption
  <2>4. Connections(d)[StartId] \cap S # {}
    BY <1>1, <1>3, <2>1, <2>2
  <2> QED
    BY <2>3, <2>4 DEF Entered
<1>5. CASE t.deps # {}
  <2>1. PICK x \in t.deps : TRUE
    BY <1>5
  <2>2. x \in StepIds(d)
    BY <1>3, <2>1 DEF ValidateWorkflowDefinition
  <2>3. x \in Ids /\ x \notin S /\ x # StartId
    BY <1>1, <1>3, <2>1, <2>2 DEF Step
  <2>4. Connections(d)[x] = {r.id : r \in {u \in Steps(d) : x \in u.deps}}
    BY <2>3 DEF Connections
  <2>5. t.id \in Connections(d)[x]
    BY <1>3, <2>1, <2>4
  <2> QED
    BY <1>1, <1>3, <2>3, <2>5 DEF Entered
<1> QED
  BY <1>4, <1>5

(* No connection starts or ends at what is not a node.                     *)
LEMMA NoLooseEnd ==
  ASSUME TemplateAssumption, NEW o \in Definitions, NEW given \in SUBSET Params, NEW d,
         d = ApplyParameterOverrides(o, given), ValidateWorkflowDefinition(d),
         NEW x \in Ids, Connections(d)[x] # {}
  PROVE  \E n \in Nodes(d) : n.id = x /\ Connections(d)[x] \subseteq StepIds(o)
<1>1. StepIds(d) = StepIds(o)
  BY Overrides
<1>2. CASE x = StartId /\ Roots(d) # {}
  <2>1. Connections(d)[x] = Roots(d)
    BY <1>2 DEF Connections
  <2>2. Roots(d) \subseteq StepIds(d)
    BY DEF Roots, StepIds
  <2>3. [id |-> StartId, input |-> "plain"] \in Nodes(d)
    BY <1>2 DEF Nodes
  <2> QED
    BY <1>1, <1>2, <2>1, <2>2, <2>3
<1>3. CASE ~(x = StartId /\ Roots(d) # {})
  <2>1. Connections(d)[x] = {r.id : r \in {u \in Steps(d) : x \in u.deps}}
    BY <1>3 DEF Connections
  <2>2. Connections(d)[x] \subseteq StepIds(d)
    BY <2>1 DEF StepIds
  <2>3. PICK u \in Steps(d) : x \in u.deps
    BY <2>1
  <2>4. x \in StepIds(d)
    BY <2>3 DEF ValidateWorkflowDefinition
  <2>5. PICK v \in Steps(d) : v.id = x
    BY <2>4 DEF StepIds
  <2>6. ConvertStepToNode(v) \in Nodes(d) /\ ConvertStepToNode(v).id = x
    BY <2>5 DEF Nodes, ConvertStepToNode
  <2> QED
    BY <1>1, <2>2, <2>6
<1> QED
  BY <1>2, <1>3

(* The placeholders that are left have a default.                          *)
LEMMA NothingLeftOpen ==
  ASSUME TemplateAssumption, NEW o \in Definitions, NEW given \in SUBSET Params, NEW d,
         d = ApplyParameterOverrides(o, given), ParameterSchemas(o) \subseteq given,
         NEW n \in Nodes(d)
  PROVE  n.input \in o.globals \cup {"plain"}
<1>1. CASE n.input = "plain"
  BY <1>1
<1>2. CASE n.input # "plain"
  <2>1. PICK s \in Steps(d) : n = ConvertStepToNode(s)
    BY <1>2 DEF Nodes
  <2>2. n.input = s.input
    BY <1>2, <2>1 DEF ConvertStepToNode
  <2>3. PICK i \in DOMAIN d.steps : s = d.steps[i]
    BY DEF Steps
  <2>4. i \in DOMAIN o.steps /\ s.input = IF o.steps[i].input \in given THEN "plain" ELSE o.steps[i].input
    BY <2>3, Overrides
  <2>5. o.steps[i].input \notin given /\ n.input = o.steps[i].input
    BY <1>2, <2>2, <2>4
  <2>6. o.steps[i] \in Steps(o)
    BY <2>4 DEF Steps
  <2> QED
    BY <2>5, <2>6 DEF ParameterSchemas
<1> QED
  BY <1>1, <1>2

-----------------------------------------------------------------------------
LEMMA MadeRuns ==
  ASSUME TemplateAssumption, InstanceIsMade
  PROVE  InstanceRuns
<1> SUFFICES ASSUME instance # None, Acyclic(instance.of), StartId \notin StepIds(instance.of)
             PROVE  /\ \A S \in SUBSET StepIds(instance.of) : S # {} => Entered(S, instance.edges)
                    /\ \A x \in Ids : instance.edges[x] # {} =>
                         \E n \in instance.nodes : n.id = x /\ instance.edges[x] \subseteq StepIds(instance.of)
                    /\ ParameterSchemas(instance.of) \subseteq instance.given =>
                         \A n \in instance.nodes : n.input \in instance.of.globals \cup {"plain"}
  BY DEF InstanceRuns
<1> DEFINE d == ApplyParameterOverrides(instance.of, instance.given)
<1>1. /\ instance.of \in Definitions /\ instance.given \in SUBSET Params
      /\ ValidateWorkflowDefinition(d)
      /\ instance.nodes = Nodes(d) /\ instance.edges = Connections(d)
  BY DEF InstanceIsMade
<1>2. \A S \in SUBSET StepIds(instance.of) : S # {} => Entered(S, instance.edges)
  BY <1>1, EverySetIsEntered
<1>3. \A x \in Ids : instance.edges[x] # {} =>
        \E n \in instance.nodes : n.id = x /\ instance.edges[x] \subseteq StepIds(instance.of)
  BY <1>1, NoLooseEnd
<1>4. ParameterSchemas(instance.of) \subseteq instance.given =>
        \A n \in instance.nodes : n.input \in instance.of.globals \cup {"plain"}
  BY <1>1, NothingLeftOpen
<1> QED
  BY <1>2, <1>3, <1>4

(* Every node and every connection it is given has its type.               *)
LEMMA MadeIsTyped ==
  ASSUME TemplateAssumption, TemplateInv
  PROVE  TypeOK
<1> SUFFICES ASSUME instance # None
             PROVE  /\ instance.edges \in [Ids -> SUBSET Ids]
                    /\ \A x \in instance.nodes : x.id \in Ids /\ x.input \in Params \cup {"plain"}
  BY DEF TypeOK, TemplateInv, InstanceIsMade
<1> DEFINE o == instance.of
           given == instance.given
           d == ApplyParameterOverrides(o, given)
<1>1. /\ o \in Definitions /\ given \in SUBSET Params
      /\ instance.nodes = Nodes(d) /\ instance.edges = Connections(d)
  BY DEF TemplateInv, InstanceIsMade
<1>2. DOMAIN d.steps = DOMAIN o.steps /\ \A i \in DOMAIN o.steps : d.steps[i] \in Step
  BY <1>1, Overrides
<1> HIDE DEF d
<1>3. \A s \in Steps(d) : s \in Step /\ s.id \in Ids
  BY <1>2 DEF Steps, Step
<1>4. instance.edges \in [Ids -> SUBSET Ids]
  BY <1>1, <1>3 DEF Connections, Roots
<1>5. \A s \in Steps(d) : LET n == ConvertStepToNode(s) IN n.id \in Ids /\ n.input \in Params \cup {"plain"}
  BY <1>3 DEF ConvertStepToNode, Step
<1>6. \A n \in Nodes(d) : n.id \in Ids /\ n.input \in Params \cup {"plain"}
  BY <1>5, TemplateAssumption DEF TemplateAssumption, Nodes
<1> QED
  BY <1>1, <1>4, <1>6

LEMMA InitInv == Init => TemplateInv
  BY DEF Init, TemplateInv, InstanceIsMade

LEMMA StepInv == TemplateInv /\ [Next]_vars => TemplateInv'
<1> SUFFICES ASSUME TemplateInv, [Next]_vars PROVE TemplateInv'
  OBVIOUS
<1>1. CASE UNCHANGED vars
  BY <1>1 DEF vars, TemplateInv, InstanceIsMade
<1>2. ASSUME NEW t \in Names, NEW c \in Callers, CreateTemplate(c, t) PROVE TemplateInv'
  <2>1. instance' = instance
    BY <1>2 DEF CreateTemplate
  <2>2. templates' \in [Names -> Definitions \cup {None}] /\ checked' \in [Callers -> Names \cup {None}]
    BY <1>2 DEF CreateTemplate, TemplateInv
  <2> QED
    BY <2>1, <2>2 DEF TemplateInv, InstanceIsMade
<1>3. ASSUME NEW t \in Names, NEW given \in SUBSET Params, InstantiateTemplate(t, given)
      PROVE  TemplateInv'
  <2> DEFINE o == templates[t]
             d == ApplyParameterOverrides(o, given)
  <2>1. o \in Definitions /\ ValidateWorkflowDefinition(d) /\ UNCHANGED <<templates, checked>>
    BY <1>3 DEF InstantiateTemplate, TemplateInv
  <2>2. instance' = [of |-> o, given |-> given, nodes |-> Nodes(d), edges |-> Connections(d)]
    BY <1>3 DEF InstantiateTemplate
  <2> HIDE DEF o
  <2>3. instance'.of = o /\ instance'.given = given /\ instance'.nodes = Nodes(d) /\ instance'.edges = Connections(d)
    BY <2>2
  <2>4. InstanceIsMade'
    BY <2>1, <2>3 DEF InstanceIsMade
  <2> QED
    BY <2>1, <2>4 DEF TemplateInv
<1> QED
  BY <1>1, <1>2, <1>3 DEF Next

(* Whatever its steps, a workflow that instantiateTemplate made of a       *)
(* template without a cycle or a step called "start" runs to its end: the  *)
(* connections of convertToN8nFormat reach every step and nothing else,    *)
(* and no required parameter is left open.                                 *)
THEOREM EveryInstanceRuns ==
  ASSUME TemplateAssumption
  PROVE  Spec => []InstanceRuns
<1>1. TemplateInv => InstanceRuns
  BY MadeRuns DEF TemplateInv
<1> QED
  BY <1>1, InitInv, StepInv, PTL DEF Spec
=============================================================================
