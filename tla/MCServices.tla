----------------------------- MODULE MCServices -----------------------------
(***************************************************************************)
(* The components that share no state with one another, checked in one     *)
(* run: "service" says which of them acts, and the others stay as they     *)
(* begin.  The state graph is the sum of their state graphs.  What two of  *)
(* them name alike is one constant, or has a variable of its own here.     *)
(***************************************************************************)
EXTENDS Naturals, Sequences, FiniteSets, TLC

CONSTANTS
  Customers, Subscriptions, Methods, Invoices, Callers, Owner, Events, MaxCalls, Faults,  \* PaymentBilling
  Features, Names, Envs, Rules, TTL, None, FlagPage, FlagCalls,  \* FeatureFlags
  Channels, Users, ChannelPage,                          \* RealtimeChannels
  Fields, Life, Latency, AdminTime, AdminCalls,          \* KeycloakAdmin
  Params,                                                \* WorkflowTemplates
  Jobs, Tenants, Anyone, ReportTime,                     \* QueueReports
  Readers, FailedLimit, WaitingLimit, FailedConcern, WaitingConcern,  \* QueueHealth
  Rows, ListPage                                         \* PagedLists

VARIABLES
  service,
  customer, atLago, status, items, billed, used, method, invoice, event, calls, made, clean, faults,
  features, name, tagged, config, arrays, envs, reader, toggles, ready, cache, asked, found,
  since, changes,
  channels, settings, born, history, present, requests, walk, asks, tidy,
  now, token, expiry, admins, profile, wrote, apart, admined,
  templates, checked, instance,
  clock, rows, deleted, report, changed,
  jobs, paused, row, readers, moved,
  list, table, match, client

Payment  == INSTANCE PaymentBilling
Feature  == INSTANCE FeatureFlags WITH made <- changes, PageSize <- FlagPage, MaxCalls <- FlagCalls
Channel  == INSTANCE RealtimeChannels WITH calls <- requests, made <- asks, clean <- tidy, PageSize <- ChannelPage
Keycloak == INSTANCE KeycloakAdmin WITH calls <- admins, made <- admined, clean <- apart,
                                        MaxCalls <- AdminCalls, MaxTime <- AdminTime
StepIdentifiers == {"a", "b", "c", "start"}
Defs ==
  LET Make(i, D, t, p) == [id |-> i, deps |-> D, type |-> t, input |-> p]
      three == {[steps |-> <<Make("a", A, t, p), Make("b", B, "service", "plain"), Make("c", C, "other", p)>>,
                 globals |-> g] :
                  A \in SUBSET {"b", "c"}, B \in SUBSET {"a", "c"}, C \in SUBSET {"a", "b"},
                  t \in {"service", "other"}, p \in Params \cup {"plain"}, g \in SUBSET Params}
      two == {[steps |-> <<Make(x, A, "service", "plain"), Make(y, B, "service", p)>>, globals |-> {}] :
                  x \in {"a", "start"}, y \in {"a", "b"},
                  A \in SUBSET {"b", "start"}, B \in SUBSET {"a", "start"}, p \in Params}
  IN three \cup two \cup {[steps |-> <<>>, globals |-> {}]}
Template == INSTANCE WorkflowTemplates WITH Ids <- StepIdentifiers, StartId <- "start", Definitions <- Defs
Report   == INSTANCE QueueReports WITH now <- clock, MaxTime <- ReportTime
Health   == INSTANCE QueueHealth
Lists    == INSTANCE PagedLists WITH rows <- table, reader <- client, PageSize <- ListPage

\* A component that does not act has no state.
ServicesInit ==
  /\ service \in {"payment", "feature", "realtime", "keycloak", "templates", "reports", "health", "lists"}
  /\ IF service = "payment" THEN Payment!Init
     ELSE /\ customer = None /\ atLago = None /\ status = None /\ items = None
          /\ billed = None /\ used = None /\ method = None /\ invoice = None
          /\ event = None /\ calls = None /\ made = None /\ clean = None
          /\ faults = None
  /\ IF service = "feature" THEN Feature!Init
     ELSE /\ features = None /\ name = None /\ tagged = None /\ config = None
          /\ arrays = None /\ envs = None /\ reader = None /\ toggles = None
          /\ ready = None /\ cache = None /\ asked = None /\ found = None
          /\ since = None /\ changes = None
  /\ IF service = "realtime" THEN Channel!Init
     ELSE /\ channels = None /\ settings = None /\ born = None /\ history = None
          /\ present = None /\ requests = None /\ walk = None /\ asks = None
          /\ tidy = None
  /\ IF service = "keycloak" THEN Keycloak!Init
     ELSE /\ now = None /\ token = None /\ expiry = None /\ admins = None
          /\ profile = None /\ wrote = None /\ apart = None /\ admined = None
  /\ IF service = "templates" THEN Template!Init
     ELSE /\ templates = None /\ checked = None /\ instance = None
  /\ IF service = "reports" THEN Report!Init
     ELSE /\ clock = None /\ rows = None /\ deleted = None /\ report = None
          /\ changed = None
  /\ IF service = "health" THEN Health!Init
     ELSE /\ jobs = None /\ paused = None /\ row = None /\ readers = None
          /\ moved = None
  /\ IF service = "lists" THEN Lists!Init
     ELSE /\ list = None /\ table = None /\ match = None /\ client = None

paymentVars  == <<customer, atLago, status, items, billed, used, method, invoice, event, calls,
                  made, clean, faults>>
flagVars     == <<features, name, tagged, config, arrays, envs, reader, toggles, ready, cache,
                  asked, found, since, changes>>
channelVars  == <<channels, settings, born, history, present, requests, walk, asks, tidy>>
keycloakVars == <<now, token, expiry, admins, profile, wrote, apart, admined>>
templateVars == <<templates, checked, instance>>
reportVars   == <<clock, rows, deleted, report, changed>>
healthVars   == <<jobs, paused, row, readers, moved>>
listVars     == <<list, table, match, client>>

Acts(s) ==
  /\ service = s /\ UNCHANGED service
  /\ s # "payment"   => UNCHANGED paymentVars
  /\ s # "feature"   => UNCHANGED flagVars
  /\ s # "realtime"  => UNCHANGED channelVars
  /\ s # "keycloak"  => UNCHANGED keycloakVars
  /\ s # "templates" => UNCHANGED templateVars
  /\ s # "reports"   => UNCHANGED reportVars
  /\ s # "health"    => UNCHANGED healthVars
  /\ s # "lists"     => UNCHANGED listVars

ServicesNext ==
  \/ Acts("payment") /\ Payment!Next
  \/ Acts("feature") /\ Feature!Next
  \/ Acts("realtime") /\ Channel!Next
  \/ Acts("keycloak") /\ Keycloak!Next
  \/ Acts("templates") /\ Template!Next
  \/ Acts("reports") /\ Report!Next
  \/ Acts("health") /\ Health!Next
  \/ Acts("lists") /\ Lists!Next

ServicesVars == <<service, paymentVars, flagVars, channelVars, keycloakVars, templateVars,
                  reportVars, healthVars, listVars>>
ServicesSpec == ServicesInit /\ [][ServicesNext]_ServicesVars

OneOwner == [x \in Subscriptions \cup Methods \cup Invoices |-> CHOOSE u \in Customers : TRUE]
Webhooks == {[id |-> 1, provider |-> "lago", pays |-> i] : i \in Invoices}
            \cup {[id |-> n, provider |-> "other", pays |-> "other"] : n \in {2, 3}}
ASSUME ServicesAssumption ==
  /\ Payment!PaymentAssumption /\ Feature!FeatureAssumption /\ Channel!ChannelAssumption
  /\ Keycloak!KeycloakAssumption /\ Template!TemplateAssumption /\ Report!ReportAssumption
  /\ Health!HealthAssumption /\ Lists!ListAssumption
Symmetric == Permutations(Callers) \cup Permutations(Subscriptions)

-----------------------------------------------------------------------------
(* Every variable of every component has its type: what the services store *)
(* is always something they can read back.                                 *)
ServicesTypeOK ==
  CASE service = "payment"   -> Payment!TypeOK
    [] service = "feature"   -> Feature!TypeOK
    [] service = "realtime"  -> Channel!TypeOK
    [] service = "keycloak"  -> Keycloak!TypeOK
    [] service = "templates" -> Template!TypeOK
    [] service = "reports"   -> Report!TypeOK
    [] service = "health"    -> Health!TypeOK
    [] service = "lists"     -> Lists!TypeOK

(* PaymentBilling: a customer has no more default payment methods than     *)
(* calls can set one at once.                                              *)
DefaultsBounded == service = "payment" => Payment!DefaultsBounded

(* PaymentBilling: a customer whose calls ran one after another is not     *)
(* billed in Lago for more than the rows say, and is the same there.       *)
InStep == service = "payment" => Payment!InStep

(* PaymentBilling: no webhook that was acknowledged is without an outcome. *)
WebhookAccounted == service = "payment" => Payment!WebhookAccounted

(* FeatureFlags: once Unleash has given the same answer for as long as     *)
(* answers are cached, every cached answer is that one.                    *)
SettledAnswers == service = "feature" => Feature!SettledAnswers

(* FeatureFlags and PagedLists: a client that follows the pages of a list  *)
(* to its end has seen everything that matched when it began, but for what *)
(* the two modules except.                                                 *)
PagesMissNothing ==
  /\ service = "feature" => Feature!PagesMissNothing
  /\ service = "lists" => Lists!PagesMissNothing

(* FeatureFlags: removing a targeting rule from one environment leaves     *)
(* every other environment as it was, copies included.                     *)
RemovalIsLocal == [][service = "feature" => Feature!RemovalLeavesOthers]_flagVars

(* RealtimeChannels: the history of a channel holds nothing that was       *)
(* published to an earlier channel with its id.                            *)
HistoryIsOwn == service = "realtime" => Channel!HistoryIsOwn

(* RealtimeChannels: a user that was on a channel of the page from         *)
(* beginning to end is found there by every walk over the channels.        *)
OnlineIsComplete == service = "realtime" => Channel!OnlineIsComplete

(* KeycloakAdmin: no request is sent with an admin token that Keycloak has *)
(* refused for as long as one request may take.                            *)
TokenStaleness == service = "keycloak" => Keycloak!TokenStaleness

(* KeycloakAdmin: a user whose writes never overlapped has in every field  *)
(* what was written there last.                                            *)
UpdatesKept == service = "keycloak" => Keycloak!UpdatesKept

(* WorkflowTemplates: the workflow that is made of a sound template runs   *)
(* to its end in n8n, with no required parameter left open.                *)
InstanceRuns == service = "templates" => Template!InstanceRuns

(* QueueReports and QueueHealth: the numbers that are counted one by one   *)
(* while jobs change disagree by no more than the jobs that changed.       *)
ReportAddsUp ==
  /\ service = "reports" => Report!ReportAddsUp
  /\ service = "health" => Health!StatusAddsUp
=============================================================================
