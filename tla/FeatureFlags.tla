---------------------------- MODULE FeatureFlags ----------------------------
(***************************************************************************)
(* The feature service: the features it keeps in memory with the targeting *)
(* rules of their environments (FeatureRepository), and the answers of     *)
(* isEnabled that CacheService keeps in Redis.  The answers are Unleash's: *)
(* it is external, its toggles change by themselves, and an update of a    *)
(* feature here only makes its cached answers be asked for again.          *)
(*                                                                         *)
(* JavaScript copies references: copyEnvironment spreads the environment   *)
(* of the source, so both environments hold one array of rules.  The       *)
(* arrays are numbered in the order they were made.  The unit of time is   *)
(* a part of the five minutes an answer is cached.                         *)
(***************************************************************************)
EXTENDS Naturals, Sequences, SequencesExt, FiniteSets

CONSTANTS Features, Names, Envs, Rules,
          TTL,        \* how long an answer is cached
          PageSize,
          MaxCalls,   \* bound on calls that write
          None        \* no name yet, no configuration for this environment

FeatureAssumption ==
  /\ TTL \in Nat /\ PageSize \in Nat \ {0} /\ MaxCalls \in Nat
  /\ None \notin Names \cup (1..MaxCalls)

VARIABLES
  features,   \* the map of features, in its order of insertion
  name,       \* name of a feature, None before it was created
  tagged,     \* features that match the filter of the reader
  config,     \* config[<<f, e>>]: the array of rules of f in e, or None
  arrays,     \* the arrays of rules
  envs,       \* names of the environments that were created
  reader,     \* a client that lists the features page by page
  toggles,    \* Unleash: the toggles that are on
  ready,      \* Unleash has answered once
  cache,      \* cached answers, and the time they have left
  asked,      \* calls of isEnabled that found no cached answer
  found,      \* cached answers that an invalidation is about to delete
  since,      \* history: how long Unleash's answer has been the same
  made        \* calls that wrote

vars == <<features, name, tagged, config, arrays, envs, reader, toggles, ready,
          cache, asked, found, since, made>>
store   == <<features, name, tagged, config, arrays, envs, reader>>
unleash == <<toggles, ready, since>>
redis   == <<cache, asked, found>>

Arrays == 1..MaxCalls
Rule   == [id: Rules, edited: BOOLEAN]

TypeOK ==
  /\ features \in Seq(Features)
  /\ name \in [Features -> Names \cup {None}] /\ tagged \subseteq Features
  /\ config \in [Features \X Envs -> Arrays \cup {None}]
  /\ arrays \in Seq(SUBSET Rule) /\ Len(arrays) <= MaxCalls
  /\ envs \subseteq Envs
  /\ reader \in [on: BOOLEAN, at: Nat, seen: SUBSET Features, due: SUBSET Features]
  /\ toggles \subseteq Names /\ ready \in BOOLEAN
  /\ cache \in [Names -> [enabled: BOOLEAN, left: 0..TTL]]
  /\ asked \subseteq Names /\ found \subseteq Names
  /\ since \in [Names -> 0..TTL]
  /\ made \in 0..MaxCalls

Init ==
  /\ features = <<>> /\ tagged = {} /\ envs = {} /\ arrays = <<>>
  /\ name = [f \in Features |-> None]
  /\ config = [p \in Features \X Envs |-> None]
  /\ reader = [on |-> FALSE, at |-> 0, seen |-> {}, due |-> {}]
  /\ toggles = {} /\ ready = FALSE
  /\ cache = [n \in Names |-> [enabled |-> FALSE, left |-> 0]]
  /\ asked = {} /\ found = {}
  /\ since = [n \in Names |-> TTL]
  /\ made = 0

Present(f) == f \in ToSet(features)

-----------------------------------------------------------------------------
(* FeatureRepository: each call is one step, and throws without the        *)
(* feature, environment or rule that it needs.                             *)

Insert(f, n) ==
  /\ name[f] = None
  /\ features' = Append(features, f)
  /\ name' = [name EXCEPT ![f] = n]

\* A new object in the old place of the map.
Replace(f) == Present(f) /\ UNCHANGED <<features, name>>

Delete(f) == Present(f) /\ features' = RemoveFirst(features, f)

RulesOf(f, e) == IF config[<<f, e>>] = None THEN {} ELSE arrays[config[<<f, e>>]]

\* push writes into the array.
PushRule(f, e, r) ==
  LET rule == [id |-> r, edited |-> FALSE]
  IN /\ Present(f) /\ \A x \in RulesOf(f, e) : x.id # r   \* ids are new
     /\ IF config[<<f, e>>] = None
        THEN /\ arrays' = Append(arrays, {rule})
             /\ config' = [config EXCEPT ![<<f, e>>] = Len(arrays) + 1]
        ELSE /\ arrays' = [arrays EXCEPT ![config[<<f, e>>]] = @ \cup {rule}]
             /\ UNCHANGED config

(* Mutant: the rule is spliced out of the array.                           *)
SpliceRule(f, e, r) ==
  /\ Present(f) /\ config[<<f, e>>] # None
  /\ arrays' = [arrays EXCEPT ![config[<<f, e>>]] = {x \in @ : x.id # r}]
  /\ UNCHANGED config

\* filter makes a new array.
FilterRules(f, e, r) ==
  /\ Present(f) /\ config[<<f, e>>] # None
  /\ arrays' = Append(arrays, {x \in RulesOf(f, e) : x.id # r})
  /\ config' = [config EXCEPT ![<<f, e>>] = Len(arrays) + 1]

\* The rule is replaced in the array.
ReplaceRule(f, e, r) ==
  /\ Present(f) /\ \E x \in RulesOf(f, e) : x.id = r
  /\ arrays' = [arrays EXCEPT ![config[<<f, e>>]] =
                  {x \in @ : x.id # r} \cup {[id |-> r, edited |-> TRUE]}]
  /\ UNCHANGED config

\* Every feature that has a configuration for e gets it for the target too.
CopyConfigs(e, target) ==
  /\ e \in envs /\ envs' = envs \cup {target}
  /\ config' = [p \in DOMAIN config |->
       IF p[2] = target /\ Present(p[1]) /\ config[<<p[1], e>>] # None
       THEN config[<<p[1], e>>] ELSE config[p]]

-----------------------------------------------------------------------------
(* FeatureService: the calls that write.                                   *)

Write == made < MaxCalls /\ made' = made + 1
\* The tags and the project that the reader asks for, or others.
SetTags(f) == \E t \in {{}, {f}} : tagged' = (tagged \ {f}) \cup t

CreateFeature(f, n) ==
  /\ Write /\ Insert(f, n) /\ SetTags(f)
  /\ UNCHANGED <<config, arrays, envs, reader, unleash, redis>>

\* The cached answers under its name are looked for ...
UpdateFeature(f) ==
  /\ Write /\ Replace(f) /\ SetTags(f)
  /\ reader' = IF (f \in tagged) = (f \in tagged') THEN reader ELSE [reader EXCEPT !.due = {}]
  /\ found' = found \cup {n \in {name[f]} : cache[n].left > 0}
  /\ UNCHANGED <<config, arrays, envs, unleash, cache, asked>>

\* ... and then deleted, or Redis fails and they stay until they expire.
Invalidate(n) ==
  /\ n \in found
  /\ found' = found \ {n}
  /\ cache' = [cache EXCEPT ![n] = [@ EXCEPT !.left = 0]] \/ UNCHANGED cache
  /\ UNCHANGED <<store, unleash, asked, made>>

\* Its cached answers stay.
DeleteFeature(f) ==
  /\ Write /\ Delete(f)
  /\ reader' = [reader EXCEPT !.due = {}]
  /\ UNCHANGED <<name, tagged, config, arrays, envs, unleash, redis>>

RulesOnly == UNCHANGED <<features, name, tagged, envs, reader, unleash, redis>>
AddTargetingRule(f, e, r)    == Write /\ PushRule(f, e, r) /\ RulesOnly
RemoveTargetingRule(f, e, r) == Write /\ FilterRules(f, e, r) /\ RulesOnly
UpdateTargetingRule(f, e, r) == Write /\ ReplaceRule(f, e, r) /\ RulesOnly

CreateEnvironment(e) ==
  /\ Write /\ envs' = envs \cup {e}
  /\ UNCHANGED <<features, name, tagged, config, arrays, reader, unleash, redis>>
CopyEnvironment(e, target) ==
  /\ Write /\ CopyConfigs(e, target)
  /\ UNCHANGED <<features, name, tagged, arrays, reader, unleash, redis>>

-----------------------------------------------------------------------------
(* listFeatures, and a client that follows the page tokens.                *)

\* The features that match, and those of them that come before the i-th one.
Filtered  == {i \in DOMAIN features : features[i] \in tagged}
Before(i) == {j \in Filtered : j < i}
(* Mutant: the token skips the first feature of the next page.             *)
NextTokenPast(at) == at + PageSize + 1
NextToken(at) == at + PageSize
Page(at) == {features[i] : i \in {j \in Filtered : /\ at <= Cardinality(Before(j))
                                                  /\ Cardinality(Before(j)) < at + PageSize}}

\* The history "due": what every page together has to show.
ListFirst ==
  /\ ~reader.on
  /\ reader' = [on |-> TRUE, at |-> 0, seen |-> {}, due |-> {features[i] : i \in Filtered}]
  /\ UNCHANGED <<features, name, tagged, config, arrays, envs, unleash, redis, made>>
ListFeatures ==
  /\ reader.on
  /\ reader' = [reader EXCEPT !.seen = @ \cup Page(reader.at), !.at = NextToken(@),
                              !.on = NextToken(reader.at) < Cardinality(Filtered)]
  /\ UNCHANGED <<features, name, tagged, config, arrays, envs, unleash, redis, made>>

-----------------------------------------------------------------------------
(* isEnabled, its cache, and Unleash.                                      *)

\* UnleashService.isEnabled: off until Unleash is ready.
Verdict(n) == ready /\ n \in toggles

(* Mutant: the answer is cached longer than that.                          *)
CacheTooLong(n, answer) == cache' = [cache EXCEPT ![n] = [enabled |-> answer, left |-> TTL + 1]]
\* CacheService: what Redis refuses is logged and goes on.
CacheSet(n, answer) ==
  cache' = [cache EXCEPT ![n] = [enabled |-> answer, left |-> TTL]] \/ UNCHANGED cache

\* There is no cached answer, or Redis fails; else it is returned.
CacheMiss(n) ==
  /\ n \notin asked /\ asked' = asked \cup {n}
  /\ UNCHANGED <<store, unleash, cache, found, made>>

IsEnabled(n) ==
  /\ n \in asked /\ asked' = asked \ {n}
  /\ CacheSet(n, Verdict(n))
  /\ UNCHANGED <<store, unleash, found, made>>

\* Unleash becomes ready, or one of its toggles changes.
Unleash(on) ==
  /\ ready' \in {ready, TRUE}
  /\ toggles' = on
  /\ since' = [n \in Names |-> IF Verdict(n)' = Verdict(n) THEN since[n] ELSE 0]
  /\ UNCHANGED <<store, redis, made>>

Tick ==
  /\ cache' = [n \in Names |-> [cache[n] EXCEPT !.left = IF @ = 0 THEN 0 ELSE @ - 1]]
  /\ since' = [n \in Names |-> IF since[n] = TTL THEN TTL ELSE since[n] + 1]
  /\ UNCHANGED <<store, toggles, ready, asked, found, made>>

Next ==
  \/ \E f \in Features, n \in Names : CreateFeature(f, n)
  \/ \E f \in Features : UpdateFeature(f) \/ DeleteFeature(f)
  \/ \E f \in Features, e \in Envs, r \in Rules :
       AddTargetingRule(f, e, r) \/ RemoveTargetingRule(f, e, r) \/ UpdateTargetingRule(f, e, r)
  \/ \E e \in Envs : CreateEnvironment(e) \/ \E t \in Envs : CopyEnvironment(e, t)
  \/ ListFirst \/ ListFeatures
  \/ \E n \in Names : Invalidate(n) \/ CacheMiss(n) \/ IsEnabled(n)
  \/ \E on \in SUBSET Names : Unleash(on)
  \/ Tick

Spec == Init /\ [][Next]_vars

-----------------------------------------------------------------------------
(* Once Unleash has given the same answer for as long as answers are       *)
(* cached, every cached answer is that one: whatever update invalidated    *)
(* it, came too late or failed to, an answer of before Unleash was ready   *)
(* (always "off") included.                                                *)
SettledAnswers ==
  \A n \in Names : cache[n].left > 0 /\ since[n] = TTL => cache[n].enabled = Verdict(n)

(* A client that follows the page tokens of listFeatures has seen every    *)
(* feature that matched when it began, if none was deleted and none        *)
(* stopped or began to match: new features come behind, and an updated one *)
(* keeps its place.                                                        *)
PagesMissNothing == ~reader.on => reader.due \subseteq reader.seen

RemovalLeavesOthers ==
  \A f \in Features, e \in Envs, r \in Rules : RemoveTargetingRule(f, e, r) =>
    \A g \in Features, d \in Envs : <<g, d>> # <<f, e>> => RulesOf(g, d)' = RulesOf(g, d)

(* A rule that is removed from one environment leaves every other one as   *)
(* it was, a copy included, whose array of rules may be the same.          *)
RemovalIsLocal == [][RemovalLeavesOthers]_vars
=============================================================================
