------------------------------ MODULE Catalog ------------------------------
(***************************************************************************)
(* Admission of a model alias (core catalog.py): which rows of a Runner's  *)
(* catalog a source admits, which of them a principal may run, and what an *)
(* alias and an effort resolve to.  Pure functions of the operator config  *)
(* and of the registry's snapshots.                                        *)
(*                                                                         *)
(* An alias is a pair <<prefix, model>>: config.py makes the prefixes of   *)
(* enabled sources disjoint, so a pair has at most one source.  A static   *)
(* preset may have the alias of a dynamic row and then hides it.           *)
(***************************************************************************)
EXTENDS Integers, Sequences, FiniteSets

CONSTANTS
    Runners, Models,
    DriverOf,  \* DriverOf[r]: the driver_id of Runner r, which others may share
    Presets,   \* [alias, runner, model, policy, enabled]
    Sources,   \* [name, prefix, runner, policy, enabled, models, tiers]
    Grants,    \* Grants[p]: [presets, readable, executable] of principal p
    Tier,      \* Tier[m]: the cost class the catalog shows for m
    Variant    \* Variant[m]: the model that runs m at the effort "high", or
               \* "unknown" where the row declares no effort support

ASSUME ConfigAssumption ==
    /\ \A s, t \in Sources : s.enabled /\ t.enabled /\ s # t => s.prefix # t.prefix
    /\ \A p, q \in Presets : p # q => p.alias # q.alias

\* The answer of an effort that cannot be had is not the name of a model.
ASSUME NameAssumption == "refused" \notin Models \cup {x.model : x \in Presets}

Principals == DOMAIN Grants
StaticAliases == {p.alias : p \in Presets}
Efforts == {"none", "high"}

\* A row of a Runner's catalog; executable is the driver's own admission.
Rows == [status : {"absent", "passed", "failed", "unknown"}, executable : BOOLEAN]
Absent == [status |-> "absent", executable |-> FALSE]

\* principal_may_read, principal_may_execute.
MayRead(p, s) == s.name \in Grants[p].readable \cup Grants[p].executable
MayExecuteByAlias(p, s, alias) ==     \* mutant: a static-owned alias counts as a grant
    s.name \in Grants[p].executable \/ alias \in Grants[p].presets
MayExecute(p, s, alias) ==
    \/ s.name \in Grants[p].executable
    \/ alias \in Grants[p].presets /\ alias \notin StaticAliases

\* source_admits: the operator's filters, then the verification, then the
\* driver.  No source of the model is a synthetic fixture.
SourceAdmits(s, m, row) ==
    /\ m \in s.models
    /\ Tier[m] \in s.tiers
    /\ row.status = "passed"
    /\ row.executable

\* driver_scope: the driver of a provider-scoped path, or none.
InScope(runner, scope) == scope \in {"any", DriverOf[runner]}

\* Where a Runner's rows may be used: health is the registry's snapshot.
Usable(health, r) == health[r].enabled /\ health[r].ok

\* _preset_target_authorized and _catalog_target_authorized: a variant needs
\* a grant of its own, on the same Runner and under the same policy.
PresetTargetAuthorized(p, preset, m) ==
    \E t \in Presets : /\ t.enabled
                       /\ t.runner = preset.runner
                       /\ t.model = m
                       /\ t.policy = preset.policy
                       /\ t.alias \in Grants[p].presets
CatalogTargetAuthorized(p, preset, m, row) ==
    \E s \in Sources : /\ s.enabled
                       /\ s.runner = preset.runner
                       /\ s.policy = preset.policy
                       /\ MayExecute(p, s, <<s.prefix, m>>)
                       /\ SourceAdmits(s, m, row)

Refused(why) == [ok |-> FALSE, why |-> why]
Binding(runner, model, resolved, policy) ==
    [ok |-> TRUE, runner |-> runner, model |-> model, resolved |-> resolved,
     policy |-> policy]

\* resolve_effort: without an effort the row itself, else its variant.
ResolveEffort(m, row, effort) ==
    IF row.status = "absent" THEN "refused"
    ELSE IF effort = "none" THEN m
    ELSE IF Variant[m] = "unknown" THEN "refused" ELSE Variant[m]
\* _resolve_effort_target: a variant that is another model is checked again,
\* admitted being the models that the caller's admit_target accepts.
EffortTarget(m, row, effort, admitted) ==
    LET t == ResolveEffort(m, row, effort)
    IN  IF t \in admitted \cup {m} THEN t ELSE "refused"

Bound(runner, m, target, policy) ==
    IF target = "refused" THEN Refused("unsupported") ELSE Binding(runner, m, target, policy)

\* preset_available: what the registry derived, and its Runner now.
PresetAvailable(health, verified, preset) ==
    preset.enabled /\ preset.alias \in verified /\ Usable(health, preset.runner)

\* _resolve_static: verified is the set of presets the registry has verified.
ResolveStatic(health, verified, p, preset, scope, effort) ==
    LET snap == health[preset.runner].snap
        admitted == {m \in Models : /\ snap[m].status = "passed"
                                    /\ snap[m].executable
                                    /\ \/ PresetTargetAuthorized(p, preset, m)
                                       \/ CatalogTargetAuthorized(p, preset, m, snap[m])}
    IN  IF preset.alias \notin Grants[p].presets THEN Refused("denied")
        ELSE IF ~InScope(preset.runner, scope) THEN Refused("not found")
        ELSE IF ~PresetAvailable(health, verified, preset) THEN Refused("unavailable")
        ELSE Bound(preset.runner, preset.model,
                   EffortTarget(preset.model, snap[preset.model], effort, admitted),
                   preset.policy)

\* _resolve_dynamic, for the one enabled source whose prefix fits.
ResolveDynamic(health, p, s, m, effort) ==
    LET snap == health[s.runner].snap
        admitted == {t \in Models : /\ snap[t].status # "absent"
                                    /\ MayExecute(p, s, <<s.prefix, t>>)
                                    /\ SourceAdmits(s, t, snap[t])}
    IN  IF ~MayExecute(p, s, <<s.prefix, m>>) THEN Refused("denied")
        ELSE IF ~Usable(health, s.runner) THEN Refused("unavailable")
        ELSE IF snap[m].status = "absent" \/ ~SourceAdmits(s, m, snap[m])
             THEN Refused("not found")
        ELSE Bound(s.runner, m, EffortTarget(m, snap[m], effort, admitted), s.policy)

SourcesFor(alias, scope) ==
    {s \in Sources : s.enabled /\ s.prefix = alias[1] /\ InScope(s.runner, scope)}

\* resolve_model: a static preset of the alias always wins.
ResolveModel(health, verified, p, alias, scope, effort) ==
    IF alias \in StaticAliases
    THEN ResolveStatic(health, verified, p,
                       CHOOSE x \in Presets : x.alias = alias, scope, effort)
    ELSE IF SourcesFor(alias, scope) = {} THEN Refused("not found")
    ELSE ResolveDynamic(health, p, CHOOSE s \in SourcesFor(alias, scope) : TRUE,
                        alias[2], effort)

\* mutant: a row that a static preset hides is still advertised.
ViewExecutableHidden(health, p, s, m) ==
    /\ SourceAdmits(s, m, health[s.runner].snap[m])
    /\ Usable(health, s.runner)
    /\ MayExecute(p, s, <<s.prefix, m>>)
\* catalog_view: whether the row is advertised as executable to p.
ViewExecutable(health, p, s, m) ==
    /\ health[s.runner].snap[m].status # "absent"
    /\ SourceAdmits(s, m, health[s.runner].snap[m])
    /\ Usable(health, s.runner)
    /\ <<s.prefix, m>> \notin StaticAliases
    /\ MayExecute(p, s, <<s.prefix, m>>)
\* The static half of the model list: it does not look at the snapshot.
StaticEntries(health, verified, p, scope) ==
    {x \in Presets : /\ x.enabled /\ x.alias \in Grants[p].presets
                     /\ InScope(x.runner, scope)
                     /\ PresetAvailable(health, verified, x)}
\* dynamic_model_entries.
DynamicEntries(health, p, scope) ==
    {e \in [source : {s \in Sources : s.enabled /\ InScope(s.runner, scope)}, model : Models] :
        /\ Usable(health, e.source.runner)
        /\ <<e.source.prefix, e.model>> \notin StaticAliases
        /\ MayExecute(p, e.source, <<e.source.prefix, e.model>>)
        /\ SourceAdmits(e.source, e.model, health[e.source.runner].snap[e.model])}

\* catalog_refresh_refs, models_refresh_refs, alias_refresh_refs: the Runners
\* a request may cause to be probed.
CatalogRefreshRefs(p, scope) ==
    {s.runner : s \in {x \in Sources : /\ x.enabled /\ MayRead(p, x)
                                        /\ InScope(x.runner, scope)}}
ModelsRefreshRefs(p, scope) ==
    {x.runner : x \in {y \in Presets : /\ y.enabled /\ y.alias \in Grants[p].presets
                                        /\ InScope(y.runner, scope)}}
    \cup
    {s.runner : s \in {x \in Sources : /\ x.enabled /\ InScope(x.runner, scope)
                          /\ \/ x.name \in Grants[p].executable
                             \/ \E a \in Grants[p].presets :
                                   a[1] = x.prefix /\ a \notin StaticAliases}}
AliasRefreshRefsUngranted(p, alias, scope) ==     \* mutant: grants not looked at
    IF alias \in StaticAliases
    THEN {x.runner : x \in {y \in Presets : y.alias = alias /\ InScope(y.runner, scope)}}
    ELSE {s.runner : s \in SourcesFor(alias, scope)}
AliasRefreshRefs(p, alias, scope) ==
    IF alias \in StaticAliases
    THEN {x.runner : x \in {y \in Presets : /\ y.alias = alias
                                             /\ alias \in Grants[p].presets
                                             /\ InScope(y.runner, scope)}}
    ELSE {s.runner : s \in {x \in SourcesFor(alias, scope) : MayExecute(p, x, alias)}}

=============================================================================
