-------------------------- MODULE AdmissionProofs --------------------------
(***************************************************************************)
(* The promises of admission hold for every operator config with distinct  *)
(* prefixes and aliases, every set of grants and every registry snapshot.  *)
(***************************************************************************)
EXTENDS Admission, TLAPS

\* A static alias is the alias of exactly one preset.
LEMMA StaticPreset ==
    ASSUME NEW alias \in StaticAliases
    PROVE  LET x == CHOOSE y \in Presets : y.alias = alias
           IN  x \in Presets /\ x.alias = alias
BY DEF StaticAliases

\* Prefixes are distinct: a dynamic alias has one source at most.
LEMMA OneSource ==
    ASSUME NEW alias, NEW scope, NEW s \in SourcesFor(alias, scope)
    PROVE  /\ s \in Sources /\ s.enabled /\ s.prefix = alias[1] /\ InScope(s.runner, scope)
           /\ SourcesFor(alias, scope) = {s}
           /\ (CHOOSE t \in SourcesFor(alias, scope) : TRUE) = s
<1>1. s \in Sources /\ s.enabled /\ s.prefix = alias[1] /\ InScope(s.runner, scope)
  BY DEF SourcesFor
<1>2. ASSUME NEW t \in SourcesFor(alias, scope) PROVE t = s
  BY <1>1, ConfigAssumption DEF SourcesFor
<1>3. (CHOOSE t \in SourcesFor(alias, scope) : TRUE) \in SourcesFor(alias, scope)
  OBVIOUS
<1> QED BY <1>1, <1>2, <1>3

\* A dynamic alias is a prefix and a model.
LEMMA DynamicAlias ==
    ASSUME NEW alias \in Aliases, alias \notin StaticAliases
    PROVE  alias = <<alias[1], alias[2]>> /\ alias[2] \in Models
BY DEF Aliases

\* What a resolution that is accepted binds, by the way it took.
LEMMA StaticBinding ==
    ASSUME NEW h, NEW v, NEW p, NEW preset, NEW scope, NEW effort,
           ResolveStatic(h, v, p, preset, scope, effort).ok
    PROVE  LET b == ResolveStatic(h, v, p, preset, scope, effort)
           IN  /\ preset.alias \in Grants[p].presets /\ preset.enabled
               /\ InScope(preset.runner, scope)
               /\ b.runner = preset.runner /\ b.policy = preset.policy
               /\ \/ b.resolved = preset.model
                  \/ /\ b.resolved \in Models
                     /\ \/ PresetTargetAuthorized(p, preset, b.resolved)
                        \/ \E row : CatalogTargetAuthorized(p, preset, b.resolved, row)
BY DEF ResolveStatic, PresetAvailable, Bound, Binding, Refused, EffortTarget
\* The two ways into a principal's authority.
LEMMA PresetInAuthority ==
    ASSUME NEW p, NEW y \in Presets, y.enabled, y.alias \in Grants[p].presets
    PROVE  y.model \in Authority(p, y.runner, y.policy)
BY DEF Authority
\* A source that admits a model for its principal gives authority over it.
LEMMA SourceInAuthority ==
    ASSUME NEW p, NEW s \in Sources, s.enabled, NEW m \in Models, NEW row,
           MayExecute(p, s, <<s.prefix, m>>), SourceAdmits(s, m, row)
    PROVE  m \in Authority(p, s.runner, s.policy)
BY DEF Authority, MayExecute, SourceAdmits

\* What an accepted dynamic alias binds is within the principal's authority.
LEMMA DynamicBinding ==
    ASSUME NEW h, NEW p, NEW s \in Sources, s.enabled, NEW m \in Models, NEW effort,
           ResolveDynamic(h, p, s, m, effort).ok
    PROVE  LET b == ResolveDynamic(h, p, s, m, effort)
           IN  /\ MayExecute(p, s, <<s.prefix, m>>)
               /\ b.runner = s.runner
               /\ b.resolved \in Authority(p, b.runner, b.policy)
<1> DEFINE b == ResolveDynamic(h, p, s, m, effort)
<1>1. /\ MayExecute(p, s, <<s.prefix, m>>)
      /\ b.runner = s.runner /\ b.policy = s.policy
      /\ b.resolved \in Models
      /\ MayExecute(p, s, <<s.prefix, b.resolved>>)
      /\ \E row : SourceAdmits(s, b.resolved, row)
  BY DEF ResolveDynamic, Bound, Binding, Refused, EffortTarget
<1> HIDE DEF b
<1>2. b.resolved \in Authority(p, b.runner, b.policy)
  BY <1>1, SourceInAuthority
<1> QED BY <1>1, <1>2 DEF b

\* An accepted request runs a model its principal was given.
LEMMA ResolvesInAuthority ==
    ASSUME NEW h, NEW v, NEW p, NEW alias \in Aliases, NEW scope, NEW effort,
           ResolveModel(h, v, p, alias, scope, effort).ok
    PROVE  LET b == ResolveModel(h, v, p, alias, scope, effort)
           IN  b.resolved \in Authority(p, b.runner, b.policy)
<1> DEFINE b == ResolveModel(h, v, p, alias, scope, effort)
<1>1. CASE alias \in StaticAliases
  <2> DEFINE x == CHOOSE y \in Presets : y.alias = alias
  <2>1. x \in Presets
    BY <1>1, StaticPreset
  <2>2. b = ResolveStatic(h, v, p, x, scope, effort)
    BY <1>1 DEF ResolveModel
  <2> HIDE DEF x, b
  <2>3. /\ x.alias \in Grants[p].presets /\ x.enabled
        /\ b.runner = x.runner /\ b.policy = x.policy
        /\ \/ b.resolved = x.model
           \/ /\ b.resolved \in Models
              /\ \/ PresetTargetAuthorized(p, x, b.resolved)
                 \/ \E row : CatalogTargetAuthorized(p, x, b.resolved, row)
    BY <2>2, StaticBinding DEF b
  <2> SUFFICES b.resolved \in Authority(p, b.runner, b.policy)
    BY DEF b
  <2>4. CASE b.resolved = x.model
    BY <2>1, <2>3, <2>4, PresetInAuthority
  <2>5. CASE PresetTargetAuthorized(p, x, b.resolved)
    BY <2>3, <2>5, PresetInAuthority DEF PresetTargetAuthorized
  <2>6. ASSUME b.resolved \in Models, NEW row,
               CatalogTargetAuthorized(p, x, b.resolved, row)
        PROVE  b.resolved \in Authority(p, b.runner, b.policy)
    BY <2>3, <2>6, SourceInAuthority DEF CatalogTargetAuthorized
  <2> QED BY <2>3, <2>4, <2>5, <2>6
<1>2. CASE alias \notin StaticAliases
  <2> DEFINE s == CHOOSE t \in SourcesFor(alias, scope) : TRUE
  <2>1. /\ SourcesFor(alias, scope) # {}
        /\ b = ResolveDynamic(h, p, s, alias[2], effort)
    BY <1>2 DEF ResolveModel, Refused
  <2>2. s \in Sources /\ s.enabled
    BY <2>1, OneSource
  <2>3. alias[2] \in Models
    BY <1>2, DynamicAlias
  <2> HIDE DEF s, b
  <2>4. ResolveDynamic(h, p, s, alias[2], effort).ok
    BY <2>1 DEF b
  <2> QED BY <2>1, <2>2, <2>3, <2>4, DynamicBinding DEF b
<1> QED BY <1>1, <1>2

\* The Runner that serves an accepted request is among those it refreshed.
LEMMA ServesRefreshed ==
    ASSUME NEW h, NEW v, NEW p, NEW alias \in Aliases, NEW scope, NEW effort,
           ResolveModel(h, v, p, alias, scope, effort).ok
    PROVE  ResolveModel(h, v, p, alias, scope, effort).runner
              \in AliasRefreshRefs(p, alias, scope)
<1> DEFINE b == ResolveModel(h, v, p, alias, scope, effort)
<1>1. CASE alias \in StaticAliases
  <2> DEFINE x == CHOOSE y \in Presets : y.alias = alias
  <2>1. x \in Presets /\ x.alias = alias
    BY <1>1, StaticPreset
  <2>2. b = ResolveStatic(h, v, p, x, scope, effort)
    BY <1>1 DEF ResolveModel
  <2> HIDE DEF x, b
  <2>3. /\ x.alias \in Grants[p].presets /\ InScope(x.runner, scope)
        /\ b.runner = x.runner
    BY <2>2, StaticBinding DEF b
  <2> QED BY <1>1, <2>1, <2>3 DEF b, AliasRefreshRefs
<1>2. CASE alias \notin StaticAliases
  <2> DEFINE s == CHOOSE t \in SourcesFor(alias, scope) : TRUE
  <2>1. /\ SourcesFor(alias, scope) # {}
        /\ b = ResolveDynamic(h, p, s, alias[2], effort)
    BY <1>2 DEF ResolveModel, Refused
  <2>2. /\ s \in SourcesFor(alias, scope) /\ s.prefix = alias[1]
        /\ s \in Sources /\ s.enabled
    BY <2>1, OneSource
  <2>3. alias = <<alias[1], alias[2]>> /\ alias[2] \in Models
    BY <1>2, DynamicAlias
  <2> HIDE DEF s, b
  <2>4. b.runner = s.runner /\ MayExecute(p, s, <<s.prefix, alias[2]>>)
    <3>1. ResolveDynamic(h, p, s, alias[2], effort).ok
      BY <2>1 DEF b
    <3> QED BY <2>1, <2>2, <2>3, <3>1, DynamicBinding
  <2>5. MayExecute(p, s, alias)
    BY <2>2, <2>3, <2>4
  <2> QED BY <1>2, <2>2, <2>4, <2>5 DEF b, AliasRefreshRefs
<1> QED BY <1>1, <1>2

\* Only the grants deny a request: a missing effort is refused otherwise.
LEMMA RefusedBound ==
    ASSUME NEW runner, NEW m, NEW target, NEW policy,
           ~Bound(runner, m, target, policy).ok
    PROVE  Bound(runner, m, target, policy).why # "denied"
BY DEF Bound, Binding, Refused

\* A request that is denied refreshed nothing.
LEMMA DeniedRefreshesNothing ==
    ASSUME NEW h, NEW v, NEW p, NEW alias \in Aliases, NEW scope, NEW effort,
           ~ResolveModel(h, v, p, alias, scope, effort).ok,
           ResolveModel(h, v, p, alias, scope, effort).why = "denied"
    PROVE  AliasRefreshRefs(p, alias, scope) = {}
<1> DEFINE b == ResolveModel(h, v, p, alias, scope, effort)
<1>1. CASE alias \in StaticAliases
  <2> DEFINE x == CHOOSE y \in Presets : y.alias = alias
  <2>1. x.alias = alias
    BY <1>1, StaticPreset
  <2>2. b = ResolveStatic(h, v, p, x, scope, effort)
    BY <1>1 DEF ResolveModel
  <2>3. ~b.ok /\ b.why = "denied"
    OBVIOUS
  <2> HIDE DEF x, b
  <2>4. x.alias \notin Grants[p].presets
    BY <2>2, <2>3, RefusedBound DEF ResolveStatic, Refused
  <2> QED BY <1>1, <2>1, <2>4 DEF AliasRefreshRefs
<1>2. CASE alias \notin StaticAliases
  <2> DEFINE s == CHOOSE t \in SourcesFor(alias, scope) : TRUE
  <2>1. /\ SourcesFor(alias, scope) # {}
        /\ b = ResolveDynamic(h, p, s, alias[2], effort)
    BY <1>2 DEF ResolveModel, Refused
  <2>2. SourcesFor(alias, scope) = {s} /\ s.prefix = alias[1]
    BY <2>1, OneSource
  <2>3. alias = <<alias[1], alias[2]>>
    BY <1>2, DynamicAlias
  <2> HIDE DEF s, b
  <2>4. ~MayExecute(p, s, <<s.prefix, alias[2]>>)
    <3>1. ~b.ok /\ b.why = "denied"
      BY DEF b
    <3> QED BY <2>1, <3>1, RefusedBound DEF ResolveDynamic, Refused
  <2>5. ~MayExecute(p, s, alias)
    BY <2>2, <2>3, <2>4
  <2> QED BY <1>2, <2>2, <2>5 DEF AliasRefreshRefs
<1> QED BY <1>1, <1>2

\* A row that is admitted, usable and executable by p resolves to itself.
LEMMA DynamicRowResolves ==
    ASSUME NEW h, NEW v, NEW p, NEW e,
           e.source \in Sources, e.source.enabled, e.model \in Models,
           Usable(h, e.source.runner), <<e.source.prefix, e.model>> \notin StaticAliases,
           MayExecute(p, e.source, <<e.source.prefix, e.model>>),
           SourceAdmits(e.source, e.model, h[e.source.runner].snap[e.model])
    PROVE  LET b == ResolveModel(h, v, p, <<e.source.prefix, e.model>>,
                                 DriverOf[e.source.runner], "none")
           IN  b.ok /\ b.runner = e.source.runner /\ b.resolved = e.model
<1> DEFINE s == e.source
           m == e.model
           alias == <<s.prefix, m>>
           scope == DriverOf[s.runner]
<1>1. s \in SourcesFor(alias, scope) /\ alias[2] = m
  BY DEF SourcesFor, InScope
<1>2. (CHOOSE t \in SourcesFor(alias, scope) : TRUE) = s
  BY <1>1, OneSource
<1>3. ResolveModel(h, v, p, alias, scope, "none") = ResolveDynamic(h, p, s, m, "none")
  BY <1>1, <1>2 DEF ResolveModel
<1>4. h[s.runner].snap[m].status = "passed"
  BY DEF SourceAdmits
<1>5. ResolveDynamic(h, p, s, m, "none") = Binding(s.runner, m, m, s.policy)
  BY <1>4, NameAssumption DEF ResolveDynamic, EffortTarget, ResolveEffort, Bound
<1> QED BY <1>3, <1>5 DEF Binding

\* A preset that is granted and available resolves to its model, unless the
\* newest snapshot lacks it.
LEMMA StaticRowResolves ==
    ASSUME NEW h, NEW v, NEW p, NEW x \in Presets,
           x.alias \in Grants[p].presets, PresetAvailable(h, v, x),
           h[x.runner].snap[x.model].status # "absent"
    PROVE  LET b == ResolveModel(h, v, p, x.alias, DriverOf[x.runner], "none")
           IN  b.ok /\ b.runner = x.runner /\ b.resolved = x.model
<1> DEFINE scope == DriverOf[x.runner]
           y == CHOOSE z \in Presets : z.alias = x.alias
<1>1. x.alias \in StaticAliases
  BY DEF StaticAliases
<1>2. y = x
  BY <1>1, StaticPreset, ConfigAssumption
<1>3. ResolveModel(h, v, p, x.alias, scope, "none") = ResolveStatic(h, v, p, x, scope, "none")
  BY <1>1, <1>2 DEF ResolveModel
<1> DEFINE row == h[x.runner].snap[x.model]
<1>4. ASSUME NEW admitted PROVE EffortTarget(x.model, row, "none", admitted) = x.model
  BY DEF EffortTarget, ResolveEffort
<1>5. x.model # "refused" /\ InScope(x.runner, scope)
  BY NameAssumption DEF InScope
<1>6. ResolveStatic(h, v, p, x, scope, "none") = Binding(x.runner, x.model, x.model, x.policy)
  BY <1>4, <1>5 DEF ResolveStatic, Bound
<1> QED BY <1>3, <1>6 DEF Binding

-----------------------------------------------------------------------------
\* The answer is that of the one call the request made.
AnswerIsTheCalls ==
    /\ asked.kind \in {"nothing", "chat", "models", "catalog"}
    /\ asked.kind = "chat" =>
          /\ asked.alias \in Aliases
          /\ answer = ResolveModel(health, verified, principal, asked.alias,
                                   asked.scope, asked.effort)
    /\ asked.kind = "models" => answer = ModelRows(health, verified, principal, "any")
    /\ asked.kind = "catalog" => answer = CatalogRows(health, principal)

\* The answer on record is that of the call on record.
LEMMA AnswerInvariant == Spec => []AnswerIsTheCalls
<1>1. Init => AnswerIsTheCalls
  BY DEF Init, AnswerIsTheCalls
<1>2. AnswerIsTheCalls /\ [Next]_vars => AnswerIsTheCalls'
  <2> SUFFICES ASSUME AnswerIsTheCalls, [Next]_vars PROVE AnswerIsTheCalls'
    OBVIOUS
  <2>1. CASE Chat
    <3>1. PICK alias \in Aliases, scope \in Scopes, effort \in Efforts :
            /\ asked' = [kind |-> "chat", alias |-> alias, scope |-> scope, effort |-> effort]
            /\ answer' = ResolveModel(health, verified, principal, alias, scope, effort)
      BY <2>1 DEF Chat
    <3> QED BY <2>1, <3>1 DEF AnswerIsTheCalls, Chat
  <2>2. CASE ListModels
    BY <2>2 DEF AnswerIsTheCalls, ListModels
  <2>3. CASE ListCatalog
    BY <2>3 DEF AnswerIsTheCalls, ListCatalog
  <2>4. CASE UNCHANGED vars
    BY <2>4 DEF AnswerIsTheCalls, vars
  <2> QED BY <2>1, <2>2, <2>3, <2>4 DEF Next
<1> QED BY <1>1, <1>2, PTL DEF Spec

\* No alias and no effort variant takes a principal beyond its grants, whatever
\* the operator configured and whatever the registry last saw.
THEOREM NeverEscalates == Spec => []NoEscalation
<1>1. AnswerIsTheCalls => NoEscalation
  BY ResolvesInAuthority DEF AnswerIsTheCalls, NoEscalation
<1> QED BY <1>1, AnswerInvariant, PTL

\* A request probes the Runner that serves it, and one that is denied none.
THEOREM ProbesAreEarned == Spec => []ProbesMatch
<1>1. AnswerIsTheCalls => ProbesMatch
  BY ServesRefreshed, DeniedRefreshesNothing DEF AnswerIsTheCalls, ProbesMatch
<1> QED BY <1>1, AnswerInvariant, PTL

\* A dynamic row that a listing shows resolves.
LEMMA DynamicRowOk ==
    ASSUME NEW row, NEW e, row = DynamicRow(e),
           e.source \in Sources, e.source.enabled, e.model \in Models,
           Usable(health, e.source.runner), <<e.source.prefix, e.model>> \notin StaticAliases,
           MayExecute(principal, e.source, <<e.source.prefix, e.model>>),
           SourceAdmits(e.source, e.model, health[e.source.runner].snap[e.model])
    PROVE  Resolves(row)
<1>1. /\ row.alias = <<e.source.prefix, e.model>> /\ row.runner = e.source.runner
      /\ row.model = e.model
  BY DEF DynamicRow
<1> QED BY <1>1, DynamicRowResolves DEF Resolves

\* What a listing shows as executable can be run under the alias it shows, but
\* for a preset whose model the newest snapshot lacks.
THEOREM ListedRowsResolve == Spec => []RowsResolve
<1>1. AnswerIsTheCalls => RowsResolve
  <2> SUFFICES ASSUME AnswerIsTheCalls, asked.kind \in {"models", "catalog"},
                      NEW row \in answer
               PROVE  \/ Resolves(row)
                      \/ /\ row.alias \in StaticAliases
                         /\ health[row.runner].snap[row.model].status = "absent"
    BY DEF RowsResolve
  <2>1. CASE asked.kind = "models"
    <3>1. row \in ModelRows(health, verified, principal, "any")
      BY <2>1 DEF AnswerIsTheCalls
    <3>2. CASE \E x \in StaticEntries(health, verified, principal, "any") : row = StaticRow(x)
      <4>1. PICK x \in StaticEntries(health, verified, principal, "any") : row = StaticRow(x)
        BY <3>2
      <4>2. /\ x \in Presets /\ x.alias \in Grants[principal].presets
            /\ PresetAvailable(health, verified, x)
        BY DEF StaticEntries
      <4>3. row.alias = x.alias /\ row.runner = x.runner /\ row.model = x.model
        BY <4>1 DEF StaticRow
      <4>4. x.alias \in StaticAliases
        BY <4>2 DEF StaticAliases
      <4> QED BY <4>2, <4>3, <4>4, StaticRowResolves DEF Resolves
    <3>3. CASE \E e \in DynamicEntries(health, principal, "any") : row = DynamicRow(e)
      <4>1. PICK e \in DynamicEntries(health, principal, "any") : row = DynamicRow(e)
        BY <3>3
      <4> QED BY <4>1, DynamicRowOk DEF DynamicEntries
    <3> QED BY <3>1, <3>2, <3>3 DEF ModelRows
  <2>2. CASE asked.kind = "catalog"
    <3>1. PICK e \in [source : {s \in Sources : s.enabled}, model : Models] :
             ViewExecutable(health, principal, e.source, e.model) /\ row = DynamicRow(e)
      BY <2>2 DEF AnswerIsTheCalls, CatalogRows
    <3> QED BY <3>1, DynamicRowOk DEF ViewExecutable
  <2> QED BY <2>1, <2>2
<1> QED BY <1>1, AnswerInvariant, PTL

=============================================================================
