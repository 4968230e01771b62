--------------------------- MODULE RegistryProofs ---------------------------
(***************************************************************************)
(* A refresh never probes a fresh Runner, and what a run was admitted or   *)
(* started on was listed by the provider a bounded time ago: for any       *)
(* config, any number of clients, requests and faults, and any lifetimes   *)
(* of the registry's and the drivers' caches.                              *)
(***************************************************************************)
EXTENDS Registry, TLAPS

\* What a request and a run under way name is in the config.
Named ==
    \A c \in Clients : /\ req[c].pc # "idle" => req[c].ask \in Asks
                       /\ run[c].pc # "idle" => run[c].model \in Models
\* A pass visits Runners it was asked for, none of them fresh from where it
\* stands on, on behalf of the client whose request waits for it.
PassInv ==
    /\ pass.stage # "next" => pass.who # Nobody
    /\ pass.who # Nobody =>
          /\ pass.at \in DOMAIN Order
          /\ Current \in pass.touched
          /\ \A k \in DOMAIN Order :
                k >= pass.at /\ Order[k] \in pass.touched => ~Fresh(Order[k])
    /\ pass.who \in Clients => /\ req[pass.who].pc = "refreshing"
                               /\ pass.touched \subseteq Refs(req[pass.who].ask)
ControlInv == TypeOK /\ Named /\ PassInv

-----------------------------------------------------------------------------
(* The operators.                                                          *)

\* The clocks' limits are positive.
LEMMA Times == /\ TTL \in Nat /\ CacheTTL \in Nat /\ CallTime \in Nat
               /\ TTL > 0 /\ CacheTTL > 0 /\ CallTime > 0
BY TimeAssumption

\* A mark is cut off after it has ceased to be fresh.
LEMMA LongAgoNat == LongAgo \in Nat /\ TTL <= LongAgo
<1>1. Len(Order) \in Nat /\ Len(Order) # 0
  BY OrderAssumption
<1> DEFINE others == Len(Order) - 1
<1>2. others \in Nat
  BY <1>1
<1> HIDE DEF others
<1>3. others * CallTime \in Nat
  BY <1>2, Times
<1>4. LongAgo = TTL + others * CallTime
  BY DEF LongAgo, others
<1> DEFINE wait == others * CallTime
<1> HIDE DEF wait
<1>5. wait \in Nat /\ LongAgo = TTL + wait
  BY <1>3, <1>4 DEF wait
<1> QED BY <1>5, Times

\* Every place of the config's list is a Runner.
LEMMA Places ==
    /\ DOMAIN Order \subseteq Nat /\ 1 \in DOMAIN Order
    /\ \A k \in DOMAIN Order : Order[k] \in Runners
BY OrderAssumption

\* What a read brings is a catalog, and passes only what is listed when the
\* read starts.
LEMMA ReadIsCatalog ==
    ASSUME NEW r, NEW got \in Results(r)
    PROVE  /\ got \in Catalogs
           /\ \A m \in Models : got[m].status = "passed" => gone[r][m] = Listed
<1>1. Absent \in Rows
  BY DEF Absent, Rows
<1>2. ASSUME NEW ids
      PROVE  /\ Described(r, ids) \in Catalogs
             /\ \A m \in Models : Described(r, ids)[m].status = "passed" => m \in ids
  <2>1. ASSUME NEW m \in Models
        PROVE  /\ Described(r, ids)[m] \in Rows
               /\ Described(r, ids)[m].status = "passed" => m \in ids
    BY <1>1, <2>1 DEF Described, Rows, Absent
  <2> QED BY <2>1 DEF Described, Catalogs
<1>3. /\ Unread(r) \in Catalogs
      /\ \A m \in Models : Unread(r)[m].status # "passed"
  <2>1. ASSUME NEW m \in Models
        PROVE  Unread(r)[m] \in Rows /\ Unread(r)[m].status # "passed"
    BY <1>1, <2>1 DEF Unread, Rows, Absent
  <2> QED BY <2>1 DEF Unread, Catalogs
<1>4. CASE got = Catalogued(r)
  BY <1>2, <1>4 DEF Catalogued
<1>5. CASE got = Unread(r)
  BY <1>3, <1>5
<1>6. CASE got = Described(r, {})
  BY <1>2, <1>6
<1> QED BY <1>4, <1>5, <1>6 DEF Results

\* The initial catalog is empty.
LEMMA EmptyCatalog == NoCatalog \in Catalogs
BY DEF NoCatalog, Catalogs, Absent, Rows

\* A dynamic alias is resolved by one source, whose Runner is the one that was
\* refreshed, to a model that the Runner's snapshot passes.
LEMMA DynamicResolution ==
    ASSUME NEW h, NEW v, NEW p, NEW alias, NEW scope, NEW effort,
           alias \notin StaticAliases, alias = <<alias[1], alias[2]>>, alias[2] \in Models,
           ResolveModel(h, v, p, alias, scope, effort).ok
    PROVE  LET b == ResolveModel(h, v, p, alias, scope, effort)
           IN  /\ b.runner \in Runners /\ b.resolved \in Models
               /\ h[b.runner].ok /\ h[b.runner].snap[b.resolved].status = "passed"
               /\ AliasRefreshRefs(p, alias, scope) = {b.runner}
<1> DEFINE b == ResolveModel(h, v, p, alias, scope, effort)
           s == CHOOSE t \in SourcesFor(alias, scope) : TRUE
<1>1. /\ SourcesFor(alias, scope) # {}
      /\ b.ok /\ b = ResolveDynamic(h, p, s, alias[2], effort)
  BY DEF ResolveModel, Refused
<1>2. s \in SourcesFor(alias, scope)
  BY <1>1
<1>3. /\ s \in Sources /\ s.enabled /\ s.prefix = alias[1]
      /\ \A t \in SourcesFor(alias, scope) : t = s
  BY <1>2, ConfigAssumption DEF SourcesFor
<1> HIDE DEF s, b
<1>4. /\ b.runner = s.runner /\ b.resolved \in Models
      /\ Usable(h, s.runner)
      /\ MayExecute(p, s, <<s.prefix, alias[2]>>)
      /\ SourceAdmits(s, b.resolved, h[s.runner].snap[b.resolved])
  BY <1>1, NameAssumption
     DEF ResolveDynamic, Bound, Binding, Refused, EffortTarget
<1>5. s.runner \in Runners
  BY <1>3, BindingAssumption
<1>6. MayExecute(p, s, alias)
  BY <1>3, <1>4
<1>7. AliasRefreshRefs(p, alias, scope) = {s.runner}
  BY <1>2, <1>3, <1>6 DEF AliasRefreshRefs
<1> QED BY <1>4, <1>5, <1>7 DEF b, Usable, SourceAdmits

\* An accepted request names a Runner and a model of the config.
LEMMA ResolutionIsNamed ==
    ASSUME NEW h, NEW v, NEW p, NEW alias, NEW scope, NEW effort,
           alias \in StaticAliases \/ (alias = <<alias[1], alias[2]>> /\ alias[2] \in Models),
           ResolveModel(h, v, p, alias, scope, effort).ok
    PROVE  LET b == ResolveModel(h, v, p, alias, scope, effort)
           IN  b.runner \in Runners /\ b.resolved \in Models
<1> DEFINE b == ResolveModel(h, v, p, alias, scope, effort)
<1>1. CASE alias \in StaticAliases
  <2> DEFINE x == CHOOSE y \in Presets : y.alias = alias
  <2>1. x \in Presets
    BY <1>1 DEF StaticAliases
  <2>2. x.runner \in Runners /\ x.model \in Models
    BY <2>1, BindingAssumption
  <2>3. b.ok /\ b = ResolveStatic(h, v, p, x, scope, effort)
    BY <1>1 DEF ResolveModel
  <2> HIDE DEF x, b
  <2>4. b.runner = x.runner /\ b.resolved \in Models
    BY <2>2, <2>3, NameAssumption
       DEF ResolveStatic, Bound, Binding, Refused, EffortTarget
  <2> QED BY <2>2, <2>4 DEF b
<1>2. CASE alias \notin StaticAliases
  BY <1>2, DynamicResolution
<1> QED BY <1>1, <1>2

\* The run that an admitted request becomes: a dynamic alias is admitted on
\* the snapshot of the one Runner the request refreshes.
Admitted(x, ask, h) ==
    /\ x \in RunRecords /\ x.pc = "gate" /\ x.model \in Models
    /\ ~x.static => /\ Refs(ask) = {x.runner}
                    /\ h[x.runner].ok
                    /\ h[x.runner].snap[x.model].status = "passed"

\* The initial records.
LEMMA IdleRecords == /\ IdleRun \in RunRecords /\ IdleRun.pc = "idle"
                     /\ IdleReq \in ReqRecords /\ IdleReq.pc = "idle"
                     /\ IdlePass \in PassRecords /\ IdlePass.who = Nobody
                     /\ IdlePass.stage = "next"
BY EmptyCatalog, Times, Places
   DEF IdleRun, IdleReq, IdlePass, RunRecords, ReqRecords, PassRecords

\* An answer ends the request and starts at most that run.
LEMMA Answered ==
    ASSUME TypeOK, NEW c \in Clients, NEW ask \in Asks, NEW h, NEW v, Answer(c, ask, h, v)
    PROVE  /\ req' = [req EXCEPT ![c] = IdleReq]
           /\ \/ run' = run
              \/ \E x : Admitted(x, ask, h) /\ run' = [run EXCEPT ![c] = x]
<1> DEFINE b == IF ask.kind # "chat" THEN Refused("listing")
                ELSE ResolveModel(h, v, ask.principal, ask.alias, ask.scope, ask.effort)
           st == ask.alias \in StaticAliases
           x == [IdleRun EXCEPT !.pc = "gate", !.runner = b.runner, !.model = b.resolved,
                                !.static = st]
<1>1. /\ req' = [req EXCEPT ![c] = IdleReq]
      /\ run' = IF ~b.ok THEN run ELSE [run EXCEPT ![c] = x]
  BY DEF Answer
<1>2. CASE ~b.ok
  BY <1>1, <1>2
<1>3. CASE b.ok
  <2>1. /\ ask.kind = "chat"
        /\ b = ResolveModel(h, v, ask.principal, ask.alias, ask.scope, ask.effort)
    BY <1>3 DEF Refused
  <2>2. ask.alias \notin StaticAliases =>
           ask.alias = <<ask.alias[1], ask.alias[2]>> /\ ask.alias[2] \in Models
    BY <2>1, AliasAssumption
  <2>3. b.runner \in Runners /\ b.resolved \in Models
    BY <1>3, <2>1, <2>2, ResolutionIsNamed
  <2>4. ask.alias \notin StaticAliases =>
           /\ h[b.runner].ok /\ h[b.runner].snap[b.resolved].status = "passed"
           /\ AliasRefreshRefs(ask.principal, ask.alias, ask.scope) = {b.runner}
    BY <1>3, <2>1, <2>2, DynamicResolution
  <2>5. Refs(ask) = AliasRefreshRefs(ask.principal, ask.alias, ask.scope)
    BY <2>1 DEF Refs
  <2> HIDE DEF b
  <2>6. st \in BOOLEAN
    OBVIOUS
  <2> HIDE DEF st
  <2>7. /\ x.pc = "gate" /\ x.runner = b.runner /\ x.model = b.resolved
        /\ x.static = st
    BY IdleRecords DEF RunRecords
  <2>8. x \in RunRecords
    BY <2>3, <2>6, IdleRecords DEF RunRecords
  <2> HIDE DEF x
  <2>9. Admitted(x, ask, h)
    BY <2>3, <2>4, <2>5, <2>7, <2>8 DEF Admitted, st
  <2> QED BY <1>1, <1>3, <2>9
<1> QED BY <1>2, <1>3

-----------------------------------------------------------------------------
(* Types, names and the pass.                                              *)

\* Where a pass is under way, its current Runner is one of the config.
LEMMA CurrentIsRunner ==
    ASSUME PassInv, pass.who # Nobody \/ pass.stage # "next"
    PROVE  pass.who # Nobody /\ pass.at \in DOMAIN Order /\ Current \in Runners
BY Places DEF PassInv, Current

\* An age grows by at most one and stays within its limit.
LEMMA Ages ==
    ASSUME NEW limit \in Nat, NEW low \in Int, low <= limit, NEW age \in low..limit
    PROVE  /\ Aged(age, limit) \in low..limit
           /\ Aged(age, limit) <= age + 1
           /\ Aged(age, limit) < limit => Aged(age, limit) = age + 1
BY DEF Aged

\* The long absence is a natural number beyond both lifetimes.
LEMMA LongGoneNat == LongGone \in Nat /\ Listed \in Int /\ Listed < 0
BY Times DEF LongGone, Listed

\* A request refreshes Runners of the config.
LEMMA RefsAreRunners == ASSUME NEW ask \in Asks PROVE Refs(ask) \subseteq Runners
<1>1. ask.kind \in {"chat", "models", "catalog"}
  BY AskAssumption
<1>2. \A p, alias, scope : /\ AliasRefreshRefs(p, alias, scope) \subseteq Runners
                           /\ ModelsRefreshRefs(p, scope) \subseteq Runners
                           /\ CatalogRefreshRefs(p, scope) \subseteq Runners
  BY BindingAssumption
     DEF AliasRefreshRefs, ModelsRefreshRefs, CatalogRefreshRefs, SourcesFor
<1> QED BY <1>1, <1>2 DEF Refs

\* What each action does to the types.
LEMMA TypeStep == ASSUME ControlInv, Next PROVE TypeOK'
<1> USE DEF ControlInv
<1>1. CASE Tick
  <2>1. gone' \in [Runners -> [Models -> Listed..LongGone]]
    <3>1. ASSUME NEW r \in Runners, NEW m \in Models
          PROVE  (IF gone[r][m] = Listed THEN Listed ELSE Aged(gone[r][m], LongGone))
                     \in Listed..LongGone
      <4>1. gone[r][m] \in Listed..LongGone
        BY DEF TypeOK
      <4>2. Aged(gone[r][m], LongGone) \in Listed..LongGone
        BY <4>1, LongGoneNat DEF Aged
      <4> QED BY <4>2, LongGoneNat
    <3> QED BY <1>1, <3>1 DEF Tick
  <2>2. cache' \in [Runners -> [age : 0..CacheTTL, got : Catalogs]]
    <3>1. ASSUME NEW r \in Runners
          PROVE  [cache[r] EXCEPT !.age = Aged(@, CacheTTL)] \in [age : 0..CacheTTL, got : Catalogs]
      <4>1. cache[r] \in [age : 0..CacheTTL, got : Catalogs]
        BY DEF TypeOK
      <4>2. Aged(cache[r].age, CacheTTL) \in 0..CacheTTL
        <5>1. cache[r].age \in 0..CacheTTL /\ 0 <= CacheTTL
          BY <4>1, Times
        <5> QED BY <5>1, Times DEF Aged
      <4> QED BY <4>1, <4>2
    <3> QED BY <1>1, <3>1 DEF Tick
  <2>3. mark' \in [Runners -> 0..LongAgo]
    <3>1. ASSUME NEW r \in Runners PROVE Aged(mark[r], LongAgo) \in 0..LongAgo
      <4>1. mark[r] \in 0..LongAgo
        BY DEF TypeOK
      <4> QED BY <4>1, LongAgoNat DEF Aged
    <3> QED BY <1>1, <3>1 DEF Tick
  <2>4. pass' \in PassRecords
    <3>1. pass \in PassRecords
      BY DEF TypeOK
    <3>2. CASE pass.who = Nobody
      BY <1>1, <3>1, <3>2 DEF Tick
    <3>3. CASE pass.who # Nobody
      <4>1. pass.since + 1 \in 0..CallTime
        BY <1>1, <3>1, <3>3, Times DEF Tick, PassRecords
      <4>2. [pass EXCEPT !.since = @ + 1] \in PassRecords
        BY <3>1, <4>1 DEF PassRecords
      <4> QED BY <1>1, <3>3, <4>2 DEF Tick
    <3> QED BY <3>2, <3>3
  <2>5. run' \in [Clients -> RunRecords]
    <3>1. ASSUME NEW c \in Clients
          PROVE  (IF run[c].pc = "reading" THEN [run[c] EXCEPT !.since = @ + 1] ELSE run[c])
                     \in RunRecords
      <4>1. run[c] \in RunRecords
        BY DEF TypeOK
      <4>2. CASE run[c].pc = "reading"
        <5>1. run[c].since + 1 \in 0..CallTime
          BY <1>1, <4>1, <4>2, Times DEF Tick, RunRecords
        <5> QED BY <4>1, <4>2, <5>1 DEF RunRecords
      <4> QED BY <4>1, <4>2
    <3> QED BY <1>1, <3>1 DEF Tick
  <2> QED BY <1>1, <2>1, <2>2, <2>3, <2>4, <2>5 DEF Tick, TypeOK
<1>2. CASE ProviderChanges
  <2>1. gone' \in [Runners -> [Models -> Listed..LongGone]]
    BY <1>2, LongGoneNat DEF ProviderChanges, TypeOK
  <2> QED BY <1>2, <2>1 DEF ProviderChanges, TypeOK
<1>3. CASE Discover
  <2>1. Current \in Runners
    BY <1>3, CurrentIsRunner DEF Discover
  <2>2. pass' \in PassRecords
    <3>1. CASE Current \in CachedDiscovery /\ CacheFresh(Current)
      <4>1. cache[Current].got \in Catalogs
        BY <2>1 DEF TypeOK
      <4> QED BY <1>3, <3>1, <4>1 DEF Discover, TypeOK, PassRecords
    <3>2. ASSUME NEW got \in Results(Current),
                 pass' = [pass EXCEPT !.stage = "reading", !.got = got]
          PROVE  pass' \in PassRecords
      <4>1. got \in Catalogs
        BY <3>2, ReadIsCatalog
      <4> QED BY <3>2, <4>1 DEF TypeOK, PassRecords
    <3> QED BY <1>3, <3>1, <3>2 DEF Discover
  <2> QED BY <1>3, <2>2 DEF Discover, TypeOK
<1>4. CASE DiscoverDone
  <2>1. Current \in Runners
    BY <1>4, CurrentIsRunner DEF DiscoverDone
  <2>2. pass.got \in Catalogs /\ 0 \in 0..CacheTTL
    BY Times DEF TypeOK, PassRecords
  <2>3. cache' \in [Runners -> [age : 0..CacheTTL, got : Catalogs]]
    BY <1>4, <2>1, <2>2 DEF DiscoverDone, Stored, TypeOK
  <2>4. pass' \in PassRecords
    BY <1>4 DEF DiscoverDone, TypeOK, PassRecords
  <2> QED BY <1>4, <2>3, <2>4 DEF DiscoverDone, TypeOK
<1>5. CASE VerifyFails
  <2>1. Current \in Runners
    BY <1>5, CurrentIsRunner DEF VerifyFails
  <2>2. health' \in [Runners -> [enabled : BOOLEAN, ok : BOOLEAN, snap : Catalogs]]
    BY <1>5, <2>1 DEF VerifyFails, TypeOK
  <2>3. pass' \in PassRecords
    BY <1>5, EmptyCatalog DEF VerifyFails, TypeOK, PassRecords
  <2> QED BY <1>5, <2>2, <2>3 DEF VerifyFails, TypeOK
<1>6. CASE VerifyPasses
  <2>1. Current \in Runners /\ pass.got \in Catalogs
    BY <1>6, CurrentIsRunner DEF VerifyPasses, TypeOK, PassRecords
  <2>2. health' \in [Runners -> [enabled : BOOLEAN, ok : BOOLEAN, snap : Catalogs]]
    BY <1>6, <2>1 DEF VerifyPasses, TypeOK
  <2>3. pass' \in PassRecords
    BY <1>6, EmptyCatalog DEF VerifyPasses, TypeOK, PassRecords
  <2> QED BY <1>6, <2>2, <2>3 DEF VerifyPasses, TypeOK
<1>7. ASSUME NEW c \in Clients, NEW ask \in Asks, NEW h, NEW v, Answer(c, ask, h, v)
      PROVE  req' \in [Clients -> ReqRecords] /\ run' \in [Clients -> RunRecords]
  <2>1. /\ req' = [req EXCEPT ![c] = IdleReq]
        /\ \/ run' = run
           \/ \E x : Admitted(x, ask, h) /\ run' = [run EXCEPT ![c] = x]
    BY <1>7, Answered
  <2>2. req' \in [Clients -> ReqRecords]
    BY <2>1, IdleRecords DEF TypeOK
  <2>3. run' \in [Clients -> RunRecords]
    BY <2>1 DEF TypeOK, Admitted
  <2> QED BY <2>2, <2>3
<1>8. CASE Attempted
  <2>1. Current \in Runners
    BY <1>8, CurrentIsRunner DEF Attempted
  <2>2. mark' \in [Runners -> 0..LongAgo]
    <3>1. 0 \in 0..LongAgo
      BY LongAgoNat
    <3> QED BY <1>8, <2>1, <3>1 DEF Attempted, TypeOK
  <2>3. gone' = gone /\ cache' = cache /\ health' = health
    BY <1>8 DEF Attempted
  <2>4. CASE Ahead(pass.at, pass.touched) # {}
    <3>1. PICK k \in Ahead(pass.at, pass.touched) :
              pass' = [pass EXCEPT !.at = k, !.stage = "next", !.since = 0]
      BY <1>8, <2>4 DEF Attempted
    <3>2. k \in Nat /\ 0 \in 0..CallTime
      BY <3>1, Places, Times DEF Ahead
    <3>3. pass' \in PassRecords
      BY <3>1, <3>2 DEF TypeOK, PassRecords
    <3>4. verified' = verified /\ req' = req /\ run' = run
      BY <1>8, <2>4 DEF Attempted
    <3> QED BY <2>2, <2>3, <3>3, <3>4 DEF TypeOK
  <2>5. CASE Ahead(pass.at, pass.touched) = {}
    <3>1. pass' \in PassRecords
      BY <1>8, <2>5, IdleRecords DEF Attempted
    <3>2. verified' \subseteq StaticAliases
      BY <1>8, <2>5 DEF Attempted, Derived, StaticAliases
    <3>3. req' \in [Clients -> ReqRecords] /\ run' \in [Clients -> RunRecords]
      <4>1. CASE pass.who = "startup"
        BY <1>8, <2>5, <4>1 DEF Attempted, TypeOK
      <4>2. CASE pass.who # "startup"
        <5>1. pass.who \in Clients
          BY <1>8, <4>2, CurrentIsRunner DEF Attempted, TypeOK, PassRecords
        <5>2. req[pass.who].ask \in Asks
          BY <5>1 DEF PassInv, Named
        <5>3. Answer(pass.who, req[pass.who].ask, health, Derived)
          BY <1>8, <2>5, <4>2 DEF Attempted
        <5> QED BY <1>7, <5>1, <5>2, <5>3
      <4> QED BY <4>1, <4>2
    <3> QED BY <2>2, <2>3, <3>1, <3>2, <3>3 DEF TypeOK
  <2> QED BY <2>4, <2>5
<1>9. ASSUME NEW c \in Clients, Ask(c) PROVE TypeOK'
  <2>1. PICK ask \in Asks :
           IF Refs(ask) # {} /\ \A r \in Refs(ask) : Fresh(r)
           THEN Answer(c, ask, health, verified)
           ELSE req' = [req EXCEPT ![c] = [pc |-> "queued", ask |-> ask]] /\ run' = run
    BY <1>9 DEF Ask
  <2>2. CASE Answer(c, ask, health, verified)
    BY <1>7, <1>9, <2>2 DEF Ask, TypeOK
  <2>3. CASE req' = [req EXCEPT ![c] = [pc |-> "queued", ask |-> ask]] /\ run' = run
    <3>1. [pc |-> "queued", ask |-> ask] \in ReqRecords
      BY DEF ReqRecords
    <3>2. req' \in [Clients -> ReqRecords]
      BY <2>3, <3>1 DEF TypeOK
    <3> QED BY <1>9, <2>3, <3>2 DEF Ask, TypeOK
  <2> QED BY <2>1, <2>2, <2>3
<1>10. ASSUME NEW c \in Clients, TakeGuard(c) PROVE TypeOK'
  <2> DEFINE targets == Targets(Refs(req[c].ask))
  <2>1. /\ gone' = gone /\ cache' = cache /\ health' = health /\ mark' = mark
        /\ verified' = verified
    BY <1>10 DEF TakeGuard
  <2>2. CASE targets = {}
    <3>1. Answer(c, req[c].ask, health, verified) /\ pass' = pass
      BY <1>10, <2>2 DEF TakeGuard
    <3>2. req[c].ask \in Asks
      BY <1>10 DEF TakeGuard, Named
    <3> QED BY <1>7, <2>1, <3>1, <3>2 DEF TypeOK
  <2>3. CASE targets # {}
    <3>1. PICK k \in Ahead(0, targets) :
              pass' = [IdlePass EXCEPT !.who = c, !.at = k, !.touched = targets]
      BY <1>10, <2>3 DEF TakeGuard
    <3>2. k \in Nat /\ targets \in SUBSET Runners
      <4>1. req[c].ask \in Asks
        BY <1>10 DEF TakeGuard, Named
      <4>2. Refs(req[c].ask) \subseteq Runners
        BY <4>1, RefsAreRunners
      <4> QED BY <3>1, <4>2, Places DEF Ahead, Targets
    <3>3. pass' \in PassRecords
      <4> HIDE DEF targets
      <4> QED BY <3>1, <3>2, IdleRecords DEF PassRecords
    <3>4. req' = [req EXCEPT ![c].pc = "refreshing"] /\ run' = run
      BY <1>10, <2>3 DEF TakeGuard
    <3>5. req' \in [Clients -> ReqRecords]
      BY <3>4 DEF TypeOK, ReqRecords
    <3> QED BY <2>1, <3>3, <3>4, <3>5 DEF TypeOK
  <2> QED BY <2>2, <2>3
<1>11. ASSUME NEW c \in Clients, NEW got, Decide(c, got) PROVE run' \in [Clients -> RunRecords]
  <2>1. run[c] \in RunRecords
    BY DEF TypeOK
  <2>2. [run[c] EXCEPT !.pc = "spawned", !.got = NoCatalog, !.since = 0] \in RunRecords
    <3>1. 0 \in 0..CallTime
      BY Times
    <3> QED BY <2>1, <3>1, EmptyCatalog DEF RunRecords
  <2>3. \E x \in RunRecords : run' = [run EXCEPT ![c] = x]
    BY <1>11, <2>2, IdleRecords DEF Decide
  <2> QED BY <2>3 DEF TypeOK
<1>12. ASSUME NEW c \in Clients, GateCached(c) PROVE TypeOK'
  BY <1>11, <1>12 DEF GateCached, TypeOK
<1>13. ASSUME NEW c \in Clients, GateReads(c) PROVE TypeOK'
  <2>1. PICK got \in Results(run[c].runner) :
            run' = [run EXCEPT ![c].pc = "reading", ![c].got = got]
    BY <1>13 DEF GateReads
  <2>2. got \in Catalogs
    BY <2>1, ReadIsCatalog
  <2>3. run' \in [Clients -> RunRecords]
    <3>1. run[c] \in RunRecords
      BY DEF TypeOK
    <3>2. [run[c] EXCEPT !.pc = "reading", !.got = got] \in RunRecords
      BY <2>2, <3>1 DEF RunRecords
    <3>3. run' = [run EXCEPT ![c] = [run[c] EXCEPT !.pc = "reading", !.got = got]]
      BY <2>1 DEF TypeOK
    <3> QED BY <3>2, <3>3 DEF TypeOK
  <2> QED BY <1>13, <2>3 DEF GateReads, TypeOK
<1>14. ASSUME NEW c \in Clients, GateDone(c) PROVE TypeOK'
  <2>1. run[c].runner \in Runners /\ run[c].got \in Catalogs /\ 0 \in 0..CacheTTL
    BY Times DEF TypeOK, RunRecords
  <2>2. cache' \in [Runners -> [age : 0..CacheTTL, got : Catalogs]]
    BY <1>14, <2>1 DEF GateDone, Stored, TypeOK
  <2> QED BY <1>11, <1>14, <2>2 DEF GateDone, TypeOK
<1>15. ASSUME NEW c \in Clients, RunEnds(c) PROVE TypeOK'
  <2>1. run' \in [Clients -> RunRecords]
    BY <1>15, IdleRecords DEF RunEnds, TypeOK
  <2> QED BY <1>15, <2>1 DEF RunEnds, TypeOK
<1> QED BY <1>1, <1>2, <1>3, <1>4, <1>5, <1>6, <1>8, <1>9, <1>10, <1>12, <1>13, <1>14, <1>15
        DEF Next, PassStep

\* What a request and a run name is in the config after every step.
LEMMA NamedStep == ASSUME ControlInv, Next PROVE Named'
<1> USE DEF ControlInv
<1>1. ASSUME req' = req, run' = run PROVE Named'
  BY <1>1 DEF Named
<1>2. ASSUME NEW c \in Clients, NEW ask \in Asks, NEW h, NEW v, Answer(c, ask, h, v)
      PROVE  Named'
  <2>1. /\ req' = [req EXCEPT ![c] = IdleReq]
        /\ \/ run' = run
           \/ \E x : Admitted(x, ask, h) /\ run' = [run EXCEPT ![c] = x]
    BY <1>2, Answered
  <2>2. \A d \in Clients : req'[d].pc # "idle" => req'[d].ask \in Asks
    BY <2>1, IdleRecords DEF Named, TypeOK
  <2>3. \A d \in Clients : run'[d].pc # "idle" => run'[d].model \in Models
    BY <2>1 DEF Named, TypeOK, Admitted
  <2> QED BY <2>2, <2>3 DEF Named
<1>3. CASE Tick
  <2>1. req' = req
    BY <1>3 DEF Tick
  <2>2. ASSUME NEW c \in Clients PROVE run'[c].pc = run[c].pc /\ run'[c].model = run[c].model
    <3>1. run[c] \in RunRecords
      BY DEF TypeOK
    <3>2. run'[c] = IF run[c].pc = "reading" THEN [run[c] EXCEPT !.since = @ + 1] ELSE run[c]
      BY <1>3 DEF Tick
    <3> QED BY <3>1, <3>2 DEF RunRecords
  <2> QED BY <2>1, <2>2 DEF Named
<1>4. CASE Attempted
  <2>1. CASE Ahead(pass.at, pass.touched) # {} \/ pass.who = "startup"
    BY <1>1, <1>4, <2>1 DEF Attempted
  <2>2. CASE Ahead(pass.at, pass.touched) = {} /\ pass.who # "startup"
    <3>1. pass.who \in Clients
      BY <1>4, <2>2, CurrentIsRunner DEF Attempted, TypeOK, PassRecords
    <3>2. req[pass.who].ask \in Asks
      BY <3>1 DEF PassInv, Named
    <3>3. Answer(pass.who, req[pass.who].ask, health, Derived)
      BY <1>4, <2>2 DEF Attempted
    <3> QED BY <1>2, <3>1, <3>2, <3>3
  <2> QED BY <2>1, <2>2
<1>5. ASSUME NEW c \in Clients, Ask(c) PROVE Named'
  <2>1. PICK ask \in Asks :
           IF Refs(ask) # {} /\ \A r \in Refs(ask) : Fresh(r)
           THEN Answer(c, ask, health, verified)
           ELSE req' = [req EXCEPT ![c] = [pc |-> "queued", ask |-> ask]] /\ run' = run
    BY <1>5 DEF Ask
  <2>2. CASE Answer(c, ask, health, verified)
    BY <1>2, <1>5, <2>2
  <2>3. CASE req' = [req EXCEPT ![c] = [pc |-> "queued", ask |-> ask]] /\ run' = run
    BY <2>3 DEF Named, TypeOK
  <2> QED BY <2>1, <2>2, <2>3
<1>6. ASSUME NEW c \in Clients, TakeGuard(c) PROVE Named'
  <2>1. req[c].ask \in Asks
    BY <1>6 DEF TakeGuard, Named
  <2>2. CASE Answer(c, req[c].ask, health, verified)
    BY <1>2, <1>6, <2>1, <2>2
  <2>3. CASE req' = [req EXCEPT ![c].pc = "refreshing"] /\ run' = run
    <3>1. \A d \in Clients : req'[d].ask = req[d].ask
      BY <2>3 DEF TypeOK, ReqRecords
    <3>2. \A d \in Clients : d # c => req'[d] = req[d]
      BY <2>3 DEF TypeOK
    <3> QED BY <2>1, <2>3, <3>1, <3>2 DEF Named
  <2> QED BY <1>6, <2>2, <2>3 DEF TakeGuard
<1>7. ASSUME NEW c \in Clients, GateCached(c) \/ GateReads(c) \/ GateDone(c) \/ RunEnds(c)
      PROVE  Named'
  <2>1. req' = req /\ run[c].pc # "idle"
    BY <1>7 DEF GateCached, GateReads, GateDone, RunEnds
  <2>2. run[c] \in RunRecords
    BY DEF TypeOK
  <2>3. \E x : /\ run' = [run EXCEPT ![c] = x]
               /\ x.pc # "idle" => x.model = run[c].model
    <3>1. CASE run' = [run EXCEPT ![c] = IdleRun]
      BY <3>1, IdleRecords
    <3>2. CASE run' = [run EXCEPT ![c] = [run[c] EXCEPT !.pc = "spawned", !.got = NoCatalog,
                                                        !.since = 0]]
      <4> DEFINE y == [run[c] EXCEPT !.pc = "spawned", !.got = NoCatalog, !.since = 0]
      <4>1. y.model = run[c].model
        BY <2>2 DEF RunRecords
      <4>2. run' = [run EXCEPT ![c] = y]
        BY <3>2
      <4> HIDE DEF y
      <4> QED BY <4>1, <4>2
    <3>3. ASSUME NEW got, run' = [run EXCEPT ![c].pc = "reading", ![c].got = got]
          PROVE  \E x : /\ run' = [run EXCEPT ![c] = x]
                        /\ x.pc # "idle" => x.model = run[c].model
      <4>1. run' = [run EXCEPT ![c] = [run[c] EXCEPT !.pc = "reading", !.got = got]]
        BY <3>3 DEF TypeOK
      <4> DEFINE y == [run[c] EXCEPT !.pc = "reading", !.got = got]
      <4>2. y.model = run[c].model
        BY <2>2 DEF RunRecords
      <4>3. run' = [run EXCEPT ![c] = y]
        BY <4>1
      <4> HIDE DEF y
      <4> QED BY <4>2, <4>3
    <3> QED BY <1>7, <3>1, <3>2, <3>3 DEF GateCached, GateReads, GateDone, RunEnds, Decide
  <2>4. \A d \in Clients : run'[d].pc # "idle" => run'[d].model \in Models
    BY <2>1, <2>3 DEF Named, TypeOK
  <2> QED BY <2>1, <2>4 DEF Named
<1>8. CASE ProviderChanges \/ Discover \/ DiscoverDone \/ VerifyFails \/ VerifyPasses
  BY <1>1, <1>8 DEF ProviderChanges, Discover, DiscoverDone, VerifyFails, VerifyPasses
<1> QED BY <1>3, <1>4, <1>5, <1>6, <1>7, <1>8 DEF Next, PassStep

\* A pass keeps to Runners that were not fresh when it came to them: marks only
\* age, but for that of a Runner the pass has left behind, and each Runner has
\* one place in the config.
LEMMA PassInvStep == ASSUME ControlInv, Next PROVE PassInv'
<1> USE DEF ControlInv
<1>1. Nobody \notin Clients
  BY ClientAssumption DEF Nobody
<1>2. ASSUME pass'.who = Nobody, pass'.stage = "next" PROVE PassInv'
  BY <1>1, <1>2 DEF PassInv
<1>3. ASSUME pass'.who = pass.who, pass'.at = pass.at, pass'.touched = pass.touched,
             pass'.stage # "next" => pass.who # Nobody,
             \A k \in DOMAIN Order : ~Fresh(Order[k]) => ~(mark'[Order[k]] < TTL),
             pass.who \in Clients => req'[pass.who] = req[pass.who]
      PROVE  PassInv'
  BY <1>3 DEF PassInv, Current, Fresh
<1>4. CASE Tick
  <2>1. pass \in PassRecords
    BY DEF TypeOK
  <2>2. pass' = pass \/ pass' = [pass EXCEPT !.since = @ + 1]
    BY <1>4 DEF Tick
  <2>3. /\ pass'.who = pass.who /\ pass'.at = pass.at /\ pass'.touched = pass.touched
        /\ pass'.stage = pass.stage
    BY <2>1, <2>2 DEF PassRecords
  <2>4. ASSUME NEW k \in DOMAIN Order, ~Fresh(Order[k]) PROVE ~(mark'[Order[k]] < TTL)
    <3>1. Order[k] \in Runners
      BY Places
    <3>2. mark[Order[k]] \in 0..LongAgo /\ mark'[Order[k]] = Aged(mark[Order[k]], LongAgo)
      BY <1>4, <3>1 DEF Tick, TypeOK
    <3> QED BY <2>4, <3>2, Times, LongAgoNat DEF Fresh, Aged
  <2>5. req' = req
    BY <1>4 DEF Tick
  <2>6. pass.stage # "next" => pass.who # Nobody
    BY DEF PassInv
  <2> QED BY <1>3, <2>3, <2>4, <2>5, <2>6
<1>5. CASE Discover \/ DiscoverDone \/ VerifyFails \/ VerifyPasses
  <2>1. pass.who # Nobody
    BY <1>5, CurrentIsRunner DEF Discover, DiscoverDone, VerifyFails, VerifyPasses
  <2>2. mark' = mark /\ req' = req
    BY <1>5 DEF Discover, DiscoverDone, VerifyFails, VerifyPasses
  <2>3. \E s, got : pass' = [pass EXCEPT !.stage = s, !.got = got]
                       \/ pass' = [pass EXCEPT !.stage = s]
    BY <1>5 DEF Discover, DiscoverDone, VerifyFails, VerifyPasses
  <2>4. pass'.who = pass.who /\ pass'.at = pass.at /\ pass'.touched = pass.touched
    BY <2>3 DEF TypeOK, PassRecords
  <2> QED BY <1>3, <2>1, <2>2, <2>4 DEF Fresh
<1>6. CASE Attempted
  <2>1. CASE Ahead(pass.at, pass.touched) # {}
    <3>1. PICK k \in Ahead(pass.at, pass.touched) :
              pass' = [pass EXCEPT !.at = k, !.stage = "next", !.since = 0]
      BY <1>6, <2>1 DEF Attempted
    <3>2. /\ pass'.who = pass.who /\ pass'.at = k /\ pass'.touched = pass.touched
          /\ pass'.stage = "next"
      BY <3>1 DEF TypeOK, PassRecords
    <3>3. k \in DOMAIN Order /\ k > pass.at /\ Order[k] \in pass.touched
      BY <3>1 DEF Ahead
    <3>4. req' = req /\ mark' = [mark EXCEPT ![Current] = 0]
      BY <1>6, <2>1 DEF Attempted
    <3>5. pass.who # Nobody /\ pass.at \in DOMAIN Order
      BY <1>6, CurrentIsRunner DEF Attempted
    <3>6. ASSUME NEW l \in DOMAIN Order, l >= k, Order[l] \in pass.touched
          PROVE  ~(mark'[Order[l]] < TTL)
      <4>1. l >= pass.at /\ l # pass.at
        BY <3>3, <3>5, <3>6, Places
      <4>2. ~Fresh(Order[l])
        BY <3>5, <3>6, <4>1 DEF PassInv
      <4>3. Order[l] # Current /\ Order[l] \in Runners
        BY <3>5, <4>1, OrderAssumption, Places DEF Current
      <4>4. mark'[Order[l]] = mark[Order[l]]
        BY <3>4, <4>3 DEF TypeOK
      <4> QED BY <4>2, <4>4 DEF Fresh
    <3> QED BY <3>2, <3>3, <3>4, <3>6 DEF PassInv, Current, Fresh
  <2>2. CASE Ahead(pass.at, pass.touched) = {}
    BY <1>2, <1>6, <2>2, IdleRecords DEF Attempted
  <2> QED BY <2>1, <2>2
<1>7. ASSUME NEW c \in Clients, Ask(c) PROVE PassInv'
  <2>1. pass' = pass /\ mark' = mark
    BY <1>7 DEF Ask
  <2>2. pass.who \in Clients => pass.who # c
    BY <1>7 DEF Ask, PassInv
  <2>3. \E x : req' = [req EXCEPT ![c] = x]
    BY <1>7 DEF Ask, Answer
  <2>4. pass.who \in Clients => req'[pass.who] = req[pass.who]
    BY <2>2, <2>3 DEF TypeOK
  <2>5. pass.stage # "next" => pass.who # Nobody
    BY DEF PassInv
  <2> QED BY <1>3, <2>1, <2>4, <2>5 DEF Fresh
<1>8. ASSUME NEW c \in Clients, TakeGuard(c) PROVE PassInv'
  <2> DEFINE targets == Targets(Refs(req[c].ask))
  <2>1. pass.who = Nobody /\ pass.stage = "next" /\ mark' = mark
    BY <1>8 DEF TakeGuard, PassInv
  <2>2. CASE targets = {}
    BY <1>2, <1>8, <2>1, <2>2 DEF TakeGuard
  <2>3. CASE targets # {}
    <3>1. PICK k \in Ahead(0, targets) :
              pass' = [IdlePass EXCEPT !.who = c, !.at = k, !.touched = targets]
      BY <1>8, <2>3 DEF TakeGuard
    <3>2. /\ pass'.who = c /\ pass'.at = k /\ pass'.touched = targets
          /\ pass'.stage = "next"
      BY <3>1 DEF IdlePass
    <3>3. k \in DOMAIN Order /\ Order[k] \in targets
      BY <3>1 DEF Ahead
    <3>4. req' = [req EXCEPT ![c].pc = "refreshing"]
      BY <1>8, <2>3 DEF TakeGuard
    <3>5. req'[c].pc = "refreshing" /\ req'[c].ask = req[c].ask
      BY <3>4 DEF TypeOK, ReqRecords
    <3>6. targets \subseteq Refs(req[c].ask) /\ \A r \in targets : ~(mark'[r] < TTL)
      BY <2>1 DEF Targets, Fresh
    <3>7. c # Nobody
      BY <1>1
    <3> HIDE DEF targets
    <3> QED BY <3>2, <3>3, <3>5, <3>6, <3>7 DEF PassInv, Current, Fresh
  <2> QED BY <2>2, <2>3
<1>9. ASSUME NEW c \in Clients, GateCached(c) \/ GateReads(c) \/ GateDone(c) \/ RunEnds(c)
      PROVE  PassInv'
  <2>1. pass' = pass /\ mark' = mark /\ req' = req
    BY <1>9 DEF GateCached, GateReads, GateDone, RunEnds
  <2> QED BY <2>1 DEF PassInv, Current, Fresh
<1>10. CASE ProviderChanges
  <2>1. pass' = pass /\ mark' = mark /\ req' = req
    BY <1>10 DEF ProviderChanges
  <2> QED BY <2>1 DEF PassInv, Current, Fresh
<1> QED BY <1>4, <1>5, <1>6, <1>7, <1>8, <1>9, <1>10 DEF Next, PassStep

\* Types, names and the pass, in every reachable state.
LEMMA ControlAlways == Spec => []ControlInv
<1>1. Init => ControlInv
  <2> SUFFICES ASSUME Init PROVE ControlInv
    OBVIOUS
  <2>1. TypeOK
    <3>1. /\ gone \in [Runners -> [Models -> Listed..LongGone]]
          /\ mark \in [Runners -> 0..LongAgo]
          /\ verified \subseteq StaticAliases
      BY LongGoneNat, LongAgoNat DEF Init
    <3>2. /\ cache \in [Runners -> [age : 0..CacheTTL, got : Catalogs]]
          /\ health \in [Runners -> [enabled : BOOLEAN, ok : BOOLEAN, snap : Catalogs]]
      <4>1. CacheTTL \in 0..CacheTTL
        BY Times
      <4>2. \A r \in Runners : (r \in Enabled) \in BOOLEAN
        OBVIOUS
      <4> QED BY <4>1, <4>2, EmptyCatalog DEF Init
    <3>3. pass \in PassRecords
      BY IdleRecords DEF Init, PassRecords
    <3>4. req \in [Clients -> ReqRecords] /\ run \in [Clients -> RunRecords]
      BY IdleRecords DEF Init
    <3> QED BY <3>1, <3>2, <3>3, <3>4 DEF TypeOK
  <2>2. Named
    BY IdleRecords DEF Init, Named
  <2>3. PassInv
    <3>1. /\ pass.who = "startup" /\ pass.at = 1 /\ pass.touched = Runners
          /\ pass.stage = "next"
      BY DEF Init, IdlePass
    <3>2. "startup" # Nobody /\ "startup" \notin Clients
      BY ClientAssumption DEF Nobody
    <3>3. \A r \in Runners : ~Fresh(r)
      BY Times, LongAgoNat DEF Init, Fresh
    <3> QED BY <3>1, <3>2, <3>3, Places DEF PassInv, Current
  <2> QED BY <2>1, <2>2, <2>3 DEF ControlInv
<1>2. ControlInv /\ [Next]_vars => ControlInv'
  <2>1. ASSUME ControlInv, UNCHANGED vars PROVE ControlInv'
    BY <2>1 DEF ControlInv, vars, TypeOK, Named, PassInv, Current, Fresh
  <2> QED BY <2>1, TypeStep, NamedStep, PassInvStep DEF ControlInv
<1> QED BY <1>1, <1>2, PTL DEF Spec

\* Singleflight: a refresh for a client probes a Runner only if its last
\* attempt is a TTL ago, however many requests wait for the guard.
THEOREM ProbesAreSingleflight == Spec => NoStorm
<1>1. ControlInv /\ [Next]_vars =>
        [(pass.who \in Clients /\ pass.stage = "next" /\ pass'.stage # "next")
            => ~Fresh(Current)]_vars
  <2>1. ASSUME ControlInv, pass.who \in Clients PROVE ~Fresh(Current)
    <3>1. pass.who # Nobody
      BY <2>1, ClientAssumption DEF Nobody
    <3>2. /\ pass.at \in DOMAIN Order /\ Current \in pass.touched
          /\ \A k \in DOMAIN Order :
                k >= pass.at /\ Order[k] \in pass.touched => ~Fresh(Order[k])
      BY <2>1, <3>1 DEF ControlInv, PassInv
    <3> QED BY <3>2, Places DEF Current
  <2> QED BY <2>1
<1> QED BY <1>1, ControlAlways, PTL DEF Spec, NoStorm

-----------------------------------------------------------------------------
(* How old what a driver or the registry knows can be.                     *)

\* Everything that got passes was listed at most age ago.
Recent(r, got, age) == \A m \in Models : got[m].status = "passed" => gone[r][m] <= age
\* What discovery from the driver's cache may add to a snapshot's age.
Slack(r) == IF r \in CachedDiscovery THEN CacheTTL + CallTime ELSE 0

\* A catalog on its way to the execution gate is as old as the read.
GateReading ==
    \A c \in Clients :
        run[c].pc = "reading" => Recent(run[c].runner, run[c].got, run[c].since)
\* A driver's cache entry is as old as its stamp and the read that brought it.
CacheRecent ==
    \A r \in Runners : CacheFresh(r) => Recent(r, cache[r].got, cache[r].age + CallTime)
\* A catalog on its way to the registry, and the snapshot just taken from it, is
\* as old as the attempt, and the cache it may come from.
PassRecent ==
    /\ pass.stage = "reading" => Recent(Current, pass.got, pass.since)
    /\ pass.stage = "got" => Recent(Current, pass.got, pass.since + Slack(Current))
    /\ pass.stage = "closing" /\ health[Current].ok =>
          Recent(Current, health[Current].snap, pass.since + Slack(Current))
\* The snapshot of a fresh Runner whose last attempt passed is as old as the
\* mark and that attempt.
SnapRecent ==
    \A r \in Runners : Fresh(r) /\ health[r].ok =>
        Recent(r, health[r].snap, mark[r] + CallTime + Slack(r))
AgeInv == GateReading /\ CacheRecent /\ PassRecent /\ SnapRecent

\* What adds to an age is a natural number.
LEMMA SlackNat == \A r : Slack(r) \in Nat
BY Times DEF Slack

\* Time adds one to what is recent, a change of the catalog nothing.
LEMMA RecentAges ==
    ASSUME TypeOK, NEW r \in Runners, NEW got, NEW age \in Nat, Recent(r, got, age)
    PROVE  /\ Tick => \A m \in Models : got[m].status = "passed" => gone'[r][m] <= age + 1
           /\ ProviderChanges =>
                 \A m \in Models : got[m].status = "passed" => gone'[r][m] <= age
<1> SUFFICES ASSUME NEW m \in Models, got[m].status = "passed"
             PROVE  /\ Tick => gone'[r][m] <= age + 1
                    /\ ProviderChanges => gone'[r][m] <= age
  OBVIOUS
<1>1. gone[r][m] \in Listed..LongGone /\ gone[r][m] <= age
  BY DEF TypeOK, Recent
<1>2. ASSUME Tick PROVE gone'[r][m] <= age + 1
  <2>1. gone'[r][m] = IF gone[r][m] = Listed THEN Listed ELSE Aged(gone[r][m], LongGone)
    BY <1>2 DEF Tick
  <2> QED BY <1>1, <2>1, LongGoneNat DEF Aged
<1>3. ASSUME ProviderChanges PROVE gone'[r][m] <= age
  <2>1. gone'[r][m] \in {gone[r][m], 0, Listed}
    BY <1>3 DEF ProviderChanges, TypeOK
  <2> QED BY <1>1, <2>1, LongGoneNat
<1> QED BY <1>2, <1>3

\* What is recent stays so for a larger age.
LEMMA RecentLonger ==
    ASSUME TypeOK, NEW r \in Runners, NEW got, NEW age \in Nat, NEW longer \in Nat,
           Recent(r, got, age), age <= longer
    PROVE  Recent(r, got, longer)
<1> SUFFICES ASSUME NEW m \in Models, got[m].status = "passed"
             PROVE  gone[r][m] <= longer
  BY DEF Recent
<1>1. gone[r][m] \in Int /\ gone[r][m] <= age
  BY LongGoneNat DEF TypeOK, Recent
<1> QED BY <1>1

\* A read that starts now brings what is listed now.
LEMMA ReadIsRecent ==
    ASSUME NEW r \in Runners, NEW got \in Results(r), NEW age \in Nat
    PROVE  Recent(r, got, age)
<1>1. \A m \in Models : got[m].status = "passed" => gone[r][m] = Listed
  BY ReadIsCatalog
<1>2. Listed <= age
  BY LongGoneNat
<1> QED BY <1>1, <1>2 DEF Recent

\* The catalog leaves gone alone except when it changes or time passes.
LEMMA GoneStays ==
    ASSUME Next, ~Tick, ~ProviderChanges PROVE gone' = gone
BY DEF Next, PassStep, Discover, DiscoverDone, VerifyFails, VerifyPasses, Attempted, Ask,
       TakeGuard, GateCached, GateReads, GateDone, RunEnds

\* A request of c is admitted: its Runners are fresh, or the pass that ends was
\* made for it.
Admits(c) ==
    /\ gone' = gone
    /\ \E ask \in Asks : /\ Admitted(run'[c], ask, health)
                         /\ \/ \A r \in Refs(ask) : Fresh(r)
                            \/ pass.stage = "closing" /\ Current \in Refs(ask)
\* The execution gate of c decides.
Gates(c) == (GateCached(c) \/ GateDone(c)) /\ run'[c].pc \in {"spawned", "idle"}

\* What a step can do to a run.
LEMMA RunMoves ==
    ASSUME ControlInv, Next, NEW c \in Clients
    PROVE  \/ Tick
           \/ run'[c] = run[c]
           \/ Admits(c)
           \/ GateReads(c)
           \/ Gates(c)
           \/ run'[c].pc = "idle"
<1> USE DEF ControlInv
<1> DEFINE Goal == run'[c] = run[c] \/ Admits(c) \/ GateReads(c) \/ Gates(c)
                   \/ run'[c].pc = "idle"
<1>1. ASSUME NEW d \in Clients, NEW ask \in Asks, NEW v, Answer(d, ask, health, v),
             gone' = gone,
             (\A r \in Refs(ask) : Fresh(r)) \/ (pass.stage = "closing" /\ Current \in Refs(ask))
      PROVE  run'[c] = run[c] \/ Admits(c)
  <2>1. \/ run' = run
        \/ \E x : Admitted(x, ask, health) /\ run' = [run EXCEPT ![d] = x]
    BY <1>1, Answered
  <2>2. CASE run' = run \/ d # c
    BY <2>1, <2>2 DEF TypeOK
  <2>3. CASE d = c /\ run' # run
    <3>1. Admitted(run'[c], ask, health)
      BY <2>1, <2>3 DEF TypeOK
    <3> QED BY <1>1, <3>1 DEF Admits
  <2> QED BY <2>2, <2>3
<1>2. CASE Attempted
  <2>1. CASE Ahead(pass.at, pass.touched) # {} \/ pass.who = "startup"
    BY <1>2, <2>1 DEF Attempted
  <2>2. CASE Ahead(pass.at, pass.touched) = {} /\ pass.who # "startup"
    <3>1. pass.who \in Clients /\ Current \in pass.touched
      BY <1>2, <2>2, CurrentIsRunner DEF Attempted, TypeOK, PassRecords, PassInv
    <3>2. req[pass.who].ask \in Asks /\ Current \in Refs(req[pass.who].ask)
      BY <3>1 DEF PassInv, Named
    <3>3. /\ pass.stage = "closing" /\ gone' = gone
          /\ Answer(pass.who, req[pass.who].ask, health, Derived)
      BY <1>2, <2>2 DEF Attempted
    <3> QED BY <1>1, <3>1, <3>2, <3>3
  <2> QED BY <2>1, <2>2
<1>3. ASSUME NEW d \in Clients, Ask(d) PROVE Goal
  <2>1. PICK ask \in Asks :
           IF Refs(ask) # {} /\ \A r \in Refs(ask) : Fresh(r)
           THEN Answer(d, ask, health, verified)
           ELSE req' = [req EXCEPT ![d] = [pc |-> "queued", ask |-> ask]] /\ run' = run
    BY <1>3 DEF Ask
  <2>2. gone' = gone
    BY <1>3 DEF Ask
  <2> QED BY <1>1, <1>3, <2>1, <2>2
<1>4. ASSUME NEW d \in Clients, TakeGuard(d) PROVE Goal
  <2>1. req[d].ask \in Asks /\ gone' = gone
    BY <1>4 DEF TakeGuard, Named
  <2>2. CASE Targets(Refs(req[d].ask)) = {}
    <3>1. \A r \in Refs(req[d].ask) : Fresh(r)
      BY <2>2 DEF Targets
    <3>2. Answer(d, req[d].ask, health, verified)
      BY <1>4, <2>2 DEF TakeGuard
    <3> QED BY <1>1, <1>4, <2>1, <3>1, <3>2
  <2>3. CASE Targets(Refs(req[d].ask)) # {}
    BY <1>4, <2>3 DEF TakeGuard
  <2> QED BY <2>2, <2>3
<1>5. ASSUME NEW d \in Clients, d # c,
             GateCached(d) \/ GateReads(d) \/ GateDone(d) \/ RunEnds(d)
      PROVE  run'[c] = run[c]
  BY <1>5 DEF GateCached, GateReads, GateDone, RunEnds, Decide, TypeOK
<1>6. ASSUME GateCached(c) \/ GateDone(c) PROVE Gates(c)
  <2>1. PICK got : Decide(c, got)
    BY <1>6 DEF GateCached, GateDone
  <2>2. [run[c] EXCEPT !.pc = "spawned", !.got = NoCatalog, !.since = 0].pc = "spawned"
    BY DEF TypeOK, RunRecords
  <2>3. run'[c].pc \in {"spawned", "idle"}
    BY <2>1, <2>2, IdleRecords DEF Decide, TypeOK
  <2> QED BY <1>6, <2>3 DEF Gates
<1>7. ASSUME RunEnds(c) PROVE run'[c].pc = "idle"
  BY <1>7, IdleRecords DEF RunEnds, TypeOK
<1>8. CASE ProviderChanges \/ Discover \/ DiscoverDone \/ VerifyFails \/ VerifyPasses
  BY <1>8 DEF ProviderChanges, Discover, DiscoverDone, VerifyFails, VerifyPasses
<1>9. ASSUME NEW d \in Clients, GateCached(d) \/ GateReads(d) \/ GateDone(d) \/ RunEnds(d)
      PROVE  Goal
  BY <1>5, <1>6, <1>7, <1>9
<1> QED BY <1>2, <1>3, <1>4, <1>8, <1>9 DEF Next, PassStep

\* A run that waits for a read is one that just asked for it or did before.
LEMMA GateReadingStep == ASSUME ControlInv, AgeInv, Next PROVE GateReading'
<1> USE DEF ControlInv, AgeInv
<1> SUFFICES ASSUME NEW c \in Clients, run'[c].pc = "reading"
             PROVE  \A m \in Models : run'[c].got[m].status = "passed" =>
                        gone'[run'[c].runner][m] <= run'[c].since
  BY DEF GateReading, Recent
<1>1. run[c] \in RunRecords /\ run[c].runner \in Runners /\ run[c].since \in Nat
  BY Times DEF TypeOK, RunRecords
<1>2. CASE Tick
  <2>1. run'[c] = IF run[c].pc = "reading" THEN [run[c] EXCEPT !.since = @ + 1] ELSE run[c]
    BY <1>2 DEF Tick
  <2>2. run[c].pc = "reading"
    BY <2>1
  <2>3. /\ run'[c].got = run[c].got /\ run'[c].runner = run[c].runner
        /\ run'[c].since = run[c].since + 1
    BY <1>1, <2>1, <2>2 DEF RunRecords
  <2>4. Recent(run[c].runner, run[c].got, run[c].since)
    BY <2>2 DEF GateReading
  <2> QED BY <1>1, <1>2, <2>3, <2>4, RecentAges
<1>3. ASSUME run'[c] = run[c], ~Tick
      PROVE  \A m \in Models : run'[c].got[m].status = "passed" =>
                 gone'[run'[c].runner][m] <= run'[c].since
  <2>1. Recent(run[c].runner, run[c].got, run[c].since)
    BY <1>3 DEF GateReading
  <2>2. CASE ProviderChanges
    BY <1>1, <1>3, <2>1, <2>2, RecentAges
  <2>3. CASE ~ProviderChanges
    BY <1>3, <2>1, <2>3, GoneStays DEF Recent
  <2> QED BY <2>2, <2>3
<1>4. CASE GateReads(c)
  <2>1. PICK got \in Results(run[c].runner) :
            run' = [run EXCEPT ![c].pc = "reading", ![c].got = got]
    BY <1>4 DEF GateReads
  <2>2. /\ run'[c].got = got /\ run'[c].runner = run[c].runner
        /\ run'[c].since = run[c].since
    BY <1>1, <2>1 DEF TypeOK, RunRecords
  <2>3. gone' = gone
    BY <1>4 DEF GateReads
  <2>4. Recent(run[c].runner, got, run[c].since)
    BY <1>1, <2>1, ReadIsRecent
  <2> QED BY <2>2, <2>3, <2>4 DEF Recent
<1>5. CASE run'[c] = run[c] /\ ~Tick
  BY <1>3, <1>5
<1> QED BY <1>2, <1>4, <1>5, RunMoves DEF Admits, Admitted, Gates

\* A cache entry is stored when its read ends, and ages from then on.
LEMMA CacheRecentStep == ASSUME ControlInv, AgeInv, Next PROVE CacheRecent'
<1> USE DEF ControlInv, AgeInv
<1> SUFFICES ASSUME NEW r \in Runners, cache'[r].age < CacheTTL
             PROVE  \A m \in Models : cache'[r].got[m].status = "passed" =>
                        gone'[r][m] <= cache'[r].age + CallTime
  BY DEF CacheRecent, CacheFresh, Recent
<1>1. /\ cache[r] \in [age : 0..CacheTTL, got : Catalogs]
      /\ cache[r].age \in Nat /\ cache[r].age + CallTime \in Nat
  BY Times DEF TypeOK
<1>2. CASE Tick
  <2>1. cache'[r] = [cache[r] EXCEPT !.age = Aged(@, CacheTTL)]
    BY <1>2 DEF Tick
  <2>2. cache'[r].got = cache[r].got /\ cache'[r].age = Aged(cache[r].age, CacheTTL)
    BY <1>1, <2>1
  <2>3. cache[r].age < CacheTTL /\ cache'[r].age = cache[r].age + 1
    BY <1>1, <2>2, Times DEF Aged
  <2>4. Recent(r, cache[r].got, cache[r].age + CallTime)
    BY <2>3 DEF CacheRecent, CacheFresh
  <2>5. \A m \in Models : cache[r].got[m].status = "passed" =>
            gone'[r][m] <= (cache[r].age + CallTime) + 1
    BY <1>1, <1>2, <2>4, RecentAges
  <2>6. (cache[r].age + CallTime) + 1 = cache'[r].age + CallTime
    BY <1>1, <2>3, Times
  <2> QED BY <2>2, <2>5, <2>6
<1>3. ASSUME cache'[r] = cache[r], ~Tick
      PROVE  \A m \in Models : cache'[r].got[m].status = "passed" =>
                 gone'[r][m] <= cache'[r].age + CallTime
  <2>1. Recent(r, cache[r].got, cache[r].age + CallTime)
    BY <1>3 DEF CacheRecent, CacheFresh
  <2>2. CASE ProviderChanges
    BY <1>1, <1>3, <2>1, <2>2, RecentAges
  <2>3. CASE ~ProviderChanges
    BY <1>3, <2>1, <2>3, GoneStays DEF Recent
  <2> QED BY <2>2, <2>3
<1>4. ASSUME NEW q \in Runners, NEW got, NEW age \in 0..CallTime, Recent(q, got, age),
             cache' = Stored(q, got), gone' = gone, ~Tick
      PROVE  \A m \in Models : cache'[r].got[m].status = "passed" =>
                 gone'[r][m] <= cache'[r].age + CallTime
  <2>1. CASE r = q
    <3>1. cache'[r].got = got /\ cache'[r].age = 0
      BY <1>4, <2>1 DEF Stored, TypeOK
    <3>2. Recent(q, got, CallTime)
      BY <1>4, Times, RecentLonger
    <3>3. 0 + CallTime = CallTime
      BY Times
    <3> QED BY <1>4, <2>1, <3>1, <3>2, <3>3 DEF Recent
  <2>2. CASE r # q
    <3>1. cache'[r] = cache[r]
      BY <1>4, <2>2 DEF Stored, TypeOK
    <3> QED BY <1>3, <1>4, <3>1
  <2> QED BY <2>1, <2>2
<1>5. CASE DiscoverDone /\ ~Tick
  <2>1. Current \in Runners /\ pass.since \in 0..CallTime
    BY <1>5, CurrentIsRunner DEF DiscoverDone, TypeOK, PassRecords
  <2>2. Recent(Current, pass.got, pass.since)
    BY <1>5 DEF DiscoverDone, PassRecent
  <2>3. cache' = Stored(Current, pass.got) /\ gone' = gone
    BY <1>5 DEF DiscoverDone
  <2> QED BY <1>4, <1>5, <2>1, <2>2, <2>3
<1>6. ASSUME NEW c \in Clients, GateDone(c), ~Tick
      PROVE  \A m \in Models : cache'[r].got[m].status = "passed" =>
                 gone'[r][m] <= cache'[r].age + CallTime
  <2>1. run[c].runner \in Runners /\ run[c].since \in 0..CallTime
    BY DEF TypeOK, RunRecords
  <2>2. Recent(run[c].runner, run[c].got, run[c].since)
    BY <1>6 DEF GateDone, GateReading
  <2>3. cache' = Stored(run[c].runner, run[c].got) /\ gone' = gone
    BY <1>6 DEF GateDone
  <2> QED BY <1>4, <1>6, <2>1, <2>2, <2>3
<1>7. ASSUME ~Tick, ~DiscoverDone, \A c \in Clients : ~GateDone(c) PROVE cache' = cache
  BY <1>7 DEF Next, PassStep, ProviderChanges, Discover, VerifyFails, VerifyPasses, Attempted,
              Ask, TakeGuard, GateCached, GateReads, RunEnds
<1> QED BY <1>2, <1>3, <1>5, <1>6, <1>7

\* The attempt under way: its catalog comes from a read that it started or
\* from a cache that was fresh.
LEMMA PassRecentStep == ASSUME ControlInv, AgeInv, Next PROVE PassRecent'
<1> USE DEF ControlInv, AgeInv
<1>1. pass \in PassRecords /\ pass.since \in Nat
  BY Times DEF TypeOK, PassRecords
<1>2. ASSUME pass'.stage = "next" PROVE PassRecent'
  BY <1>2 DEF PassRecent
<1>3. CASE Tick
  <2>1. CASE pass.stage = "next"
    <3>1. pass'.stage = "next"
      BY <1>1, <1>3, <2>1 DEF Tick, PassRecords
    <3> QED BY <1>2, <3>1
  <2>2. CASE pass.stage # "next"
    <3>1. pass.who # Nobody /\ Current \in Runners
      BY <2>2, CurrentIsRunner
    <3>2. pass' = [pass EXCEPT !.since = @ + 1]
      BY <1>3, <3>1 DEF Tick
    <3>3. /\ pass'.stage = pass.stage /\ pass'.at = pass.at /\ pass'.got = pass.got
          /\ pass'.since = pass.since + 1 /\ Current' = Current
      BY <1>1, <3>2 DEF PassRecords, Current
    <3>4. health' = health
      BY <1>3 DEF Tick
    <3> DEFINE slack == Slack(Current)
    <3>5. /\ slack \in Nat /\ pass.since + slack \in Nat
          /\ (pass.since + slack) + 1 = (pass.since + 1) + slack
      BY <1>1, SlackNat
    <3> HIDE DEF slack
    <3>6. CASE pass.stage = "reading"
      <4>1. Recent(Current, pass.got, pass.since)
        BY <3>6 DEF PassRecent
      <4>2. \A m \in Models : pass.got[m].status = "passed" =>
                gone'[Current][m] <= pass.since + 1
        BY <1>1, <1>3, <3>1, <4>1, RecentAges
      <4> QED BY <3>3, <3>6, <4>2 DEF PassRecent, Recent
    <3>7. CASE pass.stage = "got"
      <4>1. Recent(Current, pass.got, pass.since + slack)
        BY <3>7 DEF PassRecent, slack
      <4>2. \A m \in Models : pass.got[m].status = "passed" =>
                gone'[Current][m] <= (pass.since + slack) + 1
        BY <1>3, <3>1, <3>5, <4>1, RecentAges
      <4> QED BY <3>3, <3>5, <3>7, <4>2 DEF PassRecent, Recent, slack
    <3>8. CASE pass.stage = "closing"
      <4>1. SUFFICES ASSUME health[Current].ok
                     PROVE  \A m \in Models : health[Current].snap[m].status = "passed" =>
                                gone'[Current][m] <= (pass.since + 1) + slack
        BY <3>3, <3>4, <3>8 DEF PassRecent, Recent, slack
      <4>2. Recent(Current, health[Current].snap, pass.since + slack)
        BY <3>8, <4>1 DEF PassRecent, slack
      <4>3. \A m \in Models : health[Current].snap[m].status = "passed" =>
                gone'[Current][m] <= (pass.since + slack) + 1
        BY <1>3, <3>1, <3>5, <4>2, RecentAges
      <4> QED BY <3>5, <4>3
    <3> QED BY <1>1, <2>2, <3>6, <3>7, <3>8 DEF PassRecords
  <2> QED BY <2>1, <2>2
<1>4. CASE ProviderChanges
  <2>1. pass' = pass /\ health' = health
    BY <1>4 DEF ProviderChanges
  <2>2. CASE pass.stage = "next"
    BY <1>2, <2>1, <2>2
  <2>3. CASE pass.stage # "next"
    <3>1. Current \in Runners
      BY <2>3, CurrentIsRunner
    <3>2. pass.since + Slack(Current) \in Nat
      BY <1>1, SlackNat
    <3>3. pass.stage = "reading" =>
             \A m \in Models : pass.got[m].status = "passed" => gone'[Current][m] <= pass.since
      BY <1>1, <1>4, <3>1, RecentAges DEF PassRecent
    <3>4. pass.stage = "got" =>
             \A m \in Models : pass.got[m].status = "passed" =>
                 gone'[Current][m] <= pass.since + Slack(Current)
      BY <1>4, <3>1, <3>2, RecentAges DEF PassRecent
    <3>5. pass.stage = "closing" /\ health[Current].ok =>
             \A m \in Models : health[Current].snap[m].status = "passed" =>
                 gone'[Current][m] <= pass.since + Slack(Current)
      BY <1>4, <3>1, <3>2, RecentAges DEF PassRecent
    <3> QED BY <2>1, <3>3, <3>4, <3>5 DEF PassRecent, Recent, Current
  <2> QED BY <2>2, <2>3
<1>5. CASE Discover
  <2>1. Current \in Runners /\ gone' = gone
    BY <1>5, CurrentIsRunner DEF Discover
  <2>2. CASE Current \in CachedDiscovery /\ CacheFresh(Current)
    <3>1. pass' = [pass EXCEPT !.stage = "got", !.got = cache[Current].got]
      BY <1>5, <2>2 DEF Discover
    <3>2. /\ pass'.stage = "got" /\ pass'.at = pass.at /\ pass'.got = cache[Current].got
          /\ pass'.since = pass.since /\ Current' = Current
      BY <1>1, <3>1 DEF PassRecords, Current
    <3>3. Recent(Current, cache[Current].got, cache[Current].age + CallTime)
      BY <2>1, <2>2 DEF CacheRecent
    <3>4. cache[Current].age \in Nat /\ cache[Current].age < CacheTTL
      BY <2>1, <2>2, Times DEF CacheFresh, TypeOK
    <3>5. /\ cache[Current].age + CallTime \in Nat
          /\ pass.since + (CacheTTL + CallTime) \in Nat
          /\ cache[Current].age + CallTime <= pass.since + (CacheTTL + CallTime)
      BY <1>1, <3>4, Times
    <3>6. Recent(Current, cache[Current].got, pass.since + (CacheTTL + CallTime))
      BY <2>1, <3>3, <3>5, RecentLonger
    <3>7. Slack(Current) = CacheTTL + CallTime
      BY <2>2 DEF Slack
    <3> QED BY <2>1, <3>2, <3>6, <3>7 DEF PassRecent, Recent
  <2>3. ASSUME NEW got \in Results(Current),
               pass' = [pass EXCEPT !.stage = "reading", !.got = got]
        PROVE  PassRecent'
    <3>1. /\ pass'.stage = "reading" /\ pass'.at = pass.at /\ pass'.got = got
          /\ pass'.since = pass.since /\ Current' = Current
      BY <1>1, <2>3 DEF PassRecords, Current
    <3>2. Recent(Current, got, pass.since)
      BY <1>1, <2>1, <2>3, ReadIsRecent
    <3> QED BY <2>1, <3>1, <3>2 DEF PassRecent, Recent
  <2> QED BY <1>5, <2>2, <2>3 DEF Discover
<1>6. CASE DiscoverDone
  <2>1. Current \in Runners /\ gone' = gone
    BY <1>6, CurrentIsRunner DEF DiscoverDone
  <2>2. /\ pass'.stage = "got" /\ pass'.got = pass.got
        /\ pass'.since = pass.since /\ Current' = Current
    BY <1>1, <1>6 DEF DiscoverDone, PassRecords, Current
  <2>3. Recent(Current, pass.got, pass.since)
    BY <1>6 DEF DiscoverDone, PassRecent
  <2>4. pass.since + Slack(Current) \in Nat /\ pass.since <= pass.since + Slack(Current)
    BY <1>1, SlackNat
  <2>5. Recent(Current, pass.got, pass.since + Slack(Current))
    BY <1>1, <2>1, <2>3, <2>4, RecentLonger
  <2> QED BY <2>1, <2>2, <2>5 DEF PassRecent, Recent
<1>7. CASE VerifyFails
  <2>1. Current \in Runners
    BY <1>7, CurrentIsRunner DEF VerifyFails
  <2>2. pass'.stage = "closing" /\ Current' = Current
    BY <1>1, <1>7 DEF VerifyFails, PassRecords, Current
  <2>3. health'[Current].ok = FALSE
    BY <1>7, <2>1 DEF VerifyFails, TypeOK
  <2> QED BY <2>2, <2>3 DEF PassRecent
<1>8. CASE VerifyPasses
  <2>1. Current \in Runners /\ gone' = gone
    BY <1>8, CurrentIsRunner DEF VerifyPasses
  <2>2. pass'.stage = "closing" /\ pass'.since = pass.since /\ Current' = Current
    BY <1>1, <1>8 DEF VerifyPasses, PassRecords, Current
  <2>3. health'[Current].snap = pass.got
    BY <1>8, <2>1 DEF VerifyPasses, TypeOK
  <2>4. Recent(Current, pass.got, pass.since + Slack(Current))
    BY <1>8 DEF VerifyPasses, PassRecent
  <2> QED BY <2>1, <2>2, <2>3, <2>4 DEF PassRecent, Recent
<1>9. CASE Attempted
  <2>1. pass'.stage = "next"
    BY <1>1, <1>9, IdleRecords DEF Attempted, PassRecords
  <2> QED BY <1>2, <2>1
<1>10. ASSUME NEW c \in Clients, TakeGuard(c) PROVE PassRecent'
  <2>1. pass.stage = "next"
    BY <1>10 DEF TakeGuard, PassInv
  <2>2. pass'.stage = "next"
    BY <1>10, <2>1 DEF TakeGuard, IdlePass
  <2> QED BY <1>2, <2>2
<1>11. ASSUME NEW c \in Clients,
              Ask(c) \/ GateCached(c) \/ GateReads(c) \/ GateDone(c) \/ RunEnds(c)
       PROVE  PassRecent'
  <2>1. pass' = pass /\ health' = health /\ gone' = gone
    BY <1>11 DEF Ask, GateCached, GateReads, GateDone, RunEnds
  <2> QED BY <2>1 DEF PassRecent, Recent, Current
<1> QED BY <1>3, <1>4, <1>5, <1>6, <1>7, <1>8, <1>9, <1>10, <1>11 DEF Next, PassStep

\* A snapshot is replaced while its Runner is not fresh, and becomes fresh when
\* the attempt that took it ends; a failed attempt makes it unusable.
LEMMA SnapRecentStep == ASSUME ControlInv, AgeInv, Next PROVE SnapRecent'
<1> USE DEF ControlInv, AgeInv
<1> SUFFICES ASSUME NEW r \in Runners, mark'[r] < TTL, health'[r].ok
             PROVE  \A m \in Models : health'[r].snap[m].status = "passed" =>
                        gone'[r][m] <= mark'[r] + CallTime + Slack(r)
  BY DEF SnapRecent, Fresh, Recent, Slack
<1> DEFINE slack == Slack(r)
<1>1. mark[r] \in 0..LongAgo /\ slack \in Nat /\ mark[r] + CallTime + slack \in Nat
  BY Times, LongAgoNat, SlackNat DEF TypeOK
<1> HIDE DEF slack
<1>2. CASE Tick
  <2>1. health' = health /\ mark'[r] = Aged(mark[r], LongAgo)
    BY <1>2 DEF Tick
  <2>2. mark[r] < TTL /\ mark'[r] = mark[r] + 1
    BY <1>1, <2>1, Times, LongAgoNat DEF Aged
  <2>3. Recent(r, health[r].snap, mark[r] + CallTime + slack)
    BY <2>1, <2>2 DEF SnapRecent, Fresh, slack
  <2>4. \A m \in Models : health[r].snap[m].status = "passed" =>
            gone'[r][m] <= (mark[r] + CallTime + slack) + 1
    BY <1>1, <1>2, <2>3, RecentAges
  <2>5. (mark[r] + CallTime + slack) + 1 = mark'[r] + CallTime + slack
    BY <1>1, <2>2, Times
  <2> QED BY <2>1, <2>4, <2>5 DEF slack
<1>3. ASSUME health'[r] = health[r], mark'[r] = mark[r], ~Tick
      PROVE  \A m \in Models : health'[r].snap[m].status = "passed" =>
                 gone'[r][m] <= mark'[r] + CallTime + Slack(r)
  <2>1. Recent(r, health[r].snap, mark[r] + CallTime + slack)
    BY <1>3 DEF SnapRecent, Fresh, slack
  <2>2. CASE ProviderChanges
    BY <1>1, <1>3, <2>1, <2>2, RecentAges DEF slack
  <2>3. CASE ~ProviderChanges
    BY <1>3, <2>1, <2>3, GoneStays DEF Recent, slack
  <2> QED BY <2>2, <2>3
<1>4. ASSUME VerifyFails \/ VerifyPasses, ~Tick
      PROVE  health'[r] = health[r] /\ mark'[r] = mark[r]
  <2>1. /\ pass.who # Nobody /\ pass.at \in DOMAIN Order /\ Current \in Runners
    BY <1>4, CurrentIsRunner DEF VerifyFails, VerifyPasses
  <2>2. mark' = mark
    BY <1>4 DEF VerifyFails, VerifyPasses
  <2>3. ~Fresh(Current)
    <3>1. /\ Current \in pass.touched
          /\ \A k \in DOMAIN Order :
                k >= pass.at /\ Order[k] \in pass.touched => ~Fresh(Order[k])
      BY <2>1 DEF PassInv
    <3> QED BY <2>1, <3>1, Places DEF Current
  <2>4. r # Current
    BY <2>2, <2>3 DEF Fresh
  <2>5. health'[r] = health[r]
    BY <1>4, <2>4 DEF VerifyFails, VerifyPasses, TypeOK
  <2> QED BY <2>2, <2>5
<1>5. CASE Attempted /\ ~Tick
  <2>1. Current \in Runners
    BY <1>5, CurrentIsRunner DEF Attempted
  <2>2. /\ mark' = [mark EXCEPT ![Current] = 0] /\ health' = health /\ gone' = gone
        /\ pass.stage = "closing"
    BY <1>5 DEF Attempted
  <2>3. CASE r # Current
    BY <1>3, <1>5, <2>2, <2>3 DEF TypeOK
  <2>4. CASE r = Current
    <3>1. Recent(r, health[r].snap, pass.since + slack)
      BY <2>2, <2>4 DEF PassRecent, slack
    <3>2. pass.since \in 0..CallTime
      BY DEF TypeOK, PassRecords
    <3>3. /\ pass.since + slack \in Nat /\ 0 + CallTime + slack \in Nat
          /\ pass.since + slack <= 0 + CallTime + slack
      BY <1>1, <3>2, Times
    <3>4. Recent(r, health[r].snap, 0 + CallTime + slack)
      BY <3>1, <3>3, RecentLonger
    <3>5. mark'[r] = 0
      BY <2>2, <2>4 DEF TypeOK
    <3> QED BY <2>2, <3>4, <3>5 DEF Recent, slack
  <2> QED BY <2>3, <2>4
<1>6. ASSUME ~Tick, ~VerifyFails, ~VerifyPasses, ~Attempted
      PROVE  health' = health /\ mark' = mark
  BY <1>6 DEF Next, PassStep, ProviderChanges, Discover, DiscoverDone, Ask, TakeGuard,
              GateCached, GateReads, GateDone, RunEnds
<1> QED BY <1>2, <1>3, <1>4, <1>5, <1>6

\* All ages, in every reachable state.
LEMMA AgesAlways == Spec => [](ControlInv /\ AgeInv)
<1>1. Init => AgeInv
  <2> SUFFICES ASSUME Init PROVE AgeInv
    OBVIOUS
  <2>1. GateReading
    BY IdleRecords DEF Init, GateReading
  <2>2. CacheRecent
    BY Times DEF Init, CacheRecent, CacheFresh
  <2>3. PassRecent
    BY DEF Init, PassRecent, IdlePass
  <2>4. SnapRecent
    BY Times DEF Init, SnapRecent, Fresh
  <2> QED BY <2>1, <2>2, <2>3, <2>4 DEF AgeInv
<1>2. ControlInv /\ AgeInv /\ [Next]_vars => AgeInv'
  <2>1. ASSUME AgeInv, UNCHANGED vars PROVE AgeInv'
    BY <2>1 DEF AgeInv, vars, GateReading, CacheRecent, PassRecent, SnapRecent, Recent,
                Current, Fresh, CacheFresh
  <2> QED BY <2>1, GateReadingStep, CacheRecentStep, PassRecentStep, SnapRecentStep DEF AgeInv
<1> QED BY <1>1, <1>2, ControlAlways, PTL DEF Spec

\* The execution gate: a run reaches the provider's CLI only for a model that
\* the provider listed at most a cache lifetime and one read ago, whatever the
\* registry believed when the run was admitted.
THEOREM GateIsCurrent == Spec => SpawnedIsListed
<1>1. ASSUME ControlInv, AgeInv, Next, NEW c \in Clients, Becomes(c, "spawned")
      PROVE  ~Gone(c, CacheTTL + CallTime)
  <2> USE <1>1 DEF ControlInv, AgeInv
  <2>1. run[c] \in RunRecords /\ run[c].runner \in Runners /\ run[c].since \in 0..CallTime
    BY DEF TypeOK, RunRecords
  <2>2. ~Tick
    <3> SUFFICES ASSUME Tick PROVE run'[c].pc = run[c].pc
      BY <1>1 DEF Becomes
    <3>1. run'[c] = IF run[c].pc = "reading" THEN [run[c] EXCEPT !.since = @ + 1] ELSE run[c]
      BY DEF Tick
    <3> QED BY <2>1, <3>1 DEF RunRecords
  <2>3. ~GateReads(c)
    <3> SUFFICES ASSUME GateReads(c) PROVE run'[c].pc = "reading"
      BY <1>1 DEF Becomes
    <3>1. PICK got : run' = [run EXCEPT ![c].pc = "reading", ![c].got = got]
      BY DEF GateReads
    <3> QED BY <2>1, <3>1 DEF TypeOK, RunRecords
  <2>4. Gates(c)
    BY <1>1, <2>2, <2>3, RunMoves DEF Becomes, Admits, Admitted
  <2>5. run[c].model \in Models
    BY <2>4 DEF Gates, GateCached, GateDone, Named
  <2>6. ASSUME NEW got, Decide(c, got), NEW age \in Nat, age < CacheTTL + CallTime,
               Recent(run[c].runner, got, age), gone' = gone
        PROVE  ~Gone(c, CacheTTL + CallTime)
    <3>1. GateOpens(got, run[c].model)
      BY <1>1, <2>6, IdleRecords DEF Decide, Becomes, TypeOK
    <3>2. got[run[c].model].status = "passed"
      BY <3>1 DEF GateOpens
    <3>3. gone[run[c].runner][run[c].model] <= age
      BY <2>5, <2>6, <3>2 DEF Recent
    <3>4. run'[c] = [run[c] EXCEPT !.pc = "spawned", !.got = NoCatalog, !.since = 0]
      BY <2>6, <3>1 DEF Decide, TypeOK
    <3>5. run'[c].runner = run[c].runner /\ run'[c].model = run[c].model
      BY <2>1, <3>4 DEF RunRecords
    <3>6. gone[run[c].runner][run[c].model] \in Int
      BY <2>1, <2>5, LongGoneNat DEF TypeOK
    <3>7. ~(gone[run[c].runner][run[c].model] >= CacheTTL + CallTime)
      BY <2>6, <3>3, <3>6, Times
    <3> QED BY <3>5, <3>7 DEF Gone
  <2>7. CASE GateCached(c)
    <3>1. /\ CacheFresh(run[c].runner) /\ Decide(c, cache[run[c].runner].got)
          /\ gone' = gone
      BY <2>7 DEF GateCached
    <3>2. cache[run[c].runner].age \in 0..CacheTTL
      BY <2>1 DEF TypeOK
    <3>3. /\ cache[run[c].runner].age + CallTime \in Nat
          /\ cache[run[c].runner].age + CallTime < CacheTTL + CallTime
      BY <3>1, <3>2, Times DEF CacheFresh
    <3>4. Recent(run[c].runner, cache[run[c].runner].got, cache[run[c].runner].age + CallTime)
      BY <2>1, <3>1 DEF CacheRecent
    <3> QED BY <2>6, <3>1, <3>3, <3>4
  <2>8. CASE GateDone(c)
    <3>1. Decide(c, run[c].got) /\ gone' = gone /\ run[c].pc = "reading"
      BY <2>8 DEF GateDone
    <3>2. Recent(run[c].runner, run[c].got, run[c].since)
      BY <3>1 DEF GateReading
    <3>3. run[c].since \in Nat /\ run[c].since < CacheTTL + CallTime
      BY <2>1, Times
    <3> QED BY <2>6, <3>1, <3>2, <3>3
  <2> QED BY <2>4, <2>7, <2>8 DEF Gates
<1>2. ControlInv /\ AgeInv /\ [Next]_vars =>
        [\A c \in Clients : Becomes(c, "spawned") => ~Gone(c, CacheTTL + CallTime)]_vars
  BY <1>1
<1> QED BY <1>2, AgesAlways, PTL DEF Spec, SpawnedIsListed

\* A dynamic alias is admitted only for a model that the provider listed at
\* most a refresh interval and one verification ago, and a cached read where
\* the driver answers discovery from its cache.
THEOREM AdmissionIsCurrent == Spec => DynamicIsListed
<1> DEFINE Limit(r) == TTL + CallTime + IF r \in CachedDiscovery THEN CacheTTL + CallTime ELSE 0
<1>1. ASSUME ControlInv, AgeInv, Next, NEW c \in Clients, Becomes(c, "gate"), ~run'[c].static
      PROVE  ~Gone(c, Limit(run'[c].runner))
  <2> USE <1>1 DEF ControlInv, AgeInv
  <2>1. run[c] \in RunRecords
    BY DEF TypeOK
  <2>2. ~Tick
    <3> SUFFICES ASSUME Tick PROVE run'[c].pc = run[c].pc
      BY <1>1 DEF Becomes
    <3>1. run'[c] = IF run[c].pc = "reading" THEN [run[c] EXCEPT !.since = @ + 1] ELSE run[c]
      BY DEF Tick
    <3> QED BY <2>1, <3>1 DEF RunRecords
  <2>3. ~GateReads(c)
    <3> SUFFICES ASSUME GateReads(c) PROVE run'[c].pc = "reading"
      BY <1>1 DEF Becomes
    <3>1. PICK got : run' = [run EXCEPT ![c].pc = "reading", ![c].got = got]
      BY DEF GateReads
    <3> QED BY <2>1, <3>1 DEF TypeOK, RunRecords
  <2>4. Admits(c)
    BY <1>1, <2>2, <2>3, RunMoves DEF Becomes, Gates
  <2>5. PICK ask \in Asks : /\ Admitted(run'[c], ask, health)
                            /\ \/ \A r \in Refs(ask) : Fresh(r)
                               \/ pass.stage = "closing" /\ Current \in Refs(ask)
    BY <2>4 DEF Admits
  <2> DEFINE r == run'[c].runner
             m == run'[c].model
  <2>6. /\ r \in Runners /\ m \in Models /\ Refs(ask) = {r}
        /\ health[r].ok /\ health[r].snap[m].status = "passed"
    BY <1>1, <2>5 DEF Admitted, RunRecords
  <2> HIDE DEF r, m
  <2>7. \E age \in Nat : Recent(r, health[r].snap, age) /\ age < TTL + CallTime + Slack(r)
    <3>1. CASE \A q \in Refs(ask) : Fresh(q)
      <4>1. Fresh(r) /\ Recent(r, health[r].snap, mark[r] + CallTime + Slack(r))
        BY <2>6, <3>1 DEF SnapRecent
      <4>2. mark[r] \in Nat /\ mark[r] < TTL
        BY <2>6, <4>1, LongAgoNat DEF TypeOK, Fresh
      <4>3. /\ mark[r] + CallTime + Slack(r) \in Nat
            /\ mark[r] + CallTime + Slack(r) < TTL + CallTime + Slack(r)
        BY <4>2, Times, SlackNat
      <4> QED BY <4>1, <4>3
    <3>2. CASE pass.stage = "closing" /\ Current \in Refs(ask)
      <4>1. r = Current
        BY <2>6, <3>2
      <4>2. Recent(r, health[r].snap, pass.since + Slack(r))
        BY <2>6, <3>2, <4>1 DEF PassRecent
      <4>3. pass.since \in 0..CallTime
        BY DEF TypeOK, PassRecords
      <4>4. /\ pass.since + Slack(r) \in Nat
            /\ pass.since + Slack(r) < TTL + CallTime + Slack(r)
        BY <4>3, Times, SlackNat
      <4> QED BY <4>2, <4>4
    <3> QED BY <2>5, <3>1, <3>2
  <2>8. PICK age \in Nat : Recent(r, health[r].snap, age) /\ age < TTL + CallTime + Slack(r)
    BY <2>7
  <2>9. gone[r][m] <= age
    BY <2>6, <2>8 DEF Recent
  <2>10. gone[r][m] \in Int
    BY <2>6, LongGoneNat DEF TypeOK
  <2>11. ~(gone[r][m] >= TTL + CallTime + Slack(r))
    BY <2>8, <2>9, <2>10, Times, SlackNat
  <2> QED BY <2>11 DEF Gone, Slack, r, m
<1>2. ControlInv /\ AgeInv /\ [Next]_vars =>
        [\A c \in Clients : (Becomes(c, "gate") /\ ~run'[c].static) =>
            ~Gone(c, Limit(run'[c].runner))]_vars
  BY <1>1
<1> QED BY <1>2, AgesAlways, PTL DEF Spec, DynamicIsListed
=============================================================================
