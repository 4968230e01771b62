------------------------------ MODULE Registry ------------------------------
(***************************************************************************)
(* The RunnerRegistry (core registry.py) serving requests: the singleflight*)
(* TTL refresh, the verification of Runners and presets, the endpoints     *)
(* that read the result (chat.py, models.py, catalog.py), and behind it    *)
(* the drivers' own catalog reads and caches (discover_models and the      *)
(* catalog gate of execute), which see the provider's catalog change.      *)
(*                                                                         *)
(* The API is one event loop: a step is what happens between two awaits.   *)
(* A time stamp is modelled by its age, counted up to where it stops       *)
(* mattering, so no bound is put on the clock.                             *)
(***************************************************************************)
EXTENDS Catalog

CONSTANTS
    Order,           \* the Runners in the order of the config
    Enabled,         \* the Runners the operator has enabled
    Allowed,         \* Allowed[r]: the models the driver's policy lets run
    Configured,      \* Configured[r]: the models the driver is pinned to
    CachedDiscovery, \* the Runners whose discover_models answers from its cache
    TTL,             \* api.catalog_refresh_seconds
    CacheTTL,        \* the drivers' catalog_ttl
    CallTime,        \* the longest a catalog read or a verification may take
    Clients, Asks,   \* the clients, and what they may ask for
    MaxChanges,      \* bound: changes of the providers' catalogs
    MaxFaults,       \* bound: failed reads and verifications
    MaxRequests      \* bound: requests

ASSUME TimeAssumption == {TTL, CacheTTL, CallTime} \subseteq Nat \ {0}
\* config.py: every Runner once, and presets and sources refer to Runners.
ASSUME OrderAssumption ==
    /\ Order \in Seq(Runners) /\ Order # << >>
    /\ \A r \in Runners : \E i \in DOMAIN Order : Order[i] = r
    /\ \A i, j \in DOMAIN Order : Order[i] = Order[j] => i = j
ASSUME BindingAssumption ==
    /\ \A x \in Presets : x.runner \in Runners /\ x.model \in Models
    /\ \A s \in Sources : s.runner \in Runners
ASSUME AskAssumption == \A a \in Asks : a.kind \in {"chat", "models", "catalog"}
\* A dynamic alias is a prefix and a model.
ASSUME AliasAssumption ==
    \A a \in Asks : a.kind = "chat" /\ a.alias \notin StaticAliases =>
        a.alias = <<a.alias[1], a.alias[2]>> /\ a.alias[2] \in Models
ASSUME ClientAssumption == {"nobody", "startup"} \cap Clients = {}

VARIABLES
    gone,     \* gone[r][m]: how long the provider has not listed m, or Listed
    cache,    \* cache[r]: the driver's catalog cache and its age
    health,   \* health[r]: RunnerHealth
    mark,     \* mark[r]: the age of the end of the last refresh attempt
    verified, \* the aliases of the presets whose PresetHealth is verified
    pass,     \* the refresh under way
    req,      \* req[c]: the request of client c
    run,      \* run[c]: the driver's gate for the run c was admitted to
    left      \* what is left of each bound

vars == <<gone, cache, health, mark, verified, pass, req, run, left>>

Listed == -1
LongGone == TTL + CacheTTL + 2 * CallTime
\* The oldest a mark may get while the other Runners are verified.
LongAgo == TTL + (Len(Order) - 1) * CallTime
Nobody == "nobody"

\* What a driver reports: exact membership, plus the pinned models that are
\* missing (failed) or could not be read (unknown).
Described(r, ids) ==
    [m \in Models |-> IF m \in ids THEN [status |-> "passed", executable |-> m \in Allowed[r]]
                      ELSE IF m \in Configured[r]
                           THEN [status |-> "failed", executable |-> FALSE]
                      ELSE Absent]
Unread(r) ==
    [m \in Models |-> IF m \in Configured[r] THEN [status |-> "unknown", executable |-> FALSE]
                      ELSE Absent]

NoCatalog == [m \in Models |-> Absent]
IdlePass == [who |-> Nobody, at |-> 0, touched |-> {}, stage |-> "next",
             got |-> NoCatalog, since |-> 0]
IdleReq == [pc |-> "idle", ask |-> [kind |-> "none"]]
IdleRun == [pc |-> "idle", runner |-> Order[1], model |-> "none", static |-> FALSE,
            got |-> NoCatalog, since |-> 0]

\* The lifespan's refresh of everything comes before the first request.
Init ==
    /\ gone = [r \in Runners |-> [m \in Models |-> Listed]]
    /\ cache = [r \in Runners |-> [age |-> CacheTTL, got |-> NoCatalog]]
    /\ health = [r \in Runners |-> [enabled |-> r \in Enabled, ok |-> FALSE,
                                    snap |-> NoCatalog]]
    /\ mark = [r \in Runners |-> LongAgo]
    /\ verified = {}
    /\ pass = [IdlePass EXCEPT !.who = "startup", !.at = 1, !.touched = Runners]
    /\ req = [c \in Clients |-> IdleReq]
    /\ run = [c \in Clients |-> IdleRun]
    /\ left = [changes |-> MaxChanges, faults |-> MaxFaults, requests |-> MaxRequests]

-----------------------------------------------------------------------------
(* The drivers' catalog reads.                                             *)

Fault == left.faults > 0 /\ left' = [left EXCEPT !.faults = @ - 1]

\* _cached_descriptors: an entry is used for CacheTTL after it was stored.
CacheFreshForGood(r) == cache[r].got # NoCatalog   \* mutant: no expiry
CacheFresh(r) == cache[r].age < CacheTTL
\* The result is stored when the read is over, stamped with that time: reads
\* may overlap, and the last to end is kept.
Stored(r, got) == [cache EXCEPT ![r] = [age |-> 0, got |-> got]]
\* What a read that starts now will bring: the catalog; nothing; or, when the
\* CLI is not the pinned version, a refusal of every pinned model.
Catalogued(r) == Described(r, {m \in Models : gone[r][m] = Listed})
Results(r) == {Catalogued(r), Unread(r), Described(r, {})}
Brings(r, got) == \/ got = Catalogued(r) /\ left' = left
                  \/ got \in {Unread(r), Described(r, {})} /\ Fault

Aged(age, limit) == IF age < limit THEN age + 1 ELSE limit
\* External: time passes, but no call outlasts its timeout.
Tick ==
    /\ pass.who # Nobody => pass.since < CallTime
    /\ \A c \in Clients : run[c].pc = "reading" => run[c].since < CallTime
    /\ gone' = [r \in Runners |-> [m \in Models |->
                  IF gone[r][m] = Listed THEN Listed ELSE Aged(gone[r][m], LongGone)]]
    /\ cache' = [r \in Runners |-> [cache[r] EXCEPT !.age = Aged(@, CacheTTL)]]
    /\ mark' = [r \in Runners |-> Aged(mark[r], LongAgo)]
    /\ pass' = IF pass.who = Nobody THEN pass ELSE [pass EXCEPT !.since = @ + 1]
    /\ run' = [c \in Clients |-> IF run[c].pc = "reading" THEN [run[c] EXCEPT !.since = @ + 1]
                                 ELSE run[c]]
    /\ UNCHANGED <<health, verified, req, left>>
\* External: the provider lists or drops a model.
ProviderChanges ==
    /\ left.changes > 0
    /\ \E r \in Runners, m \in Models :
          gone' = [gone EXCEPT ![r][m] = IF @ = Listed THEN 0 ELSE Listed]
    /\ left' = [left EXCEPT !.changes = @ - 1]
    /\ UNCHANGED <<cache, health, mark, verified, pass, req, run>>

-----------------------------------------------------------------------------
(* The endpoints: what they ask of the registry and what they answer.      *)

Fresh(r) == mark[r] < TTL
Refs(ask) ==
    CASE ask.kind = "chat" -> AliasRefreshRefs(ask.principal, ask.alias, ask.scope)
      [] ask.kind = "models" -> ModelsRefreshRefs(ask.principal, ask.scope)
      [] ask.kind = "catalog" -> CatalogRefreshRefs(ask.principal, ask.scope)

\* The request goes on in the step that ends its ensure_fresh.  A listing
\* changes nothing; an admitted chat is submitted and reaches its driver.
Answer(c, ask, h, v) ==
    LET b == IF ask.kind # "chat" THEN Refused("listing")
             ELSE ResolveModel(h, v, ask.principal, ask.alias, ask.scope, ask.effort)
    IN  /\ req' = [req EXCEPT ![c] = IdleReq]
        /\ run' = IF ~b.ok THEN run
                  ELSE [run EXCEPT ![c] = [IdleRun EXCEPT !.pc = "gate",
                           !.runner = b.runner, !.model = b.resolved,
                           !.static = ask.alias \in StaticAliases]]

\* ensure_fresh's fast path: every Runner in question is fresh.
Ask(c) ==
    /\ req[c].pc = "idle" /\ run[c].pc = "idle"
    /\ pass.who # "startup"
    /\ left.requests > 0
    /\ left' = [left EXCEPT !.requests = @ - 1]
    /\ \E ask \in Asks :
          IF Refs(ask) # {} /\ \A r \in Refs(ask) : Fresh(r)
          THEN Answer(c, ask, health, verified)
          ELSE req' = [req EXCEPT ![c] = [pc |-> "queued", ask |-> ask]] /\ run' = run
    /\ UNCHANGED <<gone, cache, health, mark, verified, pass>>

\* refresh goes through the Runners in the order of the config and skips those
\* it was not asked for: the places after n that it still has to visit.
Ahead(n, refs) == {k \in DOMAIN Order : k > n /\ Order[k] \in refs}

\* _refresh_guard: whoever gets it looks at the marks again.
TargetsUnchecked(refs) == refs                     \* mutant: no second look
TargetsUsable(refs) == {r \in refs : ~Fresh(r) /\ health[r].ok}  \* mutant: a failed one is left
Targets(refs) == {r \in refs : ~Fresh(r)}
TakeGuard(c) ==
    /\ req[c].pc = "queued"
    /\ pass.who = Nobody
    /\ LET targets == Targets(Refs(req[c].ask))
       IN  IF targets = {} THEN Answer(c, req[c].ask, health, verified) /\ pass' = pass
           ELSE /\ req' = [req EXCEPT ![c].pc = "refreshing"]
                /\ \E k \in Ahead(0, targets) :
                      /\ \A l \in Ahead(0, targets) : k <= l
                      /\ pass' = [IdlePass EXCEPT !.who = c, !.at = k, !.touched = targets]
                /\ run' = run
    /\ UNCHANGED <<gone, cache, health, mark, verified, left>>

-----------------------------------------------------------------------------
(* refresh, _verify_runner and _verify_preset.                             *)

Current == Order[pass.at]

\* manifest and probe agreed; discover_models is sent to the driver.
Discover ==
    /\ pass.who # Nobody /\ pass.stage = "next"
    /\ Current \in Enabled
    /\ IF Current \in CachedDiscovery /\ CacheFresh(Current)
       THEN pass' = [pass EXCEPT !.stage = "got", !.got = cache[Current].got] /\ left' = left
       ELSE \E got \in Results(Current) :
                /\ Brings(Current, got)
                /\ pass' = [pass EXCEPT !.stage = "reading", !.got = got]
    /\ UNCHANGED <<gone, cache, health, mark, verified, req, run>>
DiscoverDone ==
    /\ pass.stage = "reading"
    /\ cache' = Stored(Current, pass.got)
    /\ pass' = [pass EXCEPT !.stage = "got"]
    /\ UNCHANGED <<gone, health, mark, verified, req, run, left>>

\* A disabled Runner, or any failed RPC, schema or identity check: the old
\* snapshot is kept.  The session is closed next.
\* mutant: a failed verification leaves the Runner usable.
VerifyFailsUnmarked ==
    /\ pass.who # Nobody /\ pass.stage \in {"next", "got"}
    /\ Fault
    /\ pass' = [pass EXCEPT !.stage = "closing", !.got = NoCatalog]
    /\ UNCHANGED <<gone, cache, health, mark, verified, req, run>>
VerifyFails ==
    /\ pass.who # Nobody /\ pass.stage \in {"next", "got"}
    /\ IF Current \in Enabled THEN Fault ELSE left' = left
    /\ health' = [health EXCEPT ![Current].ok = FALSE]
    /\ pass' = [pass EXCEPT !.stage = "closing", !.got = NoCatalog]
    /\ UNCHANGED <<gone, cache, mark, verified, req, run>>
\* The runtime RPC answered too: everything is assigned at once.
VerifyPasses ==
    /\ pass.stage = "got"
    /\ health' = [health EXCEPT ![Current].ok = TRUE, ![Current].snap = pass.got]
    /\ pass' = [pass EXCEPT !.stage = "closing", !.got = NoCatalog]
    /\ UNCHANGED <<gone, cache, mark, verified, req, run, left>>

\* _verify_preset.
PresetVerified(p) ==
    /\ p.enabled
    /\ health[p.runner].ok
    /\ health[p.runner].snap[p.model] = [status |-> "passed", executable |-> TRUE]
\* The presets of the touched Runners are derived again at the end of the pass.
Derived == {p.alias : p \in {x \in Presets : IF x.runner \in pass.touched
                                             THEN PresetVerified(x)
                                             ELSE x.alias \in verified}}

\* The attempt is over.  After the last one the presets are derived, the
\* locks are released and the request that refreshed is answered.
Attempted ==
    /\ pass.stage = "closing"
    /\ mark' = [mark EXCEPT ![Current] = 0]
    /\ IF Ahead(pass.at, pass.touched) # {}
       THEN /\ \E k \in Ahead(pass.at, pass.touched) :
                  /\ \A l \in Ahead(pass.at, pass.touched) : k <= l
                  /\ pass' = [pass EXCEPT !.at = k, !.stage = "next", !.since = 0]
            /\ UNCHANGED <<verified, req, run>>
       ELSE /\ pass' = IdlePass
            /\ verified' = Derived
            /\ IF pass.who = "startup" THEN UNCHANGED <<req, run>>
               ELSE Answer(pass.who, req[pass.who].ask, health, Derived)
    /\ UNCHANGED <<gone, cache, health, left>>

-----------------------------------------------------------------------------
(* execute's catalog gate in the driver.                                   *)

GateOpens(got, m) == got[m] = [status |-> "passed", executable |-> TRUE]
Decide(c, got) ==
    run' = [run EXCEPT ![c] = IF GateOpens(got, run[c].model)
                              THEN [@ EXCEPT !.pc = "spawned", !.got = NoCatalog, !.since = 0]
                              ELSE IdleRun]
GateCached(c) ==
    /\ run[c].pc = "gate"
    /\ CacheFresh(run[c].runner)
    /\ Decide(c, cache[run[c].runner].got)
    /\ UNCHANGED <<gone, cache, health, mark, verified, pass, req, left>>
GateReads(c) ==
    /\ run[c].pc = "gate"
    /\ ~CacheFresh(run[c].runner)
    /\ \E got \in Results(run[c].runner) :
          /\ Brings(run[c].runner, got)
          /\ run' = [run EXCEPT ![c].pc = "reading", ![c].got = got]
    /\ UNCHANGED <<gone, cache, health, mark, verified, pass, req>>
GateDone(c) ==
    /\ run[c].pc = "reading"
    /\ cache' = Stored(run[c].runner, run[c].got)
    /\ Decide(c, run[c].got)
    /\ UNCHANGED <<gone, health, mark, verified, pass, req, left>>
RunEnds(c) ==
    /\ run[c].pc = "spawned"
    /\ run' = [run EXCEPT ![c] = IdleRun]
    /\ UNCHANGED <<gone, cache, health, mark, verified, pass, req, left>>

PassStep == Discover \/ DiscoverDone \/ VerifyFails \/ VerifyPasses \/ Attempted
Next ==
    \/ Tick \/ ProviderChanges \/ PassStep
    \/ \E c \in Clients : \/ Ask(c) \/ TakeGuard(c)
                          \/ GateCached(c) \/ GateReads(c) \/ GateDone(c) \/ RunEnds(c)

Spec == Init /\ [][Next]_vars

-----------------------------------------------------------------------------
\* Types; marks and cache ages stay inside their clocks, a call inside its
\* timeout, the pass inside the operator config.
Catalogs == [Models -> Rows]
PassRecords == [who : Clients \cup {Nobody, "startup"}, at : Nat, touched : SUBSET Runners,
                stage : {"next", "reading", "got", "closing"}, got : Catalogs,
                since : 0..CallTime]
ReqRecords == [pc : {"idle", "queued", "refreshing"}, ask : Asks \cup {[kind |-> "none"]}]
RunRecords == [pc : {"idle", "gate", "reading", "spawned"}, runner : Runners,
               model : Models \cup {"none"}, static : BOOLEAN, got : Catalogs,
               since : 0..CallTime]
TypeOK ==
    /\ gone \in [Runners -> [Models -> Listed..LongGone]]
    /\ cache \in [Runners -> [age : 0..CacheTTL, got : Catalogs]]
    /\ health \in [Runners -> [enabled : BOOLEAN, ok : BOOLEAN, snap : Catalogs]]
    /\ mark \in [Runners -> 0..LongAgo]
    /\ verified \subseteq StaticAliases
    /\ pass \in PassRecords
    /\ req \in [Clients -> ReqRecords]
    /\ run \in [Clients -> RunRecords]

\* Singleflight: however many requests queued up behind a refresh, a Runner
\* is probed for one of them only when its last attempt is a TTL ago.
NoStorm ==
    [][(pass.who \in Clients /\ pass.stage = "next" /\ pass'.stage # "next")
          => ~Fresh(Current)]_vars

\* Nothing is skipped: whatever the requests before it refreshed or failed to, a
\* request that queued is answered with an attempt on each Runner it concerns
\* that is no older than a refresh interval and the verifications of the others.
AnswersAreFresh ==
    [][\A c \in Clients : (req[c].pc # "idle" /\ req'[c].pc = "idle")
          => \A r \in Refs(req[c].ask) : mark'[r] < LongAgo]_vars

Gone(c, limit) == gone[run'[c].runner][run'[c].model] >= limit
Becomes(c, pc) == run[c].pc # pc /\ run'[c].pc = pc
\* A run reaches the provider's CLI only for a model its catalog listed at
\* most a cache lifetime and one read ago.
SpawnedIsListed ==
    [][\A c \in Clients : Becomes(c, "spawned") => ~Gone(c, CacheTTL + CallTime)]_vars
\* A dynamic alias is admitted only if the catalog listed its model at most a
\* refresh interval and one verification ago (and a cached read, where the
\* driver answers discovery from its cache).
DynamicIsListed ==
    [][\A c \in Clients : (Becomes(c, "gate") /\ ~run'[c].static) =>
          ~Gone(c, TTL + CallTime + IF run'[c].runner \in CachedDiscovery
                                    THEN CacheTTL + CallTime ELSE 0)]_vars

-----------------------------------------------------------------------------
(* Claims of the repository that this model refutes; see the README.       *)

\* "An explicit failed probe is refused unconditionally": a preset that is
\* available is not one whose newest catalog row is failed.
AvailableNotFailed ==
    \A p \in Presets :
        (p.alias \in verified /\ p.enabled /\ Usable(health, p.runner) /\ Fresh(p.runner))
            => health[p.runner].snap[p.model].status # "failed"

=============================================================================
