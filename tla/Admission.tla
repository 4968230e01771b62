----------------------------- MODULE Admission -----------------------------
(***************************************************************************)
(* The admission functions of Catalog against every small input: a request *)
(* of any principal meets a registry in any state it can be in, fresh or   *)
(* stale, and is answered by one call (chat.py, models.py, catalog.py).    *)
(***************************************************************************)
EXTENDS Catalog

VARIABLES
    health,    \* health[r]: enabled, ok and the catalog snapshot of Runner r
    verified,  \* the presets the registry last derived as verified
    principal, \* who asks
    asked,     \* what was asked, kind "nothing" before
    answer     \* the binding of a chat, or the rows of a listing

vars == <<health, verified, principal, asked, answer>>

\* A driver lists a row as passed and says whether it may run it, or reports a
\* pinned model as failed or unknown.  Nobody looks at the flag of such a row:
\* devin and antigravity clear it, hermes-api leaves it set.
SnapRows == {row \in Rows : row.executable => row.status \in {"passed", "failed"}}
                \ {[status |-> "failed", executable |-> FALSE]}
Init ==
    /\ health \in [Runners -> [enabled : {TRUE}, ok : BOOLEAN, snap : [Models -> SnapRows]]]
    /\ verified \in SUBSET StaticAliases
    /\ principal \in Principals
    /\ asked = [kind |-> "nothing"]
    /\ answer = Refused("none")

Scopes == {DriverOf[r] : r \in Runners} \cup {"any", "other provider"}
Aliases == StaticAliases \cup {<<s.prefix, m>> : s \in Sources, m \in Models}

\* POST chat/completions.
Chat ==
    /\ asked.kind = "nothing"
    /\ \E alias \in Aliases, scope \in Scopes, effort \in Efforts :
          /\ asked' = [kind |-> "chat", alias |-> alias, scope |-> scope, effort |-> effort]
          /\ answer' = ResolveModel(health, verified, principal, alias, scope, effort)
    /\ UNCHANGED <<health, verified, principal>>
\* A row of a listing: what a client may ask for, and what it is shown to run.
StaticRow(x) == [alias |-> x.alias, runner |-> x.runner, model |-> x.model]
DynamicRow(e) == [alias |-> <<e.source.prefix, e.model>>, runner |-> e.source.runner,
                  model |-> e.model]

\* GET models: _entries.
ModelRows(h, v, p, scope) == {StaticRow(x) : x \in StaticEntries(h, v, p, scope)}
                             \cup {DynamicRow(e) : e \in DynamicEntries(h, p, scope)}
ListModels ==
    /\ asked.kind = "nothing"
    /\ asked' = [kind |-> "models"]
    /\ answer' = ModelRows(health, verified, principal, "any")
    /\ UNCHANGED <<health, verified, principal>>
\* GET catalog: the rows shown as executable.
CatalogRows(h, p) ==
    {DynamicRow(e) : e \in {x \in [source : {s \in Sources : s.enabled}, model : Models] :
                               ViewExecutable(h, p, x.source, x.model)}}
ListCatalog ==
    /\ asked.kind = "nothing"
    /\ asked' = [kind |-> "catalog"]
    /\ answer' = CatalogRows(health, principal)
    /\ UNCHANGED <<health, verified, principal>>

Next == Chat \/ ListModels \/ ListCatalog
Spec == Init /\ [][Next]_vars

-----------------------------------------------------------------------------
\* A listed row asked for at its provider's path: the alias resolves, on that
\* Runner, to that model.
Resolves(row) ==
    LET b == ResolveModel(health, verified, principal, row.alias, DriverOf[row.runner], "none")
    IN  b.ok /\ b.runner = row.runner /\ b.resolved = row.model

\* Whatever a listing shows to a principal as executable, the principal can run,
\* with one exception: a preset that was verified by an earlier snapshot and
\* whose model the newest one does not have.
RowsResolve ==
    asked.kind \in {"models", "catalog"} =>
        \A row \in answer :
            \/ Resolves(row)
            \/ /\ row.alias \in StaticAliases
               /\ health[row.runner].snap[row.model].status = "absent"

\* What a principal was given on a Runner under a policy: its presets, the
\* models of the sources it may execute, and single dynamic aliases.  The alias
\* of a preset is not one of those, though a source may have a row of its name.
Authority(p, runner, policy) ==
    {x.model : x \in {y \in Presets : /\ y.enabled /\ y.alias \in Grants[p].presets
                                      /\ y.runner = runner /\ y.policy = policy}}
    \cup
    {m \in Models : \E s \in Sources :
        /\ s.enabled /\ s.runner = runner /\ s.policy = policy
        /\ m \in s.models /\ Tier[m] \in s.tiers
        /\ \/ s.name \in Grants[p].executable
           \/ <<s.prefix, m>> \in Grants[p].presets \ StaticAliases}

\* No alias and no effort variant takes a principal to a model, a Runner or a
\* policy it was not given.
NoEscalation == (asked.kind = "chat" /\ answer.ok) =>
                    answer.resolved \in Authority(principal, answer.runner, answer.policy)
\* A Runner that serves a request was one the request kept fresh, and what a
\* principal is denied makes no Runner work.
ProbesMatch ==
    asked.kind = "chat" => LET refs == AliasRefreshRefs(principal, asked.alias, asked.scope)
              IN  /\ answer.ok => answer.runner \in refs
                  /\ ~answer.ok /\ answer.why = "denied" => refs = {}

-----------------------------------------------------------------------------
(* A claim that this model refutes; see the README.                        *)

\* Every listed row resolves.
ListedResolves == asked.kind \in {"models", "catalog"} => \A row \in answer : Resolves(row)

=============================================================================
