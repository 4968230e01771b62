----------------------------- MODULE MCRegistry -----------------------------
(***************************************************************************)
(* A small operator config for Registry: two Runners with a source each, a *)
(* preset that pins the model on the first, and two principals.            *)
(***************************************************************************)
EXTENDS Registry

MCOrder == <<"r1", "r2">>
MCPresets ==
    {[alias |-> <<"static", "m">>, runner |-> "r1", model |-> "m", policy |-> "write",
      enabled |-> TRUE]}
MCSources ==
    {[name |-> "A", prefix |-> "a", runner |-> "r1", policy |-> "write", enabled |-> TRUE,
      models |-> {"m"}, tiers |-> {"free"}],
     [name |-> "C", prefix |-> "c", runner |-> "r2", policy |-> "write", enabled |-> TRUE,
      models |-> {"m"}, tiers |-> {"free"}]}
MCGrants ==
    [p1 |-> [presets |-> {<<"static", "m">>}, readable |-> {"A"}, executable |-> {"C"}],
     p2 |-> [presets |-> {<<"a", "m">>}, readable |-> {}, executable |-> {}]]
MCDriver == [r1 |-> "d1", r2 |-> "d2"]
MCTier == [m |-> "free"]
MCVariant == [m |-> "unknown"]
MCAllowed == [r1 |-> {"m"}, r2 |-> {"m"}]
MCConfigured == [r1 |-> {"m"}, r2 |-> {}]

Chat(p, alias) ==
    [kind |-> "chat", principal |-> p, alias |-> alias, scope |-> "any", effort |-> "none"]
MCAsks ==
    {Chat("p1", <<"static", "m">>), Chat("p2", <<"a", "m">>), Chat("p1", <<"c", "m">>),
     [kind |-> "models", principal |-> "p1", scope |-> "any"],
     [kind |-> "catalog", principal |-> "p1", scope |-> "d1"]}

=============================================================================
