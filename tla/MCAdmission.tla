---------------------------- MODULE MCAdmission ----------------------------
(***************************************************************************)
(* Every principal there can be over one operator config: three sources of *)
(* a Runner under two policies, a preset, and two presets that hide a      *)
(* dynamic row of a source: one runs the variant of the first, the other   *)
(* hides the variant of the first.                                         *)
(***************************************************************************)
EXTENDS Admission

MCPresets ==
    {[alias |-> <<"static", "m">>, runner |-> "r1", model |-> "m", policy |-> "write",
      enabled |-> TRUE],
     [alias |-> <<"b", "m">>, runner |-> "r1", model |-> "n", policy |-> "read",
      enabled |-> TRUE],
     [alias |-> <<"c", "n">>, runner |-> "r1", model |-> "m", policy |-> "read",
      enabled |-> TRUE]}
MCSources ==
    {[name |-> "A", prefix |-> "a", runner |-> "r1", policy |-> "write", enabled |-> TRUE,
      models |-> {"m", "n"}, tiers |-> {"free", "paid"}],
     [name |-> "B", prefix |-> "b", runner |-> "r1", policy |-> "read", enabled |-> TRUE,
      models |-> {"m", "n"}, tiers |-> {"free"}],
     [name |-> "C", prefix |-> "c", runner |-> "r1", policy |-> "write", enabled |-> TRUE,
      models |-> {"n"}, tiers |-> {"paid"}]}
\* A principal is its grants.
MCPrincipals == [presets : SUBSET {<<"static", "m">>, <<"b", "m">>, <<"a", "n">>, <<"c", "n">>},
                 readable : {{}}, executable : SUBSET {"A", "B"}]
MCGrants == [p \in MCPrincipals |-> p]
MCDriver == [r1 |-> "driver"]
MCTier == [m |-> "free", n |-> "paid"]
MCVariant == [m |-> "n", n |-> "unknown"]

=============================================================================
