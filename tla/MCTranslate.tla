---------------------------- MODULE MCTranslate -----------------------------
(* A small target and a small estate for Translate: three sizes in two        *)
(* families, Windows and Linux machines, and the guesses that meet in waves.  *)
EXTENDS Translate

MCCatalog == {[vcpu |-> 2, memory |-> 4, family |-> "t3", price |-> 1],
              [vcpu |-> 4, memory |-> 16, family |-> "t3", price |-> 4],
              [vcpu |-> 4, memory |-> 32, family |-> "r5", price |-> 6]}

MCFamilyForTier == [t \in Tiers |-> IF t \in {"database", "cache"} THEN "r5" ELSE NoFamily]

MCGuesses == {<<"web", "production">>, <<"app", "staging">>, <<"web", "test">>,
              <<"web", "development">>, <<"app", "development">>, <<"database", "development">>}

MCMaskings == {<<1, 2, 3>>, <<1, 1, 2>>, <<1, 2, 1>>}

MCSources ==
  {[cpu |-> 2, memory |-> 8, cpu_util |-> 10, mem_util |-> NoUtil, os |-> "windows", disk |-> 0],
   [cpu |-> 3, memory |-> 16, cpu_util |-> NoUtil, mem_util |-> NoUtil, os |-> "linux", disk |-> 60]}

MCOsFamily  == [windows |-> "windows", linux |-> "linux"]
MCKeyFamily == [winkey |-> "windows", linkey |-> "linux"]

\* A target like aws: an image for each family, and internal balancers.
MCImageKey  == [os \in {"windows", "linux", NoOs} |-> IF os = "windows" THEN "winkey" ELSE "linkey"]
MCBoots     == MCKeyFamily

\* The first is a real type, but small; the other is none of the target's.
MCSuggestions ==
  {[instance |-> [vcpu |-> 2, memory |-> 4, family |-> "t3", price |-> 1], image_key |-> "winkey"],
   [instance |-> [vcpu |-> 64, memory |-> 256, family |-> "x9", price |-> 9], image_key |-> NoKey]}

MCDefaultZone == [range |-> "default", prefix |-> 16]
MCZones == {[range |-> "corporate", prefix |-> 22], [range |-> "branch", prefix |-> 23]}

MCConfigs == {[p \in {} |-> "deny"],
              [p \in {"no_public_subnets", "max_vcpu", "require_nat"} |-> "deny"],
              [p \in {"no_public_subnets", "allowed_instance_families", "max_monthly_cost"} |-> "warn"],
              [p \in {"no_such_policy"} |-> "deny"]}
=============================================================================
