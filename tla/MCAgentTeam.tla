---------------------------- MODULE MCAgentTeam ----------------------------
(* Small instances of AgentTeam for TLC. *)
EXTENDS AgentTeam, TLC

MCVendors == {"anthropic", "gemini"}
MCHomeOf == "opus" :> "anthropic" @@ "sonnet" :> "anthropic"
              @@ "flash" :> "gemini" @@ "oldflash" :> "gemini"
MCModels == DOMAIN MCHomeOf
MCDefaultModel == "anthropic" :> "opus" @@ "gemini" :> "flash"
MCStableModel == "anthropic" :> "opus" @@ "gemini" :> "oldflash"

\* Nothing set but one provider, and one model if any.
Plain(provider, model) ==
  [provider |-> provider, model |-> model, fallback |-> None,
   roleProvider |-> [r \in Roles |-> None],
   roleModel |-> [r \in Roles |-> None], broken |-> {}]

MCEnvs ==
  { \* the Planner at another vendor and with a fallback, the stable model for
    \* the Coder, a misspelt name for the Reviewer
    [Plain(None, "opus") EXCEPT
       !.roleProvider["planner"] = "gemini",
       !.roleProvider["reviewer"] = "Misspelt"],
    \* no key for the Planner's vendor, a fallback for the others
    [Plain("anthropic", "sonnet") EXCEPT
       !.fallback = "opus", !.broken = {"gemini"},
       !.roleProvider["planner"] = "gemini"],
    \* every role is configured with the stable model
    Plain("gemini", "oldflash"),
    \* nothing can be built
    Plain("Misspelt", None) }

MCNames == {"repo", "a", "x", "y"}
MCFiles == {<<"a", "x">>, <<"y">>}
MCPlannedPaths == {<<"repo", "a", "x">>, <<>>}
=============================================================================
