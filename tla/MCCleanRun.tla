----------------------------- MODULE MCCleanRun ------------------------------
EXTENDS CleanRun, TLC

MCClaude == {1}
MCCodex  == {2, 3}
MCTrio   == {2, 3, 4}
MCNobody == {}

Family(f) == [s \in Sessions |-> IF s \in DOMAIN f THEN f[s] ELSE 0]

\* Two trees; a child found before or after its parent; headers that name
\* each other.
MCFamilies == {Family(<<>>), Family(2 :> 3), Family(3 :> 2),
               Family(2 :> 3 @@ 3 :> 2)}

\* A parent and two children.
MCTrioFamily == {Family(3 :> 2 @@ 4 :> 2)}

Ordinary == [scope |-> Providers, yes |-> FALSE, dryRun |-> FALSE,
             allowRunning |-> FALSE, keepLatest |-> 0,
             isDefault |-> [p \in Providers |-> TRUE]]

CodexOnly == [Ordinary EXCEPT !.scope = {"codex-cli"}]

MCFlagChoices == {[Ordinary EXCEPT !.keepLatest = 1],
                  [Ordinary EXCEPT !.scope = {"claude-code"}],
                  CodexOnly,
                  [CodexOnly EXCEPT !.dryRun = TRUE],
                  [CodexOnly EXCEPT !.allowRunning = TRUE, !.yes = TRUE],
                  [CodexOnly EXCEPT !.isDefault["codex-cli"] = FALSE]}

MCOrdinary == {Ordinary}
=============================================================================
