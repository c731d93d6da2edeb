----------------------------- MODULE CurrentState -----------------------------
(***************************************************************************)
(* The current-state store of cancellai-store: one row for an artifact,    *)
(* replaced as a whole by every rebuild, and the invalidation key a caller *)
(* may attach to a row to have it reused for reading later.                *)
(*                                                                         *)
(*   lib.rs  rebuild, reset, set_invalidation_key, cache_read_hint         *)
(*                                                                         *)
(* Any number of connections call these, each call one transaction.        *)
(***************************************************************************)
EXTENDS Naturals, FiniteSets

CONSTANTS
    Artifacts,
    Tokens,        \* identity tokens
    Facts,         \* known values of an axis: mtime, fingerprint, version
    MaxRows,       \* BudgetLimits::max_current_state_rows
    MaxBuilds      \* bound on the number of rebuilds

VARIABLES
    cached,     \* agent_artifacts: artifact -> [token, key]
    builds,     \* history: number of rebuilds
    attachedAt  \* history: the number of rebuilds when its key was last attached

cacheVars == <<cached, builds, attachedAt>>

Unknown == "unknown"
Axis    == Facts \cup {Unknown}

\* CacheInvalidationKey
Key == [token : Tokens, modified : Axis, fingerprint : Axis, knowledge : Axis,
        completeness : {"complete", "partial", "unknown"}]
NoKey == [token |-> Unknown, modified |-> Unknown, fingerprint |-> Unknown,
          knowledge |-> Unknown, completeness |-> "unknown"]

CacheTypeOK ==
    /\ DOMAIN cached \subseteq Artifacts
    /\ \A a \in DOMAIN cached : cached[a] \in [token : Tokens, key : Key \cup {NoKey}]
    /\ builds \in 0 .. MaxBuilds
    /\ attachedAt \in [Artifacts -> 0 .. MaxBuilds]

CacheInit ==
    /\ cached = <<>> /\ builds = 0
    /\ attachedAt = [a \in Artifacts |-> 0]

\* Mutant of Scanned: a row of an artifact that was there keeps its key.
ScannedKeepingKeys(rows) ==
    [a \in DOMAIN rows |-> [token |-> rows[a],
        key |-> IF a \in DOMAIN cached THEN cached[a].key ELSE NoKey]]

\* rebuild: what was there is deleted, keys with it.
Scanned(rows) == [a \in DOMAIN rows |-> [token |-> rows[a], key |-> NoKey]]

Rebuild(rows) ==
    /\ builds < MaxBuilds
    /\ cached' = Scanned(rows)
    /\ builds' = builds + 1
    /\ UNCHANGED attachedAt

\* What a scan may find.
Scans == UNION {[S -> Tokens] : S \in SUBSET Artifacts}

\* set_invalidation_key: no row, or a row of another identity, is an error.
SetInvalidationKey(a, key) ==
    /\ a \in DOMAIN cached
    /\ cached[a].token = key.token
    /\ cached' = [cached EXCEPT ![a].key = key]
    /\ attachedAt' = [attachedAt EXCEPT ![a] = builds]
    /\ UNCHANGED builds

Confirmed(known, fresh) == known # Unknown /\ known = fresh

\* cache_read_hint
CacheReadHint(a, fresh) ==
    IF /\ a \in DOMAIN cached
       /\ cached[a].key # NoKey
       /\ LET key == cached[a].key IN
          /\ key.token = fresh.token
          /\ Confirmed(key.modified, fresh.modified)
          /\ Confirmed(key.fingerprint, fresh.fingerprint)
          /\ Confirmed(key.knowledge, fresh.knowledge)
          /\ {key.completeness, fresh.completeness} = {"complete"}
    THEN "reuse" ELSE "revalidate"

CacheStep ==
    \/ \E rows \in Scans : Rebuild(rows)
    \/ \E a \in Artifacts, key \in Key : SetInvalidationKey(a, key)

CacheSpec == CacheInit /\ [][CacheStep]_cacheVars

\* A row is offered for reuse only under a key attached since the rebuild that
\* wrote the row, and only to who observes the identity the row was written
\* under: whatever order rebuilds and keys of several callers arrive in, a key
\* never speaks for content that replaced what it was observed of.
ReuseNeedsAKeyOfThisRow ==
    \A a \in Artifacts, fresh \in Key :
        CacheReadHint(a, fresh) = "reuse" =>
            attachedAt[a] = builds /\ cached[a].token = fresh.token
=============================================================================
