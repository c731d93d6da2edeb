------------------------------ MODULE Retention ------------------------------
(***************************************************************************)
(* From what a scan saw to what a run intends (cancellai-policy            *)
(* retention.rs and cancellai-provider-codex graph.rs): grouping rollouts  *)
(* into subagent trees, keeping the latest trees, classifying each session *)
(* and proposing an action for it.                                         *)
(*                                                                         *)
(* Sessions are numbered in the order the directory walk meets them, which *)
(* is the order a stable sort falls back on, Claude's first.  Modification *)
(* times are numbers from 1; 0 is Rust's None, and compares below every    *)
(* time as None does.  Claude sessions have no parent, so each is a tree   *)
(* of its own and the two resolvers become one set of operators.           *)
(***************************************************************************)
EXTENDS Authority, FiniteSets

CONSTANTS
    Claude,      \* the sessions of claude-code
    Codex,       \* the rollouts of codex-cli
    Shielded,    \* sessions behind a protected name
    Cutoff       \* first modification time inside the retention window

Sessions  == Claude \cup Codex
Providers == {"claude-code", "codex-cli"}

ASSUME RetentionAssumption ==
    /\ Claude \subseteq Nat \ {0}
    /\ Codex \subseteq Nat \ {0}
    /\ \A s \in Claude, t \in Codex : s < t
    /\ IsFiniteSet(Claude) /\ IsFiniteSet(Codex)
    /\ Shielded \subseteq Sessions
    /\ Cutoff \in Nat \ {0}

Of(provider) == IF provider = "claude-code" THEN Claude ELSE Codex
ProviderOf(s) == IF s \in Claude THEN "claude-code" ELSE "codex-cli"

\* What one scan gathered: the sessions it found, whether each provider's walk
\* saw everything, whether its process was seen running, each session's
\* modification time and the parent its header names (0 when it names none);
\* and how many trees of each provider the policy keeps.
Scans == [keep     : Nat,
          found    : SUBSET Sessions,
          complete : [Providers -> BOOLEAN],
          active   : [Providers -> BOOLEAN],
          seen     : [Sessions -> Nat],
          parent   : [Sessions -> Sessions \cup {0}]]

-----------------------------------------------------------------------------
(* Subagent trees.                                                         *)

HasParent(scan, s) == scan.parent[s] \in scan.found

\* The session reached from s after n steps towards the root of its tree.
Ancestor(scan, s, n) ==
    LET up[k \in 0 .. n] ==
            IF k = 0 THEN s
            ELSE IF HasParent(scan, up[k - 1])
                 THEN scan.parent[up[k - 1]]
                 ELSE up[k - 1]
    IN  up[n]

\* A parent that was not discovered ends the chain; a cycle isolates the
\* session the walk began from.
RootIdFor(scan, s) ==
    LET top == Ancestor(scan, s, Cardinality(scan.found))
    IN  IF HasParent(scan, top) THEN s ELSE top

Found(scan, provider) == scan.found \cap Of(provider)
Tree(scan, provider, root) ==
    {m \in Found(scan, provider) : RootIdFor(scan, m) = root}
Roots(scan, provider) == {RootIdFor(scan, m) : m \in Found(scan, provider)}

\* Mutant of EffectiveMtime: a tree is as old as its root.
EffectiveMtimeOfRoot(scan, provider, root) == scan.seen[root]

\* The latest of the members' times; one unobserved member makes it unknown.
EffectiveMtime(scan, provider, root) ==
    LET times == {scan.seen[m] : m \in Tree(scan, provider, root)}
    IN  IF 0 \in times
        THEN 0
        ELSE CHOOSE t \in times : \A u \in times : u <= t

Least(numbers) == CHOOSE m \in numbers : \A n \in numbers : m <= n

FirstOf(scan, provider, root) == Least(Tree(scan, provider, root))

\* The next of some sessions in plan order: trees as discovered, then members.
NextInOrder(scan, provider, sessions) ==
    LET roots == {RootIdFor(scan, s) : s \in sessions}
        first == CHOOSE r \in roots : \A q \in roots :
                     FirstOf(scan, provider, r) <= FirstOf(scan, provider, q)
    IN  Least(sessions \cap Tree(scan, provider, first))

\* The order keep-latest counts in: newest first, then as discovered.
Precedes(scan, provider, q, r) ==
    LET tq == EffectiveMtime(scan, provider, q)
        tr == EffectiveMtime(scan, provider, r)
    IN  \/ tq > tr
        \/ tq = tr /\ FirstOf(scan, provider, q) < FirstOf(scan, provider, r)

ProtectedRoots(scan, provider) ==
    {r \in Roots(scan, provider) :
        Cardinality({q \in Roots(scan, provider) :
                        Precedes(scan, provider, q, r)}) < scan.keep}

-----------------------------------------------------------------------------
(* Classification of one session.                                          *)

TreeRecent(scan, provider, root) == EffectiveMtime(scan, provider, root) >= Cutoff

\* A declared parent that was not discovered.
Dangling(scan, s) == scan.parent[s] # 0 /\ scan.parent[s] \notin scan.found

\* Codex: the time of this member is what is missing.  Claude: a companion
\* payload that could not be read, which also makes the scan incomplete, so
\* every session of an incomplete scan is taken for degraded.
Degraded(scan, s) ==
    IF s \in Claude
    THEN ~scan.complete["claude-code"]
    ELSE scan.seen[s] = 0

ActivityOf(scan, s) ==
    LET p == ProviderOf(s)
    IN  CASE scan.active[p]    -> "active"
          [] ~scan.active[p] /\ scan.seen[s] = 0 -> "unknown"
          [] ~scan.active[p] /\ scan.seen[s] # 0 /\ Dangling(scan, s) -> "orphaned"
          [] ~scan.active[p] /\ scan.seen[s] # 0 /\ ~Dangling(scan, s) ->
                IF /\ scan.seen[s] < Cutoff
                   /\ ~TreeRecent(scan, p, RootIdFor(scan, s))
                THEN "stale"
                ELSE "idle"

ProtectionOf(scan, s) ==
    CASE s \in Shielded -> "protected"
      [] s \notin Shielded ->
            IF RootIdFor(scan, s) \in ProtectedRoots(scan, ProviderOf(s))
            THEN "pinned"
            ELSE "normal"

IntegrityOf(scan, s) ==
    IF scan.seen[s] = 0
    THEN "unknown"
    ELSE IF Degraded(scan, s) THEN "partial" ELSE "healthy"

ConfidenceOf(scan, s) == IF Degraded(scan, s) THEN "observed" ELSE "verified"

\* The facts authority is computed from; provider trust is the compiled-in one.
Classify(scan, s) ==
    [requested  |-> Autopilot,
     artifact   |-> IF s \in Shielded THEN Observe ELSE Govern,
     confidence |-> ConfidenceOf(scan, s),
     activity   |-> ActivityOf(scan, s),
     protection |-> ProtectionOf(scan, s),
     integrity  |-> IntegrityOf(scan, s),
     trust      |-> "builtin_verified"]

ReachableAuthority(scan, s) == EffectiveAuthority(Classify(scan, s))

-----------------------------------------------------------------------------
(* The proposed actions.                                                   *)

Eligible(scan, s) ==
    /\ scan.complete[ProviderOf(s)]
    /\ ActivityOf(scan, s) = "stale"
    /\ ReachableAuthority(scan, s) >= MinimumAuthorityFor("delete")

BuildActions(scan) ==
    [s \in Sessions |->
        CASE s \notin scan.found                      -> "none"
          [] s \in scan.found /\ Eligible(scan, s)    -> "delete"
          [] s \in scan.found /\ ~Eligible(scan, s)   -> "observe"]
=============================================================================
