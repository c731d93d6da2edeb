------------------------------ MODULE Authority ------------------------------
(***************************************************************************)
(* The effective authority of an action: the minimum of independent        *)
(* ceilings (cancellai-safety authority.rs), the ceilings themselves, and  *)
(* what the executor requires of an action before it may run.  Nothing in  *)
(* here keeps state; CleanRun decides with these operators, and            *)
(* AuthorityProofs proves what the project relies on about them.           *)
(***************************************************************************)
EXTENDS Naturals

\* AuthorityLevel: its derived order is the order of the declaration.
Observe    == 0
Recommend  == 1
Quarantine == 2
Govern     == 3
Autopilot  == 4
Levels     == Observe .. Autopilot

Confidences  == {"verified", "observed", "inferred", "low_unknown"}
Activities   == {"active", "idle", "stale", "orphaned", "unknown"}
Protections  == {"normal", "pinned", "protected"}
Integrities  == {"healthy", "partial", "corrupted", "unknown"}
Trusts       == {"untrusted", "local_custom", "community_verified",
                 "builtin_verified"}
Channels     == {"stable", "beta", "nightly"}
ActionClasses == {"observe", "quarantine", "archive", "restore", "delete"}
Reversibilities == {"rebuildable", "quarantinable", "archivable",
                    "irreversible", "unknown"}

Inputs == [requested : Levels, artifact : Levels, confidence : Confidences,
           activity : Activities, protection : Protections,
           integrity : Integrities, trust : Trusts]

\* The ceiling of the most restrictive containment record that binds a target,
\* as a set: empty when none does.
Containments == {{}, {Observe}, {Recommend}}

-----------------------------------------------------------------------------
(* The ceilings.                                                           *)

ConfidenceCeiling(confidence) ==
    CASE confidence = "verified"    -> Autopilot
      [] confidence = "observed"    -> Govern
      [] confidence = "inferred"    -> Quarantine
      [] confidence = "low_unknown" -> Recommend

LifecycleCeiling(activity, protection, integrity) ==
    IF \/ activity \in {"active", "unknown"}
       \/ protection \in {"pinned", "protected"}
       \/ integrity \in {"partial", "corrupted", "unknown"}
    THEN Recommend
    ELSE Autopilot

ProviderTrustCeiling(trust) ==
    CASE trust = "untrusted"          -> Observe
      [] trust = "local_custom"       -> Quarantine
      [] trust = "community_verified" -> Govern
      [] trust = "builtin_verified"   -> Autopilot

ReleaseChannelCeiling(channel) ==
    CASE channel = "stable"  -> Autopilot
      [] channel = "beta"    -> Govern
      [] channel = "nightly" -> Recommend

ConstitutionalSafetyFloor(protection, confidence) ==
    IF protection = "protected" \/ confidence = "low_unknown"
    THEN Recommend
    ELSE Autopilot

-----------------------------------------------------------------------------
(* A constraint is a name with a ceiling; the lowest ceiling wins, and no  *)
(* constraint at all is no authority.                                      *)

Constraint(name, ceiling) == [name |-> name, ceiling |-> ceiling]

Ceilings(constraints) == {c.ceiling : c \in constraints}

EffectiveLevel(constraints) ==
    IF constraints = {}
    THEN Observe
    ELSE CHOOSE l \in Ceilings(constraints) :
            \A m \in Ceilings(constraints) : l <= m

BaseConstraints(in) ==
    {Constraint("user_authority", in.requested),
     Constraint("artifact_authority_ceiling", in.artifact),
     Constraint("confidence_authority", ConfidenceCeiling(in.confidence)),
     Constraint("lifecycle_authority",
                LifecycleCeiling(in.activity, in.protection, in.integrity)),
     Constraint("provider_trust_authority", ProviderTrustCeiling(in.trust)),
     Constraint("constitutional_safety_floor",
                ConstitutionalSafetyFloor(in.protection, in.confidence))}

ChannelConstraint(channel) ==
    {Constraint("release_channel_authority", ReleaseChannelCeiling(channel))}

ContainmentConstraint(containment) ==
    {Constraint("incident_containment_authority", c) : c \in containment}

\* An unrecognised layout of the provider's directory is one more ceiling.
LayoutConstraint(recognised) ==
    IF recognised THEN {} ELSE {Constraint("provider_capability_authority", Observe)}

EffectiveAuthority(in) == EffectiveLevel(BaseConstraints(in))

ResolveProviderExecutionAuthority(in, recognised) ==
    EffectiveLevel(BaseConstraints(in) \cup LayoutConstraint(recognised))

EffectiveAuthorityForChannel(in, channel) ==
    EffectiveLevel(BaseConstraints(in) \cup ChannelConstraint(channel))

EffectiveAuthorityUnderContainment(in, channel, containment) ==
    EffectiveLevel(BaseConstraints(in) \cup ChannelConstraint(channel)
                     \cup ContainmentConstraint(containment))

-----------------------------------------------------------------------------
(* What an action needs.                                                   *)

MinimumAuthorityFor(class) ==
    CASE class = "observe"                               -> Observe
      [] class \in {"quarantine", "archive", "restore"}  -> Quarantine
      [] class = "delete"                                -> Govern

ReversibilityAllowed(class, reversibility) ==
    CASE class = "observe"                    -> TRUE
      [] class \in {"quarantine", "restore"}  -> reversibility = "quarantinable"
      [] class = "archive"                    -> reversibility = "archivable"
      [] class = "delete"                     -> reversibility = "irreversible"
=============================================================================
