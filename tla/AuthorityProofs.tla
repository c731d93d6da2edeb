--------------------------- MODULE AuthorityProofs ---------------------------
(***************************************************************************)
(* What the minimum of ceilings guarantees, for every combination of       *)
(* inputs.                                                                 *)
(***************************************************************************)
EXTENDS Authority, TLAPS

-----------------------------------------------------------------------------
(* The minimum.                                                            *)

\* A set of levels that is not empty has a least member.
LEMMA LowestExists ==
    ASSUME NEW S \in SUBSET Levels, S # {}
    PROVE  \E l \in S : \A m \in S : l <= m
  <1>1. \A x \in S : x \in {0, 1, 2, 3, 4}
      BY DEF Levels, Observe, Autopilot
  <1>2. CASE 0 \in S
      BY <1>1, <1>2
  <1>3. CASE 0 \notin S /\ 1 \in S
      BY <1>1, <1>3
  <1>4. CASE 0 \notin S /\ 1 \notin S /\ 2 \in S
      BY <1>1, <1>4
  <1>5. CASE 0 \notin S /\ 1 \notin S /\ 2 \notin S /\ 3 \in S
      BY <1>1, <1>5
  <1>6. CASE 0 \notin S /\ 1 \notin S /\ 2 \notin S /\ 3 \notin S
      BY <1>1, <1>6
  <1> QED
      BY <1>2, <1>3, <1>4, <1>5, <1>6

\* compute_effective_authority returns a level that some constraint sets and
\* that no constraint is below.
LEMMA EffectiveLevelIsLowest ==
    ASSUME NEW C, C # {}, Ceilings(C) \subseteq Levels
    PROVE  /\ EffectiveLevel(C) \in Levels
           /\ EffectiveLevel(C) \in Ceilings(C)
           /\ \A c \in C : EffectiveLevel(C) <= c.ceiling
  <1>1. Ceilings(C) # {}
      BY DEF Ceilings
  <1>2. \E l \in Ceilings(C) : \A m \in Ceilings(C) : l <= m
      BY <1>1, LowestExists
  <1>3. /\ EffectiveLevel(C) \in Ceilings(C)
        /\ \A m \in Ceilings(C) : EffectiveLevel(C) <= m
      BY <1>2 DEF EffectiveLevel
  <1> QED
      BY <1>3 DEF Ceilings

\* One more constraint never raises the level (the property authority.rs calls
\* monotonic): whoever adds a ceiling can only take authority away.
THEOREM MoreConstraintsNeverRaise ==
    ASSUME NEW C, NEW D, C # {}, C \subseteq D, Ceilings(D) \subseteq Levels
    PROVE  EffectiveLevel(D) <= EffectiveLevel(C)
  <1>1. Ceilings(C) \subseteq Levels /\ D # {}
      BY DEF Ceilings
  <1>2. PICK c \in C : EffectiveLevel(C) = c.ceiling
      BY <1>1, EffectiveLevelIsLowest DEF Ceilings
  <1> QED
      BY <1>1, <1>2, EffectiveLevelIsLowest

-----------------------------------------------------------------------------
(* The constraints of an action.                                           *)

\* Every ceiling function returns a level.
LEMMA CeilingsAreLevels ==
    ASSUME NEW in \in Inputs, NEW channel \in Channels,
           NEW containment \in Containments, NEW recognised \in BOOLEAN
    PROVE  /\ BaseConstraints(in) # {}
           /\ Ceilings(BaseConstraints(in) \cup ChannelConstraint(channel)
                         \cup ContainmentConstraint(containment)
                         \cup LayoutConstraint(recognised)) \subseteq Levels
  <1>1. ConfidenceCeiling(in.confidence) \in Levels
      BY DEF ConfidenceCeiling, Inputs, Confidences, Levels, Observe, Recommend,
             Quarantine, Govern, Autopilot
  <1>2. LifecycleCeiling(in.activity, in.protection, in.integrity) \in Levels
      BY DEF LifecycleCeiling, Levels, Observe, Recommend, Autopilot
  <1>3. ProviderTrustCeiling(in.trust) \in Levels
      BY DEF ProviderTrustCeiling, Inputs, Trusts, Levels, Observe, Quarantine,
             Govern, Autopilot
  <1>4. ConstitutionalSafetyFloor(in.protection, in.confidence) \in Levels
      BY DEF ConstitutionalSafetyFloor, Levels, Observe, Recommend, Autopilot
  <1>5. ReleaseChannelCeiling(channel) \in Levels
      BY DEF ReleaseChannelCeiling, Channels, Levels, Observe, Recommend, Govern,
             Autopilot
  <1>6. \A c \in BaseConstraints(in) : c.ceiling \in Levels
      BY <1>1, <1>2, <1>3, <1>4 DEF BaseConstraints, Constraint, Inputs
  <1>7. \A c \in ChannelConstraint(channel) : c.ceiling \in Levels
      BY <1>5 DEF ChannelConstraint, Constraint
  <1>8. \A c \in ContainmentConstraint(containment) : c.ceiling \in Levels
      BY DEF ContainmentConstraint, Constraint, Containments, Levels, Observe,
             Recommend, Autopilot
  <1>9. \A c \in LayoutConstraint(recognised) : c.ceiling \in Levels
      BY DEF LayoutConstraint, Constraint, Levels, Observe, Autopilot
  <1>10. BaseConstraints(in) # {}
      BY DEF BaseConstraints
  <1> QED
      BY <1>6, <1>7, <1>8, <1>9, <1>10 DEF Ceilings

\* The ceiling each input sets binds the result.
LEMMA EachInputBinds ==
    ASSUME NEW in \in Inputs, NEW channel \in Channels,
           NEW containment \in Containments
    PROVE  LET level == EffectiveAuthorityUnderContainment(in, channel, containment)
           IN  /\ level \in Levels
               /\ level <= in.requested
               /\ level <= in.artifact
               /\ level <= ConfidenceCeiling(in.confidence)
               /\ level <= LifecycleCeiling(in.activity, in.protection, in.integrity)
               /\ level <= ProviderTrustCeiling(in.trust)
               /\ level <= ConstitutionalSafetyFloor(in.protection, in.confidence)
               /\ level <= ReleaseChannelCeiling(channel)
               /\ \A c \in containment : level <= c
  <1> DEFINE C == BaseConstraints(in) \cup ChannelConstraint(channel)
                    \cup ContainmentConstraint(containment)
             level == EffectiveLevel(C)
  <1>1. C # {} /\ Ceilings(C) \subseteq Levels
      BY CeilingsAreLevels, TRUE \in BOOLEAN DEF Ceilings
  <1>2. level \in Levels /\ \A c \in C : level <= c.ceiling
      BY <1>1, EffectiveLevelIsLowest
  <1>3. /\ level <= Constraint("user_authority", in.requested).ceiling
        /\ level <= Constraint("artifact_authority_ceiling", in.artifact).ceiling
        /\ level <= Constraint("confidence_authority",
                               ConfidenceCeiling(in.confidence)).ceiling
        /\ level <= Constraint("lifecycle_authority",
              LifecycleCeiling(in.activity, in.protection, in.integrity)).ceiling
        /\ level <= Constraint("provider_trust_authority",
                               ProviderTrustCeiling(in.trust)).ceiling
        /\ level <= Constraint("constitutional_safety_floor",
              ConstitutionalSafetyFloor(in.protection, in.confidence)).ceiling
      BY <1>2 DEF BaseConstraints
  <1>4. level <= Constraint("release_channel_authority",
                            ReleaseChannelCeiling(channel)).ceiling
      BY <1>2 DEF ChannelConstraint
  <1>5. \A c \in containment :
            level <= Constraint("incident_containment_authority", c).ceiling
      BY <1>2 DEF ContainmentConstraint
  <1>6. level = EffectiveAuthorityUnderContainment(in, channel, containment)
      BY DEF EffectiveAuthorityUnderContainment
  <1> HIDE DEF level
  <1> QED
      BY <1>2, <1>3, <1>4, <1>5, <1>6 DEF Constraint

\* A deletion has the authority it needs only for a target that no notice
\* contains, that nothing uses, protects or could not read, whose knowledge
\* was observed, on a channel that may delete (SI-001, SI-004, SI-006, SI-020,
\* SI-022, SI-030): any single doubt is enough to withhold it.
THEOREM DeletionNeedsEveryCeiling ==
    ASSUME NEW in \in Inputs, NEW channel \in Channels,
           NEW containment \in Containments,
           EffectiveAuthorityUnderContainment(in, channel, containment)
               >= MinimumAuthorityFor("delete")
    PROVE  /\ in.requested >= Govern /\ in.artifact >= Govern
           /\ in.confidence \in {"verified", "observed"}
           /\ in.activity \in {"idle", "stale", "orphaned"}
           /\ in.protection = "normal"
           /\ in.integrity = "healthy"
           /\ in.trust \in {"community_verified", "builtin_verified"}
           /\ channel \in {"stable", "beta"}
           /\ containment = {}
  <1> DEFINE level == EffectiveAuthorityUnderContainment(in, channel, containment)
  <1>1. level >= 3 /\ level \in Nat
      BY EachInputBinds DEF MinimumAuthorityFor, Govern, Levels, Observe, Autopilot
  <1>2. /\ level <= in.requested
        /\ level <= in.artifact
        /\ level <= ConfidenceCeiling(in.confidence)
        /\ level <= LifecycleCeiling(in.activity, in.protection, in.integrity)
        /\ level <= ProviderTrustCeiling(in.trust)
        /\ level <= ReleaseChannelCeiling(channel)
        /\ \A c \in containment : level <= c
      BY EachInputBinds
  <1> HIDE DEF level
  <1>3. in.requested >= Govern /\ in.artifact >= Govern
      BY <1>1, <1>2 DEF Govern, Inputs, Levels, Observe, Autopilot
  <1>4. in.confidence \in {"verified", "observed"}
      BY <1>1, <1>2 DEF ConfidenceCeiling, Inputs, Confidences, Recommend,
                        Quarantine, Govern, Autopilot
  <1>5. /\ in.activity \notin {"active", "unknown"}
        /\ in.protection \notin {"pinned", "protected"}
        /\ in.integrity \notin {"partial", "corrupted", "unknown"}
      BY <1>1, <1>2 DEF LifecycleCeiling, Recommend, Autopilot
  <1>6. in.trust \in {"community_verified", "builtin_verified"}
      BY <1>1, <1>2 DEF ProviderTrustCeiling, Inputs, Trusts, Observe, Quarantine,
                        Govern, Autopilot
  <1>7. channel \in {"stable", "beta"}
      BY <1>1, <1>2 DEF ReleaseChannelCeiling, Channels, Recommend, Govern, Autopilot
  <1>8. containment = {}
      BY <1>1, <1>2 DEF Containments, Observe, Recommend
  <1>9. /\ in.activity \in Activities /\ in.protection \in Protections
        /\ in.integrity \in Integrities
      BY DEF Inputs
  <1> QED
      BY <1>3, <1>4, <1>5, <1>6, <1>7, <1>8, <1>9 DEF Activities, Protections,
         Integrities

\* A channel, a notice or an unrecognised layout never gives an action more
\* authority than its own facts do, and an unrecognised layout leaves none.
THEOREM LaterCeilingsOnlyLower ==
    ASSUME NEW in \in Inputs, NEW channel \in Channels,
           NEW containment \in Containments
    PROVE  /\ EffectiveAuthorityUnderContainment(in, channel, containment)
                <= EffectiveAuthorityForChannel(in, channel)
           /\ EffectiveAuthorityForChannel(in, channel) <= EffectiveAuthority(in)
           /\ ResolveProviderExecutionAuthority(in, FALSE) = Observe
  <1> DEFINE B == BaseConstraints(in)
             K == B \cup ChannelConstraint(channel)
             U == K \cup ContainmentConstraint(containment)
             L == B \cup LayoutConstraint(FALSE)
  <1>1. /\ B # {} /\ Ceilings(B) \subseteq Levels /\ Ceilings(K) \subseteq Levels
        /\ Ceilings(U) \subseteq Levels /\ Ceilings(L) \subseteq Levels
      BY CeilingsAreLevels, FALSE \in BOOLEAN DEF Ceilings
  <1>2. EffectiveLevel(U) <= EffectiveLevel(K)
      BY <1>1, MoreConstraintsNeverRaise
  <1>3. EffectiveLevel(K) <= EffectiveLevel(B)
      BY <1>1, MoreConstraintsNeverRaise
  <1>4. EffectiveLevel(L) = Observe
    <2>1. Constraint("provider_capability_authority", Observe) \in L
        BY DEF LayoutConstraint
    <2>2. EffectiveLevel(L) \in Levels
          /\ EffectiveLevel(L) <= Constraint("provider_capability_authority",
                                             Observe).ceiling
        BY <1>1, <2>1, EffectiveLevelIsLowest
    <2> HIDE DEF L
    <2> QED
        BY <2>2 DEF Constraint, Levels, Observe, Autopilot
  <1> QED
      BY <1>2, <1>3, <1>4 DEF EffectiveAuthorityUnderContainment,
         EffectiveAuthorityForChannel, EffectiveAuthority,
         ResolveProviderExecutionAuthority

=============================================================================
