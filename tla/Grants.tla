-------------------------------- MODULE Grants --------------------------------
(***************************************************************************)
(* What is accepted from elsewhere because somebody trusted signed it.     *)
(*                                                                         *)
(*   remote_execution.rs  verify_remote_execution_request,                 *)
(*                        RemoteExecutionLog::verify_and_record            *)
(*   knowledge_bundle.rs  verify_bundle, KnowledgeStore::apply, rollback   *)
(*   trust_promotion.rs   promote                                          *)
(*                                                                         *)
(* Signatures are what they promise: only what its signer signed verifies. *)
(* Messages arrive late, repeated, out of order, altered, or never; clocks *)
(* advance and the files that say who is trusted are edited in between.    *)
(***************************************************************************)
EXTENDS Authority, Sequences

CONSTANTS
    Controllers,   \* who may send requests
    Here,          \* the machine that verifies them
    Requests,      \* the requests they may sign
    Publishers,    \* of knowledge bundles
    PromotedTo,    \* the tiers their promotion is asked for
    MaxSequence,   \* bound on the numbers of those
    MaxClock       \* bound on time

ASSUME GrantsAssumption ==
    /\ \A q \in Requests :
          q.controller \in Controllers /\ q.sequence \in Nat /\ q.action \in ActionClasses
    /\ PromotedTo \subseteq Trusts
    /\ {MaxSequence, MaxClock} \subseteq Nat

VARIABLES
    clock,
    controllers,  \* the authority ceiling of each trusted controller
    signedBy,     \* requests the controllers have signed
    last,         \* RemoteExecutionLog: the last sequence of each controller
    accepted,     \* history: the intents verified, for each controller
    verdict,      \* what the last call said of its request
    publishers,   \* the tier of each trusted publisher
    current, previous,  \* KnowledgeStore: at most one bundle each
    withdrawn,    \* history: the bundles rolled back from since the last one came
    knowledge     \* what the last call on the store said

remoteVars    == <<controllers, signedBy, last, accepted, verdict>>
knowledgeVars == <<publishers, current, previous, withdrawn, knowledge>>
grantsVars    == <<clock, remoteVars, knowledgeVars>>

-----------------------------------------------------------------------------
(* A message and what may be wrong with it, in the order it is looked for. *)

Flaws == {"none", "schema", "digest", "encoding", "signature"}

\* expires = 0: never.
Expired(m) == m.expires # 0 /\ clock >= m.expires

Bundles == [publisher : Publishers, sequence : 0 .. MaxSequence, expires : {0, MaxClock}]

\* verify_remote_execution_request
VerifyRequest(q, flaw) ==
    IF flaw = "schema" THEN "unsupported_schema_version"
    ELSE IF q.controller \notin DOMAIN controllers THEN "unknown_controller"
    ELSE IF flaw = "digest" THEN "content_digest_mismatch"
    ELSE IF flaw = "encoding" THEN "malformed_signature"
    ELSE IF flaw = "signature" THEN "invalid_signature"
    ELSE IF q.target # Here THEN "target_mismatch"
    ELSE IF Expired(q) THEN "expired"
    ELSE IF MinimumAuthorityFor(q.action) > controllers[q.controller]
         THEN "requested_action_exceeds_ceiling"
    ELSE "verified"

\* verify_bundle
VerifyBundle(b, flaw) ==
    IF flaw = "schema" THEN "unsupported_schema_version"
    ELSE IF b.publisher \notin DOMAIN publishers THEN "unknown_signer"
    ELSE IF flaw = "digest" THEN "content_digest_mismatch"
    ELSE IF flaw = "encoding" THEN "malformed_signature"
    ELSE IF flaw = "signature" THEN "invalid_signature"
    ELSE IF Expired(b) THEN "expired"
    ELSE "verified"

-----------------------------------------------------------------------------
(* Trust.                                                                  *)

Tiers == <<"untrusted", "local_custom", "community_verified", "builtin_verified">>
Rank(tier) == CHOOSE n \in DOMAIN Tiers : Tiers[n] = tier

\* promote: only upwards, and only with a verifier and a fixture.
Promote(from, to, verified, fixtures) ==
    IF Rank(to) <= Rank(from) \/ ~verified \/ ~fixtures THEN from ELSE to

-----------------------------------------------------------------------------
With(f, k, v)  == [x \in DOMAIN f \cup {k} |-> IF x = k THEN v ELSE f[x]]
WithoutKey(f, k) == [x \in DOMAIN f \ {k} |-> f[x]]
NoBundle == [publisher |-> "none", sequence |-> 0, expires |-> 0, tier |-> "untrusted"]
Installed0 == [publisher : Publishers, sequence : 0 .. MaxSequence, expires : {0, MaxClock},
               tier : Trusts] \cup {NoBundle}

GrantsTypeOK ==
    /\ clock \in 0 .. MaxClock
    /\ DOMAIN controllers \subseteq Controllers
    /\ \A c \in DOMAIN controllers : controllers[c] \in Levels
    /\ signedBy \subseteq Requests
    /\ DOMAIN last \subseteq Controllers /\ \A c \in DOMAIN last : last[c] \in Nat
    /\ \A c \in Controllers : accepted[c] \in Seq(Requests)
    /\ \A p \in DOMAIN publishers : publishers[p] \in Trusts
    /\ {current, previous} \cup withdrawn \subseteq Installed0

GrantsInit ==
    /\ clock = 0
    /\ controllers \in [Controllers -> {Quarantine, Govern}] /\ signedBy = {}
    /\ last = <<>> /\ accepted = [c \in Controllers |-> <<>>] /\ verdict = "none"
    /\ publishers = [p \in Publishers |-> "untrusted"]
    /\ current = NoBundle /\ previous = NoBundle /\ withdrawn = {} /\ knowledge = "none"

(* Remote requests. *)

\* A controller numbers what it signs.
Sign(q) ==
    /\ \A o \in signedBy : o.controller = q.controller => o.sequence < q.sequence
    /\ signedBy' = signedBy \cup {q}
    /\ UNCHANGED <<controllers, last, accepted, verdict>>

\* verify_and_record: what fails is not recorded.
VerifyAndRecord(q, flaw) ==
    LET outcome == VerifyRequest(q, flaw)
        stale == q.controller \in DOMAIN last /\ q.sequence <= last[q.controller]
    IN  IF outcome = "verified" /\ ~stale
        THEN /\ verdict' = "verified"
             /\ last' = With(last, q.controller, q.sequence)
             /\ accepted' = [accepted EXCEPT ![q.controller] = Append(@, q)]
        ELSE /\ verdict' = IF outcome = "verified" THEN "stale" ELSE outcome
             /\ UNCHANGED <<last, accepted>>

Receive ==
    /\ \/ \E q \in signedBy : VerifyAndRecord(q, "none")
       \/ \E q \in Requests, flaw \in Flaws \ {"none"} : VerifyAndRecord(q, flaw)
    /\ UNCHANGED <<controllers, signedBy>>

EditControllers(c) ==
    /\ \/ controllers' = WithoutKey(controllers, c)
       \/ \E ceiling \in {Quarantine, Govern} : controllers' = With(controllers, c, ceiling)
    /\ UNCHANGED <<signedBy, last, accepted, verdict>>

RemoteStep ==
    \/ \E q \in Requests : Sign(q)
    \/ Receive
    \/ \E c \in Controllers : EditControllers(c)

(* Knowledge. *)

ApplyBundle(b, flaw) ==
    LET outcome == VerifyBundle(b, flaw)
        stale == current.publisher = b.publisher /\ b.sequence <= current.sequence
    IN  IF outcome = "verified" /\ ~stale
        THEN /\ knowledge' = "verified"
             /\ previous' = current /\ withdrawn' = {}
             /\ current' = [publisher |-> b.publisher, sequence |-> b.sequence,
                            expires |-> b.expires, tier |-> publishers[b.publisher]]
        ELSE /\ knowledge' = IF outcome = "verified" THEN "stale" ELSE outcome
             /\ UNCHANGED <<current, previous, withdrawn>>

\* Mutant of RollbackBundle: the two change places.
RollbackBySwapping ==
    IF previous = NoBundle \/ Expired(previous)
    THEN /\ knowledge' = IF previous = NoBundle THEN "no_prior_bundle" ELSE "expired"
         /\ UNCHANGED <<current, previous, withdrawn>>
    ELSE /\ knowledge' = "verified"
         /\ current' = previous /\ previous' = current
         /\ withdrawn' = withdrawn \cup {current}

RollbackBundle ==
    IF previous = NoBundle \/ Expired(previous)
    THEN /\ knowledge' = IF previous = NoBundle THEN "no_prior_bundle" ELSE "expired"
         /\ UNCHANGED <<current, previous, withdrawn>>
    ELSE /\ knowledge' = "verified"
         /\ current' = previous /\ previous' = NoBundle
         /\ withdrawn' = withdrawn \cup {current}

EditPublishers(p) ==
    /\ \/ publishers' = WithoutKey(publishers, p)
       \/ publishers' = With(publishers, p, "untrusted")
       \/ /\ p \in DOMAIN publishers
          /\ \E to \in PromotedTo, verified, fixtures \in BOOLEAN :
                publishers' = With(publishers, p, Promote(publishers[p], to, verified, fixtures))
    /\ UNCHANGED <<current, previous, withdrawn, knowledge>>

KnowledgeStep ==
    \/ /\ (\E b \in Bundles, flaw \in Flaws : ApplyBundle(b, flaw)) \/ RollbackBundle
       /\ UNCHANGED publishers
    \/ \E p \in Publishers : EditPublishers(p)

Tick == clock < MaxClock /\ clock' = clock + 1

GrantsNext ==
    \/ RemoteStep /\ UNCHANGED <<clock, knowledgeVars>>
    \/ KnowledgeStep /\ UNCHANGED <<clock, remoteVars>>
    \/ Tick /\ UNCHANGED <<remoteVars, knowledgeVars>>

GrantsSpec == GrantsInit /\ [][GrantsNext]_grantsVars

-----------------------------------------------------------------------------
(* Properties.                                                             *)

\* However requests are delayed, repeated, reordered or altered, and whoever is
\* trusted meanwhile (verify_and_record): an intent is accepted once, in the
\* order its controller numbered it, as it was signed and for this machine; and
\* what is refused takes no number from what is still to come.  A bundle that
\* was rolled back from (KnowledgeStore::rollback) does not come back by rolling
\* back again, whatever was refused in between.
AcceptedOnce ==
    /\ \A c \in Controllers :
          LET taken == accepted[c] IN
          /\ \A m, n \in DOMAIN taken : m < n => taken[m].sequence < taken[n].sequence
          /\ \A n \in DOMAIN taken : taken[n] \in signedBy /\ taken[n].target = Here
          /\ IF taken = <<>> THEN c \notin DOMAIN last
             ELSE c \in DOMAIN last /\ last[c] = taken[Len(taken)].sequence
    /\ current \notin withdrawn
=============================================================================
