---------------------------- MODULE CleanRunProofs ----------------------------
(***************************************************************************)
(* Proofs about Retention and CleanRun: what a scan may propose, whatever  *)
(* it found, and what a run may remove and report, for all sessions, trees,*)
(* flags and surroundings, and however often it is killed and run again.   *)
(***************************************************************************)
EXTENDS CleanRun, AuthorityProofs, Sequences, WellFoundedInduction,
        FiniteSetTheorems

-----------------------------------------------------------------------------
(* The sessions of a scan.                                                 *)

\* classify gives every session facts that the authority rules accept.
LEMMA ClassifiedFacts ==
    ASSUME NEW sc \in Scans, NEW s \in Sessions
    PROVE  Classify(sc, s) \in Inputs
  <1>1. ActivityOf(sc, s) \in Activities
    <2>1. ProviderOf(s) \in Providers
        BY DEF ProviderOf, Providers
    <2>2. sc.active[ProviderOf(s)] \in BOOLEAN
        BY <2>1 DEF Scans
    <2> QED
        BY <2>2 DEF ActivityOf, Activities
  <1>2. ProtectionOf(sc, s) \in Protections
      BY DEF ProtectionOf, Protections
  <1>3. IntegrityOf(sc, s) \in Integrities
      BY DEF IntegrityOf, Integrities
  <1>4. ConfidenceOf(sc, s) \in Confidences
      BY DEF ConfidenceOf, Confidences
  <1>5. /\ Autopilot \in Levels /\ Observe \in Levels /\ Govern \in Levels
        /\ "builtin_verified" \in Trusts
      BY DEF Autopilot, Observe, Govern, Levels, Trusts
  <1> QED
      BY <1>1, <1>2, <1>3, <1>4, <1>5 DEF Classify, Inputs

\* What is proposed for deletion was observed, old, unused and unprotected in
\* its scan: the walk of its provider saw everything, no process was seen, it
\* stands behind no protected name, its tree is not among the latest kept, and
\* neither it nor its tree is inside the retention window (retention.rs
\* classify 685-856, build_actions 863-920).
THEOREM OnlyOldUnprotectedIsProposed ==
    ASSUME NEW sc \in Scans, NEW s \in Sessions,
           BuildActions(sc)[s] = "delete"
    PROVE  /\ s \in sc.found
           /\ sc.complete[ProviderOf(s)]
           /\ ~sc.active[ProviderOf(s)]
           /\ s \notin Shielded
           /\ RootIdFor(sc, s) \notin ProtectedRoots(sc, ProviderOf(s))
           /\ sc.seen[s] # 0 /\ sc.seen[s] < Cutoff
           /\ ~TreeRecent(sc, ProviderOf(s), RootIdFor(sc, s))
           /\ ~Dangling(sc, s)
  <1>1. s \in sc.found /\ Eligible(sc, s)
      BY DEF BuildActions
  <1>2. sc.complete[ProviderOf(s)] /\ ActivityOf(sc, s) = "stale"
      BY <1>1 DEF Eligible
  <1>3. ProtectionOf(sc, s) = "normal"
    <2> DEFINE in == Classify(sc, s)
    <2>1. in \in Inputs
        BY ClassifiedFacts
    <2>2. /\ {} \in Containments /\ "stable" \in Channels
          /\ EffectiveAuthorityUnderContainment(in, "stable", {})
                <= EffectiveAuthorityForChannel(in, "stable")
        BY <2>1, LaterCeilingsOnlyLower DEF Containments, Channels
    <2>3. Ceilings(BaseConstraints(in)) \subseteq Levels /\ BaseConstraints(in) # {}
        BY <2>1, <2>2, CeilingsAreLevels, TRUE \in BOOLEAN DEF Ceilings
    <2>4. /\ EffectiveLevel(BaseConstraints(in)) \in Levels
          /\ EffectiveLevel(BaseConstraints(in))
               <= Constraint("lifecycle_authority",
                    LifecycleCeiling(in.activity, in.protection, in.integrity)).ceiling
        BY <2>3, EffectiveLevelIsLowest DEF BaseConstraints
    <2>5. EffectiveLevel(BaseConstraints(in)) >= Govern
        BY <1>1 DEF Eligible, ReachableAuthority, EffectiveAuthority,
                    MinimumAuthorityFor
    <2>6. in.protection \notin {"pinned", "protected"}
        BY <2>4, <2>5 DEF Constraint, LifecycleCeiling, Govern, Recommend, Autopilot,
                          Levels, Observe
    <2> QED
        BY <2>1, <2>6 DEF Classify, Inputs, Protections
  <1>4. /\ s \notin Shielded
        /\ RootIdFor(sc, s) \notin ProtectedRoots(sc, ProviderOf(s))
      BY <1>3 DEF ProtectionOf
  <1>5. sc.active[ProviderOf(s)] \in BOOLEAN /\ sc.seen[s] \in Nat
      BY DEF Scans, ProviderOf, Providers
  <1>6. /\ ~sc.active[ProviderOf(s)] /\ sc.seen[s] # 0 /\ ~Dangling(sc, s)
        /\ sc.seen[s] < Cutoff
        /\ ~TreeRecent(sc, ProviderOf(s), RootIdFor(sc, s))
      BY <1>2, <1>5 DEF ActivityOf
  <1> QED
      BY <1>1, <1>2, <1>4, <1>6

-----------------------------------------------------------------------------
(* The order of a plan.                                                    *)

LEMMA LeastOfNumbers ==
    ASSUME NEW S \in SUBSET Nat, S # {}
    PROVE  Least(S) \in S /\ \A n \in S : Least(S) <= n
  <1>1. PICK i \in S : \A j \in S : <<j, i>> \notin OpToRel(<, Nat)
      BY NatLessThanWellFounded, WFMin
  <1>2. \A j \in S : ~(j < i)
      BY <1>1 DEF OpToRel
  <1>3. \E m \in S : \A n \in S : m <= n
      BY <1>2
  <1> QED
      BY <1>3 DEF Least

\* What comes next in plan order is one of those that are left.
LEMMA NextIsLeft ==
    ASSUME NEW sc, NEW provider, NEW S \in SUBSET Found(sc, provider), S # {}
    PROVE  NextInOrder(sc, provider, S) \in S
  <1> DEFINE roots == {RootIdFor(sc, s) : s \in S}
             first == CHOOSE r \in roots : \A q \in roots :
                          FirstOf(sc, provider, r) <= FirstOf(sc, provider, q)
  <1>1. Found(sc, provider) \subseteq Nat
      BY RetentionAssumption DEF Found, Of
  <1>2. \A s \in S : s \in Tree(sc, provider, RootIdFor(sc, s))
      BY DEF Tree
  <1>3. \A r \in roots : FirstOf(sc, provider, r) \in Nat
    <2> SUFFICES ASSUME NEW r \in roots PROVE FirstOf(sc, provider, r) \in Nat
        OBVIOUS
    <2>1. Tree(sc, provider, r) \in SUBSET Nat /\ Tree(sc, provider, r) # {}
        BY <1>1, <1>2 DEF Tree
    <2> QED
        BY <2>1, LeastOfNumbers DEF FirstOf
  <1>4. \E r \in roots : \A q \in roots : FirstOf(sc, provider, r) <= FirstOf(sc, provider, q)
    <2> DEFINE numbers == {FirstOf(sc, provider, r) : r \in roots}
    <2>1. numbers \in SUBSET Nat /\ numbers # {}
        BY <1>3
    <2>2. Least(numbers) \in numbers /\ \A n \in numbers : Least(numbers) <= n
        BY <2>1, LeastOfNumbers
    <2> QED
        BY <2>2
  <1>5. first \in roots
      BY <1>4
  <1>6. PICK s \in S : first = RootIdFor(sc, s)
      BY <1>5
  <1> HIDE DEF first
  <1>7. S \cap Tree(sc, provider, first) \in SUBSET Nat /\ S \cap Tree(sc, provider, first) # {}
      BY <1>1, <1>2, <1>6
  <1>8. Least(S \cap Tree(sc, provider, first)) \in S
      BY <1>7, LeastOfNumbers
  <1> QED
      BY <1>8 DEF NextInOrder, first

LEMMA CurrentIsToDo ==
    ASSUME todo \subseteq scan.found, scan.found \subseteq Sessions, todo # {}
    PROVE  Current \in todo /\ Current \in Sessions
  <1> DEFINE p == IF todo \cap Claude # {} THEN "claude-code" ELSE "codex-cli"
  <1>1. todo \cap Of(p) # {} /\ todo \cap Of(p) \subseteq Found(scan, p)
      BY DEF Of, Found, Sessions
  <1>2. NextInOrder(scan, p, todo \cap Of(p)) \in todo \cap Of(p)
      BY <1>1, NextIsLeft
  <1> QED
      BY <1>2 DEF Current

-----------------------------------------------------------------------------
(* Types.                                                                  *)

LEMMA EmptyScanIsAScan ==
    ASSUME flags \in Flags
    PROVE  EmptyScan \in Scans
  BY DEF EmptyScan, Scans, Flags

LEMMA ProviderOfASession ==
    ASSUME NEW s \in Sessions
    PROVE  ProviderOf(s) \in Providers /\ s \in Of(ProviderOf(s))
  BY DEF ProviderOf, Providers, Of, Sessions

LEMMA ScanStaysTyped ==
    ASSUME TypeOK, ClaudeDiscover \/ ClaudeProcess \/ CodexDiscover \/ CodexProcess \/ ObserveMtime
    PROVE  scan' \in Scans /\ unread' \subseteq Codex /\ pc' \in Steps
  <1>1. /\ scan \in Scans /\ disk \in [Sessions -> Nat] /\ unread \subseteq Codex
        /\ parent \in [Sessions -> Sessions \cup {0}] /\ running \in [Providers -> BOOLEAN]
      BY CleanAssumption DEF TypeOK
  <1>2. \A p \in Providers : \A d \in Discovered(p) :
            d[1] \in BOOLEAN /\ d[2] \subseteq Of(p) /\ d[2] \subseteq Sessions
    <2> SUFFICES ASSUME NEW p \in Providers, NEW d \in Discovered(p)
                 PROVE  d[1] \in BOOLEAN /\ d[2] \subseteq Of(p) /\ d[2] \subseteq Sessions
        OBVIOUS
    <2>1. \E b \in BOOLEAN, found \in SUBSET Of(p) : d = <<b, found>>
        BY DEF Discovered
    <2>2. Of(p) \subseteq Sessions
        BY DEF Of, Sessions
    <2> QED
        BY <2>1, <2>2
  <1>3. CASE ClaudeDiscover
    <2>1. "claude-code" \in Providers
        BY DEF Providers
    <2>2. CASE "claude-code" \in flags.scope
      <3>1. PICK d \in Discovered("claude-code") :
                scan' = [scan EXCEPT
                     !.found = d[2],
                     !.complete["claude-code"] = d[1],
                     !.seen = [s \in Sessions |-> IF s \in d[2] THEN disk[s] ELSE 0]]
          BY <1>3, <2>2 DEF ClaudeDiscover
      <3>2. [s \in Sessions |-> IF s \in d[2] THEN disk[s] ELSE 0] \in [Sessions -> Nat]
          BY <1>1
      <3>3. scan' \in Scans
          BY <1>1, <1>2, <2>1, <3>1, <3>2 DEF Scans
      <3> QED
          BY <1>1, <1>3, <3>3 DEF ClaudeDiscover, Steps
    <2>3. CASE "claude-code" \notin flags.scope
        BY <1>1, <1>3, <2>3 DEF ClaudeDiscover, Steps
    <2> QED
        BY <2>2, <2>3
  <1>4. CASE CodexDiscover
    <2>1. "codex-cli" \in Providers /\ Of("codex-cli") = Codex
        BY DEF Providers, Of
    <2>2. CASE "codex-cli" \in flags.scope
      <3>1. PICK d \in Discovered("codex-cli") :
                /\ scan' = [scan EXCEPT
                        !.found = @ \cup d[2],
                        !.complete["codex-cli"] = d[1],
                        !.parent = [s \in Sessions |-> IF s \in d[2] THEN parent[s] ELSE 0]]
                /\ unread' = d[2]
          BY <1>4, <2>2 DEF CodexDiscover
      <3>2. [s \in Sessions |-> IF s \in d[2] THEN parent[s] ELSE 0]
                \in [Sessions -> Sessions \cup {0}]
          BY <1>1
      <3>3. scan' \in Scans
          BY <1>1, <1>2, <2>1, <3>1, <3>2 DEF Scans
      <3> QED
          BY <1>2, <1>4, <2>1, <2>2, <3>1, <3>3 DEF CodexDiscover, Steps
    <2>3. CASE "codex-cli" \notin flags.scope
        BY <1>1, <1>4, <2>3 DEF CodexDiscover, Steps
    <2> QED
        BY <2>2, <2>3
  <1>5. CASE ClaudeProcess \/ CodexProcess
    <2>1. PICK p \in Providers, a \in BOOLEAN :
              scan' = [scan EXCEPT !.active[p] = a] /\ unread' = unread
              /\ pc' \in {"codex-discover", "codex-times"}
        BY <1>1, <1>5 DEF ClaudeProcess, CodexProcess, ObserveProcess, ProcessActive, Providers
    <2> QED
        BY <1>1, <2>1 DEF Scans, Steps
  <1>6. CASE ObserveMtime
    <2>1. CASE unread = {}
        BY <1>1, <1>6, <2>1 DEF ObserveMtime, Steps
    <2>2. CASE unread # {}
      <3> DEFINE s == NextInOrder(scan, "codex-cli", unread)
      <3>1. PICK readable \in BOOLEAN :
                scan' = [scan EXCEPT !.seen[s] = IF readable THEN disk[s] ELSE 0]
          BY <1>6, <2>2 DEF ObserveMtime
      <3>2. s \in Sessions => disk[s] \in Nat
          BY <1>1
      <3> HIDE DEF s
      <3>3. scan' \in Scans
          BY <1>1, <3>1, <3>2 DEF Scans
      <3> QED
          BY <1>1, <1>6, <2>2, <3>3 DEF ObserveMtime, Steps
    <2> QED
        BY <2>1, <2>2
  <1> QED
      BY <1>3, <1>4, <1>5, <1>6

-----------------------------------------------------------------------------
(* The invariant of the runs.                                              *)

Scanning  == {"claude-discover", "claude-process", "codex-discover", "codex-process",
              "codex-times", "plan"}
Executing == {"next", "recheck", "delete"}
Planned   == {"prompt", "roots", "exited"} \cup Executing

Gone(s) == \E x \in removed : x.session = s /\ x.run = runs
Wanted  == {s \in scan.found : Eligible(scan, s)}

\* What has been planned is about what the scan found; nothing that was not
\* wanted is deleted, and it is known whether something wanted is withheld.
PlanHolds ==
    pc \in Planned =>
        /\ \A s \in Sessions : action[s] # "none" <=> s \in scan.found
        /\ Deletions \subseteq Wanted
        /\ withheld = FALSE => Wanted \subseteq Deletions
                               /\ \A p \in Providers : scan.complete[p]
        /\ withheld = TRUE => (\E s \in Wanted : s \notin Deletions)
                              \/ \E p \in Providers : ~scan.complete[p]

\* What is executed was consented to.
Consented == pc \in Executing \cup {"roots"} => Deletions \subseteq owed /\ ~flags.dryRun

\* Before the execution, nothing was done in this run.
NothingDone ==
    pc \in Scanning \cup {"prompt", "roots"} =>
        \A s \in Sessions : outcome[s] = "none" /\ ~Gone(s)

\* Each action is to do, or has the result of what was done.
Executed ==
    /\ pc \in Executing =>
          \A s \in Sessions :
              /\ s \in todo => action[s] # "none" /\ outcome[s] = "none"
              /\ action[s] # "none" => s \in todo \/ outcome[s] # "none"
    /\ pc \in Executing \cup {"exited"} =>
          \A s \in Sessions :
              /\ outcome[s] = "succeeded" <=> Gone(s)
              /\ outcome[s] \in {"succeeded", "failed"} => action[s] = "delete"
    /\ pc \in {"recheck", "delete"} => todo # {} /\ action[Current] = "delete"

\* No removal is of a run to come; each was of a session that was owed.
History ==
    \A x \in removed :
        /\ x.run <= runs
        /\ x.session \in owed \ Shielded
        /\ ~flags.dryRun
        /\ x.live => flags.allowRunning

Reported == ExitCodeTruth /\ (exit # NoExit => pc = "exited")

CInv == /\ TypeOK /\ PlanHolds /\ Consented /\ NothingDone /\ Executed /\ History
        /\ EvidenceForEachRemoval /\ Reported

\* What the surroundings leave alone.
ownVars == <<parent, flags, pc, planVars, execVars, exit, ghostVars>>

LEMMA SurroundingsLeave ==
    ASSUME TypeOK, Surroundings
    PROVE  /\ UNCHANGED ownVars
           /\ disk' \in [Sessions -> 0 .. Now] /\ changes' \in Nat
           /\ running' \in [Providers -> BOOLEAN] /\ contained' \in [Providers -> BOOLEAN]
  <1>1. CASE \E s \in Sessions : Written(s) \/ Vanished(s)
    <2>1. PICK s \in Sessions : Written(s) \/ Vanished(s)
        BY <1>1
    <2>2. Now \in 0 .. Now /\ 0 \in 0 .. Now /\ disk \in [Sessions -> 0 .. Now]
        BY CleanAssumption DEF TypeOK
    <2>3. disk' = [disk EXCEPT ![s] = Now] \/ disk' = [disk EXCEPT ![s] = 0]
        BY <2>1 DEF Written, Vanished
    <2>4. disk' \in [Sessions -> 0 .. Now]
        BY <2>2, <2>3
    <2>5. Around /\ running' = running /\ contained' = contained
        BY <2>1 DEF Written, Vanished
    <2>6. UNCHANGED ownVars /\ changes' = changes + 1
        BY <2>5 DEF Around, ownVars
    <2> QED
        BY <2>4, <2>5, <2>6 DEF TypeOK
  <1>2. CASE \E p \in Providers : StartedOrStopped(p) \/ NoticeInstalledOrLifted(p)
    <2>1. PICK p \in Providers : StartedOrStopped(p) \/ NoticeInstalledOrLifted(p)
        BY <1>2
    <2>2. running \in [Providers -> BOOLEAN] /\ contained \in [Providers -> BOOLEAN]
        BY DEF TypeOK
    <2>3. running' \in {running, [running EXCEPT ![p] = ~@]}
          /\ contained' \in {contained, [contained EXCEPT ![p] = ~@]}
        BY <2>1, Zenon DEF StartedOrStopped, NoticeInstalledOrLifted
    <2>4. running' \in [Providers -> BOOLEAN] /\ contained' \in [Providers -> BOOLEAN]
        BY <2>2, <2>3, Zenon
    <2>5. Around /\ disk' = disk
        BY <2>1, Zenon DEF StartedOrStopped, NoticeInstalledOrLifted
    <2>6. UNCHANGED ownVars /\ changes' = changes + 1
        BY <2>5 DEF Around, ownVars
    <2> QED
        BY <2>4, <2>5, <2>6 DEF TypeOK
  <1> QED
      BY <1>1, <1>2 DEF Surroundings

LEMMA UntouchedKeeps ==
    ASSUME CInv, UNCHANGED ownVars,
           disk' \in [Sessions -> 0 .. Now], changes' \in Nat,
           running' \in [Providers -> BOOLEAN], contained' \in [Providers -> BOOLEAN]
    PROVE  CInv'
  <1>1. /\ UNCHANGED <<parent, flags, pc, scan, unread, action, withheld, established, todo, outcome>>
        /\ UNCHANGED <<exit, runs, owed, removed, blind>>
      BY DEF ownVars, planVars, execVars, ghostVars
  <1>2. TypeOK'
      BY <1>1 DEF CInv, TypeOK
  <1>3. Deletions' = Deletions /\ Wanted' = Wanted /\ Current' = Current
      BY <1>1 DEF Deletions, Wanted, Current
  <1>4. \A s : Gone(s)' <=> Gone(s)
      BY <1>1 DEF Gone
  <1>5. PlanHolds' /\ Consented' /\ NothingDone' /\ Executed'
      BY <1>1, <1>3, <1>4 DEF CInv, PlanHolds, Consented, NothingDone, Executed
  <1>6. History' /\ EvidenceForEachRemoval' /\ Reported'
      BY <1>1 DEF CInv, History, EvidenceForEachRemoval, Reported, ExitCodeTruth
  <1> QED
      BY <1>2, <1>5, <1>6 DEF CInv

-----------------------------------------------------------------------------
(* The steps of a run.                                                     *)

LEMMA WantedIsOld ==
    ASSUME scan \in Scans, NEW s \in Wanted
    PROVE  /\ s \in Sessions \ Shielded
           /\ scan.complete[ProviderOf(s)] /\ ~scan.active[ProviderOf(s)]
           /\ scan.seen[s] \in 1 .. Cutoff - 1
  <1>1. s \in scan.found /\ Eligible(scan, s) /\ s \in Sessions
      BY DEF Wanted, Scans
  <1>2. BuildActions(scan)[s] = "delete"
      BY <1>1 DEF BuildActions
  <1>3. scan.seen[s] \in Nat /\ Cutoff \in Nat
      BY <1>1, RetentionAssumption DEF Scans
  <1> QED
      BY <1>1, <1>2, <1>3, OnlyOldUnprotectedIsProposed

LEMMA NoExitIsNone == NoExit \notin {0, 1, 3, 4}
  BY DEF NoExit

LEMMA ScanningKeeps ==
    ASSUME CInv, ClaudeDiscover \/ ClaudeProcess \/ CodexDiscover \/ CodexProcess \/ ObserveMtime
    PROVE  CInv'
  <1>1. pc \in Scanning /\ pc' \in Scanning
      BY DEF ClaudeDiscover, ClaudeProcess, CodexDiscover, CodexProcess, ObserveProcess,
         ObserveMtime, Scanning
  <1>2. UNCHANGED <<aroundVars, flags, action, withheld, execVars, exit, runs, owed, removed>>
        /\ blind' \in BOOLEAN
    <2>1. CASE ObserveMtime
      <3>1. blind \in BOOLEAN
          BY DEF CInv, TypeOK
      <3>2. CASE unread = {}
          BY <2>1, <3>1, <3>2 DEF ObserveMtime
      <3>3. CASE unread # {}
        <4>1. PICK readable \in BOOLEAN : blind' = (blind \/ ~readable)
            BY <2>1, <3>3, Zenon DEF ObserveMtime
        <4> QED
            BY <2>1, <4>1 DEF ObserveMtime
      <3> QED
          BY <3>2, <3>3
    <2>2. CASE ~ObserveMtime
        BY <2>2 DEF ClaudeDiscover, ClaudeProcess, CodexDiscover, CodexProcess, ObserveProcess,
           ghostVars, CInv, TypeOK
    <2> QED
        BY <2>1, <2>2
  <1>3. /\ UNCHANGED <<disk, parent, running, contained, changes, flags, action, withheld>>
        /\ UNCHANGED <<established, todo, outcome, exit, runs, owed, removed>>
      BY <1>2 DEF aroundVars, execVars
  <1>4. TypeOK'
    <2>1. scan' \in Scans /\ unread' \subseteq Codex /\ pc' \in Steps
        BY ScanStaysTyped DEF CInv
    <2> QED
        BY <1>2, <1>3, <2>1 DEF CInv, TypeOK
  <1>5. \A s : Gone(s)' <=> Gone(s)
      BY <1>3 DEF Gone
  <1>6. PlanHolds' /\ Consented' /\ Executed'
      BY <1>1 DEF PlanHolds, Consented, Executed, Scanning, Planned, Executing
  <1>7. NothingDone'
      BY <1>1, <1>3, <1>5 DEF CInv, NothingDone
  <1>8. History'
      BY <1>3 DEF CInv, History
  <1>9. EvidenceForEachRemoval'
    <2>1. \A x \in removed : x.run # runs
        BY <1>1 DEF CInv, NothingDone, History, Gone, TypeOK
    <2> QED
        BY <1>3, <2>1 DEF CInv, EvidenceForEachRemoval
  <1>10. Reported'
    <2>1. exit' = NoExit
        BY <1>1, <1>3 DEF CInv, Reported, Scanning
    <2> QED
        BY <2>1, NoExitIsNone DEF Reported, ExitCodeTruth
  <1> QED
      BY <1>4, <1>6, <1>7, <1>8, <1>9, <1>10 DEF CInv

LEMMA PlanningKeeps ==
    ASSUME CInv, Plan
    PROVE  CInv'
  <1>1. /\ pc = "plan" /\ pc' = "prompt"
        /\ UNCHANGED <<aroundVars, flags, scan, unread, execVars, exit, ghostVars>>
      BY DEF Plan
  <1>2. /\ UNCHANGED <<disk, parent, running, contained, changes, flags, scan, unread>>
        /\ UNCHANGED <<established, todo, outcome, exit, runs, owed, removed, blind>>
      BY <1>1 DEF aroundVars, execVars, ghostVars
  <1>3. scan \in Scans /\ scan.found \subseteq Sessions
      BY DEF CInv, TypeOK, Scans
  <1> DEFINE proposed == BuildActions(scan)
  <1>4. /\ proposed \in [Sessions -> {"none", "observe", "delete"}]
        /\ \A s \in Sessions : proposed[s] # "none" <=> s \in scan.found
        /\ \A s \in Sessions : proposed[s] = "delete" <=> s \in Wanted
      BY <1>3 DEF BuildActions, Wanted
  <1>5. /\ \A s \in Sessions : action'[s] \in {proposed[s], "observe"}
        /\ \A s \in Sessions : action'[s] # proposed[s] => proposed[s] = "delete"
        /\ action' \in [Sessions -> {"none", "observe", "delete"}]
        /\ withheld' = WithholdsSomething(proposed, action')
    <2>1. PICK readable \in BOOLEAN :
              LET allowed(s) == /\ flags.isDefault[ProviderOf(s)]
                                /\ Authorised(s, Ledger(readable, ProviderOf(s)))
                  final      == [s \in Sessions |->
                                   IF proposed[s] = "delete" /\ ~allowed(s)
                                   THEN "observe"
                                   ELSE proposed[s]]
              IN  action' = final /\ withheld' = WithholdsSomething(proposed, final)
        BY DEF Plan
    <2> HIDE DEF proposed
    <2> QED
        BY <1>4, <2>1
  <1> HIDE DEF proposed
  <1>6. /\ withheld' \in BOOLEAN
        /\ withheld' = TRUE <=> ((\E p \in Providers : ~scan.complete[p]) \/ action' # proposed)
      BY <1>5 DEF WithholdsSomething
  <1>7. Wanted' = Wanted
      BY <1>2 DEF Wanted
  <1>8. \A s \in Sessions : (s \in Deletions' <=> action'[s] = "delete")
      BY DEF Deletions
  <1>9. Deletions' \subseteq Sessions /\ Wanted \subseteq Sessions
      BY <1>3 DEF Deletions, Wanted
  <1>10. PlanHolds'
    <2>1. \A s \in Sessions : action'[s] # "none" <=> s \in scan.found
        BY <1>4, <1>5
    <2>2. Deletions' \subseteq Wanted
        BY <1>4, <1>5, <1>8, <1>9
    <2>3. ASSUME withheld' = FALSE
          PROVE  Wanted \subseteq Deletions' /\ \A p \in Providers : scan.complete[p]
        BY <1>4, <1>6, <1>8, <1>9, <2>3
    <2>4. ASSUME withheld' = TRUE
          PROVE  (\E s \in Wanted : s \notin Deletions') \/ \E p \in Providers : ~scan.complete[p]
      <3>1. CASE action' # proposed
        <4>1. PICK s \in Sessions : action'[s] # proposed[s]
            BY <1>4, <1>5, <3>1
        <4> QED
            BY <1>4, <1>5, <1>8, <4>1
      <3> QED
          BY <1>6, <2>4, <3>1
    <2> QED
        BY <1>2, <1>7, <2>1, <2>2, <2>3, <2>4 DEF PlanHolds
  <1>11. TypeOK'
    <2>1. pc' \in Steps /\ action' \in [Sessions -> {"none", "observe", "delete"}]
          /\ withheld' \in BOOLEAN
        BY <1>1, <1>5, <1>6 DEF Steps
    <2> QED
        BY <1>2, <2>1 DEF CInv, TypeOK
  <1>12. \A s : Gone(s)' <=> Gone(s)
      BY <1>2 DEF Gone
  <1>13. Consented' /\ Executed'
      BY <1>1 DEF Consented, Executed, Executing
  <1>14. NothingDone'
      BY <1>1, <1>2, <1>12 DEF CInv, NothingDone, Scanning
  <1>15. History' /\ EvidenceForEachRemoval'
      BY <1>1, <1>2 DEF CInv, History, EvidenceForEachRemoval
  <1>16. Reported'
    <2>1. exit' = NoExit
        BY <1>1, <1>2 DEF CInv, Reported
    <2> QED
        BY <2>1, NoExitIsNone DEF Reported, ExitCodeTruth
  <1> QED
      BY <1>10, <1>11, <1>13, <1>14, <1>15, <1>16 DEF CInv

\* The end of a run, and what its report says.
LEMMA PromptKeeps ==
    ASSUME CInv, Prompt
    PROVE  CInv'
  <1>1. /\ pc = "prompt"
        /\ UNCHANGED <<aroundVars, flags, planVars, execVars, runs, removed, blind>>
      BY DEF Prompt
  <1>2. /\ UNCHANGED <<disk, parent, running, contained, changes, flags, scan, unread, action>>
        /\ UNCHANGED <<withheld, established, todo, outcome, runs, removed, blind>>
      BY <1>1 DEF aroundVars, planVars, execVars
  <1>3. Deletions' = Deletions /\ Wanted' = Wanted /\ \A s : Gone(s)' <=> Gone(s)
      BY <1>2 DEF Deletions, Wanted, Gone
  <1>4. /\ Deletions \subseteq Sessions /\ Deletions \subseteq Wanted /\ scan.found \subseteq Sessions
        /\ withheld \in BOOLEAN
        /\ withheld = FALSE => Wanted \subseteq Deletions
                               /\ \A p \in Providers : scan.complete[p]
        /\ withheld = TRUE => (\E s \in Wanted : s \notin Deletions)
                              \/ \E p \in Providers : ~scan.complete[p]
      BY <1>1 DEF CInv, PlanHolds, Planned, Deletions, TypeOK, Scans
  <1>5. \A s \in Sessions : outcome[s] = "none" /\ ~Gone(s)
      BY <1>1 DEF CInv, NothingDone
  <1>6. Wanted \subseteq Sessions
      BY <1>4 DEF Wanted
  <1>7. \/ /\ Deletions = {} \/ flags.dryRun
           /\ pc' = "exited" /\ exit' = IF withheld = TRUE THEN 4 ELSE 0
           /\ owed' = owed
        \/ pc' = "exited" /\ exit' = 1 /\ owed' = owed
        \/ ~flags.dryRun /\ pc' = "roots" /\ owed' = owed \cup Deletions /\ exit' = exit
      BY <1>4 DEF Prompt, Exit
  <1>8. TypeOK'
    <2>1. pc' \in Steps /\ exit' \in ExitCodes /\ owed' \subseteq Sessions
        BY <1>4, <1>7 DEF CInv, TypeOK, Steps, ExitCodes
    <2> QED
        BY <1>2, <2>1 DEF CInv, TypeOK
  <1>9. PlanHolds'
      BY <1>1, <1>2, <1>3 DEF CInv, PlanHolds, Planned
  <1>10. Consented'
      BY <1>2, <1>3, <1>7 DEF Consented, Executing
  <1>11. NothingDone'
      BY <1>2, <1>3, <1>5 DEF NothingDone
  <1>12. Executed'
      BY <1>2, <1>3, <1>5, <1>7 DEF Executed, Executing
  <1>13. History' /\ EvidenceForEachRemoval'
    <2>1. owed \subseteq owed' /\ pc' # "killed"
        BY <1>7
    <2> QED
        BY <1>1, <1>2, <2>1 DEF CInv, History, EvidenceForEachRemoval
  <1>14. Reported'
    <2> DEFINE failures == {s \in Wanted : outcome[s] = "failed"}
    <2>1. failures = {}
        BY <1>5, <1>6
    <2>2. \A s \in Wanted : ~Gone(s)
        BY <1>5, <1>6
    <2>3. CASE exit' = 0
      <3>1. pc' = "exited" /\ withheld = FALSE /\ (Deletions = {} \/ flags.dryRun)
          BY <1>1, <1>4, <1>7, <2>3, NoExitIsNone DEF CInv, Reported
      <3>2. /\ \A p \in Providers : scan.complete[p]
            /\ \A s \in Wanted : flags.dryRun \/ Gone(s)
          BY <1>4, <3>1
      <3> QED
          BY <1>2, <2>3, <3>1, <3>2 DEF Reported, ExitCodeTruth, Wanted, Gone
    <2>4. CASE exit' = 1
      <3>1. pc' = "exited"
          BY <1>1, <1>7, <2>4, NoExitIsNone DEF CInv, Reported
      <3> QED
          BY <1>2, <2>2, <2>4, <3>1 DEF Reported, ExitCodeTruth, Wanted, Gone
    <2>5. CASE exit' = 4
      <3>1. pc' = "exited" /\ withheld = TRUE
          BY <1>1, <1>4, <1>7, <2>5, NoExitIsNone DEF CInv, Reported
      <3>2. (\E s \in Wanted : ~Gone(s)) \/ \E p \in Providers : ~scan.complete[p]
          BY <1>4, <2>2, <3>1
      <3> QED
          BY <1>2, <2>1, <2>5, <3>1, <3>2 DEF Reported, ExitCodeTruth, Wanted, Gone
    <2>6. CASE exit' = NoExit
      <3> QED
          BY <2>6, NoExitIsNone DEF Reported, ExitCodeTruth
    <2>7. exit' \in {0, 1, 4, NoExit}
        BY <1>1, <1>7 DEF CInv, Reported
    <2> QED
        BY <2>3, <2>4, <2>5, <2>6, <2>7
  <1> QED
      BY <1>8, <1>9, <1>10, <1>11, <1>12, <1>13, <1>14 DEF CInv

LEMMA RootsKeep ==
    ASSUME CInv, EstablishRoots
    PROVE  CInv'
  <1>1. /\ pc = "roots" /\ pc' = "next" /\ established' \in SUBSET Providers
        /\ todo' = {s \in Sessions : action[s] # "none"}
        /\ UNCHANGED <<disk, parent, running, contained, changes, flags, scan, unread, action>>
        /\ UNCHANGED <<withheld, outcome, exit, runs, owed, removed, blind>>
      BY DEF EstablishRoots, aroundVars, planVars, ghostVars
  <1>2. Deletions' = Deletions /\ Wanted' = Wanted /\ \A s : Gone(s)' <=> Gone(s)
      BY <1>1 DEF Deletions, Wanted, Gone
  <1>3. TypeOK'
      BY <1>1 DEF CInv, TypeOK, Steps
  <1>4. PlanHolds' /\ Consented'
      BY <1>1, <1>2 DEF CInv, PlanHolds, Consented, Planned, Executing
  <1>5. NothingDone'
      BY <1>1 DEF NothingDone, Scanning
  <1>6. \A s \in Sessions : outcome[s] = "none" /\ ~Gone(s)
      BY <1>1 DEF CInv, NothingDone
  <1>7. Executed'
      BY <1>1, <1>2, <1>6 DEF Executed, Executing
  <1>8. History' /\ EvidenceForEachRemoval'
      BY <1>1 DEF CInv, History, EvidenceForEachRemoval
  <1>9. Reported'
    <2>1. exit' = NoExit
        BY <1>1 DEF CInv, Reported
    <2> QED
        BY <2>1, NoExitIsNone DEF Reported, ExitCodeTruth
  <1> QED
      BY <1>3, <1>4, <1>5, <1>7, <1>8, <1>9 DEF CInv

\* One action gets its result, and a session may be removed with it.
LEMMA FinishedKeeps ==
    ASSUME CInv, pc \in Executing, todo # {}, NEW result \in Results \ {"none"}, Finished(result),
           UNCHANGED <<parent, running, contained, changes, flags, scan, unread, action>>,
           UNCHANGED <<withheld, established, exit, runs, owed, blind>>,
           disk' \in [Sessions -> 0 .. Now],
           removed' = IF result = "succeeded" THEN removed \cup {Removal(Current)} ELSE removed,
           result \in {"succeeded", "failed"} => action[Current] = "delete",
           result = "succeeded" => MayMutate(Current)
    PROVE  CInv'
  <1> DEFINE c == Current
  <1>1. c \in todo /\ c \in Sessions
    <2>1. todo \subseteq scan.found /\ scan.found \subseteq Sessions
        BY DEF CInv, TypeOK, Scans, Executed, PlanHolds, Planned
    <2> QED
        BY <2>1, CurrentIsToDo
  <1>2. /\ outcome' = [outcome EXCEPT ![c] = result] /\ todo' = todo \ {c} /\ pc' = "next"
      BY DEF Finished
  <1>3. c \in Deletions <=> action[c] = "delete"
      BY <1>1 DEF Deletions
  <1>4. outcome[c] = "none" /\ ~Gone(c)
      BY <1>1 DEF CInv, Executed
  <1>5. Removal(c) = [session |-> c, run |-> runs, time |-> disk[c], live |-> running[ProviderOf(c)]]
      BY DEF Removal
  <1> HIDE DEF c
  <1>6. removed' = IF result = "succeeded" THEN removed \cup {Removal(c)} ELSE removed
      BY DEF c
  <1>7. result \in {"succeeded", "failed"} =>
           c \in Deletions /\ c \in Wanted /\ c \in owed /\ ~flags.dryRun
      BY <1>3 DEF CInv, Consented, PlanHolds, Planned, c
  <1>8. Deletions' = Deletions /\ Wanted' = Wanted
      BY DEF Deletions, Wanted
  <1>9. TypeOK'
    <2>1. outcome' \in [Sessions -> Results] /\ todo' \subseteq Sessions /\ pc' \in Steps
        BY <1>2 DEF CInv, TypeOK, Steps
    <2>2. Removal(c) \in [session : Sessions, run : Nat, time : Nat, live : BOOLEAN]
      <3>1. /\ disk \in [Sessions -> Nat] /\ running \in [Providers -> BOOLEAN] /\ runs \in Nat
            /\ ProviderOf(c) \in Providers
          BY <1>1, CleanAssumption, ProviderOfASession DEF CInv, TypeOK
      <3> QED
          BY <1>1, <1>5, <3>1
    <2>3. removed' \subseteq [session : Sessions, run : Nat, time : Nat, live : BOOLEAN]
        BY <1>6, <2>2 DEF CInv, TypeOK
    <2> QED
        BY <2>1, <2>3 DEF CInv, TypeOK
  <1>10. PlanHolds' /\ Consented' /\ NothingDone'
      BY <1>2, <1>8 DEF CInv, PlanHolds, Consented, NothingDone, Planned, Executing, Scanning
  <1>11. \A s : Gone(s)' <=> Gone(s) \/ (result = "succeeded" /\ s = c)
      BY <1>5, <1>6 DEF Gone
  <1>12. Executed'
    <2>1. outcome \in [Sessions -> Results]
        BY DEF CInv, TypeOK
    <2>2. \A s \in Sessions : outcome'[s] = IF s = c THEN result ELSE outcome[s]
        BY <1>2, <2>1
    <2>3. ASSUME NEW s \in Sessions
          PROVE  /\ s \in todo' => action[s] # "none" /\ outcome'[s] = "none"
                 /\ action[s] # "none" => s \in todo' \/ outcome'[s] # "none"
                 /\ outcome'[s] = "succeeded" <=> Gone(s)'
                 /\ outcome'[s] \in {"succeeded", "failed"} => action[s] = "delete"
      <3>1. /\ s \in todo => action[s] # "none" /\ outcome[s] = "none"
            /\ action[s] # "none" => s \in todo \/ outcome[s] # "none"
            /\ outcome[s] = "succeeded" <=> Gone(s)
            /\ outcome[s] \in {"succeeded", "failed"} => action[s] = "delete"
          BY DEF CInv, Executed
      <3>2. CASE s = c
          BY <1>2, <1>4, <1>11, <2>2, <3>2 DEF c
      <3>3. CASE s # c
          BY <1>2, <1>11, <2>2, <3>1, <3>3
      <3> QED
          BY <3>2, <3>3
    <2> QED
        BY <1>2, <2>3 DEF Executed
  <1>13. ASSUME result = "succeeded"
         PROVE  /\ c \in owed \ Shielded /\ ~flags.dryRun
                /\ running[ProviderOf(c)] => flags.allowRunning
                /\ scan.complete[ProviderOf(c)] /\ ~scan.active[ProviderOf(c)]
                /\ scan.seen[c] \in 1 .. Cutoff - 1
    <2>1. c \in Wanted /\ c \in owed /\ ~flags.dryRun /\ scan \in Scans
        BY <1>7, <1>13 DEF CInv, TypeOK
    <2>2. running[ProviderOf(c)] => flags.allowRunning
        BY <1>13 DEF MayMutate, c
    <2> QED
        BY <2>1, <2>2, WantedIsOld
  <1>14. History'
    <2>1. runs <= runs
        BY DEF CInv, TypeOK
    <2> QED
        BY <1>5, <1>6, <1>13, <2>1 DEF CInv, History
  <1>15. EvidenceForEachRemoval'
    <2>1. pc # "killed"
        BY DEF Executing
    <2> QED
        BY <1>5, <1>6, <1>13, <2>1 DEF CInv, EvidenceForEachRemoval
  <1>16. Reported'
    <2>1. exit' = NoExit
        BY DEF CInv, Reported, Executing
    <2> QED
        BY <2>1, NoExitIsNone DEF Reported, ExitCodeTruth
  <1> QED
      BY <1>9, <1>10, <1>12, <1>14, <1>15, <1>16 DEF CInv

\* Nothing is left to do: what is reported is true.
LEMMA ReportKeeps ==
    ASSUME CInv, pc = "next", todo = {}, Exit(ExitCode),
           UNCHANGED <<aroundVars, flags, planVars, execVars, ghostVars>>
    PROVE  CInv'
  <1> DEFINE failures == {s \in Wanted : outcome[s] = "failed"}
  <1>0. ExitCodeTruth' <=>
          /\ exit' = 0 =>
                /\ \A p \in Providers : scan'.complete[p]
                /\ \A s \in Wanted' : flags'.dryRun \/ Gone(s)'
          /\ exit' = 1 => \A s \in Wanted' : ~Gone(s)'
          /\ exit' = 3 => failures' # {} /\ \A s \in failures' : ~Gone(s)'
          /\ exit' = 4 =>
                /\ failures' = {}
                /\ \/ \E p \in Providers : ~scan'.complete[p]
                   \/ \E s \in Wanted' : ~Gone(s)'
      BY Zenon DEF ExitCodeTruth, Wanted, Gone
  <1>1. /\ UNCHANGED <<disk, parent, running, contained, changes, flags, scan, unread, action>>
        /\ UNCHANGED <<withheld, established, todo, outcome, runs, owed, removed, blind>>
        /\ pc' = "exited" /\ exit' = ExitCode
      BY DEF aroundVars, planVars, execVars, ghostVars, Exit
  <1>2. Deletions' = Deletions /\ Wanted' = Wanted /\ \A s : Gone(s)' <=> Gone(s)
      BY <1>1 DEF Deletions, Wanted, Gone
  <1>3. /\ Deletions \subseteq Sessions /\ Deletions \subseteq Wanted
        /\ Wanted \subseteq Sessions
        /\ withheld \in BOOLEAN /\ outcome \in [Sessions -> Results]
    <2>1. /\ withheld \in BOOLEAN /\ outcome \in [Sessions -> Results]
          /\ scan.found \subseteq Sessions
        BY DEF CInv, TypeOK, Scans
    <2>2. Deletions \subseteq Wanted
        BY DEF CInv, PlanHolds, Planned, Executing
    <2> QED
        BY <2>1, <2>2 DEF Deletions, Wanted
  <1>4. /\ \A s \in Sessions : action[s] # "none" => outcome[s] # "none"
        /\ \A s \in Sessions : outcome[s] = "succeeded" <=> Gone(s)
        /\ \A s \in Sessions : outcome[s] \in {"succeeded", "failed"} => s \in Deletions
      BY DEF CInv, Executed, Executing, Deletions
  <1>5. \A s \in Deletions : outcome[s] \in {"succeeded", "failed", "safely_skipped"}
      BY <1>3, <1>4 DEF Deletions, Results
  <1>6. /\ exit' = 3 => \E s \in Deletions : outcome[s] = "failed"
        /\ exit' \in {0, 4} => \A s \in Deletions : outcome[s] # "failed"
        /\ exit' = 4 => (\E s \in Deletions : outcome[s] = "safely_skipped") \/ withheld = TRUE
        /\ exit' = 0 => (\A s \in Deletions : outcome[s] # "safely_skipped") /\ withheld = FALSE
        /\ exit' \in {0, 3, 4}
      BY <1>1, <1>3 DEF ExitCode
  <1>7. failures \subseteq Deletions /\ \A s \in failures : ~Gone(s)
      BY <1>3, <1>4
  <1>8. Reported'
    <2>1. CASE exit' = 0
      <3>1. /\ Wanted \subseteq Deletions
            /\ \A p \in Providers : scan.complete[p]
          BY <1>6, <2>1 DEF CInv, PlanHolds, Planned, Executing
      <3>2. \A s \in Wanted : Gone(s)
          BY <1>3, <1>4, <1>5, <1>6, <2>1, <3>1
      <3>3. \A s \in Wanted' : Gone(s)'
          BY <1>2, <3>2
      <3>4. scan' = scan
          BY <1>1
      <3> QED
          BY <1>0, <1>1, <2>1, <3>1, <3>3, <3>4, NoExitIsNone DEF Reported
    <2>2. CASE exit' = 3
      <3>1. failures # {}
          BY <1>3, <1>6, <2>2
      <3>2. failures' = failures /\ \A s \in failures' : ~Gone(s)'
          BY <1>1, <1>2, <1>7
      <3> QED
          BY <1>0, <1>1, <2>2, <3>1, <3>2, NoExitIsNone DEF Reported
    <2>3. CASE exit' = 4
      <3>1. failures = {}
          BY <1>6, <1>7, <2>3
      <3>2. withheld = TRUE => (\E s \in Wanted : s \notin Deletions)
                               \/ \E p \in Providers : ~scan.complete[p]
          BY DEF CInv, PlanHolds, Planned, Executing
      <3>3. \A s \in Wanted : s \notin Deletions => ~Gone(s)
          BY <1>3, <1>4
      <3>4. \A s \in Deletions : outcome[s] = "safely_skipped" => s \in Wanted /\ ~Gone(s)
          BY <1>3, <1>4
      <3>5. (\E s \in Wanted : ~Gone(s)) \/ \E p \in Providers : ~scan.complete[p]
          BY <1>6, <2>3, <3>2, <3>3, <3>4
      <3>6. failures' = {}
          BY <1>1, <1>2, <3>1
      <3>7. (\E s \in Wanted' : ~Gone(s)') \/ \E p \in Providers : ~scan'.complete[p]
          BY <1>1, <1>2, <3>5
      <3> QED
          BY <1>0, <1>1, <2>3, <3>6, <3>7, NoExitIsNone DEF Reported
    <2> QED
        BY <1>6, <2>1, <2>2, <2>3
  <1>9. TypeOK'
    <2>1. pc' \in Steps /\ exit' \in ExitCodes
        BY <1>1, <1>6 DEF Steps, ExitCodes
    <2> QED
        BY <1>1, <2>1 DEF CInv, TypeOK
  <1>10. PlanHolds' /\ Consented' /\ NothingDone' /\ Executed'
      BY <1>1, <1>2
      DEF CInv, PlanHolds, Consented, NothingDone, Executed, Planned, Executing, Scanning
  <1>11. History' /\ EvidenceForEachRemoval'
      BY <1>1 DEF CInv, History, EvidenceForEachRemoval
  <1> QED
      BY <1>8, <1>9, <1>10, <1>11 DEF CInv

\* The next action is one to decide about, and it is looked at again.
LEMMA AdvanceKeeps ==
    ASSUME CInv, pc \in Executing, todo # {}, action[Current] = "delete",
           pc' \in {"recheck", "delete"},
           UNCHANGED <<aroundVars, flags, planVars, execVars, exit, ghostVars>>
    PROVE  CInv'
  <1>1. /\ UNCHANGED <<disk, parent, running, contained, changes, flags, scan, unread, action>>
        /\ UNCHANGED <<withheld, established, todo, outcome, exit, runs, owed, removed, blind>>
      BY DEF aroundVars, planVars, execVars, ghostVars
  <1>2. Deletions' = Deletions /\ Wanted' = Wanted /\ Current' = Current
      BY <1>1 DEF Deletions, Wanted, Current
  <1>3. \A s : Gone(s)' <=> Gone(s)
      BY <1>1 DEF Gone
  <1>4. TypeOK'
    <2>1. pc' \in Steps
        BY DEF Steps
    <2> QED
        BY <1>1, <2>1 DEF CInv, TypeOK
  <1>5. PlanHolds' /\ Consented' /\ NothingDone'
      BY <1>1, <1>2 DEF CInv, PlanHolds, Consented, NothingDone, Planned, Executing, Scanning
  <1>6. Executed'
    <2>1. /\ \A s \in Sessions :
                /\ s \in todo => action[s] # "none" /\ outcome[s] = "none"
                /\ action[s] # "none" => s \in todo \/ outcome[s] # "none"
          /\ \A s \in Sessions :
                /\ outcome[s] = "succeeded" <=> Gone(s)
                /\ outcome[s] \in {"succeeded", "failed"} => action[s] = "delete"
        BY DEF CInv, Executed
    <2> QED
        BY <1>1, <1>2, <1>3, <2>1 DEF Executed
  <1>7. History' /\ EvidenceForEachRemoval'
      BY <1>1 DEF CInv, History, EvidenceForEachRemoval, Executing
  <1>8. Reported'
    <2>1. exit' = NoExit
        BY <1>1 DEF CInv, Reported, Executing
    <2> QED
        BY <2>1, NoExitIsNone DEF Reported, ExitCodeTruth
  <1> QED
      BY <1>4, <1>5, <1>6, <1>7, <1>8 DEF CInv

LEMMA NextActionKeeps ==
    ASSUME CInv, NextAction
    PROVE  CInv'
  <1>1. pc = "next" /\ UNCHANGED <<aroundVars, flags, planVars, established, ghostVars>>
      BY DEF NextAction
  <1>2. CASE todo = {}
    <2>1. Exit(ExitCode) /\ UNCHANGED execVars
        BY <1>1, <1>2 DEF NextAction, execVars
    <2> QED
        BY <1>1, <1>2, <2>1, ReportKeeps
  <1>3. CASE todo # {} /\ action[Current] = "delete"
    <2>1. pc' = "recheck" /\ UNCHANGED <<execVars, exit>>
        BY <1>1, <1>3 DEF NextAction, execVars
    <2> QED
        BY <1>1, <1>3, <2>1, AdvanceKeeps DEF Executing
  <1>4. CASE todo # {} /\ action[Current] # "delete"
    <2>1. Finished("safely_skipped") /\ exit' = exit
        BY <1>4 DEF NextAction
    <2>2. /\ UNCHANGED <<disk, parent, running, contained, changes, flags, scan, unread, action>>
          /\ UNCHANGED <<withheld, established, exit, runs, owed, removed, blind>>
        BY <1>1, <2>1 DEF aroundVars, planVars, ghostVars
    <2>3. disk' \in [Sessions -> 0 .. Now]
        BY <2>2 DEF CInv, TypeOK
    <2> DEFINE result == "safely_skipped"
    <2>4. /\ result \in Results \ {"none"} /\ Finished(result)
          /\ removed' = IF result = "succeeded" THEN removed \cup {Removal(Current)} ELSE removed
          /\ result \notin {"succeeded", "failed"} /\ pc \in Executing
        BY <1>1, <2>1, <2>2 DEF Results, Executing
    <2> HIDE DEF result
    <2> QED
        BY <1>4, <2>2, <2>3, <2>4, FinishedKeeps
  <1> QED
      BY <1>2, <1>3, <1>4

LEMMA RecheckKeeps ==
    ASSUME CInv, Recheck
    PROVE  CInv'
  <1>1. pc = "recheck" /\ UNCHANGED <<aroundVars, flags, planVars, established, exit, ghostVars>>
      BY DEF Recheck
  <1>2. todo # {} /\ action[Current] = "delete"
      BY <1>1 DEF CInv, Executed
  <1>3. (pc' = "delete" /\ UNCHANGED <<todo, outcome>>) \/ Finished("safely_skipped")
      BY DEF Recheck
  <1>4. CASE pc' = "delete" /\ UNCHANGED <<todo, outcome>>
    <2>1. UNCHANGED execVars
        BY <1>1, <1>4 DEF execVars
    <2> QED
        BY <1>1, <1>2, <1>4, <2>1, AdvanceKeeps DEF Executing
  <1>5. CASE Finished("safely_skipped")
    <2>1. /\ UNCHANGED <<disk, parent, running, contained, changes, flags, scan, unread, action>>
          /\ UNCHANGED <<withheld, established, exit, runs, owed, removed, blind>>
        BY <1>1 DEF aroundVars, planVars, ghostVars
    <2>2. disk' \in [Sessions -> 0 .. Now]
        BY <2>1 DEF CInv, TypeOK
    <2> DEFINE result == "safely_skipped"
    <2>3. /\ result \in Results \ {"none"} /\ Finished(result)
          /\ removed' = IF result = "succeeded" THEN removed \cup {Removal(Current)} ELSE removed
          /\ result \notin {"succeeded", "failed"} /\ pc \in Executing
        BY <1>1, <1>5, <2>1 DEF Results, Executing
    <2> HIDE DEF result
    <2> QED
        BY <1>2, <2>1, <2>2, <2>3, FinishedKeeps
  <1> QED
      BY <1>3, <1>4, <1>5

LEMMA DeleteOneKeeps ==
    ASSUME CInv, DeleteOne
    PROVE  CInv'
  <1>1. /\ pc = "delete" /\ pc \in Executing
        /\ UNCHANGED <<parent, running, contained, changes, flags, scan, unread, action>>
        /\ UNCHANGED <<withheld, established, exit, runs, owed, blind>>
      BY DEF DeleteOne, planVars, Executing
  <1>2. todo # {} /\ action[Current] = "delete"
      BY <1>1 DEF CInv, Executed
  <1>3. PICK result \in Results \ {"none"} :
            /\ Finished(result)
            /\ result = "succeeded" => MayMutate(Current) /\ Remove(Current)
            /\ result # "succeeded" => Keep
      BY DEF DeleteOne, Results
  <1>4. disk' \in [Sessions -> 0 .. Now]
    <2>1. disk \in [Sessions -> 0 .. Now] /\ 0 \in 0 .. Now
        BY CleanAssumption DEF CInv, TypeOK
    <2>2. disk' = disk \/ disk' = [disk EXCEPT ![Current] = 0]
        BY <1>3 DEF Remove, Keep
    <2> QED
        BY <2>1, <2>2
  <1>5. removed' = IF result = "succeeded" THEN removed \cup {Removal(Current)} ELSE removed
      BY <1>3 DEF Remove, Keep
  <1> QED
      BY <1>1, <1>2, <1>3, <1>4, <1>5, FinishedKeeps

-----------------------------------------------------------------------------
(* A process ends, and another starts.                                     *)

\* A process holds nothing when it starts, and nothing is left of it when it
\* dies; what was removed, and to what the user had consented, stays.
LEMMA BlankKeeps ==
    ASSUME CInv, NEW step \in {"claude-discover", "killed"}, Blank(step),
           UNCHANGED <<aroundVars, flags, owed, removed, blind>>,
           runs' \in Nat, runs' >= runs, step = "claude-discover" => runs' > runs
    PROVE  CInv'
  <1>1. UNCHANGED <<disk, parent, running, contained, changes, flags, owed, removed, blind>>
      BY DEF aroundVars
  <1>2. /\ pc' = step /\ scan' = EmptyScan /\ unread' = {} /\ withheld' = FALSE
        /\ action' = [s \in Sessions |-> "none"] /\ established' = {} /\ todo' = {}
        /\ outcome' = [s \in Sessions |-> "none"] /\ exit' = NoExit
      BY DEF Blank
  <1>3. runs \in Nat /\ \A x \in removed : x.run \in Nat /\ x.run <= runs
      BY DEF CInv, TypeOK, History
  <1>4. TypeOK'
    <2>1. /\ pc' \in Steps /\ exit' \in ExitCodes /\ unread' \subseteq Codex
          /\ withheld' \in BOOLEAN /\ established' \subseteq Providers /\ todo' \subseteq Sessions
          /\ action' \in [Sessions -> {"none", "observe", "delete"}]
          /\ outcome' \in [Sessions -> Results]
        BY <1>2 DEF Steps, ExitCodes, Results
    <2>2. scan' \in Scans
        BY <1>2, EmptyScanIsAScan DEF CInv, TypeOK
    <2> QED
        BY <1>1, <2>1, <2>2 DEF CInv, TypeOK
  <1>5. PlanHolds' /\ Consented' /\ Executed'
      BY <1>2 DEF PlanHolds, Consented, Executed, Planned, Executing
  <1>6. NothingDone'
    <2>1. CASE step = "killed"
        BY <1>2, <2>1 DEF NothingDone, Scanning
    <2>2. CASE step = "claude-discover"
      <3>1. \A x \in removed' : x.run # runs'
          BY <1>1, <1>3, <2>2
      <3>2. \A s \in Sessions : outcome'[s] = "none"
          BY <1>2
      <3> QED
          BY <3>1, <3>2 DEF NothingDone, Gone
    <2> QED
        BY <2>1, <2>2
  <1>7. History'
    <2>1. \A x \in removed : x.run <= runs'
        BY <1>3
    <2> QED
        BY <1>1, <2>1 DEF CInv, History
  <1>8. EvidenceForEachRemoval'
    <2>1. \A x \in removed : ~(x.run = runs' /\ pc' # "killed")
        BY <1>2, <1>3
    <2> QED
        BY <1>1, <2>1 DEF CInv, EvidenceForEachRemoval
  <1>9. Reported'
      BY <1>2, NoExitIsNone DEF Reported, ExitCodeTruth
  <1> QED
      BY <1>4, <1>5, <1>6, <1>7, <1>8, <1>9 DEF CInv

-----------------------------------------------------------------------------
(* The theorems.                                                           *)

LEMMA CInvInit == Init => CInv
  <1> SUFFICES ASSUME Init PROVE CInv
      OBVIOUS
  <1>1. TypeOK
    <2>1. /\ disk \in [Sessions -> 0 .. Now] /\ parent \in [Sessions -> Sessions \cup {0}]
          /\ flags \in Flags
      <3>1. 1 .. Now \subseteq 0 .. Now
          BY CleanAssumption
      <3>2. disk \in [Sessions -> 1 .. Now] /\ parent \in Families /\ flags \in FlagChoices
          BY DEF Init
      <3> QED
          BY <3>1, <3>2, CleanAssumption
    <2>2. scan \in Scans
        BY <2>1, EmptyScanIsAScan DEF Init
    <2>3. /\ running \in [Providers -> BOOLEAN] /\ contained \in [Providers -> BOOLEAN]
          /\ changes \in Nat /\ pc \in Steps /\ exit \in ExitCodes /\ unread \subseteq Codex
          /\ withheld \in BOOLEAN /\ established \subseteq Providers /\ todo \subseteq Sessions
          /\ action \in [Sessions -> {"none", "observe", "delete"}]
          /\ outcome \in [Sessions -> Results]
          /\ runs \in Nat /\ owed \subseteq Sessions /\ removed = {} /\ blind \in BOOLEAN
        BY DEF Init, Steps, ExitCodes, Results
    <2> QED
        BY <2>1, <2>2, <2>3 DEF TypeOK
  <1>2. /\ pc = "claude-discover" /\ removed = {} /\ exit = NoExit
        /\ \A s \in Sessions : outcome[s] = "none"
      BY DEF Init
  <1>3. PlanHolds /\ Consented /\ NothingDone /\ Executed
      BY <1>2 DEF PlanHolds, Consented, NothingDone, Executed, Planned, Executing, Gone
  <1>4. History /\ EvidenceForEachRemoval /\ Reported
      BY <1>2, NoExitIsNone DEF History, EvidenceForEachRemoval, Reported, ExitCodeTruth
  <1> QED
      BY <1>1, <1>3, <1>4 DEF CInv

LEMMA CInvNext == CInv /\ [Next]_vars => CInv'
  <1> SUFFICES ASSUME CInv, [Next]_vars PROVE CInv'
      OBVIOUS
  <1>1. CASE Surroundings
      BY <1>1, SurroundingsLeave, UntouchedKeeps DEF CInv
  <1>2. CASE ClaudeDiscover \/ ClaudeProcess \/ CodexDiscover \/ CodexProcess \/ ObserveMtime
      BY <1>2, ScanningKeeps
  <1>3. CASE Plan
      BY <1>3, PlanningKeeps
  <1>4. CASE Prompt
      BY <1>4, PromptKeeps
  <1>5. CASE EstablishRoots
      BY <1>5, RootsKeep
  <1>6. CASE NextAction
      BY <1>6, NextActionKeeps
  <1>7. CASE Recheck
      BY <1>7, RecheckKeeps
  <1>8. CASE DeleteOne
      BY <1>8, DeleteOneKeeps
  <1>9. CASE Kill
    <2>1. Blank("killed") /\ UNCHANGED <<aroundVars, flags, owed, removed, blind, runs>>
        BY <1>9 DEF Kill, ghostVars
    <2>2. runs' \in Nat /\ runs' >= runs
        BY <2>1 DEF CInv, TypeOK
    <2> QED
        BY <2>1, <2>2, BlankKeeps
  <1>10. CASE RunAgain
    <2>1. /\ Blank("claude-discover") /\ UNCHANGED <<aroundVars, flags, owed, removed, blind>>
          /\ runs' = runs + 1
        BY <1>10 DEF RunAgain
    <2>2. runs' \in Nat /\ runs' >= runs /\ runs' > runs
        BY <2>1 DEF CInv, TypeOK
    <2> QED
        BY <2>1, <2>2, BlankKeeps
  <1>11. CASE UNCHANGED vars
    <2>1. UNCHANGED ownVars /\ UNCHANGED <<disk, running, contained, changes>>
        BY <1>11 DEF vars, aroundVars, ownVars
    <2>2. /\ disk' \in [Sessions -> 0 .. Now] /\ changes' \in Nat
          /\ running' \in [Providers -> BOOLEAN] /\ contained' \in [Providers -> BOOLEAN]
        BY <2>1 DEF CInv, TypeOK
    <2> QED
        BY <2>1, <2>2, UntouchedKeeps
  <1> QED
      BY <1>1, <1>2, <1>3, <1>4, <1>5, <1>6, <1>7, <1>8, <1>9, <1>10, <1>11 DEF Next, Run

\* The inductive invariant of the runs: it holds at first, and every step of a
\* run, of its surroundings, of a kill and of a restart preserves it.
THEOREM Inductive == Spec => []CInv
  BY CInvInit, CInvNext, PTL DEF Spec

\* A run's variables keep their types.
THEOREM TypeCorrect == Spec => []TypeOK
  <1>1. CInv => TypeOK
      BY DEF CInv
  <1> QED
      BY <1>1, Inductive, PTL

\* Whatever `clean` removed, in this run or an earlier one, killed or not, the
\* user had consented to, nothing shields it, the run was no dry run, its
\* provider was stopped or the user allowed it to run; and what this run
\* removed was old in a complete scan that saw no process.
THEOREM RemovalsRestOnEvidence == Spec => []EvidenceForEachRemoval
  <1>1. CInv => EvidenceForEachRemoval
      BY DEF CInv
  <1> QED
      BY <1>1, Inductive, PTL

\* The exit code of `clean` tells what became of everything the scan found
\* eligible, in whatever order the actions succeeded, failed or were refused.
THEOREM ExitCodesAreTrue == Spec => []ExitCodeTruth
  <1>1. CInv => ExitCodeTruth
      BY DEF CInv, Reported
  <1> QED
      BY <1>1, Inductive, PTL

-----------------------------------------------------------------------------
(* The way from a session to the root of its tree.                         *)

\* What holds of zero and goes from each number to the next holds of all.
LEMMA NumberByNumber ==
    ASSUME NEW T, 0 \in T, \A n \in Nat : n \in T => n + 1 \in T
    PROVE  \A n \in Nat : n \in T
  <1> DEFINE Missing == Nat \ T
  <1>1. SUFFICES ASSUME Missing # {} PROVE FALSE
      OBVIOUS
  <1>2. Missing \in SUBSET Nat
      OBVIOUS
  <1> DEFINE m == Least(Missing)
  <1>3. m \in Missing /\ \A n \in Missing : m <= n
    <2> HIDE DEF Missing
    <2> QED
        BY <1>1, <1>2, LeastOfNumbers
  <1> HIDE DEF m
  <1>4. m # 0 /\ m - 1 \in Nat /\ m - 1 \notin Missing
      BY <1>3
  <1>5. (m - 1) + 1 \in T
      BY <1>4
  <1> QED
      BY <1>3, <1>5

Up(sc, s) == IF HasParent(sc, s) THEN sc.parent[s] ELSE s

IsWay(up, sc, s, n) ==
    up = [k \in 0 .. n |-> IF k = 0 THEN s
                           ELSE IF HasParent(sc, up[k - 1])
                                THEN sc.parent[up[k - 1]]
                                ELSE up[k - 1]]

Way(sc, s, n) == CHOOSE up : IsWay(up, sc, s, n)

LEMMA AncestorIsOnTheWay ==
    ASSUME NEW sc, NEW s, NEW n
    PROVE  Ancestor(sc, s, n) = Way(sc, s, n)[n]
  BY DEF Ancestor, Way, IsWay

LEMMA WayExists ==
    ASSUME NEW sc, NEW s, NEW n \in Nat
    PROVE  IsWay(Way(sc, s, n), sc, s, n)
  <1> DEFINE T == {m \in Nat : \E up : IsWay(up, sc, s, m)}
  <1>1. 0 \in T
    <2>1. IsWay([k \in 0 .. 0 |-> s], sc, s, 0)
        BY DEF IsWay
    <2> QED
        BY <2>1
  <1>2. ASSUME NEW m \in Nat, m \in T
        PROVE  m + 1 \in T
    <2>1. PICK up : IsWay(up, sc, s, m)
        BY <1>2
    <2> DEFINE more == [k \in 0 .. m + 1 |-> IF k = m + 1 THEN Up(sc, up[m]) ELSE up[k]]
    <2>2. ASSUME NEW k \in 0 .. m + 1
          PROVE  more[k] = IF k = 0 THEN s
                           ELSE IF HasParent(sc, more[k - 1])
                                THEN sc.parent[more[k - 1]]
                                ELSE more[k - 1]
      <3>1. CASE k = 0
          BY <3>1, <2>1 DEF IsWay
      <3>2. CASE k \in 1 .. m
        <4>1. more[k] = up[k] /\ more[k - 1] = up[k - 1] /\ k # 0
            BY <3>2
        <4>2. up[k] = IF HasParent(sc, up[k - 1]) THEN sc.parent[up[k - 1]] ELSE up[k - 1]
            BY <3>2, <2>1 DEF IsWay
        <4> QED
            BY <4>1, <4>2
      <3>3. CASE k = m + 1
        <4>1. more[k] = Up(sc, up[m]) /\ more[k - 1] = up[m] /\ k # 0
            BY <3>3
        <4> QED
            BY <4>1 DEF Up
      <3> QED
          BY <3>1, <3>2, <3>3
    <2>3. more = [k \in 0 .. m + 1 |-> more[k]]
        OBVIOUS
    <2>4. IsWay(more, sc, s, m + 1)
      <3> HIDE DEF more
      <3> QED
          BY <2>2, <2>3 DEF IsWay
    <2> HIDE DEF more
    <2> QED
        BY <2>4
  <1>3. n \in T
    <2> HIDE DEF T
    <2> QED
        BY <1>1, <1>2, NumberByNumber
  <1>4. \E up : IsWay(up, sc, s, n)
      BY <1>3
  <1> QED
      BY <1>4, Zenon DEF Way

\* However long a way is, it begins alike.
LEMMA WaysAgree ==
    ASSUME NEW sc, NEW s, NEW n \in Nat
    PROVE  Way(sc, s, n + 1)[n] = Way(sc, s, n)[n]
  <1> DEFINE long  == Way(sc, s, n + 1)
             short == Way(sc, s, n)
             T     == {k \in Nat : k <= n => long[k] = short[k]}
  <1>1. IsWay(long, sc, s, n + 1) /\ IsWay(short, sc, s, n)
      BY WayExists
  <1> HIDE DEF long, short
  <1>2. 0 \in T
      BY <1>1 DEF IsWay
  <1>3. ASSUME NEW k \in Nat, k \in T
        PROVE  k + 1 \in T
    <2>1. CASE k + 1 <= n
      <3>1. k + 1 \in 0 .. n + 1 /\ k + 1 \in 0 .. n /\ long[k] = short[k] /\ k + 1 # 0
            /\ (k + 1) - 1 = k
          BY <1>3, <2>1
      <3>2. long[k + 1] = IF HasParent(sc, long[k]) THEN sc.parent[long[k]] ELSE long[k]
          BY <1>1, <3>1 DEF IsWay
      <3>3. short[k + 1] = IF HasParent(sc, short[k]) THEN sc.parent[short[k]] ELSE short[k]
          BY <1>1, <3>1 DEF IsWay
      <3> QED
          BY <3>1, <3>2, <3>3
    <2> QED
        BY <2>1
  <1>4. n \in T
    <2> HIDE DEF T
    <2> QED
        BY <1>2, <1>3, NumberByNumber
  <1> QED
      BY <1>4 DEF long, short

\* The ancestors, one after another.
LEMMA AncestorFirst ==
    ASSUME NEW sc, NEW s
    PROVE  Ancestor(sc, s, 0) = s
  <1>1. IsWay(Way(sc, s, 0), sc, s, 0)
      BY WayExists
  <1> QED
      BY <1>1, AncestorIsOnTheWay DEF IsWay

LEMMA AncestorNext ==
    ASSUME NEW sc, NEW s, NEW n \in Nat
    PROVE  Ancestor(sc, s, n + 1) = Up(sc, Ancestor(sc, s, n))
  <1> DEFINE way == Way(sc, s, n + 1)
  <1>1. IsWay(way, sc, s, n + 1) /\ n + 1 \in 0 .. n + 1 /\ n + 1 # 0 /\ (n + 1) - 1 = n
      BY WayExists
  <1>2. Ancestor(sc, s, n) = way[n] /\ Ancestor(sc, s, n + 1) = way[n + 1]
      BY AncestorIsOnTheWay, WaysAgree
  <1> HIDE DEF way
  <1>3. way[n + 1] = IF HasParent(sc, way[n]) THEN sc.parent[way[n]] ELSE way[n]
      BY <1>1 DEF IsWay
  <1> QED
      BY <1>2, <1>3 DEF Up

\* An ancestor's ancestor is one.
LEMMA AncestorOfAncestor ==
    ASSUME NEW sc, NEW s, NEW i \in Nat, NEW n \in Nat
    PROVE  Ancestor(sc, Ancestor(sc, s, i), n) = Ancestor(sc, s, i + n)
  <1> DEFINE T == {k \in Nat : Ancestor(sc, Ancestor(sc, s, i), k) = Ancestor(sc, s, i + k)}
  <1>1. 0 \in T
      BY AncestorFirst
  <1>2. ASSUME NEW k \in Nat, k \in T
        PROVE  k + 1 \in T
    <2>1. /\ Ancestor(sc, Ancestor(sc, s, i), k + 1) = Up(sc, Ancestor(sc, Ancestor(sc, s, i), k))
          /\ Ancestor(sc, s, (i + k) + 1) = Up(sc, Ancestor(sc, s, i + k))
          /\ (i + k) + 1 = i + (k + 1)
        BY AncestorNext
    <2> QED
        BY <1>2, <2>1
  <1> HIDE DEF T
  <1>3. n \in T
      BY <1>1, <1>2, NumberByNumber
  <1> QED
      BY <1>3 DEF T

\* Whoever has no parent is the end of the way.
LEMMA WayEnds ==
    ASSUME NEW sc, NEW s, NEW i \in Nat, ~HasParent(sc, Ancestor(sc, s, i)),
           NEW j \in Nat, j >= i
    PROVE  Ancestor(sc, s, j) = Ancestor(sc, s, i)
  <1> DEFINE T == {k \in Nat : Ancestor(sc, s, i + k) = Ancestor(sc, s, i)}
  <1>1. 0 \in T
      OBVIOUS
  <1>2. ASSUME NEW k \in Nat, k \in T
        PROVE  k + 1 \in T
    <2>1. Ancestor(sc, s, (i + k) + 1) = Up(sc, Ancestor(sc, s, i + k)) /\ (i + k) + 1 = i + (k + 1)
        BY AncestorNext
    <2> QED
        BY <1>2, <2>1 DEF Up
  <1> HIDE DEF T
  <1>3. j - i \in T
      BY <1>1, <1>2, NumberByNumber
  <1> QED
      BY <1>3 DEF T

LEMMA AncestorsAreFound ==
    ASSUME NEW sc, NEW s \in sc.found, NEW n \in Nat
    PROVE  Ancestor(sc, s, n) \in sc.found
  <1> DEFINE T == {k \in Nat : Ancestor(sc, s, k) \in sc.found}
  <1>1. 0 \in T
      BY AncestorFirst
  <1>2. ASSUME NEW k \in Nat, k \in T
        PROVE  k + 1 \in T
    <2>1. Ancestor(sc, s, k + 1) = Up(sc, Ancestor(sc, s, k))
        BY AncestorNext
    <2> QED
        BY <1>2, <2>1 DEF Up, HasParent
  <1> HIDE DEF T
  <1>3. n \in T
      BY <1>1, <1>2, NumberByNumber
  <1> QED
      BY <1>3 DEF T

\* If the way ends at all, it ends within as many steps as sessions were found
\* (root_id_for's bound): on a longer one some session would come twice.
LEMMA EndsWithinTheFound ==
    ASSUME NEW sc, IsFiniteSet(sc.found), NEW s \in sc.found,
           NEW i \in Nat, ~HasParent(sc, Ancestor(sc, s, i))
    PROVE  ~HasParent(sc, Ancestor(sc, s, Cardinality(sc.found)))
  <1> DEFINE n == Cardinality(sc.found)
             way == [k \in 0 .. n |-> Ancestor(sc, s, k)]
  <1> SUFFICES ASSUME HasParent(sc, Ancestor(sc, s, n)) PROVE FALSE
      OBVIOUS
  <1>1. n \in Nat
      BY FS_CardinalityType
  <1> HIDE DEF n
  <1>2. \A k \in 0 .. n : HasParent(sc, Ancestor(sc, s, k))
      BY <1>1, WayEnds
  <1>3. /\ IsFiniteSet(0 .. n) /\ Cardinality(0 .. n) = n + 1
        /\ way \in [0 .. n -> sc.found] /\ Cardinality(sc.found) < Cardinality(0 .. n)
    <2>1. IsFiniteSet(0 .. n) /\ Cardinality(0 .. n) = n + 1
        BY <1>1, FS_Interval
    <2>2. \A k \in 0 .. n : Ancestor(sc, s, k) \in sc.found
        BY AncestorsAreFound
    <2> QED
        BY <1>1, <2>1, <2>2 DEF n
  <1>4. \E x, y \in 0 .. n : x # y /\ way[x] = way[y]
    <2> HIDE DEF way
    <2> QED
        BY <1>3, FS_PigeonHole
  <1>5. PICK x \in 0 .. n, y \in 0 .. n : x < y /\ Ancestor(sc, s, x) = Ancestor(sc, s, y)
      BY <1>1, <1>4
  <1> DEFINE again == Ancestor(sc, s, x)
             T == {k \in Nat : \E j \in Nat : j >= k /\ Ancestor(sc, s, j) = again}
  <1>6. x \in Nat /\ y - x \in Nat /\ y - x >= 1 /\ x + (y - x) = y
      BY <1>1, <1>5
  <1>7. Ancestor(sc, again, y - x) = again
      BY <1>5, <1>6, AncestorOfAncestor
  <1>8. 0 \in T
      BY <1>6
  <1>9. ASSUME NEW k \in Nat, k \in T
        PROVE  k + 1 \in T
    <2>1. PICK j \in Nat : j >= k /\ Ancestor(sc, s, j) = again
        BY <1>9
    <2>2. Ancestor(sc, s, j + (y - x)) = again
        BY <1>6, <1>7, <2>1, AncestorOfAncestor
    <2>3. j + (y - x) \in Nat /\ j + (y - x) >= k + 1
        BY <1>6, <2>1
    <2> HIDE DEF again
    <2> QED
        BY <2>2, <2>3
  <1>10. i \in T
    <2> HIDE DEF T
    <2> QED
        BY <1>8, <1>9, NumberByNumber
  <1>11. PICK j \in Nat : j >= i /\ Ancestor(sc, s, j) = again
      BY <1>10
  <1>12. ~HasParent(sc, again)
      BY <1>11, WayEnds
  <1> QED
      BY <1>2, <1>5, <1>12

-----------------------------------------------------------------------------
(* The tree of a session, in two scans of which one found more.            *)

\* sc found some of what b found, and read the same headers.
Within(sc, b, p) ==
    /\ IsFiniteSet(b.found) /\ sc.found \subseteq b.found
    /\ \A x \in sc.found : sc.parent[x] = b.parent[x]
    /\ \A x \in Found(b, p) : HasParent(b, x) => b.parent[x] \in Of(p)

\* All of a tree of b was found in sc.
AllFound(sc, b, p, root) == \A x \in Tree(b, p, root) : x \in sc.found

\* The way up from x ends.
Settled(b, x) == ~HasParent(b, Ancestor(b, x, Cardinality(b.found)))

LEMMA RootOfSettled ==
    ASSUME NEW b, NEW x
    PROVE  /\ Settled(b, x) => RootIdFor(b, x) = Ancestor(b, x, Cardinality(b.found))
           /\ ~Settled(b, x) => RootIdFor(b, x) = x
  BY DEF Settled, RootIdFor

\* Whoever is on a way that ends has the same root.
LEMMA WayIsInTheTree ==
    ASSUME NEW b, NEW sc, NEW p, Within(sc, b, p), NEW x \in Found(b, p), Settled(b, x),
           NEW i \in Nat
    PROVE  Ancestor(b, x, i) \in Tree(b, p, RootIdFor(b, x))
  <1> DEFINE N == Cardinality(b.found)
             root == RootIdFor(b, x)
  <1>1. N \in Nat
      BY FS_CardinalityType DEF Within
  <1>2. x \in b.found /\ x \in Of(p)
      BY DEF Found
  <1>3. root = Ancestor(b, x, N) /\ ~HasParent(b, root)
      BY RootOfSettled DEF Settled
  <1> DEFINE T == {k \in Nat : Ancestor(b, x, k) \in Found(b, p)}
  <1>4. 0 \in T
      BY AncestorFirst
  <1>5. ASSUME NEW k \in Nat, k \in T
        PROVE  k + 1 \in T
    <2>1. Ancestor(b, x, k + 1) = Up(b, Ancestor(b, x, k))
        BY AncestorNext
    <2>2. Ancestor(b, x, k + 1) \in b.found
        BY <1>2, AncestorsAreFound
    <2>3. Ancestor(b, x, k + 1) \in Of(p)
        BY <1>5, <2>1 DEF Within, Up, Found
    <2> QED
        BY <2>2, <2>3 DEF Found
  <1>6. Ancestor(b, x, i) \in Found(b, p)
    <2> HIDE DEF T
    <2>1. i \in T
        BY <1>4, <1>5, NumberByNumber
    <2> QED
        BY <2>1 DEF T
  <1> DEFINE a == Ancestor(b, x, i)
  <1>7. Ancestor(b, a, N) = root
    <2>1. Ancestor(b, a, N) = Ancestor(b, x, i + N)
        BY <1>1, AncestorOfAncestor
    <2>2. Ancestor(b, x, i + N) = Ancestor(b, x, N)
        BY <1>1, <1>3, WayEnds
    <2> QED
        BY <1>3, <2>1, <2>2
  <1>8. RootIdFor(b, a) = root
      BY <1>3, <1>7, RootOfSettled DEF Settled
  <1> QED
      BY <1>6, <1>8 DEF Tree

\* If all of a tree was found, the way to its root was.
LEMMA SameRootWithin ==
    ASSUME NEW b, NEW sc, NEW p, Within(sc, b, p), NEW x \in Found(b, p), Settled(b, x),
           AllFound(sc, b, p, RootIdFor(b, x))
    PROVE  RootIdFor(sc, x) = RootIdFor(b, x)
  <1> DEFINE N == Cardinality(b.found)
             n == Cardinality(sc.found)
             root == RootIdFor(b, x)
             T == {k \in Nat : Ancestor(sc, x, k) = Ancestor(b, x, k)}
  <1>1. IsFiniteSet(sc.found) /\ N \in Nat /\ n \in Nat
    <2>1. IsFiniteSet(b.found) /\ sc.found \in SUBSET b.found
        BY DEF Within
    <2> QED
        BY <2>1, FS_Subset, FS_CardinalityType
  <1>2. \A i \in Nat : Ancestor(b, x, i) \in sc.found
      BY WayIsInTheTree DEF AllFound
  <1>3. root = Ancestor(b, x, N) /\ ~HasParent(b, root)
      BY RootOfSettled DEF Settled
  <1>4. 0 \in T
      BY AncestorFirst
  <1>5. ASSUME NEW k \in Nat, k \in T
        PROVE  k + 1 \in T
    <2> DEFINE a == Ancestor(b, x, k)
    <2>1. /\ Ancestor(b, x, k + 1) = Up(b, a)
          /\ Ancestor(sc, x, k + 1) = Up(sc, a)
        BY <1>5, AncestorNext
    <2>2. a \in sc.found /\ Up(b, a) \in sc.found
        BY <1>2, <2>1
    <2>3. sc.parent[a] = b.parent[a] /\ sc.found \subseteq b.found
        BY <2>2 DEF Within
    <2>4. Up(sc, a) = Up(b, a)
        BY <2>2, <2>3 DEF Up, HasParent
    <2> QED
        BY <2>1, <2>4
  <1>6. \A k \in Nat : Ancestor(sc, x, k) = Ancestor(b, x, k)
    <2> HIDE DEF T
    <2>1. \A k \in Nat : k \in T
        BY <1>4, <1>5, NumberByNumber
    <2> QED
        BY <2>1 DEF T
  <1>7. Ancestor(sc, x, N) = root /\ ~HasParent(sc, root)
    <2>1. Ancestor(sc, x, N) = root /\ root \in sc.found
        BY <1>1, <1>2, <1>3, <1>6
    <2>2. sc.parent[root] = b.parent[root] /\ sc.found \subseteq b.found
        BY <2>1 DEF Within
    <2> QED
        BY <1>3, <2>1, <2>2 DEF HasParent
  <1>8. x \in sc.found
      BY <1>2, AncestorFirst, 0 \in Nat
  <1> HIDE DEF root, n, N
  <1>9. ~HasParent(sc, Ancestor(sc, x, n))
      BY <1>1, <1>7, <1>8, EndsWithinTheFound DEF n
  <1>10. Ancestor(sc, x, n) = root
    <2>1. CASE n >= N
        BY <1>1, <1>7, <2>1, WayEnds
    <2>2. CASE N >= n
      <3>1. Ancestor(sc, x, N) = Ancestor(sc, x, n)
          BY <1>1, <1>9, <2>2, WayEnds
      <3> QED
          BY <1>7, <3>1
    <2> QED
        BY <1>1, <2>1, <2>2
  <1> QED
      BY <1>9, <1>10 DEF RootIdFor, n, root

\* A tree that was found as a whole is not taken apart.
LEMMA WholeTreesStayWhole ==
    ASSUME NEW b, NEW sc, NEW p, Within(sc, b, p),
           NEW x \in Found(b, p), NEW y \in Found(b, p),
           RootIdFor(b, x) = RootIdFor(b, y), AllFound(sc, b, p, RootIdFor(b, x))
    PROVE  RootIdFor(sc, x) = RootIdFor(sc, y)
  <1> DEFINE N == Cardinality(b.found)
  <1>1. N \in Nat
      BY FS_CardinalityType DEF Within
  <1>2. ASSUME NEW u \in Found(b, p), NEW v \in Found(b, p), Settled(b, u), ~Settled(b, v),
               RootIdFor(b, u) = RootIdFor(b, v)
        PROVE  FALSE
    <2>1. v = Ancestor(b, u, N) /\ ~HasParent(b, v)
        BY <1>2, RootOfSettled DEF Settled
    <2>2. Ancestor(b, v, 0) = v
        BY AncestorFirst
    <2>3. Ancestor(b, v, N) = v
        BY <1>1, <2>1, <2>2, WayEnds
    <2> QED
        BY <1>2, <2>1, <2>3 DEF Settled
  <1>3. CASE Settled(b, x) /\ Settled(b, y)
      BY <1>3, SameRootWithin
  <1>4. CASE ~Settled(b, x) /\ ~Settled(b, y)
      BY <1>4, RootOfSettled
  <1> QED
      BY <1>2, <1>3, <1>4

-----------------------------------------------------------------------------
(* The trees that are newer than one.                                      *)

TreeOf(b, p, x) == Tree(b, p, RootIdFor(b, x))
TreesOf(b, p)   == {Tree(b, p, q) : q \in Roots(b, p)}
AsNew(b, o, X)  == \E m \in o : \A n \in X : b.seen[m] >= b.seen[n]
Newer(b, p, X)  == {o \in TreesOf(b, p) \ {X} : AsNew(b, o, X)}

\* What OnlyOldTreesRemoved says of one session.
OldTree(b, x) ==
    LET p == ProviderOf(x)
    IN  /\ \A m \in TreeOf(b, p, x) : b.seen[m] < Cutoff
        /\ Cardinality(Newer(b, p, TreeOf(b, p, x))) >= b.keep

LEMMA TreesAreOfMembers ==
    ASSUME NEW b, NEW p, NEW x \in Found(b, p)
    PROVE  TreeOf(b, p, x) \in TreesOf(b, p) /\ x \in TreeOf(b, p, x)
  BY DEF TreeOf, TreesOf, Roots, Tree

LEMMA SameTree ==
    ASSUME NEW b, NEW p, NEW x \in Found(b, p), NEW y \in TreeOf(b, p, x)
    PROVE  y \in Found(b, p) /\ RootIdFor(b, y) = RootIdFor(b, x) /\ TreeOf(b, p, y) = TreeOf(b, p, x)
  BY DEF TreeOf, Tree

LEMMA TreesAreFinite ==
    ASSUME NEW b, NEW p, IsFiniteSet(b.found), NEW X
    PROVE  IsFiniteSet(Newer(b, p, X)) /\ Cardinality(Newer(b, p, X)) \in Nat
  <1>1. IsFiniteSet(SUBSET b.found)
      BY FS_SUBSET
  <1>2. Newer(b, p, X) \in SUBSET (SUBSET b.found)
    <2> SUFFICES ASSUME NEW o \in Newer(b, p, X) PROVE o \subseteq b.found
        OBVIOUS
    <2>1. PICK q \in Roots(b, p) : o = Tree(b, p, q)
        BY DEF Newer, TreesOf
    <2> QED
        BY <2>1 DEF Tree, Found
  <1> QED
      BY <1>1, <1>2, FS_Subset, FS_CardinalityType

\* A tree that is as new as another has at most as many newer than itself.
LEMMA NewerThanTheNewer ==
    ASSUME NEW b \in Scans, IsFiniteSet(b.found), NEW p,
           NEW x \in Found(b, p), NEW y \in Found(b, p),
           TreeOf(b, p, y) \in Newer(b, p, TreeOf(b, p, x))
    PROVE  Cardinality(Newer(b, p, TreeOf(b, p, x))) >= Cardinality(Newer(b, p, TreeOf(b, p, y)))
  <1> DEFINE X == TreeOf(b, p, x)
             Y == TreeOf(b, p, y)
             ofX == Newer(b, p, X)
             ofY == Newer(b, p, Y)
  <1>1. \A m \in b.found : b.seen[m] \in Nat
      BY DEF Scans
  <1>2. X \subseteq b.found /\ Y \subseteq b.found
      BY DEF TreeOf, Tree, Found
  <1>3. \A o \in TreesOf(b, p) : o \subseteq b.found
      BY DEF TreesOf, Tree, Found
  <1>4. PICK top \in Y : \A n \in X : b.seen[top] >= b.seen[n]
      BY DEF Newer, AsNew
  <1>5. ASSUME NEW o \in ofY, o # X
        PROVE  o \in ofX
    <2>1. o \in TreesOf(b, p) /\ AsNew(b, o, Y)
        BY DEF Newer
    <2>2. PICK m \in o : \A n \in Y : b.seen[m] >= b.seen[n]
        BY <2>1 DEF AsNew
    <2>3. b.seen[m] \in Nat /\ b.seen[top] \in Nat /\ \A n \in X : b.seen[n] \in Nat
        BY <1>1, <1>2, <1>3, <1>4, <2>1, <2>2
    <2>4. \A n \in X : b.seen[m] >= b.seen[n]
      <3> HIDE DEF X, Y
      <3> QED
          BY <1>4, <2>2, <2>3
    <2>5. AsNew(b, o, X)
        BY <2>4 DEF AsNew
    <2> HIDE DEF X
    <2> QED
        BY <1>5, <2>1, <2>5 DEF Newer
  <1>6. Y \in ofX /\ Y \notin ofY
      BY DEF Newer
  <1>7. IsFiniteSet(ofX) /\ IsFiniteSet(ofY) /\ Cardinality(ofX) \in Nat /\ Cardinality(ofY) \in Nat
      BY TreesAreFinite
  <1> HIDE DEF X, Y, ofX, ofY
  <1> DEFINE rest == ofY \ {X}
  <1>8. /\ IsFiniteSet(rest)
        /\ Cardinality(rest) = IF X \in ofY THEN Cardinality(ofY) - 1 ELSE Cardinality(ofY)
      BY <1>7, FS_RemoveElement
  <1>9. Cardinality(rest \cup {Y}) = Cardinality(rest) + 1
      BY <1>6, <1>8, FS_AddElement
  <1>10. rest \cup {Y} \in SUBSET ofX
      BY <1>5, <1>6
  <1>11. Cardinality(rest \cup {Y}) <= Cardinality(ofX)
      BY <1>7, <1>10, FS_Subset
  <1> HIDE DEF rest
  <1> QED
      BY <1>7, <1>8, <1>9, <1>11 DEF X, Y, ofX, ofY

-----------------------------------------------------------------------------
(* What is eligible in a scan is of an old tree.                           *)

\* Finitely many have a greatest number among them.
LEMMA GreatestExists ==
    ASSUME NEW S, IsFiniteSet(S), S # {}, NEW f, \A s \in S : f[s] \in Nat
    PROVE  \E t \in S : \A u \in S : f[u] <= f[t]
  <1>1. PICK seq \in Seq(S) : \A s \in S : \E n \in 1 .. Len(seq) : seq[n] = s
      BY DEF IsFiniteSet
  <1> DEFINE Below(k, bound) == \A j \in 1 .. Len(seq) : j <= k => f[seq[j]] <= bound
             T == {k \in Nat : \E bound \in Nat : Below(k, bound)}
  <1>2. 0 \in T
      OBVIOUS
  <1>3. ASSUME NEW k \in Nat, k \in T
        PROVE  k + 1 \in T
    <2>1. PICK bound \in Nat : Below(k, bound)
        BY <1>3
    <2>2. CASE k + 1 \in 1 .. Len(seq)
      <3> DEFINE larger == IF f[seq[k + 1]] <= bound THEN bound ELSE f[seq[k + 1]]
      <3>1. \A j \in 1 .. Len(seq) : f[seq[j]] \in Nat
          OBVIOUS
      <3>2. f[seq[k + 1]] \in Nat
          BY <2>2, <3>1
      <3>3. larger \in Nat /\ bound <= larger /\ f[seq[k + 1]] <= larger
          BY <3>2
      <3> HIDE DEF larger
      <3>4. Below(k + 1, larger)
        <4> SUFFICES ASSUME NEW j \in 1 .. Len(seq), j <= k + 1 PROVE f[seq[j]] <= larger
            OBVIOUS
        <4>1. CASE j = k + 1
            BY <3>3, <4>1
        <4>2. CASE j <= k
            BY <2>1, <3>1, <3>3, <4>2
        <4> QED
            BY <4>1, <4>2
      <3> HIDE DEF Below
      <3> QED
          BY <3>3, <3>4
    <2>3. CASE k + 1 \notin 1 .. Len(seq)
      <3>1. Below(k + 1, bound)
          BY <2>1, <2>3
      <3> HIDE DEF Below
      <3> QED
          BY <3>1
    <2> QED
        BY <2>2, <2>3
  <1>4. Len(seq) \in T
    <2> HIDE DEF T
    <2> QED
        BY <1>2, <1>3, NumberByNumber
  <1>5. PICK some \in Nat : \A j \in 1 .. Len(seq) : f[seq[j]] <= some
    <2>1. PICK some \in Nat : Below(Len(seq), some)
        BY <1>4
    <2>2. \A j \in 1 .. Len(seq) : f[seq[j]] <= some
        BY <2>1
    <2> QED
        BY <2>2
  <1> DEFINE Bounds == {bound \in Nat : \A s \in S : f[s] <= bound}
             least == Least(Bounds)
  <1>6. some \in Bounds
      BY <1>1, <1>5
  <1>7. least \in Bounds /\ \A bound \in Bounds : least <= bound
    <2>1. Bounds \in SUBSET Nat /\ Bounds # {}
        BY <1>6
    <2> HIDE DEF Bounds
    <2> QED
        BY <2>1, LeastOfNumbers
  <1> HIDE DEF least
  <1>8. \E t \in S : f[t] = least
    <2> SUFFICES ASSUME \A t \in S : f[t] # least PROVE FALSE
        OBVIOUS
    <2>1. \A t \in S : f[t] <= least - 1
        BY <1>7
    <2>2. least - 1 \in Nat
        BY <1>7, <2>1
    <2>3. least - 1 \in Bounds
        BY <2>1, <2>2
    <2> QED
        BY <1>7, <2>3
  <1> QED
      BY <1>7, <1>8

\* A tree is as new as its newest member, if all were observed.
LEMMA NewestMember ==
    ASSUME NEW sc \in Scans, IsFiniteSet(sc.found), NEW p, NEW q \in Roots(sc, p),
           \A m \in Found(sc, p) : sc.seen[m] # 0
    PROVE  \E top \in Tree(sc, p, q) :
              /\ EffectiveMtime(sc, p, q) = sc.seen[top]
              /\ \A m \in Tree(sc, p, q) : sc.seen[m] <= sc.seen[top]
  <1> DEFINE tree  == Tree(sc, p, q)
             times == {sc.seen[m] : m \in tree}
  <1>1. tree # {} /\ tree \in SUBSET sc.found /\ \A m \in tree : sc.seen[m] # 0
      BY DEF Roots, Tree, Found
  <1>2. \A m \in tree : sc.seen[m] \in Nat
      BY <1>1 DEF Scans
  <1>3. IsFiniteSet(tree)
      BY <1>1, FS_Subset
  <1> HIDE DEF tree
  <1>4. PICK t \in tree : \A u \in tree : sc.seen[u] <= sc.seen[t]
      BY <1>1, <1>2, <1>3, GreatestExists
  <1>5. 0 \notin times
      BY <1>1
  <1> DEFINE last == CHOOSE v \in times : \A u \in times : u <= v
  <1>6. last \in times /\ \A u \in times : u <= last
    <2>1. sc.seen[t] \in times /\ \A u \in times : u <= sc.seen[t]
        BY <1>4
    <2> HIDE DEF times
    <2> QED
        BY <2>1
  <1>7. EffectiveMtime(sc, p, q) = last
      BY <1>5 DEF EffectiveMtime, tree
  <1> HIDE DEF last
  <1>8. PICK top \in tree : last = sc.seen[top]
      BY <1>6
  <1>9. \A m \in tree : sc.seen[m] <= sc.seen[top]
      BY <1>6, <1>8
  <1> QED
      BY <1>7, <1>8, <1>9 DEF tree

\* sc is a complete scan of p's sessions but the lost ones, and their times are
\* those of b.
Surveys(sc, b, p, lost) ==
    /\ Within(sc, b, p)
    /\ \A x \in Found(b, p) : x \in sc.found \/ x \in lost
    /\ \A x \in Found(sc, p) : sc.seen[x] = b.seen[x] /\ sc.seen[x] # 0

\* A tree of which nothing was lost was found as a whole.
LEMMA NothingLostAllFound ==
    ASSUME NEW sc, NEW b, NEW p, NEW lost, Surveys(sc, b, p, lost), NEW x \in Found(b, p),
           TreeOf(b, p, x) \cap lost = {}
    PROVE  AllFound(sc, b, p, RootIdFor(b, x))
  BY DEF Surveys, AllFound, TreeOf, Tree

\* The trees that a scan prefers to that of s are as many trees of b as new as
\* that of s, unless one of them has lost a member.
LEMMA PreferredAreNewer ==
    ASSUME NEW sc \in Scans, NEW b \in Scans, NEW p, NEW lost, Surveys(sc, b, p, lost),
           NEW s \in Found(sc, p), TreeOf(b, p, s) \cap lost = {},
           \A x \in Found(b, p) : TreeOf(b, p, x) \in Newer(b, p, TreeOf(b, p, s))
                                  => TreeOf(b, p, x) \cap lost = {},
           RootIdFor(sc, s) \notin ProtectedRoots(sc, p)
    PROVE  Cardinality(Newer(b, p, TreeOf(b, p, s))) >= sc.keep
  <1> DEFINE root == RootIdFor(sc, s)
             X == TreeOf(b, p, s)
             Q == {q \in Roots(sc, p) : Precedes(sc, p, q, root)}
             IsTop(q, m) == /\ m \in Tree(sc, p, q)
                            /\ EffectiveMtime(sc, p, q) = sc.seen[m]
                            /\ \A n \in Tree(sc, p, q) : sc.seen[n] <= sc.seen[m]
             Top(q) == CHOOSE m : IsTop(q, m)
             f == [q \in Q |-> TreeOf(b, p, Top(q))]
  <1>1. IsFiniteSet(b.found) /\ IsFiniteSet(sc.found) /\ sc.found \subseteq b.found
    <2>1. IsFiniteSet(b.found) /\ sc.found \in SUBSET b.found
        BY DEF Surveys, Within
    <2> QED
        BY <2>1, FS_Subset
  <1>2. Found(sc, p) \subseteq Found(b, p) /\ s \in Found(b, p)
      BY <1>1 DEF Found
  <1>3. \A m \in Found(sc, p) : sc.seen[m] # 0 /\ sc.seen[m] = b.seen[m] /\ sc.seen[m] \in Nat
      BY DEF Surveys, Scans, Found
  <1>4. root \in Roots(sc, p)
      BY DEF Roots
  <1>5. ~(Cardinality(Q) < sc.keep) /\ sc.keep \in Nat
      BY <1>4 DEF ProtectedRoots, Scans
  <1>6. \A q \in Roots(sc, p) : IsTop(q, Top(q))
    <2> SUFFICES ASSUME NEW q \in Roots(sc, p) PROVE IsTop(q, Top(q))
        OBVIOUS
    <2>1. \E m : IsTop(q, m)
        BY <1>1, <1>3, NewestMember
    <2> HIDE DEF IsTop
    <2> QED
        BY <2>1, Zenon
  <1> HIDE DEF Top
  <1>7. \A x \in X : x \in Tree(sc, p, root)
    <2> SUFFICES ASSUME NEW x \in X PROVE x \in Tree(sc, p, root)
        OBVIOUS
    <2>1. x \in Found(b, p) /\ RootIdFor(b, x) = RootIdFor(b, s)
        BY <1>2, SameTree
    <2>2. AllFound(sc, b, p, RootIdFor(b, s))
        BY <1>2, NothingLostAllFound
    <2>3. RootIdFor(sc, x) = RootIdFor(sc, s)
        BY <1>2, <2>1, <2>2, WholeTreesStayWhole DEF Surveys
    <2>4. x \in Found(sc, p)
        BY <2>1, <2>2 DEF AllFound, Tree, Found
    <2> QED
        BY <2>3, <2>4 DEF Tree
  <1>8. ASSUME NEW q \in Q
        PROVE  /\ Top(q) \in Found(sc, p) /\ Top(q) \in Found(b, p) /\ RootIdFor(sc, Top(q)) = q
               /\ \A n \in X : b.seen[Top(q)] >= b.seen[n]
               /\ q # root
    <2>1. q \in Roots(sc, p) /\ Precedes(sc, p, q, root)
        OBVIOUS
    <2>2. IsTop(q, Top(q)) /\ IsTop(root, Top(root))
        BY <1>4, <1>6, <2>1
    <2>3. Top(q) \in Found(sc, p) /\ RootIdFor(sc, Top(q)) = q /\ Top(root) \in Found(sc, p)
        BY <2>2 DEF Tree
    <2>4. sc.seen[Top(q)] \in Nat /\ sc.seen[Top(root)] \in Nat
        BY <1>3, <2>3
    <2>5. \A r \in Roots(sc, p) : FirstOf(sc, p, r) \in Nat
      <3> SUFFICES ASSUME NEW r \in Roots(sc, p) PROVE FirstOf(sc, p, r) \in Nat
          OBVIOUS
      <3>1. Tree(sc, p, r) \in SUBSET Nat /\ Tree(sc, p, r) # {}
          BY RetentionAssumption DEF Roots, Tree, Found, Of
      <3> QED
          BY <3>1, LeastOfNumbers DEF FirstOf
    <2>6. q # root /\ sc.seen[Top(q)] >= sc.seen[Top(root)]
        BY <1>4, <2>1, <2>2, <2>4, <2>5 DEF Precedes
    <2>7. \A n \in X : b.seen[Top(q)] >= b.seen[n]
      <3> SUFFICES ASSUME NEW n \in X PROVE b.seen[Top(q)] >= b.seen[n]
          OBVIOUS
      <3>1. n \in Tree(sc, p, root) /\ n \in Found(sc, p)
          BY <1>7 DEF Tree
      <3>2. sc.seen[n] <= sc.seen[Top(root)] /\ sc.seen[n] \in Nat /\ sc.seen[n] = b.seen[n]
          BY <1>3, <2>2, <3>1
      <3>3. sc.seen[Top(q)] = b.seen[Top(q)]
          BY <1>3, <2>3
      <3> QED
          BY <2>4, <2>6, <3>2, <3>3
    <2> QED
        BY <1>2, <2>3, <2>6, <2>7
  <1>9. ASSUME NEW q \in Q
        PROVE  f[q] \in Newer(b, p, X)
    <2> DEFINE m == Top(q)
    <2>1. m \in Found(b, p) /\ m \in Found(sc, p) /\ RootIdFor(sc, m) = q /\ q # root
          /\ \A n \in X : b.seen[m] >= b.seen[n]
        BY <1>8
    <2> HIDE DEF m
    <2>2. TreeOf(b, p, m) \in TreesOf(b, p) /\ m \in TreeOf(b, p, m)
        BY <2>1, TreesAreOfMembers
    <2>3. TreeOf(b, p, m) # X
      <3> SUFFICES ASSUME TreeOf(b, p, m) = X PROVE FALSE
          OBVIOUS
      <3>1. m \in Tree(sc, p, root)
          BY <1>7, <2>2
      <3> QED
          BY <2>1, <3>1 DEF Tree
    <2>4. AsNew(b, TreeOf(b, p, m), X)
        BY <2>1, <2>2 DEF AsNew
    <2>5. TreeOf(b, p, m) \in Newer(b, p, X)
      <3> HIDE DEF X
      <3> QED
          BY <2>2, <2>3, <2>4 DEF Newer
    <2> QED
        BY <2>5 DEF m
  <1>10. ASSUME NEW q \in Q, NEW r \in Q, f[q] = f[r]
         PROVE  q = r
    <2>1. /\ Top(q) \in Found(b, p) /\ RootIdFor(sc, Top(q)) = q
          /\ Top(r) \in Found(b, p) /\ RootIdFor(sc, Top(r)) = r
        BY <1>8
    <2>2. TreeOf(b, p, Top(q)) \in Newer(b, p, X) /\ TreeOf(b, p, Top(q)) = TreeOf(b, p, Top(r))
        BY <1>9, <1>10
    <2>3. AllFound(sc, b, p, RootIdFor(b, Top(q)))
        BY <2>1, <2>2, NothingLostAllFound
    <2>4. Top(r) \in TreeOf(b, p, Top(q))
        BY <2>1, <2>2, TreesAreOfMembers
    <2>5. RootIdFor(b, Top(r)) = RootIdFor(b, Top(q))
        BY <2>1, <2>4, SameTree
    <2>6. RootIdFor(sc, Top(q)) = RootIdFor(sc, Top(r))
        BY <2>1, <2>3, <2>5, WholeTreesStayWhole DEF Surveys
    <2> QED
        BY <2>1, <2>6
  <1>11. f \in Injection(Q, Newer(b, p, X))
    <2>1. f \in [Q -> Newer(b, p, X)]
        BY <1>9
    <2> HIDE DEF f, Q
    <2> QED
        BY <1>10, <2>1 DEF Injection, IsInjective
  <1>12. /\ IsFiniteSet(Newer(b, p, X)) /\ Cardinality(Newer(b, p, X)) \in Nat
      BY <1>1, TreesAreFinite
  <1>13. IsFiniteSet(Q) /\ Cardinality(Q) <= Cardinality(Newer(b, p, X))
    <2> HIDE DEF f, Q, X
    <2> QED
        BY <1>11, <1>12, FS_Injection
  <1>14. Cardinality(Q) \in Nat
    <2> HIDE DEF Q
    <2> QED
        BY <1>13, FS_CardinalityType
  <1> QED
      BY <1>5, <1>12, <1>13, <1>14

\* If what was lost was of old trees, what is eligible now is: its tree is whole,
\* or what it has lost was of the same tree, or a newer one has lost something.
LEMMA EligibleIsOfAnOldTree ==
    ASSUME NEW sc \in Scans, NEW b \in Scans, NEW lost \in SUBSET Sessions,
           NEW s \in Sessions, Surveys(sc, b, ProviderOf(s), lost),
           b.keep = sc.keep, lost \subseteq b.found,
           \A x \in lost : OldTree(b, x),
           BuildActions(sc)[s] = "delete"
    PROVE  OldTree(b, s)
  <1> DEFINE p == ProviderOf(s)
             X == TreeOf(b, p, s)
  <1>1. /\ s \in sc.found /\ RootIdFor(sc, s) \notin ProtectedRoots(sc, p)
        /\ sc.seen[s] # 0 /\ sc.seen[s] < Cutoff
        /\ ~TreeRecent(sc, p, RootIdFor(sc, s))
      BY OnlyOldUnprotectedIsProposed
  <1>2. s \in Found(sc, p) /\ s \in Found(b, p) /\ sc.found \subseteq b.found /\ p \in Providers
        /\ IsFiniteSet(b.found)
      BY <1>1, ProviderOfASession DEF Surveys, Within, Found
  <1>3. \A x \in Found(b, p) : ProviderOf(x) = p
    <2>1. \A x \in Codex : x \notin Claude
        BY RetentionAssumption
    <2>2. \A x \in Found(b, p) : x \in Of(p)
        BY DEF Found
    <2> HIDE DEF p
    <2> QED
        BY <1>2, <2>1, <2>2 DEF Of, ProviderOf, Providers
  <1>4. ASSUME NEW x \in X \cap lost
        PROVE  OldTree(b, s)
    <2>1. x \in Found(b, p) /\ TreeOf(b, p, x) = X
        BY <1>2, SameTree
    <2>2. ProviderOf(x) = p /\ OldTree(b, x)
        BY <1>3, <1>4, <2>1
    <2> QED
        BY <2>1, <2>2 DEF OldTree
  <1>5. ASSUME X \cap lost = {}
        PROVE  OldTree(b, s)
    <2> DEFINE keeps == Cardinality(Newer(b, p, X)) >= b.keep
               old   == \A m \in X : b.seen[m] < Cutoff
    <2>1. old
      <3> SUFFICES ASSUME NEW m \in X PROVE b.seen[m] < Cutoff
          OBVIOUS
      <3>1. m \in Found(b, p) /\ RootIdFor(b, m) = RootIdFor(b, s)
          BY <1>2, SameTree
      <3>2. AllFound(sc, b, p, RootIdFor(b, s))
          BY <1>2, <1>5, NothingLostAllFound
      <3>3. RootIdFor(sc, m) = RootIdFor(sc, s)
          BY <1>2, <3>1, <3>2, WholeTreesStayWhole DEF Surveys
      <3>4. m \in Found(sc, p)
          BY <3>1, <3>2 DEF AllFound, Tree, Found
      <3>5. m \in Tree(sc, p, RootIdFor(sc, s)) /\ RootIdFor(sc, s) \in Roots(sc, p)
          BY <1>2, <3>3, <3>4 DEF Tree, Roots
      <3>6. IsFiniteSet(sc.found)
        <4>1. sc.found \in SUBSET b.found
            BY <1>2
        <4> QED
            BY <1>2, <4>1, FS_Subset
      <3>7. PICK top \in Tree(sc, p, RootIdFor(sc, s)) :
                /\ EffectiveMtime(sc, p, RootIdFor(sc, s)) = sc.seen[top]
                /\ \A n \in Tree(sc, p, RootIdFor(sc, s)) : sc.seen[n] <= sc.seen[top]
          BY <3>5, <3>6, NewestMember DEF Surveys
      <3>8. sc.seen[m] <= sc.seen[top] /\ ~(sc.seen[top] >= Cutoff)
          BY <1>1, <3>5, <3>7 DEF TreeRecent
      <3>9. sc.seen[m] \in Nat /\ sc.seen[top] \in Nat /\ Cutoff \in Nat /\ sc.seen[m] = b.seen[m]
          BY <3>4, <3>7, RetentionAssumption DEF Scans, Found, Tree, Surveys
      <3> QED
          BY <3>8, <3>9
    <2>2. ASSUME NEW x \in Found(b, p), TreeOf(b, p, x) \in Newer(b, p, X),
                 TreeOf(b, p, x) \cap lost # {}
          PROVE  keeps
      <3>1. PICK y \in TreeOf(b, p, x) : y \in lost
          BY <2>2
      <3>2. y \in Found(b, p) /\ TreeOf(b, p, y) = TreeOf(b, p, x)
          BY SameTree
      <3>3. ProviderOf(y) = p /\ OldTree(b, y)
          BY <1>3, <3>1, <3>2
      <3>4. Cardinality(Newer(b, p, TreeOf(b, p, y))) >= b.keep
          BY <3>3 DEF OldTree
      <3>5. Cardinality(Newer(b, p, X)) >= Cardinality(Newer(b, p, TreeOf(b, p, y)))
          BY <1>2, <2>2, <3>2, NewerThanTheNewer
      <3>6. /\ Cardinality(Newer(b, p, X)) \in Nat /\ b.keep \in Nat
            /\ Cardinality(Newer(b, p, TreeOf(b, p, y))) \in Nat
          BY <1>2, TreesAreFinite DEF Scans
      <3> QED
          BY <3>4, <3>5, <3>6
    <2>3. ASSUME \A x \in Found(b, p) :
                     TreeOf(b, p, x) \in Newer(b, p, X) => TreeOf(b, p, x) \cap lost = {}
          PROVE  keeps
        BY <1>1, <1>2, <1>5, <2>3, PreferredAreNewer
    <2>4. keeps
        BY <2>2, <2>3
    <2> QED
        BY <2>1, <2>4 DEF OldTree
  <1> QED
      BY <1>4, <1>5

-----------------------------------------------------------------------------
(* The scans of all runs, against what stood before the first.             *)

Lost == {x.session : x \in removed}

\* What a scan has gathered at each step, in whatever surroundings.
Standing ==
    /\ parent \in Families /\ scan.keep = flags.keepLatest
    /\ \A s \in scan.found : scan.parent[s] = parent[s]
    /\ unread \subseteq scan.found
    /\ pc \notin {"codex-process", "codex-times"} => unread = {}
    /\ pc = "claude-discover" => scan.found = {} /\ \A s \in Sessions : scan.parent[s] = 0
    /\ pc \in {"claude-process", "codex-discover"} => scan.found \subseteq Claude

\* A session that is not there was removed, once; and what was read of a time is
\* the time.
DiskIsAccounted ==
    /\ \A s \in Sessions : disk[s] = 0 <=> s \in Lost
    /\ \A x, y \in removed : x.session = y.session => x.time = y.time

ScanIsAccounted ==
    /\ \A s \in unread : disk[s] # 0
    /\ \A p \in Providers :
          scan.complete[p] /\ Found(scan, p) # {} => \A s \in Of(p) : s \in scan.found \/ s \in Lost
    /\ ~blind => \A s \in scan.found \ unread : scan.seen[s] = Before.seen[s] /\ scan.seen[s] # 0

LostWereOld == ~blind => \A s \in Lost : OldTree(Before, s)

OldInv == Standing /\ (changes = 0 => DiskIsAccounted /\ ScanIsAccounted /\ LostWereOld)

\* What the property says is said of the same trees here.
LEMMA OldInvImplies ==
    ASSUME OldInv
    PROVE  OnlyOldTreesRemoved
  <1> SUFFICES ASSUME changes = 0, ~blind, NEW x \in removed
               PROVE  LET p      == ProviderOf(x.session)
                          tree   == Tree(Before, p, RootIdFor(Before, x.session))
                          others == {Tree(Before, p, q) : q \in Roots(Before, p)} \ {tree}
                      IN  /\ \A m \in tree : Before.seen[m] < Cutoff
                          /\ Cardinality({other \in others :
                                \E m \in other : \A n \in tree :
                                    Before.seen[m] >= Before.seen[n]}) >= flags.keepLatest
      BY DEF OnlyOldTreesRemoved
  <1>1. OldTree(Before, x.session)
      BY DEF OldInv, LostWereOld, Lost
  <1>2. Before.keep = flags.keepLatest
      BY DEF Before
  <1> QED
      BY <1>1, <1>2 DEF OldTree, TreeOf, TreesOf, Newer, AsNew

-----------------------------------------------------------------------------
(* What stood before.                                                      *)

ScanOf(keep, seen, family) ==
    [keep |-> keep, found |-> Sessions,
     complete |-> [p \in Providers |-> TRUE], active |-> [p \in Providers |-> FALSE],
     seen |-> seen, parent |-> family]

LEMMA BeforeFields ==
    /\ Before.found = Sessions /\ Before.parent = parent /\ Before.keep = flags.keepLatest
    /\ Before.seen = [s \in Sessions |-> TimeBefore(s)]
    /\ Before = ScanOf(flags.keepLatest, [s \in Sessions |-> TimeBefore(s)], parent)
    /\ Before' = ScanOf(flags'.keepLatest, [s \in Sessions |-> TimeBefore(s)'], parent')
  <1>1. Before = ScanOf(flags.keepLatest, [s \in Sessions |-> TimeBefore(s)], parent)
      BY DEF Before, ScanOf
  <1>2. Before' = ScanOf(flags'.keepLatest, [s \in Sessions |-> TimeBefore(s)'], parent')
      BY DEF Before, ScanOf
  <1> QED
      BY <1>1, <1>2 DEF ScanOf

LEMMA TimesBefore ==
    ASSUME TypeOK, DiskIsAccounted, NEW s \in Sessions
    PROVE  /\ TimeBefore(s) \in Nat
           /\ \A x \in removed : x.session = s => TimeBefore(s) = x.time
  <1>1. \A x \in removed : x.time \in Nat
      BY DEF TypeOK
  <1>2. CASE disk[s] # 0
    <2>1. \A x \in removed : x.session # s
        BY <1>2 DEF DiskIsAccounted, Lost
    <2>2. disk[s] \in Nat
        BY CleanAssumption DEF TypeOK
    <2> QED
        BY <1>2, <2>1, <2>2 DEF TimeBefore
  <1>3. CASE disk[s] = 0
    <2> DEFINE y == CHOOSE x \in removed : x.session = s
    <2>1. \E x \in removed : x.session = s
        BY <1>3 DEF DiskIsAccounted, Lost
    <2>2. y \in removed /\ y.session = s
        BY <2>1
    <2>3. TimeBefore(s) = y.time
        BY <1>3 DEF TimeBefore
    <2> HIDE DEF y
    <2> QED
        BY <1>1, <2>2, <2>3 DEF DiskIsAccounted
  <1> QED
      BY <1>2, <1>3

LEMMA BeforeIsAScan ==
    ASSUME TypeOK, DiskIsAccounted
    PROVE  Before \in Scans /\ IsFiniteSet(Before.found)
  <1>1. [s \in Sessions |-> TimeBefore(s)] \in [Sessions -> Nat]
      BY TimesBefore
  <1>2. /\ parent \in [Sessions -> Sessions \cup {0}] /\ flags.keepLatest \in Nat
      BY DEF TypeOK, Flags
  <1>3. Before \in Scans
      BY <1>1, <1>2, BeforeFields DEF Scans, ScanOf
  <1>4. IsFiniteSet(Sessions)
      BY RetentionAssumption, FS_Union DEF Sessions
  <1> QED
      BY <1>3, <1>4, BeforeFields

LEMMA BeforeStays ==
    ASSUME UNCHANGED <<disk, parent, flags, removed>>
    PROVE  Before' = Before /\ Lost' = Lost
  <1>1. \A s : TimeBefore(s)' = TimeBefore(s)
      BY DEF TimeBefore
  <1>2. [s \in Sessions |-> TimeBefore(s)'] = [s \in Sessions |-> TimeBefore(s)]
      BY <1>1
  <1> QED
      BY <1>2, BeforeFields DEF Lost

\* The runs' own removals leave what stood before the first as it was.
LEMMA RemovalKeepsBefore ==
    ASSUME TypeOK, DiskIsAccounted, NEW s \in Sessions, Remove(s), disk[s] # 0,
           UNCHANGED <<parent, flags>>
    PROVE  Before' = Before /\ DiskIsAccounted' /\ Lost' = Lost \cup {s}
  <1>1. /\ disk' = [disk EXCEPT ![s] = 0] /\ removed' = removed \cup {Removal(s)}
        /\ disk \in [Sessions -> 0 .. Now]
      BY DEF Remove, TypeOK
  <1>2. Removal(s).session = s /\ Removal(s).time = disk[s]
      BY DEF Removal
  <1>3. Lost' = Lost \cup {s}
      BY <1>1, <1>2 DEF Lost
  <1>4. s \notin Lost /\ \A x \in removed : x.session # s
      BY DEF DiskIsAccounted, Lost
  <1>5. \A t \in Sessions : disk'[t] = IF t = s THEN 0 ELSE disk[t]
      BY <1>1
  <1>6. DiskIsAccounted'
    <2>1. \A t \in Sessions : disk'[t] = 0 <=> t \in Lost'
        BY <1>3, <1>5 DEF DiskIsAccounted
    <2>2. ASSUME NEW x \in removed', NEW y \in removed', x.session = y.session
          PROVE  x.time = y.time
        BY <1>1, <1>2, <1>4, <2>2 DEF DiskIsAccounted
    <2> QED
        BY <2>1, <2>2 DEF DiskIsAccounted
  <1>7. ASSUME NEW t \in Sessions
        PROVE  TimeBefore(t)' = TimeBefore(t)
    <2>1. CASE t # s /\ disk[t] # 0
        BY <1>5, <2>1 DEF TimeBefore
    <2>2. CASE t = s \/ disk[t] = 0
      <3> DEFINE new == CHOOSE x \in removed' : x.session = t
      <3>1. disk'[t] = 0
          BY <1>5, <2>2
      <3>2. TimeBefore(t)' = new.time
          BY <3>1 DEF TimeBefore
      <3>3. \E x \in removed' : x.session = t
          BY <1>6, <3>1 DEF DiskIsAccounted, Lost
      <3>4. new \in removed' /\ new.session = t
          BY <3>3
      <3> HIDE DEF new
      <3>5. CASE t = s
        <4>1. new = Removal(s)
            BY <1>1, <1>4, <3>4, <3>5
        <4> QED
            BY <1>2, <3>2, <3>5, <4>1 DEF TimeBefore
      <3>6. CASE t # s
        <4>1. new \in removed
            BY <1>1, <1>2, <3>4, <3>6
        <4> QED
            BY <3>2, <3>4, <4>1, TimesBefore
      <3> QED
          BY <3>5, <3>6
    <2> QED
        BY <2>1, <2>2
  <1>8. [t \in Sessions |-> TimeBefore(t)'] = [t \in Sessions |-> TimeBefore(t)]
      BY <1>7
  <1> QED
      BY <1>3, <1>6, <1>8, BeforeFields

-----------------------------------------------------------------------------
(* The steps.                                                              *)

\* A step that leaves the scan and the disk alone.
LEMMA StandsStill ==
    ASSUME OldInv, UNCHANGED <<disk, parent, changes, flags, scan, unread, removed, blind>>,
           \/ pc' = pc
           \/ /\ pc \notin {"codex-process", "codex-times"}
              /\ pc' \notin {"claude-discover", "claude-process", "codex-discover"}
    PROVE  OldInv'
  <1>1. Before' = Before /\ Lost' = Lost
      BY BeforeStays
  <1>2. Standing'
      BY DEF OldInv, Standing
  <1>3. changes = 0 => DiskIsAccounted' /\ ScanIsAccounted' /\ LostWereOld'
    <2> SUFFICES ASSUME changes = 0 PROVE DiskIsAccounted' /\ ScanIsAccounted' /\ LostWereOld'
        OBVIOUS
    <2>1. DiskIsAccounted'
        BY <1>1 DEF OldInv, DiskIsAccounted
    <2>2. ScanIsAccounted'
        BY <1>1 DEF OldInv, ScanIsAccounted
    <2>3. LostWereOld'
        BY <1>1 DEF OldInv, LostWereOld
    <2> QED
        BY <2>1, <2>2, <2>3
  <1> QED
      BY <1>2, <1>3 DEF OldInv

\* A process starts, or dies: it holds nothing.
LEMMA BlankStands ==
    ASSUME OldInv, NEW step, Blank(step), UNCHANGED <<aroundVars, flags, removed, blind>>
    PROVE  OldInv'
  <1>1. UNCHANGED <<disk, parent, changes, flags, removed, blind>>
      BY DEF aroundVars
  <1>2. Before' = Before /\ Lost' = Lost
      BY <1>1, BeforeStays
  <1>3. /\ scan'.found = {} /\ scan'.keep = flags'.keepLatest /\ unread' = {}
        /\ \A s \in Sessions : scan'.parent[s] = 0
      BY <1>1 DEF Blank, EmptyScan
  <1>4. Standing'
      BY <1>1, <1>3 DEF OldInv, Standing
  <1>5. changes = 0 => DiskIsAccounted' /\ ScanIsAccounted' /\ LostWereOld'
    <2> SUFFICES ASSUME changes = 0 PROVE DiskIsAccounted' /\ ScanIsAccounted' /\ LostWereOld'
        OBVIOUS
    <2>1. DiskIsAccounted'
        BY <1>1, <1>2 DEF OldInv, DiskIsAccounted
    <2>2. ScanIsAccounted'
        BY <1>3 DEF ScanIsAccounted, Found
    <2>3. LostWereOld'
        BY <1>1, <1>2 DEF OldInv, LostWereOld
    <2> QED
        BY <2>1, <2>2, <2>3
  <1> QED
      BY <1>1, <1>4, <1>5 DEF OldInv

\* Once the surroundings have changed anything, nothing is claimed.
LEMMA SurroundingsStand ==
    ASSUME TypeOK, OldInv, Surroundings
    PROVE  OldInv'
  <1>1. UNCHANGED ownVars
      BY SurroundingsLeave
  <1>2. UNCHANGED <<parent, flags, pc, scan, unread>>
      BY <1>1 DEF ownVars, planVars
  <1>3. changes' # 0
    <2>1. Around
        BY DEF Surroundings, Written, Vanished, StartedOrStopped, NoticeInstalledOrLifted
    <2> QED
        BY <2>1 DEF Around, TypeOK
  <1>4. Standing'
      BY <1>2 DEF OldInv, Standing
  <1> QED
      BY <1>3, <1>4 DEF OldInv

\* A rollout's header names a rollout, if anything; a Claude session none.
LEMMA HeadersAreOfTheProvider ==
    ASSUME Standing, NEW s \in Sessions
    PROVE  /\ s \in Claude => s \notin Codex /\ parent[s] = 0
           /\ s \in Codex => s \notin Claude /\ parent[s] \in Codex \cup {0}
  <1>1. \A x \in Claude : x \notin Codex
      BY RetentionAssumption
  <1>2. parent[s] \in IF s \in Codex THEN Codex \cup {0} ELSE {0}
      BY CleanAssumption DEF Standing
  <1> QED
      BY <1>1, <1>2

\* What a walk found is there; if it saw everything, it found all that is.
LEMMA DiscoveredIsThere ==
    ASSUME NEW p, NEW d \in Discovered(p)
    PROVE  /\ d[2] \subseteq Of(p) /\ \A s \in d[2] : disk[s] # 0
           /\ d[1] => \A s \in Of(p) : disk[s] # 0 => s \in d[2]
  <1> DEFINE there == {s \in Of(p) : disk[s] # 0}
  <1>1. d = <<TRUE, there>> \/ d \in {<<FALSE, some>> : some \in SUBSET there}
      BY DEF Discovered
  <1>2. CASE d = <<TRUE, there>>
    <2>1. d[2] = there
        BY <1>2
    <2> QED
        BY <2>1
  <1>3. CASE d \in {<<FALSE, some>> : some \in SUBSET there}
    <2>1. PICK some \in SUBSET there : d = <<FALSE, some>>
        BY <1>3
    <2>2. d[1] = FALSE /\ d[2] = some
        BY <2>1
    <2>3. ~ d[1]
        BY <2>2
    <2>4. d[2] \subseteq there
        BY <2>1, <2>2
    <2> QED
        BY <2>3, <2>4
  <1> QED
      BY <1>1, <1>2, <1>3

\* A step of a scan: what it still claims of times, sessions and parents.
LEMMA ScanStepStands ==
    ASSUME TypeOK, OldInv, UNCHANGED <<aroundVars, flags, removed>>, blind => blind',
           Standing', changes = 0 => ScanIsAccounted'
    PROVE  OldInv'
  <1>1. UNCHANGED <<disk, parent, changes, flags, removed>>
      BY DEF aroundVars
  <1>2. Before' = Before /\ Lost' = Lost
      BY <1>1, BeforeStays
  <1>3. changes = 0 => DiskIsAccounted' /\ LostWereOld'
      BY <1>1, <1>2 DEF OldInv, DiskIsAccounted, LostWereOld
  <1> QED
      BY <1>1, <1>3 DEF OldInv

LEMMA ClaudeDiscoverStands ==
    ASSUME TypeOK, OldInv, ClaudeDiscover
    PROVE  OldInv'
  <1>1. pc = "claude-discover" /\ UNCHANGED <<aroundVars, flags, removed, blind, unread>>
      BY DEF ClaudeDiscover, ghostVars
  <1>2. UNCHANGED <<disk, parent, changes, flags, removed, blind, unread>>
      BY <1>1 DEF aroundVars
  <1>3. /\ scan.found = {} /\ unread = {} /\ scan.keep = flags.keepLatest /\ parent \in Families
        /\ \A s \in Sessions : scan.parent[s] = 0
      BY <1>1 DEF OldInv, Standing
  <1>4. Before' = Before /\ Lost' = Lost
      BY <1>2, BeforeStays
  <1>5. CASE "claude-code" \notin flags.scope
    <2>1. scan' = scan /\ pc' = "codex-discover"
        BY <1>5 DEF ClaudeDiscover
    <2>2. Standing'
        BY <1>2, <1>3, <2>1 DEF Standing
    <2>3. ScanIsAccounted'
        BY <1>2, <1>3, <2>1 DEF ScanIsAccounted, Found
    <2> QED
        BY <1>1, <2>2, <2>3, ScanStepStands
  <1>6. CASE "claude-code" \in flags.scope
    <2>1. PICK d \in Discovered("claude-code") :
              scan' = [scan EXCEPT
                     !.found = d[2],
                     !.complete["claude-code"] = d[1],
                     !.seen = [s \in Sessions |-> IF s \in d[2] THEN disk[s] ELSE 0]]
        BY <1>6 DEF ClaudeDiscover
    <2>2. pc' = "claude-process"
        BY <1>6 DEF ClaudeDiscover
    <2>3. /\ d[2] \subseteq Claude /\ \A s \in d[2] : disk[s] # 0
          /\ d[1] => \A s \in Claude : disk[s] # 0 => s \in d[2]
        BY DiscoveredIsThere DEF Of
    <2>4. Claude \subseteq Sessions
        BY DEF Sessions
    <2>5. scan \in Scans /\ scan' \in Scans
        BY ScanStaysTyped DEF TypeOK
    <2>6. /\ scan'.found = d[2] /\ scan'.keep = scan.keep /\ scan'.parent = scan.parent
          /\ scan'.complete["claude-code"] = d[1]
          /\ \A s \in Sessions : scan'.seen[s] = IF s \in d[2] THEN disk[s] ELSE 0
        BY <2>1, <2>5 DEF Scans, Providers
    <2>7. Standing'
      <3>1. \A s \in d[2] : scan'.parent[s] = parent[s]
          BY <1>3, <2>3, <2>4, <2>6, HeadersAreOfTheProvider DEF OldInv
      <3> QED
          BY <1>2, <1>3, <2>2, <2>3, <2>6, <3>1 DEF Standing
    <2>8. ASSUME changes = 0 PROVE ScanIsAccounted'
      <3>1. DiskIsAccounted
          BY <2>8 DEF OldInv
      <3>2. ASSUME NEW p \in Providers, scan'.complete[p], Found(scan', p) # {}
            PROVE  \A s \in Of(p) : s \in scan'.found \/ s \in Lost'
        <4>1. PICK u \in Found(scan', p) : TRUE
            BY <3>2
        <4>2. u \in Claude /\ u \in Of(p)
            BY <2>3, <2>6, <4>1 DEF Found
        <4>3. p = "claude-code"
            BY <4>2, RetentionAssumption DEF Of
        <4>4. d[1] /\ Of(p) = Claude
            BY <2>6, <3>2, <4>3 DEF Of
        <4> QED
            BY <1>4, <2>3, <2>4, <2>6, <3>1, <4>4 DEF DiskIsAccounted
      <3>3. \A s \in scan'.found : scan'.seen[s] = Before'.seen[s] /\ scan'.seen[s] # 0
        <4> SUFFICES ASSUME NEW s \in scan'.found
                     PROVE  scan'.seen[s] = Before'.seen[s] /\ scan'.seen[s] # 0
            OBVIOUS
        <4>1. s \in Sessions /\ s \in d[2] /\ disk[s] # 0
            BY <2>3, <2>4, <2>6
        <4>2. Before.seen[s] = disk[s]
            BY <4>1, BeforeFields DEF TimeBefore
        <4> QED
            BY <1>4, <2>6, <4>1, <4>2
      <3> QED
          BY <1>2, <1>3, <3>2, <3>3 DEF ScanIsAccounted
    <2> QED
        BY <1>1, <2>7, <2>8, ScanStepStands
  <1> QED
      BY <1>5, <1>6

LEMMA ObserveProcessStands ==
    ASSUME TypeOK, OldInv, ClaudeProcess \/ CodexProcess
    PROVE  OldInv'
  <1>1. PICK p \in Providers :
            \E a \in ProcessActive(p) : scan' = [scan EXCEPT !.active[p] = a]
      BY DEF ClaudeProcess, CodexProcess, ObserveProcess, Providers
  <1>2. /\ UNCHANGED <<aroundVars, flags, removed, blind, unread>>
        /\ \/ pc = "claude-process" /\ pc' = "codex-discover"
           \/ pc = "codex-process" /\ pc' = "codex-times"
      BY DEF ClaudeProcess, CodexProcess, ObserveProcess, ghostVars
  <1>3. UNCHANGED <<disk, parent, changes, flags, removed, blind, unread>>
      BY <1>2 DEF aroundVars
  <1>4. scan \in Scans
      BY DEF TypeOK
  <1>5. /\ scan'.found = scan.found /\ scan'.keep = scan.keep /\ scan'.parent = scan.parent
        /\ scan'.complete = scan.complete /\ scan'.seen = scan.seen
      BY <1>1, <1>4 DEF Scans
  <1>6. Before' = Before /\ Lost' = Lost
      BY <1>3, BeforeStays
  <1>7. Standing'
      BY <1>2, <1>3, <1>5 DEF OldInv, Standing
  <1>8. changes = 0 => ScanIsAccounted'
      BY <1>3, <1>5, <1>6 DEF OldInv, ScanIsAccounted, Found
  <1> QED
      BY <1>2, <1>7, <1>8, ScanStepStands

LEMMA CodexDiscoverStands ==
    ASSUME TypeOK, OldInv, CodexDiscover
    PROVE  OldInv'
  <1>1. pc = "codex-discover" /\ UNCHANGED <<aroundVars, flags, removed, blind>>
      BY DEF CodexDiscover, ghostVars
  <1>2. UNCHANGED <<disk, parent, changes, flags, removed, blind>>
      BY <1>1 DEF aroundVars
  <1>3. /\ scan.found \subseteq Claude /\ unread = {} /\ scan.keep = flags.keepLatest
        /\ parent \in Families /\ \A s \in scan.found : scan.parent[s] = parent[s]
      BY <1>1 DEF OldInv, Standing
  <1>4. Before' = Before /\ Lost' = Lost
      BY <1>2, BeforeStays
  <1>5. CASE "codex-cli" \notin flags.scope
    <2>1. scan' = scan /\ unread' = unread /\ pc' = "plan"
        BY <1>5 DEF CodexDiscover
    <2>2. Standing'
        BY <1>2, <1>3, <2>1 DEF Standing
    <2>3. changes = 0 => ScanIsAccounted'
        BY <1>2, <1>4, <2>1 DEF OldInv, ScanIsAccounted, Found
    <2> QED
        BY <1>1, <2>2, <2>3, ScanStepStands
  <1>6. CASE "codex-cli" \in flags.scope
    <2>1. PICK d \in Discovered("codex-cli") :
              /\ scan' = [scan EXCEPT
                        !.found = @ \cup d[2],
                        !.complete["codex-cli"] = d[1],
                        !.parent = [s \in Sessions |-> IF s \in d[2] THEN parent[s] ELSE 0]]
              /\ unread' = d[2]
        BY <1>6 DEF CodexDiscover
    <2>2. pc' = "codex-process"
        BY <1>6 DEF CodexDiscover
    <2>3. /\ d[2] \subseteq Codex /\ \A s \in d[2] : disk[s] # 0
          /\ d[1] => \A s \in Codex : disk[s] # 0 => s \in d[2]
        BY DiscoveredIsThere DEF Of
    <2>4. Codex \subseteq Sessions /\ Claude \subseteq Sessions
        BY DEF Sessions
    <2>5. scan \in Scans /\ scan' \in Scans
        BY ScanStaysTyped DEF TypeOK
    <2>6. /\ scan'.found = scan.found \cup d[2] /\ scan'.keep = scan.keep /\ scan'.seen = scan.seen
          /\ scan'.complete["codex-cli"] = d[1]
          /\ scan'.complete["claude-code"] = scan.complete["claude-code"]
          /\ \A s \in Sessions : scan'.parent[s] = IF s \in d[2] THEN parent[s] ELSE 0
        BY <2>1, <2>5 DEF Scans, Providers
    <2>7. Standing'
      <3>1. \A s \in scan'.found : scan'.parent[s] = parent[s]
          BY <1>3, <2>3, <2>4, <2>6, HeadersAreOfTheProvider DEF OldInv
      <3> QED
          BY <1>2, <1>3, <2>1, <2>2, <2>6, <3>1 DEF Standing
    <2>8. ASSUME changes = 0 PROVE ScanIsAccounted'
      <3>1. DiskIsAccounted /\ ScanIsAccounted
          BY <2>8 DEF OldInv
      <3>2. ASSUME NEW p \in Providers, scan'.complete[p], Found(scan', p) # {}
            PROVE  \A s \in Of(p) : s \in scan'.found \/ s \in Lost'
        <4>1. CASE p = "codex-cli"
          <5>1. d[1] /\ Of(p) = Codex
              BY <2>6, <3>2, <4>1 DEF Of
          <5> QED
              BY <1>4, <2>3, <2>4, <2>6, <3>1, <5>1 DEF DiskIsAccounted
        <4>2. CASE p = "claude-code"
          <5>1. Of(p) = Claude /\ \A s \in Claude : s \notin Codex
              BY <4>2, RetentionAssumption DEF Of
          <5>2. Found(scan, p) # {}
              BY <2>3, <2>6, <3>2, <5>1 DEF Found
          <5>3. \A s \in Of(p) : s \in scan.found \/ s \in Lost
              BY <2>6, <3>1, <3>2, <4>2, <5>2 DEF ScanIsAccounted
          <5> QED
              BY <1>4, <2>6, <5>3
        <4> QED
            BY <4>1, <4>2 DEF Providers
      <3>3. ~blind => \A s \in scan'.found \ unread' :
                         scan'.seen[s] = Before'.seen[s] /\ scan'.seen[s] # 0
          BY <1>3, <1>4, <2>1, <2>6, <3>1 DEF ScanIsAccounted
      <3>4. \A s \in unread' : disk[s] # 0
          BY <2>1, <2>3
      <3> QED
          BY <1>2, <3>2, <3>3, <3>4 DEF ScanIsAccounted
    <2> QED
        BY <1>1, <2>7, <2>8, ScanStepStands
  <1> QED
      BY <1>5, <1>6

LEMMA ObserveMtimeStands ==
    ASSUME TypeOK, OldInv, ObserveMtime
    PROVE  OldInv'
  <1>1. pc = "codex-times" /\ UNCHANGED <<aroundVars, flags, removed>>
      BY DEF ObserveMtime
  <1>2. UNCHANGED <<disk, parent, changes, flags, removed>>
      BY <1>1 DEF aroundVars
  <1>3. Before' = Before /\ Lost' = Lost
      BY <1>2, BeforeStays
  <1>4. CASE unread = {}
    <2>1. UNCHANGED <<scan, unread, blind>> /\ pc' = "plan"
        BY <1>4 DEF ObserveMtime
    <2>2. Standing'
        BY <1>2, <1>4, <2>1 DEF OldInv, Standing
    <2>3. changes = 0 => ScanIsAccounted'
        BY <1>2, <1>3, <2>1 DEF OldInv, ScanIsAccounted, Found
    <2> QED
        BY <1>1, <2>1, <2>2, <2>3, ScanStepStands
  <1>5. CASE unread # {}
    <2> DEFINE s == NextInOrder(scan, "codex-cli", unread)
    <2>1. PICK readable \in BOOLEAN :
              /\ scan' = [scan EXCEPT !.seen[s] = IF readable THEN disk[s] ELSE 0]
              /\ blind' = (blind \/ ~readable)
        BY <1>5, Zenon DEF ObserveMtime
    <2>2. unread' = unread \ {s} /\ pc' = pc
        BY <1>5 DEF ObserveMtime
    <2>3. s \in unread
      <3>1. unread \in SUBSET Found(scan, "codex-cli")
          BY DEF OldInv, Standing, TypeOK, Found, Of
      <3> QED
          BY <1>5, <3>1, NextIsLeft
    <2> HIDE DEF s
    <2>4. scan \in Scans /\ unread \subseteq scan.found /\ s \in Sessions
        BY <2>3 DEF TypeOK, OldInv, Standing, Sessions
    <2>5. /\ scan'.found = scan.found /\ scan'.keep = scan.keep /\ scan'.parent = scan.parent
          /\ scan'.complete = scan.complete
          /\ \A u \in Sessions : scan'.seen[u] =
                IF u = s THEN (IF readable THEN disk[s] ELSE 0) ELSE scan.seen[u]
        BY <2>1, <2>4 DEF Scans
    <2>6. Standing'
        BY <1>1, <1>2, <2>2, <2>5 DEF OldInv, Standing
    <2>7. ASSUME changes = 0 PROVE ScanIsAccounted'
      <3>1. ScanIsAccounted
          BY <2>7 DEF OldInv
      <3>2. \A u \in unread' : disk[u] # 0
          BY <2>2, <3>1 DEF ScanIsAccounted
      <3>3. \A p \in Providers : scan'.complete[p] /\ Found(scan', p) # {}
                => \A u \in Of(p) : u \in scan'.found \/ u \in Lost'
          BY <1>3, <2>5, <3>1 DEF ScanIsAccounted, Found
      <3>4. ASSUME ~blind', NEW u \in scan'.found \ unread'
            PROVE  scan'.seen[u] = Before'.seen[u] /\ scan'.seen[u] # 0
        <4>1. u \in Sessions /\ readable /\ ~blind /\ u \in scan.found
            BY <2>1, <2>4, <2>5, <3>4 DEF Scans
        <4>2. CASE u = s
          <5>1. disk[s] # 0
              BY <2>3, <3>1 DEF ScanIsAccounted
          <5>2. Before.seen[s] = disk[s]
              BY <2>4, <5>1, BeforeFields DEF TimeBefore
          <5> QED
              BY <1>3, <2>5, <4>1, <4>2, <5>1, <5>2
        <4>3. CASE u # s
          <5>1. u \notin unread
              BY <2>2, <3>4, <4>3
          <5>2. scan.seen[u] = Before.seen[u] /\ scan.seen[u] # 0
              BY <3>1, <4>1, <5>1 DEF ScanIsAccounted
          <5> QED
              BY <1>3, <2>5, <4>1, <4>3, <5>2
        <4> QED
            BY <4>2, <4>3
      <3> QED
          BY <1>2, <3>2, <3>3, <3>4 DEF ScanIsAccounted
    <2>8. blind => blind'
        BY <2>1
    <2> QED
        BY <1>1, <2>6, <2>7, <2>8, ScanStepStands
  <1> QED
      BY <1>4, <1>5

\* The removal of an eligible session: its tree was old before the first run.
LEMMA RemovalStands ==
    ASSUME CInv, OldInv, pc = "delete", MayMutate(Current), Remove(Current),
           pc' = "next", UNCHANGED <<parent, changes, flags, planVars, blind>>
    PROVE  OldInv'
  <1> DEFINE s == Current
             p == ProviderOf(s)
  <1>1. UNCHANGED <<scan, unread>> /\ unread = {}
      BY DEF planVars, OldInv, Standing
  <1>2. TypeOK /\ scan \in Scans
      BY DEF CInv, TypeOK
  <1>3. s \in Sessions /\ action[s] = "delete"
    <2>1. todo # {} /\ action[Current] = "delete" /\ \A u \in todo : action[u] # "none"
        BY DEF CInv, Executed, Executing, TypeOK
    <2>2. todo \subseteq scan.found /\ scan.found \subseteq Sessions
        BY <1>2, <2>1 DEF CInv, PlanHolds, Planned, Executing, TypeOK, Scans
    <2> QED
        BY <2>1, <2>2, CurrentIsToDo
  <1>4. s \in scan.found /\ BuildActions(scan)[s] = "delete"
    <2>1. s \in Wanted
        BY <1>3 DEF CInv, PlanHolds, Planned, Executing, Deletions
    <2> QED
        BY <1>3, <2>1 DEF Wanted, BuildActions
  <1>5. disk[s] # 0
      BY DEF MayMutate
  <1> HIDE DEF s
  <1>6. Standing'
      BY <1>1 DEF OldInv, Standing
  <1>7. ASSUME changes = 0 PROVE DiskIsAccounted' /\ ScanIsAccounted' /\ LostWereOld'
    <2>1. DiskIsAccounted /\ ScanIsAccounted /\ LostWereOld /\ Standing
        BY <1>7 DEF OldInv
    <2>2. Before' = Before /\ DiskIsAccounted' /\ Lost' = Lost \cup {s}
        BY <1>2, <1>3, <1>5, <2>1, RemovalKeepsBefore DEF s
    <2>3. ScanIsAccounted'
        BY <1>1, <2>1, <2>2 DEF ScanIsAccounted
    <2>4. ASSUME ~blind PROVE OldTree(Before, s)
      <3>1. Before \in Scans /\ IsFiniteSet(Before.found) /\ Before.found = Sessions
            /\ Before.parent = parent /\ Before.keep = scan.keep
          BY <1>2, <2>1, BeforeIsAScan, BeforeFields DEF Standing
      <3>2. Lost \subseteq Sessions /\ \A x \in Lost : OldTree(Before, x)
          BY <1>2, <2>1, <2>4 DEF TypeOK, Lost, LostWereOld
      <3>3. p \in Providers /\ s \in Of(p) /\ scan.found \subseteq Sessions
          BY <1>2, <1>3, ProviderOfASession DEF Scans
      <3>4. Within(scan, Before, p)
        <4>1. \A x \in scan.found : scan.parent[x] = Before.parent[x]
            BY <2>1, <3>1 DEF Standing
        <4>2. ASSUME NEW x \in Found(Before, p), HasParent(Before, x)
              PROVE  Before.parent[x] \in Of(p)
          <5>1. x \in Sessions /\ x \in Of(p) /\ parent[x] \in Sessions
              BY <3>1, <4>2 DEF Found, HasParent
          <5>2. 0 \notin Sessions
              BY RetentionAssumption DEF Sessions
          <5>3. x \in Codex /\ parent[x] \in Codex
              BY <2>1, <5>1, <5>2, HeadersAreOfTheProvider DEF Sessions
          <5>4. Of(p) = Codex
              BY <2>1, <5>1, <5>3, HeadersAreOfTheProvider DEF Of
          <5> QED
              BY <3>1, <5>3, <5>4
        <4> QED
            BY <3>1, <3>3, <4>1, <4>2 DEF Within
      <3>5. scan.complete[p]
          BY <1>2, <1>3, <1>4, OnlyOldUnprotectedIsProposed
      <3>6. \A x \in Found(Before, p) : x \in scan.found \/ x \in Lost
        <4>1. Found(scan, p) # {}
            BY <1>4, <3>3 DEF Found
        <4>2. \A x \in Of(p) : x \in scan.found \/ x \in Lost
            BY <2>1, <3>3, <3>5, <4>1 DEF ScanIsAccounted
        <4> QED
            BY <4>2 DEF Found
      <3>7. \A x \in Found(scan, p) : scan.seen[x] = Before.seen[x] /\ scan.seen[x] # 0
          BY <1>1, <2>1, <2>4 DEF ScanIsAccounted, Found
      <3>8. Surveys(scan, Before, p, Lost)
          BY <3>4, <3>6, <3>7 DEF Surveys
      <3> QED
          BY <1>2, <1>3, <1>4, <3>1, <3>2, <3>8, EligibleIsOfAnOldTree
    <2>5. LostWereOld'
        BY <2>1, <2>2, <2>4 DEF LostWereOld
    <2> QED
        BY <2>2, <2>3, <2>5
  <1> QED
      BY <1>6, <1>7 DEF OldInv

LEMMA OldInvInit == Init => OldInv
  <1> SUFFICES ASSUME Init PROVE OldInv
      OBVIOUS
  <1>1. /\ parent \in Families /\ removed = {} /\ unread = {} /\ scan = EmptyScan
        /\ pc = "claude-discover" /\ \A s \in Sessions : disk[s] # 0
    <2>1. \A s \in Sessions : disk[s] \in 1 .. Now
        BY DEF Init
    <2> QED
        BY <2>1 DEF Init
  <1>2. scan.found = {} /\ scan.keep = flags.keepLatest /\ \A s \in Sessions : scan.parent[s] = 0
      BY <1>1 DEF EmptyScan
  <1>3. Standing
      BY <1>1, <1>2 DEF Standing
  <1>4. DiskIsAccounted /\ ScanIsAccounted /\ LostWereOld
      BY <1>1, <1>2 DEF DiskIsAccounted, ScanIsAccounted, LostWereOld, Lost, Found
  <1> QED
      BY <1>3, <1>4 DEF OldInv

LEMMA OldInvNext == CInv /\ OldInv /\ [Next]_vars => OldInv'
  <1> SUFFICES ASSUME CInv, OldInv, [Next]_vars PROVE OldInv'
      OBVIOUS
  <1>1. TypeOK
      BY DEF CInv
  <1>2. CASE Surroundings
      BY <1>1, <1>2, SurroundingsStand
  <1>3. CASE ClaudeDiscover
      BY <1>1, <1>3, ClaudeDiscoverStands
  <1>4. CASE ClaudeProcess \/ CodexProcess
      BY <1>1, <1>4, ObserveProcessStands
  <1>5. CASE CodexDiscover
      BY <1>1, <1>5, CodexDiscoverStands
  <1>6. CASE ObserveMtime
      BY <1>1, <1>6, ObserveMtimeStands
  <1>7. CASE Plan \/ Prompt \/ EstablishRoots \/ NextAction \/ Recheck
    <2>1. /\ UNCHANGED <<aroundVars, flags, scan, unread, removed, blind>>
          /\ pc \in {"plan", "prompt", "roots", "next", "recheck"}
          /\ pc' \in {"prompt", "exited", "roots", "next", "recheck", "delete"}
        BY <1>7 DEF Plan, Prompt, EstablishRoots, NextAction, Recheck, Exit, Finished,
           planVars, ghostVars
    <2>2. UNCHANGED <<disk, parent, changes>>
        BY <2>1 DEF aroundVars
    <2> QED
        BY <2>1, <2>2, StandsStill
  <1>8. CASE DeleteOne
    <2>1. pc = "delete" /\ pc' = "next"
        BY <1>8 DEF DeleteOne, Finished
    <2>2. UNCHANGED <<parent, changes, flags, planVars, blind>>
        BY <1>8 DEF DeleteOne
    <2>3. CASE MayMutate(Current) /\ Remove(Current)
        BY <2>1, <2>2, <2>3, RemovalStands
    <2>4. CASE Keep
      <3>1. UNCHANGED <<disk, removed, scan, unread>>
          BY <2>2, <2>4 DEF Keep, planVars
      <3> QED
          BY <2>1, <2>2, <3>1, StandsStill
    <2> QED
        BY <1>8, <2>3, <2>4 DEF DeleteOne
  <1>9. CASE Kill
    <2>1. Blank("killed") /\ UNCHANGED <<aroundVars, flags, removed, blind>>
        BY <1>9 DEF Kill, ghostVars
    <2> QED
        BY <2>1, BlankStands
  <1>10. CASE RunAgain
    <2>1. Blank("claude-discover") /\ UNCHANGED <<aroundVars, flags, removed, blind>>
        BY <1>10 DEF RunAgain
    <2> QED
        BY <2>1, BlankStands
  <1>11. CASE UNCHANGED vars
    <2>1. UNCHANGED <<disk, parent, changes, flags, scan, unread, removed, blind, pc>>
        BY <1>11 DEF vars, aroundVars, planVars, ghostVars
    <2> QED
        BY <2>1, StandsStill
  <1> QED
      BY <1>2, <1>3, <1>4, <1>5, <1>6, <1>7, <1>8, <1>9, <1>10, <1>11 DEF Next, Run

\* However often `clean` is killed and run again, and in whatever order trees
\* lose their members to it: while nothing else touches the sessions and every
\* time can be read, it removes only sessions of trees that were old, all of
\* them, before the first run, and none of the --keep-latest newest ones
\* (root_id_for, protected_roots, classify, build_actions; main.rs cmd_clean).
THEOREM OnlyOldTreesAreRemoved == Spec => []OnlyOldTreesRemoved
  <1>1. Init => CInv /\ OldInv
      BY CInvInit, OldInvInit
  <1>2. CInv /\ OldInv /\ [Next]_vars => (CInv /\ OldInv)'
      BY CInvNext, OldInvNext
  <1>3. OldInv => OnlyOldTreesRemoved
      BY OldInvImplies
  <1> QED
      BY <1>1, <1>2, <1>3, PTL DEF Spec
=============================================================================
