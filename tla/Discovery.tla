------------------------------ MODULE Discovery ------------------------------
(***************************************************************************)
(* The walks that find what is there, while others work in the same tree.  *)
(*                                                                         *)
(*   codex      discover_codex_sessions   provider-codex session.rs        *)
(*   claude     discover_claude_sessions  provider-claude session.rs       *)
(*   inventory  scan_scope, derive_completeness, of any scope  (inventory) *)
(*                                                                         *)
(* An agenda of calls stands for the nested loops: a stack of sets, since  *)
(* the entries of a directory come in any order.  Others remove, replace,  *)
(* write, open and close between any two calls, and any call may fail.     *)
(***************************************************************************)
EXTENDS Integers, Sequences

CONSTANTS
    Roots3,     \* walker -> where its walk begins
    InDirectory,         \* place -> the directory it is in, Nowhere for the first
    Stands,     \* place -> what stands there at first
    Nowhere,
    Rollouts,   \* places named rollout-<date>-<uuid>.jsonl
    Companion,  \* places named <uuid>.jsonl -> the place of their companion
    MaxChanges, \* bound on what others do
    MaxTroubles3 \* bound on failing calls

Walkers == DOMAIN Roots3
Spots  == DOMAIN InDirectory

\* What is above a place is in every set with its directory and theirs.
UpwardClosed == {S \in SUBSET Spots : \A q \in S : InDirectory[q] \in S \cup {Nowhere}}
AboveOf ==
    [p \in Spots |->
        {d \in Spots : \A S \in UpwardClosed : InDirectory[p] \in S \cup {Nowhere} => d \in S}]

VARIABLES
    walker,
    ground,     \* what stands at each place
    agenda,     \* calls still to make: a stack of sets of them
    device,     \* inventory: the device of the scope, Nowhere when not known
    payload,    \* claude: files counted in the companion being walked, and whether it is degraded
    reported,   \* what the walk reports
    complete,   \* "complete", "partial" or "unknown"
    disturbed,  \* history: places where something appeared, went or was replaced
    rewritten,  \* history: files that were written
    changes, troubles3

walkVars == <<agenda, device, payload, reported, complete, troubles3>>
discoveryVars == <<walker, ground, walkVars, disturbed, rewritten, changes>>

Links3 == {"link_file", "link_dir", "link_nowhere"}
Kinds3 == {"absent", "dir", "file"} \cup Links3
Failures == {"absent", "denied", "io"}
Devices == {"here", "there"}

\* parent is what the first line of a rollout says.
Node(kind, dev, parent) == [kind |-> kind, open |-> TRUE, device |-> dev, parent |-> parent]
Nodes == [kind : Kinds3, open : BOOLEAN, device : Devices, parent : {"none", "s", "t"}]
Absent3 == Node("absent", "here", "none")

\* A tree, in which what is there is in a directory, and codex alone has
\* several roots.
ASSUME DiscoveryAssumption ==
    /\ InDirectory \in [Spots -> Spots \cup {Nowhere}] /\ Nowhere \notin Spots
    /\ \A p \in Spots : p \notin AboveOf[p]
    /\ Stands \in [Spots -> Nodes]
    /\ \A p \in Spots :
          /\ Stands[p].kind # "absent" /\ InDirectory[p] # Nowhere => Stands[InDirectory[p]].kind = "dir"
          /\ Stands[p].kind # "file" => Stands[p].parent = "none"
    /\ Walkers \subseteq {"codex", "claude", "inventory"} /\ Roots3 \in [Walkers -> Seq(Spots)]
    /\ \A w \in Walkers \ {"codex"} : Len(Roots3[w]) = 1
    /\ DOMAIN Companion \subseteq Spots /\ Companion \in [DOMAIN Companion -> Spots]
    /\ {MaxChanges, MaxTroubles3} \subseteq Nat

Task(do, place, kind) == [do |-> do, place |-> place, kind |-> kind]
NoPayload == [companion |-> FALSE, seen |-> {}, degraded |-> FALSE]

\* The calls below codex and inventory are made in this order.
Dos == {"root", "list", "visit", "measure", "parent", "identity", "allocation", "stat", "companion",
        "payload_list", "payload_visit", "payload_stat", "report"}

DiscoveryTypeOK ==
    /\ walker \in Walkers
    /\ ground \in [Spots -> Nodes]
    /\ \A k \in DOMAIN agenda : agenda[k] # {} /\ \A t \in agenda[k] : t.do \in Dos /\ t.place \in Spots
    /\ device \in Devices \cup {Nowhere}
    /\ \A f \in reported : f.place \in Spots
    /\ complete \in {"complete", "partial", "unknown"}
    /\ disturbed \subseteq Spots /\ rewritten \subseteq Spots
    /\ changes \in 0 .. MaxChanges /\ troubles3 \in 0 .. MaxTroubles3

Start3(w) == [n \in DOMAIN Roots3[w] |-> {Task(IF w = "inventory" THEN "visit" ELSE "root", Roots3[w][n], "dir")}]

DiscoveryInit ==
    /\ walker \in Walkers /\ ground = Stands
    /\ agenda = Start3(walker)
    /\ device = Nowhere /\ payload = NoPayload /\ reported = {} /\ complete = "complete"
    /\ disturbed = {} /\ rewritten = {} /\ changes = 0 /\ troubles3 = 0

-----------------------------------------------------------------------------
(* The file system.                                                        *)

Below(d) == {p \in Spots : d \in AboveOf[p]}
InTree(p) == p \in UNION {{Roots3[walker][n]} \cup Below(Roots3[walker][n]) : n \in DOMAIN Roots3[walker]}

\* lstat: what stands in the way of the path, or what stands at its end.
Look(p) ==
    LET closed == {a \in AboveOf[p] : ground[a].kind = "dir" /\ ~ground[a].open}
        cut    == {a \in AboveOf[p] : ground[a].kind # "dir"}
    IN  IF closed # {} THEN "denied"
        ELSE IF \E a \in cut : ground[a].kind = "file" THEN "io"
        ELSE IF cut # {} THEN "absent" ELSE ground[p].kind

\* stat
Followed(p) ==
    LET k == Look(p) IN
    CASE k = "link_file" -> "file" [] k = "link_dir" -> "dir" [] k = "link_nowhere" -> "absent" [] OTHER -> k

\* read_dir, with its entries read at once.  What a link leads to is not here.
Listing(d) ==
    LET k == Followed(d) IN
    IF k = "file" THEN "io" ELSE IF k = "dir" /\ Look(d) = "dir" /\ ~ground[d].open THEN "denied" ELSE k
Children(d) == {p \in Spots : InDirectory[p] = d /\ ground[p].kind # "absent" /\ Look(d) = "dir"}

\* What a call says, which may be that it failed.
Said(actual, k) ==
    \/ k = actual /\ UNCHANGED troubles3
    \/ k = "io" /\ actual # "io" /\ troubles3 < MaxTroubles3 /\ troubles3' = troubles3 + 1

-----------------------------------------------------------------------------
(* The walks.                                                              *)

Rest(t) == LET left == Head(agenda) \ {t} IN IF left = {} THEN Tail(agenda) ELSE <<left>> \o Tail(agenda)
Now(tasks, t) == (IF tasks = {} THEN <<>> ELSE <<tasks>>) \o Rest(t)
\* After the entries of the same directory.
Later(task, t) ==
    IF Head(agenda) = {t} THEN <<{task}>> \o Tail(agenda)
    ELSE <<Head(agenda) \ {t}, {task}>> \o Tail(agenda)

SaysNoMore == UNCHANGED <<device, payload, reported>>
Worse == complete' = IF complete = "complete" THEN "partial" ELSE complete
Fine  == UNCHANGED complete
Unknown3 == complete' = "unknown"

\* ReasonLog::record: what fails is a reason, and the walk goes on.
Skips(t) == agenda' = Rest(t) /\ Fine /\ SaysNoMore
Logs(t)  == agenda' = Rest(t) /\ Worse /\ SaysNoMore
GoesOn(t, tasks) == agenda' = Now(tasks, t) /\ Fine /\ SaysNoMore

Reports(p, parent, what) == reported' = reported \cup {[place |-> p, parent |-> parent, payload |-> what]}

\* The root of the sessions, or of the projects.
VisitRoot(t, k) ==
    /\ t.do = "root" /\ Said(Look(t.place), k)
    /\ IF k = "absent" \/ k \in Links3 THEN Skips(t)
       ELSE IF k \notin Failures THEN GoesOn(t, {Task("list", t.place, k)})
       ELSE IF walker = "codex" THEN Logs(t)
       ELSE agenda' = Rest(t) /\ Unknown3 /\ SaysNoMore

\* One that cannot be read is a reason, or all there is to say of it.
Visits(places) == {Task("visit", p, ground[p].kind) : p \in places}
\* Mutant of Unlisted: a directory that cannot be read has nothing in it.
UnlistedIsEmpty(t) == Skips(t)

Unlisted(t) ==
    IF walker = "claude" /\ t.place = Roots3.claude[1]
    THEN agenda' = Rest(t) /\ Unknown3 /\ SaysNoMore
    ELSE Logs(t)

ListDirectory(t, k) ==
    /\ t.do = "list" /\ Said(Listing(t.place), k)
    /\ \/ k = "dir" /\ GoesOn(t, Visits(Children(t.place)))
       \/ k \in Failures /\ Unlisted(t)
       \* The stream ends with an error.
       \/ /\ k = "io" /\ Listing(t.place) = "dir"
          /\ \E some \in SUBSET Children(t.place) :
                agenda' = Now(Visits(some), t) /\ Worse /\ SaysNoMore

\* walk_rollouts: what went since the listing is passed over.
CodexVisit(t, k) ==
    /\ walker = "codex" /\ t.do = "visit" /\ Said(Followed(t.place), k)
    /\ CASE k = "dir" -> IF t.kind \in Links3 THEN Skips(t)
                         ELSE /\ agenda' = Later(Task("list", t.place, k), t) /\ Fine
                              /\ SaysNoMore
         [] k = "file" -> IF t.place \in Rollouts THEN GoesOn(t, {Task("measure", t.place, k)}) ELSE Skips(t)
         [] k = "absent" -> Skips(t)
         [] OTHER -> Logs(t)

CodexMeasure(t, k) ==
    /\ t.do = "measure" /\ Said(Look(t.place), k)
    /\ IF k \in Failures THEN Logs(t) ELSE GoesOn(t, {Task("parent", t.place, k)})

\* read_codex_parent_session_id: one that cannot be read has no parent, and is
\* a reason.
ReadOutcome(p) ==
    LET k == Followed(p) IN
    IF k = "file" /\ Look(p) = "file" /\ ~ground[p].open THEN "denied" ELSE IF k = "dir" THEN "io" ELSE k

CodexParent(t, k) ==
    /\ t.do = "parent" /\ Said(ReadOutcome(t.place), k)
    /\ IF k \in Failures THEN Worse ELSE Fine
    /\ Reports(t.place, IF k = "file" /\ Look(t.place) = "file" THEN ground[t.place].parent ELSE "none", NoPayload)
    /\ agenda' = Rest(t) /\ UNCHANGED <<device, payload>>

\* discover_claude_sessions: the type is the one of the listing.
ClaudeVisit(t) ==
    /\ walker = "claude" /\ t.do = "visit" /\ UNCHANGED troubles3
    /\ IF InDirectory[t.place] = Roots3.claude[1]
       THEN IF t.kind = "dir" THEN GoesOn(t, {Task("list", t.place, t.kind)}) ELSE Skips(t)
       ELSE IF t.kind = "file" /\ t.place \in DOMAIN Companion
            THEN GoesOn(t, {Task("stat", t.place, t.kind)}) ELSE Skips(t)

ClaudeStat(t, k) ==
    /\ t.do = "stat" /\ Said(Look(t.place), k)
    /\ IF k \in Failures THEN Logs(t)
       ELSE agenda' = Now({Task("companion", t.place, k)}, t) /\ Fine /\ payload' = NoPayload
            /\ UNCHANGED <<device, reported>>

\* An absent companion is none, one that cannot be looked at a reason.
ClaudeCompanion(t, k) ==
    LET companion == Companion[t.place] IN
    /\ t.do = "companion" /\ Said(Look(companion), k)
    /\ LET report == {Task("report", t.place, t.kind)} IN
       /\ IF k = "dir"
          THEN /\ agenda' = <<{Task("payload_list", companion, k)}, report>> \o Rest(t)
               /\ payload' = [payload EXCEPT !.companion = TRUE]
          ELSE agenda' = Now(report, t) /\ UNCHANGED payload
       /\ IF k \in {"denied", "io"} THEN Worse ELSE Fine
    /\ UNCHANGED <<device, reported>>

\* walk_companion_payload: what fails in it degrades the companion.
Degrades(t, tasks) ==
    /\ agenda' = Now(tasks, t) /\ Worse /\ payload' = [payload EXCEPT !.degraded = TRUE]
    /\ UNCHANGED <<device, reported>>

PayloadVisits(places) == {Task("payload_visit", p, ground[p].kind) : p \in places}
PayloadList(t, k) ==
    /\ t.do = "payload_list" /\ Said(Listing(t.place), k)
    /\ \/ k = "dir" /\ GoesOn(t, PayloadVisits(Children(t.place)))
       \/ k \in Failures /\ Degrades(t, {})
       \/ /\ k = "io" /\ Listing(t.place) = "dir"
          /\ \E some \in SUBSET Children(t.place) : Degrades(t, PayloadVisits(some))

PayloadVisit(t) ==
    /\ t.do = "payload_visit" /\ UNCHANGED troubles3
    /\ CASE t.kind = "dir"  -> /\ agenda' = Later(Task("payload_list", t.place, t.kind), t) /\ Fine
                               /\ SaysNoMore
         [] t.kind = "file" -> GoesOn(t, {Task("payload_stat", t.place, t.kind)})
         [] OTHER           -> Skips(t)

PayloadStat(t, k) ==
    /\ t.do = "payload_stat" /\ Said(Look(t.place), k)
    /\ IF k \in Failures THEN Degrades(t, {})
       ELSE agenda' = Rest(t) /\ payload' = [payload EXCEPT !.seen = @ \cup {t.place}] /\ Fine
            /\ UNCHANGED <<device, reported>>

ClaudeReport(t) ==
    /\ t.do = "report" /\ Reports(t.place, "none", payload)
    /\ agenda' = Rest(t) /\ payload' = NoPayload /\ Fine /\ UNCHANGED <<device, troubles3>>

\* observe_file_facts: what is there, which one it is, and what it takes up.
IsRoot(t) == t.place = Roots3[walker][1]
InventoryVisit(t, k) ==
    /\ walker = "inventory" /\ t.do = "visit" /\ Said(Look(t.place), k)
    /\ IF k \notin Failures THEN GoesOn(t, {Task("identity", t.place, k)})
       ELSE IF IsRoot(t) THEN agenda' = Rest(t) /\ Unknown3 /\ SaysNoMore
       ELSE Logs(t)

\* The kind is the one of the identity, and it goes down only into a directory
\* whose identity it knows and that is on the device of the scope.
Descends(t, k) ==
    \/ k \in Failures /\ IsRoot(t) /\ t.kind = "dir"
    \/ k = "dir" /\ (device = Nowhere \/ ground[t.place].device = device)
InventoryIdentity(t, k) ==
    /\ t.do = "identity" /\ Said(Look(t.place), k)
    /\ IF k \in Failures THEN Worse ELSE Fine
    /\ device' = IF IsRoot(t) /\ k \notin Failures THEN ground[t.place].device ELSE device
    /\ agenda' = Now({Task(IF Descends(t, k) THEN "allocation" ELSE "report", t.place, k)}, t)
    /\ UNCHANGED <<payload, reported>>

InventoryAllocation(t, k) ==
    /\ walker = "inventory" /\ t.do \in {"allocation", "report"} /\ Said(Look(t.place), k)
    /\ IF k \in Failures THEN Worse ELSE Fine
    /\ Reports(t.place, "none", NoPayload)
    /\ agenda' = Now(IF t.do = "allocation" THEN {Task("list", t.place, k)} ELSE {}, t)
    /\ UNCHANGED <<device, payload>>

WalkStep ==
    /\ agenda # <<>> /\ UNCHANGED <<walker, ground, disturbed, rewritten, changes>>
    /\ \E t \in Head(agenda) :
          \/ ClaudeVisit(t) \/ PayloadVisit(t) \/ (walker = "claude" /\ ClaudeReport(t))
          \/ \E k \in Kinds3 \cup Failures :
                \/ VisitRoot(t, k) \/ ListDirectory(t, k)
                \/ CodexVisit(t, k) \/ CodexMeasure(t, k) \/ CodexParent(t, k)
                \/ ClaudeStat(t, k) \/ ClaudeCompanion(t, k) \/ PayloadList(t, k) \/ PayloadStat(t, k)
                \/ InventoryVisit(t, k) \/ InventoryIdentity(t, k) \/ InventoryAllocation(t, k)

-----------------------------------------------------------------------------
(* Others, while the walk goes on.                                         *)

Other3 == agenda # <<>> /\ changes < MaxChanges /\ changes' = changes + 1 /\ UNCHANGED <<walker, walkVars>>

Puts(p, node) ==
    /\ InDirectory[p] # Nowhere => ground[InDirectory[p]].kind = "dir"
    /\ node.kind # ground[p].kind
    /\ ground' = [q \in Spots |-> IF q = p THEN node ELSE IF q \in Below(p) THEN Absent3 ELSE ground[q]]
    /\ disturbed' = disturbed \cup {p} /\ UNCHANGED rewritten

WriteFile(p) ==
    /\ ground[p].kind = "file" /\ p \in Rollouts
    /\ \E parent \in {"s", "t"} \ {ground[p].parent} : ground' = [ground EXCEPT ![p].parent = parent]
    /\ rewritten' = rewritten \cup {p} /\ UNCHANGED disturbed

OpenOrClose(p) ==
    /\ ground[p].kind \in {"dir", "file"} /\ ground' = [ground EXCEPT ![p].open = ~@]
    /\ UNCHANGED <<disturbed, rewritten>>

Disturb3 ==
    /\ Other3
    /\ \E p \in Spots : InTree(p) /\
          (WriteFile(p) \/ OpenOrClose(p) \/ \E kind \in Kinds3 : Puts(p, Node(kind, "here", "none")))

DiscoveryNext == WalkStep \/ Disturb3

-----------------------------------------------------------------------------
(* Properties.                                                             *)

\* What stood at its place throughout.
Steady(p) == ground[p].kind # "absent" /\ ({p} \cup AboveOf[p]) \cap disturbed = {}

Wanted(p) ==
    CASE walker = "codex"     -> ground[p].kind = "file" /\ p \in Rollouts
      [] walker = "claude"    -> /\ ground[p].kind = "file" /\ p \in DOMAIN Companion
                                 /\ InDirectory[p] # Nowhere /\ InDirectory[InDirectory[p]] = Roots3.claude[1]
      [] walker = "inventory" -> \A a \in AboveOf[p] : ground[a].device = ground[Roots3.inventory[1]].device

\* Whatever others do meanwhile (ReasonLog, derive_completeness, degraded_
\* companions): a walk that says it is complete has found all it looks for that
\* stood at its place throughout, and knows the parent of each rollout; and a
\* session whose companion is not degraded counts every file of it, so that one
\* still written to never looks old.
CompleteMeansSeen ==
    agenda = <<>> =>
        /\ complete = "complete" =>
              /\ \A p \in Spots : InTree(p) /\ Steady(p) /\ Wanted(p) => \E f \in reported : f.place = p
              /\ walker = "codex" => \A f \in reported :
                    Steady(f.place) /\ f.place \notin rewritten => f.parent = ground[f.place].parent
        /\ walker = "claude" => \A f \in reported :
              (f.payload.companion /\ ~f.payload.degraded) \/ complete = "complete" =>
                 \A p \in Below(Companion[f.place]) :
                    Steady(p) /\ ground[p].kind = "file" => p \in f.payload.seen
==============================================================================
