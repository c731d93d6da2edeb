----------------------------- MODULE Containment -----------------------------
(***************************************************************************)
(* The containment ledger: an append-only SQLite history of installed      *)
(* notices and lifts, replayed from its beginning by every command that    *)
(* reads it.                                                               *)
(*                                                                         *)
(*   cancellai-safety incident.rs           ContainmentLedger              *)
(*   cancellai-store  containment_state.rs  load_events, transact          *)
(*   cancellai-cli    containment.rs        install_text, decide_install,  *)
(*                                          cmd_lift, cmd_refresh, recheck *)
(*                                                                         *)
(* Commands are processes of the owner's account (containment install,     *)
(* refresh, lift); cleaners are running `clean`s, which ask the ledger     *)
(* again before every deletion.  The owner edits the file of trusted       *)
(* publishers, and the ledger's file may become unreadable, at any moment. *)
(* A text nobody trusted signed is refused by decide_install whatever the  *)
(* ledger holds, so the notices of the model are genuine.                  *)
(***************************************************************************)
EXTENDS Naturals, Sequences, FiniteSets

CONSTANTS
    Publishers,
    Project,       \* the publisher compiled into the build
    Notices,       \* [publisher, sequence, entries] that publishers signed
    Target,        \* [version, action, platform] of a clean's deletions
    Commands,      \* processes, each running one command
    Cleaners,      \* running cleans
    None,
    MaxRecords,    \* MAX_ACTIVE_RECORDS
    MaxListed,     \* MAX_LIST_LEN, and MAX_ENTRIES
    MaxPublishers, \* MAX_TRACKED_PUBLISHERS
    MaxEvents,     \* MAX_LEDGER_BYTES, in events
    MaxEdits       \* bound on what the owner does to the files

ASSUME ContainmentAssumption ==
    /\ Project \in Publishers
    /\ None \notin Publishers \cup Notices \cup Commands \cup [Publishers -> Nat]
    /\ \A n \in Notices : n.publisher \in Publishers /\ n.sequence \in Nat \ {0}
    /\ {MaxRecords, MaxListed, MaxPublishers, MaxEvents, MaxEdits} \subseteq Nat

Incidents == {e.incident : e \in UNION {n.entries : n \in Notices}}

VARIABLES
    events,    \* committed rows of the ledger
    lock,      \* holder of the BEGIN IMMEDIATE transaction
    readable,  \* the ledger's file can be opened and read
    trusted,   \* publishers whose key the trust policy holds, none if it has a fault
    expired,   \* notices past their expiry
    edits,
    pc,        \* next step of each command
    cmd,       \* [event, feed, policy] of each command
    result,    \* what the command reports
    recheck    \* [pc, policy, since, at, allowed] of each cleaner

ledgerVars == <<events, lock>>
ownerVars  == <<readable, trusted, expired, edits>>
vars       == <<ledgerVars, ownerVars, pc, cmd, result, recheck>>

Installs == [kind : {"install"}, notice : Notices]
Lifts    == [kind : {"lift"}, incident : Incidents]
Events   == Installs \cup Lifts

\* containment_trust_policy: the project's key is always held beside the owner's,
\* and a policy with a fault holds none.
Policies == {p \in SUBSET Publishers : p # {} => Project \in p}

Steps   == {"idle", "begin", "decide", "commit", "check", "done"}
Results == {"pending", "ok", "current", "refused", "crashed", "no_longer_replays"}

TypeOK ==
    /\ events \in Seq(Events)
    /\ lock \in Commands \cup {None}
    /\ readable \in BOOLEAN
    /\ trusted \in Policies
    /\ expired \subseteq Notices
    /\ edits \in 0 .. MaxEdits
    /\ pc \in [Commands -> Steps]
    /\ \A c \in Commands :
          pc[c] # "idle" => cmd[c] \in [event : Events, feed : BOOLEAN,
                                        policy : Policies]
    /\ result \in [Commands -> Results]
    /\ recheck \in [Cleaners -> [pc : {"idle", "rows", "decided"},
                                 policy : Policies,
                                 since : Nat, at : Nat, allowed : BOOLEAN]]

-----------------------------------------------------------------------------
(* ContainmentLedger.                                                      *)

Empty    == [active |-> {}, seen |-> [p \in Publishers |-> 0]]
Unusable == [active |-> {}, seen |-> None]

\* An option is a set of at most one member: no list of versions contains them
\* all.  Lists become the sets they mean (canonical).
Lists(e) == e.versions \cup e.actions \cup e.platforms \cup {e.invariants}

\* validate_notice, validate_entry.
WellFormed(n) ==
    /\ Cardinality(n.entries) \in 1 .. MaxListed
    /\ \A e \in n.entries : \A list \in Lists(e) : Cardinality(list) \in 1 .. MaxListed
    /\ \A e, f \in n.entries : e.incident = f.incident => e = f
ValidNotices == {n \in Notices : WellFormed(n)}

\* Mutant of IngestRefused: a notice may repeat the last sequence.
IngestRefusedOlderOnly(ledger, n) ==
    \/ n.sequence < ledger.seen[n.publisher] \/ n \notin ValidNotices
    \/ Cardinality(ledger.active \cup n.entries) > MaxRecords
    \/ /\ ledger.seen[n.publisher] = 0
       /\ Cardinality({p \in Publishers : ledger.seen[p] # 0}) >= MaxPublishers

\* ingest_verified: Replayed, MalformedNotice or LedgerFull.  Records that say the same are
\* held once (is_redundant_with), so the records in force are a set.
IngestRefused(ledger, n) ==
    \/ n.sequence <= ledger.seen[n.publisher] \/ n \notin ValidNotices
    \/ Cardinality(ledger.active \cup n.entries) > MaxRecords
    \/ /\ ledger.seen[n.publisher] = 0
       /\ Cardinality({p \in Publishers : ledger.seen[p] # 0}) >= MaxPublishers

Ingest(ledger, n) ==
    [active |-> ledger.active \cup n.entries,
     seen   |-> [ledger.seen EXCEPT ![n.publisher] = n.sequence]]

Contained(ledger, incident) == \E e \in ledger.active : e.incident = incident

LiftLocally(ledger, incident) ==
    [ledger EXCEPT !.active = {e \in @ : e.incident # incident}]

\* One event of the history under a trust policy; any failure makes the whole
\* history unusable.
ReplayEvent(ledger, event, policy) ==
    CASE ledger = Unusable -> Unusable
      [] ledger # Unusable /\ event.kind = "install" ->
            IF event.notice.publisher \notin policy \/ IngestRefused(ledger, event.notice)
            THEN Unusable
            ELSE Ingest(ledger, event.notice)
      [] ledger # Unusable /\ event.kind = "lift" ->
            IF Contained(ledger, event.incident)
            THEN LiftLocally(ledger, event.incident)
            ELSE Unusable

Replay(rows, policy) ==
    LET after[n \in 0 .. Len(rows)] ==
            IF n = 0 THEN Empty ELSE ReplayEvent(after[n - 1], rows[n], policy)
    IN  after[Len(rows)]

\* applies_to: a version that is not known is among any versions.
AppliesTo(e, target) ==
    /\ \A versions \in e.versions : \A v \in target.version : v \in versions
    /\ \A actions \in e.actions : target.action \in actions
    /\ \A platforms \in e.platforms : target.platform \in platforms

\* binding_for: every ceiling a notice can set is below what deleting needs.
Binds(ledger) == \E e \in ledger.active : AppliesTo(e, Target)

-----------------------------------------------------------------------------
Init ==
    /\ events = << >>
    /\ lock = None
    /\ readable = TRUE
    /\ trusted \in {{Project}, Publishers}
    /\ expired = {}
    /\ edits = 0
    /\ pc = [c \in Commands |-> "idle"]
    /\ cmd = [c \in Commands |-> None]
    /\ result = [c \in Commands |-> "pending"]
    /\ recheck = [d \in Cleaners |-> [pc |-> "idle", policy |-> {}, since |-> 0,
                                      at |-> 0, allowed |-> FALSE]]

(* The owner, and time.                                                    *)

Edit ==
    /\ edits < MaxEdits
    /\ edits' = edits + 1
    /\ UNCHANGED <<ledgerVars, pc, cmd, result, recheck>>

\* A publisher is added, or left out; or the file is made one that is refused:
\* not readable, not of entries, with a key that is none, or with a publisher's
\* name that is reserved, taken twice or malformed.
EditTrust(p) ==
    /\ Edit
    /\ trusted' = CASE p = Project               -> IF trusted = {} THEN {Project} ELSE {}
                     [] p # Project /\ p \in trusted -> trusted \ {p}
                     [] OTHER                     -> {Project, p} \cup trusted
    /\ UNCHANGED <<readable, expired>>

DamageOrRepair ==
    /\ Edit
    /\ readable' = ~readable
    /\ UNCHANGED <<trusted, expired>>

Expire(n) ==
    /\ Edit
    /\ expired' = expired \cup {n}
    /\ UNCHANGED <<readable, trusted>>

-----------------------------------------------------------------------------
(* Commands.                                                               *)

Report(c, r) == pc' = [pc EXCEPT ![c] = "done"] /\ result' = [result EXCEPT ![c] = r]
Goto(c, step) == pc' = [pc EXCEPT ![c] = step] /\ UNCHANGED result

\* The policy is read once, before the transaction.  A refresh installs what
\* the feed happens to serve.
Start(c) ==
    /\ pc[c] = "idle"
    /\ \E event \in Events, feed \in BOOLEAN :
          /\ feed => event.kind = "install"
          /\ cmd' = [cmd EXCEPT ![c] =
                       [event |-> event, feed |-> feed, policy |-> trusted]]
    /\ IF trusted = {} THEN Report(c, "refused") ELSE Goto(c, "begin")
    /\ UNCHANGED <<ledgerVars, ownerVars, recheck>>

TooLarge(rows) == Len(rows) > MaxEvents

\* Mutant of Begin: a deferred transaction, which locks nothing until it writes.
BeginDeferred(c) ==
    /\ pc[c] = "begin"
    /\ IF ~readable \/ TooLarge(events)
       THEN Report(c, "refused")
       ELSE Goto(c, "decide")
    /\ UNCHANGED <<events, lock, ownerVars, cmd, recheck>>

\* transact, up to BEGIN IMMEDIATE: who finds the lock taken waits, and gives
\* up after BUSY_WAIT.
Begin(c) ==
    /\ pc[c] = "begin"
    /\ \/ /\ ~readable \/ TooLarge(events) \/ lock # None
          /\ Report(c, "refused")
          /\ UNCHANGED lock
       \/ /\ readable /\ ~TooLarge(events) /\ lock = None
          /\ Goto(c, "decide")
          /\ lock' = c
    /\ UNCHANGED <<events, ownerVars, cmd, recheck>>

\* Mutant of AlreadyCurrent: the sequence alone decides.
AlreadyCurrentBySequence(c, ledger) ==
    /\ cmd[c].feed
    /\ cmd[c].event.notice.sequence = ledger.seen[cmd[c].event.notice.publisher]

\* The feed serves the very notice that was installed last.
AlreadyCurrent(c, ledger) ==
    LET n == cmd[c].event.notice
    IN  /\ cmd[c].feed
        /\ n.sequence = ledger.seen[n.publisher]
        /\ \E i \in 1 .. Len(events) : events[i] = cmd[c].event

\* decide_install's refusals; a rolled-back feed is one of the replays.
InstallRefused(c, ledger) ==
    LET n == cmd[c].event.notice
    IN  n.publisher \notin cmd[c].policy \/ n \in expired \/ IngestRefused(ledger, n)

\* The decision is taken on the rows read inside the transaction.
Decide(c) ==
    /\ pc[c] = "decide"
    /\ LET ledger  == Replay(events, cmd[c].policy)
           refused == \/ ledger = Unusable
                      \/ ~readable
                      \/ IF cmd[c].event.kind = "install"
                         THEN InstallRefused(c, ledger)
                         ELSE ~Contained(ledger, cmd[c].event.incident)
       IN  IF ledger # Unusable /\ readable /\ cmd[c].event.kind = "install"
              /\ AlreadyCurrent(c, ledger)
           THEN Report(c, "current") /\ lock' = None
           ELSE IF refused
                THEN Report(c, "refused") /\ lock' = None
                ELSE Goto(c, "commit") /\ UNCHANGED lock
    /\ UNCHANGED <<events, ownerVars, cmd, recheck>>

\* INSERT and COMMIT, one row; or SQLite fails and nothing is written.
Commit(c) ==
    /\ pc[c] = "commit"
    /\ \/ /\ events' = Append(events, cmd[c].event)
          /\ IF cmd[c].event.kind = "install"
             THEN Goto(c, "check")
             ELSE Report(c, "ok")
       \/ /\ Report(c, "refused")
          /\ UNCHANGED events
    /\ lock' = None
    /\ UNCHANGED <<ownerVars, cmd, recheck>>

Known(rows, policy) ==
    policy # {} /\ readable /\ ~TooLarge(rows) /\ Replay(rows, policy) # Unusable

\* install_text reads the history back before it reports success.
Check(c) ==
    /\ pc[c] = "check"
    /\ Report(c, IF Known(events, trusted) THEN "ok" ELSE "no_longer_replays")
    /\ UNCHANGED <<ledgerVars, ownerVars, cmd, recheck>>

\* The process dies; SQLite rolls an open transaction back.
Crash(c) ==
    /\ pc[c] \notin {"idle", "done"}
    /\ Report(c, "crashed")
    /\ lock' = IF lock = c THEN None ELSE lock
    /\ UNCHANGED <<events, ownerVars, cmd, recheck>>

Command(c) ==
    Start(c) \/ Begin(c) \/ Decide(c) \/ Commit(c) \/ Check(c) \/ Crash(c)

-----------------------------------------------------------------------------
(* A clean, before each of its deletions.                                  *)

\* snapshot: the trust file is read first.
ReadTrust(d) ==
    /\ recheck[d].pc = "idle"
    /\ recheck' = [recheck EXCEPT ![d] =
                     [pc |-> "rows", policy |-> trusted, since |-> Len(events),
                      at |-> 0, allowed |-> FALSE]]
    /\ UNCHANGED <<ledgerVars, ownerVars, pc, cmd, result>>

\* Mutant of ReadRows: a history that cannot be used contains nothing.
ReadRowsFailOpen(d) ==
    /\ recheck[d].pc = "rows"
    /\ recheck' = [recheck EXCEPT ![d].pc = "decided",
                                  ![d].at = Len(events),
                                  ![d].allowed =
                                     ~Known(events, recheck[d].policy) \/
                                     ~Binds(Replay(events, recheck[d].policy))]
    /\ UNCHANGED <<ledgerVars, ownerVars, pc, cmd, result>>

\* Then the rows; delete_authority withholds what an unknown ledger might bind.
ReadRows(d) ==
    /\ recheck[d].pc = "rows"
    /\ recheck' = [recheck EXCEPT ![d].pc = "decided",
                                  ![d].at = Len(events),
                                  ![d].allowed =
                                     /\ Known(events, recheck[d].policy)
                                     /\ ~Binds(Replay(events, recheck[d].policy))]
    /\ UNCHANGED <<ledgerVars, ownerVars, pc, cmd, result>>

\* The deletion, or its refusal, and the next artifact.
NextDeletion(d) ==
    /\ recheck[d].pc = "decided"
    /\ recheck' = [recheck EXCEPT ![d].pc = "idle"]
    /\ UNCHANGED <<ledgerVars, ownerVars, pc, cmd, result>>

Cleaner(d) == ReadTrust(d) \/ ReadRows(d) \/ NextDeletion(d)

Next ==
    \/ \E c \in Commands : Command(c)
    \/ \E d \in Cleaners : Cleaner(d)
    \/ \E p \in Publishers : EditTrust(p)
    \/ DamageOrRepair
    \/ \E n \in Notices : Expire(n)

Spec == Init /\ [][Next]_vars

-----------------------------------------------------------------------------
(* Properties.                                                             *)

\* The committed history always replays under the keys of all its publishers:
\* however commands race, crash or work with a trust file of a moment ago, no
\* event is committed that the next replay would refuse.
HistoryReplays == Replay(events, Publishers) # Unusable

\* A deletion is let through only if, at some instant of its recheck, nothing
\* in the history contained it, whatever happened to the trust file and the
\* ledger's file meanwhile: a notice installed before the recheck and not
\* lifted always binds (main.rs, execute_clean; INCIDENT_RESPONSE.md).
LaterDeletionsBound ==
    \A d \in Cleaners :
        recheck[d].pc = "decided" /\ recheck[d].allowed =>
            \E n \in recheck[d].since .. recheck[d].at :
                ~Binds(Replay(SubSeq(events, 1, n), Publishers))

\* What a command reported as installed, lifted or already current is in the
\* history, and stays there whatever the other commands do.
ReportsAreTrue ==
    \A c \in Commands :
        result[c] \in {"ok", "current", "no_longer_replays"} =>
            \E i \in 1 .. Len(events) : events[i] = cmd[c].event

\* The history implements the register: commits are its only steps, a notice
\* is taken once and only when newer, nothing but a lift relaxes, and no edit
\* of the trust file, expiry or damage changes what is in force.
Register == INSTANCE ContainmentRegister WITH
                active <- Replay(events, Publishers).active,
                seen   <- Replay(events, Publishers).seen
ImplementsRegister == Register!Spec
=============================================================================
