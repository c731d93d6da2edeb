--------------------------- MODULE InterfacesProofs ---------------------------
(***************************************************************************)
(* Proofs about the parts of Interfaces.                                   *)
(*                                                                         *)
(* Policy: what a policy document can and cannot do to the authority of an *)
(* action, whatever is written in it (cancellai-policy resolver.rs,        *)
(* pinning.rs, explanation.rs).                                            *)
(*                                                                         *)
(* The views of a list that changes (views.rs, atlas.rs, budget.rs): a     *)
(* session is with its parent unless it is alone in leading into a cycle,  *)
(* because the chain of a parent is that of its child a step ahead and     *)
(* ends within as many steps as there are artifacts (ChainsEndInTime); the *)
(* totals of parts add up; the largest of what may go is selected first.   *)
(*                                                                         *)
(* Terminal: on a terminal that reports a key once, what the plan screen   *)
(* shows as confirmed was confirmed deliberately, whatever the list of     *)
(* artifacts and however many keys are pressed.  The invariant behind it:  *)
(* a confirmation is pending only right after a plain c, so that the c     *)
(* which completes it is the second in a row.                              *)
(*                                                                         *)
(* SealedRoot, Configure, WindowsDelete: however many directories are      *)
(* moved away and links put in their place, a handle the walk returned is  *)
(* of a directory that stood on the path, no link followed; so             *)
(* settings.json and the file a deletion marks are the user's own.         *)
(*                                                                         *)
(* Discovery: whatever others do in the tree and whichever calls fail, a   *)
(* walk that says it is complete saw all that stood throughout.  The       *)
(* invariant behind it: until a call fails, all that is wanted is reported *)
(* or some call still to make leads to it (NothingMissed, Leads).          *)
(*                                                                         *)
(* RootClaims: what is claimed of a root rests on markers that were there, *)
(* whatever comes, goes and is replaced between the looks, and what is     *)
(* claimed of a file system on the mount that hides all others there.  The *)
(* invariant behind it: what was found was good at some moment, and what   *)
(* always was is found or still to be looked at (MarkersHold).  A pattern  *)
(* matches what its stars mean, of any length.                             *)
(***************************************************************************)
EXTENDS Interfaces, AuthorityProofs, SequenceTheorems, FiniteSetTheorems, WellFoundedInduction

-----------------------------------------------------------------------------
(* Policy: what a document says.                                           *)

LEMMA MembersOfASequence ==
    ASSUME NEW S, NEW s \in Seq(S), NEW n \in DOMAIN s
    PROVE  s[n] \in S
  OBVIOUS

\* parse_policy: a scope that can be looked up is one of the text's.
LEMMA ScopesOfADocument ==
    ASSUME NEW text \in Texts, NEW r \in Rungs,
           NEW k \in DOMAIN ParsePolicy(text).scope[r]
    PROVE  ParsePolicy(text).scope[r][k] \in Scopes
  <1> DEFINE Naming(n) == text.scopes[n].rung = r /\ text.scopes[n].key = k
  <1>1. k \in {text.scopes[n].key : n \in {m \in DOMAIN text.scopes : text.scopes[m].rung = r}}
      BY DEF ParsePolicy
  <1>2. \E n \in DOMAIN text.scopes : Naming(n)
      BY <1>1
  <1>3. ParsePolicy(text).scope[r][k]
          = text.scopes[CHOOSE n \in DOMAIN text.scopes : Naming(n)].scope
      BY <1>1 DEF ParsePolicy
  <1> DEFINE n0 == CHOOSE n \in DOMAIN text.scopes : Naming(n)
  <1>4. n0 \in DOMAIN text.scopes
      BY <1>2
  <1>5. text.scopes \in Seq([rung : Rungs, key : Keys, scope : Scopes])
      BY DEF Texts
  <1> HIDE DEF n0
  <1>6. text.scopes[n0] \in [rung : Rungs, key : Keys, scope : Scopes]
    BY <1>4, <1>5, MembersOfASequence
  <1> QED
      BY <1>3, <1>6 DEF n0

\* A set of rungs that is not empty has a most specific one.
LEMMA FirstRungExists ==
    ASSUME NEW S \in SUBSET DOMAIN Ladder, S # {}
    PROVE  \E n \in S : \A m \in S : n <= m
  <1>1. \A x \in S : x \in {1, 2, 3, 4, 5}
      BY DEF Ladder
  <1>2. CASE 1 \in S
      BY <1>1, <1>2
  <1>3. CASE 1 \notin S /\ 2 \in S
      BY <1>1, <1>3
  <1>4. CASE 1 \notin S /\ 2 \notin S /\ 3 \in S
      BY <1>1, <1>4
  <1>5. CASE 1 \notin S /\ 2 \notin S /\ 3 \notin S /\ 4 \in S
      BY <1>1, <1>5
  <1>6. CASE 1 \notin S /\ 2 \notin S /\ 3 \notin S /\ 4 \notin S
      BY <1>1, <1>6
  <1> QED
      BY <1>2, <1>3, <1>4, <1>5, <1>6

\* resolve_requested_authority yields a level whatever the document says.
LEMMA RequestedIsALevel ==
    ASSUME NEW text \in Texts, NEW context \in Contexts, NEW fallback \in Levels
    PROVE  ResolveRequestedAuthority(ParsePolicy(text), context, fallback) \in Levels
  <1> DEFINE document == ParsePolicy(text)
             answering == Answering(document, context, "authority")
             first == FirstRung(document, context, "authority")
  <1>1. CASE answering = {}
      BY <1>1 DEF ResolveRequestedAuthority
  <1>2. CASE answering # {}
    <2>1. answering \in SUBSET DOMAIN Ladder
        BY DEF Answering
    <2>2. first \in answering
        BY <1>2, <2>1, FirstRungExists DEF FirstRung
    <2>3. Ladder[first] \in Rungs
        BY <2>1, <2>2 DEF Rungs
    <2>4. PICK key \in context[Ladder[first]] :
              /\ key \in DOMAIN document.scope[Ladder[first]]
              /\ document.scope[Ladder[first]][key].authority # {}
        BY <2>2 DEF Answering
    <2>5. \A k \in DOMAIN document.scope[Ladder[first]] :
              document.scope[Ladder[first]][k].authority \subseteq Levels
        BY <2>3, ScopesOfADocument DEF Scopes, Option
    <2>6. /\ WalkLadder(document, context, "authority")
               = SaidBy(document, context, "authority", first)
          /\ SaidBy(document, context, "authority", first) # {}
          /\ SaidBy(document, context, "authority", first) \subseteq Levels
      <3> HIDE DEF document, first
      <3>1. SaidBy(document, context, "authority", first)
              = UNION {document.scope[Ladder[first]][k].authority :
                          k \in context[Ladder[first]] \cap DOMAIN document.scope[Ladder[first]]}
          BY DEF SaidBy
      <3>2. WalkLadder(document, context, "authority")
              = SaidBy(document, context, "authority", first)
          BY <1>2 DEF WalkLadder, first
      <3> QED
          BY <2>4, <2>5, <3>1, <3>2
    <2>7. (CHOOSE level \in WalkLadder(document, context, "authority") : TRUE) \in Levels
      <3> HIDE DEF document
      <3> QED
          BY <2>6
    <2> QED
        BY <1>2, <2>7 DEF ResolveRequestedAuthority
  <1> QED
      BY <1>1, <1>2

LEMMA AskedIsAnInput ==
    ASSUME NEW text \in Texts, NEW context \in Contexts, NEW in \in Inputs
    PROVE  /\ Requesting(ParsePolicy(text), context, in) \in Inputs
           /\ \E level \in Levels :
                 Requesting(ParsePolicy(text), context, in) = [in EXCEPT !.requested = level]
  <1> DEFINE level == ResolveRequestedAuthority(ParsePolicy(text), context, in.requested)
  <1>1. in.requested \in Levels
      BY DEF Inputs
  <1>2. level \in Levels
      BY <1>1, RequestedIsALevel
  <1> HIDE DEF level
  <1>3. Requesting(ParsePolicy(text), context, in) = [in EXCEPT !.requested = level]
      BY DEF Requesting, level
  <1> QED
      BY <1>2, <1>3 DEF Inputs

-----------------------------------------------------------------------------
(* Policy: what an action may do.                                          *)

\* The ceilings of an input, without any later one.
LEMMA OwnCeilingsBind ==
    ASSUME NEW in \in Inputs
    PROVE  /\ EffectiveAuthority(in) \in Levels
           /\ EffectiveAuthority(in) \in Ceilings(BaseConstraints(in))
           /\ \A c \in BaseConstraints(in) : EffectiveAuthority(in) <= c.ceiling
  <1>1. "stable" \in Channels /\ {} \in Containments
      BY DEF Channels, Containments
  <1>2. BaseConstraints(in) # {} /\ Ceilings(BaseConstraints(in)) \subseteq Levels
      BY <1>1, CeilingsAreLevels, TRUE \in BOOLEAN DEF Ceilings
  <1> QED
      BY <1>2, EffectiveLevelIsLowest DEF EffectiveAuthority

\* Whatever a policy document asks for, on whatever rung, the action gets no
\* more than the facts about its target allow (resolve_effective_authority):
\* no policy, however generous, raises any other ceiling.
THEOREM NoDocumentRaises ==
    ASSUME NEW text \in Texts, NEW context \in Contexts, NEW in \in Inputs
    PROVE  ResolveEffectiveAuthority(ParsePolicy(text), context, in)
             <= EffectiveAuthority([in EXCEPT !.requested = Autopilot])
  <1> DEFINE asked == Requesting(ParsePolicy(text), context, in)
             most == [in EXCEPT !.requested = Autopilot]
  <1>1. asked \in Inputs
      BY AskedIsAnInput
  <1>2. PICK level \in Levels : asked = [in EXCEPT !.requested = level]
      BY AskedIsAnInput
  <1>3. most \in Inputs /\ most.requested = Autopilot
      BY DEF Inputs, Levels, Observe, Autopilot
  <1> HIDE DEF asked, most
  <1>4. PICK c \in BaseConstraints(most) : EffectiveAuthority(most) = c.ceiling
      BY <1>3, OwnCeilingsBind DEF Ceilings
  <1>5. CASE c = Constraint("user_authority", most.requested)
    <2>1. EffectiveAuthority(most) = Autopilot
        BY <1>3, <1>4, <1>5 DEF Constraint
    <2>2. EffectiveAuthority(asked) \in Levels
        BY <1>1, OwnCeilingsBind
    <2> QED
        BY <2>1, <2>2 DEF Levels, Observe, Autopilot, ResolveEffectiveAuthority, asked, most
  <1>6. CASE c # Constraint("user_authority", most.requested)
    <2>1. /\ asked.artifact = most.artifact /\ asked.confidence = most.confidence
          /\ asked.activity = most.activity /\ asked.protection = most.protection
          /\ asked.integrity = most.integrity /\ asked.trust = most.trust
        BY <1>2 DEF Inputs, most
    <2>2. c \in BaseConstraints(asked)
        BY <1>4, <1>6, <2>1 DEF BaseConstraints
    <2> QED
        BY <1>1, <1>4, <2>2, OwnCeilingsBind DEF ResolveEffectiveAuthority, asked, most
  <1> QED
      BY <1>5, <1>6

\* A session the document pins is never deleted, whatever else the document,
\* or a scope of it, asks for (resolve_protection, resolve_effective_authority).
THEOREM PinnedIsNeverDeleted ==
    ASSUME NEW text \in Texts, NEW context \in Contexts, NEW in \in Inputs,
           NEW session, NEW existing \in Protections,
           IsPinned(ParsePolicy(text), session),
           in.protection = ResolveProtection(ParsePolicy(text), session, existing)
    PROVE  ResolveEffectiveAuthority(ParsePolicy(text), context, in)
             < MinimumAuthorityFor("delete")
  <1> DEFINE asked == Requesting(ParsePolicy(text), context, in)
  <1>1. in.protection \in {"pinned", "protected"}
      BY DEF ResolveProtection, Protections
  <1>2. asked \in Inputs /\ asked.protection = in.protection
      BY AskedIsAnInput DEF Inputs
  <1> HIDE DEF asked
  <1>3. LifecycleCeiling(asked.activity, asked.protection, asked.integrity) = Recommend
      BY <1>1, <1>2 DEF LifecycleCeiling
  <1>4. Constraint("lifecycle_authority", Recommend) \in BaseConstraints(asked)
      BY <1>3 DEF BaseConstraints
  <1>5. /\ EffectiveAuthority(asked) \in Levels
        /\ EffectiveAuthority(asked) <= Constraint("lifecycle_authority", Recommend).ceiling
      BY <1>2, <1>4, OwnCeilingsBind
  <1> QED
      BY <1>5 DEF Constraint, MinimumAuthorityFor, Recommend, Govern, Levels, Observe, Autopilot,
                  ResolveEffectiveAuthority, asked

\* What explain_policy says is so: it names at least one constraint, each one it
\* names has the ceiling that became final, and when it says that the request was
\* suppressed, the request is not what bound.
THEOREM ExplanationIsTrue ==
    ASSUME NEW text \in Texts, NEW context \in Contexts, NEW in \in Inputs
    PROVE  LET said == ExplainPolicy(ParsePolicy(text), context, in)
           IN  /\ said.final = ResolveEffectiveAuthority(ParsePolicy(text), context, in)
               /\ said.final <= said.requested
               /\ said.binding # {}
               /\ said.suppressed => "user_authority" \notin said.binding
  <1> DEFINE asked == Requesting(ParsePolicy(text), context, in)
             said == ExplainPolicy(ParsePolicy(text), context, in)
  <1>1. asked \in Inputs
      BY AskedIsAnInput
  <1>2. /\ said.requested = asked.requested /\ said.final = EffectiveAuthority(asked)
        /\ said.binding = BindingConstraints(asked)
        /\ said.suppressed = (asked.requested # EffectiveAuthority(asked))
      BY DEF ExplainPolicy
  <1>3. said.final = ResolveEffectiveAuthority(ParsePolicy(text), context, in)
      BY <1>2 DEF ResolveEffectiveAuthority
  <1> HIDE DEF asked, said
  <1>4. EffectiveAuthority(asked) <= asked.requested
    <2>1. Constraint("user_authority", asked.requested) \in BaseConstraints(asked)
        BY DEF BaseConstraints
    <2>2. EffectiveAuthority(asked) <= Constraint("user_authority", asked.requested).ceiling
        BY <1>1, <2>1, OwnCeilingsBind
    <2> QED
        BY <2>2 DEF Constraint
  <1>5. BindingConstraints(asked) # {}
    <2>1. PICK c \in BaseConstraints(asked) : EffectiveAuthority(asked) = c.ceiling
        BY <1>1, OwnCeilingsBind DEF Ceilings
    <2> QED
        BY <2>1 DEF BindingConstraints
  <1>6. "user_authority" \in BindingConstraints(asked) => asked.requested = EffectiveAuthority(asked)
    <2> SUFFICES ASSUME NEW c \in BaseConstraints(asked), c.name = "user_authority",
                        c.ceiling = EffectiveAuthority(asked)
                 PROVE  asked.requested = EffectiveAuthority(asked)
        BY DEF BindingConstraints
    <2>1. c = Constraint("user_authority", asked.requested)
        BY DEF BaseConstraints, Constraint
    <2> QED
        BY <2>1 DEF Constraint
  <1>7. said.final <= said.requested /\ said.binding # {}
      BY <1>2, <1>4, <1>5
  <1>8. said.suppressed => "user_authority" \notin said.binding
      BY <1>2, <1>6
  <1> QED
      BY <1>3, <1>7, <1>8 DEF said

-----------------------------------------------------------------------------
(* Terminal: what a confirmation rests on.                                 *)

ArmedByAPress == app.armed => repeats \in {1, 2}

TInv == TerminalTypeOK /\ ArmedByAPress /\ ConfirmedDeliberately

-----------------------------------------------------------------------------
(* Terminal: one key.                                                      *)

\* A selection always shows an artifact of the list.
LEMMA ShownIsOfTheList ==
    ASSUME NEW selected \in Nat
    PROVE  ShownOf(selected) \in 1 .. Len(Views)
  <1>1. Len(Views) \in Nat /\ Len(Views) > 0
      BY TerminalAssumption
  <1>2. selected % Len(Views) \in 0 .. Len(Views) - 1
      BY <1>1
  <1> QED
      BY <1>1, <1>2 DEF ShownOf

\* handle_key yields a state of the program.
LEMMA HandledKeyIsTyped ==
    ASSUME NEW before \in App, NEW key \in Keys0, NEW plan,
           key.code = "down" => before.selected < MaxSelected
    PROVE  HandleKey(before, key, plan) \in App
  <1> DEFINE a == [before EXCEPT !.armed = @ /\ StaysArmed(key)]
  <1>1. a \in App /\ a.selected = before.selected
      BY DEF App
  <1>2. Reset(a) \in App /\ Reset(a).selected = before.selected
      BY <1>1 DEF App, Reset
  <1>3. Confirm0(a, plan) \in App
      BY <1>1 DEF App, Confirm0
  <1>4. \A n \in Nat \ {0} : Screen(n) \in 1 .. Len(Screens)
      BY DEF Screen, Screens
  <1>5. CASE key.code = "quit"
    <2>1. HandleKey(before, key, plan) = [a EXCEPT !.quit = TRUE]
        BY <1>5 DEF HandleKey, PlainC, Key
    <2> HIDE DEF a
    <2> QED
        BY <1>1, <2>1 DEF App
  <1>6. CASE key.code = "help"
    <2>1. HandleKey(before, key, plan) = [a EXCEPT !.help = ~@]
        BY <1>6 DEF HandleKey, PlainC, Key
    <2> HIDE DEF a
    <2> QED
        BY <1>1, <2>1 DEF App
  <1>7. CASE key.code \in {"tab", "back_tab"}
    <2>1. \E n \in Nat \ {0} : HandleKey(before, key, plan) = [Reset(a) EXCEPT !.screen = Screen(n)]
      <3>1. a.screen \in 1 .. Len(Screens) /\ Reset(a).screen = a.screen
          BY <1>1 DEF App, Reset
      <3>2. Reset(a).screen + 1 \in Nat \ {0} /\ Reset(a).screen + Len(Screens) - 1 \in Nat \ {0}
          BY <3>1 DEF Screens
      <3>3. \/ HandleKey(before, key, plan) = [Reset(a) EXCEPT !.screen = Screen(@ + 1)]
            \/ HandleKey(before, key, plan) = [Reset(a) EXCEPT !.screen = Screen(@ + Len(Screens) - 1)]
          BY <1>7 DEF HandleKey, PlainC, Key
      <3> QED
          BY <3>2, <3>3
    <2> HIDE DEF a
    <2> QED
        BY <1>2, <1>4, <2>1 DEF App
  <1>8. CASE key.code = "down"
    <2>1. HandleKey(before, key, plan) = [Reset(a) EXCEPT !.selected = @ + 1]
        BY <1>8 DEF HandleKey, PlainC, Key
    <2> HIDE DEF a
    <2> QED
        BY <1>2, <1>8, <2>1, TerminalAssumption DEF App
  <1>9. CASE key.code = "up"
    <2>1. HandleKey(before, key, plan)
            = [Reset(a) EXCEPT !.selected = IF @ = 0 THEN 0 ELSE @ - 1]
        BY <1>9 DEF HandleKey, PlainC, Key
    <2> HIDE DEF a
    <2> QED
        BY <1>2, <2>1, TerminalAssumption DEF App
  <1>10. CASE key.code = "digit"
    <2>1. HandleKey(before, key, plan) = [Reset(a) EXCEPT !.screen = key.to]
        BY <1>10 DEF HandleKey, PlainC, Key
    <2>2. key.to \in 1 .. Len(Screens)
        BY <1>10 DEF Keys0
    <2> HIDE DEF a
    <2> QED
        BY <1>2, <2>1, <2>2 DEF App
  <1>11. CASE key.code \notin {"quit", "help", "tab", "back_tab", "down", "up", "digit"}
    <2>1. HandleKey(before, key, plan) \in {a, Confirm0(a, plan)}
        BY <1>11 DEF HandleKey, PlainC, Key
    <2> QED
        BY <1>1, <1>3, <2>1
  <1> QED
      BY <1>5, <1>6, <1>7, <1>8, <1>9, <1>10, <1>11

\* What a key can do to a confirmation (handle_key): it stays on the same
\* screen and artifact, or it is new, made by a plain c on the plan screen; and
\* only a plain c there makes one pending.
LEMMA ConfirmationOfAKey ==
    ASSUME NEW before \in App, NEW key \in Keys0, NEW plan,
           NEW after, after = HandleKey(before, key, plan)
    PROVE  /\ after.confirmed =>
                 /\ after.screen = before.screen /\ after.selected = before.selected
                 /\ \/ before.confirmed
                    \/ /\ key = PlainC /\ Screens[before.screen] = "plan"
                       /\ plan.can_confirm /\ (plan.strong => before.armed)
           /\ after.armed => key = PlainC
  <1> DEFINE a == [before EXCEPT !.armed = @ /\ StaysArmed(key)]
  <1>1. /\ a.screen = before.screen /\ a.selected = before.selected
        /\ a.confirmed = before.confirmed
        /\ a.armed = (before.armed /\ key = PlainC)
        /\ a \in App
      BY DEF App, StaysArmed
  <1>2. Reset(a) \in App /\ ~Reset(a).confirmed /\ ~Reset(a).armed
      BY <1>1 DEF App, Reset
  <1>3. CASE key.code \in {"quit", "help"}
    <2>1. after \in {[a EXCEPT !.quit = TRUE], [a EXCEPT !.help = ~@]}
        BY <1>3 DEF HandleKey, PlainC, Key
    <2>2. key # PlainC
        BY <1>3 DEF PlainC, Key
    <2> HIDE DEF a
    <2> QED
        BY <1>1, <2>1, <2>2 DEF App
  <1>4. CASE key.code \in {"tab", "back_tab", "down", "up", "digit"}
    <2>1. CASE key.code \in {"tab", "back_tab", "digit"}
      <3>1. \/ after = [Reset(a) EXCEPT !.screen = Screen(@ + 1)]
            \/ after = [Reset(a) EXCEPT !.screen = Screen(@ + Len(Screens) - 1)]
            \/ after = [Reset(a) EXCEPT !.screen = key.to]
          BY <2>1 DEF HandleKey, PlainC, Key
      <3> HIDE DEF a
      <3> QED
          BY <1>2, <3>1 DEF App
    <2>2. CASE key.code \in {"down", "up"}
      <3>1. \/ after = [Reset(a) EXCEPT !.selected = @ + 1]
            \/ after = [Reset(a) EXCEPT !.selected = IF @ = 0 THEN 0 ELSE @ - 1]
          BY <2>2 DEF HandleKey, PlainC, Key
      <3> HIDE DEF a
      <3> QED
          BY <1>2, <3>1 DEF App
    <2> QED
        BY <1>4, <2>1, <2>2
  <1>5. CASE key.code \notin {"quit", "help", "tab", "back_tab", "down", "up", "digit"}
    <2>1. CASE key = PlainC /\ Screens[a.screen] = "plan" /\ plan.can_confirm
      <3>1. after = Confirm0(a, plan)
          BY <1>5, <2>1 DEF HandleKey, PlainC, Key, a
      <3> QED
          BY <1>1, <2>1, <3>1 DEF Confirm0, App
    <2>2. CASE ~(key = PlainC /\ Screens[a.screen] = "plan" /\ plan.can_confirm)
      <3>1. after = a
          BY <1>5, <2>2 DEF HandleKey, PlainC, Key, a
      <3> QED
          BY <1>1, <3>1
    <2> QED
        BY <2>1, <2>2
  <1> QED
      BY <1>3, <1>4, <1>5

-----------------------------------------------------------------------------
(* Terminal: the invariant.                                                *)

LEMMA TInitially == TerminalInit => TInv
  <1> SUFFICES ASSUME TerminalInit PROVE TInv
      OBVIOUS
  <1>1. Len(Views) \in Nat /\ Len(Views) > 0
      BY TerminalAssumption
  <1> QED
      BY <1>1, TerminalAssumption
      DEF TerminalInit, TInv, TerminalTypeOK, ArmedByAPress, ConfirmedDeliberately, App,
          NoKey, Key, Screens

\* One key: the invariant survives when the confirmation it completes, if any,
\* was the second plain c in a row.
LEMMA AKeyKeepsTheInvariant ==
    ASSUME TInv, NEW key \in Keys0, Presses(key)
    PROVE  TInv'
  <1> USE DEF TInv
  <1> DEFINE plan == PlanContext(app.selected)
  <1>1. app \in App /\ app.selected \in Nat /\ app.selected \in 0 .. MaxSelected
      BY DEF TerminalTypeOK, App
  <1>2. app' = HandleKey(app, key, plan)
      BY DEF Presses, Event
  <1>3. app' \in App
      BY <1>1, <1>2, HandledKeyIsTyped, TerminalAssumption DEF Presses
  <1>4. /\ app'.confirmed =>
              /\ app'.screen = app.screen /\ app'.selected = app.selected
              /\ \/ app.confirmed
                 \/ /\ key = PlainC /\ Screens[app.screen] = "plan"
                    /\ plan.can_confirm /\ (plan.strong => app.armed)
        /\ app'.armed => key = PlainC
      BY <1>1, <1>2, ConfirmationOfAKey
  <1>5. /\ repeats \in 0 .. 2
        /\ repeats' = IF key # PlainC THEN 0 ELSE IF repeats = 2 THEN 2 ELSE repeats + 1
      BY DEF TerminalTypeOK, Presses
  <1>6. confirmedBy' = IF app'.confirmed /\ ~app.confirmed
                       THEN [artifact |-> ShownOf(app.selected), presses |-> repeats']
                       ELSE confirmedBy
      BY DEF Presses, Event
  <1>7. TerminalTypeOK'
    <2>1. ShownOf(app.selected) \in 0 .. Len(Views)
      <3>1. ShownOf(app.selected) \in 1 .. Len(Views)
          BY <1>1, ShownIsOfTheList
      <3> QED
          BY <3>1, TerminalAssumption
    <2>2. repeats' \in 0 .. 2
        BY <1>5
    <2>3. confirmedBy' \in [artifact : 0 .. Len(Views), presses : 0 .. 2]
        BY <1>6, <2>1, <2>2 DEF TerminalTypeOK
    <2> QED
        BY <1>3, <2>2, <2>3 DEF TerminalTypeOK, Presses
  <1>8. ArmedByAPress'
      BY <1>4, <1>5 DEF ArmedByAPress
  <1>9. ConfirmedDeliberately'
    <2> SUFFICES ASSUME app'.confirmed
                 PROVE  /\ PlanContext(app'.selected).strong => confirmedBy'.presses = 2
                        /\ Screens[app'.screen] = "plan"
                        /\ PlanContext(app'.selected).can_confirm
                        /\ confirmedBy'.artifact = ShownOf(app'.selected)
        BY DEF ConfirmedDeliberately, TwoPresses
    <2>1. app'.screen = app.screen /\ app'.selected = app.selected
        BY <1>4
    <2>2. CASE app.confirmed
        BY <1>6, <2>1, <2>2 DEF ConfirmedDeliberately, TwoPresses
    <2>3. CASE ~app.confirmed
      <3>1. plan.strong => repeats' = 2
          BY <1>4, <1>5, <2>3 DEF ArmedByAPress
      <3> QED
          BY <1>4, <1>6, <2>1, <2>3, <3>1
    <2> QED
        BY <2>2, <2>3
  <1> QED
      BY <1>7, <1>8, <1>9

LEMMA TStep ==
    ASSUME ReportsReleases = FALSE, TInv, [TerminalNext]_terminalVars
    PROVE  TInv'
  <1>1. CASE \E key \in Keys0 : Presses(key)
      BY <1>1, AKeyKeepsTheInvariant
  <1>2. CASE Releases
      BY <1>2 DEF Releases, TInv, TerminalTypeOK, ArmedByAPress, ConfirmedDeliberately,
                  TwoPresses
  <1>3. CASE UNCHANGED terminalVars
      BY <1>3 DEF terminalVars, TInv, TerminalTypeOK, ArmedByAPress, ConfirmedDeliberately,
                  TwoPresses
  <1> QED
      BY <1>1, <1>2, <1>3 DEF TerminalNext

\* Where keys are reported once, no sequence of keys leaves a confirmation for
\* another artifact than the one shown, for one there was nothing to confirm
\* of, or, of an irreversible plan, after a single press (handle_key).
THEOREM Deliberate ==
    ASSUME ReportsReleases = FALSE
    PROVE  TerminalSpec => []ConfirmedDeliberately
  <1>1. TerminalInit => TInv
      BY TInitially
  <1>2. TInv /\ [TerminalNext]_terminalVars => TInv'
      BY TStep
  <1>3. TInv => ConfirmedDeliberately
      BY DEF TInv
  <1> QED
      BY <1>1, <1>2, <1>3, PTL DEF TerminalSpec

-----------------------------------------------------------------------------
(* SealedRoot: where a walk can get.                                       *)

\* Whatever is put in its way, the walk only ever holds a directory of the
\* path: a link is the only way out of it.
WalksThePath ==
    /\ tree \in [Dirs -> [Names -> Entries]]
    /\ tree["top"]["home"].kind = "dir" => tree["top"]["home"].to = "home"
    /\ tree["home"]["claude"].kind = "dir" => tree["home"]["claude"].to \in {"claude", "new"}
    /\ \/ hop = 1 /\ dir = "top"
       \/ hop = 2 /\ dir = "home"
       \/ hop = 3 /\ dir \in {"claude", "new"}

LEMMA ThePath == Len(Path) = 2 /\ Path[1] = "home" /\ Path[2] = "claude"
  BY DEF Path

LEMMA TheDirectories ==
    /\ {"top", "home", "claude", "elsewhere", "outside", "new"} \subseteq Dirs
    /\ Names = {"home", "claude"}
  BY SealedRootAssumption DEF Names

\* Another entry at a name, where the path has one that a walk may follow.
LEMMA EntryKeepsThePath ==
    ASSUME WalksThePath, NEW p \in Dirs, NEW n \in Names, NEW entry \in Entries,
           p = "top" /\ n = "home" /\ entry.kind = "dir" => entry.to = "home",
           p = "home" /\ n = "claude" /\ entry.kind = "dir" => entry.to \in {"claude", "new"},
           tree' = [tree EXCEPT ![p][n] = entry], UNCHANGED <<dir, hop>>
    PROVE  WalksThePath'
  <1>1. tree \in [Dirs -> [Names -> Entries]]
      BY DEF WalksThePath
  <1>2. tree' \in [Dirs -> [Names -> Entries]]
      BY <1>1
  <1>3. \A d \in Dirs, m \in Names : tree'[d][m] = IF d = p /\ m = n THEN entry ELSE tree[d][m]
      BY <1>1
  <1>4. /\ tree["top"]["home"].kind = "dir" => tree["top"]["home"].to = "home"
        /\ tree["home"]["claude"].kind = "dir" => tree["home"]["claude"].to \in {"claude", "new"}
      BY DEF WalksThePath
  <1>5. tree'["top"]["home"].kind = "dir" => tree'["top"]["home"].to = "home"
      BY <1>3, <1>4, TheDirectories
  <1>6. tree'["home"]["claude"].kind = "dir" => tree'["home"]["claude"].to \in {"claude", "new"}
      BY <1>3, <1>4, TheDirectories
  <1> QED
      BY <1>2, <1>5, <1>6 DEF WalksThePath

LEMMA SwapKeepsThePath ==
    ASSUME WalksThePath, Swap
    PROVE  WalksThePath' /\ UNCHANGED <<dir, hop>>
  <1>1. {Missing, PlainFile, Entry("link", "elsewhere"), Entry("link", "outside"),
         Entry("dir", "home"), Entry("dir", "claude")} \subseteq Entries
      BY TheDirectories DEF Missing, PlainFile, Entry, Entries
  <1>2. CASE \E e \in {Missing, Entry("link", "elsewhere"), Entry("dir", "home")} :
                Put("top", "home", e)
    <2>1. PICK e \in {Missing, Entry("link", "elsewhere"), Entry("dir", "home")} :
              Put("top", "home", e)
        BY <1>2
    <2>2. e \in Entries /\ (e.kind = "dir" => e.to = "home")
        BY <1>1 DEF Missing, Entry
    <2>3. tree' = [tree EXCEPT !["top"]["home"] = e] /\ UNCHANGED <<dir, hop>>
        BY <2>1 DEF Put
    <2> QED
        BY <2>2, <2>3, EntryKeepsThePath, TheDirectories
  <1>3. CASE \E e \in {Missing, PlainFile, Entry("link", "outside"), Entry("dir", "claude")} :
                Put("home", "claude", e)
    <2>1. PICK e \in {Missing, PlainFile, Entry("link", "outside"), Entry("dir", "claude")} :
              Put("home", "claude", e)
        BY <1>3
    <2>2. e \in Entries /\ (e.kind = "dir" => e.to \in {"claude", "new"})
        BY <1>1 DEF Missing, PlainFile, Entry
    <2>3. tree' = [tree EXCEPT !["home"]["claude"] = e] /\ UNCHANGED <<dir, hop>>
        BY <2>1 DEF Put
    <2> QED
        BY <2>2, <2>3, EntryKeepsThePath, TheDirectories
  <1> QED
      BY <1>2, <1>3 DEF Swap

LEMMA OpenChildKeepsThePath ==
    ASSUME WalksThePath, OpenChild
    PROVE  WalksThePath' /\ hop' = hop + 1
  <1>1. /\ hop \in {1, 2} /\ tree[dir][Path[hop]].kind = "dir"
        /\ dir' = tree[dir][Path[hop]].to /\ hop' = hop + 1 /\ tree' = tree
      BY ThePath DEF OpenChild, Opening, Next, WalksThePath
  <1>2. CASE hop = 1
      BY <1>1, <1>2, ThePath DEF WalksThePath
  <1>3. CASE hop = 2
      BY <1>1, <1>3, ThePath DEF WalksThePath
  <1> QED
      BY <1>1, <1>2, <1>3

LEMMA CreateLeafKeepsThePath ==
    ASSUME WalksThePath, CreateLeaf
    PROVE  WalksThePath' /\ UNCHANGED <<dir, hop>>
  <1>1. hop = 2 /\ dir = "home" /\ UNCHANGED <<dir, hop>>
      BY ThePath DEF CreateLeaf, WalksThePath
  <1>2. tree' = tree \/ tree' = [tree EXCEPT !["home"]["claude"] = Entry("dir", "new")]
      BY <1>1 DEF CreateLeaf
  <1>3. Entry("dir", "new") \in Entries
      BY TheDirectories DEF Entry, Entries
  <1>4. CASE tree' = tree
      BY <1>1, <1>4 DEF WalksThePath
  <1>5. CASE tree' = [tree EXCEPT !["home"]["claude"] = Entry("dir", "new")]
      BY <1>1, <1>3, <1>5, EntryKeepsThePath, TheDirectories DEF Entry
  <1> QED
      BY <1>1, <1>2, <1>4, <1>5

LEMMA PathInitially == SealedRootInit => WalksThePath /\ hop = 1
  <1> SUFFICES ASSUME SealedRootInit PROVE WalksThePath /\ hop = 1
      OBVIOUS
  <1>1. PICK leaf \in {Missing, Entry("dir", "claude")} :
            tree = [d \in Dirs |->
                      CASE d = "top"       -> [Bare EXCEPT !["home"] = Entry("dir", "home")]
                        [] d = "home"      -> [Bare EXCEPT !["claude"] = leaf]
                        [] d = "elsewhere" -> [Bare EXCEPT !["claude"] = Entry("dir", "outside")]
                        [] OTHER           -> Bare]
      BY DEF SealedRootInit
  <1>2. {Missing, Entry("dir", "claude"), Entry("dir", "home"), Entry("dir", "outside")}
            \subseteq Entries
      BY TheDirectories DEF Missing, Entry, Entries
  <1>3. Bare \in [Names -> Entries]
      BY <1>2 DEF Bare
  <1>4. tree \in [Dirs -> [Names -> Entries]]
      BY <1>1, <1>2, <1>3
  <1>5. tree["top"]["home"] = Entry("dir", "home") /\ tree["home"]["claude"] = leaf
      BY <1>1, <1>3, TheDirectories
  <1>6. hop = 1 /\ dir = "top"
      BY DEF SealedRootInit
  <1> QED
      BY <1>4, <1>5, <1>6 DEF WalksThePath, Entry, Missing

-----------------------------------------------------------------------------
(* Configure: settings.json.                                               *)

Whole == Contents \ {Torn}

\* The keys a file of this directory may have: those of one that stood there,
\* or none at all where none stood.
KeysOf(d) == stood[d] \cup (IF NoFile.keys \in stood[d] THEN {0} ELSE {})

\* What stands in each directory, and what a power loss would leave there.
FilesStand ==
    /\ settings \in [Homes -> Whole] /\ disk \in [Homes -> Whole]
    /\ stood \in [Homes -> SUBSET Int] /\ writes \in Nat
    /\ \A d \in Homes : settings[d].keys \in KeysOf(d) /\ disk[d].keys \in KeysOf(d)
    /\ stood["outside"] = {settings["outside"].keys} /\ settings["outside"].days = FALSE

\* What configure has read and written on the way, and where.
CourseHolds ==
    /\ cpc \in Steps
    /\ cpc \in Steps \ {"begin", "walk", "create_leaf", "done"} => hop = 3
    /\ cpc \in {"create", "write", "sync", "rename"} => read \in Objects /\ read.keys \in KeysOf(dir)
    /\ cpc \in {"sync", "rename"} => temp.text = Settings(TRUE, read.keys)
    /\ cpc \in {"rename", "sync_dir"} => temp.synced = TRUE
    /\ cpc = "sync_dir" /\ writes = 0 => settings[dir].days = TRUE
    /\ result = "set" => cpc = "done"
    /\ result = "set" /\ writes = 0 => \E d \in Homes : disk[d].days = TRUE

ConfigureInv == FilesStand /\ CourseHolds

LEMMA ContentsAreRecords ==
    /\ \A c \in Whole : c.days \in BOOLEAN /\ c.keys \in Int
    /\ Objects \subseteq Whole /\ {NoFile, Invalid} \subseteq Whole
    /\ \A days \in BOOLEAN, k \in 0 .. MaxWrites :
          Settings(days, k) \in Objects /\ Settings(days, k).keys = k /\ Settings(days, k).days = days
  <1>1. \A c \in Objects : c.keys >= 0 /\ c.days \in BOOLEAN /\ c.keys \in Int
      BY ConfigureAssumption DEF Objects
  <1>2. Objects \subseteq Whole
      BY <1>1 DEF Whole, Contents, Torn
  <1>3. {NoFile, Invalid} \subseteq Whole
      BY DEF Whole, Contents, Torn, NoFile, Invalid
  <1>4. \A c \in Whole : c.days \in BOOLEAN /\ c.keys \in Int
    <2>1. NoFile.days \in BOOLEAN /\ NoFile.keys \in Int
        BY DEF NoFile
    <2>2. Invalid.days \in BOOLEAN /\ Invalid.keys \in Int
        BY DEF Invalid
    <2>3. Whole \subseteq Objects \cup {NoFile, Invalid}
        BY DEF Whole, Contents
    <2> QED
        BY <1>1, <2>1, <2>2, <2>3
  <1>5. ASSUME NEW days \in BOOLEAN, NEW k \in 0 .. MaxWrites
        PROVE  Settings(days, k) \in Objects /\ Settings(days, k).keys = k
               /\ Settings(days, k).days = days
      BY DEF Settings, Objects
  <1> QED
      BY <1>2, <1>3, <1>4, <1>5

\* One directory's file is replaced, as it is seen, on the disk, or both.
LEMMA ReplacingKeepsFiles ==
    ASSUME FilesStand, NEW d \in {"claude", "new"}, NEW content \in Whole,
           content.keys \in KeysOf(d),
           settings' = settings \/ settings' = [settings EXCEPT ![d] = content],
           disk' = disk \/ disk' = [disk EXCEPT ![d] = content],
           UNCHANGED <<stood, writes>>
    PROVE  FilesStand'
  <1>1. d \in Homes /\ d # "outside" /\ "outside" \in Homes
      BY DEF Homes
  <1>2. settings' \in [Homes -> Whole] /\ disk' \in [Homes -> Whole]
      BY <1>1 DEF FilesStand
  <1>3. \A e \in Homes : settings'[e] \in {settings[e], content} /\ disk'[e] \in {disk[e], content}
                         /\ (e # d => settings'[e] = settings[e] /\ disk'[e] = disk[e])
      BY <1>1 DEF FilesStand
  <1>4. \A e \in Homes : KeysOf(e)' = KeysOf(e)
      BY DEF KeysOf
  <1>5. \A e \in Homes : settings'[e].keys \in KeysOf(e)' /\ disk'[e].keys \in KeysOf(e)'
    <2> TAKE e \in Homes
    <2>1. CASE e = d
        BY <1>3, <1>4, <2>1 DEF FilesStand
    <2>2. CASE e # d
        BY <1>3, <1>4, <2>2 DEF FilesStand
    <2> QED
        BY <2>1, <2>2
  <1> QED
      BY <1>1, <1>2, <1>3, <1>5 DEF FilesStand

LEMMA UntouchedFilesStand ==
    ASSUME FilesStand, UNCHANGED <<settings, disk, stood, writes>>
    PROVE  FilesStand' /\ \A d \in Homes : KeysOf(d)' = KeysOf(d)
  BY DEF FilesStand, KeysOf

\* Claude's own write: the new keys have stood there from then on.
LEMMA ClaudeKeepsFiles ==
    ASSUME FilesStand, NEW d \in {"claude", "new"}, ClaudeWrites(d)
    PROVE  FilesStand' /\ \A e \in Homes : KeysOf(e) \subseteq KeysOf(e)'
  <1>1. PICK content \in {Settings(settings[d].days, writes + 1), Invalid} :
            /\ settings' = [settings EXCEPT ![d] = content]
            /\ disk' = [disk EXCEPT ![d] = content]
            /\ stood' = [stood EXCEPT ![d] = @ \cup {content.keys}]
      BY DEF ClaudeWrites, Seen
  <1>2. writes' = writes + 1 /\ writes < MaxWrites
      BY DEF ClaudeWrites
  <1>3. d \in Homes /\ d # "outside" /\ "outside" \in Homes
      BY DEF Homes
  <1>4. content \in Whole /\ content.keys \in Int
    <2>1. settings[d].days \in BOOLEAN /\ writes + 1 \in 0 .. MaxWrites
        BY <1>2, <1>3, ContentsAreRecords, ConfigureAssumption DEF FilesStand
    <2>2. {Settings(settings[d].days, writes + 1), Invalid} \subseteq Whole
        BY <2>1, ContentsAreRecords
    <2> QED
        BY <2>2, ContentsAreRecords
  <1>5. /\ settings' \in [Homes -> Whole] /\ disk' \in [Homes -> Whole]
        /\ stood' \in [Homes -> SUBSET Int]
      BY <1>1, <1>3, <1>4 DEF FilesStand
  <1>6. \A e \in Homes : /\ settings'[e] = IF e = d THEN content ELSE settings[e]
                         /\ disk'[e] = IF e = d THEN content ELSE disk[e]
                         /\ stood'[e] = IF e = d THEN stood[e] \cup {content.keys} ELSE stood[e]
      BY <1>1, <1>3 DEF FilesStand
  <1>7. \A e \in Homes : KeysOf(e) \subseteq KeysOf(e)'
      BY <1>6 DEF KeysOf
  <1>8. \A e \in Homes : settings'[e].keys \in KeysOf(e)' /\ disk'[e].keys \in KeysOf(e)'
    <2> TAKE e \in Homes
    <2>1. CASE e = d
      <3>1. content.keys \in KeysOf(e)'
          BY <1>6, <2>1 DEF KeysOf
      <3> QED
          BY <1>6, <2>1, <3>1
    <2>2. CASE e # d
        BY <1>6, <1>7, <2>2 DEF FilesStand
    <2> QED
        BY <2>1, <2>2
  <1>9. writes' \in Nat
      BY <1>2 DEF FilesStand
  <1> QED
      BY <1>3, <1>5, <1>6, <1>7, <1>8, <1>9 DEF FilesStand

LEMMA ConfigureInitially == SealedRootInit /\ ConfigureInit => ConfigureInv
  <1> SUFFICES ASSUME SealedRootInit, ConfigureInit PROVE ConfigureInv
      OBVIOUS
  <1>1. PICK c \in {NoFile, Invalid, Settings(FALSE, 0)} :
            settings = [d \in Homes |-> IF d = "new" THEN NoFile ELSE c]
      BY DEF ConfigureInit
  <1>2. c \in Whole /\ NoFile \in Whole /\ c.days = FALSE
    <2>1. {NoFile, Invalid} \subseteq Whole /\ NoFile.days = FALSE /\ Invalid.days = FALSE
        BY ContentsAreRecords DEF NoFile, Invalid
    <2>2. Settings(FALSE, 0) \in Whole /\ Settings(FALSE, 0).days = FALSE
      <3>1. FALSE \in BOOLEAN /\ 0 \in 0 .. MaxWrites
          BY ConfigureAssumption
      <3> QED
          BY <3>1, ContentsAreRecords
    <2> QED
        BY <1>1, <2>1, <2>2
  <1>3. settings \in [Homes -> Whole] /\ disk = settings
      BY <1>1, <1>2 DEF ConfigureInit
  <1>4. stood \in [Homes -> SUBSET Int] /\ \A d \in Homes : stood[d] = {settings[d].keys}
      BY <1>3, ContentsAreRecords DEF ConfigureInit
  <1>5. settings["outside"].days = FALSE /\ "outside" \in Homes
      BY <1>1, <1>2 DEF Homes
  <1>6. FilesStand
    <2>1. \A d \in Homes : settings[d].keys \in KeysOf(d) /\ disk[d].keys \in KeysOf(d)
        BY <1>3, <1>4 DEF KeysOf
    <2>2. writes \in Nat
        BY DEF ConfigureInit
    <2> QED
        BY <1>3, <1>4, <1>5, <2>1, <2>2 DEF FilesStand
  <1>7. CourseHolds
      BY DEF CourseHolds, ConfigureInit, Steps
  <1> QED
      BY <1>6, <1>7 DEF ConfigureInv

\* The walk to the directory (SealedRoot::establish).
LEMMA WalkingKeeps ==
    ASSUME WalksThePath, ConfigureInv, BeginConfigure \/ (Establish0 /\ UNCHANGED <<files, read>>),
           UNCHANGED <<writes, faults>>
    PROVE  WalksThePath' /\ ConfigureInv'
  <1>1. UNCHANGED <<settings, disk, temp, stood, read, writes>>
      BY DEF BeginConfigure, files
  <1>2. FilesStand'
      BY <1>1, UntouchedFilesStand DEF ConfigureInv
  <1>3. CourseHolds
      BY DEF ConfigureInv
  <1>4. CASE BeginConfigure
    <2>1. UNCHANGED rootVars /\ cpc = "begin"
          /\ ((cpc' = "walk" /\ result' = result) \/ (cpc' = "done" /\ result' = "safety_block"))
        BY <1>4 DEF BeginConfigure, Goto0, Return0
    <2>2. WalksThePath'
        BY <2>1 DEF WalksThePath, rootVars
    <2>3. CourseHolds'
        BY <1>1, <1>3, <2>1 DEF CourseHolds, Steps, rootVars
    <2> QED
        BY <1>2, <2>2, <2>3 DEF ConfigureInv
  <1>5. CASE cpc = "walk" /\ OpenChild /\ Goto0(IF hop = Len(Path) THEN "read" ELSE "walk")
    <2>1. WalksThePath' /\ hop' = hop + 1
        BY <1>5, OpenChildKeepsThePath
    <2>2. result' = result /\ cpc' = (IF hop = 2 THEN "read" ELSE "walk")
        BY <1>5, ThePath DEF Goto0
    <2>3. CourseHolds'
        BY <1>1, <1>3, <1>5, <2>1, <2>2 DEF CourseHolds, Steps
    <2> QED
        BY <1>2, <2>1, <2>3 DEF ConfigureInv
  <1>6. CASE /\ cpc = "walk" /\ Refused
             /\ Return0(IF Next(dir).kind = "missing" THEN "internal_fault" ELSE "safety_block")
             /\ Forget /\ UNCHANGED <<tree, swaps>>
    <2>1. /\ cpc' = "done" /\ result' # "set"
          /\ dir' = "top" /\ hop' = 1 /\ tree' = tree
        BY <1>6 DEF Return0, Forget
    <2>2. WalksThePath'
        BY <2>1 DEF WalksThePath
    <2>3. CourseHolds'
        BY <2>1 DEF CourseHolds, Steps
    <2> QED
        BY <1>2, <2>2, <2>3 DEF ConfigureInv
  <1>7. CASE cpc = "walk" /\ LeafIsMissing /\ Goto0("create_leaf") /\ UNCHANGED rootVars
    <2>1. cpc' = "create_leaf" /\ result' = result /\ UNCHANGED rootVars
        BY <1>7 DEF Goto0
    <2>2. WalksThePath'
        BY <2>1 DEF WalksThePath, rootVars
    <2>3. CourseHolds'
        BY <1>3, <1>7, <2>1 DEF CourseHolds, Steps
    <2> QED
        BY <1>2, <2>2, <2>3 DEF ConfigureInv
  <1>8. CASE cpc = "create_leaf" /\ CreateLeaf /\ Goto0("walk")
    <2>1. WalksThePath' /\ cpc' = "walk" /\ result' = result
        BY <1>8, CreateLeafKeepsThePath DEF Goto0
    <2>2. CourseHolds'
        BY <1>3, <1>8, <2>1 DEF CourseHolds, Steps
    <2> QED
        BY <1>2, <2>1, <2>2 DEF ConfigureInv
  <1> QED
      BY <1>4, <1>5, <1>6, <1>7, <1>8 DEF Establish0

\* Reading, and the temporary file: nothing is seen of either.
LEMMA PreparingKeeps ==
    ASSUME WalksThePath, ConfigureInv, ReadStep \/ CreateTemp \/ WriteTemp \/ SyncTemp,
           UNCHANGED <<writes, faults>>
    PROVE  WalksThePath' /\ ConfigureInv'
  <1>1. UNCHANGED rootVars /\ UNCHANGED <<settings, disk, stood, writes>>
      BY DEF ReadStep, CreateTemp, WriteTemp, SyncTemp, files
  <1>2. FilesStand' /\ \A d \in Homes : KeysOf(d)' = KeysOf(d)
      BY <1>1, UntouchedFilesStand DEF ConfigureInv
  <1>3. UNCHANGED <<tree, dir, hop>> /\ WalksThePath'
      BY <1>1 DEF rootVars, WalksThePath
  <1>4. CourseHolds /\ FilesStand
      BY DEF ConfigureInv
  <1>5. cpc \in {"read", "create", "write", "sync"} /\ hop = 3 /\ dir \in Homes
        /\ result # "set"
    <2>1. cpc \in {"read", "create", "write", "sync"}
        BY DEF ReadStep, ReadSettings, CreateTemp, WriteTemp, SyncTemp
    <2>2. hop = 3 /\ result # "set"
        BY <1>4, <2>1 DEF CourseHolds, Steps
    <2> QED
        BY <2>1, <2>2 DEF WalksThePath, Homes
  <1>6. KeysOf(dir)' = KeysOf(dir)
      BY <1>2, <1>3, <1>5 DEF KeysOf
  <1>7. CASE ReadStep
    <2>1. CASE settings[dir] \in {Invalid, Torn}
      <3>1. cpc' = "done" /\ result' = "safety_block"
          BY <1>7, <2>1 DEF ReadStep, ReadSettings, Return0
      <3>2. CourseHolds'
          BY <3>1 DEF CourseHolds, Steps
      <3> QED
          BY <1>2, <1>3, <3>2 DEF ConfigureInv
    <2>2. CASE settings[dir] \notin {Invalid, Torn}
      <3>1. /\ cpc' = "create" /\ result' = result
            /\ read' = IF settings[dir] = NoFile THEN Settings(FALSE, 0) ELSE settings[dir]
          BY <1>7, <2>2 DEF ReadStep, ReadSettings, Goto0
      <3>2. settings[dir] \in Whole /\ settings[dir].keys \in KeysOf(dir)
          BY <1>4, <1>5 DEF FilesStand
      <3>3. read' \in Objects /\ read'.keys \in KeysOf(dir)
        <4>1. CASE settings[dir] = NoFile
          <5>1. FALSE \in BOOLEAN /\ 0 \in 0 .. MaxWrites
              BY ConfigureAssumption
          <5>2. read' \in Objects /\ read'.keys = 0
              BY <3>1, <4>1, <5>1, ContentsAreRecords
          <5>3. NoFile.keys \in KeysOf(dir) /\ NoFile.keys # 0
              BY <3>2, <4>1 DEF NoFile
          <5>4. 0 \in KeysOf(dir)
              BY <5>3 DEF KeysOf
          <5> QED
              BY <5>2, <5>4
        <4>2. CASE settings[dir] # NoFile
            BY <2>2, <3>1, <3>2, <4>2 DEF Whole, Contents
        <4> QED
            BY <4>1, <4>2
      <3>4. CourseHolds'
          BY <1>3, <1>5, <1>6, <3>1, <3>3 DEF CourseHolds, Steps
      <3> QED
          BY <1>2, <1>3, <3>4 DEF ConfigureInv
    <2> QED
        BY <2>1, <2>2
  <1>8. CASE CreateTemp
    <2>1. cpc = "create" /\ cpc' = "write" /\ result' = result /\ read' = read
        BY <1>8 DEF CreateTemp, Goto0
    <2>2. CourseHolds'
        BY <1>3, <1>4, <1>5, <1>6, <2>1 DEF CourseHolds, Steps
    <2> QED
        BY <1>2, <1>3, <2>2 DEF ConfigureInv
  <1>9. CASE WriteTemp
    <2>1. /\ cpc = "write" /\ cpc' = "sync" /\ result' = result /\ read' = read
          /\ temp' = [text |-> Settings(TRUE, read.keys), synced |-> FALSE]
        BY <1>9 DEF WriteTemp, Goto0
    <2>2. CourseHolds'
        BY <1>3, <1>4, <1>5, <1>6, <2>1 DEF CourseHolds, Steps
    <2> QED
        BY <1>2, <1>3, <2>2 DEF ConfigureInv
  <1>10. CASE SyncTemp
    <2>1. /\ cpc = "sync" /\ cpc' = "rename" /\ result' = result /\ read' = read
          /\ temp' = [temp EXCEPT !.synced = TRUE]
        BY <1>10 DEF SyncTemp, Goto0
    <2>2. temp'.text = temp.text /\ temp'.synced = TRUE
        BY <2>1 DEF ConfigureTypeOK
    <2>3. CourseHolds'
        BY <1>3, <1>4, <1>5, <1>6, <2>1, <2>2 DEF CourseHolds, Steps
    <2> QED
        BY <1>2, <1>3, <2>3 DEF ConfigureInv
  <1> QED
      BY <1>7, <1>8, <1>9, <1>10

\* The rename, and the directory's sync: what the name leads to is whole.
LEMMA ReplacingKeeps ==
    ASSUME WalksThePath, ConfigureInv, RenameOver \/ SyncDirectory, UNCHANGED <<writes, faults>>
    PROVE  WalksThePath' /\ ConfigureInv'
  <1>1. UNCHANGED rootVars /\ UNCHANGED <<stood, read, writes>>
      BY DEF RenameOver, SyncDirectory
  <1>2. UNCHANGED <<tree, dir, hop>> /\ WalksThePath'
      BY <1>1 DEF rootVars, WalksThePath
  <1>3. CourseHolds /\ FilesStand
      BY DEF ConfigureInv
  <1>4. hop = 3 /\ dir \in {"claude", "new"} /\ dir \in Homes
      BY <1>3 DEF RenameOver, SyncDirectory, CourseHolds, Steps, WalksThePath, Homes
  <1>5. CASE RenameOver
    <2>1. /\ cpc = "rename" /\ cpc' = "sync_dir" /\ result' = result /\ UNCHANGED <<disk, temp>>
          /\ settings' = [settings EXCEPT ![dir] = temp.text]
        BY <1>5 DEF RenameOver, Goto0
    <2>2. /\ temp.text = Settings(TRUE, read.keys) /\ temp.synced = TRUE
          /\ read \in Objects /\ read.keys \in KeysOf(dir) /\ result # "set"
        BY <1>3, <2>1 DEF CourseHolds
    <2>3. temp.text \in Whole /\ temp.text.keys \in KeysOf(dir) /\ temp.text.days = TRUE
      <3>1. read.keys \in 0 .. MaxWrites /\ TRUE \in BOOLEAN
          BY <2>2 DEF Objects
      <3> QED
          BY <2>2, <3>1, ContentsAreRecords
    <2>4. FilesStand'
        BY <1>1, <1>3, <1>4, <2>1, <2>3, ReplacingKeepsFiles
    <2>5. settings'[dir].days = TRUE
        BY <1>3, <1>4, <2>1, <2>3 DEF FilesStand
    <2>6. CourseHolds'
        BY <1>2, <1>4, <2>1, <2>2, <2>5 DEF CourseHolds, Steps
    <2> QED
        BY <1>2, <2>4, <2>6 DEF ConfigureInv
  <1>6. CASE SyncDirectory
    <2>1. /\ cpc = "sync_dir" /\ cpc' = "done" /\ result' = "set" /\ settings' = settings
          /\ disk' = [disk EXCEPT ![dir] = settings[dir]]
        BY <1>6 DEF SyncDirectory, Return0
    <2>2. /\ settings[dir] \in Whole /\ settings[dir].keys \in KeysOf(dir)
          /\ writes = 0 => settings[dir].days = TRUE
        BY <1>3, <1>4, <2>1 DEF CourseHolds, FilesStand
    <2>3. FilesStand'
        BY <1>1, <1>3, <1>4, <2>1, <2>2, ReplacingKeepsFiles
    <2>4. writes = 0 => disk'[dir].days = TRUE
        BY <1>3, <1>4, <2>1, <2>2 DEF FilesStand
    <2>5. CourseHolds'
        BY <1>1, <1>4, <2>1, <2>4 DEF CourseHolds, Steps
    <2> QED
        BY <1>2, <2>3, <2>5 DEF ConfigureInv
  <1> QED
      BY <1>5, <1>6

\* A call fails, the program dies, or the power is lost.
LEMMA FaultsKeep ==
    ASSUME WalksThePath, ConfigureInv, CallFails \/ Die0 \/ LosePower
    PROVE  WalksThePath' /\ ConfigureInv'
  <1>1. UNCHANGED rootVars /\ UNCHANGED <<stood, writes>>
      BY DEF CallFails, Die0, LosePower, files
  <1>2. UNCHANGED <<tree, dir, hop>> /\ WalksThePath'
      BY <1>1 DEF rootVars, WalksThePath
  <1>3. CourseHolds /\ FilesStand
      BY DEF ConfigureInv
  <1>4. CASE CallFails \/ Die0
    <2>1. UNCHANGED <<settings, disk>> /\ cpc' = "done" /\ result' # "set"
        BY <1>4 DEF CallFails, Die0, Return0, files
    <2>2. FilesStand'
        BY <1>1, <1>3, <2>1, UntouchedFilesStand
    <2>3. CourseHolds'
        BY <2>1 DEF CourseHolds, Steps
    <2> QED
        BY <1>2, <2>2, <2>3 DEF ConfigureInv
  <1>5. CASE LosePower /\ cpc = "sync_dir"
    <2>1. cpc' = "done" /\ result' = "killed"
        BY <1>5 DEF LosePower
    <2>2. hop = 3 /\ dir \in {"claude", "new"} /\ dir \in Homes /\ temp.synced = TRUE
        BY <1>3, <1>5 DEF CourseHolds, Steps, WalksThePath, Homes
    <2>3. PICK text \in {disk[dir], settings[dir]} :
              /\ settings' = [settings EXCEPT ![dir] = text]
              /\ disk' = [disk EXCEPT ![dir] = text]
        BY <1>5, <2>2 DEF LosePower
    <2>4. text \in Whole /\ text.keys \in KeysOf(dir)
        BY <1>3, <2>2, <2>3 DEF FilesStand
    <2>5. FilesStand'
        BY <1>1, <1>3, <2>2, <2>3, <2>4, ReplacingKeepsFiles
    <2>6. CourseHolds'
        BY <2>1 DEF CourseHolds, Steps
    <2> QED
        BY <1>2, <2>5, <2>6 DEF ConfigureInv
  <1>6. CASE LosePower /\ cpc # "sync_dir"
    <2>1. /\ UNCHANGED <<settings, disk>> /\ cpc' = "done"
          /\ result' = IF cpc = "done" THEN result ELSE "killed"
        BY <1>6 DEF LosePower
    <2>2. FilesStand'
        BY <1>1, <1>3, <2>1, UntouchedFilesStand
    <2>3. CourseHolds'
        BY <1>1, <1>3, <2>1 DEF CourseHolds, Steps
    <2> QED
        BY <1>2, <2>2, <2>3 DEF ConfigureInv
  <1> QED
      BY <1>4, <1>5, <1>6

LEMMA ClaudeKeeps ==
    ASSUME WalksThePath, ConfigureInv, NEW d \in {"claude", "new"}, ClaudeWrites(d)
    PROVE  WalksThePath' /\ ConfigureInv'
  <1>1. UNCHANGED <<rootVars, temp, cpc, read, result>> /\ writes' = writes + 1
      BY DEF ClaudeWrites
  <1>2. UNCHANGED <<tree, dir, hop>> /\ WalksThePath'
      BY <1>1 DEF rootVars, WalksThePath
  <1>3. CourseHolds /\ FilesStand
      BY DEF ConfigureInv
  <1>4. FilesStand' /\ \A e \in Homes : KeysOf(e) \subseteq KeysOf(e)'
      BY <1>3, ClaudeKeepsFiles
  <1>5. writes' # 0
      BY <1>1, <1>3 DEF FilesStand
  <1>6. cpc \in {"create", "write", "sync", "rename"} => read.keys \in KeysOf(dir)'
    <2>1. SUFFICES ASSUME cpc \in {"create", "write", "sync", "rename"}
                   PROVE  read.keys \in KeysOf(dir)'
        OBVIOUS
    <2>2. read.keys \in KeysOf(dir) /\ hop = 3
        BY <1>3, <2>1 DEF CourseHolds, Steps
    <2>3. dir \in Homes
        BY <2>2 DEF WalksThePath, Homes
    <2>4. PICK e \in Homes : e = dir
        BY <2>3
    <2>5. read.keys \in KeysOf(e)'
        BY <1>4, <2>2, <2>4
    <2> QED
        BY <1>2, <2>4, <2>5 DEF KeysOf
  <1>7. CourseHolds'
      BY <1>1, <1>2, <1>3, <1>5, <1>6 DEF CourseHolds
  <1> QED
      BY <1>2, <1>4, <1>7 DEF ConfigureInv

\* Whoever else walks, configure's files and its course stay as they were.
LEMMA UntouchedConfigure ==
    ASSUME ConfigureInv, UNCHANGED configureVars, UNCHANGED <<dir, hop>> \/ cpc = "begin"
    PROVE  ConfigureInv'
  <1>1. UNCHANGED <<settings, disk, temp, writes, cpc, read, result, stood>>
      BY DEF configureVars
  <1>2. FilesStand'
      BY <1>1, UntouchedFilesStand DEF ConfigureInv
  <1>3. CourseHolds'
      BY <1>1 DEF ConfigureInv, CourseHolds, KeysOf, Steps
  <1> QED
      BY <1>2, <1>3 DEF ConfigureInv

LEMMA ConfigureKeeps ==
    ASSUME WalksThePath, ConfigureInv, ConfigureNext
    PROVE  WalksThePath' /\ ConfigureInv'
  <1>1. CASE Interfere
    <2>1. WalksThePath' /\ UNCHANGED <<dir, hop>> /\ UNCHANGED configureVars
        BY <1>1, SwapKeepsThePath DEF Interfere
    <2> QED
        BY <2>1, UntouchedConfigure
  <1> QED
      BY <1>1, WalkingKeeps, PreparingKeeps, ReplacingKeeps, FaultsKeep, ClaudeKeeps
      DEF ConfigureNext

-----------------------------------------------------------------------------
(* WindowsDelete: the name that is marked.                                 *)

\* The files: a name of a directory is one file's, and a file was last written
\* by one of the edits.
FilesHold ==
    /\ place \in [Objects0 -> SUBSET Folders] /\ version \in [Objects0 -> Nat] /\ edits \in Nat
    /\ \A f \in Objects0 : version[f] <= edits
    /\ \A f, g \in Objects0, d \in Folders : d \in place[f] /\ d \in place[g] => f = g

\* The deletion: a file that was written to before the second look has not the
\* time that was confirmed, and what is marked is the confirmed file.
DeletionHolds ==
    /\ {dying, child} \subseteq [dir : Dirs, file : Files0]
    /\ token.version \in Nat /\ token.version <= edits
    /\ dpc # "observe" => token.file \in Objects0
    /\ early \in BOOLEAN
    /\ early = TRUE => dpc \in {"open", "recheck", "done"}
    /\ early = TRUE /\ dpc \in {"open", "recheck"} => version[token.file] > token.version
    /\ dpc = "child" => hop = 3
    /\ dpc = "confirm" => child.dir # "top"
    /\ dying # NoName => dpc \in {"pending", "close", "done"} /\ dying.file = token.file
                         /\ early = FALSE
    /\ dpc \in {"pending", "close"} \/ outcome = "deleted" => dying # NoName
    /\ outcome = "deleted" => dpc = "done"

WindowsInv == FilesHold /\ DeletionHolds

\* The file of a directory's name is a file.
LEMMA StandingIsAFile ==
    ASSUME NEW d, Standing(d) # "none"
    PROVE  Standing(d) \in Objects0
  <1>1. \E f \in Objects0 : d \in place[f]
      BY DEF Standing
  <1> QED
      BY <1>1 DEF Standing

LEMMA WindowsInitially == WindowsInit => WindowsInv
  <1> SUFFICES ASSUME WindowsInit PROVE WindowsInv
      OBVIOUS
  <1>1. PICK f \in Objects0 : place = [o \in Objects0 |-> IF o = f THEN {"claude"} ELSE {}]
      BY DEF WindowsInit
  <1>2. FilesHold
    <2>1. version \in [Objects0 -> Nat] /\ edits \in Nat /\ \A g \in Objects0 : version[g] <= edits
        BY DEF WindowsInit
    <2>2. place \in [Objects0 -> SUBSET Folders]
        BY <1>1 DEF Folders
    <2>3. \A g \in Objects0 : place[g] # {} => g = f
        BY <1>1
    <2> QED
        BY <2>1, <2>2, <2>3 DEF FilesHold
  <1>3. DeletionHolds
    <2>1. NoName \in [dir : Dirs, file : Files0]
        BY TheDirectories DEF NoName, Files0
    <2>2. /\ dying = NoName /\ child = NoName /\ edits = 0 /\ token.version = 0
          /\ dpc = "observe" /\ outcome = "none" /\ early = FALSE
        BY DEF WindowsInit
    <2>3. {dying, child} \subseteq [dir : Dirs, file : Files0]
        BY <2>1, <2>2
    <2>4. early \in BOOLEAN
        BY <2>2, Zenon
    <2>5. token.version \in Nat /\ token.version <= edits
        BY <2>2
    <2> QED
        BY <2>2, <2>3, <2>4, <2>5 DEF DeletionHolds
  <1> QED
      BY <1>2, <1>3 DEF WindowsInv

LEMMA UntouchedFilesHold ==
    ASSUME FilesHold, UNCHANGED <<place, version, edits>>
    PROVE  FilesHold'
  BY DEF FilesHold

\* Looking at the file, twice.
LEMMA LookingKeeps ==
    ASSUME WindowsInv, ObserveTarget \/ OpenTarget \/ RecheckTarget, UNCHANGED rootVars
    PROVE  WindowsInv'
  <1>1. UNCHANGED <<place, version, edits, dying, child, early>> /\ UNCHANGED hop
      BY DEF ObserveTarget, OpenTarget, RecheckTarget, FilesOnly, rootVars
  <1>2. FilesHold /\ DeletionHolds
      BY DEF WindowsInv
  <1>3. FilesHold'
      BY <1>1, <1>2, UntouchedFilesHold
  <1>4. CASE ObserveTarget
    <2> DEFINE f == Standing(Resolved)
    <2>1. /\ dpc = "observe" /\ f # "none" /\ dpc' = "open" /\ outcome' = outcome
          /\ token' = [file |-> f, version |-> version[f]]
        BY <1>4 DEF ObserveTarget, To
    <2>2. f \in Objects0
        BY <2>1, StandingIsAFile
    <2> HIDE DEF f
    <2>3. token'.file = f /\ token'.version = version[f] /\ version[f] \in Nat /\ version[f] <= edits
        BY <1>2, <2>1, <2>2 DEF FilesHold
    <2>4. DeletionHolds'
        BY <1>1, <1>2, <2>1, <2>2, <2>3 DEF DeletionHolds
    <2> QED
        BY <1>3, <2>4 DEF WindowsInv
  <1>5. CASE OpenTarget
    <2>1. /\ dpc = "open" /\ token' = token
          /\ (dpc' = "recheck" /\ outcome' = outcome) \/ (dpc' = "done" /\ outcome' = "failed")
        BY <1>5 DEF OpenTarget, To, Stop
    <2>2. DeletionHolds'
        BY <1>1, <1>2, <2>1 DEF DeletionHolds
    <2> QED
        BY <1>3, <2>2 DEF WindowsInv
  <1>6. CASE RecheckTarget
    <2>1. dpc = "recheck" /\ token' = token
        BY <1>6 DEF RecheckTarget
    <2>2. CASE StillThere
      <3>1. dpc' = "walk" /\ outcome' = outcome
          BY <1>6, <2>2 DEF RecheckTarget, To
      <3>2. version[token.file] = token.version
          BY <2>2 DEF StillThere, SameFile, Unwritten
      <3>3. early = FALSE
          BY <1>2, <2>1, <3>2 DEF DeletionHolds
      <3>4. DeletionHolds'
          BY <1>1, <1>2, <2>1, <3>1, <3>3 DEF DeletionHolds
      <3> QED
          BY <1>3, <3>4 DEF WindowsInv
    <2>3. CASE ~StillThere
      <3>1. dpc' = "done" /\ outcome' = "failed"
          BY <1>6, <2>3 DEF RecheckTarget, Stop
      <3>2. DeletionHolds'
          BY <1>1, <1>2, <2>1, <3>1 DEF DeletionHolds
      <3> QED
          BY <1>3, <3>2 DEF WindowsInv
    <2> QED
        BY <2>2, <2>3
  <1> QED
      BY <1>4, <1>5, <1>6

\* From the walk to the handle that is told to delete, and what is said of it.
LEMMA MarkingKeeps ==
    ASSUME WalksThePath, WindowsInv,
           BindParent0 \/ (/\ OpenForDelete \/ MarkForDeletion \/ CorroboratePending \/ DropHandle
                           /\ UNCHANGED rootVars)
    PROVE  WalksThePath' /\ WindowsInv'
  <1>1. UNCHANGED <<place, version, edits, token, early>>
      BY DEF BindParent0, OpenForDelete, MarkForDeletion, CorroboratePending, DropHandle, FilesOnly
  <1>2. FilesHold /\ DeletionHolds
      BY DEF WindowsInv
  <1>3. FilesHold'
      BY <1>1, <1>2, UntouchedFilesHold
  <1>4. UNCHANGED rootVars => WalksThePath' /\ UNCHANGED <<dir, hop>>
      BY DEF rootVars, WalksThePath
  <1>5. CASE BindParent0
    <2>1. dpc = "walk" /\ UNCHANGED <<dying, child>>
        BY <1>5 DEF BindParent0
    <2>2. CASE OpenChild /\ To(IF hop = Len(Path) THEN "child" ELSE "walk")
      <3>1. /\ outcome' = outcome /\ dpc' = (IF hop = 2 THEN "child" ELSE "walk")
            /\ WalksThePath' /\ hop' = hop + 1
          BY <2>2, ThePath, OpenChildKeepsThePath DEF To
      <3>2. DeletionHolds'
          BY <1>1, <1>2, <2>1, <3>1 DEF DeletionHolds
      <3> QED
          BY <1>3, <3>1, <3>2 DEF WindowsInv
    <2>3. CASE Stop("failed") /\ UNCHANGED rootVars
      <3>1. DeletionHolds'
          BY <1>1, <1>2, <2>1, <2>3 DEF DeletionHolds, Stop
      <3> QED
          BY <1>3, <1>4, <2>3, <3>1 DEF WindowsInv
    <2> QED
        BY <1>5, <2>2, <2>3 DEF BindParent0
  <1>6. CASE OpenForDelete /\ UNCHANGED rootVars
    <2> DEFINE f == Standing(dir)
    <2>1. /\ dpc = "child" /\ UNCHANGED dying
          /\ \/ f # "none" /\ child' = Name(dir, f) /\ dpc' = "confirm" /\ outcome' = outcome
             \/ dpc' = "done" /\ outcome' = "failed" /\ child' = child
        BY <1>6 DEF OpenForDelete, To, Stop
    <2>2. f # "none" => f \in Objects0
        BY StandingIsAFile
    <2>3. hop = 3 /\ dir \in {"claude", "new"}
        BY <1>2, <2>1 DEF DeletionHolds, WalksThePath
    <2> HIDE DEF f
    <2>4. /\ child' \in [dir : Dirs, file : Files0]
          /\ dpc' = "confirm" => child'.dir # "top"
        BY <1>2, <2>1, <2>2, <2>3, TheDirectories DEF Name, Files0, DeletionHolds
    <2>5. DeletionHolds'
        BY <1>1, <1>2, <1>4, <1>6, <2>1, <2>4 DEF DeletionHolds
    <2> QED
        BY <1>3, <1>4, <1>6, <2>5 DEF WindowsInv
  <1>7. CASE MarkForDeletion /\ UNCHANGED rootVars
    <2>1. /\ dpc = "confirm" /\ child' = NoName
          /\ \/ /\ child.file = token.file /\ dying' = child
                /\ dpc' = "pending" /\ outcome' = outcome
             \/ dpc' = "done" /\ outcome' = "failed" /\ dying' = dying
        BY <1>7 DEF MarkForDeletion, To, Stop, Deletable, SameFile
    <2>2. /\ NoName \in [dir : Dirs, file : Files0] /\ NoName.dir = "top"
          /\ child \in [dir : Dirs, file : Files0] /\ child.dir # "top" /\ early = FALSE
        BY <1>2, <2>1, TheDirectories DEF NoName, Files0, DeletionHolds
    <2>3. child # NoName
        BY <2>2
    <2>4. DeletionHolds'
        BY <1>1, <1>2, <2>1, <2>2, <2>3 DEF DeletionHolds
    <2> QED
        BY <1>3, <1>4, <1>7, <2>4 DEF WindowsInv
  <1>8. CASE (CorroboratePending \/ DropHandle) /\ UNCHANGED rootVars
    <2>1. /\ dpc \in {"pending", "close"} /\ UNCHANGED <<dying, child>>
          /\ \/ dpc' = "close" /\ outcome' = outcome
             \/ dpc' = "done" /\ outcome' \in {"failed", "deleted"}
        BY <1>8 DEF CorroboratePending, DropHandle, To, Stop
    <2>2. DeletionHolds'
        BY <1>1, <1>2, <2>1 DEF DeletionHolds
    <2> QED
        BY <1>3, <1>4, <1>8, <2>2 DEF WindowsInv
  <1> QED
      BY <1>5, <1>6, <1>7, <1>8

\* What others do to the files.
LEMMA OthersKeep ==
    ASSUME WindowsInv, UNCHANGED rootVars, UNCHANGED <<dpc, outcome>>,
           \/ \E f \in Objects0 : WriteTo(f) \/ OpenElsewhere(f) \/ CloseElsewhere(f)
           \/ \E f \in Objects0, e \in Folders : PlaceIn(f, e)
           \/ NameGoes
    PROVE  WindowsInv'
  <1>1. UNCHANGED <<dying, token, dpc, outcome, hop>>
      BY DEF WriteTo, OpenElsewhere, CloseElsewhere, PlaceIn, NameGoes, rootVars
  <1>2. FilesHold /\ DeletionHolds
      BY DEF WindowsInv
  <1>3. CASE \E f \in Objects0 : WriteTo(f)
    <2>1. PICK f \in Objects0 : WriteTo(f)
        BY <1>3
    <2>2. /\ edits' = edits + 1 /\ version' = [version EXCEPT ![f] = edits + 1]
          /\ UNCHANGED <<place, child>>
        BY <2>1 DEF WriteTo, Edit
    <2>3. /\ version' \in [Objects0 -> Nat] /\ edits' \in Nat /\ edits' = edits + 1
          /\ \A g \in Objects0 : version'[g] = IF g = f THEN edits + 1 ELSE version[g]
        BY <1>2, <2>2 DEF FilesHold
    <2>4. FilesHold'
      <3>1. \A g \in Objects0 : version'[g] <= edits'
          BY <1>2, <2>3 DEF FilesHold
      <3> QED
          BY <1>2, <2>2, <2>3, <3>1 DEF FilesHold
    <2>5. early' = early \/ (early' = TRUE /\ f = token.file /\ dpc \in {"open", "recheck"})
      <3>1. early' = (early \/ (f = token.file /\ Unlooked))
          BY <2>1 DEF WriteTo
      <3>2. early \in BOOLEAN
          BY <1>2 DEF DeletionHolds
      <3>3. CASE f = token.file /\ Unlooked
          BY <3>1, <3>3 DEF Unlooked
      <3>4. CASE ~(f = token.file /\ Unlooked)
          BY <3>1, <3>2, <3>4
      <3> QED
          BY <3>3, <3>4
    <2>6. token.version \in Nat /\ token.version <= edits /\ edits \in Nat
        BY <1>2 DEF FilesHold, DeletionHolds
    <2>7. early' = TRUE /\ dpc \in {"open", "recheck"} => version'[token.file] > token.version
      <3> SUFFICES ASSUME early' = TRUE, dpc \in {"open", "recheck"}
                   PROVE  version'[token.file] > token.version
          OBVIOUS
      <3>1. token.file \in Objects0
          BY <1>2 DEF DeletionHolds
      <3>2. CASE f = token.file
          BY <2>3, <2>6, <3>2
      <3>3. CASE f # token.file
        <4>1. early = TRUE
            BY <2>5, <3>3
        <4>2. version[token.file] > token.version
            BY <1>2, <4>1 DEF DeletionHolds
        <4> QED
            BY <2>3, <3>1, <3>3, <4>2
      <3> QED
          BY <3>2, <3>3
    <2>8. DeletionHolds'
      <3>1. early' \in BOOLEAN /\ (early' = TRUE => dpc \in {"open", "recheck", "done"})
          BY <1>2, <2>5 DEF DeletionHolds
      <3>2. dying # NoName => early' = FALSE
          BY <1>2, <2>5 DEF DeletionHolds
      <3> QED
          BY <1>1, <1>2, <2>2, <2>3, <2>6, <2>7, <3>1, <3>2 DEF DeletionHolds
    <2> QED
        BY <2>4, <2>8 DEF WindowsInv
  <1>4. CASE \E f \in Objects0 : OpenElsewhere(f) \/ CloseElsewhere(f)
    <2>1. PICK f \in Objects0 : OpenElsewhere(f) \/ CloseElsewhere(f)
        BY <1>4
    <2>2. /\ UNCHANGED <<place, version, child, early>>
          /\ edits' = edits \/ edits' = edits + 1
        BY <2>1 DEF OpenElsewhere, CloseElsewhere, Edit
    <2>3. edits' \in Nat /\ edits <= edits'
        BY <1>2, <2>2 DEF FilesHold
    <2>4. FilesHold'
        BY <1>2, <2>2, <2>3 DEF FilesHold
    <2>5. DeletionHolds'
        BY <1>1, <1>2, <2>2, <2>3 DEF DeletionHolds, FilesHold
    <2> QED
        BY <2>4, <2>5 DEF WindowsInv
  <1>5. CASE \E f \in Objects0, e \in Folders : PlaceIn(f, e)
    <2>1. PICK f \in Objects0, e \in Folders : PlaceIn(f, e)
        BY <1>5
    <2>2. /\ edits' = edits + 1 /\ UNCHANGED <<version, early>>
          /\ \A o \in Objects0 : e \notin place[o]
        BY <2>1 DEF PlaceIn, Edit
    <2>3. place' = [place EXCEPT ![f] = {e}] \/ place' = [place EXCEPT ![f] = @ \cup {e}]
        BY <2>1 DEF PlaceIn
    <2>4. child' = child \/ child' = Name(e, f)
        BY <2>1 DEF PlaceIn, Renamed
    <2>5. edits' \in Nat /\ edits <= edits'
        BY <1>2, <2>2 DEF FilesHold
    <2>6. place' \in [Objects0 -> SUBSET Folders]
          /\ \A g \in Objects0 : place'[g] \subseteq place[g] \cup (IF g = f THEN {e} ELSE {})
        BY <1>2, <2>3 DEF FilesHold
    <2>7. FilesHold'
        BY <1>2, <2>2, <2>5, <2>6 DEF FilesHold
    <2>8. /\ child' \in [dir : Dirs, file : Files0]
          /\ dpc = "confirm" => child'.dir # "top"
        BY <1>2, <2>1, <2>4, TheDirectories DEF Name, Files0, Folders, DeletionHolds
    <2>9. DeletionHolds'
        BY <1>1, <1>2, <2>2, <2>5, <2>8 DEF DeletionHolds, FilesHold
    <2> QED
        BY <2>7, <2>9 DEF WindowsInv
  <1>6. CASE NameGoes
    <2>1. /\ UNCHANGED <<version, edits, child, early>>
          /\ place' = [place EXCEPT ![dying.file] = @ \ {dying.dir}]
        BY <1>6 DEF NameGoes
    <2>2. place' \in [Objects0 -> SUBSET Folders]
          /\ \A g \in Objects0 : place'[g] \subseteq place[g]
        BY <1>2, <2>1 DEF FilesHold
    <2>3. FilesHold'
        BY <1>2, <2>1, <2>2 DEF FilesHold
    <2>4. DeletionHolds'
        BY <1>1, <1>2, <2>1 DEF DeletionHolds
    <2> QED
        BY <2>3, <2>4 DEF WindowsInv
  <1> QED
      BY <1>3, <1>4, <1>5, <1>6

\* Whoever else walks, the deletion stays as it was.
LEMMA UntouchedDeletion ==
    ASSUME WindowsInv, UNCHANGED windowsVars, UNCHANGED <<dir, hop>> \/ dpc = "observe"
    PROVE  WindowsInv'
  <1>1. UNCHANGED <<place, version, opened, edits, dying, token, held, child, dpc, outcome, early>>
      BY DEF windowsVars
  <1>2. FilesHold' /\ DeletionHolds'
      BY <1>1 DEF WindowsInv, FilesHold, DeletionHolds
  <1> QED
      BY <1>2 DEF WindowsInv

LEMMA WindowsKeeps ==
    ASSUME WalksThePath, WindowsInv, WindowsNext
    PROVE  WalksThePath' /\ WindowsInv'
  <1>1. CASE Deletion0
    <2>1. CASE (ObserveTarget \/ OpenTarget \/ RecheckTarget) /\ UNCHANGED rootVars
      <3>1. WalksThePath'
          BY <2>1 DEF rootVars, WalksThePath
      <3> QED
          BY <2>1, <3>1, LookingKeeps
    <2> QED
        BY <1>1, <2>1, MarkingKeeps DEF Deletion0
  <1>2. CASE /\ \/ \E f \in Objects0 : WriteTo(f) \/ OpenElsewhere(f) \/ CloseElsewhere(f)
                \/ \E f \in Objects0, e \in Folders : PlaceIn(f, e)
                \/ NameGoes
             /\ UNCHANGED <<rootVars, dpc, outcome>>
    <2>1. WalksThePath'
        BY <1>2 DEF rootVars, WalksThePath
    <2>2. UNCHANGED rootVars /\ UNCHANGED <<dpc, outcome>>
        BY <1>2
    <2> QED
        BY <1>2, <2>1, <2>2, OthersKeep
  <1>3. CASE Swap /\ UNCHANGED windowsVars
    <2>1. WalksThePath' /\ UNCHANGED <<dir, hop>>
        BY <1>3, SwapKeepsThePath
    <2> QED
        BY <1>3, <2>1, UntouchedDeletion
  <1> QED
      BY <1>1, <1>2, <1>3 DEF WindowsNext

-----------------------------------------------------------------------------
(* Every use of the program leaves the others' state as it began.          *)

InterfacesInv ==
    /\ WalksThePath /\ ConfigureInv /\ WindowsInv
    /\ use # "configure" => cpc = "begin"
    /\ use # "windows" => dpc = "observe"

LEMMA InterfacesInitially == InterfacesInit => InterfacesInv
  <1> SUFFICES ASSUME InterfacesInit PROVE InterfacesInv
      OBVIOUS
  <1>1. SealedRootInit /\ ConfigureInit /\ WindowsInit
      BY DEF InterfacesInit
  <1>2. cpc = "begin" /\ dpc = "observe"
      BY <1>1 DEF ConfigureInit, WindowsInit
  <1> QED
      BY <1>1, <1>2, PathInitially, ConfigureInitially, WindowsInitially DEF InterfacesInv

LEMMA InterfacesStep == InterfacesInv /\ [InterfacesNext]_interfacesVars => InterfacesInv'
  <1> SUFFICES ASSUME InterfacesInv, [InterfacesNext]_interfacesVars PROVE InterfacesInv'
      OBVIOUS
  <1>1. use' = use
      BY DEF InterfacesNext, interfacesVars
  <1>2. CASE ConfigureUse
    <2>1. use = "configure" /\ ConfigureNext /\ UNCHANGED windowsVars
        BY <1>2 DEF ConfigureUse
    <2>2. WalksThePath' /\ ConfigureInv'
        BY <2>1, ConfigureKeeps DEF InterfacesInv
    <2>3. dpc = "observe" /\ dpc' = dpc
        BY <2>1 DEF InterfacesInv, windowsVars
    <2>4. WindowsInv'
        BY <2>1, <2>3, UntouchedDeletion DEF InterfacesInv
    <2> QED
        BY <1>1, <2>1, <2>2, <2>3, <2>4 DEF InterfacesInv
  <1>3. CASE WindowsUse
    <2>1. use = "windows" /\ WindowsNext /\ UNCHANGED configureVars
        BY <1>3 DEF WindowsUse
    <2>2. WalksThePath' /\ WindowsInv'
        BY <2>1, WindowsKeeps DEF InterfacesInv
    <2>3. cpc = "begin" /\ cpc' = cpc
        BY <2>1 DEF InterfacesInv, configureVars
    <2>4. ConfigureInv'
        BY <2>1, <2>3, UntouchedConfigure DEF InterfacesInv
    <2> QED
        BY <1>1, <2>1, <2>2, <2>3, <2>4 DEF InterfacesInv
  <1>4. CASE UNCHANGED sealedVars
    <2>1. UNCHANGED rootVars /\ UNCHANGED configureVars /\ UNCHANGED windowsVars
        BY <1>4 DEF sealedVars
    <2>2. WalksThePath' /\ UNCHANGED <<dir, hop>>
        BY <2>1 DEF InterfacesInv, WalksThePath, rootVars
    <2>3. ConfigureInv' /\ WindowsInv'
        BY <2>1, <2>2, UntouchedConfigure, UntouchedDeletion DEF InterfacesInv
    <2> QED
        BY <1>1, <2>1, <2>2, <2>3 DEF InterfacesInv, configureVars, windowsVars
  <1> QED
      BY <1>2, <1>3, <1>4 DEF InterfacesNext, interfacesVars

\* The parts of Interfaces that share a directory walk keep their invariants.
THEOREM InterfacesInductive == InterfacesSpec => []InterfacesInv
  BY InterfacesInitially, InterfacesStep, PTL DEF InterfacesSpec

\* Whatever is swapped under the path, fails, dies or loses power while Claude
\* writes the same file, configure leaves a whole settings.json with the keys of
\* one that stood there, never one of a directory only a link leads to, and what
\* it reports as set is on the disk (configure_claude_retention).
THEOREM SettingsAreKept == InterfacesSpec => []SettingsSurvive
  <1>1. InterfacesInv => SettingsSurvive
    <2> SUFFICES ASSUME InterfacesInv PROVE SettingsSurvive
        OBVIOUS
    <2>1. FilesStand /\ CourseHolds
        BY DEF InterfacesInv, ConfigureInv
    <2>2. \A d \in Homes : Torn \notin {settings[d], disk[d]}
        BY <2>1 DEF FilesStand, Whole
    <2> QED
        BY <2>1, <2>2 DEF FilesStand, CourseHolds, SettingsSurvive, KeysOf
  <1> QED
      BY <1>1, InterfacesInductive, PTL

\* Whatever is moved, linked, written or opened between any two calls of a
\* deletion on Windows, the name marked for deletion is one of the confirmed
\* file, in a directory no junction led to, not written to before the last look,
\* and "deleted" is said when it is gone or goes (confirmed_delete_file_inner).
THEOREM WindowsRemovesOnlyTheConfirmed == InterfacesSpec => []WindowsRemovesTheConfirmed
  <1>1. InterfacesInv => WindowsRemovesTheConfirmed
    <2> SUFFICES ASSUME InterfacesInv PROVE WindowsRemovesTheConfirmed
        OBVIOUS
    <2>1. FilesHold /\ DeletionHolds /\ dir # "outside"
        BY DEF InterfacesInv, WindowsInv, WalksThePath
    <2>2. dying # NoName => dying.file = token.file /\ ~early
        BY <2>1 DEF DeletionHolds
    <2>3. ASSUME outcome = "deleted"
          PROVE  /\ dying # NoName
                 /\ dying.dir \notin place[dying.file] \/ Standing(dying.dir) = "none"
      <3>1. /\ dying # NoName /\ dying.file \in Objects0 /\ dying \in [dir : Dirs, file : Files0]
          BY <2>1, <2>3 DEF DeletionHolds
      <3>2. CASE dying.dir \in place[dying.file]
        <4>1. \A f \in Objects0 : dying.dir \in place[f] => f = dying.file
            BY <2>1, <3>1, <3>2 DEF FilesHold
        <4>2. dying = Name(dying.dir, dying.file)
            BY <3>1 DEF Name
        <4> QED
            BY <3>1, <4>1, <4>2 DEF Standing
      <3> QED
          BY <3>1, <3>2
    <2> QED
        BY <2>1, <2>2, <2>3 DEF WindowsRemovesTheConfirmed
  <1> QED
      BY <1>1, InterfacesInductive, PTL

-----------------------------------------------------------------------------
(* Discovery: what the invariant says.                                     *)

\* The calls each walk makes.
DosOf(w) ==
    CASE w = "codex"     -> {"root", "list", "visit", "measure", "parent"}
      [] w = "claude"    -> {"root", "list", "visit", "stat", "companion", "report",
                             "payload_list", "payload_visit", "payload_stat"}
      [] w = "inventory" -> {"list", "visit", "identity", "allocation", "report"}
OfSession == {"stat", "companion", "report"}
TasksOf(w) ==
    {t \in [do : DosOf(w), place : Spots, kind : Kinds3 \cup Failures] :
        w = "claude" /\ t.do \in OfSession => t.place \in DOMAIN Companion}
Payloads == [companion : BOOLEAN, seen : SUBSET Spots, degraded : BOOLEAN]
Findings == [place : Spots, parent : {"none", "s", "t"}, payload : Payloads]

WalkTyped ==
    /\ walker \in Walkers /\ agenda \in Seq(SUBSET TasksOf(walker))
    /\ payload \in Payloads /\ reported \subseteq Findings

\* A thing is in a directory that is there, and files alone name a parent.
GroundHolds ==
    /\ ground \in [Spots -> Nodes]
    /\ \A p \in Spots :
          /\ ground[p].kind # "absent" /\ InDirectory[p] # Nowhere => ground[InDirectory[p]].kind = "dir"
          /\ ground[p].kind # "file" => ground[p].parent = "none"

AheadOf(calls) == UNION {calls[n] : n \in DOMAIN calls}
Ahead == AheadOf(agenda)

\* What a call knows of the kind of what it is about.
KindsAgree ==
    walker # "inventory" =>
        \A t \in Ahead : t.do \in {"visit", "payload_visit"} /\ Steady(t.place) =>
            t.kind = ground[t.place].kind

DeviceHolds ==
    walker = "inventory" /\ Steady(Roots3.inventory[1]) =>
        device \in {Nowhere, ground[Roots3.inventory[1]].device}

\* The call t comes before all that is to say of p.
Leads(t, p) ==
    CASE walker = "codex" ->
            \/ t.do \in {"root", "list", "visit"} /\ t.place \in {p} \cup AboveOf[p]
            \/ t.do \in {"measure", "parent"} /\ t.place = p
      [] walker = "claude" ->
            \/ t.do \in {"root", "list"} /\ t.place = Roots3.claude[1]
            \/ t.do \in {"visit", "list"} /\ t.place = InDirectory[p]
            \/ t.do \in {"visit", "stat", "companion", "report"} /\ t.place = p
      [] walker = "inventory" ->
            \/ t.do \in {"visit", "identity", "allocation"} /\ t.place \in {p} \cup AboveOf[p]
            \/ t.do = "list" /\ t.place \in AboveOf[p]
            \/ t.do = "report" /\ t.place = p

\* While nothing failed, what is wanted is reported or ahead.
NothingMissed ==
    complete = "complete" =>
        \A p \in Spots : InTree(p) /\ Steady(p) /\ Wanted(p) =>
            (\E f \in reported : f.place = p) \/ (\E t \in Ahead : Leads(t, p))

ParentsKnown ==
    walker = "codex" /\ complete = "complete" =>
        \A f \in reported :
            Steady(f.place) /\ f.place \notin rewritten => f.parent = ground[f.place].parent

OfPayload == {"payload_list", "payload_visit", "payload_stat"}
Counts(t, q) ==
    \/ t.do = "payload_list" /\ t.place \in AboveOf[q]
    \/ t.do = "payload_visit" /\ t.place \in {q} \cup AboveOf[q]
    \/ t.do = "payload_stat" /\ t.place = q

\* Every file below s is counted in what, or still by calls.
Counted(s, what, calls) ==
    (what.companion /\ ~what.degraded) \/ complete = "complete" =>
        \A q \in Below(Companion[s]) :
            Steady(q) /\ ground[q].kind = "file" => q \in what.seen \/ \E t \in calls : Counts(t, q)

NoOwn(calls) == \A t \in AheadOf(calls) : t.do \notin OfPayload \cup {"report"}

\* The calls of the companion of r come first, then r, then those of no session.
Ordered(calls, r) ==
    \E m \in DOMAIN calls :
        /\ calls[m] = {r}
        /\ \A n \in DOMAIN calls : n < m => \A t \in calls[n] : t.do \in OfPayload
        /\ \A n \in DOMAIN calls : n > m => \A t \in calls[n] : t.do \notin OfPayload \cup {"report"}

SessionHolds ==
    walker = "claude" =>
        /\ \A f \in reported : f.place \in DOMAIN Companion /\ Counted(f.place, f.payload, {})
        /\ \/ NoOwn(agenda) /\ payload = NoPayload
           \/ \E r \in Ahead : r.do = "report" /\ Ordered(agenda, r) /\ Counted(r.place, payload, Ahead)

DiscoveryInv ==
    /\ WalkTyped /\ GroundHolds /\ KindsAgree /\ DeviceHolds
    /\ NothingMissed /\ ParentsKnown /\ SessionHolds

-----------------------------------------------------------------------------
(* Discovery: the tree.                                                    *)

LEMMA AboveIsClosed ==
    ASSUME NEW p \in Spots
    PROVE  /\ AboveOf[p] \subseteq Spots
           /\ InDirectory[p] = Nowhere \/ (InDirectory[p] \in Spots /\ InDirectory[p] \in AboveOf[p])
           /\ \A q \in AboveOf[p] :
                 InDirectory[q] = Nowhere \/ (InDirectory[q] \in Spots /\ InDirectory[q] \in AboveOf[p])
  <1>1. InDirectory \in [Spots -> Spots \cup {Nowhere}]
      BY DiscoveryAssumption
  <1>2. AboveOf[p] = {d \in Spots : \A S \in UpwardClosed : InDirectory[p] \in S \cup {Nowhere} => d \in S}
      BY DEF AboveOf
  <1>3. ASSUME NEW q \in AboveOf[p], InDirectory[q] # Nowhere
        PROVE  InDirectory[q] \in AboveOf[p]
    <2>1. q \in Spots /\ InDirectory[q] \in Spots
        BY <1>1, <1>2, <1>3
    <2>2. ASSUME NEW S \in UpwardClosed, InDirectory[p] \in S \cup {Nowhere}
          PROVE  InDirectory[q] \in S
      <3>1. q \in S
          BY <1>2, <2>2
      <3> QED
          BY <1>3, <2>2, <3>1 DEF UpwardClosed
    <2> QED
        BY <1>2, <2>1, <2>2
  <1>4. InDirectory[p] # Nowhere => InDirectory[p] \in AboveOf[p]
      BY <1>1, <1>2
  <1> QED
      BY <1>1, <1>2, <1>3, <1>4

LEMMA AboveIsLeast ==
    ASSUME NEW p \in Spots, NEW S \in SUBSET Spots,
           InDirectory[p] # Nowhere => InDirectory[p] \in S,
           \A q \in S : InDirectory[q] # Nowhere => InDirectory[q] \in S
    PROVE  AboveOf[p] \subseteq S
  <1>1. S \in UpwardClosed
      BY DEF UpwardClosed
  <1> QED
      BY <1>1 DEF AboveOf

LEMMA AboveOfAbove ==
    ASSUME NEW p \in Spots, NEW q \in AboveOf[p]
    PROVE  AboveOf[q] \subseteq AboveOf[p] /\ p \notin AboveOf[q]
  <1>1. q \in Spots /\ AboveOf[p] \in SUBSET Spots
      BY AboveIsClosed
  <1>2. AboveOf[q] \subseteq AboveOf[p]
      BY <1>1, AboveIsClosed, AboveIsLeast
  <1>3. p \notin AboveOf[p]
      BY DiscoveryAssumption
  <1> QED
      BY <1>2, <1>3

\* From what is above a place something in it leads on.
LEMMA NextOnTheWay ==
    ASSUME NEW p \in Spots, NEW d \in AboveOf[p]
    PROVE  \E c \in {p} \cup AboveOf[p] : c \in Spots /\ InDirectory[c] = d
  <1> DEFINE S == {a \in AboveOf[p] : \E c \in {p} \cup AboveOf[p] : c \in Spots /\ InDirectory[c] = a}
  <1>1. S \in SUBSET Spots
      BY AboveIsClosed
  <1>2. InDirectory[p] # Nowhere => InDirectory[p] \in S
      BY AboveIsClosed
  <1>3. \A q \in S : InDirectory[q] # Nowhere => InDirectory[q] \in S
      BY AboveIsClosed
  <1> HIDE DEF S
  <1>4. AboveOf[p] \subseteq S
      BY <1>1, <1>2, <1>3, AboveIsLeast
  <1> QED
      BY <1>4 DEF S

-----------------------------------------------------------------------------
(* Discovery: what stands.                                                 *)

LEMMA WhatIsAboveIsThere ==
    ASSUME NEW g, NEW p \in Spots, g[p].kind # "absent",
           \A q \in Spots : g[q].kind # "absent" /\ InDirectory[q] # Nowhere => g[InDirectory[q]].kind = "dir"
    PROVE  \A a \in AboveOf[p] : a \in Spots /\ g[a].kind = "dir"
  <1> DEFINE S == {a \in AboveOf[p] : g[a].kind = "dir"}
  <1>1. S \in SUBSET Spots
      BY AboveIsClosed
  <1>2. InDirectory[p] # Nowhere => InDirectory[p] \in S
      BY AboveIsClosed
  <1>3. \A q \in S : InDirectory[q] # Nowhere => InDirectory[q] \in S
    <2> SUFFICES ASSUME NEW q \in S, InDirectory[q] # Nowhere PROVE InDirectory[q] \in S
        OBVIOUS
    <2>1. q \in Spots /\ g[q].kind # "absent"
        BY AboveIsClosed
    <2>2. g[InDirectory[q]].kind = "dir"
        BY <2>1
    <2> QED
        BY <2>2, AboveIsClosed
  <1> HIDE DEF S
  <1>4. AboveOf[p] \subseteq S
      BY <1>1, <1>2, <1>3, AboveIsLeast
  <1> QED
      BY <1>1, <1>4 DEF S

LEMMA DirectoriesAbove ==
    ASSUME GroundHolds, NEW p \in Spots, ground[p].kind # "absent"
    PROVE  \A a \in AboveOf[p] : a \in Spots /\ ground[a].kind = "dir"
  BY WhatIsAboveIsThere DEF GroundHolds

\* What is steady is seen, unless a directory above it is closed.
LEMMA SeenAsItIs ==
    ASSUME GroundHolds, NEW p \in Spots, ground[p].kind # "absent"
    PROVE  Look(p) \in {"denied", ground[p].kind}
  BY DirectoriesAbove DEF Look

LEMMA KindsOfGround ==
    ASSUME GroundHolds, NEW p \in Spots
    PROVE  /\ ground[p] \in Nodes /\ ground[p].kind \in Kinds3 /\ ground[p].kind \notin {"denied", "io"}
           /\ ground[p].device \in Devices /\ ground[p].device # "denied"
           /\ Look(p) \in Kinds3 \cup Failures
  <1>1. ground[p] \in Nodes
      BY DEF GroundHolds
  <1>2. /\ ground[p].kind \in Kinds3 /\ ground[p].kind \notin {"denied", "io"}
        /\ ground[p].device \in Devices /\ ground[p].device # "denied"
      BY <1>1 DEF Nodes, Kinds3, Links3, Devices
  <1>3. Look(p) \in Kinds3 \cup Failures
      BY <1>2 DEF Look, Failures
  <1> QED
      BY <1>1, <1>2, <1>3

\* What is above the steady is.
LEMMA SteadyAbove ==
    ASSUME GroundHolds, NEW p \in Spots, Steady(p), NEW a \in AboveOf[p]
    PROVE  a \in Spots /\ Steady(a) /\ ground[a].kind = "dir"
  <1>1. a \in Spots /\ ground[a].kind = "dir"
      BY DirectoriesAbove DEF Steady
  <1>2. ({a} \cup AboveOf[a]) \subseteq AboveOf[p]
      BY AboveOfAbove
  <1> QED
      BY <1>1, <1>2 DEF Steady

\* The listing of a steady directory has in it the next on the way.
LEMMA ListingLeadsOn ==
    ASSUME GroundHolds, NEW p \in Spots, Steady(p), NEW d \in AboveOf[p], Listing(d) = "dir"
    PROVE  \E c \in Children(d) : c \in {p} \cup AboveOf[p] /\ c \in Spots
  <1>1. d \in Spots /\ Steady(d) /\ ground[d].kind = "dir"
      BY SteadyAbove
  <1>2. Look(d) \in {"denied", "dir"}
      BY <1>1, SeenAsItIs
  <1>3. Look(d) = "dir"
      BY <1>2 DEF Listing, Followed
  <1>4. PICK c \in {p} \cup AboveOf[p] : c \in Spots /\ InDirectory[c] = d
      BY NextOnTheWay
  <1>5. ground[c].kind # "absent"
      BY <1>4, SteadyAbove DEF Steady
  <1> QED
      BY <1>3, <1>4, <1>5 DEF Children

\* A directory that stands is listed, or that fails.
LEMMA ListingOfADirectory ==
    ASSUME GroundHolds, NEW d \in Spots, ground[d].kind = "dir"
    PROVE  Listing(d) \in {"dir", "denied"} /\ Followed(d) \in {"dir", "denied"} /\ Look(d) \in {"dir", "denied"}
  <1>1. Look(d) \in {"denied", "dir"}
      BY SeenAsItIs
  <1> QED
      BY <1>1 DEF Listing, Followed

-----------------------------------------------------------------------------
(* Discovery: what others do.                                              *)

\* Whatever others do, what is steady was, and is what it was.
StaysSteady ==
    \A p \in Spots : Steady(p)' =>
        /\ Steady(p) /\ ground'[p].kind = ground[p].kind /\ ground'[p].device = ground[p].device
        /\ p \notin rewritten' => p \notin rewritten /\ ground'[p].parent = ground[p].parent

LEMMA PutsKeeps ==
    ASSUME GroundHolds, NEW p \in Spots, NEW kind \in Kinds3, Puts(p, Node(kind, "here", "none"))
    PROVE  GroundHolds' /\ StaysSteady
  <1> DEFINE node == Node(kind, "here", "none")
  <1>1. node \in Nodes /\ Absent3 \in Nodes /\ node.parent = "none" /\ node.kind = kind
        /\ Absent3.parent = "none" /\ Absent3.kind = "absent"
      BY DEF Node, Nodes, Devices, Absent3, Kinds3
  <1>2. /\ InDirectory[p] # Nowhere => ground[InDirectory[p]].kind = "dir"
        /\ ground' = [q \in Spots |-> IF q = p THEN node ELSE IF q \in Below(p) THEN Absent3 ELSE ground[q]]
        /\ disturbed' = disturbed \cup {p} /\ rewritten' = rewritten
      BY DEF Puts
  <1> HIDE DEF node
  <1>3. ground' \in [Spots -> Nodes]
      BY <1>1, <1>2 DEF GroundHolds
  <1>4. ASSUME NEW q \in Spots
        PROVE  /\ ground'[q].kind # "absent" /\ InDirectory[q] # Nowhere => ground'[InDirectory[q]].kind = "dir"
               /\ ground'[q].kind # "file" => ground'[q].parent = "none"
    <2>1. ground'[q].kind # "file" => ground'[q].parent = "none"
        BY <1>1, <1>2 DEF GroundHolds
    <2>2. ASSUME ground'[q].kind # "absent", InDirectory[q] # Nowhere
          PROVE  ground'[InDirectory[q]].kind = "dir"
      <3>1. q = p \/ (q \notin Below(p) /\ ground'[q] = ground[q])
          BY <1>1, <1>2, <2>2
      <3>2. InDirectory[q] \in Spots /\ InDirectory[q] \in AboveOf[q] /\ InDirectory[q] # q
          BY <2>2, AboveIsClosed, DiscoveryAssumption
      <3>3. ground[InDirectory[q]].kind = "dir"
          BY <1>2, <2>2, <3>1 DEF GroundHolds
      <3>4. InDirectory[q] # p
          BY <3>1, <3>2 DEF Below
      <3>5. InDirectory[q] \notin Below(p)
        <4> SUFFICES ASSUME p \in AboveOf[InDirectory[q]] PROVE FALSE
            BY DEF Below
        <4>1. p \in AboveOf[q]
            BY <3>2, AboveOfAbove
        <4>2. q # p
            BY <4>1, DiscoveryAssumption
        <4> QED
            BY <3>1, <4>1, <4>2 DEF Below
      <3> QED
          BY <1>2, <3>2, <3>3, <3>4, <3>5
    <2> QED
        BY <2>1, <2>2
  <1>5. StaysSteady
    <2> SUFFICES ASSUME NEW q \in Spots, Steady(q)'
                 PROVE  Steady(q) /\ ground'[q] = ground[q] /\ rewritten' = rewritten
        BY DEF StaysSteady
    <2>1. ({q} \cup AboveOf[q]) \cap disturbed' = {}
        BY DEF Steady
    <2>2. q # p /\ q \notin Below(p) /\ ({q} \cup AboveOf[q]) \cap disturbed = {}
        BY <1>2, <2>1 DEF Below
    <2>3. ground'[q] = ground[q]
        BY <1>2, <2>2
    <2> QED
        BY <1>2, <2>2, <2>3 DEF Steady
  <1> QED
      BY <1>3, <1>4, <1>5 DEF GroundHolds

LEMMA WriteKeeps ==
    ASSUME GroundHolds, NEW p \in Spots, WriteFile(p)
    PROVE  GroundHolds' /\ StaysSteady
  <1>1. PICK parent \in {"s", "t"} : ground' = [ground EXCEPT ![p].parent = parent]
      BY DEF WriteFile
  <1>2. ground[p].kind = "file" /\ rewritten' = rewritten \cup {p} /\ disturbed' = disturbed
      BY DEF WriteFile
  <1>3. ground \in [Spots -> Nodes]
      BY DEF GroundHolds
  <1>4. ground' \in [Spots -> Nodes]
      BY <1>1, <1>3 DEF Nodes
  <1>5. \A q \in Spots : /\ ground'[q].kind = ground[q].kind /\ ground'[q].device = ground[q].device
                         /\ q # p => ground'[q].parent = ground[q].parent
      BY <1>1, <1>3 DEF Nodes
  <1>6. \A q \in Spots : InDirectory[q] # Nowhere => InDirectory[q] \in Spots
      BY DiscoveryAssumption
  <1>7. GroundHolds'
      BY <1>2, <1>4, <1>5, <1>6 DEF GroundHolds
  <1>8. StaysSteady
      BY <1>2, <1>5 DEF StaysSteady, Steady
  <1> QED
      BY <1>7, <1>8

LEMMA OpenKeeps ==
    ASSUME GroundHolds, NEW p \in Spots, OpenOrClose(p)
    PROVE  GroundHolds' /\ StaysSteady
  <1>1. ground' = [ground EXCEPT ![p].open = ~ ground[p].open] /\ rewritten' = rewritten /\ disturbed' = disturbed
      BY DEF OpenOrClose
  <1>2. ground \in [Spots -> Nodes]
      BY DEF GroundHolds
  <1>3. ASSUME NEW q \in Spots
        PROVE  /\ ground'[q] \in Nodes
               /\ ground'[q].kind = ground[q].kind /\ ground'[q].device = ground[q].device
               /\ ground'[q].parent = ground[q].parent
    <2>1. ground[q] \in Nodes
        BY <1>2
    <2>2. CASE q = p
      <3>1. ground'[q] = [ground[q] EXCEPT !.open = ~ ground[q].open]
          BY <1>1, <1>2, <2>2
      <3> DEFINE b == ~ ground[q].open
      <3>2. b \in BOOLEAN
          OBVIOUS
      <3> HIDE DEF b
      <3> QED
          BY <2>1, <3>1, <3>2 DEF Nodes, b
    <2>3. CASE q # p
        BY <1>1, <1>2, <2>1, <2>3
    <2> QED
        BY <2>2, <2>3
  <1>4. ground' \in [Spots -> Nodes]
      BY <1>1, <1>2, <1>3
  <1>5. \A q \in Spots : InDirectory[q] # Nowhere => InDirectory[q] \in Spots
      BY DiscoveryAssumption
  <1>6. GroundHolds'
      BY <1>2, <1>3, <1>4, <1>5 DEF GroundHolds
  <1>7. StaysSteady
      BY <1>1, <1>3 DEF StaysSteady, Steady
  <1> QED
      BY <1>6, <1>7

LEMMA OthersLeaveTheSteady ==
    ASSUME GroundHolds, Disturb3
    PROVE  GroundHolds' /\ StaysSteady /\ UNCHANGED <<walker, walkVars>>
  <1>1. UNCHANGED <<walker, walkVars>>
      BY DEF Disturb3, Other3
  <1>2. PICK p \in Spots :
            WriteFile(p) \/ OpenOrClose(p) \/ \E kind \in Kinds3 : Puts(p, Node(kind, "here", "none"))
      BY DEF Disturb3
  <1> QED
      BY <1>1, <1>2, WriteKeeps, OpenKeeps, PutsKeeps

-----------------------------------------------------------------------------
(* Discovery: the agenda.                                                  *)

LEMMA OnTop ==
    ASSUME NEW T, NEW calls \in Seq(SUBSET T), NEW tasks \in SUBSET T
    PROVE  /\ <<tasks>> \o calls \in Seq(SUBSET T)
           /\ AheadOf(<<tasks>> \o calls) = tasks \cup AheadOf(calls)
           /\ Len(<<tasks>> \o calls) = Len(calls) + 1
           /\ (<<tasks>> \o calls)[1] = tasks
           /\ \A n \in DOMAIN calls : (<<tasks>> \o calls)[n + 1] = calls[n]
  <1> DEFINE new == <<tasks>> \o calls
  <1>1. /\ new \in Seq(SUBSET T) /\ Len(new) = Len(calls) + 1 /\ new[1] = tasks
        /\ \A n \in 2 .. Len(new) : new[n] = calls[n - 1]
      OBVIOUS
  <1>2. DOMAIN new = 1 .. (Len(calls) + 1) /\ DOMAIN calls = 1 .. Len(calls) /\ Len(calls) \in Nat
      BY <1>1
  <1> HIDE DEF new
  <1>3. \A n \in DOMAIN calls : n + 1 \in DOMAIN new /\ new[n + 1] = calls[n]
    <2> TAKE n \in DOMAIN calls
    <2>1. n + 1 \in 2 .. Len(new) /\ (n + 1) - 1 = n
        BY <1>1, <1>2
    <2> QED
        BY <1>1, <1>2, <2>1
  <1>4. AheadOf(new) \subseteq tasks \cup AheadOf(calls)
    <2> SUFFICES ASSUME NEW n \in DOMAIN new, NEW t \in new[n] PROVE t \in tasks \cup AheadOf(calls)
        BY DEF AheadOf
    <2>1. CASE n = 1
        BY <1>1, <2>1
    <2>2. CASE n # 1
      <3>1. n - 1 \in DOMAIN calls /\ new[n] = calls[n - 1]
          BY <1>1, <1>2, <2>2
      <3> QED
          BY <3>1 DEF AheadOf
    <2> QED
        BY <2>1, <2>2
  <1>5. tasks \cup AheadOf(calls) \subseteq AheadOf(new)
    <2>1. 1 \in DOMAIN new
        BY <1>2
    <2>2. tasks \subseteq AheadOf(new)
        BY <1>1, <2>1 DEF AheadOf
    <2>3. AheadOf(calls) \subseteq AheadOf(new)
        BY <1>3 DEF AheadOf
    <2> QED
        BY <2>2, <2>3
  <1> QED
      BY <1>1, <1>3, <1>4, <1>5 DEF new

LEMMA TopOff ==
    ASSUME NEW T, NEW calls \in Seq(SUBSET T), calls # <<>>
    PROVE  /\ Tail(calls) \in Seq(SUBSET T) /\ Head(calls) \in SUBSET T
           /\ Len(Tail(calls)) = Len(calls) - 1 /\ Len(calls) > 0
           /\ Head(calls) = calls[1] /\ \A n \in DOMAIN Tail(calls) : Tail(calls)[n] = calls[n + 1]
           /\ AheadOf(calls) = Head(calls) \cup AheadOf(Tail(calls))
  <1> DEFINE rest == Tail(calls)
  <1>1. /\ rest \in Seq(SUBSET T) /\ Head(calls) = calls[1] /\ Head(calls) \in SUBSET T
        /\ Len(rest) = Len(calls) - 1 /\ Len(calls) \in Nat /\ Len(calls) > 0
        /\ DOMAIN rest = 1 .. (Len(calls) - 1) /\ DOMAIN calls = 1 .. Len(calls)
        /\ \A n \in DOMAIN rest : rest[n] = calls[n + 1]
      OBVIOUS
  <1> HIDE DEF rest
  <1>2. AheadOf(calls) \subseteq Head(calls) \cup AheadOf(rest)
    <2> SUFFICES ASSUME NEW n \in DOMAIN calls, NEW t \in calls[n] PROVE t \in Head(calls) \cup AheadOf(rest)
        BY DEF AheadOf
    <2>1. CASE n = 1
        BY <1>1, <2>1
    <2>2. CASE n # 1
      <3>1. n - 1 \in DOMAIN rest /\ (n - 1) + 1 = n
          BY <1>1, <2>2
      <3>2. t \in rest[n - 1]
          BY <1>1, <3>1
      <3> QED
          BY <3>1, <3>2 DEF AheadOf
    <2> QED
        BY <2>1, <2>2
  <1>3. AheadOf(rest) \subseteq AheadOf(calls)
      BY <1>1 DEF AheadOf
  <1>4. Head(calls) \subseteq AheadOf(calls)
    <2>1. 1 \in DOMAIN calls
        BY <1>1
    <2> QED
        BY <1>1, <2>1 DEF AheadOf
  <1> QED
      BY <1>1, <1>2, <1>3, <1>4 DEF rest

LEMMA TwoOnTop ==
    ASSUME NEW R, NEW calls \in Seq(R), NEW a \in R, NEW b \in R
    PROVE  <<a, b>> \o calls = <<a>> \o (<<b>> \o calls)
  <1> DEFINE both == <<a, b>> \o calls
             after == <<b>> \o calls
             whole == <<a>> \o after
  <1>1. /\ both \in Seq(R) /\ Len(both) = Len(calls) + 2 /\ both[1] = a /\ both[2] = b
        /\ \A n \in 3 .. Len(both) : both[n] = calls[n - 2]
      OBVIOUS
  <1>2. /\ after \in Seq(R) /\ Len(after) = Len(calls) + 1 /\ after[1] = b
        /\ \A n \in 2 .. Len(after) : after[n] = calls[n - 1]
      OBVIOUS
  <1> HIDE DEF both, after
  <1>3. /\ whole \in Seq(R) /\ Len(whole) = Len(after) + 1 /\ whole[1] = a
        /\ \A n \in 2 .. Len(whole) : whole[n] = after[n - 1]
      BY <1>2
  <1> HIDE DEF whole
  <1>4. Len(calls) \in Nat /\ Len(both) = Len(whole)
      BY <1>1, <1>2, <1>3
  <1>5. ASSUME NEW n \in 1 .. Len(both) PROVE both[n] = whole[n]
    <2>1. CASE n = 1
        BY <1>1, <1>3, <2>1
    <2>2. CASE n = 2
        BY <1>1, <1>2, <1>3, <1>4, <2>2
    <2>3. CASE n > 2
      <3>1. whole[n] = after[n - 1] /\ n - 1 \in 2 .. Len(after) /\ n \in 3 .. Len(both)
          BY <1>1, <1>2, <1>3, <1>4, <2>3
      <3>2. (n - 1) - 1 = n - 2
          BY <1>4
      <3> QED
          BY <1>1, <1>2, <3>1, <3>2
    <2> QED
        BY <1>4, <2>1, <2>2, <2>3
  <1>6. both = whole
      BY <1>1, <1>3, <1>4, <1>5, SeqEqual
  <1> QED
      BY <1>6 DEF both, after, whole

\* What replaces the call t: the calls of others stay, and these come.
Replaced(t, calls, tasks) ==
    /\ calls \in Seq(SUBSET TasksOf(walker))
    /\ (Ahead \ {t}) \cup tasks \subseteq AheadOf(calls) /\ AheadOf(calls) \subseteq Ahead \cup tasks

LEMMA RestReplaces ==
    ASSUME WalkTyped, agenda # <<>>, NEW t \in Head(agenda)
    PROVE  Replaced(t, Rest(t), {}) /\ t \in Ahead /\ t \in TasksOf(walker)
  <1> DEFINE T == TasksOf(walker)
             left == Head(agenda) \ {t}
  <1>1. agenda \in Seq(SUBSET T)
      BY DEF WalkTyped
  <1> HIDE DEF T
  <1>2. /\ Tail(agenda) \in Seq(SUBSET T) /\ left \in SUBSET T /\ t \in T
        /\ Ahead = Head(agenda) \cup AheadOf(Tail(agenda))
      BY <1>1, TopOff DEF Ahead
  <1>3. AheadOf(<<left>> \o Tail(agenda)) = left \cup AheadOf(Tail(agenda))
        /\ <<left>> \o Tail(agenda) \in Seq(SUBSET T)
      BY <1>2, OnTop
  <1>4. CASE left = {}
    <2>1. Rest(t) = Tail(agenda)
        BY <1>4 DEF Rest
    <2> QED
        BY <1>2, <1>4, <2>1 DEF Replaced, T
  <1>5. CASE left # {}
    <2>1. Rest(t) = <<left>> \o Tail(agenda)
        BY <1>5 DEF Rest
    <2> QED
        BY <1>2, <1>3, <2>1 DEF Replaced, T
  <1> QED
      BY <1>4, <1>5

LEMMA NowReplaces ==
    ASSUME WalkTyped, agenda # <<>>, NEW t \in Head(agenda), NEW tasks \in SUBSET TasksOf(walker)
    PROVE  Replaced(t, Now(tasks, t), tasks)
  <1> DEFINE T == TasksOf(walker)
  <1>1. Replaced(t, Rest(t), {})
      BY RestReplaces
  <1>2. Rest(t) \in Seq(SUBSET T)
      BY <1>1 DEF Replaced
  <1>3. CASE tasks = {}
    <2>1. Now(tasks, t) = Rest(t)
        BY <1>2, <1>3 DEF Now
    <2> QED
        BY <1>1, <1>3, <2>1
  <1>4. CASE tasks # {}
    <2>1. Now(tasks, t) = <<tasks>> \o Rest(t)
        BY <1>4 DEF Now
    <2> HIDE DEF T
    <2>2. <<tasks>> \o Rest(t) \in Seq(SUBSET T) /\ AheadOf(<<tasks>> \o Rest(t)) = tasks \cup AheadOf(Rest(t))
        BY <1>2, OnTop DEF T
    <2> QED
        BY <1>1, <2>1, <2>2 DEF Replaced, T
  <1> QED
      BY <1>3, <1>4

LEMMA LaterReplaces ==
    ASSUME WalkTyped, agenda # <<>>, NEW t \in Head(agenda), NEW task \in TasksOf(walker)
    PROVE  Replaced(t, Later(task, t), {task})
  <1> DEFINE T == TasksOf(walker)
             left == Head(agenda) \ {t}
             after == <<{task}>> \o Tail(agenda)
  <1>1. agenda \in Seq(SUBSET T) /\ task \in T
      BY DEF WalkTyped
  <1> HIDE DEF T
  <1>2. /\ Tail(agenda) \in Seq(SUBSET T) /\ left \in SUBSET T /\ {task} \in SUBSET T
        /\ Ahead = Head(agenda) \cup AheadOf(Tail(agenda))
      BY <1>1, TopOff DEF Ahead
  <1>3. after \in Seq(SUBSET T) /\ AheadOf(after) = {task} \cup AheadOf(Tail(agenda))
      BY <1>2, OnTop
  <1>4. CASE Head(agenda) = {t}
    <2>1. Later(task, t) = after
        BY <1>4 DEF Later
    <2> HIDE DEF after
    <2> QED
        BY <1>2, <1>3, <1>4, <2>1 DEF Replaced, T
  <1>5. CASE Head(agenda) # {t}
    <2>1. Later(task, t) = <<left, {task}>> \o Tail(agenda)
        BY <1>5 DEF Later
    <2>2. Later(task, t) = <<left>> \o after
      <3> DEFINE last == {task}
      <3>1. Tail(agenda) \in Seq(SUBSET T) /\ left \in SUBSET T /\ last \in SUBSET T
          BY <1>2
      <3> HIDE DEF left, last
      <3>2. <<left, last>> \o Tail(agenda) = <<left>> \o (<<last>> \o Tail(agenda))
          BY <3>1, TwoOnTop
      <3> QED
          BY <2>1, <3>2 DEF last
    <2> HIDE DEF after
    <2>3. <<left>> \o after \in Seq(SUBSET T) /\ AheadOf(<<left>> \o after) = left \cup AheadOf(after)
        BY <1>2, <1>3, OnTop
    <2> QED
        BY <1>2, <1>3, <2>2, <2>3 DEF Replaced, T
  <1> QED
      BY <1>4, <1>5

-----------------------------------------------------------------------------
(* Discovery: one call, for the walks of all kinds.                        *)

\* While the walk makes a call, nobody else does anything.
Still == UNCHANGED <<walker, ground, disturbed, rewritten>>

WantedHere(p) == p \in Spots /\ InTree(p) /\ Steady(p) /\ Wanted(p)

\* The call t is done, and what it was about is reported or goes on with tasks.
Moves(t, tasks) ==
    /\ Replaced(t, agenda', tasks) /\ tasks \subseteq TasksOf(walker)
    /\ reported \subseteq reported' /\ (complete' = "complete" => complete = "complete")
    /\ \A s \in tasks : walker # "inventory" /\ s.do \in {"visit", "payload_visit"} =>
          s.kind = ground[s.place].kind
    /\ complete' = "complete" =>
          \A p \in Spots : WantedHere(p) /\ Leads(t, p) =>
              (\E f \in reported' : f.place = p) \/ \E s \in tasks : Leads(s, p)

LEMMA StillTheSame ==
    ASSUME Still
    PROVE  /\ \A p \in Spots : Steady(p)' = Steady(p)
           /\ \A p \in Spots : InTree(p)' <=> InTree(p)
           /\ \A p \in Spots : Wanted(p)' <=> Wanted(p)
           /\ \A t, p : Leads(t, p)' <=> Leads(t, p)
  <1>1. walker' = walker /\ ground' = ground /\ disturbed' = disturbed
      BY DEF Still
  <1>2. ASSUME NEW p \in Spots PROVE (InTree(p)' <=> InTree(p)) /\ Steady(p)' = Steady(p)
      BY <1>1 DEF InTree, Steady
  <1>3. ASSUME NEW p \in Spots PROVE Wanted(p)' <=> Wanted(p)
      BY <1>1 DEF Wanted
  <1>4. ASSUME NEW t, NEW p PROVE Leads(t, p)' <=> Leads(t, p)
      BY <1>1 DEF Leads
  <1> QED
      BY <1>2, <1>3, <1>4

LEMMA MovesMissesNothing ==
    ASSUME NothingMissed, KindsAgree, WalkTyped, Still, NEW t, NEW tasks, Moves(t, tasks)
    PROVE  NothingMissed' /\ KindsAgree'
  <1>1. /\ (Ahead \ {t}) \cup tasks \subseteq Ahead' /\ Ahead' \subseteq Ahead \cup tasks
        /\ agenda' \in Seq(SUBSET TasksOf(walker))
      BY DEF Moves, Replaced, Ahead
  <1>2. walker' = walker /\ ground' = ground
      BY DEF Still
  <1>3. KindsAgree'
    <2> SUFFICES ASSUME walker # "inventory", NEW s \in Ahead', s.do \in {"visit", "payload_visit"}, Steady(s.place)'
                 PROVE  s.kind = ground[s.place].kind
        BY <1>2 DEF KindsAgree
    <2>1. CASE s \in tasks
        BY <2>1 DEF Moves
    <2>2. CASE s \in Ahead
      <3>1. Steady(s.place)
          BY DEF Steady, Still
      <3> QED
          BY <2>2, <3>1 DEF KindsAgree
    <2> QED
        BY <1>1, <2>1, <2>2
  <1>4. NothingMissed'
    <2> SUFFICES ASSUME complete' = "complete", NEW p \in Spots, InTree(p)', Steady(p)', Wanted(p)'
                 PROVE  (\E f \in reported' : f.place = p) \/ (\E s \in Ahead' : Leads(s, p)')
        BY DEF NothingMissed
    <2>1. WantedHere(p) /\ InTree(p) /\ Steady(p) /\ Wanted(p)
        BY StillTheSame DEF WantedHere
    <2>2. (\E f \in reported : f.place = p) \/ (\E s \in Ahead : Leads(s, p))
        BY <2>1 DEF NothingMissed, Moves
    <2>3. CASE \E f \in reported : f.place = p
        BY <2>3 DEF Moves
    <2>4. CASE \E s \in Ahead : Leads(s, p)
      <3>1. PICK s \in Ahead : Leads(s, p)
          BY <2>4
      <3>2. CASE s # t
          BY <1>1, <3>1, <3>2, StillTheSame
      <3>3. CASE s = t
        <4>1. (\E f \in reported' : f.place = p) \/ \E u \in tasks : Leads(u, p)
            BY <2>1, <3>1, <3>3 DEF Moves
        <4> QED
            BY <1>1, <4>1, StillTheSame
      <3> QED
          BY <3>2, <3>3
    <2> QED
        BY <2>2, <2>3, <2>4
  <1> QED
      BY <1>3, <1>4

LEMMA TasksAreRecords ==
    ASSUME NEW do, NEW p, NEW k
    PROVE  Task(do, p, k).do = do /\ Task(do, p, k).place = p /\ Task(do, p, k).kind = k
  BY DEF Task

\* A task of this walk, about a place.
LEMMA TaskOfTheWalk ==
    ASSUME NEW do \in DosOf(walker), NEW p \in Spots, NEW k \in Kinds3 \cup Failures,
           walker = "claude" /\ do \in OfSession => p \in DOMAIN Companion
    PROVE  Task(do, p, k) \in TasksOf(walker)
  BY DEF Task, TasksOf

LEMMA WalkersAre == walker \in Walkers => walker \in {"codex", "claude", "inventory"}
  BY DiscoveryAssumption

LEMMA DosOfEach ==
    /\ walker = "codex" => DosOf(walker) = {"root", "list", "visit", "measure", "parent"}
    /\ walker = "claude" => DosOf(walker) = {"root", "list", "visit", "stat", "companion", "report",
                                            "payload_list", "payload_visit", "payload_stat"}
    /\ walker = "inventory" => DosOf(walker) = {"list", "visit", "identity", "allocation", "report"}
  BY DEF DosOf

LEMMA TheTask ==
    ASSUME WalkTyped, NEW t \in TasksOf(walker)
    PROVE  /\ t.do \in DosOf(walker) /\ t.place \in Spots /\ t.kind \in Kinds3 \cup Failures
           /\ walker = "claude" /\ t.do \in OfSession => t.place \in DOMAIN Companion
           /\ walker \in {"codex", "claude", "inventory"}
  BY WalkersAre DEF TasksOf, WalkTyped

\* What is wanted stands in directories.
LEMMA WantedStands ==
    ASSUME GroundHolds, NEW p \in Spots, WantedHere(p)
    PROVE  /\ Steady(p) /\ ground[p].kind # "absent"
           /\ walker = "codex" => ground[p].kind = "file" /\ p \in Rollouts
           /\ walker = "claude" =>
                 /\ ground[p].kind = "file" /\ p \in DOMAIN Companion
                 /\ InDirectory[p] \in Spots /\ InDirectory[p] \in AboveOf[p]
                 /\ Steady(InDirectory[p]) /\ ground[InDirectory[p]].kind = "dir"
                 /\ InDirectory[InDirectory[p]] = Roots3.claude[1]
           /\ walker = "inventory" =>
                 \A a \in AboveOf[p] : ground[a].device = ground[Roots3.inventory[1]].device
  <1>1. Steady(p) /\ ground[p].kind # "absent" /\ Wanted(p)
      BY DEF WantedHere, Steady
  <1>2. ASSUME walker = "claude"
        PROVE  /\ ground[p].kind = "file" /\ p \in DOMAIN Companion
               /\ InDirectory[p] # Nowhere /\ InDirectory[InDirectory[p]] = Roots3.claude[1]
      BY <1>1, <1>2 DEF Wanted
  <1>3. walker = "codex" => ground[p].kind = "file" /\ p \in Rollouts
      BY <1>1 DEF Wanted
  <1>4. walker = "inventory" => \A a \in AboveOf[p] : ground[a].device = ground[Roots3.inventory[1]].device
      BY <1>1 DEF Wanted
  <1>5. InDirectory[p] # Nowhere =>
            /\ InDirectory[p] \in Spots /\ InDirectory[p] \in AboveOf[p]
            /\ Steady(InDirectory[p]) /\ ground[InDirectory[p]].kind = "dir"
      BY <1>1, AboveIsClosed, SteadyAbove
  <1> QED
      BY <1>1, <1>2, <1>3, <1>4, <1>5

\* The root of Claude's sessions, above a session.
LEMMA RootOfTheWanted ==
    ASSUME GroundHolds, walker \in Walkers, walker = "claude", NEW p \in Spots, WantedHere(p)
    PROVE  LET root == Roots3.claude[1] IN
           root \in Spots /\ root \in AboveOf[p] /\ Steady(root) /\ ground[root].kind = "dir"
  <1>1. Roots3.claude \in Seq(Spots) /\ Len(Roots3.claude) = 1
      BY DiscoveryAssumption
  <1>2. Roots3.claude[1] \in Spots
      BY <1>1
  <1>3. InDirectory[p] \in AboveOf[p] /\ InDirectory[InDirectory[p]] = Roots3.claude[1]
      BY WantedStands
  <1>4. Roots3.claude[1] \in AboveOf[p]
      BY <1>2, <1>3, AboveIsClosed, DiscoveryAssumption
  <1> QED
      BY <1>2, <1>4, WantedStands, SteadyAbove

\* A steady thing is in the listing of its directory.
LEMMA ChildIsListed ==
    ASSUME GroundHolds, NEW c \in Spots, Steady(c), InDirectory[c] \in Spots, Listing(InDirectory[c]) = "dir"
    PROVE  c \in Children(InDirectory[c])
  <1> DEFINE d == InDirectory[c]
  <1>1. d \in AboveOf[c]
      BY AboveIsClosed, DiscoveryAssumption
  <1>2. ground[d].kind = "dir"
      BY <1>1, SteadyAbove
  <1>3. Look(d) \in {"denied", "dir"}
      BY <1>2, SeenAsItIs
  <1>4. Look(d) = "dir"
      BY <1>3 DEF Listing, Followed
  <1> QED
      BY <1>4 DEF Children, Steady

LEMMA LeadsOfClaude ==
    ASSUME walker = "claude", NEW s, NEW p,
           \/ s.do \in {"visit", "list"} /\ s.place = InDirectory[p]
           \/ s.do \in {"visit", "stat", "companion", "report"} /\ s.place = p
    PROVE  Leads(s, p)
  BY DEF Leads

LEMMA NothingOfIt ==
    ASSUME WalkTyped, NEW t, Replaced(t, agenda', {}), reported \subseteq reported', complete' # "complete"
    PROVE  Moves(t, {})
  BY DEF Moves

\* One call comes in the place of another, or after the others of its listing.
LEMMA OneMove ==
    ASSUME WalkTyped, agenda # <<>>, NEW t \in Head(agenda), NEW task \in TasksOf(walker),
           agenda' = Now({task}, t) \/ agenda' = Later(task, t),
           task.do \notin {"visit", "payload_visit"}, reported \subseteq reported',
           complete' = "complete" => complete = "complete",
           \A p \in Spots : complete' = "complete" /\ WantedHere(p) /\ Leads(t, p) =>
              (\E f \in reported' : f.place = p) \/ Leads(task, p)
    PROVE  Moves(t, {task})
  <1>1. {task} \in SUBSET TasksOf(walker)
      OBVIOUS
  <1>2. Replaced(t, agenda', {task})
      BY <1>1, NowReplaces, LaterReplaces
  <1> QED
      BY <1>1, <1>2 DEF Moves

\* A call that does not fail says what is so.
LEMMA NoFailureIsSo ==
    ASSUME NEW actual, NEW k, Said(actual, k), k # "io"
    PROVE  k = actual
  BY DEF Said

LEMMA RootMoves ==
    ASSUME WalkTyped, GroundHolds, Still, agenda # <<>>, NEW t \in Head(agenda),
           NEW k \in Kinds3 \cup Failures, VisitRoot(t, k)
    PROVE  \E tasks : Moves(t, tasks) /\ \A s \in tasks : s.do = "list"
  <1>1. t \in TasksOf(walker) /\ Replaced(t, Rest(t), {})
      BY RestReplaces
  <1>2. t.do = "root" /\ walker \in {"codex", "claude"} /\ t.place \in Spots
      BY <1>1, TheTask, DosOfEach DEF VisitRoot
  <1>3. Said(Look(t.place), k)
      BY DEF VisitRoot
  <1>4. ASSUME NEW p \in Spots, WantedHere(p), Leads(t, p)
        PROVE  ground[t.place].kind \in {"dir", "file"}
    <2>1. CASE walker = "codex"
      <3>1. t.place \in {p} \cup AboveOf[p]
          BY <1>2, <1>4, <2>1 DEF Leads
      <3> QED
          BY <1>4, <2>1, <3>1, WantedStands, SteadyAbove
    <2>2. CASE walker = "claude"
      <3>1. t.place = Roots3.claude[1] \/ t.place = p
          BY <1>2, <1>4, <2>2 DEF Leads
      <3> QED
          BY <1>4, <2>2, <3>1, WantedStands, RootOfTheWanted DEF WalkTyped
    <2> QED
        BY <1>2, <2>1, <2>2
  <1>5. CASE k = "absent" \/ k \in Links3
    <2>1. agenda' = Rest(t) /\ complete' = complete /\ reported' = reported
        BY <1>5 DEF VisitRoot, Skips, Fine, SaysNoMore
    <2>2. Look(t.place) = k
        BY <1>3, <1>5, NoFailureIsSo DEF Links3
    <2>3. \A p \in Spots : ~ (WantedHere(p) /\ Leads(t, p))
      <3> SUFFICES ASSUME NEW p \in Spots, WantedHere(p), Leads(t, p) PROVE FALSE
          OBVIOUS
      <3>1. ground[t.place].kind \in {"dir", "file"}
          BY <1>4
      <3>2. Look(t.place) \in {"denied", "dir", "file"}
          BY <1>2, <3>1, SeenAsItIs
      <3> QED
          BY <1>5, <2>2, <3>2 DEF Links3
    <2>4. Moves(t, {})
        BY <1>1, <2>1, <2>3 DEF Moves
    <2> QED
        BY <2>4
  <1>6. CASE k \notin {"absent"} \cup Links3 /\ k \notin Failures
    <2> DEFINE tasks == {Task("list", t.place, k)}
    <2>1. agenda' = Now(tasks, t) /\ complete' = complete /\ reported' = reported
        BY <1>6 DEF VisitRoot, GoesOn, Fine, SaysNoMore
    <2>2. tasks \in SUBSET TasksOf(walker)
      <3>1. "list" \in DosOf(walker) /\ "list" \notin OfSession
          BY <1>2, DosOfEach DEF OfSession
      <3>2. Task("list", t.place, k) \in TasksOf(walker)
          BY <1>2, <3>1, TaskOfTheWalk
      <3> QED
          BY <3>2
    <2>3. \A s \in tasks : s.do = "list" /\ s.place = t.place
        BY TasksAreRecords
    <2>4. tasks # {}
        OBVIOUS
    <2> HIDE DEF tasks
    <2>5. Replaced(t, agenda', tasks)
        BY <2>1, <2>2, NowReplaces
    <2>6. ASSUME NEW p \in Spots, Leads(t, p) PROVE \E s \in tasks : Leads(s, p)
      <3>1. PICK s \in tasks : s.do = "list" /\ s.place = t.place
          BY <2>3, <2>4
      <3>2. Leads(s, p)
        <4>1. CASE walker = "codex"
            BY <1>2, <2>6, <3>1, <4>1 DEF Leads
        <4>2. CASE walker = "claude"
            BY <1>2, <2>6, <3>1, <4>2 DEF Leads
        <4> QED
            BY <1>2, <4>1, <4>2
      <3> QED
          BY <3>2
    <2>7. Moves(t, tasks)
        BY <2>1, <2>2, <2>3, <2>5, <2>6 DEF Moves
    <2> QED
        BY <2>3, <2>7
  <1>7. CASE k \in Failures /\ k # "absent"
    <2>1. agenda' = Rest(t) /\ complete' # "complete" /\ reported' = reported
        BY <1>7 DEF VisitRoot, Logs, Worse, Unknown3, SaysNoMore, Links3, Failures
    <2>2. Moves(t, {})
        BY <1>1, <2>1, NothingOfIt
    <2> QED
        BY <2>2
  <1> QED
      BY <1>5, <1>6, <1>7 DEF Failures

\* The entries of a directory are things there.
LEMMA VisitsAreTasks ==
    ASSUME WalkTyped, GroundHolds, NEW places \in SUBSET Spots
    PROVE  /\ Visits(places) \in SUBSET TasksOf(walker)
           /\ \A s \in Visits(places) : s.do = "visit" /\ s.kind = ground[s.place].kind /\ s.place \in places
           /\ \A c \in places : \E s \in Visits(places) : s.place = c
  <1>1. "visit" \in DosOf(walker) /\ "visit" \notin OfSession
      BY WalkersAre, DosOfEach DEF WalkTyped, OfSession
  <1>2. \A c \in places : Task("visit", c, ground[c].kind) \in TasksOf(walker)
      BY <1>1, TaskOfTheWalk, KindsOfGround
  <1>3. \A s \in Visits(places) : \E c \in places : s = Task("visit", c, ground[c].kind)
      BY DEF Visits
  <1>4. \A c \in places : Task("visit", c, ground[c].kind) \in Visits(places)
      BY DEF Visits
  <1> QED
      BY <1>2, <1>3, <1>4, TasksAreRecords

LEMMA ListMoves ==
    ASSUME WalkTyped, GroundHolds, Still, agenda # <<>>, NEW t \in Head(agenda),
           NEW k \in Kinds3 \cup Failures, ListDirectory(t, k)
    PROVE  \E tasks : Moves(t, tasks) /\ \A s \in tasks : s.do = "visit"
  <1>1. t \in TasksOf(walker) /\ Replaced(t, Rest(t), {})
      BY RestReplaces
  <1>2. t.do = "list" /\ t.place \in Spots /\ walker \in {"codex", "claude", "inventory"}
      BY <1>1, TheTask DEF ListDirectory
  <1>3. Said(Listing(t.place), k) /\ Children(t.place) \in SUBSET Spots
      BY DEF ListDirectory, Children
  <1>4. CASE k = "dir" /\ GoesOn(t, Visits(Children(t.place)))
    <2> DEFINE tasks == Visits(Children(t.place))
    <2>1. agenda' = Now(tasks, t) /\ complete' = complete /\ reported' = reported
        BY <1>4 DEF GoesOn, Fine, SaysNoMore
    <2>2. /\ tasks \in SUBSET TasksOf(walker)
          /\ \A s \in tasks : s.do = "visit" /\ s.kind = ground[s.place].kind
          /\ \A c \in Children(t.place) : \E s \in tasks : s.place = c
        BY <1>3, VisitsAreTasks
    <2> HIDE DEF tasks
    <2>3. Replaced(t, agenda', tasks)
        BY <2>1, <2>2, NowReplaces
    <2>4. Listing(t.place) = "dir"
        BY <1>3, <1>4, NoFailureIsSo
    <2>5. ASSUME NEW p \in Spots, WantedHere(p), Leads(t, p)
          PROVE  \E s \in tasks : Leads(s, p)
      <3>0. Steady(p)
          BY <2>5 DEF WantedHere
      <3>1. CASE t.place \in AboveOf[p] /\ walker \in {"codex", "inventory"}
        <4>1. PICK c \in Children(t.place) : c \in {p} \cup AboveOf[p]
            BY <2>4, <3>0, <3>1, ListingLeadsOn
        <4>2. PICK s \in tasks : s.place = c /\ s.do = "visit"
            BY <2>2, <4>1
        <4>3. Leads(s, p)
          <5>1. CASE walker = "codex"
              BY <4>1, <4>2, <5>1 DEF Leads
          <5>2. CASE walker = "inventory"
              BY <4>1, <4>2, <5>2 DEF Leads
          <5> QED
              BY <3>1, <5>1, <5>2
        <4> QED
            BY <4>3
      <3>2. CASE walker = "codex" /\ t.place = p
        <4>1. Look(p) \in {"denied", "file"}
            BY <2>5, <3>2, WantedStands, SeenAsItIs
        <4>2. Listing(p) # "dir"
            BY <4>1 DEF Listing, Followed
        <4> QED
            BY <2>4, <3>2, <4>2
      <3>3. CASE walker = "claude" /\ t.place = Roots3.claude[1]
        <4>1. /\ InDirectory[p] \in Spots /\ Steady(InDirectory[p])
              /\ InDirectory[InDirectory[p]] = t.place
            BY <2>5, <3>3, WantedStands
        <4>2. InDirectory[p] \in Children(t.place)
            BY <1>2, <2>4, <4>1, ChildIsListed
        <4>3. PICK s \in tasks : s.place = InDirectory[p] /\ s.do = "visit"
            BY <2>2, <4>2
        <4> QED
            BY <3>3, <4>3, LeadsOfClaude
      <3>4. CASE walker = "claude" /\ t.place = InDirectory[p]
        <4>1. p \in Children(t.place)
            BY <1>2, <2>4, <3>0, <3>4, ChildIsListed
        <4>2. PICK s \in tasks : s.place = p /\ s.do = "visit"
            BY <2>2, <4>1
        <4> QED
            BY <3>4, <4>2, LeadsOfClaude
      <3>5. CASE walker = "codex"
          BY <1>2, <2>5, <3>1, <3>2, <3>5 DEF Leads
      <3>6. CASE walker = "claude"
          BY <1>2, <2>5, <3>3, <3>4, <3>6 DEF Leads
      <3>7. CASE walker = "inventory"
          BY <1>2, <2>5, <3>1, <3>7 DEF Leads
      <3> QED
          BY <1>2, <3>5, <3>6, <3>7
    <2>6. Moves(t, tasks)
        BY <2>1, <2>2, <2>3, <2>5 DEF Moves
    <2> QED
        BY <2>2, <2>6
  <1>5. CASE k \in Failures /\ Unlisted(t)
    <2>1. agenda' = Rest(t) /\ complete' # "complete" /\ reported' = reported
        BY <1>5 DEF Unlisted, Logs, Worse, Unknown3, SaysNoMore
    <2>2. Moves(t, {})
        BY <1>1, <2>1, NothingOfIt
    <2> QED
        BY <2>2
  <1>6. CASE \E some \in SUBSET Children(t.place) :
                agenda' = Now(Visits(some), t) /\ Worse /\ SaysNoMore
    <2>1. PICK some \in SUBSET Children(t.place) : agenda' = Now(Visits(some), t) /\ Worse /\ SaysNoMore
        BY <1>6
    <2>2. complete' # "complete" /\ reported' = reported
        BY <2>1 DEF Worse, SaysNoMore
    <2>3. /\ Visits(some) \in SUBSET TasksOf(walker)
          /\ \A s \in Visits(some) : s.do = "visit" /\ s.kind = ground[s.place].kind
        BY <1>3, <2>1, VisitsAreTasks
    <2>4. Replaced(t, agenda', Visits(some))
        BY <2>1, <2>3, NowReplaces
    <2>5. Moves(t, Visits(some))
        BY <2>2, <2>3, <2>4 DEF Moves
    <2> QED
        BY <2>3, <2>5
  <1> QED
      BY <1>4, <1>5, <1>6 DEF ListDirectory

-----------------------------------------------------------------------------
(* Discovery: the invariant, over calls that report nothing.               *)

LEMMA CountedStays ==
    ASSUME Still, complete' = "complete" => complete = "complete", NEW s, NEW what, Counted(s, what, {}),
           Below(Companion[s]) \subseteq Spots
    PROVE  Counted(s, what, {})'
  <1>1. \A q \in Spots : Steady(q)' = Steady(q) /\ ground'[q] = ground[q]
      BY StillTheSame DEF Still
  <1> QED
      BY <1>1 DEF Counted

LEMMA BelowArePlaces == \A d : Below(d) \subseteq Spots
  BY DEF Below

\* All that is said of reported sessions stays true.
LEMMA ReportedStaysCounted ==
    ASSUME Still, complete' = "complete" => complete = "complete", SessionHolds, walker = "claude"
    PROVE  \A f \in reported : f.place \in DOMAIN Companion /\ Counted(f.place, f.payload, {})'
  <1> TAKE f \in reported
  <1>1. f.place \in DOMAIN Companion /\ Counted(f.place, f.payload, {})
      BY DEF SessionHolds
  <1> QED
      BY <1>1, CountedStays, BelowArePlaces

LEMMA GroundStays == GroundHolds /\ Still => GroundHolds'
  <1> SUFFICES ASSUME GroundHolds, ground' = ground PROVE GroundHolds'
      BY DEF Still
  <1> QED
      BY DEF GroundHolds

LEMMA QuietKeeps ==
    ASSUME DiscoveryInv, Still, SaysNoMore, NEW t, NEW tasks, Moves(t, tasks),
           walker = "claude" =>
              /\ NoOwn(agenda) /\ payload = NoPayload
              /\ \A s \in tasks : s.do \notin OfPayload \cup {"report"}
    PROVE  DiscoveryInv'
  <1>1. /\ agenda' \in Seq(SUBSET TasksOf(walker)) /\ AheadOf(agenda') \subseteq Ahead \cup tasks
        /\ complete' = "complete" => complete = "complete"
      BY DEF Moves, Replaced
  <1>2. device' = device /\ payload' = payload /\ reported' = reported
      BY DEF SaysNoMore
  <1>3. walker' = walker /\ ground' = ground /\ disturbed' = disturbed /\ rewritten' = rewritten
      BY DEF Still
  <1>4. WalkTyped'
      BY <1>1, <1>2, <1>3 DEF DiscoveryInv, WalkTyped, TasksOf, DosOf
  <1>5. NothingMissed' /\ KindsAgree'
      BY MovesMissesNothing DEF DiscoveryInv
  <1>6. DeviceHolds'
      BY <1>2, <1>3 DEF DiscoveryInv, DeviceHolds, Steady
  <1>7. ParentsKnown'
      BY <1>1, <1>2, <1>3 DEF DiscoveryInv, ParentsKnown, Steady
  <1>8. SessionHolds'
    <2> SUFFICES ASSUME walker = "claude" PROVE SessionHolds'
        BY <1>3 DEF SessionHolds
    <2>1. \A f \in reported' : f.place \in DOMAIN Companion /\ Counted(f.place, f.payload, {})'
        BY <1>1, <1>2, ReportedStaysCounted DEF DiscoveryInv
    <2>2. NoOwn(agenda')
        BY <1>1 DEF NoOwn, Ahead
    <2>3. NoOwn(agenda)' /\ payload' = NoPayload
        BY <1>2, <2>2 DEF NoOwn, AheadOf
    <2> QED
        BY <2>1, <2>3 DEF SessionHolds
  <1> QED
      BY <1>4, <1>5, <1>6, <1>7, <1>8, GroundStays DEF DiscoveryInv

LEMMA RootIsQuiet ==
    ASSUME NEW t, NEW k, VisitRoot(t, k)
    PROVE  SaysNoMore /\ t.do = "root"
  BY DEF VisitRoot, Skips, GoesOn, Logs

LEMMA ListIsQuiet ==
    ASSUME NEW t, NEW k, ListDirectory(t, k)
    PROVE  SaysNoMore /\ t.do = "list"
  <1>1. \A tasks : GoesOn(t, tasks) => SaysNoMore
      BY DEF GoesOn
  <1>2. Unlisted(t) => SaysNoMore
      BY DEF Unlisted, Logs
  <1> QED
      BY <1>1, <1>2 DEF ListDirectory

-----------------------------------------------------------------------------
(* Discovery: the walk for Codex.                                          *)

LEMMA WayOfARollout ==
    ASSUME GroundHolds, walker = "codex", NEW t, t.place \in Spots, t.do \in {"visit", "list", "root"},
           NEW p \in Spots, WantedHere(p), Leads(t, p)
    PROVE  /\ Steady(t.place)
           /\ \/ t.place = p /\ p \in Rollouts /\ ground[p].kind = "file" /\ Followed(p) \in {"file", "denied"}
              \/ /\ t.place \in AboveOf[p] /\ ground[t.place].kind = "dir"
                 /\ Followed(t.place) \in {"dir", "denied"}
  <1>1. Steady(p) /\ ground[p].kind = "file" /\ p \in Rollouts
      BY WantedStands
  <1>2. CASE t.place = p
    <2>1. Look(p) \in {"denied", "file"}
        BY <1>1, SeenAsItIs
    <2> QED
        BY <1>1, <1>2, <2>1 DEF Followed
  <1>3. CASE t.place \in AboveOf[p]
      BY <1>1, <1>3, SteadyAbove, ListingOfADirectory
  <1> QED
      BY <1>2, <1>3 DEF Leads

LEMMA CodexVisitMoves ==
    ASSUME WalkTyped, GroundHolds, KindsAgree, Still, agenda # <<>>, NEW t \in Head(agenda),
           NEW k \in Kinds3 \cup Failures, CodexVisit(t, k)
    PROVE  SaysNoMore /\ \E tasks : Moves(t, tasks)
  <1>1. t \in TasksOf(walker) /\ Replaced(t, Rest(t), {}) /\ t \in Ahead
      BY RestReplaces
  <1>2. t.do = "visit" /\ t.place \in Spots /\ walker = "codex" /\ Said(Followed(t.place), k)
      BY <1>1, TheTask DEF CodexVisit
  <1>3. DosOf(walker) = {"root", "list", "visit", "measure", "parent"}
      BY <1>2, DosOfEach
  <1>4. ASSUME Skips(t), \A p \in Spots : ~ (WantedHere(p) /\ Leads(t, p))
        PROVE  SaysNoMore /\ Moves(t, {})
    <2>1. SaysNoMore /\ agenda' = Rest(t) /\ complete' = complete /\ reported' = reported
        BY <1>4 DEF Skips, Fine, SaysNoMore
    <2> QED
        BY <1>1, <1>4, <2>1 DEF Moves
  <1>5. ASSUME NEW do \in {"list", "measure"}, NEW p \in Spots,
               agenda' = Now({Task(do, t.place, k)}, t) \/ agenda' = Later(Task(do, t.place, k), t),
               Fine, SaysNoMore,
               do = "list" \/ \A q \in Spots : WantedHere(q) /\ Leads(t, q) => t.place = q
        PROVE  \E tasks : Moves(t, tasks)
    <2> DEFINE task == Task(do, t.place, k)
    <2>1. task \in TasksOf(walker)
        BY <1>2, <1>3, <1>5, TaskOfTheWalk
    <2>2. task.do = do /\ task.place = t.place /\ complete' = complete /\ reported' = reported
        BY <1>5, TasksAreRecords DEF Fine, SaysNoMore
    <2>3. agenda' = Now({task}, t) \/ agenda' = Later(task, t)
        BY <1>5
    <2> HIDE DEF task
    <2>4. ASSUME NEW q \in Spots, WantedHere(q), Leads(t, q) PROVE Leads(task, q)
      <3>1. CASE do = "list"
          BY <1>2, <2>2, <2>4, <3>1 DEF Leads
      <3>2. CASE do = "measure"
        <4>1. t.place = q
            BY <1>5, <2>4, <3>2
        <4> QED
            BY <1>2, <2>2, <3>2, <4>1 DEF Leads
      <3> QED
          BY <1>5, <3>1, <3>2
    <2>5. Moves(t, {task})
        BY <1>5, <2>1, <2>2, <2>3, <2>4, OneMove
    <2> QED
        BY <2>5
  <1>6. CASE k = "dir"
    <2>1. CASE t.kind \in Links3
      <3>1. Skips(t)
          BY <1>6, <2>1 DEF CodexVisit
      <3>2. \A p \in Spots : ~ (WantedHere(p) /\ Leads(t, p))
        <4> SUFFICES ASSUME NEW p \in Spots, WantedHere(p), Leads(t, p) PROVE FALSE
            OBVIOUS
        <4>1. Steady(t.place) /\ ground[t.place].kind \in {"file", "dir"}
            BY <1>2, WayOfARollout
        <4>2. t.kind = ground[t.place].kind
            BY <1>1, <1>2, <4>1 DEF KindsAgree
        <4> QED
            BY <2>1, <4>1, <4>2 DEF Links3
      <3> QED
          BY <1>4, <3>1, <3>2
    <2>2. CASE t.kind \notin Links3
      <3>1. agenda' = Later(Task("list", t.place, k), t) /\ Fine /\ SaysNoMore
          BY <1>6, <2>2 DEF CodexVisit
      <3> QED
          BY <1>2, <1>5, <3>1
    <2> QED
        BY <2>1, <2>2
  <1>7. CASE k = "file"
    <2>1. Followed(t.place) = "file"
        BY <1>2, <1>7, NoFailureIsSo
    <2>2. ASSUME NEW p \in Spots, WantedHere(p), Leads(t, p) PROVE t.place = p /\ p \in Rollouts
        BY <1>2, <2>1, <2>2, WayOfARollout
    <2>3. CASE t.place \in Rollouts
      <3>1. agenda' = Now({Task("measure", t.place, k)}, t) /\ Fine /\ SaysNoMore
          BY <1>7, <2>3 DEF CodexVisit, GoesOn
      <3> QED
          BY <1>2, <1>5, <2>2, <3>1
    <2>4. CASE t.place \notin Rollouts
      <3>1. Skips(t)
          BY <1>7, <2>4 DEF CodexVisit
      <3> QED
          BY <1>4, <2>2, <2>4, <3>1
    <2> QED
        BY <2>3, <2>4
  <1>8. CASE k = "absent"
    <2>1. Skips(t)
        BY <1>8 DEF CodexVisit
    <2>2. Followed(t.place) = "absent"
        BY <1>2, <1>8, NoFailureIsSo
    <2>3. \A p \in Spots : ~ (WantedHere(p) /\ Leads(t, p))
        BY <1>2, <2>2, WayOfARollout
    <2> QED
        BY <1>4, <2>1, <2>3
  <1>9. CASE k \notin {"dir", "file", "absent"}
    <2>1. Logs(t)
        BY <1>9 DEF CodexVisit
    <2>2. SaysNoMore /\ agenda' = Rest(t) /\ complete' # "complete" /\ reported' = reported
        BY <2>1 DEF Logs, Worse, SaysNoMore
    <2>3. Moves(t, {})
        BY <1>1, <2>2, NothingOfIt
    <2> QED
        BY <2>2, <2>3
  <1> QED
      BY <1>6, <1>7, <1>8, <1>9

LEMMA CodexMeasureMoves ==
    ASSUME WalkTyped, walker = "codex", agenda # <<>>, NEW t \in Head(agenda),
           NEW k \in Kinds3 \cup Failures, CodexMeasure(t, k)
    PROVE  SaysNoMore /\ \E tasks : Moves(t, tasks)
  <1>1. t \in TasksOf(walker) /\ Replaced(t, Rest(t), {})
      BY RestReplaces
  <1>2. t.do = "measure" /\ t.place \in Spots
      BY <1>1, TheTask DEF CodexMeasure
  <1>3. CASE k \in Failures
    <2>1. Logs(t)
        BY <1>3 DEF CodexMeasure
    <2>2. SaysNoMore /\ agenda' = Rest(t) /\ complete' # "complete" /\ reported' = reported
        BY <2>1 DEF Logs, Worse, SaysNoMore
    <2>3. Moves(t, {})
        BY <1>1, <2>2, NothingOfIt
    <2> QED
        BY <2>2, <2>3
  <1>4. CASE k \notin Failures
    <2> DEFINE task == Task("parent", t.place, k)
    <2>1. agenda' = Now({task}, t) /\ complete' = complete /\ reported' = reported /\ SaysNoMore
        BY <1>4 DEF CodexMeasure, GoesOn, Fine, SaysNoMore
    <2>2. task \in TasksOf(walker)
        BY <1>2, DosOfEach, TaskOfTheWalk
    <2>3. task.do = "parent" /\ task.place = t.place
        BY TasksAreRecords
    <2> HIDE DEF task
    <2>4. \A p \in Spots : Leads(t, p) => Leads(task, p)
        BY <1>2, <2>3 DEF Leads
    <2>5. Moves(t, {task})
        BY <2>1, <2>2, <2>3, <2>4, OneMove
    <2> QED
        BY <2>1, <2>5
  <1> QED
      BY <1>3, <1>4

LEMMA CodexParentKeeps ==
    ASSUME DiscoveryInv, Still, walker = "codex", agenda # <<>>, NEW t \in Head(agenda),
           NEW k \in Kinds3 \cup Failures, CodexParent(t, k)
    PROVE  DiscoveryInv'
  <1> DEFINE said == IF k = "file" /\ Look(t.place) = "file" THEN ground[t.place].parent ELSE "none"
             f == [place |-> t.place, parent |-> said, payload |-> NoPayload]
  <1>1. WalkTyped /\ GroundHolds
      BY DEF DiscoveryInv
  <1>2. t \in TasksOf(walker) /\ Replaced(t, Rest(t), {})
      BY <1>1, RestReplaces
  <1>3. t.do = "parent" /\ t.place \in Spots /\ Said(ReadOutcome(t.place), k)
      BY <1>1, <1>2, TheTask DEF CodexParent
  <1>4. /\ agenda' = Rest(t) /\ device' = device /\ payload' = payload
        /\ reported' = reported \cup {f}
        /\ IF k \in Failures THEN Worse ELSE Fine
      BY DEF CodexParent, Reports
  <1>5. (complete' = "complete" => complete = "complete") /\ (k \in Failures => complete' # "complete")
      BY <1>4 DEF Worse, Fine
  <1>6. said \in {"none", "s", "t"}
    <2>1. ground[t.place].parent \in {"none", "s", "t"}
        BY <1>1, <1>3, KindsOfGround DEF Nodes
    <2> QED
        BY <2>1
  <1>7. f.place = t.place /\ f.parent = said /\ f \in Findings
    <2>1. NoPayload \in Payloads
        BY DEF NoPayload, Payloads
    <2> HIDE DEF said
    <2> QED
        BY <1>3, <1>6, <2>1 DEF Findings
  <1>8. complete' = "complete" /\ Steady(t.place) => said = ground[t.place].parent
    <2> SUFFICES ASSUME k \notin Failures, Steady(t.place) PROVE said = ground[t.place].parent
        BY <1>5
    <2>1. k = ReadOutcome(t.place)
        BY <1>3, NoFailureIsSo DEF Failures
    <2>2. Look(t.place) \in {"denied", ground[t.place].kind} /\ ground[t.place].kind \in Kinds3
        BY <1>1, <1>3, SeenAsItIs, KindsOfGround DEF Steady
    <2>3. ground[t.place].kind # "file" => ground[t.place].parent = "none"
        BY <1>1, <1>3 DEF GroundHolds
    <2>4. Look(t.place) # "denied"
        BY <2>1 DEF ReadOutcome, Followed, Failures
    <2>5. Look(t.place) = "file" => k \in {"file", "denied"}
        BY <2>1 DEF ReadOutcome, Followed
    <2> QED
        BY <2>2, <2>3, <2>4, <2>5 DEF Failures
  <1> HIDE DEF said, f
  <1>9. Moves(t, {})
    <2>1. \A p \in Spots : Leads(t, p) => t.place = p
        BY <1>3 DEF Leads
    <2>2. \A p \in Spots : Leads(t, p) => \E g \in reported' : g.place = p
        BY <1>4, <1>7, <2>1
    <2> QED
        BY <1>2, <1>4, <1>5, <2>2 DEF Moves
  <1>10. walker' = walker /\ ground' = ground /\ disturbed' = disturbed /\ rewritten' = rewritten
      BY DEF Still
  <1>11. WalkTyped'
      BY <1>1, <1>2, <1>4, <1>7, <1>10 DEF WalkTyped, TasksOf, DosOf, Replaced
  <1>12. NothingMissed' /\ KindsAgree'
      BY <1>9, MovesMissesNothing DEF DiscoveryInv
  <1>13. ParentsKnown'
    <2> SUFFICES ASSUME complete' = "complete", NEW g \in reported', Steady(g.place)', g.place \notin rewritten
                 PROVE  g.parent = ground[g.place].parent
        BY <1>10 DEF ParentsKnown
    <2>1. CASE g \in reported
      <3>1. Steady(g.place)
          BY <1>10 DEF Steady
      <3> QED
          BY <1>5, <2>1, <3>1 DEF DiscoveryInv, ParentsKnown
    <2>2. CASE g = f
      <3>1. Steady(t.place)
          BY <1>7, <1>10, <2>2 DEF Steady
      <3> QED
          BY <1>7, <1>8, <2>2, <3>1
    <2> QED
        BY <1>4, <2>1, <2>2
  <1>14. DeviceHolds' /\ SessionHolds'
      BY <1>10 DEF DeviceHolds, SessionHolds
  <1> QED
      BY <1>1, <1>11, <1>12, <1>13, <1>14, GroundStays DEF DiscoveryInv

LEMMA CodexKeeps ==
    ASSUME DiscoveryInv, WalkStep, walker = "codex"
    PROVE  DiscoveryInv'
  <1>1. Still /\ agenda # <<>> /\ WalkTyped /\ GroundHolds /\ KindsAgree
      BY DEF WalkStep, Still, DiscoveryInv
  <1>2. PICK t \in Head(agenda) :
          \/ ClaudeVisit(t) \/ PayloadVisit(t) \/ (walker = "claude" /\ ClaudeReport(t))
          \/ \E k \in Kinds3 \cup Failures :
                \/ VisitRoot(t, k) \/ ListDirectory(t, k)
                \/ CodexVisit(t, k) \/ CodexMeasure(t, k) \/ CodexParent(t, k)
                \/ ClaudeStat(t, k) \/ ClaudeCompanion(t, k) \/ PayloadList(t, k) \/ PayloadStat(t, k)
                \/ InventoryVisit(t, k) \/ InventoryIdentity(t, k) \/ InventoryAllocation(t, k)
      BY DEF WalkStep
  <1>3. t.do \in {"root", "list", "visit", "measure", "parent"}
      BY <1>1, RestReplaces, TheTask, DosOfEach
  <1>4. PICK k \in Kinds3 \cup Failures :
            VisitRoot(t, k) \/ ListDirectory(t, k) \/ CodexVisit(t, k) \/ CodexMeasure(t, k) \/ CodexParent(t, k)
      BY <1>2, <1>3 DEF ClaudeVisit, PayloadVisit, ClaudeStat, ClaudeCompanion, PayloadList, PayloadStat,
         InventoryVisit, InventoryIdentity, InventoryAllocation
  <1>5. CASE CodexParent(t, k)
      BY <1>1, <1>5, CodexParentKeeps
  <1>6. CASE ~CodexParent(t, k)
    <2>1. SaysNoMore /\ \E tasks : Moves(t, tasks)
      <3>1. CASE VisitRoot(t, k)
          BY <1>1, <3>1, RootMoves, RootIsQuiet
      <3>2. CASE ListDirectory(t, k)
          BY <1>1, <3>2, ListMoves, ListIsQuiet
      <3>3. CASE CodexVisit(t, k)
          BY <1>1, <3>3, CodexVisitMoves
      <3>4. CASE CodexMeasure(t, k)
          BY <1>1, <3>4, CodexMeasureMoves
      <3> QED
          BY <1>4, <1>6, <3>1, <3>2, <3>3, <3>4
    <2>2. PICK tasks : Moves(t, tasks)
        BY <2>1
    <2> QED
        BY <1>1, <2>1, <2>2, QuietKeeps
  <1> QED
      BY <1>5, <1>6

-----------------------------------------------------------------------------
(* Discovery: the walk of the inventory.                                   *)

LEMMA RootOfTheScope ==
    ASSUME walker \in Walkers, walker = "inventory", GroundHolds
    PROVE  LET root == Roots3.inventory[1] IN
           /\ root \in Spots
           /\ \A t : IsRoot(t) <=> t.place = root
           /\ \A p \in Spots : WantedHere(p) => root \in {p} \cup AboveOf[p] /\ Steady(root)
  <1> DEFINE root == Roots3.inventory[1]
  <1>1. Roots3.inventory \in Seq(Spots) /\ Len(Roots3.inventory) = 1 /\ DOMAIN Roots3.inventory = {1}
      BY DiscoveryAssumption
  <1>2. root \in Spots
      BY <1>1
  <1>3. \A t : IsRoot(t) <=> t.place = root
      BY DEF IsRoot
  <1>4. ASSUME NEW p \in Spots, WantedHere(p) PROVE root \in {p} \cup AboveOf[p] /\ Steady(root)
    <2>1. root = p \/ p \in Below(root)
        BY <1>1, <1>4 DEF WantedHere, InTree
    <2> HIDE DEF root
    <2>2. root \in {p} \cup AboveOf[p]
        BY <2>1 DEF Below
    <2> QED
        BY <1>4, <2>2, SteadyAbove DEF WantedHere
  <1> QED
      BY <1>2, <1>3, <1>4

LEMMA InventoryVisitMoves ==
    ASSUME WalkTyped, walker = "inventory", agenda # <<>>, NEW t \in Head(agenda),
           NEW k \in Kinds3 \cup Failures, InventoryVisit(t, k)
    PROVE  SaysNoMore /\ \E tasks : Moves(t, tasks)
  <1>1. t \in TasksOf(walker) /\ Replaced(t, Rest(t), {})
      BY RestReplaces
  <1>2. t.do = "visit" /\ t.place \in Spots
      BY <1>1, TheTask DEF InventoryVisit
  <1>3. CASE k \in Failures
    <2>1. SaysNoMore /\ agenda' = Rest(t) /\ complete' # "complete" /\ reported' = reported
        BY <1>3 DEF InventoryVisit, Unknown3, Logs, Worse, SaysNoMore
    <2>2. Moves(t, {})
        BY <1>1, <2>1, NothingOfIt
    <2> QED
        BY <2>1, <2>2
  <1>4. CASE k \notin Failures
    <2> DEFINE task == Task("identity", t.place, k)
    <2>1. agenda' = Now({task}, t) /\ complete' = complete /\ reported' = reported /\ SaysNoMore
        BY <1>4 DEF InventoryVisit, GoesOn, Fine, SaysNoMore
    <2>2. task \in TasksOf(walker)
        BY <1>2, DosOfEach, TaskOfTheWalk
    <2>3. task.do = "identity" /\ task.place = t.place
        BY TasksAreRecords
    <2> HIDE DEF task
    <2>4. \A p \in Spots : Leads(t, p) => Leads(task, p)
        BY <1>2, <2>3 DEF Leads
    <2>5. Moves(t, {task})
        BY <2>1, <2>2, <2>3, <2>4, OneMove
    <2> QED
        BY <2>1, <2>5
  <1> QED
      BY <1>3, <1>4

LEMMA InventoryIdentityKeeps ==
    ASSUME DiscoveryInv, Still, walker = "inventory", agenda # <<>>, NEW t \in Head(agenda),
           NEW k \in Kinds3 \cup Failures, InventoryIdentity(t, k)
    PROVE  DiscoveryInv'
  <1> DEFINE root == Roots3.inventory[1]
             do   == IF Descends(t, k) THEN "allocation" ELSE "report"
             task == Task(do, t.place, k)
  <1>1. WalkTyped /\ GroundHolds /\ DeviceHolds /\ walker \in Walkers
      BY DEF DiscoveryInv, WalkTyped
  <1>2. t \in TasksOf(walker) /\ Replaced(t, Rest(t), {})
      BY <1>1, RestReplaces
  <1>3. t.do = "identity" /\ t.place \in Spots /\ Said(Look(t.place), k)
      BY <1>1, <1>2, TheTask DEF InventoryIdentity
  <1>4. /\ agenda' = Now({task}, t) /\ payload' = payload /\ reported' = reported
        /\ device' = IF IsRoot(t) /\ k \notin Failures THEN ground[t.place].device ELSE device
        /\ IF k \in Failures THEN Worse ELSE Fine
      BY DEF InventoryIdentity
  <1>5. (complete' = "complete" => complete = "complete") /\ (k \in Failures => complete' # "complete")
      BY <1>4 DEF Worse, Fine
  <1>6. do \in {"allocation", "report"} /\ do \in DosOf(walker)
      BY DosOfEach
  <1> HIDE DEF do
  <1>7. task \in TasksOf(walker) /\ task.do = do /\ task.place = t.place
      BY <1>3, <1>6, TaskOfTheWalk, TasksAreRecords
  <1> HIDE DEF task
  <1>8. ASSUME NEW p \in Spots, complete' = "complete", WantedHere(p), Leads(t, p)
        PROVE  Leads(task, p)
    <2>1. t.place \in {p} \cup AboveOf[p]
        BY <1>3, <1>8 DEF Leads
    <2>2. CASE t.place = p
        BY <1>6, <1>7, <2>2 DEF Leads
    <2>3. CASE t.place \in AboveOf[p]
      <3>1. k = Look(t.place) /\ k \notin Failures
          BY <1>3, <1>5, <1>8, NoFailureIsSo DEF Failures
      <3>2. Look(t.place) \in {"dir", "denied"}
          BY <1>1, <1>8, <2>3, SteadyAbove, ListingOfADirectory DEF WantedHere
      <3>3. k = "dir"
          BY <3>1, <3>2 DEF Failures
      <3>4. ground[t.place].device = ground[root].device /\ Steady(root)
          BY <1>1, <1>8, <2>3, WantedStands, RootOfTheScope
      <3>5. device \in {Nowhere, ground[root].device}
          BY <1>1, <3>4 DEF DeviceHolds
      <3>6. Descends(t, k)
          BY <3>3, <3>4, <3>5 DEF Descends
      <3> QED
          BY <1>7, <2>3, <3>6 DEF Leads, do
    <2> QED
        BY <2>1, <2>2, <2>3
  <1>9. Moves(t, {task})
      BY <1>1, <1>4, <1>5, <1>6, <1>7, <1>8, OneMove
  <1>10. walker' = walker /\ ground' = ground /\ disturbed' = disturbed /\ rewritten' = rewritten
      BY DEF Still
  <1>11. WalkTyped'
      BY <1>1, <1>4, <1>9, <1>10 DEF WalkTyped, TasksOf, DosOf, Replaced, Moves
  <1>12. NothingMissed' /\ KindsAgree'
      BY <1>9, MovesMissesNothing DEF DiscoveryInv
  <1>13. DeviceHolds'
    <2> SUFFICES ASSUME Steady(root)' PROVE device' \in {Nowhere, ground[root].device}
        BY <1>10 DEF DeviceHolds
    <2>1. Steady(root)
        BY <1>10 DEF Steady
    <2>2. device \in {Nowhere, ground[root].device}
        BY <1>1, <2>1 DEF DeviceHolds
    <2>3. IsRoot(t) => t.place = root
        BY DEF IsRoot
    <2> QED
        BY <1>4, <2>2, <2>3
  <1>14. ParentsKnown' /\ SessionHolds'
      BY <1>10 DEF ParentsKnown, SessionHolds
  <1> QED
      BY <1>1, <1>11, <1>12, <1>13, <1>14, GroundStays DEF DiscoveryInv

LEMMA InventoryAllocationKeeps ==
    ASSUME DiscoveryInv, Still, walker = "inventory", agenda # <<>>, NEW t \in Head(agenda),
           NEW k \in Kinds3 \cup Failures, InventoryAllocation(t, k)
    PROVE  DiscoveryInv'
  <1> DEFINE task == Task("list", t.place, k)
             tasks == IF t.do = "allocation" THEN {task} ELSE {}
             f == [place |-> t.place, parent |-> "none", payload |-> NoPayload]
  <1>1. WalkTyped /\ GroundHolds /\ DeviceHolds
      BY DEF DiscoveryInv
  <1>2. t \in TasksOf(walker)
      BY <1>1, RestReplaces
  <1>3. t.do \in {"allocation", "report"} /\ t.place \in Spots
      BY <1>1, <1>2, TheTask DEF InventoryAllocation
  <1>4. /\ agenda' = Now(tasks, t) /\ device' = device /\ payload' = payload
        /\ reported' = reported \cup {f}
        /\ IF k \in Failures THEN Worse ELSE Fine
      BY DEF InventoryAllocation, Reports
  <1>5. complete' = "complete" => complete = "complete"
      BY <1>4 DEF Worse, Fine
  <1>6. f.place = t.place /\ f \in Findings
    <2>1. NoPayload \in Payloads
        BY DEF NoPayload, Payloads
    <2> QED
        BY <1>3, <2>1 DEF Findings
  <1>7. task \in TasksOf(walker) /\ task.do = "list" /\ task.place = t.place
    <2>1. "list" \in DosOf(walker)
        BY DosOfEach
    <2>2. task \in TasksOf(walker)
        BY <1>3, <2>1, TaskOfTheWalk
    <2> QED
        BY <2>2, TasksAreRecords
  <1> HIDE DEF task, f
  <1>8. tasks \in SUBSET TasksOf(walker) /\ \A s \in tasks : s.do = "list"
      BY <1>7
  <1>9. Replaced(t, agenda', tasks)
      BY <1>1, <1>4, <1>8, NowReplaces
  <1>10. ASSUME NEW p \in Spots, Leads(t, p)
         PROVE  (\E g \in reported' : g.place = p) \/ \E s \in tasks : Leads(s, p)
    <2>1. t.place = p \/ (t.do = "allocation" /\ t.place \in AboveOf[p])
        BY <1>3, <1>10 DEF Leads
    <2>2. CASE t.place = p
        BY <1>4, <1>6, <2>2
    <2>3. CASE t.do = "allocation" /\ t.place \in AboveOf[p]
      <3>1. Leads(task, p)
          BY <1>7, <2>3 DEF Leads
      <3> QED
          BY <2>3, <3>1
    <2> QED
        BY <2>1, <2>2, <2>3
  <1> HIDE DEF tasks
  <1>11. Moves(t, tasks)
      BY <1>4, <1>5, <1>8, <1>9, <1>10 DEF Moves
  <1>12. walker' = walker /\ ground' = ground /\ disturbed' = disturbed /\ rewritten' = rewritten
      BY DEF Still
  <1>13. WalkTyped'
      BY <1>1, <1>4, <1>6, <1>9, <1>12 DEF WalkTyped, TasksOf, DosOf, Replaced
  <1>14. NothingMissed' /\ KindsAgree'
      BY <1>11, MovesMissesNothing DEF DiscoveryInv
  <1>15. DeviceHolds'
      BY <1>1, <1>4, <1>12 DEF DeviceHolds, Steady
  <1>16. ParentsKnown' /\ SessionHolds'
      BY <1>12 DEF ParentsKnown, SessionHolds
  <1> QED
      BY <1>1, <1>13, <1>14, <1>15, <1>16, GroundStays DEF DiscoveryInv

LEMMA InventoryKeeps ==
    ASSUME DiscoveryInv, WalkStep, walker = "inventory"
    PROVE  DiscoveryInv'
  <1>1. Still /\ agenda # <<>> /\ WalkTyped /\ GroundHolds /\ KindsAgree
      BY DEF WalkStep, Still, DiscoveryInv
  <1>2. PICK t \in Head(agenda) :
          \/ ClaudeVisit(t) \/ PayloadVisit(t) \/ (walker = "claude" /\ ClaudeReport(t))
          \/ \E k \in Kinds3 \cup Failures :
                \/ VisitRoot(t, k) \/ ListDirectory(t, k)
                \/ CodexVisit(t, k) \/ CodexMeasure(t, k) \/ CodexParent(t, k)
                \/ ClaudeStat(t, k) \/ ClaudeCompanion(t, k) \/ PayloadList(t, k) \/ PayloadStat(t, k)
                \/ InventoryVisit(t, k) \/ InventoryIdentity(t, k) \/ InventoryAllocation(t, k)
      BY DEF WalkStep
  <1>3. t.do \in {"list", "visit", "identity", "allocation", "report"}
      BY <1>1, RestReplaces, TheTask, DosOfEach
  <1>4. PICK k \in Kinds3 \cup Failures :
            ListDirectory(t, k) \/ InventoryVisit(t, k) \/ InventoryIdentity(t, k) \/ InventoryAllocation(t, k)
      BY <1>2, <1>3 DEF ClaudeVisit, PayloadVisit, ClaudeStat, ClaudeCompanion, PayloadList, PayloadStat,
         VisitRoot, CodexVisit, CodexMeasure, CodexParent
  <1>5. CASE ListDirectory(t, k) \/ InventoryVisit(t, k)
    <2>1. SaysNoMore /\ \E tasks : Moves(t, tasks)
        BY <1>1, <1>5, ListMoves, ListIsQuiet, InventoryVisitMoves
    <2>2. PICK tasks : Moves(t, tasks)
        BY <2>1
    <2> QED
        BY <1>1, <2>1, <2>2, QuietKeeps
  <1> QED
      BY <1>1, <1>4, <1>5, InventoryIdentityKeeps, InventoryAllocationKeeps

-----------------------------------------------------------------------------
(* Discovery: the order of the calls of one session.                       *)

LEMMA OrderedOnTop ==
    ASSUME NEW T, NEW calls \in Seq(SUBSET T), NEW r, Ordered(calls, r), NEW tasks \in SUBSET T,
           \A s \in tasks : s.do \in OfPayload
    PROVE  Ordered(<<tasks>> \o calls, r)
  <1> DEFINE new == <<tasks>> \o calls
             L == Len(calls)
  <1>1. /\ new \in Seq(SUBSET T) /\ Len(new) = L + 1 /\ new[1] = tasks
        /\ \A n \in DOMAIN calls : new[n + 1] = calls[n]
      BY OnTop
  <1>2. L \in Nat /\ DOMAIN calls = 1 .. L /\ DOMAIN new = 1 .. (L + 1)
      BY <1>1
  <1> HIDE DEF new, L
  <1>3. PICK m \in DOMAIN calls :
            /\ calls[m] = {r}
            /\ \A n \in DOMAIN calls : n < m => \A t \in calls[n] : t.do \in OfPayload
            /\ \A n \in DOMAIN calls : n > m => \A t \in calls[n] : t.do \notin OfPayload \cup {"report"}
      BY DEF Ordered
  <1>4. m + 1 \in DOMAIN new /\ new[m + 1] = {r}
      BY <1>1, <1>2, <1>3
  <1>5. ASSUME NEW n \in DOMAIN new, n # 1 PROVE n - 1 \in DOMAIN calls /\ new[n] = calls[n - 1]
    <2>1. n - 1 \in DOMAIN calls /\ (n - 1) + 1 = n
        BY <1>2, <1>5
    <2> QED
        BY <1>1, <2>1
  <1>6. ASSUME NEW n \in DOMAIN new, n < m + 1 PROVE \A t \in new[n] : t.do \in OfPayload
    <2>1. CASE n = 1
        BY <1>1, <2>1
    <2>2. CASE n # 1
      <3>1. n - 1 < m
          BY <1>2, <1>3, <1>6
      <3> QED
          BY <1>3, <1>5, <2>2, <3>1
    <2> QED
        BY <2>1, <2>2
  <1>7. ASSUME NEW n \in DOMAIN new, n > m + 1
        PROVE  \A t \in new[n] : t.do \notin OfPayload \cup {"report"}
    <2>1. n # 1 /\ n - 1 > m
        BY <1>2, <1>3, <1>7
    <2> QED
        BY <1>3, <1>5, <2>1
  <1>8. Ordered(new, r)
      BY <1>4, <1>6, <1>7 DEF Ordered
  <1> QED
      BY <1>8 DEF new

\* The report comes before the calls of no session.
LEMMA OrderedFirst ==
    ASSUME NEW T, NEW calls \in Seq(SUBSET T), NoOwn(calls), NEW r \in T
    PROVE  Ordered(<<{r}>> \o calls, r)
  <1> DEFINE new == <<{r}>> \o calls
             only == {r}
             L == Len(calls)
  <1>1. only \in SUBSET T
      OBVIOUS
  <1>2. /\ new \in Seq(SUBSET T) /\ Len(new) = L + 1 /\ new[1] = {r}
        /\ \A n \in DOMAIN calls : new[n + 1] = calls[n]
    <2> HIDE DEF only, L
    <2>1. /\ <<only>> \o calls \in Seq(SUBSET T) /\ Len(<<only>> \o calls) = Len(calls) + 1
          /\ (<<only>> \o calls)[1] = only
          /\ \A n \in DOMAIN calls : (<<only>> \o calls)[n + 1] = calls[n]
        BY <1>1, OnTop
    <2> QED
        BY <2>1 DEF only, L
  <1>3. L \in Nat /\ DOMAIN calls = 1 .. L /\ DOMAIN new = 1 .. (L + 1)
      BY <1>2
  <1> HIDE DEF new, L, only
  <1>4. ASSUME NEW n \in DOMAIN new, n > 1
        PROVE  \A t \in new[n] : t.do \notin OfPayload \cup {"report"}
    <2>1. n - 1 \in DOMAIN calls /\ (n - 1) + 1 = n
        BY <1>3, <1>4
    <2>2. new[n] = calls[n - 1]
        BY <1>2, <2>1
    <2> QED
        BY <2>1, <2>2 DEF NoOwn, AheadOf
  <1>5. 1 \in DOMAIN new /\ \A n \in DOMAIN new : ~(n < 1)
      BY <1>3
  <1>6. Ordered(new, r)
      BY <1>2, <1>4, <1>5 DEF Ordered
  <1> QED
      BY <1>6 DEF new

LEMMA OrderedNext ==
    ASSUME NEW T, NEW calls \in Seq(SUBSET T), calls # <<>>, NEW r, Ordered(calls, r), r.do = "report"
    PROVE  \/ Head(calls) = {r} /\ NoOwn(Tail(calls))
           \/ Ordered(Tail(calls), r) /\ \A s \in Head(calls) : s.do \in OfPayload
  <1> DEFINE rest == Tail(calls)
             L == Len(calls)
  <1>1. /\ rest \in Seq(SUBSET T) /\ Len(rest) = L - 1 /\ L > 0 /\ Head(calls) = calls[1]
        /\ \A n \in DOMAIN rest : rest[n] = calls[n + 1]
      BY TopOff
  <1>2. L \in Nat /\ DOMAIN calls = 1 .. L /\ DOMAIN rest = 1 .. (L - 1)
      BY <1>1
  <1> HIDE DEF rest, L
  <1>3. PICK m \in DOMAIN calls :
            /\ calls[m] = {r}
            /\ \A n \in DOMAIN calls : n < m => \A t \in calls[n] : t.do \in OfPayload
            /\ \A n \in DOMAIN calls : n > m => \A t \in calls[n] : t.do \notin OfPayload \cup {"report"}
      BY DEF Ordered
  <1>4. \A n \in DOMAIN rest : n + 1 \in DOMAIN calls /\ rest[n] = calls[n + 1]
      BY <1>1, <1>2
  <1>5. CASE m = 1
    <2>1. \A n \in DOMAIN rest : \A t \in rest[n] : t.do \notin OfPayload \cup {"report"}
      <3> SUFFICES ASSUME NEW n \in DOMAIN rest PROVE \A t \in rest[n] : t.do \notin OfPayload \cup {"report"}
          OBVIOUS
      <3>1. n + 1 > m
          BY <1>2, <1>5
      <3> QED
          BY <1>3, <1>4, <3>1
    <2>2. NoOwn(rest)
        BY <2>1 DEF NoOwn, AheadOf
    <2> QED
        BY <1>1, <1>3, <1>5, <2>2 DEF rest
  <1>6. CASE m # 1
    <2>1. m - 1 \in DOMAIN rest /\ (m - 1) + 1 = m
        BY <1>2, <1>3, <1>6
    <2>2. rest[m - 1] = {r}
        BY <1>3, <1>4, <2>1
    <2>3. ASSUME NEW n \in DOMAIN rest, n < m - 1 PROVE \A t \in rest[n] : t.do \in OfPayload
      <3>1. n + 1 < m
          BY <1>2, <1>3, <2>3
      <3> QED
          BY <1>3, <1>4, <3>1
    <2>4. ASSUME NEW n \in DOMAIN rest, n > m - 1 PROVE \A t \in rest[n] : t.do \notin OfPayload \cup {"report"}
      <3>1. n + 1 > m
          BY <1>2, <1>3, <2>4
      <3> QED
          BY <1>3, <1>4, <3>1
    <2>5. Ordered(rest, r)
        BY <2>1, <2>2, <2>3, <2>4 DEF Ordered
    <2>6. 1 \in DOMAIN calls /\ 1 < m
        BY <1>1, <1>2, <1>3, <1>6
    <2>7. \A s \in Head(calls) : s.do \in OfPayload
        BY <1>1, <1>3, <2>6
    <2> QED
        BY <2>5, <2>7 DEF rest
  <1> QED
      BY <1>5, <1>6

\* While calls of the companion go on, the report is still to come.
LEMMA PayloadOrder ==
    ASSUME WalkTyped, agenda # <<>>, NEW t \in Head(agenda), t.do \in OfPayload,
           NEW r, Ordered(agenda, r), r.do = "report"
    PROVE  /\ Ordered(Rest(t), r)
           /\ \A tasks \in SUBSET TasksOf(walker) :
                 (\A s \in tasks : s.do \in OfPayload) => Ordered(Now(tasks, t), r)
           /\ \A task \in TasksOf(walker) : task.do \in OfPayload => Ordered(Later(task, t), r)
  <1> DEFINE T == TasksOf(walker)
             left == Head(agenda) \ {t}
  <1>1. agenda \in Seq(SUBSET T) /\ Rest(t) \in Seq(SUBSET T)
      BY RestReplaces DEF WalkTyped, Replaced
  <1> HIDE DEF T
  <1>2. Tail(agenda) \in Seq(SUBSET T) /\ left \in SUBSET T
      BY <1>1, TopOff
  <1>3. ~(Head(agenda) = {r})
    <2> SUFFICES ASSUME Head(agenda) = {r} PROVE FALSE
        OBVIOUS
    <2>1. t = r
        OBVIOUS
    <2> QED
        BY <2>1 DEF OfPayload
  <1>4. Ordered(Tail(agenda), r) /\ \A s \in left : s.do \in OfPayload
      BY <1>1, <1>3, OrderedNext
  <1>5. Ordered(<<left>> \o Tail(agenda), r)
      BY <1>2, <1>4, OrderedOnTop
  <1>6. Ordered(Rest(t), r)
    <2>1. CASE left = {}
        BY <1>4, <2>1 DEF Rest
    <2>2. CASE left # {}
        BY <1>5, <2>2 DEF Rest
    <2> QED
        BY <2>1, <2>2
  <1>7. ASSUME NEW tasks \in SUBSET T, \A s \in tasks : s.do \in OfPayload
        PROVE  Ordered(Now(tasks, t), r)
    <2>1. CASE tasks = {}
      <3>1. Now(tasks, t) = Rest(t)
          BY <1>1, <2>1 DEF Now
      <3> QED
          BY <1>6, <3>1
    <2>2. CASE tasks # {}
      <3>1. Now(tasks, t) = <<tasks>> \o Rest(t)
          BY <2>2 DEF Now
      <3>2. Ordered(<<tasks>> \o Rest(t), r)
          BY <1>1, <1>6, <1>7, OrderedOnTop
      <3> QED
          BY <3>1, <3>2
    <2> QED
        BY <2>1, <2>2
  <1>8. ASSUME NEW task \in T, task.do \in OfPayload
        PROVE  Ordered(Later(task, t), r)
    <2> DEFINE one == {task}
               after == <<one>> \o Tail(agenda)
    <2>1. one \in SUBSET T /\ \A s \in one : s.do \in OfPayload
        BY <1>8
    <2>2. <<left, one>> \o Tail(agenda) = <<left>> \o (<<one>> \o Tail(agenda))
      <3> HIDE DEF left, one
      <3> QED
          BY <1>2, <2>1, TwoOnTop
    <2> HIDE DEF one
    <2>3. after \in Seq(SUBSET T) /\ Ordered(after, r)
        BY <1>2, <1>4, <2>1, OnTop, OrderedOnTop
    <2> HIDE DEF after
    <2>4. Ordered(<<left>> \o after, r)
        BY <1>2, <1>4, <2>3, OrderedOnTop
    <2>5. CASE Head(agenda) = {t}
        BY <2>3, <2>5 DEF Later, after, one
    <2>6. CASE Head(agenda) # {t}
      <3>1. Later(task, t) = <<left, one>> \o Tail(agenda)
          BY <2>6 DEF Later, one
      <3> QED
          BY <2>2, <2>4, <3>1 DEF after
    <2> QED
        BY <2>5, <2>6
  <1> QED
      BY <1>6, <1>7, <1>8 DEF T

-----------------------------------------------------------------------------
(* Discovery: the walk for Claude.                                         *)

LEMMA WayOfASession ==
    ASSUME GroundHolds, walker = "claude", walker \in Walkers, NEW t, t.place \in Spots,
           NEW p \in Spots, WantedHere(p), t.place \in {p, InDirectory[p]}
    PROVE  /\ Steady(t.place)
           /\ \/ /\ t.place = p /\ ground[p].kind = "file" /\ p \in DOMAIN Companion
                 /\ InDirectory[p] # Roots3.claude[1]
              \/ /\ t.place = InDirectory[p] /\ ground[t.place].kind = "dir" /\ t.place # p
                 /\ InDirectory[t.place] = Roots3.claude[1]
  <1> DEFINE root == Roots3.claude[1]
  <1>1. /\ Steady(p) /\ ground[p].kind = "file" /\ p \in DOMAIN Companion
        /\ Steady(InDirectory[p]) /\ ground[InDirectory[p]].kind = "dir"
        /\ InDirectory[InDirectory[p]] = root
      BY WantedStands
  <1>2. root \in Spots
      BY RootOfTheWanted
  <1>3. InDirectory[p] # root
    <2> SUFFICES ASSUME InDirectory[p] = root PROVE FALSE
        OBVIOUS
    <2>1. InDirectory[root] = root
        BY <1>1
    <2>2. root \in AboveOf[root]
        BY <1>2, <2>1, AboveIsClosed, DiscoveryAssumption
    <2> QED
        BY <1>2, <2>2, DiscoveryAssumption
  <1> QED
      BY <1>1, <1>3

LEMMA ClaudeVisitMoves ==
    ASSUME WalkTyped, GroundHolds, KindsAgree, Still, agenda # <<>>, NEW t \in Head(agenda), ClaudeVisit(t)
    PROVE  SaysNoMore /\ \E tasks : Moves(t, tasks) /\ \A s \in tasks : s.do \in {"list", "stat"}
  <1>1. t \in TasksOf(walker) /\ Replaced(t, Rest(t), {}) /\ t \in Ahead
      BY RestReplaces
  <1>2. t.do = "visit" /\ t.place \in Spots /\ walker = "claude" /\ walker \in Walkers
      BY <1>1, TheTask DEF ClaudeVisit, WalkTyped
  <1>3. t.kind \in Kinds3 \cup Failures /\ "list" \in DosOf(walker) /\ "stat" \in DosOf(walker)
      BY <1>1, <1>2, TheTask, DosOfEach
  <1>4. ASSUME NEW p \in Spots, WantedHere(p), Leads(t, p)
        PROVE  /\ t.kind = ground[t.place].kind
               /\ \/ /\ t.place = p /\ ground[p].kind = "file" /\ p \in DOMAIN Companion
                     /\ InDirectory[p] # Roots3.claude[1]
                  \/ /\ t.place = InDirectory[p] /\ ground[t.place].kind = "dir" /\ t.place # p
                     /\ InDirectory[t.place] = Roots3.claude[1]
    <2>1. t.place \in {p, InDirectory[p]}
        BY <1>2, <1>4 DEF Leads
    <2>2. Steady(t.place)
        BY <1>2, <1>4, <2>1, WayOfASession
    <2>3. t.kind = ground[t.place].kind
        BY <1>1, <1>2, <2>2 DEF KindsAgree
    <2> QED
        BY <1>2, <1>4, <2>1, <2>3, WayOfASession
  <1>5. ASSUME Skips(t), \A p \in Spots : ~ (WantedHere(p) /\ Leads(t, p))
        PROVE  SaysNoMore /\ Moves(t, {})
    <2>1. SaysNoMore /\ agenda' = Rest(t) /\ complete' = complete /\ reported' = reported
        BY <1>5 DEF Skips, Fine, SaysNoMore
    <2> QED
        BY <1>1, <1>5, <2>1 DEF Moves
  <1>6. CASE InDirectory[t.place] = Roots3.claude[1] /\ t.kind = "dir"
    <2> DEFINE task == Task("list", t.place, t.kind)
    <2>1. agenda' = Now({task}, t) /\ complete' = complete /\ reported' = reported /\ SaysNoMore
        BY <1>6 DEF ClaudeVisit, GoesOn, Fine, SaysNoMore
    <2>2. task \in TasksOf(walker)
      <3>1. "list" \notin OfSession
          BY DEF OfSession
      <3> QED
          BY <1>2, <1>3, <3>1, TaskOfTheWalk
    <2>3. task.do = "list" /\ task.place = t.place
        BY TasksAreRecords
    <2> HIDE DEF task
    <2>4. ASSUME NEW p \in Spots, WantedHere(p), Leads(t, p) PROVE Leads(task, p)
      <3>1. t.place = InDirectory[p]
          BY <1>4, <1>6, <2>4
      <3> QED
          BY <1>2, <2>3, <3>1, LeadsOfClaude
    <2>5. Moves(t, {task})
        BY <2>1, <2>2, <2>3, <2>4, OneMove
    <2> QED
        BY <2>1, <2>3, <2>5
  <1>7. CASE /\ InDirectory[t.place] # Roots3.claude[1] /\ t.kind = "file" /\ t.place \in DOMAIN Companion
    <2> DEFINE task == Task("stat", t.place, t.kind)
    <2>1. agenda' = Now({task}, t) /\ complete' = complete /\ reported' = reported /\ SaysNoMore
        BY <1>7 DEF ClaudeVisit, GoesOn, Fine, SaysNoMore
    <2>2. task \in TasksOf(walker)
        BY <1>2, <1>3, <1>7, TaskOfTheWalk
    <2>3. task.do = "stat" /\ task.place = t.place
        BY TasksAreRecords
    <2> HIDE DEF task
    <2>4. ASSUME NEW p \in Spots, WantedHere(p), Leads(t, p) PROVE Leads(task, p)
      <3>1. t.place = p
          BY <1>4, <1>7, <2>4
      <3> QED
          BY <1>2, <2>3, <3>1, LeadsOfClaude
    <2>5. Moves(t, {task})
        BY <2>1, <2>2, <2>3, <2>4, OneMove
    <2> QED
        BY <2>1, <2>3, <2>5
  <1>8. CASE /\ ~(InDirectory[t.place] = Roots3.claude[1] /\ t.kind = "dir")
             /\ ~(/\ InDirectory[t.place] # Roots3.claude[1] /\ t.kind = "file"
                  /\ t.place \in DOMAIN Companion)
    <2>1. Skips(t)
        BY <1>8 DEF ClaudeVisit
    <2>2. \A p \in Spots : ~ (WantedHere(p) /\ Leads(t, p))
        BY <1>4, <1>8
    <2> QED
        BY <1>5, <2>1, <2>2
  <1> QED
      BY <1>6, <1>7, <1>8

LEMMA ClaudeStatMoves ==
    ASSUME WalkTyped, walker = "claude", agenda # <<>>, NEW t \in Head(agenda), payload = NoPayload,
           NEW k \in Kinds3 \cup Failures, ClaudeStat(t, k)
    PROVE  SaysNoMore /\ \E tasks : Moves(t, tasks) /\ \A s \in tasks : s.do = "companion"
  <1>1. t \in TasksOf(walker) /\ Replaced(t, Rest(t), {})
      BY RestReplaces
  <1>2. t.do = "stat" /\ t.place \in Spots /\ t.place \in DOMAIN Companion
      BY <1>1, TheTask DEF ClaudeStat, OfSession
  <1>3. CASE k \in Failures
    <2>1. Logs(t)
        BY <1>3 DEF ClaudeStat
    <2>2. SaysNoMore /\ agenda' = Rest(t) /\ complete' # "complete" /\ reported' = reported
        BY <2>1 DEF Logs, Worse, SaysNoMore
    <2>3. Moves(t, {})
        BY <1>1, <2>2, NothingOfIt
    <2> QED
        BY <2>2, <2>3
  <1>4. CASE k \notin Failures
    <2> DEFINE task == Task("companion", t.place, k)
    <2>1. agenda' = Now({task}, t) /\ complete' = complete /\ reported' = reported /\ SaysNoMore
        BY <1>4 DEF ClaudeStat, Fine, SaysNoMore
    <2>2. task \in TasksOf(walker)
        BY <1>2, DosOfEach, TaskOfTheWalk
    <2>3. task.do = "companion" /\ task.place = t.place
        BY TasksAreRecords
    <2> HIDE DEF task
    <2>4. ASSUME NEW p \in Spots, WantedHere(p), Leads(t, p) PROVE Leads(task, p)
      <3>1. t.place = p
          BY <1>2, <2>4 DEF Leads
      <3> QED
          BY <2>3, <3>1, LeadsOfClaude
    <2>5. Moves(t, {task})
        BY <2>1, <2>2, <2>3, <2>4, OneMove
    <2> QED
        BY <2>1, <2>3, <2>5
  <1> QED
      BY <1>3, <1>4

\* Before its report, nothing of a session was counted.
LEMMA ClaudeCompanionKeeps ==
    ASSUME DiscoveryInv, Still, walker = "claude", agenda # <<>>, NEW t \in Head(agenda),
           NoOwn(agenda), payload = NoPayload, NEW k \in Kinds3 \cup Failures, ClaudeCompanion(t, k)
    PROVE  DiscoveryInv'
  <1> DEFINE companion == Companion[t.place]
             r  == Task("report", t.place, t.kind)
             go == Task("payload_list", companion, k)
             T  == TasksOf(walker)
  <1>1. WalkTyped /\ GroundHolds /\ agenda \in Seq(SUBSET T)
      BY DEF DiscoveryInv, WalkTyped
  <1>2. t \in T /\ Replaced(t, Rest(t), {})
      BY <1>1, RestReplaces
  <1>3. t.do = "companion" /\ t.place \in Spots /\ t.place \in DOMAIN Companion /\ t.kind \in Kinds3 \cup Failures
      BY <1>1, <1>2, TheTask DEF ClaudeCompanion, OfSession
  <1>4. companion \in Spots /\ Said(Look(companion), k)
      BY <1>3, DiscoveryAssumption DEF ClaudeCompanion
  <1>5. /\ IF k = "dir"
           THEN /\ agenda' = <<{go}, {r}>> \o Rest(t)
                /\ payload' = [payload EXCEPT !.companion = TRUE]
           ELSE agenda' = Now({r}, t) /\ payload' = payload
        /\ IF k \in {"denied", "io"} THEN Worse ELSE Fine
        /\ device' = device /\ reported' = reported
      BY DEF ClaudeCompanion
  <1>6. (complete' = "complete" => complete = "complete")
        /\ (k \in {"denied", "io"} => complete' # "complete")
      BY <1>5 DEF Worse, Fine
  <1>7. r \in T /\ r.do = "report" /\ r.place = t.place
    <2>1. "report" \in DosOf(walker)
        BY DosOfEach
    <2> QED
        BY <1>3, <2>1, TaskOfTheWalk, TasksAreRecords
  <1>8. go \in T /\ go.do = "payload_list" /\ go.place = companion
    <2>1. "payload_list" \in DosOf(walker) /\ "payload_list" \notin OfSession
        BY DosOfEach DEF OfSession
    <2> QED
        BY <1>4, <2>1, TaskOfTheWalk, TasksAreRecords
  <1>9. NoOwn(Rest(t)) /\ Rest(t) \in Seq(SUBSET T)
      BY <1>2 DEF NoOwn, Replaced, Ahead
  <1> HIDE DEF T, r, go
  <1> DEFINE one == {r}
             after == <<one>> \o Rest(t)
  <1>10. /\ after \in Seq(SUBSET T) /\ AheadOf(after) = one \cup AheadOf(Rest(t)) /\ Ordered(after, r)
    <2>1. one \in SUBSET T
        BY <1>7
    <2>2. Ordered(<<{r}>> \o Rest(t), r)
        BY <1>7, <1>9, OrderedFirst
    <2>3. Ordered(after, r)
        BY <2>2
    <2> HIDE DEF one
    <2> QED
        BY <1>9, <2>1, <2>3, OnTop
  <1>11. PICK tasks \in SUBSET T :
            /\ one \subseteq tasks /\ tasks \subseteq {r, go} /\ (k = "dir" => go \in tasks)
            /\ agenda' \in Seq(SUBSET T) /\ AheadOf(agenda') = tasks \cup AheadOf(Rest(t))
            /\ Ordered(agenda', r)
    <2>1. CASE k = "dir"
      <3> DEFINE first == {go}
      <3>1. first \in SUBSET T /\ one \in SUBSET T /\ \A s \in first : s.do \in OfPayload
          BY <1>7, <1>8 DEF OfPayload
      <3>2. agenda' = <<first, one>> \o Rest(t)
          BY <1>5, <2>1
      <3> HIDE DEF first, one
      <3>3. agenda' = <<first>> \o after
          BY <1>9, <3>1, <3>2, TwoOnTop
      <3> HIDE DEF after
      <3>4. <<first>> \o after \in Seq(SUBSET T) /\ AheadOf(<<first>> \o after) = first \cup AheadOf(after)
          BY <1>10, <3>1, OnTop
      <3>5. Ordered(<<first>> \o after, r)
          BY <1>10, <3>1, OrderedOnTop
      <3>6. first \cup one \in SUBSET T
          BY <3>1
      <3>7. AheadOf(agenda') = (first \cup one) \cup AheadOf(Rest(t))
          BY <1>10, <3>3, <3>4
      <3>8. agenda' \in Seq(SUBSET T) /\ Ordered(agenda', r)
          BY <3>3, <3>4, <3>5
      <3>9. go \in first \cup one /\ first \cup one \subseteq {r, go}
          BY DEF first, one
      <3> QED
          BY <3>6, <3>7, <3>8, <3>9
    <2>2. CASE k # "dir"
      <3>1. agenda' = after
          BY <1>5, <2>2 DEF Now
      <3>2. one \in SUBSET T /\ one \subseteq {r, go}
          BY <1>7
      <3> HIDE DEF after, one
      <3> QED
          BY <1>10, <2>2, <3>1, <3>2
    <2> QED
        BY <2>1, <2>2
  <1> HIDE DEF after
  <1>12. r \in tasks /\ \A s \in tasks : s.do \in {"report", "payload_list"}
      BY <1>7, <1>8, <1>11
  <1> HIDE DEF one
  <1>13. Replaced(t, agenda', tasks)
      BY <1>2, <1>11 DEF Replaced, T
  <1>14. Moves(t, tasks)
    <2>1. ASSUME NEW p \in Spots, Leads(t, p) PROVE \E s \in tasks : Leads(s, p)
      <3>1. t.place = p
          BY <1>3, <2>1 DEF Leads
      <3>2. Leads(r, p)
          BY <1>7, <3>1, LeadsOfClaude
      <3> QED
          BY <1>12, <3>2
    <2> QED
        BY <1>5, <1>6, <1>11, <1>12, <1>13, <2>1 DEF Moves, T
  <1>15. walker' = walker /\ ground' = ground /\ disturbed' = disturbed /\ rewritten' = rewritten
      BY DEF Still
  <1>16. payload' \in Payloads /\ (payload'.companion => k = "dir")
    <2>1. payload \in Payloads /\ payload.companion = FALSE
        BY DEF NoPayload, Payloads
    <2>2. CASE k = "dir"
      <3>1. payload' = [payload EXCEPT !.companion = TRUE]
          BY <1>5, <2>2
      <3> QED
          BY <2>1, <2>2, <3>1 DEF Payloads
    <2>3. CASE k # "dir"
        BY <1>5, <2>1, <2>3
    <2> QED
        BY <2>2, <2>3
  <1>17. WalkTyped'
      BY <1>1, <1>5, <1>11, <1>15, <1>16 DEF WalkTyped, T, TasksOf, DosOf
  <1>18. NothingMissed' /\ KindsAgree'
      BY <1>1, <1>14, MovesMissesNothing DEF DiscoveryInv
  <1>19. DeviceHolds' /\ ParentsKnown'
      BY <1>15 DEF DeviceHolds, ParentsKnown
  <1>20. SessionHolds'
    <2>1. \A f \in reported' : f.place \in DOMAIN Companion /\ Counted(f.place, f.payload, {})'
        BY <1>5, <1>6, ReportedStaysCounted DEF DiscoveryInv
    <2>2. Counted(r.place, payload, Ahead)'
      <3>1. tasks \subseteq Ahead'
          BY <1>11 DEF Ahead
      <3>2. ASSUME (payload'.companion /\ ~payload'.degraded) \/ complete' = "complete",
                   NEW q \in Below(companion), Steady(q), ground[q].kind = "file"
            PROVE  \E s \in tasks : Counts(s, q)
        <4>1. q \in Spots /\ companion \in AboveOf[q]
            BY <3>2 DEF Below
        <4>2. k = "dir"
          <5>1. CASE payload'.companion
              BY <1>16, <5>1
          <5>2. CASE complete' = "complete"
            <6>1. k \notin {"denied", "io"}
                BY <1>6, <5>2
            <6>2. k = Look(companion)
                BY <1>4, <6>1, NoFailureIsSo
            <6>3. Look(companion) \in {"dir", "denied"}
                BY <1>1, <3>2, <4>1, SteadyAbove, ListingOfADirectory
            <6> QED
                BY <6>1, <6>2, <6>3
          <5> QED
              BY <3>2, <5>1, <5>2
        <4> QED
            BY <1>8, <1>11, <4>1, <4>2 DEF Counts
      <3>3. \A q \in Below(companion) : q \in Spots /\ Steady(q)' = Steady(q)
          BY StillTheSame DEF Below
      <3> QED
          BY <1>7, <1>15, <3>1, <3>2, <3>3 DEF Counted
    <2>3. r \in Ahead' /\ Ordered(agenda', r)
        BY <1>11, <1>12 DEF Ahead
    <2>4. Ordered(agenda, r)'
        BY <2>3 DEF Ordered
    <2> QED
        BY <1>7, <1>15, <2>1, <2>2, <2>3, <2>4 DEF SessionHolds
  <1> QED
      BY <1>1, <1>17, <1>18, <1>19, <1>20, GroundStays DEF DiscoveryInv

-----------------------------------------------------------------------------
(* Discovery: the files of a companion, and the report of a session.       *)

LEMMA ClaudeReportKeeps ==
    ASSUME DiscoveryInv, Still, walker = "claude", agenda # <<>>, NEW t \in Head(agenda), t.do = "report",
           Head(agenda) = {t}, NoOwn(Tail(agenda)), Counted(t.place, payload, Ahead), ClaudeReport(t)
    PROVE  DiscoveryInv'
  <1>1. WalkTyped /\ GroundHolds /\ payload \in Payloads /\ agenda \in Seq(SUBSET TasksOf(walker))
      BY DEF DiscoveryInv, WalkTyped
  <1>2. t \in TasksOf(walker) /\ Replaced(t, Rest(t), {})
      BY <1>1, RestReplaces
  <1>3. t.place \in Spots /\ t.place \in DOMAIN Companion
      BY <1>1, <1>2, TheTask DEF OfSession
  <1>4. PICK f \in Findings : f = [place |-> t.place, parent |-> "none", payload |-> payload]
      BY <1>1, <1>3 DEF Findings
  <1>5. /\ agenda' = Rest(t) /\ device' = device /\ payload' = NoPayload /\ complete' = complete
        /\ reported' = reported \cup {f}
      BY <1>4 DEF ClaudeReport, Reports, Fine
  <1>6. Rest(t) = Tail(agenda)
      BY DEF Rest
  <1>7. Ahead = {t} \cup AheadOf(Tail(agenda))
      BY <1>1, TopOff DEF Ahead
  <1>8. f.place = t.place /\ f.payload = payload
      BY <1>4
  <1>9. Moves(t, {})
    <2>1. \A p \in Spots : WantedHere(p) /\ Leads(t, p) => t.place = p
        BY DEF Leads
    <2>2. \A p \in Spots : WantedHere(p) /\ Leads(t, p) => \E g \in reported' : g.place = p
        BY <1>5, <1>8, <2>1
    <2> QED
        BY <1>2, <1>5, <2>2 DEF Moves
  <1>10. walker' = walker /\ ground' = ground /\ disturbed' = disturbed /\ rewritten' = rewritten
      BY DEF Still
  <1>11. WalkTyped'
    <2>1. NoPayload \in Payloads
        BY DEF NoPayload, Payloads
    <2> QED
        BY <1>1, <1>2, <1>5, <1>4, <1>10, <2>1 DEF WalkTyped, TasksOf, DosOf, Replaced
  <1>12. NothingMissed' /\ KindsAgree'
      BY <1>1, <1>9, MovesMissesNothing DEF DiscoveryInv
  <1>13. DeviceHolds' /\ ParentsKnown'
      BY <1>10 DEF DeviceHolds, ParentsKnown
  <1>14. SessionHolds'
    <2>1. \A s \in Ahead : \A q : ~Counts(s, q)
      <3> SUFFICES ASSUME NEW s \in Ahead, NEW q, Counts(s, q) PROVE FALSE
          OBVIOUS
      <3>1. s.do \in OfPayload
          BY DEF Counts, OfPayload
      <3>2. s # t
          BY <3>1 DEF OfPayload
      <3> QED
          BY <1>7, <3>1, <3>2 DEF NoOwn
    <2>2. Counted(t.place, payload, {})
        BY <2>1 DEF Counted
    <2>3. Counted(f.place, f.payload, {})'
      <3>1. Counted(f.place, f.payload, {})
          BY <1>8, <2>2
      <3> QED
          BY <1>5, <3>1, CountedStays, BelowArePlaces
    <2>4. \A g \in reported : g.place \in DOMAIN Companion /\ Counted(g.place, g.payload, {})'
        BY <1>5, ReportedStaysCounted DEF DiscoveryInv
    <2>5. \A g \in reported' : g.place \in DOMAIN Companion /\ Counted(g.place, g.payload, {})'
      <3> TAKE g \in reported'
      <3>1. CASE g = f
          BY <1>3, <1>8, <2>3, <3>1
      <3>2. CASE g \in reported
          BY <2>4, <3>2
      <3> QED
          BY <1>5, <3>1, <3>2
    <2>6. NoOwn(agenda')
        BY <1>5, <1>6
    <2>7. NoOwn(agenda)'
        BY <2>6 DEF NoOwn, AheadOf
    <2> QED
        BY <1>5, <2>5, <2>7 DEF SessionHolds
  <1> QED
      BY <1>1, <1>11, <1>12, <1>13, <1>14, GroundStays DEF DiscoveryInv

\* A call about the files of a companion: what was to count is counted, or
\* still is by tasks, or the companion is degraded.
PayloadMoves(t, tasks) ==
    /\ tasks \subseteq TasksOf(walker) /\ \A s \in tasks : s.do \in OfPayload
    /\ agenda' = Now(tasks, t) \/ \E s \in tasks : tasks = {s} /\ agenda' = Later(s, t)
    /\ \A s \in tasks : s.do = "payload_visit" => s.kind = ground[s.place].kind
    /\ reported' = reported /\ device' = device
    /\ complete' = "complete" => complete = "complete"
    /\ payload' \in Payloads /\ payload'.companion = payload.companion
    /\ payload.seen \subseteq payload'.seen /\ (~payload'.degraded => ~payload.degraded)
    /\ ~payload'.degraded \/ complete' = "complete" =>
          \A q \in Spots : Steady(q) /\ ground[q].kind = "file" /\ Counts(t, q) =>
              q \in payload'.seen \/ \E s \in tasks : Counts(s, q)

LEMMA PayloadKeeps ==
    ASSUME DiscoveryInv, Still, walker = "claude", agenda # <<>>, NEW t \in Head(agenda), t.do \in OfPayload,
           NEW r \in Ahead, r.do = "report", Ordered(agenda, r), Counted(r.place, payload, Ahead),
           NEW tasks, PayloadMoves(t, tasks)
    PROVE  DiscoveryInv'
  <1>1. WalkTyped /\ GroundHolds /\ agenda \in Seq(SUBSET TasksOf(walker))
      BY DEF DiscoveryInv, WalkTyped
  <1>2. /\ tasks \in SUBSET TasksOf(walker) /\ \A s \in tasks : s.do \in OfPayload
        /\ agenda' = Now(tasks, t) \/ \E s \in tasks : tasks = {s} /\ agenda' = Later(s, t)
        /\ \A s \in tasks : s.do = "payload_visit" => s.kind = ground[s.place].kind
      BY DEF PayloadMoves
  <1>3. /\ reported' = reported /\ device' = device
        /\ complete' = "complete" => complete = "complete"
        /\ payload' \in Payloads /\ payload'.companion = payload.companion
        /\ payload.seen \subseteq payload'.seen /\ (~payload'.degraded => ~payload.degraded)
      BY DEF PayloadMoves
  <1>4. Replaced(t, agenda', tasks) /\ Ordered(agenda', r)
    <2>1. CASE agenda' = Now(tasks, t)
        BY <1>1, <1>2, <2>1, NowReplaces, PayloadOrder
    <2>2. CASE \E s \in tasks : tasks = {s} /\ agenda' = Later(s, t)
      <3>1. PICK s \in tasks : tasks = {s} /\ agenda' = Later(s, t)
          BY <2>2
      <3>2. s \in TasksOf(walker) /\ s.do \in OfPayload
          BY <1>2
      <3> QED
          BY <1>1, <3>1, <3>2, LaterReplaces, PayloadOrder
    <2> QED
        BY <1>2, <2>1, <2>2
  <1>5. Moves(t, tasks)
    <2>1. \A p : ~Leads(t, p)
        BY DEF Leads, OfPayload
    <2>2. \A s \in tasks : s.do # "visit"
        BY <1>2 DEF OfPayload
    <2> QED
        BY <1>2, <1>3, <1>4, <2>1, <2>2 DEF Moves
  <1>6. walker' = walker /\ ground' = ground /\ disturbed' = disturbed /\ rewritten' = rewritten
      BY DEF Still
  <1>7. WalkTyped'
      BY <1>1, <1>3, <1>4, <1>6 DEF WalkTyped, TasksOf, DosOf, Replaced
  <1>8. NothingMissed' /\ KindsAgree'
      BY <1>1, <1>5, MovesMissesNothing DEF DiscoveryInv
  <1>9. DeviceHolds' /\ ParentsKnown'
      BY <1>6 DEF DeviceHolds, ParentsKnown
  <1>10. SessionHolds'
    <2>1. \A f \in reported' : f.place \in DOMAIN Companion /\ Counted(f.place, f.payload, {})'
        BY <1>3, ReportedStaysCounted DEF DiscoveryInv
    <2>2. (Ahead \ {t}) \cup tasks \subseteq Ahead'
        BY <1>4 DEF Replaced, Ahead
    <2>3. r \in Ahead'
        BY <2>2 DEF OfPayload
    <2>4. ASSUME (payload'.companion /\ ~payload'.degraded) \/ complete' = "complete",
                 NEW q \in Below(Companion[r.place]), Steady(q), ground[q].kind = "file"
          PROVE  q \in payload'.seen \/ \E s \in Ahead' : Counts(s, q)
      <3>1. q \in payload.seen \/ \E s \in Ahead : Counts(s, q)
          BY <1>3, <2>4 DEF Counted
      <3>2. CASE q \in payload.seen
          BY <1>3, <3>2
      <3>3. CASE \E s \in Ahead : Counts(s, q)
        <4>1. PICK s \in Ahead : Counts(s, q)
            BY <3>3
        <4>2. CASE s # t
            BY <2>2, <4>1, <4>2
        <4>3. CASE s = t
          <5>1. q \in Spots
              BY BelowArePlaces
          <5>2. ~payload'.degraded \/ complete' = "complete"
              BY <2>4
          <5>3. q \in payload'.seen \/ \E u \in tasks : Counts(u, q)
              BY <2>4, <4>1, <4>3, <5>1, <5>2 DEF PayloadMoves
          <5> QED
              BY <2>2, <5>3
        <4> QED
            BY <4>2, <4>3
      <3> QED
          BY <3>1, <3>2, <3>3
    <2>5. \A q \in Spots : Steady(q)' = Steady(q)
        BY StillTheSame
    <2>6. Counted(r.place, payload, Ahead)'
        BY <1>6, <2>4, <2>5, BelowArePlaces DEF Counted
    <2>7. Ordered(agenda, r)'
        BY <1>4 DEF Ordered
    <2> QED
        BY <1>6, <2>1, <2>3, <2>6, <2>7 DEF SessionHolds
  <1> QED
      BY <1>1, <1>7, <1>8, <1>9, <1>10, GroundStays DEF DiscoveryInv

LEMMA DegradesMoves ==
    ASSUME payload \in Payloads, NEW t, NEW tasks \in SUBSET TasksOf(walker), Degrades(t, tasks),
           \A s \in tasks : s.do \in OfPayload /\ s.kind = ground[s.place].kind
    PROVE  PayloadMoves(t, tasks)
  <1>1. /\ agenda' = Now(tasks, t) /\ complete' # "complete"
        /\ payload' = [payload EXCEPT !.degraded = TRUE] /\ device' = device /\ reported' = reported
      BY DEF Degrades, Worse
  <1>2. /\ payload' \in Payloads /\ payload'.degraded = TRUE /\ payload'.companion = payload.companion
        /\ payload'.seen = payload.seen
      BY <1>1 DEF Payloads
  <1> QED
      BY <1>1, <1>2 DEF PayloadMoves

LEMMA PayloadVisitsAreTasks ==
    ASSUME WalkTyped, walker = "claude", GroundHolds, NEW places \in SUBSET Spots
    PROVE  /\ PayloadVisits(places) \in SUBSET TasksOf(walker)
           /\ \A s \in PayloadVisits(places) :
                 s.do = "payload_visit" /\ s.do \in OfPayload /\ s.kind = ground[s.place].kind
           /\ \A c \in places : \E s \in PayloadVisits(places) : s.place = c
  <1>1. "payload_visit" \in DosOf(walker) /\ "payload_visit" \notin OfSession /\ "payload_visit" \in OfPayload
      BY DosOfEach DEF OfSession, OfPayload
  <1>2. \A c \in places : Task("payload_visit", c, ground[c].kind) \in TasksOf(walker)
      BY <1>1, TaskOfTheWalk, KindsOfGround
  <1>3. \A s \in PayloadVisits(places) : \E c \in places : s = Task("payload_visit", c, ground[c].kind)
      BY DEF PayloadVisits
  <1>4. \A c \in places : Task("payload_visit", c, ground[c].kind) \in PayloadVisits(places)
      BY DEF PayloadVisits
  <1> QED
      BY <1>1, <1>2, <1>3, <1>4, TasksAreRecords

LEMMA PayloadListMoves ==
    ASSUME WalkTyped, walker = "claude", GroundHolds, agenda # <<>>, NEW t \in Head(agenda),
           NEW k \in Kinds3 \cup Failures, PayloadList(t, k)
    PROVE  \E tasks : PayloadMoves(t, tasks)
  <1>1. t.do = "payload_list" /\ Said(Listing(t.place), k) /\ Children(t.place) \in SUBSET Spots
        /\ payload \in Payloads
      BY DEF PayloadList, Children, WalkTyped
  <1>2. CASE k = "dir" /\ GoesOn(t, PayloadVisits(Children(t.place)))
    <2> DEFINE tasks == PayloadVisits(Children(t.place))
    <2>1. /\ tasks \in SUBSET TasksOf(walker)
          /\ \A s \in tasks : s.do = "payload_visit" /\ s.do \in OfPayload /\ s.kind = ground[s.place].kind
          /\ \A c \in Children(t.place) : \E s \in tasks : s.place = c
        BY <1>1, PayloadVisitsAreTasks
    <2>2. agenda' = Now(tasks, t) /\ complete' = complete /\ reported' = reported /\ payload' = payload
          /\ device' = device
        BY <1>2 DEF GoesOn, Fine, SaysNoMore
    <2> HIDE DEF tasks
    <2>3. Listing(t.place) = "dir"
        BY <1>1, <1>2, NoFailureIsSo
    <2>4. ASSUME NEW q \in Spots, Steady(q), Counts(t, q) PROVE \E s \in tasks : Counts(s, q)
      <3>1. t.place \in AboveOf[q]
          BY <1>1, <2>4 DEF Counts
      <3>2. PICK c \in Children(t.place) : c \in {q} \cup AboveOf[q]
          BY <2>3, <2>4, <3>1, ListingLeadsOn
      <3>3. PICK s \in tasks : s.place = c /\ s.do = "payload_visit"
          BY <2>1, <3>2
      <3>4. Counts(s, q)
          BY <3>2, <3>3 DEF Counts
      <3> QED
          BY <3>4
    <2>5. PayloadMoves(t, tasks)
        BY <1>1, <2>1, <2>2, <2>4 DEF PayloadMoves
    <2> QED
        BY <2>5
  <1>3. CASE Degrades(t, {})
    <2>1. PayloadMoves(t, {})
        BY <1>1, <1>3, DegradesMoves
    <2> QED
        BY <2>1
  <1>4. CASE \E some \in SUBSET Children(t.place) : Degrades(t, PayloadVisits(some))
    <2>1. PICK some \in SUBSET Children(t.place) : Degrades(t, PayloadVisits(some))
        BY <1>4
    <2>2. /\ PayloadVisits(some) \in SUBSET TasksOf(walker)
          /\ \A s \in PayloadVisits(some) : s.do \in OfPayload /\ s.kind = ground[s.place].kind
        BY <1>1, <2>1, PayloadVisitsAreTasks
    <2>3. PayloadMoves(t, PayloadVisits(some))
        BY <1>1, <2>1, <2>2, DegradesMoves
    <2> QED
        BY <2>3
  <1> QED
      BY <1>2, <1>3, <1>4 DEF PayloadList

LEMMA PayloadVisitMoves ==
    ASSUME WalkTyped, walker = "claude", GroundHolds, KindsAgree, agenda # <<>>, NEW t \in Head(agenda),
           PayloadVisit(t)
    PROVE  \E tasks : PayloadMoves(t, tasks)
  <1>1. t \in TasksOf(walker) /\ t \in Ahead
      BY RestReplaces
  <1>2. t.do = "payload_visit" /\ t.place \in Spots /\ t.kind \in Kinds3 \cup Failures /\ payload \in Payloads
      BY <1>1, TheTask DEF PayloadVisit, WalkTyped
  <1>3. ASSUME NEW q \in Spots, Steady(q), ground[q].kind = "file", Counts(t, q)
        PROVE  \/ t.place = q /\ t.kind = "file"
               \/ t.place \in AboveOf[q] /\ t.kind = "dir"
    <2>1. t.place = q \/ t.place \in AboveOf[q]
        BY <1>2, <1>3 DEF Counts
    <2>2. Steady(t.place) /\ (t.place \in AboveOf[q] => ground[t.place].kind = "dir")
        BY <1>3, <2>1, SteadyAbove
    <2>3. t.kind = ground[t.place].kind
        BY <1>1, <1>2, <2>2 DEF KindsAgree
    <2> QED
        BY <1>3, <2>1, <2>2, <2>3
  <1>4. ASSUME NEW do \in {"payload_list", "payload_stat"}, t.kind = (IF do = "payload_list" THEN "dir" ELSE "file"),
               agenda' = Now({Task(do, t.place, t.kind)}, t) \/ agenda' = Later(Task(do, t.place, t.kind), t),
               Fine, SaysNoMore
        PROVE  \E tasks : PayloadMoves(t, tasks)
    <2> DEFINE task == Task(do, t.place, t.kind)
               tasks == {task}
    <2>1. do \in DosOf(walker) /\ do \notin OfSession /\ do \in OfPayload
        BY DosOfEach DEF OfSession, OfPayload
    <2>2. task \in TasksOf(walker)
        BY <1>2, <2>1, TaskOfTheWalk
    <2>3. task.do = do /\ task.place = t.place
        BY TasksAreRecords
    <2>4. agenda' = Now({task}, t) \/ agenda' = Later(task, t)
        BY <1>4
    <2>5. complete' = complete /\ reported' = reported /\ payload' = payload /\ device' = device
        BY <1>4 DEF Fine, SaysNoMore
    <2> HIDE DEF task
    <2>6. ASSUME NEW q \in Spots, Steady(q), ground[q].kind = "file", Counts(t, q)
          PROVE  Counts(task, q)
      <3>1. CASE do = "payload_list"
        <4>1. t.place \in AboveOf[q]
            BY <1>3, <1>4, <2>6, <3>1
        <4> QED
            BY <2>3, <3>1, <4>1 DEF Counts
      <3>2. CASE do = "payload_stat"
        <4>1. t.place = q
            BY <1>3, <1>4, <2>6, <3>2
        <4> QED
            BY <2>3, <3>2, <4>1 DEF Counts
      <3> QED
          BY <1>4, <3>1, <3>2
    <2>7. tasks \subseteq TasksOf(walker) /\ \A s \in tasks : s.do \in OfPayload /\ s.do # "payload_visit"
        BY <2>1, <2>2, <2>3
    <2>8. agenda' = Now(tasks, t) \/ \E s \in tasks : tasks = {s} /\ agenda' = Later(s, t)
        BY <2>4
    <2>9. task \in tasks
        OBVIOUS
    <2> HIDE DEF tasks
    <2>10. PayloadMoves(t, tasks)
        BY <1>2, <2>5, <2>6, <2>7, <2>8, <2>9 DEF PayloadMoves
    <2> QED
        BY <2>10
  <1>5. CASE t.kind = "dir"
    <2>1. agenda' = Later(Task("payload_list", t.place, t.kind), t) /\ Fine /\ SaysNoMore
        BY <1>5 DEF PayloadVisit
    <2> QED
        BY <1>4, <1>5, <2>1
  <1>6. CASE t.kind = "file"
    <2>1. agenda' = Now({Task("payload_stat", t.place, t.kind)}, t) /\ Fine /\ SaysNoMore
        BY <1>6 DEF PayloadVisit, GoesOn
    <2> QED
        BY <1>4, <1>6, <2>1
  <1>7. CASE t.kind \notin {"dir", "file"}
    <2>1. Skips(t)
        BY <1>7 DEF PayloadVisit
    <2>2. agenda' = Rest(t) /\ complete' = complete /\ reported' = reported /\ payload' = payload
          /\ device' = device
        BY <2>1 DEF Skips, Fine, SaysNoMore
    <2>3. Rest(t) \in Seq(SUBSET TasksOf(walker))
        BY RestReplaces DEF Replaced
    <2>4. agenda' = Now({}, t)
        BY <2>2, <2>3 DEF Now
    <2>5. PayloadMoves(t, {})
        BY <1>2, <1>3, <1>7, <2>2, <2>4 DEF PayloadMoves
    <2> QED
        BY <2>5
  <1> QED
      BY <1>5, <1>6, <1>7

LEMMA PayloadStatMoves ==
    ASSUME WalkTyped, walker = "claude", agenda # <<>>, NEW t \in Head(agenda),
           NEW k \in Kinds3 \cup Failures, PayloadStat(t, k)
    PROVE  \E tasks : PayloadMoves(t, tasks)
  <1>1. t \in TasksOf(walker) /\ payload \in Payloads /\ t.do = "payload_stat"
      BY RestReplaces DEF WalkTyped, PayloadStat
  <1>2. t.place \in Spots
      BY <1>1, TheTask
  <1>3. CASE k \in Failures
    <2>1. Degrades(t, {})
        BY <1>3 DEF PayloadStat
    <2>2. PayloadMoves(t, {})
        BY <1>1, <2>1, DegradesMoves
    <2> QED
        BY <2>2
  <1>4. CASE k \notin Failures
    <2>1. /\ agenda' = Rest(t) /\ payload' = [payload EXCEPT !.seen = payload.seen \cup {t.place}]
          /\ complete' = complete /\ reported' = reported /\ device' = device
        BY <1>4 DEF PayloadStat, Fine
    <2>2. Rest(t) \in Seq(SUBSET TasksOf(walker))
        BY RestReplaces DEF Replaced
    <2>3. agenda' = Now({}, t)
        BY <2>1, <2>2 DEF Now
    <2>4. /\ payload' \in Payloads /\ payload'.seen = payload.seen \cup {t.place}
          /\ payload'.companion = payload.companion /\ payload'.degraded = payload.degraded
        BY <1>1, <1>2, <2>1 DEF Payloads
    <2>5. \A q : Counts(t, q) => t.place = q
        BY <1>1 DEF Counts
    <2>6. PayloadMoves(t, {})
        BY <2>1, <2>3, <2>4, <2>5 DEF PayloadMoves
    <2> QED
        BY <2>6
  <1> QED
      BY <1>3, <1>4

LEMMA ClaudeWalkKeeps ==
    ASSUME DiscoveryInv, WalkStep, walker = "claude"
    PROVE  DiscoveryInv'
  <1>1. Still /\ agenda # <<>> /\ WalkTyped /\ GroundHolds /\ KindsAgree /\ agenda \in Seq(SUBSET TasksOf(walker))
      BY DEF WalkStep, Still, DiscoveryInv, WalkTyped
  <1>2. PICK t \in Head(agenda) :
          \/ ClaudeVisit(t) \/ PayloadVisit(t) \/ (walker = "claude" /\ ClaudeReport(t))
          \/ \E k \in Kinds3 \cup Failures :
                \/ VisitRoot(t, k) \/ ListDirectory(t, k)
                \/ CodexVisit(t, k) \/ CodexMeasure(t, k) \/ CodexParent(t, k)
                \/ ClaudeStat(t, k) \/ ClaudeCompanion(t, k) \/ PayloadList(t, k) \/ PayloadStat(t, k)
                \/ InventoryVisit(t, k) \/ InventoryIdentity(t, k) \/ InventoryAllocation(t, k)
      BY DEF WalkStep
  <1>3. t \in Ahead /\ t.do \in {"root", "list", "visit", "stat", "companion", "report",
                                 "payload_list", "payload_visit", "payload_stat"}
      BY <1>1, RestReplaces, TheTask, DosOfEach
  <1>4. PICK k \in Kinds3 \cup Failures :
            \/ ClaudeVisit(t) \/ PayloadVisit(t) \/ ClaudeReport(t)
            \/ VisitRoot(t, k) \/ ListDirectory(t, k) \/ ClaudeStat(t, k) \/ ClaudeCompanion(t, k)
            \/ PayloadList(t, k) \/ PayloadStat(t, k)
    <2>1. "dir" \in Kinds3 \cup Failures
        BY DEF Kinds3
    <2>2. \A k : ~CodexVisit(t, k) /\ ~CodexMeasure(t, k) /\ ~CodexParent(t, k) /\ ~InventoryVisit(t, k)
                 /\ ~InventoryIdentity(t, k) /\ ~InventoryAllocation(t, k)
        BY <1>3 DEF CodexVisit, CodexMeasure, CodexParent, InventoryVisit, InventoryIdentity, InventoryAllocation
    <2> QED
        BY <1>2, <2>1, <2>2
  <1>5. CASE NoOwn(agenda) /\ payload = NoPayload
    <2>1. t.do \notin OfPayload \cup {"report"}
        BY <1>3, <1>5 DEF NoOwn, Ahead
    <2>2. \/ ClaudeVisit(t) \/ VisitRoot(t, k) \/ ListDirectory(t, k) \/ ClaudeStat(t, k) \/ ClaudeCompanion(t, k)
        BY <1>4, <2>1 DEF PayloadVisit, ClaudeReport, PayloadList, PayloadStat, OfPayload
    <2>3. CASE ClaudeCompanion(t, k)
        BY <1>1, <1>5, <2>3, ClaudeCompanionKeeps
    <2>4. CASE ~ClaudeCompanion(t, k)
      <3>1. SaysNoMore /\ \E tasks : Moves(t, tasks) /\ \A s \in tasks : s.do \in {"list", "visit", "stat", "companion"}
        <4>1. CASE ClaudeVisit(t)
            BY <1>1, <4>1, ClaudeVisitMoves
        <4>2. CASE VisitRoot(t, k)
            BY <1>1, <4>2, RootMoves, RootIsQuiet
        <4>3. CASE ListDirectory(t, k)
            BY <1>1, <4>3, ListMoves, ListIsQuiet
        <4>4. CASE ClaudeStat(t, k)
            BY <1>1, <1>5, <4>4, ClaudeStatMoves
        <4> QED
            BY <2>2, <2>4, <4>1, <4>2, <4>3, <4>4
      <3>2. PICK tasks : Moves(t, tasks) /\ \A s \in tasks : s.do \in {"list", "visit", "stat", "companion"}
          BY <3>1
      <3>3. \A s \in tasks : s.do \notin OfPayload \cup {"report"}
          BY <3>2 DEF OfPayload
      <3> QED
          BY <1>1, <1>5, <3>1, <3>2, <3>3, QuietKeeps
    <2> QED
        BY <2>3, <2>4
  <1>6. ASSUME NEW r \in Ahead, r.do = "report", Ordered(agenda, r), Counted(r.place, payload, Ahead)
        PROVE  DiscoveryInv'
    <2>1. \/ Head(agenda) = {r} /\ NoOwn(Tail(agenda))
          \/ \A s \in Head(agenda) : s.do \in OfPayload
        BY <1>1, <1>6, OrderedNext
    <2>2. CASE Head(agenda) = {r} /\ NoOwn(Tail(agenda))
      <3>1. t = r
          BY <2>2
      <3>2. ClaudeReport(t)
          BY <1>4, <1>6, <3>1 DEF ClaudeVisit, PayloadVisit, VisitRoot, ListDirectory, ClaudeStat,
             ClaudeCompanion, PayloadList, PayloadStat
      <3> QED
          BY <1>1, <1>6, <2>2, <3>1, <3>2, ClaudeReportKeeps
    <2>3. CASE t.do \in OfPayload
      <3>1. PayloadVisit(t) \/ PayloadList(t, k) \/ PayloadStat(t, k)
          BY <1>4, <2>3 DEF OfPayload, ClaudeVisit, ClaudeReport, VisitRoot, ListDirectory, ClaudeStat,
             ClaudeCompanion
      <3>2. PICK tasks : PayloadMoves(t, tasks)
          BY <1>1, <3>1, PayloadVisitMoves, PayloadListMoves, PayloadStatMoves
      <3> QED
          BY <1>1, <1>6, <2>3, <3>2, PayloadKeeps
    <2> QED
        BY <2>1, <2>2, <2>3
  <1> QED
      BY <1>5, <1>6 DEF DiscoveryInv, SessionHolds

-----------------------------------------------------------------------------
(* Discovery: the invariant.                                               *)

\* The same, of the state after a step.
LEMMA SteadyNext ==
    ASSUME GroundHolds', NEW p \in Spots, Steady(p)'
    PROVE  \A a \in AboveOf[p] : a \in Spots /\ Steady(a)'
  <1> TAKE a \in AboveOf[p]
  <1>1. ground'[p].kind # "absent" /\ ({p} \cup AboveOf[p]) \cap disturbed' = {}
      BY DEF Steady
  <1>2. a \in Spots /\ ground'[a].kind = "dir"
      BY <1>1, WhatIsAboveIsThere DEF GroundHolds
  <1>3. ({a} \cup AboveOf[a]) \subseteq AboveOf[p]
      BY AboveOfAbove
  <1> QED
      BY <1>1, <1>2, <1>3 DEF Steady

LEMMA OthersKeepTheWalk ==
    ASSUME DiscoveryInv, Disturb3
    PROVE  DiscoveryInv'
  <1>1. GroundHolds /\ WalkTyped
      BY DEF DiscoveryInv
  <1>2. GroundHolds' /\ StaysSteady
      BY <1>1, OthersLeaveTheSteady
  <1>3. walker' = walker /\ agenda' = agenda /\ device' = device /\ payload' = payload
        /\ reported' = reported /\ complete' = complete
      BY <1>1, OthersLeaveTheSteady DEF walkVars
  <1>4. ASSUME NEW p \in Spots, Steady(p)'
        PROVE  /\ Steady(p) /\ ground'[p].kind = ground[p].kind /\ ground'[p].device = ground[p].device
               /\ p \notin rewritten' => p \notin rewritten /\ ground'[p].parent = ground[p].parent
      BY <1>2, <1>4 DEF StaysSteady
  <1>5. WalkTyped'
      BY <1>1, <1>3 DEF WalkTyped, TasksOf, DosOf
  <1>6. Ahead' = Ahead /\ \A t \in Ahead : t.place \in Spots
    <2>1. \A t \in Ahead : t \in TasksOf(walker)
        BY <1>1 DEF WalkTyped, Ahead, AheadOf
    <2> QED
        BY <1>1, <1>3, <2>1, TheTask DEF Ahead, AheadOf
  <1>7. KindsAgree'
      BY <1>3, <1>4, <1>6 DEF DiscoveryInv, KindsAgree
  <1>8. DeviceHolds'
    <2> SUFFICES ASSUME walker = "inventory", Steady(Roots3.inventory[1])' PROVE DeviceHolds'
        BY <1>3 DEF DeviceHolds
    <2>1. Roots3.inventory[1] \in Spots
        BY <1>1, RootOfTheScope DEF WalkTyped
    <2> QED
        BY <1>3, <1>4, <2>1 DEF DiscoveryInv, DeviceHolds
  <1>9. NothingMissed'
    <2> SUFFICES ASSUME complete = "complete", NEW p \in Spots, InTree(p)', Steady(p)', Wanted(p)'
                 PROVE  (\E f \in reported : f.place = p) \/ (\E t \in Ahead : Leads(t, p)')
        BY <1>3, <1>6 DEF NothingMissed
    <2>1. InTree(p) /\ Steady(p) /\ ground'[p].kind = ground[p].kind
        BY <1>3, <1>4 DEF InTree
    <2>2. Wanted(p)
      <3>1. CASE walker = "inventory"
        <4>1. \A a \in AboveOf[p] : a \in Spots /\ Steady(a)'
            BY <1>2, SteadyNext
        <4>2. Roots3.inventory[1] \in {p} \cup AboveOf[p]
          <5>1. Roots3.inventory \in Seq(Spots) /\ Len(Roots3.inventory) = 1 /\ DOMAIN Roots3.inventory = {1}
            <6>1. "inventory" \in Walkers \ {"codex"}
                BY <1>1, <3>1 DEF WalkTyped
            <6> QED
                BY <6>1, DiscoveryAssumption
          <5>2. p = Roots3.inventory[1] \/ p \in Below(Roots3.inventory[1])
              BY <2>1, <3>1, <5>1 DEF InTree
          <5> QED
              BY <5>2 DEF Below
        <4>3. \A a \in {p} \cup AboveOf[p] : ground'[a].device = ground[a].device
            BY <1>4, <4>1
        <4>4. \A a \in AboveOf[p] : ground'[a].device = ground'[Roots3.inventory[1]].device
            BY <1>3, <3>1 DEF Wanted
        <4>5. \A a \in AboveOf[p] : ground[a].device = ground[Roots3.inventory[1]].device
            BY <4>2, <4>3, <4>4
        <4> QED
            BY <3>1, <4>5 DEF Wanted
      <3>2. CASE walker \in {"codex", "claude"}
          BY <1>3, <2>1, <3>2 DEF Wanted
      <3> QED
          BY <1>1, <3>1, <3>2, WalkersAre DEF WalkTyped
    <2>3. \A t : Leads(t, p)' <=> Leads(t, p)
        BY <1>3 DEF Leads
    <2> QED
        BY <2>1, <2>2, <2>3 DEF DiscoveryInv, NothingMissed
  <1>10. ParentsKnown'
    <2>1. \A f \in reported : f.place \in Spots
        BY <1>1 DEF WalkTyped, Findings
    <2> QED
        BY <1>3, <1>4, <2>1 DEF DiscoveryInv, ParentsKnown
  <1>11. ASSUME NEW s, NEW what, NEW calls, Counted(s, what, calls)
         PROVE  (what.companion /\ ~what.degraded) \/ complete = "complete" =>
                   \A q \in Below(Companion[s]) : Steady(q)' /\ ground'[q].kind = "file" =>
                      q \in what.seen \/ \E t \in calls : Counts(t, q)
      BY <1>4, <1>11, BelowArePlaces DEF Counted
  <1>12. SessionHolds'
    <2> SUFFICES ASSUME walker = "claude" PROVE SessionHolds'
        BY <1>3 DEF SessionHolds
    <2>1. \A f \in reported' : f.place \in DOMAIN Companion /\ Counted(f.place, f.payload, {})'
      <3>1. \A f \in reported : f.place \in DOMAIN Companion /\ Counted(f.place, f.payload, {})
          BY DEF DiscoveryInv, SessionHolds
      <3> SUFFICES ASSUME NEW f \in reported PROVE Counted(f.place, f.payload, {})'
          BY <1>3, <3>1
      <3>2. Counted(f.place, f.payload, {})
          BY <3>1
      <3>3. (f.payload.companion /\ ~f.payload.degraded) \/ complete = "complete" =>
               \A q \in Below(Companion[f.place]) : Steady(q)' /\ ground'[q].kind = "file" =>
                  q \in f.payload.seen \/ \E t \in {} : Counts(t, q)
          BY <1>11, <3>2
      <3> QED
          BY <1>3, <3>3 DEF Counted
    <2>2. CASE NoOwn(agenda) /\ payload = NoPayload
      <3>1. NoOwn(agenda)' /\ payload' = NoPayload
          BY <1>3, <2>2 DEF NoOwn, AheadOf
      <3> QED
          BY <2>1, <3>1 DEF SessionHolds
    <2>3. CASE \E r \in Ahead : r.do = "report" /\ Ordered(agenda, r) /\ Counted(r.place, payload, Ahead)
      <3>1. PICK r \in Ahead : r.do = "report" /\ Ordered(agenda, r) /\ Counted(r.place, payload, Ahead)
          BY <2>3
      <3>2. Counted(r.place, payload, Ahead)'
          BY <1>3, <1>6, <1>11, <3>1 DEF Counted
      <3>3. Ordered(agenda, r)'
          BY <1>3, <3>1 DEF Ordered
      <3> QED
          BY <1>6, <2>1, <3>1, <3>2, <3>3 DEF SessionHolds
    <2> QED
        BY <2>2, <2>3 DEF DiscoveryInv, SessionHolds
  <1> QED
      BY <1>2, <1>5, <1>7, <1>8, <1>9, <1>10, <1>12 DEF DiscoveryInv

LEMMA UntouchedWalk == DiscoveryInv /\ UNCHANGED discoveryVars => DiscoveryInv'
  <1> SUFFICES ASSUME DiscoveryInv, UNCHANGED discoveryVars PROVE DiscoveryInv'
      OBVIOUS
  <1>1. UNCHANGED <<walker, ground, agenda, device, payload, reported, complete, disturbed, rewritten>>
      BY DEF discoveryVars, walkVars
  <1>2. Ahead' = Ahead /\ NoOwn(agenda)' = NoOwn(agenda) /\ \A r : Ordered(agenda, r)' = Ordered(agenda, r)
      BY <1>1 DEF Ahead, AheadOf, NoOwn, Ordered
  <1>3. \A p : Steady(p)' = Steady(p) /\ (InTree(p)' <=> InTree(p)) /\ (Wanted(p)' <=> Wanted(p))
      BY <1>1 DEF Steady, InTree, Wanted
  <1>4. \A t, p : Leads(t, p)' <=> Leads(t, p)
      BY <1>1 DEF Leads
  <1>5. WalkTyped' /\ GroundHolds'
      BY <1>1 DEF DiscoveryInv, WalkTyped, TasksOf, DosOf, GroundHolds
  <1>6. KindsAgree' /\ DeviceHolds' /\ ParentsKnown'
      BY <1>1, <1>2, <1>3 DEF DiscoveryInv, KindsAgree, DeviceHolds, ParentsKnown
  <1>7. NothingMissed'
      BY <1>1, <1>2, <1>3, <1>4 DEF DiscoveryInv, NothingMissed
  <1>8. ASSUME NEW s, NEW what, NEW calls PROVE Counted(s, what, calls)' <=> Counted(s, what, calls)
      BY <1>1, <1>3 DEF Counted
  <1>9. (\A f \in reported : Counted(f.place, f.payload, {})' <=> Counted(f.place, f.payload, {}))
        /\ (\A r \in Ahead : Counted(r.place, payload, Ahead)' <=> Counted(r.place, payload, Ahead))
      BY <1>1, <1>2, <1>3 DEF Counted
  <1>10. SessionHolds'
      BY <1>1, <1>2, <1>9 DEF DiscoveryInv, SessionHolds
  <1> QED
      BY <1>5, <1>6, <1>7, <1>10 DEF DiscoveryInv

LEMMA DiscoveryKeeps == DiscoveryInv /\ DiscoveryNext => DiscoveryInv'
  BY WalkersAre, CodexKeeps, ClaudeWalkKeeps, InventoryKeeps, OthersKeepTheWalk
     DEF DiscoveryNext, DiscoveryInv, WalkTyped

LEMMA DiscoveryInitially == DiscoveryInit => DiscoveryInv
  <1> SUFFICES ASSUME DiscoveryInit PROVE DiscoveryInv
      OBVIOUS
  <1> DEFINE do == IF walker = "inventory" THEN "visit" ELSE "root"
             roots == Roots3[walker]
  <1>1. /\ walker \in Walkers /\ ground = Stands /\ agenda = Start3(walker) /\ device = Nowhere
        /\ payload = NoPayload /\ reported = {} /\ disturbed = {}
      BY DEF DiscoveryInit
  <1>2. walker \in {"codex", "claude", "inventory"} /\ roots \in Seq(Spots)
      BY <1>1, WalkersAre, DiscoveryAssumption
  <1>3. do \in DosOf(walker) /\ do \notin OfSession /\ do \in {"root", "visit"}
      BY <1>2, DosOfEach DEF OfSession
  <1>4. agenda = [n \in DOMAIN roots |-> {Task(do, roots[n], "dir")}]
      BY <1>1 DEF Start3
  <1> HIDE DEF do
  <1>5. \A n \in DOMAIN roots : roots[n] \in Spots /\ Task(do, roots[n], "dir") \in TasksOf(walker)
    <2>1. "dir" \in Kinds3 \cup Failures
        BY DEF Kinds3
    <2> QED
        BY <1>2, <1>3, <2>1, TaskOfTheWalk
  <1>6. agenda \in Seq(SUBSET TasksOf(walker))
      BY <1>2, <1>4, <1>5
  <1>7. /\ \A n \in DOMAIN roots : Task(do, roots[n], "dir") \in Ahead
        /\ \A t \in Ahead : t.do = do
    <2>1. DOMAIN agenda = DOMAIN roots /\ \A n \in DOMAIN roots : agenda[n] = {Task(do, roots[n], "dir")}
        BY <1>4
    <2>2. \A n \in DOMAIN roots : Task(do, roots[n], "dir").do = do
        BY TasksAreRecords
    <2> HIDE DEF roots
    <2> QED
        BY <2>1, <2>2 DEF Ahead, AheadOf
  <1>8. WalkTyped
    <2>1. NoPayload \in Payloads
        BY DEF NoPayload, Payloads
    <2> QED
        BY <1>1, <1>6, <2>1 DEF WalkTyped
  <1>9. GroundHolds
      BY <1>1, DiscoveryAssumption DEF GroundHolds
  <1>10. KindsAgree
      BY <1>7 DEF KindsAgree, do
  <1>11. DeviceHolds /\ ParentsKnown
      BY <1>1 DEF DeviceHolds, ParentsKnown
  <1>12. NothingMissed
    <2> SUFFICES ASSUME NEW p \in Spots, InTree(p), Steady(p), Wanted(p)
                 PROVE  \E t \in Ahead : Leads(t, p)
        BY DEF NothingMissed
    <2>1. PICK n \in DOMAIN roots : p = roots[n] \/ p \in Below(roots[n])
        BY DEF InTree
    <2> DEFINE t == Task(do, roots[n], "dir")
    <2>2. t \in Ahead /\ t.do = do /\ t.place = roots[n]
        BY <1>7, TasksAreRecords
    <2>3. roots[n] \in {p} \cup AboveOf[p]
        BY <2>1 DEF Below
    <2>4. walker = "claude" => roots[n] = Roots3.claude[1]
      <3> SUFFICES ASSUME walker = "claude" PROVE n = 1
          OBVIOUS
      <3>1. Len(roots) = 1
          BY <1>1, DiscoveryAssumption
      <3> QED
          BY <1>2, <3>1
    <2> HIDE DEF t, roots
    <2>5. CASE walker = "codex"
        BY <2>2, <2>3, <2>5 DEF Leads, do
    <2>6. CASE walker = "claude"
        BY <2>2, <2>4, <2>6 DEF Leads, do
    <2>7. CASE walker = "inventory"
        BY <2>2, <2>3, <2>7 DEF Leads, do
    <2> QED
        BY <1>2, <2>5, <2>6, <2>7
  <1>13. SessionHolds
    <2>1. NoOwn(agenda)
        BY <1>3, <1>7 DEF NoOwn, Ahead, OfPayload
    <2> QED
        BY <1>1, <2>1 DEF SessionHolds
  <1> QED
      BY <1>8, <1>9, <1>10, <1>11, <1>12, <1>13 DEF DiscoveryInv

LEMMA NothingAheadIsSeen == DiscoveryInv => CompleteMeansSeen
  <1> SUFFICES ASSUME DiscoveryInv, agenda = <<>> PROVE CompleteMeansSeen
      BY DEF CompleteMeansSeen
  <1>1. Ahead = {}
      BY DEF Ahead, AheadOf
  <1>2. complete = "complete" =>
            \A p \in Spots : InTree(p) /\ Steady(p) /\ Wanted(p) => \E f \in reported : f.place = p
      BY <1>1 DEF DiscoveryInv, NothingMissed
  <1>3. complete = "complete" /\ walker = "codex" => \A f \in reported :
            Steady(f.place) /\ f.place \notin rewritten => f.parent = ground[f.place].parent
      BY DEF DiscoveryInv, ParentsKnown
  <1>4. walker = "claude" => \A f \in reported :
            (f.payload.companion /\ ~f.payload.degraded) \/ complete = "complete" =>
               \A p \in Below(Companion[f.place]) :
                  Steady(p) /\ ground[p].kind = "file" => p \in f.payload.seen
      BY DEF DiscoveryInv, SessionHolds, Counted
  <1> QED
      BY <1>2, <1>3, <1>4 DEF CompleteMeansSeen

LEMMA DiscoveryAlone ==
    ASSUME [InterfacesNext]_interfacesVars
    PROVE  DiscoveryNext \/ UNCHANGED discoveryVars
  <1>1. CASE UNCHANGED interfacesVars
      BY <1>1 DEF interfacesVars
  <1>2. CASE InterfacesNext
      BY <1>2, Zenon DEF InterfacesNext, DiscoveryUse
  <1> QED
      BY <1>1, <1>2

LEMMA DiscoveryAlways == InterfacesSpec => []DiscoveryInv
  <1>1. InterfacesInit => DiscoveryInv
      BY DiscoveryInitially DEF InterfacesInit
  <1>2. DiscoveryInv /\ [InterfacesNext]_interfacesVars => DiscoveryInv'
      BY DiscoveryAlone, DiscoveryKeeps, UntouchedWalk
  <1> QED
      BY <1>1, <1>2, PTL DEF InterfacesSpec

\* Whatever others do meanwhile and whichever calls fail: a walk that says it is
\* complete has found all it looks for that stood at its place throughout, and
\* knows the parent of each rollout; and a session whose companion is not
\* degraded counts every file of it (ReasonLog, derive_completeness,
\* degraded_companions).
THEOREM CompleteWalksSaw == InterfacesSpec => []CompleteMeansSeen
  BY DiscoveryAlways, NothingAheadIsSeen, PTL

-----------------------------------------------------------------------------
(* RootClaims: what a claim rests on.                                      *)

CustomAdapters == {"codex", "claude"}
FiveProbes == {"dir", "nonempty_file", "json_object", "jsonl_of_objects", "sessions"}
Roots0 == CodexRootMarkers \cup ClaudeRootMarkers
Detects == asking.adapter \in CustomAdapters /\ asking.kind = "detect"

looksVars == <<shelf, looks, opened2, found2, stood2, moved2, failed2, followed2>>

\* What was found was good at some moment or stood behind a link, and what always
\* was good and never failed to be looked at is found or still to be looked at.
MarkersHold ==
    /\ opened2 \subseteq looks /\ found2 \subseteq DOMAIN shelf /\ looks \subseteq DOMAIN shelf
    /\ \A m \in DOMAIN shelf : Good(m.probe, shelf[m]) => m \in stood2
    /\ \A m \in opened2 : shelf[m] = "link" => m \in moved2 \cup failed2
    /\ found2 \subseteq stood2 \cup followed2
    /\ followed2 \subseteq moved2 \cup failed2
    /\ \A m \in DOMAIN shelf \ (moved2 \cup failed2) :
          Good(m.probe, shelf[m]) /\ shelf[m] # "crowded" => m \in found2 \cup looks

LEMMA FewAreFinite ==
    /\ \A a, b : IsFiniteSet({a, b})
    /\ \A a, b, c, d : IsFiniteSet({a, b, c, d})
    /\ \A a, b, c, d, e, f : IsFiniteSet({a, b, c, d, e, f})
    /\ \A a, b, c, d, e, f, g, h : IsFiniteSet({a, b, c, d, e, f, g, h})
  <1>1. ASSUME NEW a, NEW b
        PROVE  IsFiniteSet({a, b})
    <2>1. IsFiniteSet({a} \cup {b}) /\ {a, b} = {a} \cup {b}
        BY FS_Singleton, FS_AddElement
    <2> QED
        BY <2>1
  <1>2. \A S, T : IsFiniteSet(S) /\ IsFiniteSet(T) => IsFiniteSet(S \cup T)
      BY FS_Union
  <1>3. ASSUME NEW a, NEW b, NEW c, NEW d
        PROVE  IsFiniteSet({a, b, c, d})
    <2>1. {a, b, c, d} = {a, b} \cup {c, d}
        OBVIOUS
    <2>2. IsFiniteSet({a, b}) /\ IsFiniteSet({c, d})
        BY <1>1
    <2>3. IsFiniteSet({a, b} \cup {c, d})
        BY <1>2, <2>2
    <2> QED
        BY <2>1, <2>3
  <1>4. ASSUME NEW a, NEW b, NEW c, NEW d, NEW e, NEW f
        PROVE  IsFiniteSet({a, b, c, d, e, f})
    <2>1. {a, b, c, d, e, f} = {a, b, c, d} \cup {e, f}
        OBVIOUS
    <2>2. IsFiniteSet({a, b, c, d}) /\ IsFiniteSet({e, f})
        BY <1>1, <1>3
    <2>3. IsFiniteSet({a, b, c, d} \cup {e, f})
        BY <1>2, <2>2
    <2> QED
        BY <2>1, <2>3
  <1>5. ASSUME NEW a, NEW b, NEW c, NEW d, NEW e, NEW f, NEW g, NEW h
        PROVE  IsFiniteSet({a, b, c, d, e, f, g, h})
    <2>1. {a, b, c, d, e, f, g, h} = {a, b, c, d} \cup {e, f, g, h}
        OBVIOUS
    <2>2. IsFiniteSet({a, b, c, d}) /\ IsFiniteSet({e, f, g, h})
        BY <1>3
    <2>3. IsFiniteSet({a, b, c, d} \cup {e, f, g, h})
        BY <1>2, <2>2
    <2> QED
        BY <2>1, <2>3
  <1> QED
      BY <1>1, <1>3, <1>4, <1>5, Zenon

\* The directories among the markers are as many as their names.
LEMMA DirectoriesOfNames ==
    ASSUME NEW A, IsFiniteSet(A)
    PROVE  IsFiniteSet({Marker(n, "dir", FALSE) : n \in A})
  <1> DEFINE f == [n \in A |-> Marker(n, "dir", FALSE)]
             T == {Marker(n, "dir", FALSE) : n \in A}
  <1>1. f \in Surjection(A, T)
      BY DEF Surjection
  <1> QED
      BY <1>1, FS_Surjection

LEMMA TheMarkers ==
    /\ IsFiniteSet(Roots0)
    /\ \A m \in Roots0 : m.probe \in FiveProbes
  <1>1. IsFiniteSet(CodexRootMarkers)
    <2>1. IsFiniteSet({Marker(n, "dir", FALSE) : n \in {"archived_sessions", "skills", "rules", "memories", "plugins", "sqlite"}})
        BY FewAreFinite, DirectoriesOfNames
    <2>2. IsFiniteSet({Marker("auth.json", "json_object", TRUE), Marker("session_index.jsonl", "jsonl_of_objects", TRUE),
                       Marker("installation_id", "nonempty_file", TRUE), Marker("sessions", "sessions", TRUE),
                       Marker("config.toml", "nonempty_file", FALSE), Marker("history.jsonl", "jsonl_of_objects", FALSE)})
        BY FewAreFinite, Zenon
    <2> QED
        BY <2>1, <2>2, FS_Union, Zenon DEF CodexRootMarkers
  <1>2. IsFiniteSet(ClaudeRootMarkers)
    <2>1. IsFiniteSet({Marker(n, "dir", FALSE) : n \in {"file-history", "shell-snapshots", "plugins", "agent-memory",
                    "session-env", "tasks", "statsig", "todos"}})
        BY FewAreFinite, DirectoriesOfNames
    <2>2. IsFiniteSet({Marker("settings.json", "json_object", TRUE), Marker("keybindings.json", "json_object", TRUE),
                       Marker("projects", "sessions", TRUE), Marker("history.jsonl", "jsonl_of_objects", FALSE)})
        BY FewAreFinite, Zenon
    <2> QED
        BY <2>1, <2>2, FS_Union, Zenon DEF ClaudeRootMarkers
  <1>3. IsFiniteSet(Roots0)
      BY <1>1, <1>2, FS_Union, Zenon DEF Roots0
  <1>4. \A m \in Roots0 : m.probe \in FiveProbes
      BY DEF Roots0, CodexRootMarkers, ClaudeRootMarkers, Marker, FiveProbes
  <1> QED
      BY <1>3, <1>4

LEMMA LinksAreNotGood ==
    ASSUME NEW probe \in FiveProbes
    PROVE  /\ Good(probe, "link") = FALSE
           /\ \A shape : Good(probe, shape) \in BOOLEAN
  <1>1. CASE probe = "dir"
      BY <1>1 DEF Good
  <1>2. CASE probe = "nonempty_file"
      BY <1>2 DEF Good
  <1>3. CASE probe = "json_object"
      BY <1>3 DEF Good
  <1>4. CASE probe = "jsonl_of_objects"
      BY <1>4 DEF Good
  <1>5. CASE probe = "sessions"
      BY <1>5 DEF Good
  <1> QED
      BY <1>1, <1>2, <1>3, <1>4, <1>5 DEF FiveProbes

LEMMA ReadsOfAMarker ==
    ASSUME NEW m \in DOMAIN shelf, m.probe \in FiveProbes, NEW good \in Reads(m)
    PROVE  /\ good => shelf[m] = "link" \/ Good(m.probe, shelf[m])
           /\ Good(m.probe, shelf[m]) /\ shelf[m] # "crowded" => good
  <1>1. CASE shelf[m] = "link"
    <2>1. good = TRUE
        BY <1>1 DEF Reads
    <2> QED
        BY <1>1, <2>1
  <1>2. CASE shelf[m] # "link" /\ m.probe = "sessions" /\ shelf[m] = "crowded"
    <2>1. Good(m.probe, shelf[m])
        BY <1>2 DEF Good
    <2> QED
        BY <1>2, <2>1
  <1>3. CASE shelf[m] # "link" /\ ~(m.probe = "sessions" /\ shelf[m] = "crowded")
    <2>1. good = Good(m.probe, shelf[m])
        BY <1>3 DEF Reads
    <2> QED
        BY <2>1
  <1> QED
      BY <1>1, <1>2, <1>3

LEMMA LooksKeep ==
    ASSUME DOMAIN shelf \subseteq Roots0, MarkersHold, LookForLink \/ ReadMarker \/ Moves2
    PROVE  DOMAIN shelf' \subseteq Roots0 /\ MarkersHold'
  <1>1. \A m \in DOMAIN shelf : m.probe \in FiveProbes
      BY TheMarkers
  <1>2. CASE LookForLink
    <2>1. PICK m \in looks : \/ shelf[m] = "link" /\ looks' = looks \ {m} /\ UNCHANGED <<opened2, failed2>>
                             \/ shelf[m] # "link" /\ looks' = looks /\ opened2' = {m} /\ failed2' = failed2
                             \/ shelf[m] = "link" /\ looks' = looks /\ opened2' = {m} /\ failed2' = failed2 \cup {m}
        BY <1>2 DEF LookForLink, Fails
    <2>2. opened2 = {} /\ UNCHANGED <<shelf, found2, stood2, moved2, followed2>>
        BY <1>2 DEF LookForLink
    <2>3. m \in DOMAIN shelf /\ (shelf[m] = "link" => ~Good(m.probe, shelf[m]))
      <3>1. m \in DOMAIN shelf
          BY <2>1 DEF MarkersHold
      <3> QED
          BY <1>1, <3>1, LinksAreNotGood
    <2> QED
        BY <2>1, <2>2, <2>3 DEF MarkersHold
  <1>3. CASE ReadMarker
    <2>1. PICK m \in opened2 :
              /\ looks' = looks \ {m}
              /\ \/ \E good \in Reads(m) :
                       /\ found2' = found2 \cup IF good THEN {m} ELSE {}
                       /\ followed2' = followed2 \cup IF good /\ shelf[m] = "link" THEN {m} ELSE {}
                       /\ failed2' = failed2
                 \/ failed2' = failed2 \cup {m} /\ UNCHANGED <<found2, followed2>>
        BY <1>3 DEF ReadMarker, Fails
    <2>2. opened2' = {} /\ UNCHANGED <<shelf, stood2, moved2>>
        BY <1>3 DEF ReadMarker
    <2>3. m \in DOMAIN shelf /\ (shelf[m] = "link" => m \in moved2 \cup failed2)
        BY <2>1 DEF MarkersHold
    <2>4. CASE failed2' = failed2 \cup {m} /\ UNCHANGED <<found2, followed2>>
        BY <2>1, <2>2, <2>3, <2>4 DEF MarkersHold
    <2>5. CASE \E good \in Reads(m) :
                   /\ found2' = found2 \cup IF good THEN {m} ELSE {}
                   /\ followed2' = followed2 \cup IF good /\ shelf[m] = "link" THEN {m} ELSE {}
                   /\ failed2' = failed2
      <3>1. PICK good \in Reads(m) :
                   /\ found2' = found2 \cup IF good THEN {m} ELSE {}
                   /\ followed2' = followed2 \cup IF good /\ shelf[m] = "link" THEN {m} ELSE {}
                   /\ failed2' = failed2
          BY <2>5
      <3>2. /\ good => shelf[m] = "link" \/ Good(m.probe, shelf[m])
            /\ Good(m.probe, shelf[m]) /\ shelf[m] # "crowded" => good
          BY <1>1, <2>3, ReadsOfAMarker
      <3>3. good => m \in stood2 \cup followed2'
          BY <2>3, <3>1, <3>2 DEF MarkersHold
      <3>4. followed2 \subseteq followed2' /\ followed2' \subseteq moved2' \cup failed2'
          BY <2>2, <2>3, <3>1 DEF MarkersHold
      <3>5. found2' \subseteq stood2' \cup followed2'
          BY <2>2, <3>1, <3>3, <3>4 DEF MarkersHold
      <3>6. \A k \in DOMAIN shelf' \ (moved2' \cup failed2') :
                Good(k.probe, shelf'[k]) /\ shelf'[k] # "crowded" => k \in found2' \cup looks'
          BY <2>1, <2>2, <3>1, <3>2 DEF MarkersHold
      <3>7. found2' \subseteq DOMAIN shelf'
          BY <2>2, <2>3, <3>1 DEF MarkersHold
      <3> QED
          BY <2>1, <2>2, <3>4, <3>5, <3>6, <3>7 DEF MarkersHold
    <2> QED
        BY <2>1, <2>4, <2>5
  <1>4. CASE Moves2
    <2>1. PICK m \in DOMAIN shelf, shape \in {"absent", "link"} \cup Standing2 :
              /\ shelf' = [shelf EXCEPT ![m] = shape] /\ moved2' = moved2 \cup {m}
              /\ stood2' = stood2 \cup IF Good(m.probe, shape) THEN {m} ELSE {}
        BY <1>4 DEF Moves2
    <2>2. UNCHANGED <<looks, opened2, found2, failed2, followed2>>
        BY <1>4 DEF Moves2
    <2>3. DOMAIN shelf' = DOMAIN shelf /\ shelf'[m] = shape /\ \A k \in DOMAIN shelf \ {m} : shelf'[k] = shelf[k]
        BY <2>1
    <2>4. stood2 \subseteq stood2' /\ (Good(m.probe, shape) => m \in stood2')
        BY <2>1
    <2>5. \A k \in DOMAIN shelf' : Good(k.probe, shelf'[k]) => k \in stood2'
        BY <2>3, <2>4 DEF MarkersHold
    <2>6. \A k \in opened2' : shelf'[k] = "link" => k \in moved2' \cup failed2'
        BY <2>1, <2>2, <2>3 DEF MarkersHold
    <2>7. \A k \in DOMAIN shelf' \ (moved2' \cup failed2') :
              Good(k.probe, shelf'[k]) /\ shelf'[k] # "crowded" => k \in found2' \cup looks'
        BY <2>1, <2>2, <2>3 DEF MarkersHold
    <2> QED
        BY <2>1, <2>2, <2>3, <2>4, <2>5, <2>6, <2>7 DEF MarkersHold
  <1> QED
      BY <1>2, <1>3, <1>4

LEMMA OthersLeaveTheLooks ==
    RootClaimsNext =>
        \/ LookForLink \/ ReadMarker \/ Moves2
        \/ UNCHANGED looksVars
  BY DEF RootClaimsNext, ClaimRoot, ClaimSessions, ClaimNothing, StartProbe, TryWait, ProbeTimesOut,
         JoinReaders, RefuseManifest, ClaimManifestRoot, ClaimMatches, ClaimManifestNothing, ClaimReclaim,
         ChildEnds, OutputCloses, Claims, Answers2, Child2, historyVars2, looksVars

LEMMA AskedOnce == RootClaimsNext => asking' = asking /\ claim = {}
  BY DEF RootClaimsNext, LookForLink, ReadMarker, Moves2, ClaimRoot, ClaimSessions, ClaimNothing, StartProbe,
         TryWait, ProbeTimesOut, JoinReaders, RefuseManifest, ClaimManifestRoot, ClaimMatches,
         ClaimManifestNothing, ClaimReclaim, ChildEnds, OutputCloses, Claims, Answers2, Child2, historyVars2, Asking, Asks2

\* Two markers are one that identifies and another.
LEMMA TwoMarkers ==
    ASSUME NEW S, IsFiniteSet(S)
    PROVE  ((\E m \in S : m.identifying) /\ Cardinality(S) >= 2) <=> \E m \in S : m.identifying /\ S # {m}
  <1>1. Cardinality(S) \in Nat
      BY FS_CardinalityType
  <1>2. ASSUME NEW m \in S
        PROVE  Cardinality(S) >= 2 <=> S # {m}
    <2>1. Cardinality(S) # 0
        BY FS_EmptySet
    <2>2. S = {m} => Cardinality(S) = 1
        BY FS_Singleton
    <2>3. Cardinality(S) = 1 => S = {m}
      <3>1. Cardinality(S) = 1 => \E x : S = {x}
          BY FS_Singleton
      <3> QED
          BY <3>1
    <2> QED
        BY <1>1, <2>1, <2>2, <2>3
  <1> QED
      BY <1>2

LEMMA ClaimOfADetect ==
    ASSUME Detects, RootClaimsNext
    PROVE  \/ claim' = {}
           \/ /\ looks = {} /\ UNCHANGED looksVars
              /\ claim' = {RootOutcome(RootConfidence(asking.root.isDefault, found2))}
  <1>1. CASE ClaimRoot
      BY <1>1 DEF Detects, CustomAdapters, ClaimRoot, Asks2, Claims, Answers2, historyVars2, looksVars
  <1>2. CASE StartProbe \/ TryWait \/ ProbeTimesOut \/ JoinReaders
      BY <1>2 DEF Detects, CustomAdapters, StartProbe, TryWait, ProbeTimesOut, JoinReaders, Asking, Asks2
  <1>3. CASE ClaimSessions \/ ClaimNothing
      BY <1>3 DEF Detects, CustomAdapters, ClaimSessions, ClaimNothing, Asks2, SessionKinds
  <1>4. CASE RefuseManifest \/ ClaimManifestRoot \/ ClaimMatches \/ ClaimManifestNothing \/ ClaimReclaim
      BY <1>4 DEF Detects, CustomAdapters, RefuseManifest, ClaimManifestRoot, ClaimMatches,
                  ClaimManifestNothing, ClaimReclaim, Asks2
  <1>5. CASE LookForLink \/ ReadMarker \/ Moves2 \/ ChildEnds \/ OutputCloses
      BY <1>5 DEF LookForLink, ReadMarker, Moves2, ChildEnds, OutputCloses, Child2, historyVars2
  <1> QED
      BY <1>1, <1>2, <1>3, <1>4, <1>5 DEF RootClaimsNext

\* What a claim of a deletion's yield says.
OfTheDisk(told) ==
    told.support = "verified" =>
        /\ MountsOver(asking.mounts, asking.path) # {}
        /\ asking.mounts[MountFor(asking.mounts, asking.path)].fs \in NotSharing

LEMMA ClaimOfTheDisk ==
    ASSUME asking.adapter = "disk", RootClaimsNext
    PROVE  \A told \in claim' : OfTheDisk(told)
  <1>1. CASE ClaimReclaim
    <2> DEFINE known == MountsOver(asking.mounts, asking.path) # {}
               shares == known => asking.mounts[MountFor(asking.mounts, asking.path)].fs \notin NotSharing
               told == Outcome(IF asking.sizesKnown /\ ~shares THEN "verified" ELSE "estimated", "observed", {})
    <2>1. claim' = {told}
        BY <1>1 DEF ClaimReclaim, Claims, Answers2
    <2>2. told.support = IF asking.sizesKnown /\ ~shares THEN "verified" ELSE "estimated"
        BY DEF Outcome
    <2>3. OfTheDisk(told)
        BY <2>2 DEF OfTheDisk
    <2> QED
        BY <2>1, <2>3
  <1>2. CASE ClaimRoot \/ ClaimSessions \/ ClaimNothing \/ StartProbe \/ TryWait \/ ProbeTimesOut \/ JoinReaders
             \/ RefuseManifest \/ ClaimManifestRoot \/ ClaimMatches \/ ClaimManifestNothing
      BY <1>2 DEF ClaimRoot, ClaimSessions, ClaimNothing, StartProbe, TryWait, ProbeTimesOut, JoinReaders,
                  RefuseManifest, ClaimManifestRoot, ClaimMatches, ClaimManifestNothing, Asking, Asks2
  <1>3. CASE LookForLink \/ ReadMarker \/ Moves2 \/ ChildEnds \/ OutputCloses
      BY <1>3 DEF LookForLink, ReadMarker, Moves2, ChildEnds, OutputCloses, Child2, historyVars2
  <1> QED
      BY <1>1, <1>2, <1>3 DEF RootClaimsNext

\* The markers that were good throughout and that no look failed at.
SteadyMarkers ==
    {m \in DOMAIN shelf \ (moved2 \cup failed2) : Good(m.probe, shelf[m]) /\ shelf[m] # "crowded"}

\* What is told of a root fits what was there of it.
Evidenced(isDefault, told, evidence, steady) ==
    /\ told.support = "verified" <=> isDefault
    /\ told.confidence = "observed" => \E m \in evidence : m.identifying /\ evidence # {m}
    /\ ~isDefault /\ (\E m \in steady : m.identifying /\ steady # {m}) => told.confidence = "observed"
    /\ ~isDefault /\ evidence = {} => told.ceiling = {Observe}

\* A custom root is claimed by what was found of it.
LEMMA EvidenceOfARoot ==
    ASSUME DOMAIN shelf \subseteq Roots0, MarkersHold, looks = {}, NEW isDefault \in BOOLEAN
    PROVE  Evidenced(isDefault, RootOutcome(RootConfidence(isDefault, found2)), stood2 \cup followed2, SteadyMarkers)
  <1> DEFINE told == RootOutcome(RootConfidence(isDefault, found2))
             evidence == stood2 \cup followed2
             steady == SteadyMarkers
             Pair(S) == \E m \in S : m.identifying /\ S # {m}
             confidence == IF isDefault THEN "default" ELSE IF Pair(found2) THEN "high"
                           ELSE IF found2 # {} THEN "low" ELSE "unknown"
  <1>1. found2 \subseteq evidence /\ steady \subseteq found2
      BY DEF MarkersHold, SteadyMarkers
  <1>2. IsFiniteSet(found2)
    <2>1. found2 \in SUBSET Roots0
        BY DEF MarkersHold
    <2> QED
        BY <2>1, TheMarkers, FS_Subset
  <1>3. ((\E m \in found2 : m.identifying) /\ Cardinality(found2) >= 2) <=> Pair(found2)
      BY <1>2, TwoMarkers
  <1>4. RootConfidence(isDefault, found2) = confidence
      BY <1>3 DEF RootConfidence
  <1>5. \A S, T : S \subseteq T /\ Pair(S) => Pair(T)
      OBVIOUS
  <1>6. /\ RootOutcome("default") = Outcome("verified", "verified", {})
        /\ RootOutcome("high") = Outcome("supported_observed", "observed", {})
        /\ RootOutcome("low") = Outcome("supported_observed", "inferred", {Recommend})
        /\ RootOutcome("unknown") = Outcome("unsupported", "low_unknown", {Observe})
      BY DEF RootOutcome, SupportedObserved
  <1>7. \A s, c, u : /\ Outcome(s, c, u).support = s /\ Outcome(s, c, u).confidence = c
                     /\ Outcome(s, c, u).ceiling = u
      BY DEF Outcome
  <1>8. told = RootOutcome(confidence)
      BY <1>4
  <1>9. Pair(found2) => Pair(evidence)
      BY <1>1, <1>5
  <1>10. Pair(steady) => Pair(found2)
      BY <1>1, <1>5
  <1> HIDE DEF Pair, told, evidence, steady
  <1> SUFFICES Evidenced(isDefault, told, evidence, steady)
      BY DEF told, evidence, steady
  <1>11. CASE isDefault
      BY <1>6, <1>7, <1>8, <1>11 DEF Evidenced
  <1>12. CASE ~isDefault /\ Pair(found2)
    <2>1. told = Outcome("supported_observed", "observed", {})
        BY <1>6, <1>8, <1>12
    <2>2. evidence # {}
        BY <1>9, <1>12 DEF Pair
    <2> QED
        BY <1>7, <1>9, <1>12, <2>1, <2>2 DEF Evidenced, Pair
  <1>13. CASE ~isDefault /\ ~Pair(found2)
    <2>1. told.support # "verified" /\ told.confidence # "observed"
        BY <1>6, <1>7, <1>8, <1>13
    <2>2. ~Pair(steady)
        BY <1>10, <1>13
    <2>3. evidence = {} => told.ceiling = {Observe}
        BY <1>1, <1>6, <1>7, <1>8, <1>13
    <2> QED
        BY <1>13, <2>1, <2>2, <2>3 DEF Evidenced, Pair
  <1> QED
      BY <1>11, <1>12, <1>13

-----------------------------------------------------------------------------
(* RootClaims: the mount over a path.                                      *)

LEMMA LeastExists ==
    ASSUME NEW S \in SUBSET Nat, S # {}
    PROVE  \E i \in S : \A j \in S : i <= j
  <1>1. PICK i \in S : \A j \in S : <<j, i>> \notin OpToRel(<, Nat)
      BY NatLessThanWellFounded, WFMin
  <1>2. \A j \in S : ~(j < i)
      BY <1>1 DEF OpToRel
  <1> QED
      BY <1>2

LEMMA MaxOfPlaces ==
    ASSUME NEW n \in Nat, NEW S \in SUBSET (1 .. n), S # {}
    PROVE  Max(S) \in S /\ \A k \in S : k <= Max(S)
  <1> DEFINE Left == {n - k : k \in S}
  <1>1. Left \in SUBSET Nat /\ Left # {}
    <2>1. \A k \in S : k \in 1 .. n
        OBVIOUS
    <2>2. \A k \in 1 .. n : n - k \in Nat
        OBVIOUS
    <2> QED
        BY <2>1, <2>2
  <1>2. PICK d \in Left : \A e \in Left : d <= e
    <2> HIDE DEF Left
    <2> QED
        BY <1>1, LeastExists
  <1>3. PICK m \in S : d = n - m
      BY <1>2
  <1>4. \A k \in S : k <= m /\ k \in Int
    <2> TAKE k \in S
    <2>1. n - m <= n - k
        BY <1>2, <1>3
    <2> QED
        BY <2>1
  <1>5. \E x \in S : \A y \in S : x >= y
      BY <1>3, <1>4
  <1>6. Max(S) \in S /\ \A y \in S : Max(S) >= y
    <2> HIDE DEF Left
    <2> QED
        BY <1>5 DEF Max
  <1> QED
      BY <1>6

LEMMA PrefixesOfOne ==
    ASSUME NEW s \in Seq(STRING), NEW t \in Seq(STRING), NEW p \in Seq(STRING),
           IsPrefix(s, p), IsPrefix(t, p), Len(s) <= Len(t)
    PROVE  IsPrefix(s, t)
  <1>1. Len(s) \in Nat /\ Len(t) \in Nat /\ Len(p) \in Nat /\ Len(s) <= Len(p) /\ Len(t) <= Len(p)
      BY DEF IsPrefix
  <1>2. SubSeq(s, 1, Len(s)) = SubSeq(p, 1, Len(s)) /\ SubSeq(t, 1, Len(t)) = SubSeq(p, 1, Len(t))
      BY DEF IsPrefix
  <1>3. \A k \in 1 .. Len(s) : s[k] = p[k] /\ t[k] = p[k]
    <2> TAKE k \in 1 .. Len(s)
    <2>1. SubSeq(s, 1, Len(s))[k] = s[k] /\ SubSeq(p, 1, Len(s))[k] = p[k]
        BY <1>1
    <2>2. SubSeq(t, 1, Len(t))[k] = t[k] /\ SubSeq(p, 1, Len(t))[k] = p[k]
        BY <1>1
    <2> QED
        BY <1>2, <2>1, <2>2
  <1>4. SubSeq(s, 1, Len(s)) = SubSeq(t, 1, Len(s))
    <2>1. SubSeq(s, 1, Len(s)) = [k \in 1 .. Len(s) |-> s[k]]
        BY <1>1
    <2>2. SubSeq(t, 1, Len(s)) = [k \in 1 .. Len(s) |-> t[k]]
        BY <1>1
    <2> QED
        BY <1>3, <2>1, <2>2
  <1> QED
      BY <1>4 DEF IsPrefix

\* Where no mount hides another, the last of the longest is the last.
LEMMA TheLastIsLongest ==
    ASSUME NEW mounts \in Mounts, NEW path \in Paths, MountsOver(mounts, path) # {}, NoneHidden(mounts)
    PROVE  MountFor(mounts, path) = Max(MountsOver(mounts, path))
  <1> DEFINE over == MountsOver(mounts, path)
             longest == {n \in over : \A k \in over : Len(mounts[k].at) <= Len(mounts[n].at)}
             last == Max(over)
  <1>0. over # {}
      OBVIOUS
  <1>1. mounts \in Seq([at : Seq(STRING), fs : STRING]) /\ path \in Seq(STRING)
      BY RootClaimsAssumption
  <1>2. /\ Len(mounts) \in Nat /\ over \in SUBSET (1 .. Len(mounts))
        /\ \A n \in 1 .. Len(mounts) : mounts[n].at \in Seq(STRING)
    <2>1. Len(mounts) \in Nat /\ DOMAIN mounts = 1 .. Len(mounts)
        BY <1>1
    <2>2. \A n \in 1 .. Len(mounts) : mounts[n] \in [at : Seq(STRING), fs : STRING]
        BY <1>1, <2>1, MembersOfASequence
    <2> QED
        BY <2>1, <2>2 DEF MountsOver
  <1>3. \A n \in over : n \in DOMAIN mounts /\ IsPrefix(mounts[n].at, path)
      BY DEF MountsOver
  <1>4. MountFor(mounts, path) = Max(longest)
      BY DEF MountFor
  <1>5. last \in over /\ \A k \in over : k <= last
    <2> HIDE DEF over
    <2> QED
        BY <1>0, <1>2, MaxOfPlaces
  <1> HIDE DEF over, last
  <1>6. last \in longest
    <2> SUFFICES ASSUME NEW k \in over, ~(Len(mounts[k].at) <= Len(mounts[last].at))
                 PROVE  FALSE
        BY <1>5
    <2>1. mounts[k].at \in Seq(STRING) /\ mounts[last].at \in Seq(STRING)
        BY <1>2, <1>5
    <2>2. Len(mounts[last].at) <= Len(mounts[k].at) /\ mounts[last].at # mounts[k].at
        BY <2>1
    <2>3. IsPrefix(mounts[last].at, mounts[k].at)
        BY <1>1, <1>3, <1>5, <2>1, <2>2, PrefixesOfOne
    <2>4. k < last
        BY <1>2, <1>5, <2>2
    <2> QED
        BY <1>3, <1>5, <2>2, <2>3, <2>4 DEF NoneHidden, IsStrictPrefix
  <1>7. longest \in SUBSET (1 .. Len(mounts)) /\ longest # {}
      BY <1>2, <1>6
  <1>8. Max(longest) \in longest /\ \A k \in longest : k <= Max(longest)
    <2> HIDE DEF longest
    <2> QED
        BY <1>2, <1>7, MaxOfPlaces
  <1>9. Max(longest) <= last /\ last <= Max(longest)
      BY <1>5, <1>6, <1>8
  <1>10. Max(longest) \in Nat /\ last \in Nat
    <2> HIDE DEF longest
    <2>1. Max(longest) \in 1 .. Len(mounts) /\ last \in 1 .. Len(mounts)
        BY <1>2, <1>5, <1>7, <1>8, Zenon
    <2> QED
        BY <2>1
  <1> QED
      BY <1>4, <1>9, <1>10 DEF last, over

-----------------------------------------------------------------------------
(* RootClaims: claims rest on evidence.                                    *)

ClaimsInv ==
    /\ asking \in Questions
    /\ Detects => DOMAIN shelf \subseteq Roots0 /\ MarkersHold
    /\ RootsRestOnEvidence

LEMMA WhatIsAsked ==
    ASSUME asking \in Questions
    PROVE  /\ Detects => asking.root.isDefault \in BOOLEAN
           /\ asking.adapter = "disk" => asking.mounts \in Mounts /\ asking.path \in Paths
  <1>1. asking \in Asked
      BY DEF Questions
  <1>2. \A r \in ResolvedRoots : r.isDefault \in BOOLEAN
    <2>1. ASSUME NEW o \in {"none", "same", "other"}, NEW h \in BOOLEAN, NEW l \in BOOLEAN
          PROVE  ResolveFrom(o, h, l).isDefault \in BOOLEAN
      <3>1. CASE o = "none"
          BY <3>1 DEF ResolveFrom, Unresolved
      <3>2. CASE o = "same"
          BY <3>2 DEF ResolveFrom
      <3>3. CASE o = "other"
          BY <3>3 DEF ResolveFrom
      <3> QED
          BY <3>1, <3>2, <3>3
    <2>2. ASSUME NEW r \in ResolvedRoots
          PROVE  r.isDefault \in BOOLEAN
      <3>1. \E o \in {"none", "same", "other"}, h \in BOOLEAN, l \in BOOLEAN : r = ResolveFrom(o, h, l)
        <4>1. r \in {ResolveFrom(o, h, l) : o \in {"none", "same", "other"}, h, l \in BOOLEAN}
            BY DEF ResolvedRoots
        <4> QED
            BY <4>1, SMT
      <3>2. PICK o \in {"none", "same", "other"}, h \in BOOLEAN, l \in BOOLEAN : r = ResolveFrom(o, h, l)
          BY <3>1
      <3> QED
          BY <2>1, <3>2, Zenon
    <2> QED
        BY <2>2
  <1>3. ASSUME Detects
        PROVE  asking.root \in ResolvedRoots
      BY <1>1, <1>3 DEF Asked, Detects, CustomAdapters, SessionKinds
  <1>4. ASSUME asking.adapter = "disk"
        PROVE  asking.mounts \in Mounts /\ asking.path \in Paths
      BY <1>1, <1>4 DEF Asked
  <1> QED
      BY <1>2, <1>3, <1>4

LEMMA ClaimsInitially == RootClaimsInit => ClaimsInv
  <1> SUFFICES ASSUME RootClaimsInit PROVE ClaimsInv
      OBVIOUS
  <1>1. /\ asking \in Questions /\ looks = MarkersFor(asking) /\ DOMAIN shelf = looks
        /\ opened2 = {} /\ found2 = {} /\ claim = {} /\ moved2 = {}
        /\ failed2 = {} /\ followed2 = {}
        /\ stood2 = {m \in looks : Good(m.probe, shelf[m])}
      BY DEF RootClaimsInit
  <1>2. Detects => MarkersFor(asking) \subseteq Roots0
    <2>1. CASE asking.adapter = "codex" /\ asking.kind = "detect"
      <3>1. MarkersFor(asking) \subseteq CodexRootMarkers
          BY <2>1 DEF MarkersFor
      <3> QED
          BY <3>1 DEF Roots0
    <2>2. CASE asking.adapter = "claude" /\ asking.kind = "detect"
      <3>1. MarkersFor(asking) \subseteq ClaudeRootMarkers
          BY <2>2 DEF MarkersFor
      <3> QED
          BY <3>1 DEF Roots0
    <2> QED
        BY <2>1, <2>2 DEF Detects, CustomAdapters
  <1>3. MarkersHold
      BY <1>1 DEF MarkersHold
  <1>4. RootsRestOnEvidence
      BY <1>1 DEF RootsRestOnEvidence
  <1> QED
      BY <1>1, <1>2, <1>3, <1>4 DEF ClaimsInv

LEMMA ClaimsKeep ==
    ASSUME ClaimsInv, RootClaimsNext
    PROVE  ClaimsInv'
  <1>1. asking' = asking /\ claim = {}
      BY AskedOnce
  <1>2. asking' \in Questions
      BY <1>1 DEF ClaimsInv
  <1>3. Detects' = Detects
      BY <1>1 DEF Detects
  <1>4. Detects => DOMAIN shelf' \subseteq Roots0 /\ MarkersHold'
    <2> SUFFICES ASSUME Detects PROVE DOMAIN shelf' \subseteq Roots0 /\ MarkersHold'
        OBVIOUS
    <2>1. CASE LookForLink \/ ReadMarker \/ Moves2
        BY <2>1, LooksKeep DEF ClaimsInv
    <2>2. CASE UNCHANGED looksVars
        BY <2>2 DEF ClaimsInv, MarkersHold, looksVars
    <2> QED
        BY <2>1, <2>2, OthersLeaveTheLooks
  <1>5. RootsRestOnEvidence'
    <2> SUFFICES ASSUME NEW told \in claim'
                 PROVE  LET pair(markers) == \E m \in markers : m.identifying /\ markers # {m}
                            evidence == stood2' \cup followed2'
                            steady == {m \in DOMAIN shelf' \ (moved2' \cup failed2') :
                                          Good(m.probe, shelf'[m]) /\ shelf'[m] # "crowded"}
                        IN  /\ Detects =>
                                 /\ followed2' \subseteq moved2' \cup failed2'
                                 /\ told.support = "verified" <=> asking.root.isDefault
                                 /\ told.confidence = "observed" => pair(evidence)
                                 /\ ~asking.root.isDefault /\ pair(steady) => told.confidence = "observed"
                                 /\ ~asking.root.isDefault /\ evidence = {} => told.ceiling = {Observe}
                            /\ asking.adapter = "disk" /\ told.support = "verified" /\ NoneHidden(asking.mounts) =>
                                 MountedLast(asking.mounts, asking.path).fs \in NotSharing
      <3>1. asking' = asking
          BY <1>1
      <3> QED
          BY <3>1, Zenon DEF RootsRestOnEvidence, Detects, CustomAdapters, Good
    <2>1. ASSUME Detects
          PROVE  /\ UNCHANGED looksVars
                 /\ followed2 \subseteq moved2 \cup failed2
                 /\ Evidenced(asking.root.isDefault, told, stood2 \cup followed2, SteadyMarkers)
      <3>1. /\ looks = {} /\ UNCHANGED looksVars
            /\ told = RootOutcome(RootConfidence(asking.root.isDefault, found2))
          BY <2>1, ClaimOfADetect
      <3>2. asking.root.isDefault \in BOOLEAN
          BY <2>1, WhatIsAsked DEF ClaimsInv
      <3>3. DOMAIN shelf \subseteq Roots0 /\ MarkersHold
          BY <2>1 DEF ClaimsInv
      <3>4. followed2 \subseteq moved2 \cup failed2
          BY <3>3 DEF MarkersHold
      <3> QED
          BY <3>1, <3>2, <3>3, <3>4, EvidenceOfARoot
    <2>2. ASSUME asking.adapter = "disk", told.support = "verified", NoneHidden(asking.mounts)
          PROVE  MountedLast(asking.mounts, asking.path).fs \in NotSharing
      <3>1. /\ MountsOver(asking.mounts, asking.path) # {}
            /\ asking.mounts[MountFor(asking.mounts, asking.path)].fs \in NotSharing
          BY <2>2, ClaimOfTheDisk DEF OfTheDisk
      <3>2. asking.mounts \in Mounts /\ asking.path \in Paths
          BY <2>2, WhatIsAsked DEF ClaimsInv
      <3>3. MountFor(asking.mounts, asking.path) = Max(MountsOver(asking.mounts, asking.path))
          BY <2>2, <3>1, <3>2, TheLastIsLongest
      <3> QED
          BY <3>1, <3>3 DEF MountedLast
    <2> QED
        BY <2>1, <2>2 DEF looksVars, Evidenced, SteadyMarkers
  <1> QED
      BY <1>2, <1>3, <1>4, <1>5 DEF ClaimsInv

\* What is said of a root the user named rests on what stood there at some
\* moment of the looks, or behind a link that no look could refuse, and what
\* stood throughout is missed only where a look at it failed, whatever appears,
\* goes and is replaced between them (derive_root_confidence, root_probe.rs); what a deletion frees is verified only where the file system
\* last mounted over the path shares no blocks (filesystem_kind.rs, reclaim.rs).
THEOREM RootClaimsRestOnEvidence == InterfacesSpec => []RootsRestOnEvidence
  <1>1. InterfacesInit => ClaimsInv
      BY ClaimsInitially DEF InterfacesInit
  <1>2. ClaimsInv /\ [InterfacesNext]_interfacesVars => ClaimsInv'
    <2> SUFFICES ASSUME ClaimsInv, [InterfacesNext]_interfacesVars PROVE ClaimsInv'
        OBVIOUS
    <2>1. RootClaimsNext \/ UNCHANGED claimVars
        BY DEF InterfacesNext, interfacesVars, ClaimsUse
    <2>2. CASE UNCHANGED claimVars
        BY <2>2 DEF claimVars, historyVars2, ClaimsInv, Detects, MarkersHold, RootsRestOnEvidence
    <2> QED
        BY <2>1, <2>2, ClaimsKeep
  <1>3. ClaimsInv => RootsRestOnEvidence
      BY DEF ClaimsInv
  <1> QED
      BY <1>1, <1>2, <1>3, PTL DEF InterfacesSpec

-----------------------------------------------------------------------------
(* RootClaims: what a pattern matches.                                     *)

\* What holds at first and is kept by each step holds after all of them.
LEMMA StepByStep ==
    ASSUME NEW from \in Nat, NEW to \in Nat, NEW T,
           from \in T,
           \A n \in from .. to - 1 : n \in T => n + 1 \in T
    PROVE  \A n \in from .. to : n \in T
  <1> DEFINE Lacking == {n \in from .. to : n \notin T}
  <1>1. SUFFICES ASSUME Lacking # {} PROVE FALSE
      OBVIOUS
  <1>2. Lacking \in SUBSET Nat
      OBVIOUS
  <1>3. PICK m \in Lacking : \A n \in Lacking : m <= n
    <2> HIDE DEF Lacking
    <2> QED
        BY <1>1, <1>2, LeastExists
  <1>4. m # from /\ m \in Nat /\ from < m /\ m <= to
      BY <1>3
  <1>5. m - 1 \in from .. to - 1 /\ m - 1 \notin Lacking
      BY <1>3, <1>4
  <1>6. m - 1 \in T
      BY <1>5
  <1>7. (m - 1) + 1 \in T
      BY <1>5, <1>6
  <1> QED
      BY <1>3, <1>4, <1>7

LEMMA MinOfPlaces ==
    ASSUME NEW S \in SUBSET Nat, S # {}
    PROVE  Min(S) \in S /\ \A k \in S : Min(S) <= k
  <1>1. PICK m \in S : \A k \in S : m <= k
      BY LeastExists
  <1>2. \E m2 \in S : \A k \in S : m2 <= k
      BY <1>1
  <1> QED
      BY <1>2, Zenon DEF Min

\* A value for each place, from the one at an earlier place.
Placed(c, S, least, first, step, before) ==
    c \in [S -> Int] /\ \A k \in S : c[k] = IF k = least THEN first ELSE step[k][c[before[k]]]

LEMMA PlaceByPlace ==
    ASSUME NEW n \in Nat, NEW S \in SUBSET (1 .. n), NEW least, NEW first \in Int,
           NEW step \in [S -> [Int -> Int]], NEW before,
           \A k \in S : k # least => before[k] \in S /\ before[k] < k
    PROVE  \E c : Placed(c, S, least, first, step, before)
  <1> DEFINE Value(c, k) == IF k = least THEN first ELSE step[k][c[before[k]]]
             Done(c, m) == \A k \in S : k <= m => c[k] = Value(c, k)
             T == {m \in 0 .. n : \E c \in [S -> Int] : Done(c, m)}
  <1>1. 0 \in T
    <2> DEFINE f == [k \in S |-> first]
    <2>1. f \in [S -> Int]
        OBVIOUS
    <2>2. \A k \in S : ~(k <= 0)
        OBVIOUS
    <2>3. Done(f, 0)
        BY <2>2
    <2>4. 0 \in 0 .. n
        OBVIOUS
    <2> HIDE DEF f, Done
    <2> QED
        BY <2>1, <2>3, <2>4
  <1>2. ASSUME NEW m \in 0 .. n - 1, m \in T
        PROVE  m + 1 \in T
    <2>1. PICK c \in [S -> Int] : Done(c, m)
        BY <1>2
    <2>2. m + 1 \in 0 .. n
        OBVIOUS
    <2>3. CASE m + 1 \notin S
      <3>1. \A k \in S : k <= m + 1 => k <= m
          BY <2>3
      <3> QED
          BY <2>1, <2>2, <3>1
    <2>4. CASE m + 1 \in S
      <3> DEFINE v == Value(c, m + 1)
                 d == [k \in S |-> IF k = m + 1 THEN v ELSE c[k]]
      <3>1. v \in Int
        <4>1. CASE m + 1 = least
            BY <4>1
        <4>2. CASE m + 1 # least
          <5>1. before[m + 1] \in S
              BY <2>4, <4>2
          <5>2. c[before[m + 1]] \in Int
              BY <5>1
          <5>3. step[m + 1] \in [Int -> Int]
              BY <2>4
          <5>4. step[m + 1][c[before[m + 1]]] \in Int
              BY <5>2, <5>3
          <5> QED
              BY <4>2, <5>4
        <4> QED
            BY <4>1, <4>2
      <3> HIDE DEF v
      <3>2. d \in [S -> Int] /\ d[m + 1] = v /\ \A k \in S : k # m + 1 => d[k] = c[k]
          BY <2>4, <3>1
      <3> HIDE DEF d
      <3>3. ASSUME NEW k \in S, k <= m + 1
            PROVE  Value(d, k) = Value(c, k)
        <4>1. CASE k = least
            BY <4>1
        <4>2. CASE k # least
          <5>1. before[k] \in S /\ before[k] < k
              BY <4>2
          <5>2. before[k] # m + 1
              BY <3>3, <5>1
          <5>3. d[before[k]] = c[before[k]]
              BY <3>2, <5>1, <5>2
          <5> QED
              BY <4>2, <5>3
        <4> QED
            BY <4>1, <4>2
      <3>4. ASSUME NEW k \in S, k <= m + 1
            PROVE  d[k] = Value(d, k)
        <4> HIDE DEF Value
        <4>1. Value(d, k) = Value(c, k)
            BY <3>3, <3>4
        <4>2. CASE k = m + 1
            BY <3>2, <4>1, <4>2 DEF v
        <4>3. CASE k # m + 1
          <5>1. k <= m
              BY <3>4, <4>3
          <5> QED
              BY <2>1, <3>2, <4>1, <4>3, <5>1
        <4> QED
            BY <4>2, <4>3
      <3> HIDE DEF Value
      <3>5. Done(d, m + 1)
          BY <3>4
      <3> HIDE DEF Done
      <3> QED
          BY <2>2, <3>2, <3>5
    <2> QED
        BY <2>3, <2>4
  <1>3. n \in T
    <2> HIDE DEF T
    <2>1. n \in 0 .. n /\ 0 \in Nat
        OBVIOUS
    <2>2. \A m \in 0 .. n : m \in T
        BY <1>1, <1>2, <2>1, StepByStep
    <2> QED
        BY <2>1, <2>2
  <1>4. PICK c \in [S -> Int] : Done(c, n)
      BY <1>3
  <1>5. \A k \in S : k <= n
      OBVIOUS
  <1>6. Placed(c, S, least, first, step, before)
      BY <1>4, <1>5 DEF Placed
  <1> QED
      BY <1>6

\* How much of the text the first characters of the pattern stand for.
Upto(r, p, t) ==
    r = [i \in 0 .. Len(p) |->
            IF i = 0 THEN {0}
            ELSE IF p[i] = "*" THEN {j \in 0 .. Len(t) : \E k \in r[i - 1] : k <= j}
            ELSE {j \in 1 .. Len(t) : j - 1 \in r[i - 1] /\ t[j] = p[i]}]
UptoOf(p, t) == CHOOSE r : Upto(r, p, t)

Reaches(r, p, t) ==
    /\ r[0] = {0} /\ \A i \in 0 .. Len(p) : r[i] \in SUBSET (0 .. Len(t))
    /\ \A i \in 1 .. Len(p) :
          \/ p[i] = "*" /\ r[i] = {j \in 0 .. Len(t) : \E k \in r[i - 1] : k <= j}
          \/ p[i] # "*" /\ r[i] = {j \in 1 .. Len(t) : j - 1 \in r[i - 1] /\ t[j] = p[i]}

LEMMA MeansUpto ==
    ASSUME NEW p, NEW t
    PROVE  Means(p, t) = (Len(t) \in UptoOf(p, t)[Len(p)])
  BY DEF Means, UptoOf, Upto

LEMMA UptoExists ==
    ASSUME NEW p \in Seq(STRING), NEW t \in Seq(STRING)
    PROVE  \E r : Upto(r, p, t)
  <1> DEFINE n == Len(p)
             At(c, i) == IF i = 0 THEN {0}
                         ELSE IF p[i] = "*" THEN {j \in 0 .. Len(t) : \E k \in c[i - 1] : k <= j}
                         ELSE {j \in 1 .. Len(t) : j - 1 \in c[i - 1] /\ t[j] = p[i]}
             Done(c, m) == \A i \in 0 .. m : c[i] = At(c, i)
             T == {m \in 0 .. n : \E c : Done(c, m)}
  <1>1. n \in Nat
      OBVIOUS
  <1> HIDE DEF n
  <1>2. 0 \in T
    <2> DEFINE c == [i \in 0 .. n |-> {0}]
    <2>1. c[0] = {0}
        BY <1>1
    <2>2. \A i \in 0 .. 0 : i = 0
        OBVIOUS
    <2>3. Done(c, 0)
        BY <2>1, <2>2
    <2>4. 0 \in 0 .. n
        BY <1>1
    <2> HIDE DEF c, Done
    <2> QED
        BY <2>3, <2>4
  <1>3. ASSUME NEW m \in 0 .. n - 1, m \in T
        PROVE  m + 1 \in T
    <2>1. PICK c : Done(c, m)
        BY <1>3
    <2>2. m \in Nat /\ m + 1 \in 0 .. n
        BY <1>1
    <2> DEFINE v == At(c, m + 1)
               d == [i \in 0 .. n |-> IF i = m + 1 THEN v ELSE c[i]]
    <2> HIDE DEF v
    <2>3. \A i \in 0 .. n : d[i] = IF i = m + 1 THEN v ELSE c[i]
        OBVIOUS
    <2> HIDE DEF d
    <2>4. ASSUME NEW i \in 0 .. m + 1
          PROVE  At(d, i) = At(c, i)
      <3>1. CASE i = 0
          BY <3>1
      <3>2. CASE i # 0
        <4>1. i - 1 \in 0 .. n /\ i - 1 # m + 1
            BY <1>1, <2>2, <3>2
        <4>2. d[i - 1] = c[i - 1]
            BY <2>3, <4>1
        <4> QED
            BY <3>2, <4>2
      <3> QED
          BY <3>1, <3>2
    <2>5. ASSUME NEW i \in 0 .. m + 1
          PROVE  d[i] = At(d, i)
      <3>1. At(d, i) = At(c, i)
          BY <2>4
      <3> HIDE DEF At
      <3>2. i \in 0 .. n
          BY <2>2, <1>1
      <3>3. CASE i = m + 1
          BY <2>3, <3>1, <3>2, <3>3 DEF v
      <3>4. CASE i # m + 1
        <4>1. i \in 0 .. m
            BY <2>2, <3>4
        <4> QED
            BY <2>1, <2>3, <3>1, <3>2, <3>4, <4>1
      <3> QED
          BY <3>3, <3>4
    <2> HIDE DEF At
    <2>6. Done(d, m + 1)
        BY <2>5
    <2> HIDE DEF Done
    <2> QED
        BY <2>2, <2>6
  <1>4. n \in T
    <2> HIDE DEF T
    <2>1. n \in 0 .. n /\ 0 \in Nat
        BY <1>1
    <2>2. \A m \in 0 .. n : m \in T
        BY <1>1, <1>2, <1>3, <2>1, StepByStep
    <2> QED
        BY <2>1, <2>2
  <1>5. PICK c : Done(c, n)
      BY <1>4
  <1> DEFINE r == [i \in 0 .. n |-> c[i]]
  <1>6. \A i \in 0 .. n : r[i] = c[i]
      OBVIOUS
  <1>7. ASSUME NEW i \in 0 .. n
        PROVE  At(c, i) = At(r, i)
    <2> HIDE DEF r
    <2>1. CASE i = 0
        BY <2>1
    <2>2. CASE i # 0
      <3>1. i - 1 \in 0 .. n
          BY <1>1, <2>2
      <3>2. r[i - 1] = c[i - 1]
          BY <1>6, <3>1
      <3> QED
          BY <2>2, <3>2
    <2> QED
        BY <2>1, <2>2
  <1>8. r = [i \in 0 .. n |-> At(r, i)]
    <2>1. \A i \in 0 .. n : c[i] = At(r, i)
      <3> HIDE DEF At, r
      <3> QED
          BY <1>5, <1>7
    <2> QED
        BY <2>1
  <1> QED
      BY <1>8, Zenon DEF Upto, n

LEMMA UptoReaches ==
    ASSUME NEW p \in Seq(STRING), NEW t \in Seq(STRING)
    PROVE  Reaches(UptoOf(p, t), p, t)
  <1> DEFINE r == UptoOf(p, t)
  <1>1. Upto(r, p, t)
      BY UptoExists, Zenon DEF UptoOf
  <1>2. Len(p) \in Nat /\ Len(t) \in Nat
      OBVIOUS
  <1> HIDE DEF r
  <1>3. \A i \in 0 .. Len(p) :
           r[i] = IF i = 0 THEN {0}
                  ELSE IF p[i] = "*" THEN {j \in 0 .. Len(t) : \E k \in r[i - 1] : k <= j}
                  ELSE {j \in 1 .. Len(t) : j - 1 \in r[i - 1] /\ t[j] = p[i]}
      BY <1>1 DEF Upto
  <1>4. 0 \in 0 .. Len(p) /\ \A i \in 1 .. Len(p) : i \in 0 .. Len(p) /\ i # 0
      BY <1>2
  <1>5. r[0] = {0}
      BY <1>3, <1>4
  <1>6. \A i \in 1 .. Len(p) :
          \/ p[i] = "*" /\ r[i] = {j \in 0 .. Len(t) : \E k \in r[i - 1] : k <= j}
          \/ p[i] # "*" /\ r[i] = {j \in 1 .. Len(t) : j - 1 \in r[i - 1] /\ t[j] = p[i]}
      BY <1>3, <1>4
  <1>7. ASSUME NEW i \in 0 .. Len(p)
        PROVE  r[i] \in SUBSET (0 .. Len(t))
    <2>1. CASE i = 0
        BY <1>2, <1>5, <2>1
    <2>2. CASE i # 0
      <3>1. i \in 1 .. Len(p)
          BY <1>2, <2>2
      <3> QED
          BY <1>2, <1>6, <3>1
    <2> QED
        BY <2>1, <2>2
  <1> QED
      BY <1>5, <1>6, <1>7 DEF Reaches, r

\* A piece of the pattern without a star stands for itself.
NoStars(p, a, b) == \A i \in a + 1 .. b : p[i] # "*"
StandsFor(p, t, r, a, b, j) ==
    j \in r[b] <=> j - (b - a) \in r[a] /\ j <= Len(t) /\ \A i \in a + 1 .. b : t[j - (b - i)] = p[i]

LEMMA PiecesStandForThemselves ==
    ASSUME NEW p \in Seq(STRING), NEW t \in Seq(STRING), NEW r, Reaches(r, p, t),
           NEW a \in 0 .. Len(p), NEW b \in a .. Len(p), NoStars(p, a, b),
           NEW j \in Int
    PROVE  StandsFor(p, t, r, a, b, j)
  <1> DEFINE Same(m) == \A k \in Int :
                 k \in r[m] <=> /\ k - (m - a) \in r[a] /\ k <= Len(t)
                                /\ \A i \in a + 1 .. m : t[k - (m - i)] = p[i]
             T == {m \in a .. b : Same(m)}
  <1>1. Len(p) \in Nat /\ Len(t) \in Nat /\ a \in Nat /\ b \in Nat /\ a <= b /\ b <= Len(p)
      OBVIOUS
  <1>2. a \in T
    <2>1. r[a] \in SUBSET (0 .. Len(t))
        BY <1>1 DEF Reaches
    <2>2. \A i \in a + 1 .. a : FALSE
        BY <1>1
    <2>3. Same(a)
        BY <1>1, <2>1, <2>2
    <2> QED
        BY <1>1, <2>3
  <1>3. ASSUME NEW m \in a .. b - 1, m \in T
        PROVE  m + 1 \in T
    <2>1. m \in Nat /\ m + 1 \in 1 .. Len(p) /\ m + 1 \in a + 1 .. b /\ (m + 1) - 1 = m
        BY <1>1
    <2>2. r[m + 1] = {k \in 1 .. Len(t) : k - 1 \in r[m] /\ t[k] = p[m + 1]}
        BY <2>1 DEF Reaches, NoStars
    <2>3. r[a] \in SUBSET (0 .. Len(t))
        BY <1>1 DEF Reaches
    <2>4. ASSUME NEW k \in Int
          PROVE  k \in r[m + 1] <=> /\ k - ((m + 1) - a) \in r[a] /\ k <= Len(t)
                                    /\ \A i \in a + 1 .. m + 1 : t[k - ((m + 1) - i)] = p[i]
      <3>1. k - 1 \in r[m] <=> /\ (k - 1) - (m - a) \in r[a] /\ k - 1 <= Len(t)
                               /\ \A i \in a + 1 .. m : t[(k - 1) - (m - i)] = p[i]
        <4>1. Same(m) /\ k - 1 \in Int
            BY <1>3
        <4> QED
            BY <4>1
      <3>2. (k - 1) - (m - a) = k - ((m + 1) - a)
          BY <1>1, <2>1
      <3>3. \A i \in a + 1 .. m : (k - 1) - (m - i) = k - ((m + 1) - i)
          BY <1>1, <2>1
      <3>4. k - ((m + 1) - (m + 1)) = k
          BY <2>1
      <3>5. a + 1 .. m + 1 = (a + 1 .. m) \cup {m + 1}
          BY <1>1, <2>1
      <3>6. k - ((m + 1) - a) \in r[a] => k >= 1
        <4> SUFFICES ASSUME k - ((m + 1) - a) \in r[a] PROVE k >= 1
            OBVIOUS
        <4>1. k - ((m + 1) - a) \in 0 .. Len(t)
            BY <2>3
        <4> QED
            BY <1>1, <2>1, <4>1
      <3>7. (\A i \in a + 1 .. m + 1 : t[k - ((m + 1) - i)] = p[i])
             <=> (\A i \in a + 1 .. m : t[(k - 1) - (m - i)] = p[i]) /\ t[k] = p[m + 1]
          BY <3>3, <3>4, <3>5
      <3>8. k \in r[m + 1] <=> k >= 1 /\ k <= Len(t) /\ k - 1 \in r[m] /\ t[k] = p[m + 1]
          BY <1>1, <2>2
      <3>9. k <= Len(t) => k - 1 <= Len(t)
          BY <1>1
      <3> QED
          BY <3>1, <3>2, <3>6, <3>7, <3>8, <3>9
    <2>5. Same(m + 1)
        BY <2>4
    <2>6. m + 1 \in a .. b
        BY <1>1, <2>1
    <2> HIDE DEF Same
    <2> QED
        BY <2>5, <2>6
  <1>4. b \in T
    <2> HIDE DEF T
    <2>1. \A m \in a .. b : m \in T
        BY <1>1, <1>2, <1>3, StepByStep
    <2>2. b \in a .. b
        BY <1>1
    <2> QED
        BY <2>1, <2>2
  <1> QED
      BY <1>4 DEF StandsFor

PieceBefore(p, n) == SubSeq(p, Before(Stars(p), n) + 1, n - 1)
FirstPiece(p) == SubSeq(p, 1, Min(Stars(p)) - 1)
LastPiece(p) == SubSeq(p, Max(Stars(p)) + 1, Len(p))

\* Where the search goes on after the piece before star n.
FromThere(p, w, n, from) ==
    LET at == IF from = -1 THEN {} ELSE Occurs(PieceBefore(p, n), w, from)
    IN  IF at = {} THEN -1 ELSE Min(at) + Len(PieceBefore(p, n))
Searches(c, p, w) ==
    c = [n \in Stars(p) |->
            IF n = Min(Stars(p)) THEN Len(FirstPiece(p)) ELSE FromThere(p, w, n, c[Before(Stars(p), n)])]
SearchOf(p, w) == CHOOSE c : Searches(c, p, w)
WindowOf(p, t) == SubSeq(t, 1, Len(t) - Len(LastPiece(p)))

LEMMA MatchesSearched ==
    ASSUME NEW p, NEW t
    PROVE  SegmentMatches(p, t) =
             IF Stars(p) = {} THEN p = t
             ELSE /\ IsPrefix(FirstPiece(p), t) /\ IsSuffix(LastPiece(p), t)
                  /\ Len(t) - Len(LastPiece(p)) >= Len(FirstPiece(p))
                  /\ SearchOf(p, WindowOf(p, t))[Max(Stars(p))] # -1
  BY DEF SegmentMatches, FirstPiece, LastPiece, PieceBefore, FromThere, Searches, SearchOf, WindowOf

LEMMA PlacesOfStars ==
    ASSUME NEW p \in Seq(STRING), Stars(p) # {}
    PROVE  /\ Len(p) \in Nat /\ Stars(p) \in SUBSET (1 .. Len(p)) /\ \A n \in Stars(p) : p[n] = "*"
           /\ Min(Stars(p)) \in Stars(p) /\ \A n \in Stars(p) : Min(Stars(p)) <= n
           /\ Max(Stars(p)) \in Stars(p) /\ \A n \in Stars(p) : n <= Max(Stars(p))
           /\ \A n \in Stars(p) : n # Min(Stars(p)) =>
                 /\ Before(Stars(p), n) \in Stars(p) /\ Before(Stars(p), n) < n
                 /\ \A i \in Before(Stars(p), n) + 1 .. n - 1 : p[i] # "*"
           /\ \A i \in 1 .. Min(Stars(p)) - 1 : p[i] # "*"
           /\ \A i \in Max(Stars(p)) + 1 .. Len(p) : p[i] # "*"
  <1>1. Len(p) \in Nat /\ Stars(p) \in SUBSET (1 .. Len(p))
      BY DEF Stars
  <1>2. \A n \in 1 .. Len(p) : n \in Stars(p) <=> p[n] = "*"
      BY DEF Stars
  <1> DEFINE S == Stars(p)
             N == Len(p)
  <1>3. S \in SUBSET Nat /\ S \in SUBSET (1 .. N) /\ S # {} /\ N \in Nat
      BY <1>1
  <1> HIDE DEF S, N
  <1>4. Min(S) \in S /\ \A n \in S : Min(S) <= n
      BY <1>3, MinOfPlaces
  <1>5. Max(S) \in S /\ \A n \in S : n <= Max(S)
      BY <1>3, MaxOfPlaces
  <1>6. ASSUME NEW n \in S, n # Min(S)
        PROVE  /\ Before(S, n) \in S /\ Before(S, n) < n
               /\ \A i \in Before(S, n) + 1 .. n - 1 : i \in 1 .. N /\ i \notin S
    <2> DEFINE L == {k \in S : k < n}
    <2>1. Min(S) < n
      <3>1. Min(S) \in Nat /\ n \in Nat
        <4> HIDE DEF L
        <4>1. \A k \in S : k \in Nat
            BY <1>3
        <4> QED
            BY <1>4, <4>1
      <3>2. Min(S) <= n
          BY <1>4
      <3> QED
          BY <1>6, <3>1, <3>2
    <2>2. L \in SUBSET (1 .. N) /\ L # {}
        BY <1>3, <1>4, <2>1
    <2>3. Before(S, n) = Max(L)
        BY DEF Before
    <2> HIDE DEF L
    <2>4. Max(L) \in L /\ \A k \in L : k <= Max(L)
        BY <1>3, <2>2, MaxOfPlaces
    <2>5. Before(S, n) \in S /\ Before(S, n) < n /\ \A k \in S : k < n => k <= Before(S, n)
        BY <2>3, <2>4 DEF L
    <2>6. Before(S, n) \in 1 .. N /\ n \in 1 .. N
        BY <1>3, <2>5
    <2>7. ASSUME NEW i \in Before(S, n) + 1 .. n - 1
          PROVE  i \in 1 .. N /\ i \notin S
      <3>1. i \in Int /\ i < n /\ ~(i <= Before(S, n))
          BY <2>6
      <3>2. i \in 1 .. N
          BY <1>3, <2>6, <3>1
      <3> QED
          BY <2>5, <3>1, <3>2
    <2> QED
        BY <2>5, <2>7
  <1>7. Min(S) \in 1 .. N /\ Max(S) \in 1 .. N
      BY <1>3, <1>4, <1>5
  <1>8. ASSUME NEW i \in 1 .. Min(S) - 1
        PROVE  i \in 1 .. N /\ i \notin S
    <2>1. i \in Int /\ ~(Min(S) <= i) /\ i \in 1 .. N
        BY <1>3, <1>7
    <2> QED
        BY <1>4, <2>1
  <1>9. ASSUME NEW i \in Max(S) + 1 .. N
        PROVE  i \in 1 .. N /\ i \notin S
    <2>1. i \in Int /\ ~(i <= Max(S)) /\ i \in 1 .. N
        BY <1>3, <1>7
    <2> QED
        BY <1>5, <2>1
  <1> QED
      BY <1>1, <1>2, <1>4, <1>5, <1>6, <1>8, <1>9 DEF S, N

LEMMA AfterIsInt ==
    ASSUME NEW p \in Seq(STRING), Stars(p) # {}, NEW w \in Seq(STRING), NEW n \in Stars(p), n # Min(Stars(p)),
           NEW from \in Int, from = -1 \/ from >= 0
    PROVE  /\ Len(PieceBefore(p, n)) = n - 1 - Before(Stars(p), n) /\ Len(PieceBefore(p, n)) \in Nat
           /\ from = -1 => FromThere(p, w, n, from) = -1
           /\ from # -1 => Occurs(PieceBefore(p, n), w, from) \in SUBSET Nat
           /\ FromThere(p, w, n, from) = -1 \/ FromThere(p, w, n, from) \in Nat
  <1> DEFINE q == PieceBefore(p, n)
             O == Occurs(q, w, from)
  <1>1. /\ Before(Stars(p), n) \in 1 .. Len(p) /\ n \in 1 .. Len(p) /\ Len(p) \in Nat
        /\ Before(Stars(p), n) < n
      BY PlacesOfStars
  <1>2. Len(q) = n - 1 - Before(Stars(p), n) /\ Len(q) \in Nat
      BY <1>1 DEF PieceBefore
  <1>3. Len(w) \in Nat
      OBVIOUS
  <1>4. from # -1 => O \in SUBSET Nat
      BY <1>2, <1>3 DEF Occurs
  <1>5. from = -1 => FromThere(p, w, n, from) = -1
      BY DEF FromThere
  <1>6. from # -1 => FromThere(p, w, n, from) = IF O = {} THEN -1 ELSE Min(O) + Len(q)
      BY DEF FromThere
  <1> HIDE DEF O, q
  <1>7. from # -1 /\ O # {} => Min(O) \in Nat
      BY <1>4, MinOfPlaces
  <1>8. FromThere(p, w, n, from) = -1 \/ FromThere(p, w, n, from) \in Nat
      BY <1>2, <1>5, <1>6, <1>7
  <1> QED
      BY <1>2, <1>4, <1>5, <1>8 DEF O, q

LEMMA SearchExists ==
    ASSUME NEW p \in Seq(STRING), Stars(p) # {}, NEW w \in Seq(STRING)
    PROVE  \E c : Searches(c, p, w)
  <1> DEFINE S == Stars(p)
             N == Len(p)
             least == Min(Stars(p))
             first == Len(FirstPiece(p))
             Clean(x) == IF x >= 0 THEN x ELSE -1
             step == [n \in S |-> [x \in Int |-> IF n = least THEN 0 ELSE FromThere(p, w, n, Clean(x))]]
             before == [n \in S |-> Before(Stars(p), n)]
  <1>1. N \in Nat /\ S \in SUBSET (1 .. N) /\ \A k \in S : k # least => before[k] \in S /\ before[k] < k
      BY PlacesOfStars
  <1>2. first \in Int
    <2>1. Min(Stars(p)) \in 1 .. Len(p)
        BY PlacesOfStars
    <2> QED
        BY <2>1 DEF FirstPiece
  <1>3. step \in [S -> [Int -> Int]]
    <2>1. ASSUME NEW n \in S, n # least, NEW x \in Int
          PROVE  FromThere(p, w, n, Clean(x)) \in Int
      <3>1. Clean(x) \in Int /\ (Clean(x) = -1 \/ Clean(x) >= 0)
          OBVIOUS
      <3> HIDE DEF Clean
      <3>2. FromThere(p, w, n, Clean(x)) = -1 \/ FromThere(p, w, n, Clean(x)) \in Nat
          BY <2>1, <3>1, AfterIsInt
      <3> QED
          BY <3>2
    <2> HIDE DEF Clean, S, least
    <2> QED
        BY <2>1
  <1>4. \A n \in S : \A x \in Int : step[n][x] = IF n = least THEN 0 ELSE FromThere(p, w, n, Clean(x))
      OBVIOUS
  <1>5. PICK c : Placed(c, S, least, first, step, before)
    <2> HIDE DEF S, N, least, first, step, before
    <2>1. N \in Nat /\ S \in SUBSET (1 .. N) /\ first \in Int /\ step \in [S -> [Int -> Int]]
        BY <1>1, <1>2, <1>3
    <2>2. \A k \in S : k # least => before[k] \in S /\ before[k] < k
        BY <1>1
    <2> QED
        BY <2>1, <2>2, PlaceByPlace
  <1>6. first \in Nat
    <2>1. Min(Stars(p)) \in 1 .. Len(p)
        BY PlacesOfStars
    <2> QED
        BY <2>1 DEF FirstPiece
  <1>7. \A k \in S : k # least => before[k] = Before(Stars(p), k)
      OBVIOUS
  <1>8. \A k \in S : c[k] = -1 \/ c[k] >= 0
    <2> TAKE k \in S
    <2>1. CASE k = least
      <3> HIDE DEF first, least, step, S
      <3>1. c[k] = first
          BY <1>5, <2>1 DEF Placed
      <3> QED
          BY <1>6, <3>1
    <2>2. CASE k # least
      <3>1. before[k] \in S
          BY <1>1, <2>2
      <3>2. c[before[k]] \in Int
          BY <1>5, <3>1 DEF Placed
      <3>3. c[k] = step[k][c[before[k]]]
          BY <1>5, <2>2 DEF Placed
      <3>4. c[k] = FromThere(p, w, k, Clean(c[before[k]]))
        <4> HIDE DEF step, Clean
        <4> QED
            BY <1>4, <2>2, <3>2, <3>3
      <3>5. Clean(c[before[k]]) \in Int /\ (Clean(c[before[k]]) = -1 \/ Clean(c[before[k]]) >= 0)
          BY <3>2
      <3> HIDE DEF Clean, before, step
      <3>6. FromThere(p, w, k, Clean(c[before[k]])) = -1 \/ FromThere(p, w, k, Clean(c[before[k]])) \in Nat
          BY <2>2, <3>5, AfterIsInt
      <3> QED
          BY <3>4, <3>6
    <2> QED
        BY <2>1, <2>2
  <1>9. ASSUME NEW k \in S
        PROVE  c[k] = IF k = least THEN first ELSE FromThere(p, w, k, c[Before(Stars(p), k)])
    <2>1. CASE k = least
        BY <1>5, <2>1 DEF Placed
    <2>2. CASE k # least
      <3>1. before[k] \in S /\ before[k] = Before(Stars(p), k)
          BY <1>1, <2>2
      <3>2. c[before[k]] \in Int /\ Clean(c[before[k]]) = c[before[k]]
          BY <1>5, <1>8, <3>1 DEF Placed
      <3> HIDE DEF step, Clean, before
      <3>3. c[k] = step[k][c[before[k]]]
          BY <1>5, <2>2 DEF Placed
      <3>4. c[k] = FromThere(p, w, k, Clean(c[before[k]]))
          BY <1>4, <2>2, <3>2, <3>3
      <3> QED
          BY <2>2, <3>1, <3>2, <3>4
    <2> QED
        BY <2>1, <2>2
  <1>10. c = [k \in S |-> IF k = least THEN first ELSE FromThere(p, w, k, c[Before(Stars(p), k)])]
    <2> HIDE DEF S, least, first
    <2> QED
        BY <1>5, <1>9 DEF Placed
  <1> QED
      BY <1>10, Zenon DEF Searches

\* A piece stands in a text where its characters do.
LEMMA WhereAPieceStands ==
    ASSUME NEW p \in Seq(STRING), NEW t \in Seq(STRING), NEW a \in 0 .. Len(p), NEW b \in a .. Len(p),
           NEW k \in Nat, k + (b - a) <= Len(t)
    PROVE  (SubSeq(t, k + 1, k + (b - a)) = SubSeq(p, a + 1, b))
             <=> \A i \in a + 1 .. b : t[(k + (b - a)) - (b - i)] = p[i]
  <1> DEFINE n == b - a
  <1>1. n \in Nat /\ a \in Nat /\ b \in Nat /\ Len(p) \in Nat /\ Len(t) \in Nat /\ b <= Len(p)
      OBVIOUS
  <1>2. SubSeq(t, k + 1, k + n) = [i \in 1 .. n |-> t[k + i]]
    <2>1. (k + n) - (k + 1) + 1 = n
        BY <1>1
    <2> QED
        BY <1>1, <2>1
  <1>3. SubSeq(p, a + 1, b) = [i \in 1 .. n |-> p[a + i]]
    <2>1. b - (a + 1) + 1 = n
        BY <1>1
    <2> QED
        BY <1>1, <2>1
  <1>4. SubSeq(t, k + 1, k + n) = SubSeq(p, a + 1, b) <=> \A i \in 1 .. n : t[k + i] = p[a + i]
      BY <1>2, <1>3
  <1>5. (\A i \in 1 .. n : t[k + i] = p[a + i]) <=> \A i \in a + 1 .. b : t[(k + n) - (b - i)] = p[i]
    <2>1. ASSUME \A i \in 1 .. n : t[k + i] = p[a + i], NEW i \in a + 1 .. b
          PROVE  t[(k + n) - (b - i)] = p[i]
      <3>1. i - a \in 1 .. n /\ k + (i - a) = (k + n) - (b - i) /\ a + (i - a) = i
          BY <1>1
      <3> HIDE DEF n
      <3> QED
          BY <2>1, <3>1
    <2>2. ASSUME \A i \in a + 1 .. b : t[(k + n) - (b - i)] = p[i], NEW i \in 1 .. n
          PROVE  t[k + i] = p[a + i]
      <3>1. a + i \in a + 1 .. b /\ (k + n) - (b - (a + i)) = k + i
          BY <1>1
      <3> HIDE DEF n
      <3> QED
          BY <2>2, <3>1
    <2> QED
        BY <2>1, <2>2
  <1> QED
      BY <1>4, <1>5

\* Whatever is reached behind the first star starts with what is before it.
LEMMA NothingBeforeTheFirst ==
    ASSUME NEW p \in Seq(STRING), Stars(p) # {}, NEW t \in Seq(STRING), NEW r, Reaches(r, p, t)
    PROVE  /\ \A j \in 0 .. Len(t) : j \in r[Min(Stars(p))] <=>
                 IsPrefix(FirstPiece(p), t) /\ Len(FirstPiece(p)) <= j
           /\ \A i \in Min(Stars(p)) .. Len(p) : \A j \in r[i] :
                 IsPrefix(FirstPiece(p), t) /\ Len(FirstPiece(p)) <= j
  <1> DEFINE s == Min(Stars(p))
             f == FirstPiece(p)
  <1>1. /\ s \in 1 .. Len(p) /\ Len(p) \in Nat /\ Len(t) \in Nat /\ p[s] = "*"
        /\ \A i \in 1 .. s - 1 : p[i] # "*"
      BY PlacesOfStars
  <1>2. Len(f) = s - 1 /\ f \in Seq(STRING)
      BY <1>1 DEF FirstPiece
  <1>3. ASSUME NEW j \in Int
        PROVE  j \in r[s - 1] <=> j = s - 1 /\ IsPrefix(f, t)
    <2>1. j \in r[s - 1] <=> /\ j - (s - 1) \in r[0] /\ j <= Len(t)
                             /\ \A i \in 1 .. s - 1 : t[j - ((s - 1) - i)] = p[i]
      <3> DEFINE b == s - 1
                 a == 0
      <3>1. a \in 0 .. Len(p) /\ b \in a .. Len(p) /\ a + 1 = 1 /\ b - a = b
          BY <1>1
      <3>2. NoStars(p, a, b)
          BY <1>1 DEF NoStars
      <3> HIDE DEF a, b
      <3>3. StandsFor(p, t, r, a, b, j)
          BY <3>1, <3>2, PiecesStandForThemselves, Zenon
      <3>4. j \in r[b] <=> /\ j - b \in r[a] /\ j <= Len(t) /\ \A i \in 1 .. b : t[j - (b - i)] = p[i]
          BY <3>1, <3>3 DEF StandsFor
      <3> QED
          BY <3>4 DEF a, b
    <2>2. j - (s - 1) \in r[0] <=> j = s - 1
      <3>1. r[0] = {0}
          BY DEF Reaches
      <3> HIDE DEF s
      <3> QED
          BY <1>1, <3>1
    <2>3. IsPrefix(f, t) <=> s - 1 <= Len(t) /\ SubSeq(t, 1, s - 1) = f
      <3>1. SubSeq(f, 1, Len(f)) = f
          BY <1>2
      <3> QED
          BY <1>2, <3>1 DEF IsPrefix
    <2>4. ASSUME s - 1 <= Len(t)
          PROVE  SubSeq(t, 1, s - 1) = f <=> \A i \in 1 .. s - 1 : t[(s - 1) - ((s - 1) - i)] = p[i]
      <3>1. /\ 0 \in 0 .. Len(p) /\ s - 1 \in 0 .. Len(p) /\ 0 + 1 = 1 /\ (s - 1) - 0 = s - 1 /\ 0 + (s - 1) = s - 1
            /\ 0 \in Nat
          BY <1>1
      <3>2. f = SubSeq(p, 1, s - 1)
          BY DEF FirstPiece
      <3> HIDE DEF s, f
      <3>3. (SubSeq(t, 0 + 1, 0 + ((s - 1) - 0)) = SubSeq(p, 0 + 1, s - 1))
             <=> \A i \in 0 + 1 .. s - 1 : t[(0 + ((s - 1) - 0)) - ((s - 1) - i)] = p[i]
          BY <1>1, <2>4, <3>1, WhereAPieceStands
      <3> QED
          BY <3>1, <3>2, <3>3
    <2> QED
        BY <2>1, <2>2, <2>3, <2>4
  <1>4. r[s] = {j \in 0 .. Len(t) : \E k \in r[s - 1] : k <= j}
      BY <1>1 DEF Reaches
  <1>5. r[s - 1] \in SUBSET (0 .. Len(t))
    <2>1. s - 1 \in 0 .. Len(p)
        BY <1>1
    <2> QED
        BY <2>1 DEF Reaches
  <1> HIDE DEF s, f
  <1>6. ASSUME NEW j \in 0 .. Len(t)
        PROVE  j \in r[s] <=> IsPrefix(f, t) /\ s - 1 <= j
    <2>1. j \in r[s] <=> \E k \in r[s - 1] : k <= j
        BY <1>4
    <2>2. \A k \in r[s - 1] : k \in Int
        BY <1>1, <1>5
    <2>3. \A k \in r[s - 1] : k = s - 1 /\ IsPrefix(f, t)
        BY <1>3, <2>2
    <2>4. s - 1 \in Int
        BY <1>1
    <2>5. IsPrefix(f, t) => s - 1 \in r[s - 1]
        BY <1>3, <2>4
    <2> QED
        BY <2>1, <2>3, <2>5
  <1> DEFINE Late(i) == \A j \in r[i] : IsPrefix(f, t) /\ s - 1 <= j
             T == {i \in s .. Len(p) : Late(i)}
  <1>7. s \in T
    <2>1. r[s] \in SUBSET (0 .. Len(t))
        BY <1>4
    <2>2. Late(s)
        BY <1>6, <2>1
    <2>3. s \in s .. Len(p)
        BY <1>1
    <2> HIDE DEF Late
    <2> QED
        BY <2>2, <2>3
  <1>8. ASSUME NEW i \in s .. Len(p) - 1, i \in T
        PROVE  i + 1 \in T
    <2>1. i \in Nat /\ i + 1 \in 1 .. Len(p) /\ i + 1 \in s .. Len(p) /\ (i + 1) - 1 = i /\ i \in 0 .. Len(p)
        BY <1>1
    <2>2. r[i] \in SUBSET (0 .. Len(t))
        BY <2>1 DEF Reaches
    <2>3. \A j \in r[i + 1] : j \in 0 .. Len(t) /\ \E k \in r[i] : k <= j
      <3>1. CASE p[i + 1] = "*"
        <4>1. r[i + 1] = {j \in 0 .. Len(t) : \E k \in r[i] : k <= j}
            BY <2>1, <3>1 DEF Reaches
        <4> QED
            BY <4>1
      <3>2. CASE p[i + 1] # "*"
        <4>1. r[i + 1] = {j \in 1 .. Len(t) : j - 1 \in r[i] /\ t[j] = p[i + 1]}
            BY <2>1, <3>2 DEF Reaches
        <4>2. \A j \in 1 .. Len(t) : j - 1 <= j /\ j \in 0 .. Len(t)
            BY <1>1
        <4> QED
            BY <4>1, <4>2
      <3> QED
          BY <3>1, <3>2
    <2>4. Late(i + 1)
      <3> TAKE j \in r[i + 1]
      <3>1. PICK k \in r[i] : k <= j
          BY <2>3
      <3>2. k \in Int /\ j \in Int /\ s - 1 \in Int
          BY <1>1, <2>2, <2>3
      <3>3. IsPrefix(f, t) /\ s - 1 <= k
          BY <1>8
      <3> QED
          BY <3>1, <3>2, <3>3
    <2> HIDE DEF Late
    <2> QED
        BY <2>1, <2>4
  <1>9. \A i \in s .. Len(p) : i \in T
    <2> HIDE DEF T
    <2>1. s \in Nat /\ Len(p) \in Nat
        BY <1>1
    <2> QED
        BY <1>7, <1>8, <2>1, StepByStep
  <1> QED
      BY <1>2, <1>6, <1>9 DEF s, f

\* What a search found at a star is the least that is reached there.
LeastReached(least, reached, end) ==
    /\ least = -1 \/ least \in 0 .. end
    /\ \A j \in 0 .. end : j \in reached <=> least # -1 /\ least <= j

LEMMA SearchGoesOn ==
    ASSUME NEW p \in Seq(STRING), Stars(p) # {}, NEW t \in Seq(STRING), NEW r, Reaches(r, p, t),
           NEW end \in 0 .. Len(t), NEW n \in Stars(p), n # Min(Stars(p)),
           NEW from \in Int, LeastReached(from, r[Before(Stars(p), n)], end)
    PROVE  LeastReached(FromThere(p, SubSeq(t, 1, end), n, from), r[n], end)
  <1> DEFINE b == Before(Stars(p), n)
             q == PieceBefore(p, n)
             w == SubSeq(t, 1, end)
             O == Occurs(q, w, from)
  <1>1. /\ b \in 1 .. Len(p) /\ n \in 1 .. Len(p) /\ Len(p) \in Nat /\ b < n /\ p[n] = "*"
        /\ \A i \in b + 1 .. n - 1 : p[i] # "*"
      BY PlacesOfStars
  <1>2. end \in Nat /\ Len(t) \in Nat /\ end <= Len(t)
      OBVIOUS
  <1>3. w \in Seq(STRING) /\ Len(w) = end /\ \A i \in 1 .. end : w[i] = t[i]
      BY <1>2
  <1>4. from = -1 \/ from \in Nat
      BY <1>2 DEF LeastReached
  <1>5. /\ Len(q) = n - 1 - b /\ Len(q) \in Nat
        /\ from = -1 => FromThere(p, w, n, from) = -1
        /\ from # -1 => O \in SUBSET Nat
        /\ FromThere(p, w, n, from) = -1 \/ FromThere(p, w, n, from) \in Nat
    <2>1. w \in Seq(STRING)
        BY <1>3
    <2> HIDE DEF w
    <2> QED
        BY <1>4, <2>1, AfterIsInt
  <1>6. q = SubSeq(p, b + 1, n - 1)
      BY DEF PieceBefore
  <1>7. O = {k \in from .. end - Len(q) : SubSeq(w, k + 1, k + Len(q)) = q}
      BY <1>3 DEF Occurs
  <1>8. from # -1 => FromThere(p, w, n, from) = IF O = {} THEN -1 ELSE Min(O) + Len(q)
      BY DEF FromThere
  <1>9. \A j \in 0 .. end : j \in r[b] <=> from # -1 /\ from <= j
      BY DEF LeastReached
  <1>10. r[b] \in SUBSET (0 .. Len(t)) /\ r[n - 1] \in SUBSET (0 .. Len(t))
    <2>1. b \in 0 .. Len(p) /\ n - 1 \in 0 .. Len(p)
        BY <1>1
    <2> HIDE DEF b
    <2> QED
        BY <2>1 DEF Reaches
  <1>11. r[n] = {j \in 0 .. Len(t) : \E k \in r[n - 1] : k <= j}
      BY <1>1 DEF Reaches
  <1> HIDE DEF b, q, w, O
  <1>12. ASSUME NEW k \in Nat, k + Len(q) <= end
         PROVE  SubSeq(w, k + 1, k + Len(q)) = SubSeq(t, k + 1, k + Len(q))
    <2> DEFINE m == Len(q)
    <2>1. m \in Nat /\ \A i \in 1 .. m : k + i \in 1 .. end
        BY <1>2, <1>5, <1>12
    <2>2. (k + m) - (k + 1) + 1 = m
        BY <2>1
    <2>3. k + m <= Len(w) /\ k + m <= Len(t)
        BY <1>2, <1>3, <1>12
    <2> HIDE DEF m
    <2>4. SubSeq(w, k + 1, k + m) = [i \in 1 .. m |-> w[k + i]]
        BY <1>3, <2>1, <2>2, <2>3
    <2>5. SubSeq(t, k + 1, k + m) = [i \in 1 .. m |-> t[k + i]]
        BY <1>2, <2>1, <2>2, <2>3
    <2>6. \A i \in 1 .. m : w[k + i] = t[k + i]
        BY <1>3, <2>1
    <2> QED
        BY <2>4, <2>5, <2>6 DEF m
  <1>13. ASSUME NEW j \in Int
         PROVE  /\ j \in r[n - 1] => j - Len(q) \in r[b]
                /\ j \in r[n - 1] <=> /\ j - Len(q) \in r[b] /\ j <= Len(t)
                                      /\ \A i \in b + 1 .. n - 1 : t[j - ((n - 1) - i)] = p[i]
    <2> DEFINE a == n - 1
    <2>1. a \in b .. Len(p) /\ b \in 0 .. Len(p) /\ Len(q) = a - b
        BY <1>1, <1>2, <1>5
    <2>2. NoStars(p, b, a)
        BY <1>1 DEF NoStars
    <2> HIDE DEF a
    <2>3. StandsFor(p, t, r, b, a, j)
        BY <2>1, <2>2, PiecesStandForThemselves, Zenon
    <2>4. j \in r[a] <=> /\ j - Len(q) \in r[b] /\ j <= Len(t)
                         /\ \A i \in b + 1 .. a : t[j - (a - i)] = p[i]
        BY <2>1, <2>3 DEF StandsFor
    <2> QED
        BY <2>4 DEF a
  <1>14. ASSUME NEW k \in Nat, k + Len(q) <= end
         PROVE  k + Len(q) \in r[n - 1] <=> k \in r[b] /\ SubSeq(w, k + 1, k + Len(q)) = q
    <2> DEFINE a == n - 1
               j == k + Len(q)
    <2>1. a \in b .. Len(p) /\ b \in 0 .. Len(p) /\ j \in Int
        BY <1>1, <1>2, <1>5, <1>14
    <2>2. Len(q) = a - b /\ j <= Len(t) /\ j - Len(q) = k /\ j = k + (a - b)
        BY <1>1, <1>2, <1>5, <1>14
    <2>3. j \in r[a] <=> /\ j - Len(q) \in r[b] /\ j <= Len(t)
                         /\ \A i \in b + 1 .. a : t[j - (a - i)] = p[i]
      <3> HIDE DEF j
      <3> QED
          BY <1>13, <2>1
    <2> HIDE DEF a, j
    <2>4. (SubSeq(t, k + 1, k + (a - b)) = SubSeq(p, b + 1, a))
             <=> \A i \in b + 1 .. a : t[(k + (a - b)) - (a - i)] = p[i]
        BY <1>2, <2>1, <2>2, WhereAPieceStands
    <2>5. SubSeq(w, k + 1, j) = SubSeq(t, k + 1, j)
        BY <1>12, <1>14 DEF j
    <2>6. SubSeq(p, b + 1, a) = q
        BY <1>6 DEF a
    <2>7. j \in r[a] <=> k \in r[b] /\ SubSeq(w, k + 1, j) = q
        BY <2>2, <2>3, <2>4, <2>5, <2>6
    <2> QED
        BY <2>7 DEF a, j
  <1>15. ASSUME NEW j \in 0 .. end, NEW k \in r[n - 1], k <= j
         PROVE  from # -1 /\ k - Len(q) \in O /\ (k - Len(q)) + Len(q) <= j
    <2> DEFINE o == k - Len(q)
    <2>1. o \in r[b]
      <3>1. k \in Int
          BY <1>2, <1>10
      <3> QED
          BY <1>13, <3>1
    <2>2. o \in Nat /\ k \in Int /\ o + Len(q) = k /\ o + Len(q) <= end /\ o <= end
        BY <1>2, <1>5, <1>10, <1>15, <2>1
    <2> HIDE DEF o
    <2>3. SubSeq(w, o + 1, o + Len(q)) = q
        BY <1>14, <2>2
    <2>4. o \in 0 .. end
        BY <1>2, <2>2
    <2>5. from # -1 /\ from <= o
        BY <1>9, <2>1, <2>4
    <2>6. o \in from .. end - Len(q)
        BY <1>2, <1>5, <2>2, <2>5
    <2> QED
        BY <1>7, <1>15, <2>2, <2>3, <2>5, <2>6 DEF o
  <1>16. ASSUME NEW j \in 0 .. end, from # -1, NEW o \in O, o + Len(q) <= j
         PROVE  \E k \in r[n - 1] : k <= j
    <2>1. o \in from .. end - Len(q) /\ SubSeq(w, o + 1, o + Len(q)) = q
        BY <1>7
    <2>2. o \in Nat /\ o + Len(q) <= end /\ o \in 0 .. end /\ from <= o
        BY <1>2, <1>4, <1>5, <1>16, <2>1
    <2>3. o \in r[b]
        BY <1>9, <1>16, <2>2
    <2>4. o + Len(q) \in r[n - 1]
        BY <1>14, <2>1, <2>2, <2>3
    <2> QED
        BY <1>16, <2>4
  <1>17. ASSUME NEW j \in 0 .. end
         PROVE  j \in r[n] <=> from # -1 /\ \E o \in O : o + Len(q) <= j
    <2>1. j \in 0 .. Len(t)
        BY <1>2
    <2>2. j \in r[n] <=> \E k \in r[n - 1] : k <= j
        BY <1>11, <2>1
    <2> QED
        BY <2>2, <1>15, <1>16
  <1>18. ASSUME NEW j \in 0 .. end
         PROVE  j \in r[n] <=> FromThere(p, w, n, from) # -1 /\ FromThere(p, w, n, from) <= j
    <2>1. CASE from = -1 \/ O = {}
        BY <1>5, <1>8, <1>17, <2>1
    <2>2. CASE from # -1 /\ O # {}
      <3>1. Min(O) \in O /\ \A o \in O : Min(O) <= o
          BY <1>5, <2>2, MinOfPlaces
      <3>2. \A o \in O : o \in Nat
          BY <1>5, <2>2
      <3>3. FromThere(p, w, n, from) = Min(O) + Len(q)
          BY <1>8, <2>2
      <3>4. FromThere(p, w, n, from) # -1
          BY <1>5, <3>1, <3>2, <3>3
      <3>5. (\E o \in O : o + Len(q) <= j) <=> Min(O) + Len(q) <= j
          BY <1>5, <3>1, <3>2
      <3> QED
          BY <1>17, <2>2, <3>3, <3>4, <3>5
    <2> QED
        BY <2>1, <2>2
  <1>19. FromThere(p, w, n, from) = -1 \/ FromThere(p, w, n, from) \in 0 .. end
    <2>1. CASE from = -1 \/ O = {}
        BY <1>5, <1>8, <2>1
    <2>2. CASE from # -1 /\ O # {}
      <3>1. Min(O) \in O
          BY <1>5, <2>2, MinOfPlaces
      <3>2. Min(O) \in from .. end - Len(q) /\ Min(O) \in Nat
          BY <1>5, <1>7, <2>2, <3>1
      <3>3. FromThere(p, w, n, from) = Min(O) + Len(q)
          BY <1>8, <2>2
      <3> QED
          BY <1>2, <1>5, <3>2, <3>3
    <2> QED
        BY <2>1, <2>2
  <1> QED
      BY <1>18, <1>19 DEF LeastReached, w

LEMMA SearchIsLeast ==
    ASSUME NEW p \in Seq(STRING), Stars(p) # {}, NEW t \in Seq(STRING), NEW r, Reaches(r, p, t),
           NEW end \in 0 .. Len(t), NEW c, Searches(c, p, SubSeq(t, 1, end)),
           IsPrefix(FirstPiece(p), t), Len(FirstPiece(p)) <= end
    PROVE  \A n \in Stars(p) : LeastReached(c[n], r[n], end)
  <1> DEFINE S == Stars(p)
             N == Len(p)
             T == {m \in 0 .. N : \A n \in S : n <= m => LeastReached(c[n], r[n], end)}
  <1>1. N \in Nat /\ S \in SUBSET (1 .. N)
      BY PlacesOfStars
  <1>2. \A n \in S : c[n] = IF n = Min(S) THEN Len(FirstPiece(p))
                           ELSE FromThere(p, SubSeq(t, 1, end), n, c[Before(S, n)])
      BY DEF Searches
  <1>3. 0 \in T
    <2>1. \A n \in S : ~(n <= 0)
        BY <1>1
    <2> HIDE DEF S, N
    <2> QED
        BY <1>1, <2>1
  <1>4. ASSUME NEW m \in 0 .. N - 1, m \in T
        PROVE  m + 1 \in T
    <2>1. ASSUME NEW n \in S, n = m + 1
          PROVE  LeastReached(c[n], r[n], end)
      <3>1. CASE n = Min(S)
        <4>1. c[n] = Len(FirstPiece(p))
            BY <1>2, <3>1
        <4>2. \A j \in 0 .. Len(t) : j \in r[n] <=> IsPrefix(FirstPiece(p), t) /\ Len(FirstPiece(p)) <= j
            BY <3>1, NothingBeforeTheFirst
        <4>3. Len(FirstPiece(p)) \in Nat
          <5>1. Min(S) \in 1 .. Len(p)
              BY PlacesOfStars
          <5> QED
              BY <5>1 DEF FirstPiece
        <4>4. \A j \in 0 .. end : j \in 0 .. Len(t)
            OBVIOUS
        <4> QED
            BY <4>1, <4>2, <4>3, <4>4 DEF LeastReached
      <3>2. CASE n # Min(S)
        <4>1. Before(S, n) \in S /\ Before(S, n) < n
            BY <3>2, PlacesOfStars
        <4>2. Before(S, n) <= m
            BY <1>1, <2>1, <4>1
        <4>3. LeastReached(c[Before(S, n)], r[Before(S, n)], end)
            BY <1>4, <4>1, <4>2
        <4>4. c[Before(S, n)] \in Int
            BY <4>3 DEF LeastReached
        <4>5. LeastReached(FromThere(p, SubSeq(t, 1, end), n, c[Before(S, n)]), r[n], end)
            BY <3>2, <4>3, <4>4, SearchGoesOn
        <4> QED
            BY <1>2, <3>2, <4>5
      <3> QED
          BY <3>1, <3>2
    <2>2. m \in Nat /\ m + 1 \in 0 .. N
        BY <1>1
    <2>3. ASSUME NEW n \in S, n <= m + 1
          PROVE  LeastReached(c[n], r[n], end)
      <3>1. n \in Nat
          BY <1>1
      <3>2. n = m + 1 \/ n <= m
          BY <2>2, <2>3, <3>1
      <3> QED
          BY <1>4, <2>1, <3>2
    <2> HIDE DEF S, N
    <2> QED
        BY <2>2, <2>3
  <1>5. N \in T
    <2> HIDE DEF T
    <2>1. \A m \in 0 .. N : m \in T
        BY <1>1, <1>3, <1>4, StepByStep
    <2> QED
        BY <1>1, <2>1
  <1>6. \A n \in S : n <= N
      BY <1>1
  <1> QED
      BY <1>5, <1>6

LEMMA EndsWith ==
    ASSUME NEW l \in Seq(STRING), NEW t \in Seq(STRING)
    PROVE  IsSuffix(l, t) <=> Len(l) <= Len(t) /\ SubSeq(t, (Len(t) - Len(l)) + 1, Len(t)) = l
  <1> DEFINE m == Len(l)
             n == Len(t)
  <1>1. m \in Nat /\ n \in Nat
      OBVIOUS
  <1>2. /\ Len(Reverse(l)) = m /\ Reverse(l) \in Seq(STRING) /\ \A i \in 1 .. m : Reverse(l)[i] = l[(m - i) + 1]
        /\ Len(Reverse(t)) = n /\ Reverse(t) \in Seq(STRING) /\ \A i \in 1 .. n : Reverse(t)[i] = t[(n - i) + 1]
    <2>1. ASSUME NEW s \in Seq(STRING)
          PROVE  Len(Reverse(s)) = Len(s) /\ Reverse(s) \in Seq(STRING)
                 /\ \A i \in 1 .. Len(s) : Reverse(s)[i] = s[(Len(s) - i) + 1]
      <3>1. \A i \in 1 .. Len(s) : (Len(s) - i) + 1 \in 1 .. Len(s)
          OBVIOUS
      <3> QED
          BY <3>1 DEF Reverse
    <2> QED
        BY <2>1
  <1>3. IsSuffix(l, t) <=> m <= n /\ \A i \in 1 .. m : l[(m - i) + 1] = t[(n - i) + 1]
    <2>1. SubSeq(Reverse(l), 1, m) = Reverse(l)
        BY <1>2
    <2>2. ASSUME m <= n
          PROVE  SubSeq(Reverse(t), 1, m) = [i \in 1 .. m |-> Reverse(t)[i]]
        BY <1>1, <1>2, <2>2
    <2>3. Reverse(l) = [i \in 1 .. m |-> Reverse(l)[i]]
        BY <1>2
    <2>4. ASSUME m <= n
          PROVE  (Reverse(l) = SubSeq(Reverse(t), 1, m)) <=> \A i \in 1 .. m : l[(m - i) + 1] = t[(n - i) + 1]
      <3>1. \A i \in 1 .. m : i \in 1 .. n
          BY <1>1, <2>4
      <3>2. (Reverse(l) = SubSeq(Reverse(t), 1, m)) <=> \A i \in 1 .. m : Reverse(l)[i] = Reverse(t)[i]
        <4> DEFINE x == Reverse(l)
                   y == Reverse(t)
                   z == SubSeq(y, 1, m)
        <4>1. x = [i \in 1 .. m |-> x[i]] /\ z = [i \in 1 .. m |-> y[i]]
            BY <2>2, <2>3, <2>4
        <4> HIDE DEF x, y, z, m
        <4>2. x = z <=> \A i \in 1 .. m : x[i] = y[i]
            BY <4>1
        <4> QED
            BY <4>2 DEF x, y, z
      <3>3. \A i \in 1 .. m : Reverse(l)[i] = l[(m - i) + 1] /\ Reverse(t)[i] = t[(n - i) + 1]
          BY <1>2, <3>1
      <3> HIDE DEF m, n
      <3> QED
          BY <3>2, <3>3
    <2> QED
        BY <1>2, <2>1, <2>4 DEF IsSuffix, IsPrefix
  <1>4. ASSUME m <= n
        PROVE  (\A i \in 1 .. m : l[(m - i) + 1] = t[(n - i) + 1])
                  <=> SubSeq(t, (n - m) + 1, n) = l
    <2>1. n - ((n - m) + 1) + 1 = m /\ n - m \in Nat
        BY <1>1, <1>4
    <2>2. SubSeq(t, (n - m) + 1, n) = [i \in 1 .. m |-> t[(n - m) + i]]
        BY <1>1, <1>4, <2>1
    <2>3. l = [i \in 1 .. m |-> l[i]]
        OBVIOUS
    <2>4. SubSeq(t, (n - m) + 1, n) = l <=> \A i \in 1 .. m : t[(n - m) + i] = l[i]
      <3> HIDE DEF m, n
      <3> QED
          BY <2>2, <2>3
    <2>5. \A i \in 1 .. m : (m - i) + 1 \in 1 .. m /\ (m - ((m - i) + 1)) + 1 = i /\ (n - ((m - i) + 1)) + 1 = (n - m) + i
        BY <1>1
    <2> HIDE DEF m, n
    <2>6. ASSUME \A i \in 1 .. m : l[(m - i) + 1] = t[(n - i) + 1], NEW i \in 1 .. m
          PROVE  t[(n - m) + i] = l[i]
        BY <2>5, <2>6
    <2>7. \A i \in 1 .. m : (n - m) + ((m - i) + 1) = (n - i) + 1
        BY <1>1
    <2>8. ASSUME \A i \in 1 .. m : t[(n - m) + i] = l[i], NEW i \in 1 .. m
          PROVE  l[(m - i) + 1] = t[(n - i) + 1]
        BY <2>5, <2>7, <2>8
    <2> QED
        BY <2>4, <2>6, <2>8
  <1> QED
      BY <1>3, <1>4

LEMMA WithoutStars ==
    ASSUME NEW p \in Seq(STRING), Stars(p) = {}, NEW t \in Seq(STRING), NEW r, Reaches(r, p, t)
    PROVE  Len(t) \in r[Len(p)] <=> p = t
  <1> DEFINE a == 0
             b == Len(p)
             j == Len(t)
  <1>1. a \in 0 .. Len(p) /\ b \in a .. Len(p) /\ a + 1 = 1 /\ b - a = b /\ j \in Int /\ b \in Nat /\ j \in Nat
      OBVIOUS
  <1>2. NoStars(p, a, b)
      BY DEF Stars, NoStars
  <1>3. r[a] = {0}
      BY DEF Reaches
  <1> HIDE DEF a
  <1>4. j \in r[b] <=> /\ j - (b - a) \in r[a] /\ j <= Len(t) /\ \A i \in a + 1 .. b : t[j - (b - i)] = p[i]
    <2> HIDE DEF b, j
    <2>1. StandsFor(p, t, r, a, b, j)
        BY <1>1, <1>2, PiecesStandForThemselves, Zenon
    <2> QED
        BY <2>1 DEF StandsFor
  <1>5. j - b = 0 <=> j = b
      BY <1>1
  <1>6. j = b => \A i \in 1 .. b : j - (b - i) = i
      BY <1>1
  <1>7. p = t <=> j = b /\ \A i \in 1 .. b : t[i] = p[i]
    <2>1. p = [i \in 1 .. b |-> p[i]] /\ t = [i \in 1 .. j |-> t[i]]
        OBVIOUS
    <2> QED
        BY <2>1
  <1>8. j \in r[b] <=> j - b = 0 /\ \A i \in 1 .. b : t[j - (b - i)] = p[i]
    <2> HIDE DEF b
    <2> QED
        BY <1>1, <1>3, <1>4
  <1> HIDE DEF b, j
  <1>9. j \in r[b] <=> p = t
      BY <1>5, <1>6, <1>7, <1>8
  <1> QED
      BY <1>9 DEF b, j

\* Behind the last star.
LEMMA TheLastPiece ==
    ASSUME NEW p \in Seq(STRING), Stars(p) # {}, NEW t \in Seq(STRING), NEW r, Reaches(r, p, t)
    PROVE  /\ Len(LastPiece(p)) \in Nat
           /\ Len(t) \in r[Len(p)] <=> /\ Len(t) - Len(LastPiece(p)) \in r[Max(Stars(p))]
                                       /\ IsSuffix(LastPiece(p), t)
  <1> DEFINE a == Max(Stars(p))
             b == Len(p)
             j == Len(t)
             l == LastPiece(p)
  <1>1. a \in 1 .. Len(p) /\ b \in Nat /\ j \in Nat /\ \A i \in a + 1 .. b : p[i] # "*"
      BY PlacesOfStars
  <1>2. l = SubSeq(p, a + 1, b)
      BY DEF LastPiece
  <1>3. Len(l) = b - a /\ l \in Seq(STRING) /\ Len(l) \in Nat
      BY <1>1, <1>2
  <1>4. a \in 0 .. Len(p) /\ b \in a .. Len(p) /\ j \in Int
      BY <1>1
  <1>5. r[a] \in SUBSET (0 .. Len(t))
    <2> HIDE DEF a
    <2> QED
        BY <1>4 DEF Reaches
  <1> HIDE DEF a, l
  <1>6. j \in r[b] <=> /\ j - (b - a) \in r[a] /\ j <= Len(t) /\ \A i \in a + 1 .. b : t[j - (b - i)] = p[i]
    <2> HIDE DEF b, j
    <2>1. NoStars(p, a, b)
        BY <1>1 DEF NoStars
    <2>2. StandsFor(p, t, r, a, b, j)
        BY <1>4, <2>1, PiecesStandForThemselves, Zenon
    <2> QED
        BY <2>2 DEF StandsFor
  <1>7. IsSuffix(l, t) <=> b - a <= j /\ SubSeq(t, (j - (b - a)) + 1, j) = l
      BY <1>3, EndsWith
  <1>8. ASSUME b - a <= j
        PROVE  SubSeq(t, (j - (b - a)) + 1, j) = l <=> \A i \in a + 1 .. b : t[j - (b - i)] = p[i]
    <2> DEFINE k == j - (b - a)
    <2>1. k \in Nat /\ k + (b - a) = j /\ k + (b - a) <= Len(t)
        BY <1>1, <1>8
    <2> HIDE DEF k
    <2>2. (SubSeq(t, k + 1, k + (b - a)) = SubSeq(p, a + 1, b))
             <=> \A i \in a + 1 .. b : t[(k + (b - a)) - (b - i)] = p[i]
      <3> HIDE DEF b
      <3> QED
          BY <1>4, <2>1, WhereAPieceStands
    <2> QED
        BY <1>2, <2>1, <2>2 DEF k
  <1>9. j - (b - a) \in r[a] => b - a <= j
      BY <1>1, <1>5
  <1>10. j \in r[b] <=> j - (b - a) \in r[a] /\ IsSuffix(l, t)
    <2> HIDE DEF b
    <2> QED
        BY <1>6, <1>7, <1>8, <1>9
  <1> QED
      BY <1>3, <1>10 DEF a, l

\* segment_matches: to take each piece where it first comes is enough.
LEMMA FirstPlacesAreEnough ==
    ASSUME NEW p \in Seq(STRING), NEW t \in Seq(STRING)
    PROVE  SegmentMatches(p, t) <=> Means(p, t)
  <1> DEFINE r == UptoOf(p, t)
  <1>1. Reaches(r, p, t)
      BY UptoReaches
  <1>2. Means(p, t) = (Len(t) \in r[Len(p)])
      BY MeansUpto
  <1> HIDE DEF r
  <1>3. CASE Stars(p) = {}
    <2>1. SegmentMatches(p, t) = (p = t)
        BY <1>3, MatchesSearched
    <2> QED
        BY <1>1, <1>2, <1>3, <2>1, WithoutStars
  <1>4. CASE Stars(p) # {}
    <2> DEFINE z == Max(Stars(p))
               f == FirstPiece(p)
               l == LastPiece(p)
               end == Len(t) - Len(l)
               c == SearchOf(p, WindowOf(p, t))
    <2>1. SegmentMatches(p, t) = (IsPrefix(f, t) /\ IsSuffix(l, t) /\ end >= Len(f) /\ c[z] # -1)
        BY <1>4, MatchesSearched
    <2>2. Len(l) \in Nat /\ (Len(t) \in r[Len(p)] <=> end \in r[z] /\ IsSuffix(l, t))
        BY <1>1, <1>4, TheLastPiece
    <2>3. z \in Stars(p) /\ z \in Min(Stars(p)) .. Len(p) /\ Min(Stars(p)) \in 1 .. Len(p)
        BY <1>4, PlacesOfStars
    <2>4. end \in r[z] => IsPrefix(f, t) /\ Len(f) <= end
      <3> HIDE DEF z, end, f
      <3>1. \A j \in r[z] : IsPrefix(f, t) /\ Len(f) <= j
          BY <1>1, <1>4, <2>3, NothingBeforeTheFirst DEF f
      <3> QED
          BY <3>1
    <2>5. Len(f) \in Nat /\ end \in Int
        BY <2>2, <2>3 DEF FirstPiece
    <2>6. ASSUME IsPrefix(f, t), Len(f) <= end
          PROVE  end \in r[z] <=> c[z] # -1
      <3>1. end \in 0 .. Len(t) /\ end \in 0 .. end
          BY <2>2, <2>5, <2>6
      <3>2. WindowOf(p, t) = SubSeq(t, 1, end) /\ SubSeq(t, 1, end) \in Seq(STRING)
          BY <3>1 DEF WindowOf
      <3>3. Searches(c, p, SubSeq(t, 1, end))
        <4> HIDE DEF end
        <4>1. \E d : Searches(d, p, SubSeq(t, 1, end))
            BY <1>4, <3>2, SearchExists
        <4> QED
            BY <3>2, <4>1, Zenon DEF SearchOf
      <3> HIDE DEF z, f, end, c
      <3>4. \A n \in Stars(p) : LeastReached(c[n], r[n], end)
          BY <1>1, <1>4, <2>6, <3>1, <3>3, SearchIsLeast DEF f
      <3>5. LeastReached(c[z], r[z], end)
          BY <2>3, <3>4
      <3>6. end \in r[z] <=> c[z] # -1 /\ c[z] <= end
          BY <3>1, <3>5 DEF LeastReached
      <3>7. c[z] # -1 => c[z] <= end
          BY <2>5, <3>5 DEF LeastReached
      <3> QED
          BY <3>6, <3>7
    <2> HIDE DEF z, f, l, end, c
    <2> QED
        BY <1>2, <2>1, <2>2, <2>4, <2>5, <2>6
  <1> QED
      BY <1>3, <1>4

\* find_matching_files: what is counted is what the pattern means.
LEMMA CountsAreMeant ==
    ASSUME NEW glob \in Seq(Seq(STRING)), NEW unread, NEW count \in MatchCounts(glob, unread)
    PROVE  LET there == Stock \ unread
               meant == {f \in there : Len(f) = Len(glob) /\ \A n \in DOMAIN f : Means(glob[n], f[n])}
               missed == Cardinality(meant) - count
           IN  /\ missed >= 0
               /\ IF Cardinality(there) <= MaxGlobEntries THEN missed = 0
                  ELSE missed <= Cardinality(there) - MaxGlobEntries
  <1> DEFINE there == Stock \ unread
             Meant(f) == Len(f) = Len(glob) /\ \A n \in DOMAIN f : Means(glob[n], f[n])
             meant == {f \in there : Meant(f)}
             match == {f \in there : MatchesPattern(f, glob)}
  <1>1. IsFiniteSet(Stock) /\ Stock \subseteq Seq(Seq(STRING)) /\ MaxGlobEntries \in Nat
      BY RootClaimsAssumption
  <1>2. ASSUME NEW f \in there
        PROVE  MatchesPattern(f, glob) <=> Meant(f)
    <2>1. f \in Seq(Seq(STRING))
        BY <1>1
    <2>2. ASSUME Len(f) = Len(glob)
          PROVE  DOMAIN f = DOMAIN glob
        BY <2>1, <2>2
    <2>3. ASSUME Len(f) = Len(glob), NEW n \in DOMAIN f
          PROVE  SegmentMatches(glob[n], f[n]) <=> Means(glob[n], f[n])
      <3>1. glob[n] \in Seq(STRING) /\ f[n] \in Seq(STRING)
        <4>1. n \in DOMAIN glob
            BY <2>2, <2>3
        <4> QED
            BY <2>1, <2>3, <4>1
      <3> QED
          BY <3>1, FirstPlacesAreEnough
    <2> QED
        BY <2>2, <2>3 DEF MatchesPattern
  <1>3. match = meant
    <2> HIDE DEF Meant, there
    <2> QED
        BY <1>2
  <1>4. IsFiniteSet(there) /\ IsFiniteSet(match)
    <2>1. there \in SUBSET Stock /\ match \in SUBSET there
        OBVIOUS
    <2> HIDE DEF there, match
    <2> QED
        BY <1>1, <2>1, FS_Subset
  <1>5. Cardinality(there) \in Nat /\ Cardinality(match) \in Nat
      BY <1>4, FS_CardinalityType
  <1>6. /\ count \in 0 .. Cardinality(match)
        /\ LET missed == Cardinality(match) - count
               over == Cardinality(there) - MaxGlobEntries
           IN  IF over <= 0 THEN missed = 0 ELSE missed <= over /\ over - missed <= Cardinality(there) - Cardinality(match)
      BY DEF MatchCounts
  <1> HIDE DEF there, match, meant
  <1>7. LET missed == Cardinality(meant) - count
        IN  /\ missed >= 0
            /\ IF Cardinality(there) <= MaxGlobEntries THEN missed = 0
               ELSE missed <= Cardinality(there) - MaxGlobEntries
      BY <1>1, <1>3, <1>5, <1>6
  <1> QED
      BY <1>7 DEF there, meant

LEMMA MatchesKeep ==
    ASSUME asking \in Questions, RootClaimsNext
    PROVE  MatchesAreMeant'
  <1>1. asking' = asking /\ claim = {}
      BY AskedOnce
  <1> SUFFICES ASSUME asking.adapter = "manifest", asking.kind = "inventory_map", NEW told \in claim',
                      "matches" \in DOMAIN told, NEW a \in DOMAIN told.matches
               PROVE  LET there == Stock \ unread2'[a]
                          meant == {f \in there : Len(f) = Len(a.glob) /\ \A n \in DOMAIN f : Means(a.glob[n], f[n])}
                          missed == Cardinality(meant) - told.matches[a]
                      IN  /\ missed >= 0
                          /\ IF Cardinality(there) <= MaxGlobEntries THEN missed = 0
                             ELSE missed <= Cardinality(there) - MaxGlobEntries
    <2> QED
        BY <1>1, Zenon DEF MatchesAreMeant
  <1>2. ClaimMatches \/ RefuseManifest
    <2>1. CASE ClaimRoot \/ ClaimSessions \/ ClaimNothing \/ StartProbe \/ TryWait \/ ProbeTimesOut \/ JoinReaders
               \/ ClaimManifestRoot \/ ClaimManifestNothing \/ ClaimReclaim
        BY <2>1 DEF ClaimRoot, ClaimSessions, ClaimNothing, StartProbe, TryWait, ProbeTimesOut, JoinReaders,
                    ClaimManifestRoot, ClaimManifestNothing, ClaimReclaim, Asking, Asks2
    <2>2. CASE LookForLink \/ ReadMarker \/ Moves2 \/ ChildEnds \/ OutputCloses
        BY <1>1, <2>2 DEF LookForLink, ReadMarker, Moves2, ChildEnds, OutputCloses, Child2, historyVars2
    <2> QED
        BY <2>1, <2>2 DEF RootClaimsNext
  <1>3. \A what, how, ceiling : "matches" \notin DOMAIN Outcome(what, how, ceiling)
      BY DEF Outcome
  <1>4. ~RefuseManifest
    <2>1. RefuseManifest => told = Outcome(ParseManifest(asking.manifest), "low_unknown", {})
        BY DEF RefuseManifest, Claims, Answers2
    <2> QED
        BY <1>3, <2>1
  <1>5. "matches" \notin DOMAIN Unsupported("low_unknown")
      BY <1>3 DEF Unsupported
  <1> DEFINE confident == {x \in SessionPatterns(asking.manifest) : ConfidenceOf(x.root) # "unknown"}
  <1>6. \E counts, unread :
            /\ DOMAIN counts = confident /\ unread2' = unread
            /\ \A x \in confident : counts[x] \in MatchCounts(x.glob, unread[x])
            /\ told = [support |-> "supported_observed", confidence |-> "observed", ceiling |-> {}, matches |-> counts]
    <2> HIDE DEF confident
    <2>1. confident # {}
        BY <1>2, <1>4, <1>5 DEF ClaimMatches, Claims, Answers2, confident
    <2>2. \E unread \in [confident -> Losses] :
              LET of == [x \in confident |-> MatchCounts(x.glob, unread[x])] IN
              \E counts \in [confident -> UNION Range(of)] :
                 /\ \A x \in confident : counts[x] \in of[x]
                 /\ told = [support |-> "supported_observed", confidence |-> "observed", ceiling |-> {}, matches |-> counts]
                 /\ unread2' = unread
        BY <1>2, <1>4, <2>1 DEF ClaimMatches, Answers2, confident
    <2> QED
        BY <2>2
  <1>7. a \in confident /\ told.matches[a] \in MatchCounts(a.glob, unread2'[a])
    <2> HIDE DEF confident
    <2>1. PICK counts, unread :
            /\ DOMAIN counts = confident /\ unread2' = unread
            /\ \A x \in confident : counts[x] \in MatchCounts(x.glob, unread[x])
            /\ told = [support |-> "supported_observed", confidence |-> "observed", ceiling |-> {}, matches |-> counts]
        BY <1>6
    <2>2. told.matches = counts
        BY <2>1
    <2> QED
        BY <2>1, <2>2
  <1>8. a.glob \in Seq(Seq(STRING))
    <2>1. asking.manifest \in Manifests
        BY DEF Questions, Asked
    <2>2. a \in ToSet(asking.manifest.artifacts)
        BY <1>7 DEF SessionPatterns
    <2> QED
        BY <2>1, <2>2, RootClaimsAssumption
  <1> QED
      BY <1>7, <1>8, CountsAreMeant

\* The files a manifest's patterns are said to match (segment_matches,
\* find_matching_files) are those their stars mean among the files that could be
\* read, whatever could not be, less at most what is beyond the limit: for patterns
\* and names of any length, though each piece is looked for only where it first
\* comes.
THEOREM PatternsAreMeant == InterfacesSpec => []MatchesAreMeant
  <1>1. InterfacesInit => asking \in Questions /\ MatchesAreMeant
      BY DEF InterfacesInit, RootClaimsInit, MatchesAreMeant
  <1>2. asking \in Questions /\ MatchesAreMeant /\ [InterfacesNext]_interfacesVars
           => (asking \in Questions /\ MatchesAreMeant)'
    <2> SUFFICES ASSUME asking \in Questions, MatchesAreMeant, [InterfacesNext]_interfacesVars
                 PROVE  asking' \in Questions /\ MatchesAreMeant'
        OBVIOUS
    <2>1. RootClaimsNext \/ UNCHANGED claimVars
        BY DEF InterfacesNext, interfacesVars, ClaimsUse
    <2>2. CASE UNCHANGED claimVars
        BY <2>2 DEF claimVars, historyVars2, MatchesAreMeant
    <2>3. CASE RootClaimsNext
        BY <2>3, AskedOnce, MatchesKeep
    <2> QED
        BY <2>1, <2>2, <2>3
  <1> QED
      BY <1>1, <1>2, PTL DEF InterfacesSpec

\* Whatever an adapter answers of its roots and of its files rests on what was
\* there (root_fingerprint.rs, manifest_provider.rs).
THEOREM AnswersRestOnEvidence == InterfacesSpec => []ClaimsRestOnEvidence
  <1>1. RootsRestOnEvidence /\ MatchesAreMeant => ClaimsRestOnEvidence
      BY DEF ClaimsRestOnEvidence
  <1> QED
      BY <1>1, RootClaimsRestOnEvidence, PatternsAreMeant, PTL

-----------------------------------------------------------------------------
(* Induction over finite sets.                                             *)

\* What holds of a set when it holds of all sets with one member less holds of
\* all finite sets.
LEMMA SetBySet ==
    ASSUME NEW X, IsFiniteSet(X), NEW T,
           \A s \in SUBSET X : (\A x \in s : s \ {x} \in T) => s \in T
    PROVE  \A s \in SUBSET X : s \in T
  <1> DEFINE Lacking == {n \in Nat : \E s \in SUBSET X : s \notin T /\ Cardinality(s) = n}
  <1>1. ASSUME NEW s \in SUBSET X
        PROVE  IsFiniteSet(s) /\ Cardinality(s) \in Nat
      BY <1>1, FS_Subset, FS_CardinalityType
  <1>2. SUFFICES ASSUME Lacking # {} PROVE FALSE
      BY <1>1
  <1>3. PICK m \in Lacking : \A n \in Lacking : m <= n
    <2>1. Lacking \in SUBSET Nat
        OBVIOUS
    <2> HIDE DEF Lacking
    <2> QED
        BY <1>2, <2>1, LeastExists
  <1>4. PICK s \in SUBSET X : s \notin T /\ Cardinality(s) = m
      OBVIOUS
  <1>5. PICK x \in s : s \ {x} \notin T
      BY <1>4
  <1>6. Cardinality(s \ {x}) = m - 1 /\ m - 1 \in Nat
      BY <1>1, <1>4, <1>5, FS_RemoveElement
  <1>7. m - 1 \in Lacking
      BY <1>5, <1>6
  <1> QED
      BY <1>3, <1>7

-----------------------------------------------------------------------------
(* SumOver is what its definition says.                                    *)

First(s) == CHOOSE x \in s : TRUE

IsRunning(g, f, X) ==
    g = [s \in SUBSET X |-> IF s = {} THEN 0 ELSE f[First(s)] + g[s \ {First(s)}]]

Running(f, X) == CHOOSE g : IsRunning(g, f, X)

\* SumOver takes the members in some order, First by First.
LEMMA SumIsChosen ==
    ASSUME NEW f, NEW X
    PROVE  SumOver(f, X) = Running(f, X)[X]
  BY DEF SumOver, FoldFunctionOnSet, MapThenFoldSet, Running, IsRunning, First

\* For a finite set there is such a function: one for the sets of at most n
\* members gives one for those of n + 1.
LEMMA RunningExists ==
    ASSUME NEW f, NEW X, IsFiniteSet(X)
    PROVE  IsRunning(Running(f, X), f, X)
  <1> DEFINE
        Small(n) == {s \in SUBSET X : Cardinality(s) <= n}
        RunsUpto(n, g) == g = [s \in Small(n) |->
            IF s = {} THEN 0 ELSE f[First(s)] + g[s \ {First(s)}]]
        T == {n \in Nat : \E g : RunsUpto(n, g)}
  <1>1. ASSUME NEW s \in SUBSET X
        PROVE  IsFiniteSet(s) /\ Cardinality(s) \in Nat /\ Cardinality(s) <= Cardinality(X)
      BY <1>1, FS_Subset, FS_CardinalityType
  <1>2. Cardinality(X) \in Nat
      BY FS_CardinalityType
  <1>3. 0 \in T
    <2> DEFINE g == [s \in Small(0) |-> 0]
    <2>1. \A s \in Small(0) : s = {}
        BY <1>1, FS_EmptySet
    <2>2. g = [s \in Small(0) |-> IF s = {} THEN 0 ELSE f[First(s)] + g[s \ {First(s)}]]
        BY <2>1
    <2>3. \E h : RunsUpto(0, h)
        BY <2>2, Zenon
    <2> HIDE DEF RunsUpto
    <2> QED
        BY <2>3
  <1>4. ASSUME NEW n \in Nat, n \in T
        PROVE  n + 1 \in T
    <2>1. PICK g : RunsUpto(n, g)
        BY <1>4
    <2> DEFINE h == [s \in Small(n + 1) |->
                       IF s = {} THEN 0 ELSE f[First(s)] + g[s \ {First(s)}]]
    <2>2. ASSUME NEW s \in Small(n + 1), s # {}
          PROVE  s \ {First(s)} \in Small(n) /\ s \ {First(s)} \in Small(n + 1)
      <3>1. First(s) \in s
          BY <2>2 DEF First
      <3>2. Cardinality(s \ {First(s)}) = Cardinality(s) - 1
          BY <1>1, <3>1, FS_RemoveElement
      <3> QED
          BY <1>1, <3>2
    <2>3. ASSUME NEW s \in Small(n)
          PROVE  s \in Small(n + 1) /\ h[s] = g[s]
      <3>1. s \in Small(n + 1)
          BY <1>1
      <3>2. g[s] = IF s = {} THEN 0 ELSE f[First(s)] + g[s \ {First(s)}]
          BY <2>1
      <3> QED
          BY <3>1, <3>2
    <2>4. h = [s \in Small(n + 1) |-> IF s = {} THEN 0 ELSE f[First(s)] + h[s \ {First(s)}]]
        BY <2>2, <2>3
    <2>5. \E k : RunsUpto(n + 1, k)
        BY <2>4, Zenon
    <2> HIDE DEF RunsUpto
    <2> QED
        BY <2>5
  <1>5. Cardinality(X) \in T
    <2> DEFINE Lacking == {n \in Nat : n \notin T}
    <2>1. SUFFICES ASSUME Lacking # {} PROVE FALSE
        BY <1>2
    <2>2. PICK m \in Lacking : \A n \in Lacking : m <= n
      <3>1. Lacking \in SUBSET Nat
          OBVIOUS
      <3> HIDE DEF Lacking
      <3> QED
          BY <2>1, <3>1, LeastExists
    <2> HIDE DEF T
    <2>3. m # 0 /\ m - 1 \in Nat
        BY <1>3
    <2>4. m - 1 \in T
        BY <2>2, <2>3
    <2>5. (m - 1) + 1 \in T
        BY <1>4, <2>3, <2>4
    <2> QED
        BY <2>5
  <1>6. Small(Cardinality(X)) = SUBSET X
      BY <1>1
  <1>7. \E g : IsRunning(g, f, X)
    <2>1. PICK g : RunsUpto(Cardinality(X), g)
        BY <1>5
    <2> QED
        BY <1>6, <2>1 DEF IsRunning
  <1> QED
      BY <1>7, Zenon DEF Running

-----------------------------------------------------------------------------
(* The algebra of sums.                                                    *)

NatValued(f, X) == \A x \in X : f[x] \in Nat

\* Sums of numbers are numbers.
LEMMA SumsAreNumbers ==
    ASSUME NEW f, NEW X, IsFiniteSet(X), NatValued(f, X), NEW g, IsRunning(g, f, X)
    PROVE  \A s \in SUBSET X : g[s] \in Nat
  <1> DEFINE T == {s \in SUBSET X : g[s] \in Nat}
  <1>1. ASSUME NEW s \in SUBSET X, \A x \in s : s \ {x} \in T
        PROVE  s \in T
    <2>1. CASE s = {}
        BY <2>1 DEF IsRunning
    <2>2. CASE s # {}
      <3>1. First(s) \in s
          BY <2>2 DEF First
      <3>2. g[s] = f[First(s)] + g[s \ {First(s)}]
          BY <2>2 DEF IsRunning
      <3>3. g[s \ {First(s)}] \in Nat /\ f[First(s)] \in Nat
          BY <1>1, <3>1 DEF NatValued
      <3> QED
          BY <3>2, <3>3
    <2> QED
        BY <2>1, <2>2
  <1>2. \A s \in SUBSET X : s \in T
    <2> HIDE DEF T
    <2> QED
        BY <1>1, SetBySet
  <1> QED
      BY <1>2

\* In whatever order the members are taken, each adds its value.
LEMMA AnyMemberFirst ==
    ASSUME NEW f, NEW X, IsFiniteSet(X), NatValued(f, X), NEW g, IsRunning(g, f, X)
    PROVE  \A s \in SUBSET X : \A x \in s : g[s] = f[x] + g[s \ {x}]
  <1> DEFINE T == {s \in SUBSET X : \A x \in s : g[s] = f[x] + g[s \ {x}]}
  <1>1. ASSUME NEW s \in SUBSET X, \A x \in s : s \ {x} \in T
        PROVE  s \in T
    <2>1. ASSUME NEW x \in s
          PROVE  g[s] = f[x] + g[s \ {x}]
      <3>1. PICK p \in s : g[s] = f[p] + g[s \ {p}]
        <4>1. First(s) \in s
            BY DEF First
        <4> QED
            BY <4>1 DEF IsRunning
      <3>2. CASE x = p
          BY <3>1, <3>2
      <3>3. CASE x # p
        <4> DEFINE both == (s \ {p}) \ {x}
        <4>1. both = (s \ {x}) \ {p} /\ both \in SUBSET X
            OBVIOUS
        <4>2. g[s \ {p}] = f[x] + g[both]
            BY <1>1, <3>3
        <4>3. g[s \ {x}] = f[p] + g[both]
            BY <1>1, <3>3, <4>1
        <4>4. g[both] \in Nat
            BY <4>1, SumsAreNumbers
        <4>5. f[x] \in Nat /\ f[p] \in Nat
            BY DEF NatValued
        <4> HIDE DEF both
        <4> QED
            BY <3>1, <4>2, <4>3, <4>4, <4>5
      <3> QED
          BY <3>2, <3>3
    <2> QED
        BY <2>1
  <1>2. \A s \in SUBSET X : s \in T
    <2> HIDE DEF T
    <2> QED
        BY <1>1, SetBySet
  <1> QED
      BY <1>2

\* A sum does not depend on the set its terms were counted in.
LEMMA RunningOfPart ==
    ASSUME NEW f, NEW X, IsFiniteSet(X), NEW P \in SUBSET X
    PROVE  Running(f, X)[P] = SumOver(f, P)
  <1> DEFINE g == Running(f, X)
             h == Running(f, P)
             T == {s \in SUBSET P : g[s] = h[s]}
  <1>1. IsFiniteSet(P)
      BY FS_Subset
  <1>2. IsRunning(g, f, X) /\ IsRunning(h, f, P)
      BY <1>1, RunningExists
  <1>3. SumOver(f, P) = h[P]
      BY SumIsChosen
  <1> HIDE DEF g, h
  <1>4. ASSUME NEW s \in SUBSET P, \A x \in s : s \ {x} \in T
        PROVE  s \in T
    <2>1. CASE s = {}
        BY <1>2, <2>1 DEF IsRunning
    <2>2. CASE s # {}
      <3>1. First(s) \in s
          BY <2>2 DEF First
      <3>2. g[s] = f[First(s)] + g[s \ {First(s)}]
          BY <1>2, <2>2 DEF IsRunning
      <3>3. h[s] = f[First(s)] + h[s \ {First(s)}]
          BY <1>2, <2>2 DEF IsRunning
      <3> QED
          BY <1>4, <3>1, <3>2, <3>3
    <2> QED
        BY <2>1, <2>2
  <1>5. \A s \in SUBSET P : s \in T
    <2> HIDE DEF T
    <2> QED
        BY <1>1, <1>4, SetBySet
  <1> QED
      BY <1>3, <1>5 DEF g

\* A sum is that of all members but one, and that one.
LEMMA SumTakesOne ==
    ASSUME NEW f, NEW X, IsFiniteSet(X), NatValued(f, X)
    PROVE  /\ SumOver(f, X) \in Nat
           /\ X = {} => SumOver(f, X) = 0
           /\ \A x \in X : SumOver(f, X) = f[x] + SumOver(f, X \ {x})
  <1> DEFINE g == Running(f, X)
  <1>1. IsRunning(g, f, X)
      BY RunningExists
  <1>2. SumOver(f, X) = g[X] /\ \A x \in X : SumOver(f, X \ {x}) = g[X \ {x}]
      BY RunningOfPart
  <1> HIDE DEF g
  <1>3. g[X] \in Nat
      BY <1>1, SumsAreNumbers
  <1>4. X = {} => g[X] = 0
      BY <1>1 DEF IsRunning
  <1>5. \A x \in X : g[X] = f[x] + g[X \ {x}]
      BY <1>1, AnyMemberFirst
  <1> QED
      BY <1>2, <1>3, <1>4, <1>5

\* A sum of sums is the sum of both.
LEMMA SumOfBoth ==
    ASSUME NEW f, NEW g, NEW h, NEW X, IsFiniteSet(X), NatValued(f, X), NatValued(g, X),
           \A x \in X : h[x] = f[x] + g[x]
    PROVE  SumOver(h, X) = SumOver(f, X) + SumOver(g, X)
  <1> DEFINE T == {s \in SUBSET X : SumOver(h, s) = SumOver(f, s) + SumOver(g, s)}
  <1>1. ASSUME NEW s \in SUBSET X
        PROVE  IsFiniteSet(s) /\ NatValued(f, s) /\ NatValued(g, s) /\ NatValued(h, s)
      BY FS_Subset DEF NatValued
  <1>2. ASSUME NEW s \in SUBSET X, \A x \in s : s \ {x} \in T
        PROVE  s \in T
    <2>1. CASE s = {}
        BY <1>1, <2>1, SumTakesOne
    <2>2. CASE s # {}
      <3>1. PICK x \in s : TRUE
          BY <2>2
      <3>2. /\ SumOver(h, s) = h[x] + SumOver(h, s \ {x})
            /\ SumOver(f, s) = f[x] + SumOver(f, s \ {x})
            /\ SumOver(g, s) = g[x] + SumOver(g, s \ {x})
          BY <1>1, SumTakesOne
      <3>3. SumOver(f, s \ {x}) \in Nat /\ SumOver(g, s \ {x}) \in Nat
          BY <1>1, SumTakesOne
      <3>4. SumOver(h, s \ {x}) = SumOver(f, s \ {x}) + SumOver(g, s \ {x})
          BY <1>2
      <3>5. f[x] \in Nat /\ g[x] \in Nat /\ h[x] = f[x] + g[x]
          BY DEF NatValued
      <3> QED
          BY <3>2, <3>3, <3>4, <3>5
    <2> QED
        BY <2>1, <2>2
  <1>3. \A s \in SUBSET X : s \in T
    <2> HIDE DEF T
    <2> QED
        BY <1>2, SetBySet
  <1> QED
      BY <1>3

\* Terms that are zero add nothing.
LEMMA SumOfZeros ==
    ASSUME NEW f, NEW X, IsFiniteSet(X), \A x \in X : f[x] = 0
    PROVE  SumOver(f, X) = 0
  <1>1. NatValued(f, X)
      BY DEF NatValued
  <1>2. SumOver(f, X) = SumOver(f, X) + SumOver(f, X)
      BY <1>1, SumOfBoth
  <1> QED
      BY <1>1, <1>2, SumTakesOne

\* Sums of equal terms are equal.
LEMMA SumOfEquals ==
    ASSUME NEW f, NEW g, NEW X, IsFiniteSet(X), NatValued(f, X), \A x \in X : g[x] = f[x]
    PROVE  SumOver(g, X) = SumOver(f, X)
  <1> DEFINE zero == [x \in X |-> 0]
  <1>1. NatValued(zero, X) /\ SumOver(zero, X) = 0
      BY SumOfZeros DEF NatValued
  <1>2. \A x \in X : g[x] = f[x] + zero[x]
      BY DEF NatValued
  <1> HIDE DEF zero
  <1>3. SumOver(g, X) = SumOver(f, X) + 0
      BY <1>1, <1>2, SumOfBoth
  <1> QED
      BY <1>3, SumTakesOne

\* A sum over two sets that do not meet is that over each.
LEMMA SumOfTwoSets ==
    ASSUME NEW f, NEW X, NEW Y, IsFiniteSet(X), IsFiniteSet(Y), X \cap Y = {},
           NatValued(f, X \cup Y)
    PROVE  SumOver(f, X \cup Y) = SumOver(f, X) + SumOver(f, Y)
  <1> DEFINE T == {s \in SUBSET Y : SumOver(f, X \cup s) = SumOver(f, X) + SumOver(f, s)}
  <1>1. ASSUME NEW s \in SUBSET Y
        PROVE  /\ IsFiniteSet(s) /\ IsFiniteSet(X \cup s)
               /\ NatValued(f, s) /\ NatValued(f, X \cup s) /\ NatValued(f, X)
      BY FS_Subset, FS_Union DEF NatValued
  <1>2. ASSUME NEW s \in SUBSET Y, \A x \in s : s \ {x} \in T
        PROVE  s \in T
    <2>0. SumOver(f, X) \in Nat
        BY <1>1, SumTakesOne
    <2>1. CASE s = {}
      <3>1. SumOver(f, s) = 0 /\ X \cup s = X
          BY <1>1, <2>1, SumTakesOne
      <3> QED
          BY <2>0, <3>1
    <2>2. CASE s # {}
      <3>1. PICK x \in s : TRUE
          BY <2>2
      <3>2. (X \cup s) \ {x} = X \cup (s \ {x}) /\ x \in X \cup s
          OBVIOUS
      <3>3. /\ SumOver(f, s) = f[x] + SumOver(f, s \ {x})
            /\ SumOver(f, X \cup s) = f[x] + SumOver(f, X \cup (s \ {x}))
          BY <1>1, <3>2, SumTakesOne
      <3>4. SumOver(f, X \cup (s \ {x})) = SumOver(f, X) + SumOver(f, s \ {x})
          BY <1>2
      <3>5. SumOver(f, s \ {x}) \in Nat /\ f[x] \in Nat
          BY <1>1, SumTakesOne DEF NatValued
      <3> QED
          BY <2>0, <3>3, <3>4, <3>5
    <2> QED
        BY <2>1, <2>2
  <1>3. \A s \in SUBSET Y : s \in T
    <2> HIDE DEF T
    <2> QED
        BY <1>2, SetBySet
  <1> QED
      BY <1>3

\* Each term has a place, and each place the sum of its terms.
SumsOfGroups(g, Y, f, X, home) ==
    /\ \A x \in X : home[x] \in Y
    /\ \A y \in Y : g[y] = SumOver(f, {x \in X : home[x] = y})

\* The sum of the sums of groups is the sum of all that are in them.
LEMMA SumOfGroups ==
    ASSUME NEW f, NEW g, NEW X, NEW Y, NEW home, IsFiniteSet(X), IsFiniteSet(Y),
           NatValued(f, X), SumsOfGroups(g, Y, f, X, home)
    PROVE  SumOver(g, Y) = SumOver(f, X)
  <1> DEFINE From(s) == {x \in X : home[x] \in s}
             T == {s \in SUBSET Y : SumOver(g, s) = SumOver(f, From(s))}
  <1>0. /\ \A x \in X : home[x] \in Y
        /\ \A y \in Y : g[y] = SumOver(f, {x \in X : home[x] = y})
      BY DEF SumsOfGroups
  <1>1. ASSUME NEW P \in SUBSET X
        PROVE  IsFiniteSet(P) /\ NatValued(f, P) /\ SumOver(f, P) \in Nat
    <2>1. IsFiniteSet(P) /\ NatValued(f, P)
        BY FS_Subset DEF NatValued
    <2> QED
        BY <2>1, SumTakesOne
  <1>2. ASSUME NEW s \in SUBSET Y
        PROVE  IsFiniteSet(s) /\ NatValued(g, s)
      BY <1>0, <1>1, FS_Subset DEF NatValued
  <1>3. ASSUME NEW s \in SUBSET Y, \A x \in s : s \ {x} \in T
        PROVE  s \in T
    <2>1. CASE s = {}
      <3>1. From(s) = {}
          BY <2>1
      <3>2. SumOver(f, {}) = 0 /\ SumOver(g, {}) = 0
          BY <1>1, <1>2, SumTakesOne
      <3> QED
          BY <2>1, <3>1, <3>2
    <2>2. CASE s # {}
      <3>1. PICK y \in s : TRUE
          BY <2>2
      <3> DEFINE here == {x \in X : home[x] = y}
                 rest == From(s \ {y})
      <3>2. From(s) = here \cup rest /\ here \cap rest = {}
          OBVIOUS
      <3>3. here \in SUBSET X /\ rest \in SUBSET X /\ here \cup rest \in SUBSET X
          OBVIOUS
      <3>4. g[y] = SumOver(f, here)
          BY <1>0
      <3>5. SumOver(g, s \ {y}) = SumOver(f, rest)
          BY <1>3
      <3>6. SumOver(g, s) = g[y] + SumOver(g, s \ {y})
          BY <1>2, SumTakesOne
      <3> HIDE DEF here, rest
      <3>7. SumOver(f, here \cup rest) = SumOver(f, here) + SumOver(f, rest)
          BY <1>1, <3>2, <3>3, SumOfTwoSets
      <3> HIDE DEF From
      <3> QED
          BY <3>2, <3>4, <3>5, <3>6, <3>7
    <2> QED
        BY <2>1, <2>2
  <1>4. \A s \in SUBSET Y : s \in T
    <2> HIDE DEF T
    <2> QED
        BY <1>3, SetBySet
  <1>5. From(Y) = X
      BY <1>0
  <1> QED
      BY <1>4, <1>5

-----------------------------------------------------------------------------
(* Policy: what is selected under pressure.                                *)

\* STRING: the provers do not know what is a string, so those a list may come to
\* name are written out.
Mentionable == STRING \cup {"p", "gone"}

\* An artifact of a list.
Listed == [id : STRING, identity : Nat, provider : STRING, project : SUBSET Mentionable,
           size : SizesOf, parent : SUBSET Mentionable, reach : Levels]

\* Everyone has a rank, those before the others have lower ones, and none is empty.
PlacesAreTaken(rank, S, N, ahead) ==
    /\ \A n \in S : rank[n] \in 1 .. N
    /\ \A m, n \in S : rank[m] = rank[n] => m = n
    /\ \A k \in 1 .. N : \E n \in S : rank[n] = k
    /\ \A m, n \in S : rank[m] < rank[n] => m \in ahead[n]

\* Where of any two members one is ahead, and those ahead of it with it, the
\* numbers of members ahead are all different and leave no rank empty.
LEMMA EveryPlaceIsTaken ==
    ASSUME NEW S, IsFiniteSet(S), NEW ahead \in [S -> SUBSET S],
           \A n \in S : n \notin ahead[n],
           \A n \in S : \A m \in ahead[n] : ahead[m] \subseteq ahead[n],
           \A m, n \in S : m # n => m \in ahead[n] \/ n \in ahead[m]
    PROVE  PlacesAreTaken([n \in S |-> Cardinality(ahead[n]) + 1], S, Cardinality(S), ahead)
  <1> DEFINE N == Cardinality(S)
             rank == [n \in S |-> Cardinality(ahead[n]) + 1]
  <1>1. N \in Nat
      BY FS_CardinalityType
  <1>2. ASSUME NEW n \in S
        PROVE  /\ IsFiniteSet(ahead[n]) /\ Cardinality(ahead[n]) \in Nat
               /\ Cardinality(ahead[n]) < N
    <2>1. ahead[n] \in SUBSET S /\ ahead[n] # S
        OBVIOUS
    <2>2. IsFiniteSet(ahead[n]) /\ Cardinality(ahead[n]) <= N /\ Cardinality(ahead[n]) # N
        BY <2>1, FS_Subset
    <2>3. Cardinality(ahead[n]) \in Nat
        BY <2>2, FS_CardinalityType
    <2> QED
        BY <1>1, <2>2, <2>3
  <1>3. ASSUME NEW m \in S, NEW n \in S, m \in ahead[n]
        PROVE  Cardinality(ahead[m]) < Cardinality(ahead[n])
    <2>1. ahead[m] \in SUBSET ahead[n] /\ ahead[m] # ahead[n]
        BY <1>3
    <2>2. Cardinality(ahead[m]) <= Cardinality(ahead[n])
          /\ Cardinality(ahead[m]) # Cardinality(ahead[n])
        BY <1>2, <2>1, FS_Subset
    <2> QED
        BY <1>2, <2>2
  <1>4. \A n \in S : rank[n] = Cardinality(ahead[n]) + 1 /\ rank[n] \in 1 .. N
      BY <1>1, <1>2
  <1>5. rank \in [S -> 1 .. N]
      BY <1>4
  <1>6. \A m, n \in S : rank[m] < rank[n] => m \in ahead[n]
    <2> SUFFICES ASSUME NEW m \in S, NEW n \in S, m \notin ahead[n]
                 PROVE  ~(rank[m] < rank[n])
        OBVIOUS
    <2>1. Cardinality(ahead[m]) \in Nat /\ Cardinality(ahead[n]) \in Nat
        BY <1>2
    <2>2. m # n => Cardinality(ahead[n]) < Cardinality(ahead[m])
        BY <1>3
    <2> HIDE DEF rank
    <2> QED
        BY <1>4, <2>1, <2>2
  <1>7. \A m, n \in S : rank[m] = rank[n] => m = n
    <2> SUFFICES ASSUME NEW m \in S, NEW n \in S, m # n
                 PROVE  rank[m] # rank[n]
        OBVIOUS
    <2>1. Cardinality(ahead[m]) # Cardinality(ahead[n])
        BY <1>2, <1>3
    <2>2. Cardinality(ahead[m]) \in Nat /\ Cardinality(ahead[n]) \in Nat
        BY <1>2
    <2> HIDE DEF rank
    <2> QED
        BY <1>4, <2>1, <2>2
  <1> HIDE DEF rank
  <1>8. rank \in Injection(S, 1 .. N)
      BY <1>5, <1>7 DEF Injection, IsInjective
  <1>9. IsFiniteSet(1 .. N) /\ Cardinality(1 .. N) = N
      BY <1>1, FS_Interval
  <1>10. rank \in Surjection(S, 1 .. N)
      BY <1>8, <1>9, FS_Injection
  <1>11. \A k \in 1 .. N : \E n \in S : rank[n] = k
      BY <1>10 DEF Surjection
  <1>12. PlacesAreTaken(rank, S, N, ahead)
      BY <1>4, <1>6, <1>7, <1>11 DEF PlacesAreTaken
  <1> QED
      BY <1>12 DEF rank

\* The pool is what may go, the larger before the smaller.
Arranged(pool, N, list, S) ==
    /\ pool \in [1 .. N -> Listed]
    /\ \A k \in 1 .. N : \E n \in S : pool[k] = list[n]
    /\ \A n \in S : \E k \in 1 .. N : pool[k] = list[n]
    /\ \A j, k \in 1 .. N : j < k => pool[k].size <= pool[j].size

LEMMA LargerFirstIsAnOrder ==
    ASSUME SizesOf \subseteq Nat
    PROVE  /\ \A x, y \in Listed : LargerFirst(x, y) \/ LargerFirst(y, x)
           /\ \A x, y, z \in Listed : LargerFirst(x, y) /\ LargerFirst(y, z) => LargerFirst(x, z)
           /\ \A x, y \in Listed : LargerFirst(x, y) => y.size <= x.size
  <1>1. \A x \in Listed : x.size \in Nat /\ x.identity \in Nat
      BY DEF Listed
  <1> QED
      BY <1>1 DEF LargerFirst

LEMMA PoolsAreArranged ==
    ASSUME NEW list \in Seq(Listed), NEW S \in SUBSET DOMAIN list, SizesOf \subseteq Nat
    PROVE  Arranged(SortedOf(list, S, LargerFirst), Cardinality(S), list, S)
  <1> DEFINE N == Cardinality(S)
             InFront(n) == {m \in S :
                 LargerFirst(list[m], list[n]) /\ (LargerFirst(list[n], list[m]) => m < n)}
             ahead == [n \in S |-> InFront(n)]
             rank == [n \in S |-> Cardinality(InFront(n)) + 1]
             at(k) == CHOOSE n \in S : rank[n] = k
             pool == SortedOf(list, S, LargerFirst)
  <1>1. DOMAIN list = 1 .. Len(list) /\ Len(list) \in Nat /\ \A n \in S : list[n] \in Listed /\ n \in Int
      OBVIOUS
  <1>2. IsFiniteSet(S) /\ N \in Nat
    <2>1. IsFiniteSet(1 .. Len(list))
        BY <1>1, FS_Interval
    <2>2. IsFiniteSet(S)
        BY <1>1, <2>1, FS_Subset
    <2> QED
        BY <2>2, FS_CardinalityType
  <1>3. /\ \A m, n \in S : LargerFirst(list[m], list[n]) \/ LargerFirst(list[n], list[m])
        /\ \A m, n, k \in S : LargerFirst(list[m], list[n]) /\ LargerFirst(list[n], list[k])
                                 => LargerFirst(list[m], list[k])
        /\ \A m, n \in S : LargerFirst(list[m], list[n]) => list[n].size <= list[m].size
      BY <1>1, LargerFirstIsAnOrder
  <1>4. ahead \in [S -> SUBSET S]
      OBVIOUS
  <1>5. \A n \in S : n \notin ahead[n]
      BY <1>1
  <1>6. \A m, n \in S : m # n => m \in ahead[n] \/ n \in ahead[m]
      BY <1>1, <1>3
  <1>7. \A n \in S : \A m \in ahead[n] : ahead[m] \subseteq ahead[n]
    <2> SUFFICES ASSUME NEW n \in S, NEW m \in ahead[n], NEW k \in ahead[m]
                 PROVE  k \in ahead[n]
        OBVIOUS
    <2>1. /\ m \in S /\ k \in S
          /\ LargerFirst(list[m], list[n]) /\ (LargerFirst(list[n], list[m]) => m < n)
          /\ LargerFirst(list[k], list[m]) /\ (LargerFirst(list[m], list[k]) => k < m)
        OBVIOUS
    <2>2. LargerFirst(list[k], list[n])
        BY <1>3, <2>1
    <2>3. LargerFirst(list[n], list[k]) => k < n
        BY <1>1, <1>3, <2>1
    <2> QED
        BY <2>1, <2>2, <2>3
  <1>8. rank = [n \in S |-> Cardinality(ahead[n]) + 1]
      OBVIOUS
  <1>9. \A m, n \in S : m \in ahead[n] => list[n].size <= list[m].size
      BY <1>3
  <1>10. pool = [k \in 1 .. N |-> list[at(k)]]
      BY DEF SortedOf
  <1> HIDE DEF ahead, rank, pool, N
  <1>11. PlacesAreTaken(rank, S, N, ahead)
      BY <1>2, <1>4, <1>5, <1>6, <1>7, <1>8, EveryPlaceIsTaken DEF N
  <1>12. \A k \in 1 .. N : at(k) \in S /\ rank[at(k)] = k
      BY <1>11 DEF PlacesAreTaken
  <1>13. \A n \in S : rank[n] \in 1 .. N /\ at(rank[n]) = n
      BY <1>11 DEF PlacesAreTaken
  <1> HIDE DEF at
  <1>14. \A k \in 1 .. N : pool[k] = list[at(k)]
      BY <1>10
  <1>15. pool \in [1 .. N -> Listed]
      BY <1>1, <1>10, <1>12
  <1>16. ASSUME NEW j \in 1 .. N, NEW k \in 1 .. N, j < k
         PROVE  pool[k].size <= pool[j].size
    <2>1. at(j) \in ahead[at(k)]
        BY <1>11, <1>12, <1>16 DEF PlacesAreTaken
    <2> QED
        BY <1>9, <1>12, <1>14, <2>1
  <1>17. Arranged(pool, N, list, S)
    <2>1. \A k \in 1 .. N : \E n \in S : pool[k] = list[n]
        BY <1>12, <1>14
    <2>2. \A n \in S : \E k \in 1 .. N : pool[k] = list[n]
        BY <1>13, <1>14
    <2> QED
        BY <1>15, <1>16, <2>1, <2>2 DEF Arranged
  <1> QED
      BY <1>17 DEF pool, N

\* The sum of a part of a sequence of artifacts is a number.
LEMMA SumsOfSizes ==
    ASSUME NEW list \in Seq(Listed), NEW P \in SUBSET DOMAIN list, SizesOf \subseteq Nat
    PROVE  /\ IsFiniteSet(P) /\ NatValued([n \in DOMAIN list |-> list[n].size], P)
           /\ SumSizes(list, P) \in Nat
  <1>1. DOMAIN list = 1 .. Len(list) /\ Len(list) \in Nat
      OBVIOUS
  <1>2. IsFiniteSet(P)
    <2>1. IsFiniteSet(1 .. Len(list))
        BY <1>1, FS_Interval
    <2> QED
        BY <1>1, <2>1, FS_Subset
  <1>3. \A n \in DOMAIN list : list[n] \in Listed
      OBVIOUS
  <1>4. \A n \in P : [k \in DOMAIN list |-> list[k].size][n] \in Nat
      BY <1>3 DEF Listed
  <1>5. NatValued([n \in DOMAIN list |-> list[n].size], P)
      BY <1>4 DEF NatValued
  <1> QED
      BY <1>2, <1>5, SumTakesOne DEF SumSizes

LEMMA FirstPlaces ==
    ASSUME NEW n \in Nat, NEW k \in Nat, k <= n
    PROVE  (1 .. k) \in SUBSET (1 .. n)
  OBVIOUS

\* What is taken of the pool: t of it, no fewer being enough, or all.
TakenOf(choice, pool, N, t, over) ==
    /\ t \in 0 .. N
    /\ choice.selected = SubSeq(pool, 1, t)
    /\ choice.freed = Saturating(SumSizes(pool, 1 .. t))
    /\ choice.satisfied <=> choice.freed >= over
    /\ \A k \in 0 .. N : k < t => Saturating(SumSizes(pool, 1 .. k)) < over
    /\ t = N \/ choice.satisfied

LEMMA ChoicesTakeAPart ==
    ASSUME NEW list \in Seq(Listed), NEW plan, NEW usage \in Nat, NEW allowed \in 0 .. usage,
           SizesOf \subseteq Nat, WidthLimit \in Nat,
           NEW S, S = {n \in DOMAIN list : list[n].id \in plan},
           NEW pool, pool = SortedOf(list, S, LargerFirst),
           NEW N, N = Cardinality(S), N \in Nat, pool \in [1 .. N -> Listed]
    PROVE  \E t : TakenOf(SelectUnderBudgetPressure(list, plan, usage, allowed), pool, N, t, usage - allowed)
  <1> DEFINE over == IF usage > allowed THEN usage - allowed ELSE 0
             Freed(n) == Saturating(SumSizes(pool, 1 .. n))
             enough == {n \in 0 .. Len(pool) : Freed(n) >= over}
             t == IF enough = {} THEN Len(pool) ELSE Min(enough)
             choice == SelectUnderBudgetPressure(list, plan, usage, allowed)
  <1>1. pool \in Seq(Listed) /\ Len(pool) = N
      OBVIOUS
  <1>2. over = usage - allowed /\ over \in Nat
      OBVIOUS
  <1>3. choice = [selected |-> SubSeq(pool, 1, t), freed |-> Freed(t), satisfied |-> Freed(t) >= over]
      BY DEF SelectUnderBudgetPressure
  <1>4. \A k \in 0 .. N : Freed(k) \in Nat
    <2> TAKE k \in 0 .. N
    <2>0. DOMAIN pool = 1 .. N /\ k \in Nat /\ k <= N
        OBVIOUS
    <2>1. (1 .. k) \in SUBSET DOMAIN pool
        BY <2>0, FirstPlaces
    <2>2. SumSizes(pool, 1 .. k) \in Nat
        BY <1>1, <2>1, SumsOfSizes
    <2> DEFINE sum == SumSizes(pool, 1 .. k)
    <2>3. Freed(k) = Saturating(sum)
        OBVIOUS
    <2> HIDE DEF sum, Freed
    <2> QED
        BY <2>2, <2>3 DEF Saturating, sum
  <1>5. enough = {n \in 0 .. N : Freed(n) >= over}
      BY <1>1
  <1>6. t \in 0 .. N /\ (t = N \/ Freed(t) >= over) /\ \A k \in 0 .. N : k < t => k \notin enough
    <2>1. CASE enough = {}
        BY <1>1, <2>1
    <2>2. CASE enough # {}
      <3>1. enough \in SUBSET Nat
          BY <1>5
      <3>2. t = Min(enough)
          BY <2>2
      <3> HIDE DEF t
      <3>3. t \in enough /\ \A k \in enough : t <= k
        <4> HIDE DEF enough
        <4> QED
            BY <2>2, <3>1, <3>2, MinOfPlaces
      <3>4. t \in 0 .. N /\ Freed(t) >= over
          BY <1>5, <3>3
      <3>5. \A k \in 0 .. N : k < t => k \notin enough
        <4> HIDE DEF enough
        <4> QED
            BY <3>3, <3>4
      <3> QED
          BY <3>4, <3>5
    <2> QED
        BY <2>1, <2>2
  <1>7. \A k \in 0 .. N : k < t => Freed(k) < over
    <2> TAKE k \in 0 .. N
    <2> HAVE k < t
    <2>1. ~(Freed(k) >= over)
        BY <1>5, <1>6
    <2> HIDE DEF Freed, over
    <2> QED
        BY <1>2, <1>4, <2>1
  <1> HIDE DEF t, enough, choice
  <1>8. TakenOf(choice, pool, N, t, usage - allowed)
    <2>1. /\ choice.selected = SubSeq(pool, 1, t) /\ choice.freed = Freed(t)
          /\ choice.satisfied <=> Freed(t) >= over
        BY <1>3
    <2> HIDE DEF over
    <2> QED
        BY <1>2, <1>6, <1>7, <2>1 DEF TakenOf
  <1> QED
      BY <1>8 DEF choice

\* What a choice is said to be.
ChoosesTheLargest(choice, list, plan, over) ==
    LET chosen == choice.selected
        last == Len(chosen)
    IN  /\ \A n \in DOMAIN chosen : chosen[n].id \in plan
        /\ last > 0 => SumSizes(chosen, 1 .. last - 1) < over
        /\ choice.satisfied <=> choice.freed >= over
        /\ \A n \in DOMAIN list :
              (list[n].id \in plan /\ \A m \in DOMAIN chosen : chosen[m] # list[n])
                  => choice.satisfied /\ \A m \in DOMAIN chosen : chosen[m].size >= list[n].size

\* The sum of the first few does not depend on what follows.
LEMMA SumsOfTheFirst ==
    ASSUME NEW pool \in Seq(Listed), NEW t \in 0 .. Len(pool), NEW k \in 0 .. t, SizesOf \subseteq Nat
    PROVE  SumSizes(SubSeq(pool, 1, t), 1 .. k) = SumSizes(pool, 1 .. k)
  <1> DEFINE chosen == SubSeq(pool, 1, t)
             f == [n \in DOMAIN pool |-> pool[n].size]
             g == [n \in DOMAIN chosen |-> chosen[n].size]
  <1>1. Len(pool) \in Nat /\ t \in Nat /\ k \in Nat /\ t <= Len(pool) /\ k <= t
      OBVIOUS
  <1>2. DOMAIN chosen = 1 .. t /\ \A n \in 1 .. t : chosen[n] = pool[n]
      BY <1>1
  <1>3. DOMAIN pool = 1 .. Len(pool) /\ (1 .. k) \in SUBSET DOMAIN pool
      BY <1>1
  <1>4. IsFiniteSet(1 .. k) /\ NatValued(f, 1 .. k)
      BY <1>3, SumsOfSizes
  <1>5. \A n \in 1 .. k : n \in 1 .. t /\ n \in DOMAIN pool
      BY <1>1
  <1> HIDE DEF chosen
  <1>6. \A n \in 1 .. k : g[n] = f[n]
      BY <1>2, <1>5
  <1> HIDE DEF f, g
  <1>7. SumOver(g, 1 .. k) = SumOver(f, 1 .. k)
      BY <1>4, <1>6, SumOfEquals
  <1> QED
      BY <1>7 DEF SumSizes, f, g, chosen

LEMMA ChoicesAreOfTheLargest ==
    ASSUME NEW list \in Seq(Listed), NEW plan, NEW usage \in 0 .. WidthLimit, NEW allowed \in 0 .. usage,
           SizesOf \subseteq Nat, WidthLimit \in Nat
    PROVE  ChoosesTheLargest(SelectUnderBudgetPressure(list, plan, usage, allowed), list, plan, usage - allowed)
  <1> DEFINE S == {n \in DOMAIN list : list[n].id \in plan}
             N == Cardinality(S)
             pool == SortedOf(list, S, LargerFirst)
             over == usage - allowed
             choice == SelectUnderBudgetPressure(list, plan, usage, allowed)
             chosen == choice.selected
  <1>1. over \in Nat /\ over <= WidthLimit /\ usage \in Nat
      OBVIOUS
  <1>2. \A n \in DOMAIN list : n \in S <=> list[n].id \in plan
      OBVIOUS
  <1>3. S \in SUBSET DOMAIN list
      OBVIOUS
  <1>4. N \in Nat
    <2>1. IsFiniteSet(S)
      <3> HIDE DEF S
      <3> QED
        BY <1>3, SumsOfSizes
    <2> QED
        BY <2>1, FS_CardinalityType
  <1>5. Arranged(pool, N, list, S)
    <2> HIDE DEF S
    <2> QED
        BY <1>3, PoolsAreArranged
  <1>6. pool \in [1 .. N -> Listed]
      BY <1>5 DEF Arranged
  <1>7. PICK t : TakenOf(choice, pool, N, t, over)
      BY <1>1, <1>4, <1>6, ChoicesTakeAPart
  <1> HIDE DEF S, N, pool, choice
  <1>8. pool \in Seq(Listed) /\ Len(pool) = N
      BY <1>4, <1>6
  <1>9. t \in 0 .. N /\ t \in Nat /\ chosen = SubSeq(pool, 1, t)
      BY <1>4, <1>7 DEF TakenOf
  <1>10. Len(chosen) = t /\ DOMAIN chosen = 1 .. t /\ \A m \in 1 .. t : chosen[m] = pool[m] /\ m \in 1 .. N
      BY <1>4, <1>8, <1>9
  <1>11. \A m \in DOMAIN chosen : chosen[m].id \in plan
    <2> TAKE m \in DOMAIN chosen
    <2>1. PICK n \in S : pool[m] = list[n]
        BY <1>5, <1>10 DEF Arranged
    <2> QED
        BY <1>2, <1>3, <1>10, <2>1
  <1>12. Len(chosen) > 0 => SumSizes(chosen, 1 .. Len(chosen) - 1) < over
    <2> SUFFICES ASSUME t > 0 PROVE SumSizes(chosen, 1 .. t - 1) < over
        BY <1>10
    <2>1. t - 1 \in 0 .. N /\ t - 1 \in 0 .. t /\ t - 1 < t
        BY <1>4, <1>9
    <2>2. Saturating(SumSizes(pool, 1 .. t - 1)) < over
        BY <1>7, <2>1 DEF TakenOf
    <2>3. SumSizes(pool, 1 .. t - 1) \in Nat
      <3>1. (1 .. t - 1) \in SUBSET DOMAIN pool
          BY <1>4, <1>8, <1>9
      <3> QED
          BY <1>8, <3>1, SumsOfSizes
    <2>4. SumSizes(chosen, 1 .. t - 1) = SumSizes(pool, 1 .. t - 1)
        BY <1>8, <1>9, <2>1, SumsOfTheFirst
    <2> HIDE DEF over, chosen
    <2> QED
        BY <1>1, <2>2, <2>3, <2>4 DEF Saturating
  <1>13. choice.satisfied <=> choice.freed >= over
      BY <1>7 DEF TakenOf
  <1>14. ASSUME NEW n \in DOMAIN list, list[n].id \in plan, \A m \in DOMAIN chosen : chosen[m] # list[n]
         PROVE  choice.satisfied /\ \A m \in DOMAIN chosen : chosen[m].size >= list[n].size
    <2>1. PICK k \in 1 .. N : pool[k] = list[n]
        BY <1>2, <1>5, <1>14 DEF Arranged
    <2>2. k \notin 1 .. t
        BY <1>10, <1>14, <2>1
    <2>3. t < k /\ t # N
        BY <1>4, <1>9, <2>2
    <2>4. choice.satisfied
        BY <1>7, <2>3 DEF TakenOf
    <2>5. ASSUME NEW m \in DOMAIN chosen
          PROVE  chosen[m].size >= list[n].size
      <3>1. m \in 1 .. t /\ m \in 1 .. N /\ chosen[m] = pool[m]
          BY <1>10
      <3>2. m < k
          BY <1>4, <1>9, <2>3, <3>1
      <3>3. pool[k].size <= pool[m].size
          BY <1>5, <3>1, <3>2 DEF Arranged
      <3>4. pool[k].size \in Nat /\ pool[m].size \in Nat
          BY <1>6, <3>1 DEF Listed
      <3> HIDE DEF chosen
      <3> QED
          BY <2>1, <3>1, <3>3, <3>4
    <2> QED
        BY <2>4, <2>5
  <1> HIDE DEF over
  <1>15. ChoosesTheLargest(choice, list, plan, over)
      BY <1>11, <1>12, <1>13, <1>14 DEF ChoosesTheLargest
  <1> QED
      BY <1>15 DEF over, choice

LEMMA PressureIsHonest ==
    ASSUME found \in Seq(Listed), SizesOf \subseteq Nat, WidthLimit \in Nat
    PROVE  PressureTakesTheLargest
  <1> DEFINE usage == Saturating(SumSizes(found, DOMAIN found))
  <1>1. SumSizes(found, DOMAIN found) \in Nat
      BY SumsOfSizes
  <1>2. usage \in 0 .. WidthLimit
      BY <1>1 DEF Saturating
  <1>3. \A allowed \in 0 .. usage :
            ChoosesTheLargest(SelectUnderBudgetPressure(found, planned, usage, allowed), found, planned,
                              usage - allowed)
    <2> HIDE DEF usage
    <2> QED
        BY <1>2, ChoicesAreOfTheLargest
  <1> QED
      BY <1>3 DEF ChoosesTheLargest, PressureTakesTheLargest

-----------------------------------------------------------------------------
(* Policy: totals.                                                         *)

\* A part is no larger than the whole.
LEMMA PartsAreLess ==
    ASSUME NEW list \in Seq(Listed), NEW Q \in SUBSET DOMAIN list, NEW P \in SUBSET Q, SizesOf \subseteq Nat
    PROVE  SumSizes(list, P) <= SumSizes(list, Q)
  <1> DEFINE f == [n \in DOMAIN list |-> list[n].size]
  <1>1. P \in SUBSET DOMAIN list /\ Q \ P \in SUBSET DOMAIN list /\ P \cup (Q \ P) = Q /\ P \cap (Q \ P) = {}
      OBVIOUS
  <1>2. /\ IsFiniteSet(P) /\ IsFiniteSet(Q \ P) /\ NatValued(f, Q)
        /\ SumSizes(list, P) \in Nat /\ SumSizes(list, Q \ P) \in Nat
      BY <1>1, SumsOfSizes
  <1>3. SumSizes(list, P) = SumOver(f, P) /\ SumSizes(list, Q) = SumOver(f, Q)
        /\ SumSizes(list, Q \ P) = SumOver(f, Q \ P)
      BY DEF SumSizes
  <1> HIDE DEF f
  <1>4. SumOver(f, Q) = SumOver(f, P) + SumOver(f, Q \ P)
      BY <1>1, <1>2, SumOfTwoSets
  <1> QED
      BY <1>2, <1>3, <1>4

Reclaimable(list, P) == {n \in P : IsReclaimable(list[n])}

\* A bucket for each key, and the totals of what is in it.
TotalsBy(part, list, keys) ==
    part = [k \in DOMAIN Bucket(keys) |-> Totals(list, Bucket(keys)[k])]

\* What the parts free adds up to what the whole list frees.
LEMMA PartsAddUp ==
    ASSUME NEW list \in Seq(Listed), SizesOf \subseteq Nat, WidthLimit \in Nat,
           SumSizes(list, DOMAIN list) <= WidthLimit,
           NEW keys, DOMAIN keys = DOMAIN list, NEW part, TotalsBy(part, list, keys)
    PROVE  SumOver([k \in DOMAIN part |-> part[k].reclaimable], DOMAIN part)
              = SumSizes(list, Reclaimable(list, DOMAIN list))
  <1> DEFINE f == [n \in DOMAIN list |-> list[n].size]
             R == Reclaimable(list, DOMAIN list)
             Y == Range(keys)
             g == [k \in DOMAIN part |-> part[k].reclaimable]
             In(k) == {n \in DOMAIN keys : keys[n] = k}
  <1>1. R \in SUBSET DOMAIN list /\ \A k : Reclaimable(list, In(k)) = {n \in R : keys[n] = k}
      BY DEF Reclaimable
  <1>2. IsFiniteSet(R) /\ NatValued(f, R) /\ SumSizes(list, DOMAIN list) \in Nat
      BY <1>1, SumsOfSizes
  <1>3. IsFiniteSet(Y)
    <2>1. IsFiniteSet(DOMAIN list)
        BY SumsOfSizes
    <2> DEFINE h == [n \in DOMAIN list |-> keys[n]]
    <2>2. h \in Surjection(DOMAIN list, Y)
        BY DEF Surjection, Range
    <2> QED
        BY <2>1, <2>2, FS_Surjection
  <1>4. DOMAIN part = Y /\ DOMAIN g = Y
      BY DEF TotalsBy, Bucket
  <1>5. \A k \in Y : Bucket(keys)[k] = In(k)
      BY DEF Bucket
  <1>6. ASSUME NEW k \in Y
        PROVE  g[k] = SumOver(f, {n \in R : keys[n] = k})
    <2> DEFINE P == {n \in R : keys[n] = k}
    <2>1. P \in SUBSET DOMAIN list
        BY <1>1
    <2>2. part[k] = Totals(list, In(k))
      <3>1. part[k] = Totals(list, Bucket(keys)[k])
        <4> HIDE DEF Y, g
        <4> QED
            BY <1>4 DEF TotalsBy
      <3> QED
          BY <1>5, <3>1
    <2>3. part[k].reclaimable = Wrapping(SumSizes(list, Reclaimable(list, In(k))))
        BY <2>2 DEF Totals, Reclaimable
    <2>4. g[k] = Wrapping(SumSizes(list, P))
        BY <1>1, <1>4, <2>3
    <2> HIDE DEF P, g
    <2>5. SumSizes(list, P) \in Nat /\ SumSizes(list, P) <= SumSizes(list, DOMAIN list)
        BY <2>1, SumsOfSizes, PartsAreLess
    <2>6. g[k] = SumSizes(list, P)
        BY <1>2, <2>4, <2>5 DEF Wrapping
    <2> QED
        BY <2>6 DEF SumSizes, P
  <1>7. \A n \in R : keys[n] \in Y
      BY <1>1 DEF Range
  <1>8. SumsOfGroups(g, Y, f, R, keys)
    <2> HIDE DEF g, f, R, Y
    <2> QED
        BY <1>6, <1>7 DEF SumsOfGroups
  <1>9. SumOver(g, Y) = SumOver(f, R)
    <2> HIDE DEF g, f, R, Y
    <2> QED
        BY <1>2, <1>3, <1>8, SumOfGroups
  <1> QED
      BY <1>4, <1>9 DEF SumSizes

LEMMA TotalsAreHonest ==
    ASSUME found \in Seq(Listed), SizesOf \subseteq Nat, WidthLimit \in Nat
    PROVE  TotalsAddUp
  <1> DEFINE scanned == [p \in DOMAIN ByProvider(found) |-> TRUE]
             summary == Summarize(found, scanned)
             R == Reclaimable(found, DOMAIN found)
             whole == SumSizes(found, DOMAIN found)
             WholeOf(part) == SumOver([k \in DOMAIN part |-> part[k].reclaimable], DOMAIN part)
             byProvider == [n \in DOMAIN found |-> found[n].provider]
             byProject == [n \in DOMAIN found |-> found[n].project]
  <1>1. SUFFICES ASSUME whole <= WidthLimit
                 PROVE  /\ WholeOf(summary.providers) = summary.total.reclaimable
                        /\ WholeOf(summary.projects) = summary.total.reclaimable
                        /\ summary.total.reclaimable <= summary.total.logical
      BY DEF TotalsAddUp
  <1>2. /\ whole \in Nat /\ SumSizes(found, R) \in Nat /\ SumSizes(found, R) <= whole
    <2>1. R \in SUBSET DOMAIN found
        BY DEF Reclaimable
    <2> HIDE DEF R
    <2> QED
        BY <2>1, SumsOfSizes, PartsAreLess
  <1>3. summary.total.reclaimable = SumSizes(found, R) /\ summary.total.logical = whole
    <2>1. /\ summary.total.reclaimable = Wrapping(SumSizes(found, R))
          /\ summary.total.logical = Wrapping(whole)
        BY DEF Summarize, Totals, Reclaimable
    <2> HIDE DEF summary, R, whole
    <2> QED
        BY <1>1, <1>2, <2>1 DEF Wrapping
  <1>4. TotalsBy(summary.providers, found, byProvider)
      BY DEF Summarize, TotalsBy, ByProvider
  <1>5. TotalsBy(summary.projects, found, byProject)
      BY DEF Summarize, TotalsBy, ByProject
  <1>6. DOMAIN byProvider = DOMAIN found /\ DOMAIN byProject = DOMAIN found
      OBVIOUS
  <1> HIDE DEF summary, byProvider, byProject
  <1>7. WholeOf(summary.providers) = SumSizes(found, R)
      BY <1>1, <1>4, <1>6, PartsAddUp
  <1>8. WholeOf(summary.projects) = SumSizes(found, R)
      BY <1>1, <1>5, <1>6, PartsAddUp
  <1> QED
      BY <1>2, <1>3, <1>7, <1>8

-----------------------------------------------------------------------------
(* Policy: sessions.                                                       *)

\* An option has one member at most.
OneParent(list) == \A n \in DOMAIN list : \A p, q \in list[n].parent : p = q

IdsOf(list) == {list[n].id : n \in DOMAIN list}

\* Steps that can be taken one after the other.
Course(f, n, D, first, step) ==
    f \in [0 .. n -> D] /\ f[0] = first /\ \A k \in 1 .. n : f[k] = step[k][f[k - 1]]

LEMMA StepsCanBeTaken ==
    ASSUME NEW n \in Nat, NEW D, NEW first \in D, NEW step \in [1 .. n -> [D -> D]]
    PROVE  \E f : Course(f, n, D, first, step)
  <1> DEFINE Made(f, m) == f[0] = first /\ \A k \in 1 .. m : f[k] = step[k][f[k - 1]]
             T == {m \in 0 .. n : \E f \in [0 .. m -> D] : Made(f, m)}
  <1>1. 0 \in T
    <2> DEFINE f == [k \in 0 .. 0 |-> first]
    <2>1. f \in [0 .. 0 -> D] /\ f[0] = first
        OBVIOUS
    <2>2. \A k \in 1 .. 0 : FALSE
        OBVIOUS
    <2> HIDE DEF f
    <2> QED
        BY <2>1, <2>2
  <1>2. ASSUME NEW m \in 0 .. n - 1, m \in T
        PROVE  m + 1 \in T
    <2>1. PICK f \in [0 .. m -> D] : Made(f, m)
        BY <1>2
    <2> DEFINE g == [k \in 0 .. m + 1 |-> IF k <= m THEN f[k] ELSE step[m + 1][f[m]]]
    <2>2. m \in Nat /\ m + 1 \in 1 .. n /\ f[m] \in D /\ step[m + 1] \in [D -> D]
        OBVIOUS
    <2>3. step[m + 1][f[m]] \in D
        BY <2>2
    <2>4. g \in [0 .. m + 1 -> D]
        BY <2>2, <2>3
    <2>5. \A k \in 0 .. m : g[k] = f[k]
        BY <2>2
    <2>6. g[m + 1] = step[m + 1][g[m]]
        BY <2>2
    <2> HIDE DEF g
    <2>7. \A k \in 1 .. m + 1 : g[k] = step[k][g[k - 1]]
      <3> TAKE k \in 1 .. m + 1
      <3>1. CASE k = m + 1
          BY <2>2, <2>6, <3>1
      <3>2. CASE k # m + 1
        <4>1. k \in 1 .. m /\ k \in 0 .. m /\ k - 1 \in 0 .. m
            BY <2>2, <3>2
        <4> QED
            BY <2>1, <2>5, <4>1
      <3> QED
          BY <3>1, <3>2
    <2>8. Made(g, m + 1)
        BY <2>1, <2>2, <2>5, <2>7
    <2>9. m + 1 \in 0 .. n
        BY <2>2
    <2> QED
        BY <2>4, <2>8, <2>9
  <1>3. \A m \in 0 .. n : m \in T
    <2> HIDE DEF T
    <2> QED
        BY <1>1, <1>2, StepByStep
  <1> QED
      BY <1>3 DEF Course

\* Where a chain goes from an id, and the chain it makes.
Above(list, at) == IF ParentIn(list, at) = {} THEN at ELSE CHOOSE p \in ParentIn(list, at) : TRUE
IsClimb(up, list, id) ==
    up = [n \in 0 .. Len(list) |-> IF n = 0 THEN id ELSE Above(list, up[n - 1])]
Climb(list, id) == CHOOSE up : IsClimb(up, list, id)

LEMMA RootsAreClimbedTo ==
    ASSUME NEW list, NEW id
    PROVE  SessionRoot(list, id)
              = IF ParentIn(list, Climb(list, id)[Len(list)]) = {} THEN Climb(list, id)[Len(list)] ELSE id
  BY DEF SessionRoot, Climb, IsClimb, Above

\* No step of a chain leaves the list.
LEMMA ChainsStayInTheList ==
    ASSUME NEW list, NEW at \in IdsOf(list)
    PROVE  Above(list, at) \in IdsOf(list)
  <1>1. \A p \in ParentIn(list, at) : p \in IdsOf(list)
      BY DEF ParentIn, InList, IdsOf
  <1> QED
      BY <1>1 DEF Above

\* The chain from an id, step by step.
Climbs(up, list, id) ==
    /\ up \in [0 .. Len(list) -> IdsOf(list)] /\ up[0] = id
    /\ \A k \in 1 .. Len(list) : up[k] = Above(list, up[k - 1])

LEMMA ChainsCanBeClimbed ==
    ASSUME NEW list \in Seq(Listed), NEW id \in IdsOf(list)
    PROVE  Climbs(Climb(list, id), list, id)
  <1> DEFINE L == Len(list)
             D == IdsOf(list)
             step == [k \in 1 .. L |-> [q \in D |-> Above(list, q)]]
             NextAt(up, n) == IF n = 0 THEN id ELSE Above(list, up[n - 1])
  <1>1. L \in Nat /\ id \in D
      OBVIOUS
  <1>2. step \in [1 .. L -> [D -> D]]
      BY ChainsStayInTheList
  <1>3. \A k \in 1 .. L : \A q \in D : step[k][q] = Above(list, q)
      OBVIOUS
  <1> HIDE DEF L, D, step
  <1>4. PICK f : Course(f, L, D, id, step)
      BY <1>1, <1>2, StepsCanBeTaken
  <1>5. f \in [0 .. L -> D] /\ f[0] = id /\ \A k \in 1 .. L : f[k] = step[k][f[k - 1]]
      BY <1>4 DEF Course
  <1>6. \A k \in 1 .. L : k - 1 \in 0 .. L /\ k # 0
      BY <1>1
  <1>7. \A k \in 1 .. L : f[k] = Above(list, f[k - 1])
      BY <1>3, <1>5, <1>6
  <1>8. \A n \in 0 .. L : n = 0 \/ n \in 1 .. L
      BY <1>1
  <1>9. \A n \in 0 .. L : f[n] = NextAt(f, n)
      BY <1>5, <1>7, <1>8
  <1>10. IsClimb(f, list, id)
    <2>1. f = [n \in 0 .. L |-> NextAt(f, n)]
      <3> HIDE DEF NextAt
      <3> QED
          BY <1>5, <1>9
    <2> QED
        BY <2>1 DEF IsClimb, L
  <1>11. IsClimb(Climb(list, id), list, id)
      BY <1>10, Zenon DEF Climb
  <1> DEFINE up == Climb(list, id)
             T == {n \in 0 .. L : up[n] \in D}
  <1>12. up = [n \in 0 .. L |-> NextAt(up, n)]
      BY <1>11 DEF IsClimb, L
  <1> HIDE DEF up
  <1>13. \A n \in 0 .. L : up[n] = NextAt(up, n)
    <2> HIDE DEF NextAt
    <2> QED
        BY <1>12
  <1>14. 0 \in 0 .. L /\ up[0] = id
      BY <1>1, <1>13
  <1>15. \A k \in 1 .. L : up[k] = Above(list, up[k - 1])
      BY <1>6, <1>8, <1>13
  <1>16. \A n \in 0 .. L - 1 : n \in T => n + 1 \in T
    <2> TAKE n \in 0 .. L - 1
    <2> HAVE n \in T
    <2>1. n + 1 \in 1 .. L /\ n + 1 \in 0 .. L /\ (n + 1) - 1 = n
        BY <1>1
    <2>2. up[n + 1] = Above(list, up[n])
        BY <1>15, <2>1
    <2>3. up[n + 1] \in D
        BY <2>2, ChainsStayInTheList DEF D
    <2> QED
        BY <2>1, <2>3
  <1>17. \A n \in 0 .. L : n \in T
    <2>1. 0 \in T
        BY <1>1, <1>14
    <2> HIDE DEF T
    <2> QED
        BY <1>1, <1>16, <2>1, StepByStep
  <1>18. up \in [0 .. L -> D]
    <2>1. DOMAIN up = 0 .. L
        BY <1>12
    <2>2. up = [n \in 0 .. L |-> up[n]]
        BY <1>12
    <2> QED
        BY <1>17, <2>1, <2>2
  <1>19. Climbs(up, list, id)
      BY <1>14, <1>15, <1>18 DEF Climbs, L, D
  <1> QED
      BY <1>19 DEF up

LEMMA RootsAreInTheList ==
    ASSUME NEW list \in Seq(Listed), NEW id \in IdsOf(list)
    PROVE  SessionRoot(list, id) \in IdsOf(list)
  <1> DEFINE up == Climb(list, id)
  <1>1. Climbs(up, list, id)
      BY ChainsCanBeClimbed
  <1>2. Len(list) \in 0 .. Len(list)
      OBVIOUS
  <1> HIDE DEF up
  <1>3. up[Len(list)] \in IdsOf(list)
      BY <1>1, <1>2 DEF Climbs
  <1>4. SessionRoot(list, id) \in {up[Len(list)], id}
      BY RootsAreClimbedTo DEF up
  <1> QED
      BY <1>3, <1>4

\* An id has one parent in the list at most.
LEMMA OneAbove ==
    ASSUME NEW list \in Seq(Listed), OneParent(list), NEW id \in IdsOf(list), NEW p \in ParentIn(list, id)
    PROVE  Above(list, id) = p /\ p \in IdsOf(list)
  <1> DEFINE S == {n \in DOMAIN list : list[n].id = id}
  <1>1. S \in SUBSET (1 .. Len(list)) /\ S # {} /\ Len(list) \in Nat
      BY DEF IdsOf
  <1>2. Max(S) \in DOMAIN list
    <2>1. S \in SUBSET DOMAIN list
        OBVIOUS
    <2> HIDE DEF S
    <2>2. Max(S) \in S
        BY <1>1, MaxOfPlaces
    <2> QED
        BY <2>1, <2>2
  <1>3. ById(list, id) = list[Max(S)]
      BY DEF ById
  <1> HIDE DEF S
  <1>4. \A x, y \in ById(list, id).parent : x = y
      BY <1>2, <1>3 DEF OneParent
  <1>5. \A x, y \in ParentIn(list, id) : x = y
      BY <1>4 DEF ParentIn
  <1>6. (CHOOSE x \in ParentIn(list, id) : TRUE) = p
      BY <1>5
  <1>7. p \in IdsOf(list)
      BY DEF ParentIn, InList, IdsOf
  <1> QED
      BY <1>6, <1>7 DEF Above

\* The chain of a parent is that of its child, a step ahead.
LEMMA ChainsMeet ==
    ASSUME NEW list \in Seq(Listed), OneParent(list), NEW id \in IdsOf(list), NEW p \in ParentIn(list, id)
    PROVE  /\ p \in IdsOf(list) /\ Len(list) - 1 \in Nat
           /\ Climb(list, p)[Len(list) - 1] = Climb(list, id)[Len(list)]
  <1> DEFINE L == Len(list)
             up == Climb(list, id)
             v == Climb(list, p)
             T == {k \in 0 .. L - 1 : v[k] = up[k + 1]}
  <1>1. L \in Nat /\ L # 0 /\ L - 1 \in Nat
      BY DEF IdsOf
  <1>2. Above(list, id) = p /\ p \in IdsOf(list)
      BY OneAbove
  <1>3. Climbs(up, list, id) /\ Climbs(v, list, p)
      BY <1>2, ChainsCanBeClimbed
  <1> HIDE DEF up, v
  <1>4. /\ up[0] = id /\ \A k \in 1 .. L : up[k] = Above(list, up[k - 1])
        /\ v[0] = p /\ \A k \in 1 .. L : v[k] = Above(list, v[k - 1])
      BY <1>3 DEF Climbs
  <1> HIDE DEF L
  <1>5. 0 \in T
    <2>1. 1 \in 1 .. L /\ 1 - 1 = 0 /\ 0 \in 0 .. L - 1 /\ 0 + 1 = 1
        BY <1>1
    <2>2. up[1] = Above(list, up[0])
        BY <1>4, <2>1
    <2> QED
        BY <1>2, <1>4, <2>1, <2>2
  <1>6. \A k \in 0 .. (L - 1) - 1 : k \in T => k + 1 \in T
    <2> TAKE k \in 0 .. (L - 1) - 1
    <2> HAVE k \in T
    <2>1. /\ k + 1 \in 1 .. L /\ (k + 1) - 1 = k
          /\ (k + 1) + 1 \in 1 .. L /\ ((k + 1) + 1) - 1 = k + 1
          /\ k + 1 \in 0 .. L - 1
        BY <1>1
    <2>2. v[k + 1] = Above(list, v[k]) /\ up[(k + 1) + 1] = Above(list, up[k + 1])
        BY <1>4, <2>1
    <2> QED
        BY <2>1, <2>2
  <1>7. \A k \in 0 .. L - 1 : k \in T
    <2> HIDE DEF T
    <2> QED
        BY <1>1, <1>5, <1>6, StepByStep
  <1>8. v[L - 1] = up[L]
    <2>1. L - 1 \in 0 .. L - 1 /\ (L - 1) + 1 = L
        BY <1>1
    <2> QED
        BY <1>7, <2>1
  <1> QED
      BY <1>1, <1>2, <1>8 DEF up, v, L

\* A list has no more ids than artifacts.
LEMMA FewIds ==
    ASSUME NEW list \in Seq(Listed)
    PROVE  IsFiniteSet(IdsOf(list)) /\ Cardinality(IdsOf(list)) <= Len(list)
  <1>1. IsFiniteSet(1 .. Len(list)) /\ Cardinality(1 .. Len(list)) = Len(list)
    <2>1. Len(list) \in Nat
        OBVIOUS
    <2> QED
        BY <2>1, FS_Interval
  <1> DEFINE names == [n \in 1 .. Len(list) |-> list[n].id]
  <1>2. names \in Surjection(1 .. Len(list), IdsOf(list))
      BY DEF Surjection, IdsOf
  <1> QED
      BY <1>1, <1>2, FS_Surjection

FollowsParents(v, list, L) == \A k \in 1 .. L : v[k] = Above(list, v[k - 1])

\* What has ended does not go on.
LEMMA EndedChainsStay ==
    ASSUME NEW L \in Nat, NEW list, NEW v, FollowsParents(v, list, L),
           NEW k \in 0 .. L, ParentIn(list, v[k]) = {}
    PROVE  \A m \in k .. L : v[m] = v[k]
  <1> DEFINE T == {m \in k .. L : v[m] = v[k]}
  <1>1. k \in Nat /\ k \in T
      OBVIOUS
  <1>2. \A m \in k .. L - 1 : m \in T => m + 1 \in T
    <2> TAKE m \in k .. L - 1
    <2> HAVE m \in T
    <2>1. m + 1 \in 1 .. L /\ m + 1 \in k .. L /\ (m + 1) - 1 = m
        OBVIOUS
    <2>2. v[m + 1] = Above(list, v[m])
        BY <2>1 DEF FollowsParents
    <2> QED
        BY <2>1, <2>2 DEF Above
  <1>3. \A m \in k .. L : m \in T
    <2> HIDE DEF T
    <2> QED
        BY <1>1, <1>2, StepByStep
  <1> QED
      BY <1>3

\* From two places where it is at the same id a chain goes on alike.
LEMMA ChainsRepeat ==
    ASSUME NEW L \in Nat, NEW list, NEW v, FollowsParents(v, list, L),
           NEW i \in 0 .. L, NEW j \in 0 .. L, i < j, v[i] = v[j]
    PROVE  v[i + (L - j)] = v[L]
  <1> DEFINE T == {d \in 0 .. L - j : v[i + d] = v[j + d]}
             N == L - j
  <1>1. i \in Nat /\ j \in Nat /\ N \in Nat
      OBVIOUS
  <1>2. 0 \in T
      BY <1>1
  <1>3. \A d \in 0 .. N - 1 : d \in T => d + 1 \in T
    <2> TAKE d \in 0 .. N - 1
    <2> HAVE d \in T
    <2>1. /\ i + (d + 1) \in 1 .. L /\ (i + (d + 1)) - 1 = i + d
          /\ j + (d + 1) \in 1 .. L /\ (j + (d + 1)) - 1 = j + d
          /\ d + 1 \in 0 .. L - j
        BY <1>1
    <2>2. v[i + (d + 1)] = Above(list, v[i + d]) /\ v[j + (d + 1)] = Above(list, v[j + d])
        BY <2>1 DEF FollowsParents
    <2> QED
        BY <2>1, <2>2
  <1>4. \A d \in 0 .. N : d \in T
    <2> HIDE DEF T, N
    <2> QED
        BY <1>1, <1>2, <1>3, StepByStep
  <1>5. L - j \in 0 .. N /\ j + (L - j) = L
      BY <1>1
  <1> QED
      BY <1>4, <1>5

\* As many steps as there are artifacts are enough: a chain that ends with the
\* last of them ended before.
LEMMA ChainsEndInTime ==
    ASSUME NEW list \in Seq(Listed), NEW id, NEW v, Climbs(v, list, id), Len(list) - 1 \in Nat,
           ParentIn(list, v[Len(list)]) = {}
    PROVE  v[Len(list) - 1] = v[Len(list)]
  <1> DEFINE L == Len(list)
  <1>1. L \in Nat /\ L - 1 \in 0 .. L /\ L \in 0 .. L
      OBVIOUS
  <1>2. v \in [0 .. L -> IdsOf(list)] /\ FollowsParents(v, list, L)
      BY DEF Climbs, FollowsParents
  <1>3. IsFiniteSet(IdsOf(list)) /\ Cardinality(IdsOf(list)) <= L /\ ParentIn(list, v[L]) = {}
      BY FewIds
  <1> HIDE DEF L
  <1>4. SUFFICES ASSUME v[L - 1] # v[L] PROVE FALSE
      BY DEF L
  <1>5. \A k \in 0 .. L : k # L => ParentIn(list, v[k]) # {}
    <2> SUFFICES ASSUME NEW k \in 0 .. L, k # L, ParentIn(list, v[k]) = {} PROVE FALSE
        OBVIOUS
    <2>1. L - 1 \in k .. L /\ L \in k .. L
        BY <1>1
    <2>2. \A m \in k .. L : v[m] = v[k]
        BY <1>1, <1>2, EndedChainsStay
    <2> QED
        BY <1>4, <2>1, <2>2
  <1>6. \A i, j \in 0 .. L : i < j => v[i] # v[j]
    <2> SUFFICES ASSUME NEW i \in 0 .. L, NEW j \in 0 .. L, i < j, v[i] = v[j] PROVE FALSE
        OBVIOUS
    <2>1. v[i + (L - j)] = v[L]
        BY <1>1, <1>2, ChainsRepeat
    <2>2. i + (L - j) \in 0 .. L /\ i + (L - j) # L
        BY <1>1
    <2> QED
        BY <1>3, <1>5, <2>1, <2>2
  <1>7. \A i, j \in 0 .. L : v[i] = v[j] => i = j
    <2> SUFFICES ASSUME NEW i \in 0 .. L, NEW j \in 0 .. L, i # j PROVE v[i] # v[j]
        OBVIOUS
    <2>1. i < j \/ j < i
        BY <1>1
    <2> QED
        BY <1>6, <2>1
  <1>8. v \in Injection(0 .. L, IdsOf(list))
      BY <1>2, <1>7 DEF Injection, IsInjective
  <1>9. Cardinality(0 .. L) = L + 1
    <2>1. Cardinality(0 .. L) = IF 0 > L THEN 0 ELSE L - 0 + 1
        BY <1>1, FS_Interval
    <2> QED
        BY <1>1, <2>1
  <1>10. Cardinality(0 .. L) <= Cardinality(IdsOf(list))
      BY <1>3, <1>8, FS_Injection
  <1>11. Cardinality(IdsOf(list)) \in Nat
      BY <1>3, FS_CardinalityType
  <1> QED
      BY <1>1, <1>3, <1>9, <1>10, <1>11

\* A session that is alone though it names a parent of the list.
IsAlone(list, id) == SessionRoot(list, id) = id /\ ParentIn(list, id) # {}

\* Where a chain ends, all that is on it has one root; where it does not, each is
\* alone.
LEMMA SessionsAreWithTheirParents ==
    ASSUME NEW list \in Seq(Listed), OneParent(list), NEW id \in IdsOf(list), NEW p \in ParentIn(list, id)
    PROVE  IF IsAlone(list, id) THEN IsAlone(list, p) ELSE SessionRoot(list, p) = SessionRoot(list, id)
  <1> DEFINE L == Len(list)
             up == Climb(list, id)
             v == Climb(list, p)
  <1>1. L \in Nat /\ L - 1 \in Nat /\ p \in IdsOf(list) /\ v[L - 1] = up[L]
      BY ChainsMeet
  <1>2. Climbs(v, list, p)
      BY <1>1, ChainsCanBeClimbed
  <1>3. /\ SessionRoot(list, p) = IF ParentIn(list, v[L]) = {} THEN v[L] ELSE p
        /\ SessionRoot(list, id) = IF ParentIn(list, up[L]) = {} THEN up[L] ELSE id
      BY RootsAreClimbedTo
  <1> HIDE DEF up, v
  <1>4. v[0] = p /\ \A k \in 1 .. L : v[k] = Above(list, v[k - 1])
      BY <1>2 DEF Climbs
  <1>5. v[L] = Above(list, v[L - 1])
    <2>1. L \in 1 .. L
        BY <1>1
    <2> QED
        BY <1>4, <2>1
  <1>6. CASE ParentIn(list, v[L]) = {}
    <2>1. v[L - 1] = v[L]
        BY <1>1, <1>2, <1>6, ChainsEndInTime
    <2>2. SessionRoot(list, p) = v[L] /\ SessionRoot(list, id) = v[L]
        BY <1>1, <1>3, <1>6, <2>1
    <2>3. ~IsAlone(list, id)
        BY <1>6, <2>2 DEF IsAlone
    <2> QED
        BY <2>2, <2>3
  <1>7. CASE ParentIn(list, v[L]) # {}
    <2>1. ParentIn(list, up[L]) # {}
      <3>1. ParentIn(list, v[L - 1]) = {} => v[L] = v[L - 1]
          BY <1>5 DEF Above
      <3> QED
          BY <1>1, <1>7, <3>1
    <2>2. SessionRoot(list, p) = p /\ SessionRoot(list, id) = id
        BY <1>3, <1>7, <2>1
    <2>3. ParentIn(list, p) # {}
      <3> SUFFICES ASSUME ParentIn(list, p) = {} PROVE FALSE
          OBVIOUS
      <3>1. 0 \in 0 .. L /\ L \in 0 .. L
          BY <1>1
      <3>2. FollowsParents(v, list, L)
          BY <1>4 DEF FollowsParents
      <3>3. ParentIn(list, v[0]) = {}
          BY <1>4
      <3>4. \A m \in 0 .. L : v[m] = v[0]
          BY <1>1, <3>1, <3>2, <3>3, EndedChainsStay
      <3> QED
          BY <1>4, <1>7, <3>1, <3>4
    <2> QED
        BY <2>2, <2>3 DEF IsAlone
  <1> QED
      BY <1>6, <1>7

LEMMA SessionsAreHonest ==
    ASSUME found \in Seq(Listed), OneParent(found)
    PROVE  SessionsAreFamilies
  <1> DEFINE keys == [n \in DOMAIN found |-> SessionRoot(found, found[n].id)]
  <1>1. Ids = IdsOf(found)
      BY DEF Ids, IdsOf
  <1>2. \A n \in DOMAIN found : found[n].id \in IdsOf(found)
      BY DEF IdsOf
  <1>3. \A n \in DOMAIN found : keys[n] \in IdsOf(found)
      BY <1>2, RootsAreInTheList
  <1>4. BySession(found) = [k \in Range(keys) |-> {n \in DOMAIN keys : keys[n] = k}]
      BY DEF BySession, Bucket
  <1>5. DOMAIN keys = DOMAIN found
      OBVIOUS
  <1> HIDE DEF keys
  <1>6. Grouping(BySession(found))
    <2>1. DOMAIN BySession(found) = Range(keys)
          /\ \A k \in Range(keys) : BySession(found)[k] = {n \in DOMAIN keys : keys[n] = k}
        BY <1>4
    <2>2. \A n \in DOMAIN found : keys[n] \in Range(keys)
        BY <1>5 DEF Range
    <2> DEFINE sessions == BySession(found)
    <2> HIDE DEF sessions
    <2>3. UNION {sessions[k] : k \in DOMAIN sessions} = DOMAIN found
      <3>1. \A k \in DOMAIN sessions : \A n \in sessions[k] : n \in DOMAIN found
          BY <1>5, <2>1 DEF sessions
      <3>2. \A n \in DOMAIN found : keys[n] \in DOMAIN sessions /\ n \in sessions[keys[n]]
          BY <1>5, <2>1, <2>2 DEF sessions
      <3> QED
          BY <3>1, <3>2
    <2>4. \A j, k \in DOMAIN sessions : j # k => sessions[j] \cap sessions[k] = {}
        BY <2>1 DEF sessions
    <2> QED
        BY <2>3, <2>4 DEF Grouping, sessions
  <1>7. DOMAIN BySession(found) \subseteq Ids
      BY <1>1, <1>3, <1>4, <1>5 DEF Range
  <1>8. \A id \in Ids : ~IsAlone(found, id) => ParentIn(found, SessionRoot(found, id)) = {}
      BY RootsAreClimbedTo DEF IsAlone
  <1>9. \A id \in Ids : \A p \in ParentIn(found, id) :
            IF IsAlone(found, id) THEN IsAlone(found, p)
            ELSE SessionRoot(found, p) = SessionRoot(found, id)
      BY <1>1, SessionsAreWithTheirParents
  <1> QED
      BY <1>6, <1>7, <1>8, <1>9 DEF SessionsAreFamilies, IsAlone

-----------------------------------------------------------------------------
(* Policy: the lists that change.                                          *)

\* Sessions grow, appear and name their parents, and remain sessions.
ListHolds == found \in Seq(Listed) /\ OneParent(found)

LEMMA ListsStart == PolicyInit => ListHolds
  <1> DEFINE Artifacts == [id : STRING, identity : Nat, provider : STRING, project : SUBSET STRING,
                           size : SizesOf, parent : SUBSET STRING, reach : Levels]
  <1>1. Artifacts \subseteq Listed
      BY DEF Listed, Mentionable
  <1>2. Catalogue \in Seq(Artifacts) /\ OneParent(Catalogue)
      BY PolicyAssumption DEF OneParent
  <1> HIDE DEF Artifacts
  <1>3. Catalogue \in Seq(Listed)
      BY <1>1, <1>2
  <1> QED
      BY <1>2, <1>3 DEF PolicyInit, ListHolds

\* A list one of whose artifacts is changed for another.
LEMMA OneIsChanged ==
    ASSUME NEW list \in Seq(Listed), OneParent(list), NEW n \in DOMAIN list, NEW a \in Listed,
           \A p, q \in a.parent : p = q
    PROVE  [list EXCEPT ![n] = a] \in Seq(Listed) /\ OneParent([list EXCEPT ![n] = a])
  <1> DEFINE next == [list EXCEPT ![n] = a]
  <1>1. next \in Seq(Listed)
      OBVIOUS
  <1>2. \A k \in DOMAIN next : k \in DOMAIN list /\ (next[k] = a \/ next[k] = list[k])
      OBVIOUS
  <1> HIDE DEF next
  <1>3. OneParent(next)
      BY <1>2 DEF OneParent
  <1> QED
      BY <1>1, <1>3 DEF next

LEMMA IdsAreNames ==
    ASSUME NEW artifact \in Listed
    PROVE  artifact.id \in STRING
  BY DEF Listed

LEMMA TouchedListsHold ==
    ASSUME ListHolds, NEW n \in DOMAIN found, Touch(n)
    PROVE  ListHolds'
  <1> DEFINE One(a) == \A p, q \in a.parent : p = q
             Becomes(a) == found' = [found EXCEPT ![n] = a]
  <1>1. found \in Seq(Listed) /\ OneParent(found) /\ found[n] \in Listed
      BY DEF ListHolds
  <1>2. One(found[n])
      BY <1>1 DEF OneParent
  <1>3. \E a \in Listed : One(a) /\ Becomes(a)
    <2>1. CASE \E size \in SizesOf : found' = [found EXCEPT ![n].size = size]
      <3>1. PICK size \in SizesOf : found' = [found EXCEPT ![n].size = size]
          BY <2>1
      <3> DEFINE a == [found[n] EXCEPT !.size = size]
      <3>2. a \in Listed /\ a.parent = found[n].parent
          BY <1>1 DEF Listed
      <3>3. Becomes(a)
          BY <3>1
      <3> HIDE DEF a
      <3>4. One(a)
          BY <1>2, <3>2
      <3> QED
          BY <3>2, <3>3, <3>4
    <2>2. CASE \E above \in Option(Ids \cup {"gone"}) : found' = [found EXCEPT ![n].parent = above]
      <3>1. PICK above \in Option(Ids \cup {"gone"}) : found' = [found EXCEPT ![n].parent = above]
          BY <2>2
      <3>2. Ids \subseteq STRING
        <4> SUFFICES ASSUME NEW k \in DOMAIN found PROVE found[k].id \in STRING
            BY DEF Ids
        <4>1. found[k] \in Listed
            BY <1>1
        <4> QED
            BY <4>1, IdsAreNames
      <3>3. above \in SUBSET Mentionable /\ \A p, q \in above : p = q
          BY <3>2 DEF Option, Mentionable
      <3> DEFINE a == [found[n] EXCEPT !.parent = above]
      <3>4. a \in Listed /\ a.parent = above
          BY <1>1, <3>3 DEF Listed
      <3>5. Becomes(a)
          BY <3>1
      <3> HIDE DEF a
      <3> QED
          BY <3>3, <3>4, <3>5
    <2>3. CASE \E level \in {Recommend, Govern} : found' = [found EXCEPT ![n].reach = level]
      <3>1. PICK level \in {Recommend, Govern} : found' = [found EXCEPT ![n].reach = level]
          BY <2>3
      <3>2. level \in Levels
          BY DEF Levels, Recommend, Govern, Observe, Autopilot
      <3> DEFINE a == [found[n] EXCEPT !.reach = level]
      <3>3. a \in Listed /\ a.parent = found[n].parent
          BY <1>1, <3>2 DEF Listed
      <3>4. Becomes(a)
          BY <3>1
      <3> HIDE DEF a
      <3>5. One(a)
          BY <1>2, <3>3
      <3> QED
          BY <3>3, <3>4, <3>5
    <2>4. CASE found' = [found EXCEPT ![n].project = {"p"} \ @]
      <3> DEFINE left == {"p"} \ found[n].project
                 a == [found[n] EXCEPT !.project = left]
      <3>1. left \in SUBSET Mentionable
          BY DEF Mentionable
      <3>2. Becomes(a)
          BY <2>4
      <3> HIDE DEF left
      <3>3. a \in Listed /\ a.parent = found[n].parent
          BY <1>1, <3>1 DEF Listed
      <3> HIDE DEF a
      <3>4. One(a)
          BY <1>2, <3>3
      <3> QED
          BY <3>2, <3>3, <3>4
    <2> QED
        BY <2>1, <2>2, <2>3, <2>4 DEF Touch
  <1>4. PICK a \in Listed : One(a) /\ Becomes(a)
      BY <1>3
  <1>5. found' \in Seq(Listed) /\ OneParent(found')
      BY <1>1, <1>4, OneIsChanged
  <1> QED
      BY <1>5 DEF ListHolds, OneParent

\* However sessions grow, appear and name their parents, in cycles or not: each is
\* with its parent unless it is alone, under a root that is in the list; the
\* totals of the parts add up to the whole; and what is selected under pressure is
\* the largest of what may go, and no more of it than is needed (by_session,
\* summarize, select_under_budget_pressure).
THEOREM ViewsOfListsAgree == InterfacesSpec => []ViewsHold
  <1>1. InterfacesInit => ListHolds
      BY ListsStart DEF InterfacesInit
  <1>2. ListHolds /\ [InterfacesNext]_interfacesVars => ListHolds'
    <2> SUFFICES ASSUME ListHolds, [InterfacesNext]_interfacesVars PROVE ListHolds'
        OBVIOUS
    <2>1. PolicyNext \/ UNCHANGED policyVars
        BY DEF InterfacesNext, interfacesVars, ViewsUse
    <2>2. CASE UNCHANGED found
        BY <2>2 DEF ListHolds, OneParent
    <2>3. CASE \E n \in DOMAIN found : Touch(n)
        BY <2>3, TouchedListsHold
    <2> QED
        BY <2>1, <2>2, <2>3 DEF PolicyNext, policyVars, ClassifyAgain
  <1>3. ListHolds => ViewsHold
    <2>1. SizesOf \subseteq Nat /\ WidthLimit \in Nat
        BY PolicyAssumption
    <2> QED
        BY <2>1, SessionsAreHonest, TotalsAreHonest, PressureIsHonest
        DEF ListHolds, ViewsHold, ViewsAgree
  <1> QED
      BY <1>1, <1>2, <1>3, PTL DEF InterfacesSpec

===============================================================================
