------------------------------- MODULE Terminal -------------------------------
(***************************************************************************)
(* The terminal interface (cancellai-tui): the screens, the selection, and *)
(* the confirmation of a plan (app.rs, data.rs, event.rs, ui.rs).          *)
(*                                                                         *)
(* The event loop hands every key event of the terminal to handle_key.     *)
(* Most terminals report a key once, when it is pressed; those of Windows  *)
(* report it again when it is released (crossterm's Event::Key, whose kind *)
(* nothing looks at).                                                      *)
(***************************************************************************)
EXTENDS Integers, Sequences

CONSTANTS
    Views,             \* what the engine says of each artifact, in order
    ReportsReleases,   \* whether the terminal reports the release of a key
    MaxSelected        \* bound on the selection

ASSUME TerminalAssumption ==
    /\ Views \in Seq([outcome : STRING, reversibility : STRING]) /\ Views # <<>>
    /\ ReportsReleases \in BOOLEAN /\ MaxSelected \in Nat

VARIABLES
    app,          \* the state of the program
    pressed,      \* the key that is held down
    repeats,      \* history: how often in a row the plain c was pressed, 2 for more
    confirmedBy   \* history: the artifact shown at the confirmation, and repeats

terminalVars == <<app, pressed, repeats, confirmedBy>>

Screens == <<"home", "atlas", "explain", "plan">>

Key(code, plain) == [code |-> code, plain |-> plain]
PlainC == Key("c", TRUE)
\* back_tab also stands for a Tab with Shift, digit for 1 to 4.
Keys0 ==
    [code : {"quit", "help", "tab", "back_tab", "down", "up", "c", "other"}, plain : BOOLEAN]
        \cup [code : {"digit"}, plain : {TRUE}, to : 1 .. Len(Screens)]
NoKey == Key("none", TRUE)

App == [screen : 1 .. Len(Screens), help : BOOLEAN, quit : BOOLEAN, selected : 0 .. MaxSelected,
        armed : BOOLEAN, confirmed : BOOLEAN]

TerminalTypeOK ==
    /\ app \in App /\ pressed \in Keys0 \cup {NoKey} /\ repeats \in 0 .. 2
    /\ confirmedBy \in [artifact : 0 .. Len(Views), presses : 0 .. 2]

TerminalInit ==
    /\ app = [screen |-> 1, help |-> FALSE, quit |-> FALSE, selected |-> 0, armed |-> FALSE,
              confirmed |-> FALSE]
    /\ pressed = NoKey /\ repeats = 0 /\ confirmedBy = [artifact |-> 0, presses |-> 0]

\* The artifact a selection shows: it wraps around the list.
ShownOf(selected) == (selected % Len(Views)) + 1

\* EngineData::plan_context
PlanContext(selected) ==
    LET view == Views[ShownOf(selected)]
        recommended == view.outcome = "recommended"
    IN  [can_confirm |-> recommended,
         strong |-> recommended /\ view.reversibility = "irreversible"]

\* Mutant of StaysArmed: only a move does.
StaysArmedUnlessMoved(key) == TRUE

\* Any key but a second plain c cancels a pending confirmation.
StaysArmed(key) == key = PlainC

Reset(a) == [a EXCEPT !.armed = FALSE, !.confirmed = FALSE]
Screen(n) == ((n - 1) % Len(Screens)) + 1

Confirm0(a, plan) ==
    IF a.confirmed THEN a
    ELSE IF plan.strong /\ ~a.armed THEN [a EXCEPT !.armed = TRUE]
    ELSE [a EXCEPT !.confirmed = TRUE, !.armed = FALSE]

HandleKey(before, key, plan) ==
    LET a == [before EXCEPT !.armed = @ /\ StaysArmed(key)]
    IN  CASE key.code = "quit"     -> [a EXCEPT !.quit = TRUE]
          [] key.code = "help"     -> [a EXCEPT !.help = ~@]
          [] key.code = "tab"      -> [Reset(a) EXCEPT !.screen = Screen(@ + 1)]
          [] key.code = "back_tab" -> [Reset(a) EXCEPT !.screen = Screen(@ + Len(Screens) - 1)]
          [] key.code = "down"     -> [Reset(a) EXCEPT !.selected = @ + 1]
          [] key.code = "up"       -> [Reset(a) EXCEPT !.selected = IF @ = 0 THEN 0 ELSE @ - 1]
          [] key.code = "digit"    -> [Reset(a) EXCEPT !.screen = key.to]
          [] key = PlainC /\ Screens[a.screen] = "plan" /\ plan.can_confirm -> Confirm0(a, plan)
          [] OTHER -> a

\* The loop: an event, the context of the selection as it is, and the key.
Event(key, presses) ==
    LET after == HandleKey(app, key, PlanContext(app.selected)) IN
    /\ app' = after
    /\ confirmedBy' = IF after.confirmed /\ ~app.confirmed
                      THEN [artifact |-> ShownOf(app.selected), presses |-> presses]
                      ELSE confirmedBy

Presses(key) ==
    /\ ~app.quit /\ pressed = NoKey /\ (key.code = "down" => app.selected < MaxSelected - 1)
    /\ pressed' = key
    /\ repeats' = IF key # PlainC THEN 0 ELSE IF repeats = 2 THEN 2 ELSE repeats + 1
    /\ Event(key, repeats')

Releases ==
    /\ ~app.quit /\ pressed # NoKey /\ pressed' = NoKey /\ UNCHANGED repeats
    /\ IF ReportsReleases THEN Event(pressed, repeats) ELSE UNCHANGED <<app, confirmedBy>>

TerminalNext == (\E key \in Keys0 : Presses(key)) \/ Releases
TerminalSpec == TerminalInit /\ [][TerminalNext]_terminalVars

-----------------------------------------------------------------------------
(* Properties.                                                             *)

\* An irreversible plan is confirmed by a second keypress, not by one
\* (handle_key).
TwoPresses ==
    app.confirmed /\ PlanContext(app.selected).strong => confirmedBy.presses = 2

\* Whatever other keys come between (handle_key): a confirmation stands only
\* for the artifact that was on the plan screen and still is, one there was
\* something to confirm of, and took two presses in a row if it is irreversible.
ConfirmedDeliberately ==
    app.confirmed =>
        /\ TwoPresses
        /\ Screens[app.screen] = "plan" /\ PlanContext(app.selected).can_confirm
        /\ confirmedBy.artifact = ShownOf(app.selected)
===============================================================================
