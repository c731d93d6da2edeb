-------------------------------- MODULE Bridge --------------------------------
(***************************************************************************)
(* The desktop bridge: a dashboard that starts an engine, hands its own    *)
(* URL to a browser, and answers each page with two documents it asks the  *)
(* engine for over a loopback connection.                                  *)
(*                                                                         *)
(*   cancellai-desktop      main.rs, launch.rs, server.rs, source.rs,      *)
(*                          viewmodel.rs                                   *)
(*   cancellai-desktop-api  session.rs, transport.rs, auth.rs, protocol.rs *)
(*   cancellai-cli          desktop.rs                                     *)
(*                                                                         *)
(* Both serve one connection at a time.  Other programs connect to either, *)
(* and say nothing or the wrong thing, or do not read what they asked for. *)
(***************************************************************************)
EXTENDS Integers, Sequences, FiniteSets

CONSTANTS
    Asks,         \* the shapes of what is asked of the dashboard, each of another query
    Begins,       \* what others begin with at the engine, each with a request for a plan after
    MaxPages,     \* bound on the connections to it
    MaxStrangers, \* bound on the connections of others to the engine
    MaxTroubles2  \* bound on failing calls, deaths and incomplete scans

\* A head with a query, one with something wrong with it (or cut short), or none
\* though the connection stays.
Shapes == {"page", "silent", "malformed", "too_large", "other_host", "not_get", "other_path",
           "bad_query"}

ASSUME BridgeAssumption ==
    /\ {MaxPages, MaxStrangers, MaxTroubles2} \subseteq Nat
    /\ Asks \subseteq Shapes
    /\ Begins \subseteq {"nothing", "guess", "malformed", "plan", "too_large"}

\* Connections are numbered in the order they are made.
Pages == 1 .. MaxPages
Links == 1 .. MaxPages + MaxStrangers

VARIABLES
    mpc,        \* where the dashboard's main is
    withOpen,   \* not --no-open
    limit,      \* --requests, 0 for none
    handed,     \* content of the launcher page or of the URL file
    unscrubbed, \* history: emptying it failed
    engine,     \* the engine process: of the dashboard's version, or of another
    pages,      \* each connection to the dashboard: what it asks and got
    taken,      \* how many were accepted
    vpc,        \* where the dashboard is with the one it serves
    toWrite,    \* the reply it is about to write, "none" when there is none
    lnk,        \* the engine connection it uses, 0 for none
    status,     \* the first document of the page
    links,      \* each connection to the engine
    serving,    \* the one the engine serves, 0 for none
    done1,      \* how many it has served
    troubles2

mainVars   == <<mpc, withOpen, limit, handed, unscrubbed>>
viewVars   == <<pages, taken, vpc, toWrite, lnk, status>>
engineVars == <<links, serving, done1>>
bridgeVars == <<mainVars, engine, viewVars, engineVars, troubles2>>

Ask(shape, days) == [shape |-> shape, days |-> days]

Document(kind, days, partial) == [kind |-> kind, days |-> days, partial |-> partial]
NoDocument == Document("none", 0, FALSE)
Kinds   == {"none", "welcome", "status", "plan", "farewell", "error"}
Documents == [kind : Kinds, days : Nat, partial : BOOLEAN]

\* A hello shows a token; other frames show none.
Request(kind, days) == [kind |-> kind, days |-> days, token |-> "none"]
Hello(token) == [kind |-> "hello", days |-> 0, token |-> token]

NoPage == [ask |-> Ask("silent", 0), reply |-> "none", shown |-> <<>>, partial |-> FALSE]

\* began is kept: the token its first frame showed.
Link(ours, requests) ==
    [ours |-> ours, requests |-> requests, answers |-> <<>>, welcomed |-> FALSE,
     began |-> IF requests = <<>> THEN "none" ELSE Head(requests).token,
     client |-> TRUE, server |-> TRUE]

NoLink == [Link(FALSE, <<>>) EXCEPT !.client = FALSE, !.server = FALSE]
Made1 == {n \in DOMAIN links : links[n] # NoLink}
Opened1 == {n \in DOMAIN pages : pages[n].reply # "none"}
NextOf(S, T) == {n \in T : S = {m \in T : m < n}}

Codes == {"200", "400", "404", "405", "421", "431", "502"}

BridgeTypeOK ==
    /\ mpc \in {"engine", "bind", "private", "create", "write", "sync", "browser", "serve",
                "exited", "killed"}
    /\ {withOpen, unscrubbed} \subseteq BOOLEAN /\ limit \in Nat
    /\ handed \in {"none", "empty", "url", "expired"}
    /\ engine \in {"none", "up", "other", "dead"}
    /\ toWrite \in Codes \cup {"none"}
    /\ \A n \in Pages : /\ pages[n].reply \in Codes \cup {"none", "waiting", "dropped"}
                       /\ pages[n].shown \in Seq(Documents)
    /\ taken \in {0} \cup Pages /\ lnk \in {0} \cup Links /\ serving \in {0} \cup Links
    /\ vpc \in {"accept", "read", "connect", "hello", "status", "plan", "goodbye", "stalled",
                "write", "observe"}
    /\ status \in Documents
    /\ \A n \in Links : links[n].answers \in Seq(Documents)
    /\ done1 \in {0} \cup Links /\ troubles2 \in 0 .. MaxTroubles2

BridgeInit ==
    /\ mpc = "engine" /\ withOpen \in BOOLEAN /\ limit \in {0, 1}
    /\ handed = "none" /\ unscrubbed = FALSE /\ engine = "none"
    /\ pages = [n \in Pages |-> NoPage] /\ taken = 0 /\ vpc = "accept" /\ toWrite = "none"
    /\ lnk = 0 /\ status = NoDocument
    /\ links = [n \in Links |-> NoLink] /\ serving = 0 /\ done1 = 0 /\ troubles2 = 0

Trouble == troubles2 < MaxTroubles2 /\ troubles2' = troubles2 + 1
NoTrouble == UNCHANGED troubles2

-----------------------------------------------------------------------------
(* The dashboard starts.                                                   *)

\* scrub: truncated and written over; what fails is not looked at.
Scrub(content) ==
    \/ handed' = content /\ NoTrouble /\ UNCHANGED unscrubbed
    \/ Trouble /\ unscrubbed' = TRUE /\ UNCHANGED handed

\* EngineProcess::drop: its connections go with it.
EngineGone ==
    /\ engine' = "dead"
    /\ links' = [n \in Links |-> [links[n] EXCEPT !.server = FALSE]]
    /\ serving' = 0 /\ UNCHANGED done1

\* Mutant of Exit: the launcher page is left as it is.
ExitLeavingLauncher == mpc' = "exited" /\ NoTrouble /\ UNCHANGED <<handed, unscrubbed>> /\ EngineGone

\* Leaving main drops the launcher, and kills the engine.
Exit ==
    /\ mpc' = "exited"
    /\ IF withOpen /\ handed = "url" /\ mpc \in {"browser", "serve"}
       THEN Scrub("expired") ELSE NoTrouble /\ UNCHANGED <<handed, unscrubbed>>
    /\ EngineGone

OnTo(step) == mpc' = step /\ NoTrouble /\ UNCHANGED <<handed, unscrubbed, engine, engineVars>>

\* start_engine: it prints its descriptor, or nothing.  --cli may name one that
\* supports other versions.
StartEngine ==
    /\ mpc = "engine"
    /\ \/ mpc' = "bind" /\ engine' \in {"up", "other"} /\ NoTrouble
       \/ mpc' = "exited" /\ engine' = "dead" /\ Trouble
    /\ UNCHANGED <<handed, unscrubbed, engineVars>>

\* Dashboard::bind, PrivateDir::create, and the exclusive creation of the file.
Prepare ==
    \/ mpc = "bind" /\ (OnTo("private") \/ Exit)
    \/ mpc = "private" /\ (OnTo("create") \/ Exit)
    \/ /\ mpc = "create"
       /\ \/ mpc' = "write" /\ handed' = "empty" /\ NoTrouble
             /\ UNCHANGED <<unscrubbed, engine, engineVars>>
          \/ Exit

\* write_private_with: a write or a sync that fails leaves the file empty.
WriteUrl ==
    \/ mpc = "write" /\ mpc' = "sync" /\ handed' = "url" /\ NoTrouble
       /\ UNCHANGED <<unscrubbed, engine, engineVars>>
    \/ mpc = "sync" /\ OnTo("browser")
    \/ mpc \in {"write", "sync"} /\ mpc' = "exited" /\ EngineGone /\ Scrub("empty")

OpenInBrowser == mpc = "browser" /\ OnTo("serve")

Starting ==
    /\ StartEngine \/ Prepare \/ WriteUrl \/ OpenInBrowser
    /\ UNCHANGED <<withOpen, limit, viewVars>>

-----------------------------------------------------------------------------
(* The dashboard serves.                                                   *)

Page == pages[taken]
ViewStep(next) == vpc' = next /\ UNCHANGED <<mpc, withOpen, limit, engine>>
KeepsFile == NoTrouble /\ UNCHANGED <<handed, unscrubbed>>

MoreToAccept == mpc = "serve" /\ vpc = "accept" /\ (limit = 0 \/ taken < limit)

Accept ==
    /\ MoreToAccept
    /\ taken + 1 \in Opened1 /\ taken' = taken + 1
    /\ ViewStep("read") /\ KeepsFile /\ UNCHANGED <<pages, toWrite, lnk, status, engineVars>>

\* --requests: as many as that have been accepted.
Enough ==
    /\ mpc = "serve" /\ vpc = "accept" /\ limit # 0 /\ taken = limit
    /\ Exit /\ UNCHANGED <<withOpen, limit, viewVars>>

\* accept()?: an error ends the program.
AcceptFails == MoreToAccept /\ Exit /\ UNCHANGED <<withOpen, limit, viewVars>>

Reply(code) == pages' = [pages EXCEPT ![taken].reply = code]
Decide(code) == toWrite' = code /\ ViewStep("write")

\* answer, respond: the head is refused, or a view is asked for.
Refusal(ask) ==
    CASE ask.shape = "too_large"  -> "431"
      [] ask.shape = "malformed"  -> "400"
      [] ask.shape = "other_host" -> "421"
      [] ask.shape = "not_get"    -> "405"
      [] ask.shape = "other_path" -> "404"
      [] ask.shape = "bad_query"  -> "400"

ReadsAHead ==
    \/ Page.ask.shape = "page" /\ ViewStep("connect") /\ UNCHANGED <<pages, toWrite>>
    \/ Page.ask.shape \notin {"page", "silent"} /\ Decide(Refusal(Page.ask)) /\ UNCHANGED pages
TimesOut ==
    Page.ask.shape = "silent" /\ Reply("dropped") /\ ViewStep("accept") /\ UNCHANGED toWrite
HeadStep ==
    vpc = "read" /\ mpc = "serve" /\ KeepsFile /\ UNCHANGED <<taken, lnk, status, engineVars>>

\* Mutant of ReadHead: without READ_TIMEOUT.
ReadHeadPatiently == HeadStep /\ ReadsAHead

\* A connection that says nothing is dropped after READ_TIMEOUT.
ReadHead == HeadStep /\ (ReadsAHead \/ TimesOut)

HangUp(n) == [links EXCEPT ![n].client = FALSE]

\* An error of the client: the page says that the engine could not answer.
Unanswered ==
    /\ Decide("502") /\ KeepsFile
    /\ links' = IF lnk = 0 THEN links ELSE HangUp(lnk)
    /\ UNCHANGED <<pages, taken, lnk, status, serving, done1>>

\* Client::connect, with the Hello it begins with.
Connect ==
    /\ vpc = "connect" /\ mpc = "serve" /\ KeepsFile
    /\ IF engine \in {"up", "other"}
       THEN \E n \in NextOf(Made1, Links) :
               /\ links' = [links EXCEPT ![n] = Link(TRUE, <<Hello("session")>>)]
               /\ lnk' = n /\ ViewStep("hello")
               /\ UNCHANGED <<pages, taken, toWrite, status, serving, done1>>
       ELSE Decide("502") /\ UNCHANGED <<pages, taken, lnk, status, engineVars>>

Heard == Head(links[lnk].answers)
Hears == links[lnk].answers # <<>>

\* What the client expects of each call, and what it sends next.
Expected == [hello |-> "welcome", status |-> "status", plan |-> "plan", goodbye |-> "farewell"]
After == [hello |-> "status", status |-> "plan", plan |-> "goodbye"]

Call ==
    /\ vpc \in DOMAIN After /\ mpc = "serve" /\ Hears /\ Heard.kind = Expected[vpc]
    /\ links' = [links EXCEPT ![lnk].answers = Tail(@),
                              ![lnk].requests = Append(@, Request(After[vpc], Page.ask.days))]
    /\ status' = IF vpc = "status" THEN Heard ELSE status
    /\ pages' = IF vpc = "plan" THEN [pages EXCEPT ![taken].shown = <<status, Heard>>] ELSE pages
    /\ ViewStep(After[vpc]) /\ KeepsFile /\ UNCHANGED <<taken, toWrite, lnk, serving, done1>>

\* build: both of one query, and a warning when either scan was incomplete.  The
\* page may be larger than what its client reads and its socket holds.
SameQuery == Page.shown[1].days = Page.shown[2].days
Farewell ==
    /\ vpc = "goodbye" /\ mpc = "serve" /\ Hears /\ Heard.kind = "farewell"
    /\ pages' = [pages EXCEPT ![taken].partial = Page.shown[1].partial \/ Page.shown[2].partial]
    /\ links' = HangUp(lnk)
    /\ toWrite' = IF SameQuery THEN "200" ELSE "502"
    /\ \E next \in IF SameQuery THEN {"write", "stalled"} ELSE {"write"} : ViewStep(next)
    /\ KeepsFile /\ UNCHANGED <<taken, lnk, status, serving, done1>>

\* Something else is heard, the engine closed the connection, or nothing came
\* within IDLE_TIMEOUT; an answer may come just too late.
CallFails1 ==
    /\ vpc \in DOMAIN Expected /\ mpc = "serve"
    /\ IF Hears THEN Heard.kind # Expected[vpc] ELSE TRUE
    /\ Unanswered

\* write_reply; its client may have left.
WriteReply ==
    /\ vpc = "write" /\ mpc = "serve" /\ KeepsFile /\ toWrite' = "none"
    /\ \/ Reply(toWrite) /\ ViewStep("observe")
       \/ Reply("dropped") /\ ViewStep("accept")
    /\ UNCHANGED <<taken, lnk, status, engineVars>>

\* Mutant of RemoveLauncher: after the first reply, whatever it was.
RemoveLauncherAtOnce ==
    /\ vpc = "observe" /\ mpc = "serve"
    /\ IF withOpen THEN Scrub("expired") ELSE KeepsFile
    /\ ViewStep("accept") /\ UNCHANGED <<pages, taken, toWrite, lnk, status, engineVars>>

\* The launcher is emptied once a page was shown.
RemoveLauncher ==
    /\ vpc = "observe" /\ mpc = "serve"
    /\ IF Page.reply = "200" /\ withOpen THEN Scrub("expired") ELSE KeepsFile
    /\ ViewStep("accept") /\ UNCHANGED <<pages, taken, toWrite, lnk, status, engineVars>>

Serving ==
    \/ Accept \/ Enough \/ ReadHead \/ Connect \/ Call \/ Farewell \/ CallFails1 \/ WriteReply
    \/ RemoveLauncher

-----------------------------------------------------------------------------
(* The engine serves.                                                      *)

Current == links[serving]
EngineStep == engine \in {"up", "other"} /\ UNCHANGED <<mainVars, engine, viewVars>>

TakeConnection ==
    /\ EngineStep /\ NoTrouble /\ serving = 0 /\ done1 + 1 \in Made1
    /\ serving' = done1 + 1 /\ done1' = done1 + 1 /\ UNCHANGED links

EndConnection == serving' = 0 /\ UNCHANGED done1

\* Mutant of TokenMatches: any token will do.
AnyToken(request) == request.kind = "hello"

\* SessionToken::matches.
TokenMatches(request) == request.kind = "hello" /\ request.token = "session"

\* Session::handle: the answer, and whether the connection goes on.  Before a hello
\* with the token, of a version the engine supports, nothing does.
Handle(link, request, partial, fails) ==
    LET Says(kind) == IF kind \in {"status", "plan"} THEN Document(kind, request.days, partial)
                                                      ELSE Document(kind, 0, FALSE)
        Answer(kind, goes) == [answer |-> Says(kind), goes |-> goes]
    IN  CASE request.kind = "goodbye" -> Answer("farewell", FALSE)
          [] request.kind = "too_large" -> Answer("error", FALSE)
          [] request.kind \notin {"goodbye", "too_large"} /\ ~link.welcomed ->
               IF TokenMatches(request) /\ engine = "up"
               THEN Answer("welcome", TRUE) ELSE Answer("error", FALSE)
          [] request.kind \in {"status", "plan"} /\ link.welcomed ->
               Answer(IF request.days >= 1 /\ ~fails THEN request.kind ELSE "error", TRUE)
          [] request.kind \in {"hello", "malformed"} /\ link.welcomed -> Answer("error", TRUE)

\* serve_connection: one frame; an answer nobody reads any more is lost, and what
\* was sent after the last one (close_gracefully).
HandleFrame ==
    /\ EngineStep /\ serving # 0 /\ Current.requests # <<>>
    /\ \E partial, fails \in BOOLEAN :
          LET handled == Handle(Current, Head(Current.requests), partial, fails) IN
          /\ IF partial \/ fails THEN Trouble ELSE NoTrouble
          /\ links' = [links EXCEPT ![serving].requests = IF handled.goes THEN Tail(@) ELSE <<>>,
                                    ![serving].answers =
                                        IF Current.client THEN Append(@, handled.answer) ELSE @,
                                    ![serving].welcomed = @ \/ handled.answer.kind = "welcome",
                                    ![serving].server = handled.goes]
          /\ IF handled.goes THEN UNCHANGED <<serving, done1>> ELSE EndConnection

\* The client hung up, or said nothing for IDLE_TIMEOUT.
DropConnection ==
    /\ EngineStep /\ NoTrouble /\ serving # 0 /\ Current.requests = <<>>
    /\ links' = [links EXCEPT ![serving].server = FALSE]
    /\ EndConnection

EngineServes == TakeConnection \/ HandleFrame \/ DropConnection

-----------------------------------------------------------------------------
(* Others.  Who connects earlier waits until the dashboard serves.         *)

Visit ==
    /\ mpc = "serve"
    /\ \E n \in NextOf(Opened1, Pages), shape \in Asks :
          pages' = [pages EXCEPT ![n].ask = Ask(shape, n), ![n].reply = "waiting"]
    /\ UNCHANGED <<mainVars, engine, taken, vpc, toWrite, lnk, status, engineVars, troubles2>>

\* The browser that does not read its page does, or goes away.
ClientTurns ==
    /\ mpc = "serve" /\ vpc = "stalled" /\ vpc' = "write"
    /\ UNCHANGED <<mainVars, engine, pages, taken, toWrite, lnk, status, engineVars, troubles2>>

\* Nobody else has the token; some guess.
Frames(beginning) ==
    CASE beginning = "nothing" -> <<>>
      [] beginning = "guess"   -> <<Hello("guess"), Request("plan", 1)>>
      [] OTHER                 -> <<Request(beginning, 1), Request("plan", 1)>>
Stranger ==
    /\ engine \in {"up", "other"} /\ mpc = "serve"
    /\ Cardinality({n \in Made1 : ~links[n].ours}) < MaxStrangers
    /\ \E n \in NextOf(Made1, Links), beginning \in Begins :
          links' = [links EXCEPT ![n] = Link(FALSE, Frames(beginning))]
    /\ UNCHANGED <<mainVars, engine, viewVars, serving, done1, troubles2>>

EngineDies ==
    /\ engine \in {"up", "other"} /\ Trouble /\ EngineGone /\ UNCHANGED <<mainVars, viewVars>>

\* The engine is not told, and goes on.
DashboardKilled ==
    /\ mpc \notin {"engine", "exited", "killed"} /\ Trouble /\ mpc' = "killed"
    /\ UNCHANGED <<withOpen, limit, handed, unscrubbed, engine, viewVars, engineVars>>

BridgeWorks == Starting \/ Serving
BridgeNext  ==
    \/ BridgeWorks \/ EngineServes \/ AcceptFails
    \/ Visit \/ ClientTurns \/ Stranger \/ EngineDies \/ DashboardKilled

-----------------------------------------------------------------------------
(* Properties.                                                             *)

\* Whatever is late, dies or is dropped (serve_observed, ApiViewSource::view,
\* build): a page that is shown has the two documents of its own query, and
\* warns when either was scanned incompletely; and the engine gives a document
\* only on a connection that began with the token (Session::handle).
PagesAreTrue ==
    /\ \A n \in Pages : pages[n].reply = "200" =>
          /\ [k \in {1, 2} |-> <<pages[n].shown[k].kind, pages[n].shown[k].days>>]
                = <<<<"status", pages[n].ask.days>>, <<"plan", pages[n].ask.days>>>>
          /\ pages[n].partial <=> \E k \in {1, 2} : pages[n].shown[k].partial
    /\ \A n \in Links : \A k \in DOMAIN links[n].answers :
          links[n].answers[k].kind \in {"status", "plan"} => links[n].began = "session"

\* Unless emptying it fails or the program is killed (Launcher, write_private_
\* with): the launcher page holds the URL until a page was shown, however many
\* requests fail before, and not after that page, or after the program ended,
\* by --requests or by an error.
Shown == \E n \in Pages : pages[n].reply = "200"
LauncherForgets ==
    withOpen /\ ~unscrubbed =>
        /\ handed = "url" => mpc # "exited" /\ (Shown => vpc = "observe" \/ mpc = "killed")
        /\ handed = "expired" => Shown \/ mpc = "exited"

\* Every connection to the dashboard is answered or dropped, or the dashboard is
\* gone, whoever else is connected to it or to the engine and says nothing
\* (READ_TIMEOUT, IDLE_TIMEOUT); unless one that has the token stays and never
\* reads its page: write_reply, which has no timeout, waits for it.
Ended == mpc \in {"exited", "killed"}
PagesAnswered ==
    \/ <>[](vpc = "stalled")
    \/ \A n \in Pages : (pages[n].reply = "waiting") ~> (pages[n].reply # "waiting" \/ Ended)
===============================================================================
