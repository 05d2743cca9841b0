-------------------------------- MODULE Serve --------------------------------
(***************************************************************************)
(* The end of `ihttp serve` (runServe of internal/cli/serve.go): two       *)
(* servers and a browser that was launched (internal/core/browser) are     *)
(* stopped one after the other, within one window of time.                 *)
(***************************************************************************)
EXTENDS Integers, FiniteSets

CONSTANTS
    Streams,   \* event streams of consoles in other browsers
    Calls,     \* requests the proxy works on
    Window     \* --shutdown-timeout, in the time a step of a call takes

ServeAssumption == Window \in Nat \ {0}

VARIABLES
    phase,     \* where runServe stands
    spent,     \* of the window
    server,    \* "starting", "up", "down"
    failed,    \* errs has one
    streams,   \* event streams that are open
    call,      \* where each call stands, and the steps it has to go
    early,     \* history: calls that were under way when the stop began
    browser,   \* "none", "open", "gone"
    profile,   \* its temporary profile is on disk
    launcher   \* whether the goroutine that waits for it still runs

serveVars == <<phase, spent, server, failed, streams, call, early, browser,
               profile, launcher>>

Servers == {"console", "proxy"}

ServeInit ==
    /\ phase = "start" /\ spent = 0
    /\ server = [s \in Servers |-> "starting"] /\ failed = FALSE
    /\ streams = {}
    /\ call = [c \in Calls |-> [at |-> "none", left |-> 0]]
    /\ early = {}
    /\ browser = "none" /\ profile = FALSE /\ launcher = FALSE

Up == phase \notin {"exit"}

Working == {c \in Calls : call[c].at = "works"}

Cut == [c \in Calls |-> IF c \in Working THEN [call[c] EXCEPT !.at = "cut"] ELSE call[c]]

-----------------------------------------------------------------------------
Listen(s) ==
    /\ phase \in {"start", "serving"} /\ server[s] = "starting"
    /\ \/ server' = [server EXCEPT ![s] = "up"] /\ UNCHANGED failed
       \/ server' = [server EXCEPT ![s] = "down"] /\ failed' = TRUE
    /\ UNCHANGED <<phase, spent, streams, call, early, browser, profile, launcher>>

\* A server that stops serving.
ServerFails(s) ==
    /\ phase \in {"start", "serving"} /\ server[s] = "up"
    /\ server' = [server EXCEPT ![s] = "down"]
    /\ failed' = TRUE
    /\ UNCHANGED <<phase, spent, streams, call, early, browser, profile, launcher>>

\* Launch: a profile is made, and removed again where the browser does not start.
Launch ==
    /\ phase = "start" /\ browser = "none" /\ ~profile
    /\ profile' = TRUE
    /\ browser' = "open" /\ launcher' = TRUE
    /\ phase' = "serving"
    /\ UNCHANGED <<spent, server, failed, streams, call, early>>

\* None is asked for, none is found, or it does not start.
NoBrowser ==
    /\ phase = "start"
    /\ phase' = "serving"
    /\ UNCHANGED <<spent, server, failed, streams, call, early, browser, profile, launcher>>

OpenStream(t) ==
    /\ server.console = "up" /\ t \notin streams
    /\ streams' = streams \cup {t}
    /\ UNCHANGED <<phase, spent, server, failed, call, early, browser, profile, launcher>>

CloseStream(t) ==
    /\ Up /\ t \in streams
    /\ streams' = streams \ {t}
    /\ UNCHANGED <<phase, spent, server, failed, call, early, browser, profile, launcher>>

\* A call that needs n steps.
BeginCall(c, n) ==
    /\ server.proxy = "up" /\ call[c].at = "none"
    /\ call' = [call EXCEPT ![c] = [at |-> "works", left |-> n]]
    /\ UNCHANGED <<phase, spent, server, failed, streams, early, browser, profile, launcher>>

\* The browser exits by itself, or since the context has ended; who waits for it
\* removes the profile.
BrowserExits ==
    /\ browser = "open" /\ Up
    /\ browser' = "gone"
    /\ UNCHANGED <<phase, spent, server, failed, streams, call, early, profile, launcher>>

RemoveProfile ==
    /\ browser = "gone" /\ launcher /\ Up
    /\ profile' = FALSE /\ launcher' = FALSE
    /\ UNCHANGED <<phase, spent, server, failed, streams, call, early, browser>>

-----------------------------------------------------------------------------
(* Time.  It passes for the stop where there is something to wait for.     *)

Waits ==
    \/ phase = "console" /\ streams # {}
    \/ phase = "proxy" /\ Working # {}
    \/ phase = "browser" /\ launcher

TimePasses ==
    /\ \/ phase = "serving" /\ Working # {} /\ UNCHANGED spent
       \/ Waits /\ spent < Window /\ spent' = spent + 1
    /\ call' = [c \in Calls |-> IF c \notin Working THEN call[c]
                                ELSE [at |-> IF call[c].left = 1 THEN "done" ELSE "works",
                                      left |-> call[c].left - 1]]
    /\ UNCHANGED <<phase, server, failed, streams, early, browser, profile, launcher>>

-----------------------------------------------------------------------------
\* A signal: the context ends, the console takes no more connections.
Signal ==
    /\ phase = "serving"
    /\ phase' = "console"
    /\ server' = [server EXCEPT !.console = "down"]
    /\ early' = Working
    /\ UNCHANGED <<spent, failed, streams, call, browser, profile, launcher>>

\* Shutdown returns when its connections are idle, or with the window; it ends
\* no request's context, and an event stream goes on until its tab has gone.
ConsoleStops ==
    /\ phase = "console"
    /\ streams = {} \/ spent = Window
    /\ phase' = "proxy"
    /\ server' = [server EXCEPT !.proxy = "down"]
    /\ UNCHANGED <<spent, failed, streams, call, early, browser, profile, launcher>>

\* Broken: the proxy is closed, and not asked to stop.
ProxyCloses ==
    /\ phase = "proxy"
    /\ call' = Cut
    /\ phase' = "browser"
    /\ UNCHANGED <<spent, server, failed, streams, early, browser, profile, launcher>>

\* Likewise, and then it is closed under the calls that go on.
ProxyStops ==
    /\ phase = "proxy"
    /\ Working = {} \/ spent = Window
    /\ call' = Cut
    /\ phase' = "browser"
    /\ UNCHANGED <<spent, server, failed, streams, early, browser, profile, launcher>>

\* Broken: nobody waits for the browser.
ExitsAtOnce ==
    /\ phase = "browser"
    /\ phase' = "exit"
    /\ UNCHANGED <<spent, server, failed, streams, call, early, browser, profile, launcher>>

Exits ==
    /\ phase = "browser"
    /\ ~launcher \/ spent = Window
    /\ phase' = "exit"
    /\ UNCHANGED <<spent, server, failed, streams, call, early, browser, profile, launcher>>

\* A server that failed ends the program as it is.
ExitsFailed ==
    /\ phase = "serving" /\ failed
    /\ phase' = "exit"
    /\ server' = [s \in Servers |-> "down"]
    /\ call' = Cut
    /\ UNCHANGED <<spent, failed, streams, early, browser, profile, launcher>>

ServeNext ==
    \/ \E s \in Servers : Listen(s) \/ ServerFails(s)
    \/ Launch \/ NoBrowser \/ BrowserExits \/ RemoveProfile
    \/ \E t \in Streams : OpenStream(t) \/ CloseStream(t)
    \/ \E c \in Calls : \E n \in 1 .. Window : BeginCall(c, n)
    \/ TimePasses \/ Signal \/ ConsoleStops \/ ProxyStops \/ Exits \/ ExitsFailed

ServeSpec == ServeInit /\ [][ServeNext]_serveVars

-----------------------------------------------------------------------------
(* Properties.                                                             *)

ServeTypeOK ==
    /\ phase \in {"start", "serving", "console", "proxy", "browser", "exit"}
    /\ spent \in 0 .. Window
    /\ server \in [Servers -> {"starting", "up", "down"}]
    /\ failed \in BOOLEAN
    /\ streams \subseteq Streams
    /\ call \in [Calls -> [at : {"none", "works", "done", "cut"}, left : 0 .. Window]]
    /\ early \subseteq Calls
    /\ browser \in {"none", "open", "gone"}
    /\ profile \in BOOLEAN /\ launcher \in BOOLEAN

\* A call that was under way when the stop began and needs no more than the
\* window is not cut, however long the console holds up the stop, and the profile
\* of the browser is not left behind, unless the window was over or a server
\* failed (runServe, Launch).
StopIsOrderly ==
    /\ \A c \in early : call[c].at # "cut"
    /\ phase = "exit" /\ profile => spent = Window \/ failed
=============================================================================
