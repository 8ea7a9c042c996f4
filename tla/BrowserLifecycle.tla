-------------------------- MODULE BrowserLifecycle --------------------------
(***************************************************************************)
(* LocalAppHTTPServer's browser lifecycle (trade_snapshot/local_server.py) *)
(* with the pages it serves (web_assets/app.js): each page pings the       *)
(* server and says when it is closed, the server remembers who pinged when,*)
(* and a monitor thread ends the application once nobody is there and no   *)
(* background work is left.                                                *)
(*                                                                         *)
(* Time passes in units of Tick; ages are counted up to the limit they are *)
(* compared with.  Requests are served by threads of their own, so the     *)
(* ping and the close of one page may be handled in either order, but      *)
(* within a unit, in which the monitor looks at least once as well.        *)
(***************************************************************************)
EXTENDS Naturals

CONSTANTS
  Pages,    \* page loads; each has a client id of its own (crypto.randomUUID)
  Silence,  \* longest pause between two pings of a page that is awake
  Idle,     \* idle_timeout
  Grace,    \* close_grace
  Launch,   \* launch_timeout
  None

ASSUME TimeoutAssumption == {Silence, Idle, Grace, Launch} \subseteq Nat \ {0}
ASSUME HeartbeatAssumption == Silence < Idle
ASSUME NoneAssumption == None \notin Nat

VARIABLES
  clients,    \* _browser_clients: the age of each client's last ping
  departed,   \* the age of _last_client_departed
  connected,  \* _browser_connected
  age,        \* time since _created_at
  phase,      \* the monitor: "wait", "ask", "stop", "stopped"
  looked,     \* it has looked in this unit of time
  working,    \* app_service.is_busy
  page,       \* "new", "awake", "asleep" (frozen, or kept for going back), "gone"
  silent,     \* time since the page sent its last ping
  mail,       \* requests under way
  heard,      \* history: pages awake since the server got a ping of theirs
  settled,    \* history: those that were so before this unit of time
  lasting     \* history: background work that began before this unit

server == <<clients, departed, connected, age>>
monitor == <<phase, looked>>
browser == <<page, silent, mail>>
past == <<heard, settled, lasting>>
browserVars == <<server, monitor, working, browser, past>>

BrowserInit ==
  /\ clients = [p \in Pages |-> None]
  /\ departed = None
  /\ connected = FALSE
  /\ age = 0
  /\ phase = "wait"
  /\ looked = FALSE
  /\ working = FALSE
  /\ page = [p \in Pages |-> "new"]
  /\ silent = [p \in Pages |-> 0]
  /\ mail = {}
  /\ heard = {}
  /\ settled = {}
  /\ lasting = FALSE

Serving == phase # "stopped"

-----------------------------------------------------------------------------
(* The pages.                                                              *)

\* A request reaches the server only while it runs.
Send(p, kind) == mail' = IF Serving THEN mail \cup {[page |-> p, kind |-> kind]} ELSE mail

\* A page is loaded, and pings before it asks for anything else.
Open(p) ==
  /\ Serving
  /\ page[p] = "new"
  /\ page' = [page EXCEPT ![p] = "awake"]
  /\ Send(p, "ping")
  /\ UNCHANGED <<server, monitor, working, silent, past>>

\* setInterval(pingLifecycle): every 20 seconds, less often in the background.
Ping(p) ==
  /\ page[p] = "awake"
  /\ silent[p] > 0
  /\ silent' = [silent EXCEPT ![p] = 0]
  /\ Send(p, "ping")
  /\ UNCHANGED <<server, monitor, working, page, past>>

Unheard(p) ==
  /\ heard' = heard \ {p}
  /\ settled' = settled \ {p}
  /\ UNCHANGED lasting

\* pagehide, not persisted
Close(p) ==
  /\ page[p] = "awake"
  /\ page' = [page EXCEPT ![p] = "gone"]
  /\ Send(p, "close")
  /\ Unheard(p)
  /\ UNCHANGED <<server, monitor, working, silent>>

\* The browser ends the page, and nobody tells the server.
Vanish(p) ==
  /\ page[p] \in {"awake", "asleep"}
  /\ page' = [page EXCEPT ![p] = "gone"]
  /\ Unheard(p)
  /\ UNCHANGED <<server, monitor, working, silent, mail>>

\* pagehide, persisted, or a tab that is frozen: its timers stop.
Sleep(p) ==
  /\ page[p] = "awake"
  /\ page' = [page EXCEPT ![p] = "asleep"]
  /\ Unheard(p)
  /\ UNCHANGED <<server, monitor, working, silent, mail>>

Wake(p) ==
  /\ page[p] = "asleep"
  /\ page' = [page EXCEPT ![p] = "awake"]
  /\ UNCHANGED <<server, monitor, working, silent, mail, past>>

\* Background work, which only a page that was answered can start.
StartJob(p) ==
  /\ Serving
  /\ p \in heard
  /\ ~working
  /\ working' = TRUE
  /\ UNCHANGED <<server, monitor, browser, past>>

EndJob ==
  /\ working
  /\ working' = FALSE
  /\ lasting' = FALSE
  /\ UNCHANGED <<server, monitor, browser, heard, settled>>

-----------------------------------------------------------------------------
(* The request handlers.                                                   *)

Received(p, kind) ==
  /\ Serving
  /\ [page |-> p, kind |-> kind] \in mail
  /\ mail' = mail \ {[page |-> p, kind |-> kind]}

BrowserPing(p) ==
  /\ Received(p, "ping")
  /\ clients' = [clients EXCEPT ![p] = 0]
  /\ departed' = None
  /\ connected' = TRUE
  /\ heard' = IF page[p] = "awake" THEN heard \cup {p} ELSE heard
  /\ UNCHANGED <<age, monitor, working, page, silent, settled, lasting>>

BrowserClose(p) ==
  /\ Received(p, "close")
  /\ clients' = [clients EXCEPT ![p] = None]
  /\ departed' = IF connected /\ \A q \in Pages : clients'[q] = None THEN 0 ELSE departed
  /\ UNCHANGED <<connected, age, monitor, working, page, silent, past>>

-----------------------------------------------------------------------------
(* _monitor_browser.                                                       *)

\* Mutant: a client is forgotten after the time a closed page is waited for.
StaleAfterGrace == {p \in Pages : clients[p] # None /\ clients[p] >= Grace}

Stale == {p \in Pages : clients[p] # None /\ clients[p] >= Idle}

\* Mutant: only a page that says so departs.
DepartureUnnoticed(remain) == departed

\* The last clients went stale together.
Departure(remain) == IF Stale # {} /\ ~remain THEN 0 ELSE departed

\* Under the lock: stale clients are dropped, and what is decided on is read.
\* The answer of the service is waited for without the lock.
Look ==
  /\ phase = "wait"
  /\ LET remain == \E p \in Pages \ Stale : clients[p] # None
     IN /\ clients' = [p \in Pages |-> IF p \in Stale THEN None ELSE clients[p]]
        /\ departed' = Departure(remain)
        /\ phase' = IF ~connected /\ age >= Launch THEN "stop"
                    ELSE IF connected /\ ~remain /\ departed' # None /\ departed' >= Grace
                    THEN "ask" ELSE "wait"
  /\ looked' = TRUE
  /\ UNCHANGED <<connected, age, working, browser, past>>

\* not self.app_service.is_busy
Ask ==
  /\ phase = "ask"
  /\ phase' = IF working THEN "wait" ELSE "stop"
  /\ UNCHANGED <<server, looked, working, browser, past>>

\* shutdown(): requests still under way are not answered any more.
Shutdown ==
  /\ phase = "stop"
  /\ phase' = "stopped"
  /\ mail' = {}
  /\ UNCHANGED <<server, looked, working, page, silent, past>>

-----------------------------------------------------------------------------
Older(t, limit) == IF t = None \/ t = limit THEN t ELSE t + 1

Tick ==
  /\ phase = "wait"
  /\ looked
  /\ mail = {}
  /\ \A p \in Pages : page[p] = "awake" => silent[p] < Silence
  /\ looked' = FALSE
  /\ clients' = [p \in Pages |-> Older(clients[p], Idle)]
  /\ departed' = Older(departed, Grace)
  /\ age' = Older(age, Launch)
  /\ silent' = [p \in Pages |-> IF page[p] \in {"awake", "asleep"}
                                THEN Older(silent[p], Silence) ELSE silent[p]]
  /\ settled' = heard
  /\ lasting' = working
  /\ UNCHANGED <<connected, phase, working, page, mail, heard>>

PageNext(p) ==
  \/ Open(p) \/ Ping(p) \/ Close(p) \/ Vanish(p) \/ Sleep(p) \/ Wake(p) \/ StartJob(p)
  \/ BrowserPing(p) \/ BrowserClose(p)

BrowserNext == (\E p \in Pages : PageNext(p)) \/ EndJob \/ Look \/ Ask \/ Shutdown \/ Tick

BrowserSpec == BrowserInit /\ [][BrowserNext]_browserVars

\* Time passes, a page that is awake pings, requests are handled and the
\* monitor runs; nobody has to load a page, to close it or to finish work.
FairBrowserSpec ==
  /\ BrowserSpec
  /\ SF_browserVars(Tick)
  /\ WF_browserVars(Look) /\ WF_browserVars(Ask) /\ WF_browserVars(Shutdown)
  /\ \A p \in Pages :
       /\ WF_browserVars(Ping(p))
       /\ WF_browserVars(BrowserPing(p)) /\ WF_browserVars(BrowserClose(p))

-----------------------------------------------------------------------------
(* Properties.                                                             *)

\* The times are counted to their limits, requests are of the two kinds.
BrowserTypeOK ==
  /\ clients \in [Pages -> (0 .. Idle) \cup {None}]
  /\ departed \in (0 .. Grace) \cup {None}
  /\ age \in 0 .. Launch
  /\ {connected, looked, working, lasting} \subseteq BOOLEAN
  /\ phase \in {"wait", "ask", "stop", "stopped"}
  /\ page \in [Pages -> {"new", "awake", "asleep", "gone"}]
  /\ silent \in [Pages -> 0 .. Silence]
  /\ mail \subseteq [page : Pages, kind : {"ping", "close"}]
  /\ heard \subseteq Pages
  /\ settled \subseteq heard

\* The application never ends under a page that is in use, nor under work
\* that goes on: whatever other pages are closed, frozen, reloaded or lost,
\* and in whatever order their requests are handled.  (Who came since the
\* monitor looked, or began to work since it asked, is not seen any more.)
StopsOnlyUnused == phase = "stopped" => settled = {} /\ ~lasting

\* A page that was heard is one the server remembers, and its last ping is
\* no older there than at the page, but for one that is under way.
HeardIsRemembered ==
  \A p \in heard :
    /\ page[p] = "awake"
    /\ Serving =>
         /\ clients[p] # None
         /\ clients[p] <= Silence
         /\ [page |-> p, kind |-> "ping"] \notin mail => clients[p] <= silent[p]

\* Only a page that is gone says so, and nobody works before anybody came.
CloseIsForGood ==
  /\ \A m \in mail : m.kind = "close" => page[m.page] = "gone"
  /\ heard # {} \/ working => connected
  /\ lasting => working

\* What the monitor saw when it looked, and when it asked, is still so.
DecidedOnUnused ==
  /\ phase # "wait" => settled = {}
  /\ phase \in {"stop", "stopped"} => ~lasting

\* The inductive invariant: StopsOnlyUnused follows from it.
BrowserIInv == BrowserTypeOK /\ HeardIsRemembered /\ CloseIsForGood /\ DecidedOnUnused

\* Once all pages are gone or asleep for good and no work is left, the
\* application ends, even if no page ever said that it was closed.
StopsWhenUnused ==
  <>[](~working /\ \A p \in Pages : page[p] # "awake") => <>(phase = "stopped")
=============================================================================
