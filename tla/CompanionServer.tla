--------------------------- MODULE CompanionServer ---------------------------
(***************************************************************************)
(* `mawf companion serve` (src/companion/serve.js): a loopback HTTP server *)
(* that serves the board and forwards the requests of its tabs, one        *)
(* BridgeServer for all of them.  A tab takes its token from the fragment  *)
(* of the printed link and sends it in a header.  A handler awaits the     *)
(* body and then the provider; its tab may be gone by then.  On a signal   *)
(* the server accepts nothing more, waits for the open connections, closes *)
(* the bridge and returns.                                                 *)
(***************************************************************************)
EXTENDS Naturals

CONSTANTS Tabs, MaxVisits

VARIABLES
  http,      \* "starting", "listening", "closing", "stopped" or "failed"
  bridge,    \* the shared BridgeServer: a hello was refused, it is closed
  tab,       \* tab -> its page and the token in its sessionStorage
  calling,   \* tab -> its request, and how far the handler is
  visits     \* pages opened so far

serveVars == <<http, bridge, tab, calling, visits>>

NoRequest == [at |-> "none"]
Closed == [page |-> "none", token |-> FALSE]
Paths == {"health", "rpc", "shell", "script", "other"}
Bodies == {"call", "hello", "oldHello", "junk", "huge"}
Asks(path, post, loopback, body) ==
  [path |-> path, post |-> post, loopback |-> loopback, body |-> body]

ServeInit ==
  /\ http = "starting"
  /\ bridge = [refused |-> FALSE, closed |-> FALSE]
  /\ tab = [t \in Tabs |-> Closed] /\ calling = [t \in Tabs |-> NoRequest]
  /\ visits = 0

(* The internal handshake comes before the port is bound.                  *)
Listen ==
  /\ http = "starting"
  /\ http' \in {"listening", "failed"}
  /\ bridge' = [bridge EXCEPT !.closed = http' = "failed"]
  /\ UNCHANGED <<tab, calling, visits>>

(***************************************************************************)
(* Tabs.  The entry page moves the token to sessionStorage and redirects;  *)
(* without one it stays where it is.  A tab has one request at a time.     *)
(***************************************************************************)
OpenPage(t, linked) ==
  /\ tab[t] = Closed /\ calling[t] = NoRequest /\ http = "listening" /\ visits < MaxVisits
  /\ visits' = visits + 1
  /\ tab' = [tab EXCEPT ![t] = [page |-> IF linked THEN "board" ELSE "entry", token |-> linked]]
  /\ UNCHANGED <<http, bridge, calling>>

Send(t) ==
  /\ tab[t].page # "none" /\ calling[t] = NoRequest /\ http = "listening"
  /\ \E path \in Paths, post, loopback \in BOOLEAN, body \in Bodies :
       /\ (path # "rpc" \/ ~loopback) => body = "call"
       /\ calling' = [calling EXCEPT ![t] = [at |-> "received", token |-> tab[t].token, there |-> TRUE,
                                             ask |-> Asks(path, post, loopback, body)]]
  /\ UNCHANGED <<http, bridge, tab, visits>>

Leave(t) ==
  /\ tab[t].page # "none"
  /\ tab' = [tab EXCEPT ![t] = Closed]
  /\ calling' = [calling EXCEPT ![t] = IF @.at \in {"none", "answered", "reset"} THEN NoRequest
                                       ELSE [@ EXCEPT !.there = FALSE]]
  /\ UNCHANGED <<http, bridge, visits>>

ReadAnswer(t) ==
  /\ calling[t].at \in {"answered", "reset"} /\ calling[t].there
  /\ calling' = [calling EXCEPT ![t] = NoRequest]
  /\ UNCHANGED <<http, bridge, tab, visits>>

(***************************************************************************)
(* handle: what is decided without waiting, in this order.                 *)
(***************************************************************************)
Answered(t, status) ==
  IF calling[t].there
  THEN [at |-> "answered", token |-> calling[t].token, there |-> TRUE, ask |-> calling[t].ask, status |-> status]
  ELSE NoRequest

NeedsToken(r) == r.path \in {"rpc", "script"}

ServerStatus(r, token) ==
  IF ~r.loopback THEN "403"
  ELSE IF r.path = "other" THEN "404"
  ELSE IF r.post # (r.path = "rpc") THEN "405"
  ELSE IF NeedsToken(r) /\ ~token THEN "401" ELSE "200"

Route(t) ==
  /\ calling[t].at = "received"
  /\ LET r == calling[t].ask
         status == ServerStatus(r, calling[t].token)
     IN  calling' = [calling EXCEPT ![t] = IF r.path = "rpc" /\ status = "200"
                                           THEN [@ EXCEPT !.at = "reading"]
                                           ELSE Answered(t, status)]
  /\ UNCHANGED <<http, bridge, tab, visits>>

(* An oversized body destroys the socket before its 413 can be written.    *)
ReadBody(t) ==
  /\ calling[t].at = "reading"
  /\ calling' = [calling EXCEPT ![t] = IF ~calling[t].there THEN NoRequest
                                       ELSE [@ EXCEPT !.at = IF calling[t].ask.body = "huge" THEN "reset" ELSE "read"]]
  /\ UNCHANGED <<http, bridge, tab, visits>>

(* handleLine: every tab speaks on the one handshaken connection.          *)
Dispatch(t) ==
  /\ calling[t].at = "read"
  /\ LET body == calling[t].ask.body IN
     /\ bridge' = [bridge EXCEPT !.refused = @ \/ body = "oldHello"]
     /\ calling' = [calling EXCEPT ![t] = IF body = "call" /\ ~bridge.refused THEN [@ EXCEPT !.at = "calling"]
                                          ELSE Answered(t, "error")]
  /\ UNCHANGED <<http, tab, visits>>

(* Mutant: a provider that fails leaves its request without an answer.     *)
RejectsSilently(t) == calling[t].at = "calling" /\ UNCHANGED serveVars
ProviderEnds(t) ==
  /\ calling[t].at = "calling"
  /\ calling' = [calling EXCEPT ![t] = Answered(t, "result")]
  /\ UNCHANGED <<http, bridge, tab, visits>>

(***************************************************************************)
(* Shutdown.                                                               *)
(***************************************************************************)
SignalServer ==
  /\ http = "listening" /\ http' = "closing"
  /\ UNCHANGED <<bridge, tab, calling, visits>>

Open(t) == calling[t].at \in {"received", "reading", "read", "calling"} /\ calling[t].there

(* Mutant: the bridge is closed and the command returns at once.           *)
ReturnAtOnce == http = "closing"
MayReturn == http = "closing" /\ \A t \in Tabs : ~Open(t)

Return ==
  /\ MayReturn
  /\ http' = "stopped" /\ bridge' = [bridge EXCEPT !.closed = TRUE]
  /\ UNCHANGED <<tab, calling, visits>>

Handler(t) == Route(t) \/ ReadBody(t) \/ Dispatch(t) \/ ProviderEnds(t)
ServeNext ==
  \/ Listen \/ SignalServer \/ Return
  \/ \E t \in Tabs : \/ Send(t) \/ Leave(t) \/ ReadAnswer(t) \/ Handler(t)
                     \/ \E linked \in BOOLEAN : OpenPage(t, linked)

ServeSpec == ServeInit /\ [][ServeNext]_serveVars
(* Handlers run, and a call to a provider ends.                            *)
ServeFairness == WF_serveVars(Return) /\ \A t \in Tabs : WF_serveVars(Handler(t))

-----------------------------------------------------------------------------
(***************************************************************************)
(* The command returns, and the bridge is closed under its providers, only *)
(* when every tab still there has got its answer: no request is cut off by *)
(* a shutdown, however far its handler was.                                *)
(***************************************************************************)
NobodyIsCutOff == (bridge.closed \/ http = "stopped") => \A t \in Tabs : ~Open(t)

(* After a signal the command returns.                                     *)
ShutdownEnds == (http = "closing") ~> (http = "stopped")
=============================================================================
