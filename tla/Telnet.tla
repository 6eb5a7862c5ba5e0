-------------------------------- MODULE Telnet --------------------------------
(***************************************************************************)
(* The telnet page of the web client (wstelnet.html with wstelnet.js over  *)
(* websock.js and VT100.js): its button, the keys it sends, and the        *)
(* connections it loses.  What the other end does with the keys is left    *)
(* out; what it sends is not looked at, for the receive handler shifts a   *)
(* typed array, which throws, and so ends the connection.                  *)
(***************************************************************************)
EXTENDS Websock, VT100

CONSTANTS
  Keys,     \* the keys pressed: each a character or an escape sequence
  MaxKeys   \* bound: keys pressed

ASSUME MaxKeysAssumption == MaxKeys \in Nat

VARIABLES
  connectButton,  \* what a click on the button does: "connect", "nothing" or "disconnect"
  typed           \* the keys pressed while the page had grabbed them

telnetVars == <<connectButton, typed, vtVars>>

TelnetInit == connectButton = "connect" /\ typed = << >>

\* that.connect, and the page's connect.
TelnetConnect ==
  /\ connectButton = "connect"
  /\ sock.made < MaxConnections
  /\ sock' = OpenSocket(CloseSocket(sock))
  /\ connectButton' = "nothing"
  /\ UNCHANGED <<typed, vtVars>>

\* The handler of open: curs_set(true, true) and connected.
TelnetOpens(c) ==
  /\ sock.ready[c] = "connecting"
  /\ sock' = [sock EXCEPT !.ready[c] = "open"]
  /\ grabbed' = TRUE
  /\ connectButton' = "disconnect"
  /\ UNCHANGED <<typed, vt, keyBuf, timers>>

\* that.disconnect: the WebSocket is closed, the keys are released, and the page's
\* disconnected lets its button connect again.
TelnetDisconnected(w) ==
  /\ sock' = CloseSocket(w)
  /\ grabbed' = FALSE
  /\ connectButton' = "connect"
  /\ UNCHANGED <<typed, vt, keyBuf, timers>>

Disconnect == connectButton = "disconnect" /\ TelnetDisconnected(sock)

TelnetFails(c) ==
  /\ sock.ready[c] = "connecting"
  /\ TelnetDisconnected([sock EXCEPT !.ready[c] = "closed"])

\* The other end begins to close: the page does not hear of it yet.
PeerCloses(c) ==
  /\ sock.ready[c] = "open"
  /\ sock' = [sock EXCEPT !.ready[c] = "closing", !.wire[c] = Append(@, CloseFrame)]
  /\ UNCHANGED telnetVars

\* The close event, of whichever WebSocket.
TelnetCloseEvent(c) ==
  /\ sock.ready[c] = "closing"
  /\ TelnetDisconnected([sock EXCEPT !.ready[c] = "closed"])

\* do_recv: rQshiftBytes reads everything, and shift of its result throws.
TelnetReceive(c) ==
  /\ sock.ready[c] = "open"
  /\ TelnetDisconnected(HandlerThrew(sock, <<"data">>))

\* key_down
PressKey(key) ==
  /\ grabbed
  /\ Len(typed) < MaxKeys
  /\ typed' = Append(typed, key)
  /\ KeyPressed(key)
  /\ UNCHANGED <<sock, connectButton, vt, grabbed>>

\* go_getch_, with send_chr for the handler of getch: getch sets a timer again.
SendKey ==
  /\ Get
  /\ sock' = SendBytes(sock, <<Head(keyBuf)>>)
  /\ UNCHANGED <<connectButton, typed>>

TimerForNothing == NothingToGet /\ UNCHANGED <<sock, connectButton, typed>>

TelnetNext ==
  \/ TelnetConnect \/ Disconnect \/ SendKey \/ TimerForNothing
  \/ \E key \in Keys : PressKey(key)
  \/ \E c \in Connections :
       \/ TelnetOpens(c) \/ TelnetFails(c) \/ PeerCloses(c)
       \/ TelnetCloseEvent(c) \/ TelnetReceive(c)

-------------------------------------------------------------------------------
(* Properties *)

TelnetTypeOK ==
  /\ sock \in Websocks(Keys \cup {"data"})
  /\ connectButton \in {"connect", "nothing", "disconnect"}
  /\ typed \in Seq(Keys) /\ Len(typed) <= MaxKeys
  /\ VTTypeOK(Keys)
  /\ grabbed => connectButton = "disconnect"

\* All that was given to the WebSockets, one after the other, and all that waits.
KeysOut ==
  FlattenSeq([c \in 1..sock.made |-> FlattenSeq(sock.wire[c])]) \o sock.sQ \o keyBuf

\* While a timer is due the keys that wait are handed over, those left from an
\* earlier connection included, unless the keys are released first.
KeysAreTaken == (grabbed /\ timers > 0 /\ keyBuf # << >>) ~> (keyBuf = << >> \/ ~grabbed)
===============================================================================
