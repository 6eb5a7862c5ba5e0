-------------------------------- MODULE WebChat --------------------------------
(***************************************************************************)
(* The chat page of the web client (wsirc.html with wsirc.js over          *)
(* websock.js), the proxy (websockify.js, new_client) that joins each of   *)
(* its WebSockets to a TCP connection, and the chat server at the other    *)
(* end.  The page opens a WebSocket for every click on its login button    *)
(* and sends one login; nothing else the visitor can do there sends        *)
(* anything: the handlers of the other buttons throw, and a form whose     *)
(* handler throws is submitted, which loads the page anew.                 *)
(***************************************************************************)
EXTENDS Websock

VARIABLES
  screen,   \* which of its forms the page shows
  button,   \* whether the login button is enabled
  fresh,    \* the connections opened over empty queues
  awkward,  \* the replies with a part that ends in a backslash: an escaped colon
  client,   \* the proxy's side of each WebSocket
  down,     \* what the proxy sent on each WebSocket that is open
  target,   \* the proxy's side of each TCP connection
  toServer, fromServer,  \* what is under way on each TCP connection
  up,       \* whether the server runs
  place,    \* where the server's reading thread is: "read", "more" or "gone"
  buffer,   \* its buffer_str
  session   \* what became of each connection's user: "out", "in" or "left"

pageVars == <<screen, button, fresh, awkward>>
proxyVars == <<client, down, target>>
tcpVars == <<toServer, fromServer>>
serverVars == <<up, place, buffer, session>>
chatVars == <<pageVars, proxyVars, tcpVars, serverVars>>

Requests == {"login", "crlf"}
\* The lists of users follow the reply to a login, each in a write of its own.
Replies == {"login", "lists", "wrong"}

-------------------------------------------------------------------------------
(* The page *)

\* that.disconnect and disconnected.
Disconnected(w) == sock' = CloseSocket(w) /\ button' = TRUE

\* A browser delivers nothing to a WebSocket that is not open.
KeepIfOpen(messages) ==
  down' = [c \in Connections |-> IF sock'.ready[c] = "open" THEN messages[c] ELSE << >>]

ConnectAnyTime ==
  /\ button
  /\ sock.made < MaxConnections
  /\ sock' = SendBytes(OpenSocket(CloseSocket(sock)), <<"login", "crlf">>)
  /\ button' = FALSE
  /\ fresh' = IF sock.sQ = << >> /\ sock.rQ = << >>
              THEN fresh \cup {sock'.current} ELSE fresh
  /\ KeepIfOpen(down)
  /\ UNCHANGED <<screen, awkward, client, target, tcpVars, serverVars>>

\* A click on the login button: connect.  sendCmd ends every request with a line
\* end; the WebSocket is not open yet, so that both wait in _sQ.
Connect ==
  /\ screen = "login" /\ button
  /\ sock.made < MaxConnections
  /\ sock' = SendBytes(OpenSocket(CloseSocket(sock)), <<"login", "crlf">>)
  /\ button' = FALSE
  /\ fresh' = IF sock.sQ = << >> /\ sock.rQ = << >>
              THEN fresh \cup {sock'.current} ELSE fresh
  /\ KeepIfOpen(down)
  /\ UNCHANGED <<screen, awkward, client, target, tcpVars, serverVars>>

\* The page is loaded anew: wrong password, logout, any form that fails, or the
\* visitor.  The browser closes what the page had open.
Reloaded(w) ==
  /\ sock' = [NewWebsock EXCEPT
                !.made = w.made,
                !.ready = [c \in Connections |-> IF c <= w.made THEN "closed" ELSE "none"],
                !.wire = [c \in Connections |-> IF w.ready[c] = "open"
                                                THEN Append(w.wire[c], CloseFrame)
                                                ELSE w.wire[c]]]
  /\ screen' = "login" /\ button' = TRUE

Reload ==
  /\ sock.current # NoConnection
  /\ Reloaded(sock)
  /\ KeepIfOpen(down)
  /\ UNCHANGED <<fresh, awkward, client, target, tcpVars, serverVars>>

\* The WebSocket opens: sendCmd("") twice.
Opens(c) ==
  /\ sock.ready[c] = "connecting"
  /\ sock' = SendBytes(SendBytes([sock EXCEPT !.ready[c] = "open"], <<"crlf">>), <<"crlf">>)
  /\ client' = [client EXCEPT ![c] = "open"]
  /\ target' = [target EXCEPT ![c] = "open"]
  /\ UNCHANGED <<screen, button, fresh, awkward, down, tcpVars, serverVars>>

\* The WebSocket does not open: an error event and a close event.
Fails(c) ==
  /\ sock.ready[c] = "connecting"
  /\ Disconnected([sock EXCEPT !.ready[c] = "closed"])
  /\ KeepIfOpen(down)
  /\ UNCHANGED <<screen, fresh, awkward, client, target, tcpVars, serverVars>>

\* The close event of any WebSocket of the page goes to the one Websock, which
\* closes its current WebSocket.
CloseEvent(c) ==
  /\ \/ sock.ready[c] = "open" /\ down[c] # << >> /\ Head(down[c]) = CloseFrame
     \/ sock.ready[c] = "closing" /\ client[c] \in {"none", "closed"}
  /\ LET w == IF sock.ready[c] = "open"
              THEN [sock EXCEPT !.wire[c] = Append(@, CloseFrame)] ELSE sock
     IN  Disconnected([w EXCEPT !.ready[c] = "closed"])
  /\ KeepIfOpen(down)
  /\ UNCHANGED <<screen, fresh, awkward, client, target, tcpVars, serverVars>>

\* string2vector calls a method strings do not have for a part that ends in a
\* backslash.
Throws(msg) == ToSet(msg) \cap awkward # {}

\* recvMsg: the first word of all that was read decides.
Recognized(msg) ==
  screen' = IF Head(msg) = "login" THEN "chat" ELSE screen

\* do_recv and recvMsg, inside _recv_message.
Receive(c) ==
  /\ sock.ready[c] = "open"
  /\ down[c] # << >> /\ Head(down[c]) # CloseFrame
  /\ LET msg == Unread(sock, Head(down[c])) IN
       \/ /\ Throws(msg)
          /\ Disconnected(HandlerThrew(sock, Head(down[c])))
          /\ UNCHANGED screen
       \/ /\ ~Throws(msg)
          /\ msg = <<"wrong">>
          /\ Reloaded(HandlerReturned(sock))
       \/ /\ ~Throws(msg)
          /\ msg # <<"wrong">>
          /\ Recognized(msg)
          /\ sock' = HandlerReturned(sock)
          /\ UNCHANGED button
  /\ KeepIfOpen([down EXCEPT ![c] = Tail(@)])
  /\ UNCHANGED <<fresh, awkward, client, target, tcpVars, serverVars>>

-------------------------------------------------------------------------------
(* The proxy *)

\* What arrives on a WebSocket that is not open any more is not kept.
Sent(c, message) ==
  IF sock.ready[c] = "open" THEN [down EXCEPT ![c] = Append(@, message)] ELSE down

\* client.close
ClientClosed(c) ==
  /\ client' = [client EXCEPT ![c] = "closed"]
  /\ down' = IF client[c] = "open" THEN Sent(c, CloseFrame) ELSE down

\* The client's message event.  Writes wait until the target is connected.
ClientMessage(c) ==
  /\ client[c] = "open"
  /\ sock.wire[c] # << >> /\ Head(sock.wire[c]) # CloseFrame
  /\ sock' = [sock EXCEPT !.wire[c] = Tail(@)]
  /\ toServer' = IF target[c] = "open"
                 THEN [toServer EXCEPT ![c] = @ \o Head(sock.wire[c])] ELSE toServer
  /\ UNCHANGED <<screen, button, fresh, awkward, proxyVars, fromServer, serverVars>>

ClientCloseLeavesTarget(c) ==
  /\ sock.wire[c] # << >> /\ Head(sock.wire[c]) = CloseFrame
  /\ sock' = [sock EXCEPT !.wire[c] = Tail(@)]
  /\ ClientClosed(c)
  /\ UNCHANGED <<target, screen, button, fresh, awkward, tcpVars, serverVars>>

\* The client's close event, after the WebSocket library has answered the
\* handshake.
ClientCloseEvent(c) ==
  /\ sock.wire[c] # << >> /\ Head(sock.wire[c]) = CloseFrame
  /\ sock' = [sock EXCEPT !.wire[c] = Tail(@)]
  /\ ClientClosed(c)
  /\ target' = [target EXCEPT ![c] = "ended"]
  /\ UNCHANGED <<screen, button, fresh, awkward, tcpVars, serverVars>>

\* The target's data event: any part of what the server wrote.  Sending to a
\* client that has closed throws.
TargetData(c) ==
  /\ target[c] # "none"
  /\ \E k \in 1..Len(fromServer[c]) :
       /\ fromServer' = [fromServer EXCEPT ![c] = SubSeq(@, k + 1, Len(@))]
       /\ \/ /\ client[c] = "open"
             /\ down' = Sent(c, SubSeq(fromServer[c], 1, k))
             /\ UNCHANGED target
          \/ /\ client[c] = "closed"
             /\ target' = [target EXCEPT ![c] = "ended"]
             /\ UNCHANGED down
  /\ UNCHANGED <<sock, pageVars, client, toServer, serverVars>>

TargetEndUnnoticed(c) ==
  /\ ~up
  /\ target[c] = "open" /\ fromServer[c] = << >>
  /\ target' = [target EXCEPT ![c] = "ended"]
  /\ UNCHANGED <<sock, pageVars, client, down, tcpVars, serverVars>>

\* The target's end or error event: the server has gone, or was not there.
TargetEnd(c) ==
  /\ ~up
  /\ target[c] = "open" /\ fromServer[c] = << >>
  /\ target' = [target EXCEPT ![c] = "ended"]
  /\ ClientClosed(c)
  /\ UNCHANGED <<sock, pageVars, tcpVars, serverVars>>

-------------------------------------------------------------------------------
(* The server: one reading thread for each connection, and the login *)

\* A buffer is a C string: what follows a zero byte in it is lost.
Text(chunk) ==
  IF Contains(chunk, Zeros)
  THEN SubSeq(chunk, 1, SelectInSeq(chunk, LAMBDA b : b = Zeros) - 1) ELSE chunk

\* A login is taken as such if the request begins with it, and is accepted or not.
Login(c, text) ==
  LET end == SelectInSeq(text, LAMBDA b : b = "login") IN
  \/ /\ end = 0
     /\ place' = [place EXCEPT ![c] = "more"]
     /\ buffer' = [buffer EXCEPT ![c] = text]
     /\ UNCHANGED <<fromServer, session>>
  \/ /\ end > 0
     /\ place' = [place EXCEPT ![c] = "read"]
     /\ buffer' = [buffer EXCEPT ![c] = << >>]
     /\ \/ end > 1 /\ UNCHANGED <<fromServer, session>>
        \/ /\ end = 1
           /\ session' = [session EXCEPT ![c] = "in"]
           /\ fromServer' = [fromServer EXCEPT ![c] = @ \o <<"login", "lists">>]
        \/ /\ end = 1
           /\ fromServer' = [fromServer EXCEPT ![c] = Append(@, "wrong")]
           /\ UNCHANGED session

\* The first read of a request overwrites the buffer, the others add to it.  What
\* is there is shorter than the buffer and is read at once (ReadThread has every
\* other way).
ServerReads(c) ==
  /\ up /\ place[c] # "gone"
  /\ toServer[c] # << >>
  /\ toServer' = [toServer EXCEPT ![c] = << >>]
  /\ Login(c, (IF place[c] = "read" THEN << >> ELSE buffer[c]) \o Text(toServer[c]))
  /\ UNCHANGED <<sock, pageVars, proxyVars, up>>

\* The end of the stream is looked for only between two requests.
ServerReadsEnd(c) ==
  /\ up /\ place[c] = "read"
  /\ target[c] = "ended" /\ toServer[c] = << >>
  /\ place' = [place EXCEPT ![c] = "gone"]
  /\ session' = [session EXCEPT ![c] = IF @ = "in" THEN "left" ELSE @]
  /\ UNCHANGED <<sock, pageVars, proxyVars, tcpVars, up, buffer>>

ServerDies ==
  /\ up
  /\ up' = FALSE
  /\ UNCHANGED <<sock, pageVars, proxyVars, tcpVars, place, buffer, session>>

-------------------------------------------------------------------------------

ChatInit ==
  /\ screen = "login" /\ button = TRUE
  /\ fresh = {}
  /\ awkward \in {{}, {"lists"}, {"login", "lists"}}
  /\ client = [c \in Connections |-> "none"]
  /\ down = [c \in Connections |-> << >>]
  /\ target = [c \in Connections |-> "none"]
  /\ toServer = [c \in Connections |-> << >>]
  /\ fromServer = [c \in Connections |-> << >>]
  /\ up = TRUE
  /\ place = [c \in Connections |-> "read"]
  /\ buffer = [c \in Connections |-> << >>]
  /\ session = [c \in Connections |-> "out"]

\* What happens of itself, once the visitor has done something.
System(c) ==
  \/ Opens(c) \/ Fails(c) \/ CloseEvent(c) \/ Receive(c)
  \/ ClientMessage(c) \/ ClientCloseEvent(c) \/ TargetData(c) \/ TargetEnd(c)
  \/ ServerReads(c) \/ ServerReadsEnd(c)

ChatNext == Connect \/ Reload \/ ServerDies \/ \E c \in Connections : System(c)

-------------------------------------------------------------------------------
(* Properties *)

\* The variables keep their types; the proxy and the server have a side of their
\* own only of WebSockets that were opened.
ChatTypeOK ==
  /\ sock \in Websocks(Requests \cup Replies)
  /\ screen \in {"login", "chat"} /\ button \in BOOLEAN
  /\ fresh \subseteq 1..sock.made
  /\ awkward \subseteq Replies
  /\ client \in [Connections -> {"none", "open", "closed"}]
  /\ down \in [Connections -> Seq(Seq(Replies))]
  /\ target \in [Connections -> {"none", "open", "ended"}]
  /\ toServer \in [Connections -> Seq(Requests \cup {Zeros})]
  /\ fromServer \in [Connections -> Seq(Replies)]
  /\ up \in BOOLEAN
  /\ place \in [Connections -> {"read", "more", "gone"}]
  /\ buffer \in [Connections -> Seq(Requests)]
  /\ session \in [Connections -> {"out", "in", "left"}]
  /\ \A c \in Connections : client[c] # "none" => c <= sock.made

\* The chat is shown only for a login that the server accepted on the very
\* connection the page has now: no reply to an earlier attempt is taken for it.
ChatIsOfThisConnection ==
  screen = "chat" => sock.current # NoConnection /\ session[sock.current] # "out"

\* Every login over empty queues is answered: the chat appears, the button can be
\* clicked again, or the page is gone.  (An attempt that did not open leaves its
\* length in the send queue, and one whose reply could not be read leaves it in
\* the receive queue: then zeros come before the next request or reply, and the
\* page can wait for ever.)
FreshLoginIsAnswered ==
  \A c \in Connections :
    (sock.current = c /\ c \in fresh) ~> (screen = "chat" \/ button \/ sock.current # c)

\* A visitor who logged in and left goes offline, while the server runs, unless
\* its thread has begun to read a request that has no end: the two line ends sent
\* after the login.
LeavingIsNoticed ==
  \A c \in Connections :
    (session[c] = "in" /\ sock.ready[c] = "closed")
      ~> (session[c] = "left" \/ place[c] = "more" \/ ~up)
===============================================================================
