-------------------------------- MODULE Websock --------------------------------
(***************************************************************************)
(* The Websock object of the web client's pages (websock.js): one send and *)
(* one receive queue in front of one WebSocket after another.  Its state   *)
(* is a record, and its methods are operators on it, so that a page can    *)
(* call several in one handler.                                            *)
(*                                                                         *)
(* A byte string is a sequence of tokens: a whole request or reply, a line *)
(* end, or zeros where a new buffer was put under an old length.  What is  *)
(* left out is the growth of the receive queue beyond 4 MiB: both pages    *)
(* read all there is at once.                                              *)
(***************************************************************************)
EXTENDS Integers, SequencesExt

CONSTANT MaxConnections  \* bound: WebSockets made

ASSUME ConnectionsAssumption == MaxConnections \in Nat

VARIABLE sock  \* the Websock of the page

Connections == 1..MaxConnections

NoConnection == 0

Zeros == "zeros"

\* On the wire: the tokens of one message, or the closing handshake.
CloseFrame == << >>

ReadyStates == {"none", "connecting", "open", "closing", "closed"}

Websocks(tokens) ==
  [current : {NoConnection} \cup Connections,       \* _websocket
   made    : {NoConnection} \cup Connections,       \* the WebSockets made so far
   ready   : [Connections -> ReadyStates],          \* their readyState
   wire    : [Connections -> Seq(Seq(tokens \cup {Zeros}))],  \* what they sent
   sQ      : Seq(tokens \cup {Zeros}),              \* _sQ up to _sQlen
   rQ      : Seq(tokens \cup {Zeros}),              \* _rQ up to _rQlen
   rQi     : Nat]                                   \* _rQi

NewWebsock ==
  [current |-> NoConnection, made |-> NoConnection,
   ready |-> [c \in Connections |-> "none"], wire |-> [c \in Connections |-> << >>],
   sQ |-> << >>, rQ |-> << >>, rQi |-> 0]

AllZeros(queue) == [i \in 1..Len(queue) |-> Zeros]

FlushAgain(w) ==
  IF w.sQ # << >> /\ w.ready[w.current] = "open"
  THEN [w EXCEPT !.wire[w.current] = Append(@, w.sQ)]
  ELSE w

\* flush
Flush(w) ==
  IF w.sQ # << >> /\ w.ready[w.current] = "open"
  THEN [w EXCEPT !.wire[w.current] = Append(@, w.sQ), !.sQ = << >>]
  ELSE w

\* send
SendBytes(w, bytes) == Flush([w EXCEPT !.sQ = @ \o bytes])

\* close.  It also takes the message handler away, but a browser delivers nothing
\* to a WebSocket that is not open anyway.
CloseSocket(w) ==
  LET c == w.current IN
  IF c = NoConnection THEN w
  ELSE CASE w.ready[c] = "open" -> [w EXCEPT !.ready[c] = "closing",
                                             !.wire[c] = Append(@, CloseFrame)]
         [] w.ready[c] = "connecting" -> [w EXCEPT !.ready[c] = "closing"]
         [] OTHER -> w

\* open: init gives both queues new buffers and sets _rQi to 0, but leaves _sQlen
\* and _rQlen as they are.
OpenSocket(w) ==
  [w EXCEPT !.current = w.made + 1, !.made = @ + 1,
            !.ready[w.made + 1] = "connecting",
            !.sQ = AllZeros(@), !.rQ = AllZeros(@), !.rQi = 0]

\* What the message handler finds to read when data arrive.
Unread(w, data) == SubSeq(w.rQ, w.rQi + 1, Len(w.rQ)) \o data

\* _recv_message: a handler that has read everything and returns.
HandlerReturned(w) == [w EXCEPT !.rQ = << >>, !.rQi = 0]

\* _recv_message: a handler that has read everything and throws; the error
\* handler runs next.
HandlerThrew(w, data) ==
  [w EXCEPT !.rQ = @ \o data, !.rQi = Len(w.rQ) + Len(data)]
===============================================================================
