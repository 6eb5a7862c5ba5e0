---------------------------- MODULE WebClientProofs ----------------------------
(***************************************************************************)
(* Theorems about the web client, for any number of connections, any keys, *)
(* and a screen of any size.                                               *)
(***************************************************************************)
EXTENDS WebClient, Induction

(***************************************************************************)
(* The Websock.  Only its current WebSocket may be connecting or open.     *)
(***************************************************************************)
OneIsLive(w) ==
  /\ w.current <= w.made
  /\ \A c \in Connections : w.ready[c] \in {"connecting", "open"} => c = w.current
  /\ \A c \in Connections : c > w.made => w.ready[c] = "none" /\ w.wire[c] = << >>

Wires(T) == [Connections -> Seq(Seq(T \cup {Zeros}))]

\* A Websock has its fields, and what has them is one.
LEMMA Fields ==
  ASSUME NEW T, NEW w \in Websocks(T)
  PROVE  /\ w.current \in {NoConnection} \cup Connections
         /\ w.made \in {NoConnection} \cup Connections
         /\ w.ready \in [Connections -> ReadyStates]
         /\ w.wire \in Wires(T)
         /\ w.sQ \in Seq(T \cup {Zeros}) /\ w.rQ \in Seq(T \cup {Zeros}) /\ w.rQi \in Nat
  BY DEF Websocks, Wires

\* The connections are numbered.
LEMMA Numbers ==
  ASSUME NEW n \in {NoConnection} \cup Connections
  PROVE  n \in Nat /\ n <= MaxConnections
  BY ConnectionsAssumption DEF Connections, NoConnection

\* What closing does not change.
Kept(v, w) ==
  /\ v.current = w.current /\ v.made = w.made
  /\ v.sQ = w.sQ /\ v.rQ = w.rQ /\ v.rQi = w.rQi
  /\ \A c \in Connections : v.wire[c] = w.wire[c] \/ v.wire[c] = Append(w.wire[c], << >>)

NoneIsLive(w) == \A c \in Connections : w.ready[c] \notin {"connecting", "open"}

\* A WebSocket of the page takes another state, and may send the closing handshake.
Becomes(w, c, state) == [w EXCEPT !.ready[c] = state]
Parts(w, c, state) ==
  [w EXCEPT !.ready[c] = state, !.wire[c] = Append(w.wire[c], CloseFrame)]

\* It keeps at most one WebSocket that is connecting or open.
LEMMA SetKeeps ==
  ASSUME NEW T, NEW w \in Websocks(T), OneIsLive(w),
         NEW c \in Connections, w.ready[c] # "none",
         NEW state \in ReadyStates,
         state \in {"connecting", "open"} => c = w.current,
         NEW v,
         v \in {Becomes(w, c, state), Parts(w, c, state)}
  PROVE  /\ v \in Websocks(T) /\ OneIsLive(v) /\ Kept(v, w)
         /\ \A d \in Connections : v.ready[d] = IF d = c THEN state ELSE w.ready[d]
<1>1. w.ready \in [Connections -> ReadyStates] /\ w.wire \in Wires(T)
  BY Fields
<1>2. PICK ready : ready = [w.ready EXCEPT ![c] = state]
  OBVIOUS
<1>3. ready \in [Connections -> ReadyStates]
  BY <1>1, <1>2
<1>4. PICK wire : /\ wire = w.wire \/ wire = [w.wire EXCEPT ![c] = Append(w.wire[c], << >>)]
                  /\ v = [w EXCEPT !.ready = ready, !.wire = wire]
  <2>1. CASE v = Becomes(w, c, state)
    <3>1. v = [w EXCEPT !.ready = ready]
      BY <1>2, <2>1 DEF Becomes
    <3>2. [w EXCEPT !.ready = ready] = [w EXCEPT !.ready = ready, !.wire = w.wire]
      BY DEF Websocks
    <3>. QED BY <3>1, <3>2
  <2>2. CASE v = Parts(w, c, state)
    <3>1. v = [w EXCEPT !.ready = ready, !.wire = [w.wire EXCEPT ![c] = Append(w.wire[c], << >>)]]
      BY <1>2, <2>2 DEF Parts, CloseFrame
    <3>. QED BY <3>1
  <2>. QED BY <2>1, <2>2
<1>5. wire \in Wires(T)
  <2>1. w.wire[c] \in Seq(Seq(T \cup {Zeros})) /\ << >> \in Seq(T \cup {Zeros})
    BY <1>1 DEF Wires
  <2>2. Append(w.wire[c], << >>) \in Seq(Seq(T \cup {Zeros}))
    BY <2>1
  <2>. QED BY <1>1, <1>4, <2>2 DEF Wires
<1>6. \A d \in Connections : wire[d] = w.wire[d] \/ (d = c /\ wire[d] = Append(w.wire[d], << >>))
  BY <1>1, <1>4 DEF Wires
<1>7. v \in Websocks(T)
  BY <1>3, <1>4, <1>5 DEF Websocks, Wires
<1>8. /\ v.ready = ready /\ v.wire = wire
      /\ v.current = w.current /\ v.made = w.made
      /\ v.sQ = w.sQ /\ v.rQ = w.rQ /\ v.rQi = w.rQi
  BY <1>4 DEF Websocks
<1>9. Kept(v, w)
  BY <1>6, <1>8 DEF Kept
<1>10. \A d \in Connections : ready[d] = IF d = c THEN state ELSE w.ready[d]
  BY <1>1, <1>2
<1>11. \A d \in Connections : d > w.made => d # c
  BY DEF OneIsLive
<1>12. OneIsLive(v)
  BY <1>6, <1>8, <1>10, <1>11 DEF OneIsLive
<1>. QED BY <1>7, <1>8, <1>9, <1>10, <1>12

\* Closing the current WebSocket leaves none that is connecting or open, and sends
\* nothing but the closing handshake.
LEMMA CloseKeeps ==
  ASSUME NEW T, NEW w \in Websocks(T), OneIsLive(w), NEW v, v = CloseSocket(w)
  PROVE  v \in Websocks(T) /\ OneIsLive(v) /\ NoneIsLive(v) /\ Kept(v, w)
<1>. DEFINE c == w.current
<1>1. c \in {NoConnection} \cup Connections /\ w.ready \in [Connections -> ReadyStates]
  BY Fields
<1>2. CASE c \in Connections /\ w.ready[c] \in {"connecting", "open"}
  <2>1. v \in {Becomes(w, c, "closing"), Parts(w, c, "closing")}
    BY <1>2 DEF CloseSocket, Connections, NoConnection, Becomes, Parts
  <2>2. /\ v \in Websocks(T) /\ OneIsLive(v) /\ Kept(v, w)
        /\ \A d \in Connections : v.ready[d] = IF d = c THEN "closing" ELSE w.ready[d]
    <3>1. w.ready[c] # "none" /\ "closing" \in ReadyStates
      BY <1>2 DEF ReadyStates
    <3>. HIDE DEF c
    <3>. QED BY <1>2, <2>1, <3>1, SetKeeps
  <2>3. NoneIsLive(v)
    BY <1>1, <1>2, <2>2 DEF OneIsLive, NoneIsLive
  <2>. QED BY <2>2, <2>3
<1>3. CASE ~(c \in Connections /\ w.ready[c] \in {"connecting", "open"})
  <2>1. v = w
    BY <1>1, <1>3 DEF CloseSocket
  <2>2. NoneIsLive(w) /\ Kept(w, w)
    BY <1>1, <1>3 DEF OneIsLive, NoneIsLive, Kept, NoConnection, Connections
  <2>. QED BY <2>1, <2>2
<1>. QED BY <1>2, <1>3

\* A new WebSocket becomes the current one, over queues of zeros.
LEMMA OpenKeeps ==
  ASSUME NEW T, NEW w \in Websocks(T), OneIsLive(w), NoneIsLive(w), w.made < MaxConnections
  PROVE  LET v == OpenSocket(w) IN
         /\ v \in Websocks(T) /\ OneIsLive(v)
         /\ v.current = w.made + 1 /\ v.made = w.made + 1 /\ v.made \in Connections
         /\ v.wire = w.wire
         /\ v.ready[v.current] = "connecting"
         /\ v.sQ = AllZeros(w.sQ) /\ v.rQ = AllZeros(w.rQ) /\ v.rQi = 0
<1>1. PICK n \in Nat : n = w.made
  <2>1. w.made \in {NoConnection} \cup Connections
    BY Fields
  <2>. QED BY <2>1, Numbers
<1>2. n + 1 \in Connections
  BY <1>1, ConnectionsAssumption DEF Connections
<1>3. AllZeros(w.sQ) \in Seq(T \cup {Zeros}) /\ AllZeros(w.rQ) \in Seq(T \cup {Zeros})
  <2>1. ASSUME NEW q \in Seq(T \cup {Zeros}) PROVE AllZeros(q) \in Seq(T \cup {Zeros})
    BY DEF AllZeros
  <2>. QED BY <2>1, Fields
<1>4. PICK v : v = OpenSocket(w)
  OBVIOUS
<1>5. v = [w EXCEPT !.current = n + 1, !.made = n + 1, !.ready[n + 1] = "connecting",
                    !.sQ = AllZeros(w.sQ), !.rQ = AllZeros(w.rQ), !.rQi = 0]
  BY <1>1, <1>4 DEF OpenSocket
<1>. HIDE DEF AllZeros
<1>6. v \in Websocks(T)
  BY <1>2, <1>3, <1>5 DEF Websocks, ReadyStates
<1>7. /\ v.current = n + 1 /\ v.made = n + 1 /\ v.wire = w.wire /\ v.rQi = 0
      /\ v.sQ = AllZeros(w.sQ) /\ v.rQ = AllZeros(w.rQ)
      /\ v.ready = [w.ready EXCEPT ![n + 1] = "connecting"]
  BY <1>5 DEF Websocks
<1>8. \A c \in Connections : v.ready[c] = IF c = n + 1 THEN "connecting" ELSE w.ready[c]
  BY <1>2, <1>7, Fields
<1>9. OneIsLive(v)
  <2>1. \A c \in Connections : c > n + 1 => c > n /\ c # n + 1
    BY DEF Connections
  <2>2. \A c \in Connections : v.ready[c] \in {"connecting", "open"} => c = n + 1
    BY <1>8 DEF NoneIsLive
  <2>. QED BY <1>1, <1>7, <1>8, <2>1, <2>2 DEF OneIsLive
<1>. QED BY <1>1, <1>2, <1>4, <1>6, <1>7, <1>8, <1>9

\* A message more on the wire of a WebSocket.
Given(wire, c, message) == [wire EXCEPT ![c] = Append(wire[c], message)]

\* What is sent waits or goes out on the current WebSocket, after what waited.
LEMMA SendKeeps ==
  ASSUME NEW T, NEW w \in Websocks(T), OneIsLive(w), w.current # NoConnection,
         NEW bytes \in Seq(T \cup {Zeros}), NEW v, v = SendBytes(w, bytes)
  PROVE  /\ v \in Websocks(T) /\ OneIsLive(v)
         /\ v.current = w.current /\ v.made = w.made /\ v.ready = w.ready
         /\ v.rQ = w.rQ /\ v.rQi = w.rQi
         /\ \/ v.wire = w.wire /\ v.sQ = w.sQ \o bytes
            \/ v.wire = Given(w.wire, w.current, w.sQ \o bytes) /\ v.sQ = << >>
<1>. DEFINE c == w.current
            waiting == w.sQ \o bytes
<1>1. c \in Connections /\ w.ready \in [Connections -> ReadyStates] /\ w.wire \in Wires(T)
      /\ waiting \in Seq(T \cup {Zeros})
  BY Fields
<1>. HIDE DEF c, waiting
<1>2. PICK u : u = [w EXCEPT !.sQ = waiting]
  OBVIOUS
<1>3. /\ u \in Websocks(T) /\ u.current = c /\ u.made = w.made /\ u.ready = w.ready
      /\ u.rQ = w.rQ /\ u.rQi = w.rQi /\ u.wire = w.wire /\ u.sQ = waiting
  BY <1>1, <1>2 DEF Websocks, c
<1>4. v = Flush(u)
  BY <1>2 DEF SendBytes, waiting
<1>5. CASE waiting # << >> /\ w.ready[c] = "open"
  <2>1. PICK wire : wire = [w.wire EXCEPT ![c] = Append(w.wire[c], waiting)]
    OBVIOUS
  <2>2. wire \in Wires(T)
    BY <1>1, <2>1 DEF Wires
  <2>3. v = [u EXCEPT !.wire = wire, !.sQ = << >>]
    BY <1>3, <1>4, <1>5, <2>1 DEF Flush
  <2>4. v \in Websocks(T)
    <3>1. << >> \in Seq(T \cup {Zeros})
      OBVIOUS
    <3>. QED BY <1>3, <2>2, <2>3, <3>1 DEF Websocks, Wires
  <2>5. /\ v.current = c /\ v.made = w.made /\ v.ready = w.ready
        /\ v.rQ = w.rQ /\ v.rQi = w.rQi /\ v.wire = wire /\ v.sQ = << >>
    BY <1>3, <2>3 DEF Websocks
  <2>6. \A d \in Connections : wire[d] = w.wire[d] \/ d = c
    BY <1>1, <2>1 DEF Wires
  <2>7. ~(c > w.made)
    <3>1. c \in Nat /\ w.made \in Nat /\ c <= w.made
      BY <1>1, Fields, Numbers DEF OneIsLive, c
    <3>. QED BY <3>1
  <2>8. OneIsLive(v)
    BY <2>5, <2>6, <2>7 DEF OneIsLive, c
  <2>. QED BY <2>1, <2>4, <2>5, <2>8 DEF c, waiting, Given
<1>6. CASE ~(waiting # << >> /\ w.ready[c] = "open")
  <2>1. v = u
    BY <1>3, <1>4, <1>6 DEF Flush
  <2>2. OneIsLive(v)
    BY <1>3, <2>1 DEF OneIsLive, c
  <2>. QED BY <1>3, <2>1, <2>2 DEF c, waiting
<1>. QED BY <1>5, <1>6

\* The message handler reads all there is: only the receive queue changes.
LEMMA HandlerKeeps ==
  ASSUME NEW T, NEW w \in Websocks(T), OneIsLive(w), NEW data \in Seq(T \cup {Zeros}),
         NEW v \in {HandlerReturned(w), HandlerThrew(w, data)}
  PROVE  /\ v \in Websocks(T) /\ OneIsLive(v)
         /\ v.current = w.current /\ v.made = w.made
         /\ v.ready = w.ready /\ v.wire = w.wire /\ v.sQ = w.sQ
<1>1. PICK rQ \in Seq(T \cup {Zeros}), rQi \in Nat : v = [w EXCEPT !.rQ = rQ, !.rQi = rQi]
  <2>1. CASE v = HandlerReturned(w)
    <3>1. << >> \in Seq(T \cup {Zeros}) /\ 0 \in Nat
      OBVIOUS
    <3>. QED BY <2>1, <3>1 DEF HandlerReturned
  <2>2. CASE v = HandlerThrew(w, data)
    <3>1. w.rQ \in Seq(T \cup {Zeros})
      BY Fields
    <3>2. w.rQ \o data \in Seq(T \cup {Zeros}) /\ Len(w.rQ) + Len(data) \in Nat
      BY <3>1
    <3>. QED BY <2>2, <3>2 DEF HandlerThrew
  <2>. QED BY <2>1, <2>2
<1>2. v \in Websocks(T)
  BY <1>1 DEF Websocks
<1>3. /\ v.current = w.current /\ v.made = w.made
      /\ v.ready = w.ready /\ v.wire = w.wire /\ v.sQ = w.sQ
  BY <1>1 DEF Websocks
<1>. QED BY <1>2, <1>3 DEF OneIsLive

(***************************************************************************)
(* The keys of the telnet page.                                            *)
(***************************************************************************)
Pieces(w) == [c \in 1..w.made |-> FlattenSeq(w.wire[c])]

\* All that was given to the WebSockets, one after the other.
Handed(w) == FlattenSeq(Pieces(w))

\* What was handed over is made of tokens.
LEMMA HandedType ==
  ASSUME NEW T, NEW w \in Websocks(T)
  PROVE  /\ Pieces(w) \in Seq(Seq(T \cup {Zeros})) /\ Len(Pieces(w)) = w.made
         /\ Handed(w) \in Seq(T \cup {Zeros})
<1>1. w.made \in Nat /\ w.made <= MaxConnections /\ w.wire \in Wires(T)
  BY Fields, Numbers
<1>2. ASSUME NEW c \in 1..w.made PROVE FlattenSeq(w.wire[c]) \in Seq(T \cup {Zeros})
  <2>1. c \in Connections
    BY <1>1, ConnectionsAssumption DEF Connections
  <2>2. w.wire[c] \in Seq(Seq(T \cup {Zeros}))
    BY <1>1, <2>1 DEF Wires
  <2>. QED BY <2>2, FlattenType
<1>3. Pieces(w) \in Seq(Seq(T \cup {Zeros})) /\ Len(Pieces(w)) = w.made
  BY <1>1, <1>2 DEF Pieces
<1>4. Handed(w) \in Seq(T \cup {Zeros})
  BY <1>3, FlattenType DEF Handed
<1>. QED BY <1>3, <1>4

\* The closing handshake hands nothing over.
LEMMA ClosingHandsNothing ==
  ASSUME NEW T, NEW w \in Websocks(T), NEW v \in Websocks(T), Kept(v, w)
  PROVE  Handed(v) = Handed(w)
<1>1. w.made \in Nat /\ w.made <= MaxConnections /\ w.wire \in Wires(T) /\ v.made = w.made
  BY Fields, Numbers DEF Kept
<1>2. ASSUME NEW c \in 1..w.made PROVE FlattenSeq(v.wire[c]) = FlattenSeq(w.wire[c])
  <2>1. c \in Connections
    BY <1>1, ConnectionsAssumption DEF Connections
  <2>2. w.wire[c] \in Seq(Seq(T \cup {Zeros})) /\ << >> \in Seq(T \cup {Zeros})
    BY <1>1, <2>1 DEF Wires
  <2>3. FlattenSeq(Append(w.wire[c], << >>)) = FlattenSeq(w.wire[c]) \o << >>
    BY <2>2, FlattenOneMore
  <2>4. FlattenSeq(w.wire[c]) \in Seq(T \cup {Zeros})
    BY <2>2, FlattenType
  <2>5. FlattenSeq(w.wire[c]) \o << >> = FlattenSeq(w.wire[c])
    BY <2>4
  <2>. QED BY <2>1, <2>3, <2>5 DEF Kept
<1>3. Pieces(v) = Pieces(w)
  BY <1>1, <1>2 DEF Pieces
<1>. QED BY <1>3 DEF Handed

\* A new WebSocket has been given nothing.
LEMMA OpeningHandsNothing ==
  ASSUME NEW T, NEW w \in Websocks(T), NEW v \in Websocks(T), OneIsLive(w),
         v.made = w.made + 1, v.made \in Connections, v.wire = w.wire
  PROVE  Handed(v) = Handed(w)
<1>1. w.made \in Nat /\ w.made <= MaxConnections /\ w.wire \in Wires(T)
  BY Fields, Numbers
<1>2. w.wire[v.made] = << >>
  BY <1>1 DEF OneIsLive
<1>3. FlattenSeq(w.wire[v.made]) = << >>
  <2>1. << >> \in Seq(T) /\ Len(<< >>) = 0
    OBVIOUS
  <2>. QED BY <1>2, <2>1, FlattenNothing
<1>4. /\ Pieces(w) \in Seq(Seq(T \cup {Zeros})) /\ Len(Pieces(w)) = w.made
      /\ Handed(w) \in Seq(T \cup {Zeros}) /\ << >> \in Seq(T \cup {Zeros})
  BY HandedType
<1>5. Pieces(v) = Append(Pieces(w), << >>)
  <2>1. ASSUME NEW i \in 1..v.made PROVE Pieces(v)[i] = Append(Pieces(w), << >>)[i]
    <3>1. CASE i = v.made
      <4>1. Append(Pieces(w), << >>)[i] = << >>
        BY <1>1, <1>4, <3>1
      <4>2. Pieces(v)[i] = << >>
        BY <1>3, <3>1 DEF Pieces
      <4>. QED BY <4>1, <4>2
    <3>2. CASE i # v.made
      <4>1. i \in 1..w.made
        BY <1>1, <3>2
      <4>2. Append(Pieces(w), << >>)[i] = Pieces(w)[i]
        BY <1>4, <4>1
      <4>3. Pieces(w)[i] = FlattenSeq(w.wire[i]) /\ Pieces(v)[i] = FlattenSeq(w.wire[i])
        BY <4>1 DEF Pieces
      <4>. QED BY <4>2, <4>3
    <3>. QED BY <3>1, <3>2
  <2>2. Pieces(v) \in Seq(Seq(T \cup {Zeros})) /\ Len(Pieces(v)) = v.made
    BY HandedType
  <2>3. Append(Pieces(w), << >>) \in Seq(Seq(T \cup {Zeros}))
        /\ Len(Append(Pieces(w), << >>)) = v.made
    BY <1>1, <1>4
  <2>. QED BY <2>1, <2>2, <2>3, SameElements
<1>6. Handed(v) = Handed(w) \o << >>
  BY <1>4, <1>5, FlattenOneMore DEF Handed
<1>. QED BY <1>4, <1>6

\* What the latest WebSocket is given comes after all that was given before.
LEMMA SendingHandsOver ==
  ASSUME NEW T, NEW w \in Websocks(T), NEW v \in Websocks(T), NEW bytes \in Seq(T \cup {Zeros}),
         w.made # NoConnection, v.made = w.made,
         v.wire = Given(w.wire, w.made, bytes)
  PROVE  Handed(v) = Handed(w) \o bytes
<1>1. PICK n \in Nat : n = w.made
  BY Fields, Numbers
<1>2. n \in Connections /\ n # 0 /\ w.wire \in Wires(T)
  BY <1>1, Fields DEF NoConnection
<1>3. PICK last \in Seq(T \cup {Zeros}) : last = FlattenSeq(w.wire[n])
  <2>1. w.wire[n] \in Seq(Seq(T \cup {Zeros}))
    BY <1>2 DEF Wires
  <2>. QED BY <2>1, FlattenType
<1>4. FlattenSeq(v.wire[n]) = last \o bytes
  <2>1. v.wire[n] = Append(w.wire[n], bytes)
    BY <1>1, <1>2 DEF Wires, Given
  <2>2. w.wire[n] \in Seq(Seq(T \cup {Zeros}))
    BY <1>2 DEF Wires
  <2>. QED BY <1>3, <2>1, <2>2, FlattenOneMore
<1>5. ASSUME NEW c \in 1..n, c # n PROVE v.wire[c] = w.wire[c]
  BY <1>1, <1>2, <1>5 DEF Wires, Given
<1>6. /\ Pieces(w) \in Seq(Seq(T \cup {Zeros})) /\ Len(Pieces(w)) = n
      /\ Pieces(v) \in Seq(Seq(T \cup {Zeros})) /\ Len(Pieces(v)) = n
  BY <1>1, HandedType
<1>7. PICK front \in Seq(Seq(T \cup {Zeros})) :
        Len(front) = n - 1 /\ \A i \in 1..(n - 1) : front[i] = Pieces(w)[i]
  <2>. DEFINE front == SubSeq(Pieces(w), 1, n - 1)
  <2>1. n - 1 \in Nat /\ n - 1 <= n
    BY <1>2
  <2>2. front \in Seq(Seq(T \cup {Zeros})) /\ Len(front) = n - 1
        /\ \A i \in 1..(n - 1) : front[i] = Pieces(w)[i]
    BY <1>6, <2>1
  <2>. QED BY <2>2
<1>8. Pieces(w) = Append(front, last)
  <2>1. Pieces(w)[n] = last
    BY <1>1, <1>2, <1>3 DEF Pieces
  <2>2. Append(front, last) \in Seq(Seq(T \cup {Zeros})) /\ Len(Append(front, last)) = n
        /\ Append(front, last)[n] = last
    BY <1>2, <1>3, <1>7
  <2>3. \A i \in 1..(n - 1) : Append(front, last)[i] = Pieces(w)[i]
    BY <1>2, <1>3, <1>7
  <2>4. \A i \in 1..n : i \in 1..(n - 1) \/ i = n
    BY <1>2
  <2>. QED BY <1>6, <2>1, <2>2, <2>3, <2>4, SameElements
<1>9. last \o bytes \in Seq(T \cup {Zeros})
  BY <1>3
<1>10. Pieces(v) = Append(front, last \o bytes)
  <2>1. ASSUME NEW i \in 1..n PROVE Pieces(v)[i] = Append(front, last \o bytes)[i]
    <3>1. Pieces(v)[i] = FlattenSeq(v.wire[i]) /\ Pieces(w)[i] = FlattenSeq(w.wire[i])
      BY <1>1 DEF Pieces
    <3>2. CASE i = n
      <4>1. Append(front, last \o bytes)[i] = last \o bytes
        BY <1>2, <1>6, <1>7, <1>9, <3>2
      <4>. QED BY <1>4, <3>1, <3>2, <4>1
    <3>3. CASE i # n
      <4>1. Append(front, last \o bytes)[i] = Pieces(w)[i]
        BY <1>2, <1>6, <1>7, <1>9, <3>3
      <4>. QED BY <1>5, <3>1, <3>3, <4>1
    <3>. QED BY <3>2, <3>3
  <2>2. Append(front, last \o bytes) \in Seq(Seq(T \cup {Zeros}))
        /\ Len(Append(front, last \o bytes)) = n
    BY <1>2, <1>6, <1>7, <1>9
  <2>. QED BY <1>6, <2>1, <2>2
<1>11. Handed(w) = FlattenSeq(front) \o last
  BY <1>3, <1>7, <1>8, FlattenOneMore DEF Handed
<1>12. Handed(v) = FlattenSeq(front) \o (last \o bytes)
  <2>. DEFINE more == last \o bytes
  <2>1. FlattenSeq(Append(front, more)) = FlattenSeq(front) \o more
    <3>1. more \in Seq(T \cup {Zeros})
      BY <1>9
    <3>. HIDE DEF more
    <3>. QED BY <3>1, FlattenOneMore
  <2>. QED BY <1>10, <2>1 DEF Handed
<1>13. FlattenSeq(front) \in Seq(T \cup {Zeros})
  BY <1>7, FlattenType
<1>. QED BY <1>3, <1>11, <1>12, <1>13

(***************************************************************************)
(* The screen.                                                             *)
(***************************************************************************)
Texts(C) == [Rows -> [Columns -> C]]

\* A screen on which the cursor is in row r; it may be in the row below the last.
ScreensAt(C, r) ==
  [row : r, col : 0..Width, text : Texts(C), esc : 0..6, parms : Seq(Nat)]

Screens(C) == ScreensAt(C, 0..Height)

\* Rows and columns there are.
LEMMA ScreenNumbers ==
  /\ Height \in Nat /\ Height >= 1 /\ Width \in Nat /\ Width >= 1
  /\ TabSize \in Nat /\ TabSize >= 1 /\ TabSize <= Width
  /\ MaxParms \in Nat /\ MaxParms >= 1
  BY ScreenAssumption

\* Scrolling moves rows up and puts blank ones below.
LEMMA ScrollKeeps ==
  ASSUME NEW C, Blank \in C, NEW r, NEW v \in ScreensAt(C, r), NEW n \in Nat
  PROVE  /\ Scroll(v, n) \in ScreensAt(C, r)
         /\ Scroll(v, n).row = v.row /\ Scroll(v, n).col = v.col
         /\ Scroll(v, n).esc = v.esc /\ Scroll(v, n).parms = v.parms
         /\ \A i \in Rows : Scroll(v, n).text[i] = IF i + n < Height THEN v.text[i + n] ELSE BlankRow
<1>1. PICK text : text = [i \in Rows |-> IF i + n < Height THEN v.text[i + n] ELSE BlankRow]
  OBVIOUS
<1>2. text \in Texts(C)
  <2>1. BlankRow \in [Columns -> C]
    BY DEF BlankRow
  <2>2. ASSUME NEW i \in Rows, i + n < Height PROVE v.text[i + n] \in [Columns -> C]
    <3>1. i + n \in Rows
      BY <2>2, ScreenNumbers DEF Rows
    <3>. QED BY <3>1 DEF ScreensAt, Texts
  <2>. QED BY <1>1, <2>1, <2>2 DEF Texts
<1>3. PICK w : w = [v EXCEPT !.text = text]
  OBVIOUS
<1>4. Scroll(v, n) = w
  BY <1>1, <1>3 DEF Scroll
<1>5. w \in ScreensAt(C, r)
  BY <1>2, <1>3 DEF ScreensAt
<1>6. w.text = text /\ w.row = v.row /\ w.col = v.col /\ w.esc = v.esc /\ w.parms = v.parms
  BY <1>3 DEF ScreensAt
<1>. QED BY <1>1, <1>4, <1>5, <1>6

\* A cursor below the last row comes back into it, and the rows scroll up as far.
LEMMA MayScrollKeeps ==
  ASSUME NEW C, Blank \in C, NEW v \in ScreensAt(C, 0..(Height + 1)), NEW w, w = MayScroll(v)
  PROVE  /\ w \in ScreensAt(C, Rows)
         /\ w.col = v.col /\ w.esc = v.esc /\ w.parms = v.parms
         /\ w.row = IF v.row < Height THEN v.row ELSE Height - 1
         /\ \A i \in Rows : w.text[i] = IF i + (v.row - w.row) < Height
                                        THEN v.text[i + (v.row - w.row)] ELSE BlankRow
<1>1. v.row \in 0..(Height + 1)
  BY DEF ScreensAt
<1>2. CASE v.row < Height
  <2>1. w = v
    BY <1>2 DEF MayScroll
  <2>2. v.row \in Rows
    BY <1>1, <1>2, ScreenNumbers DEF Rows
  <2>3. v \in ScreensAt(C, Rows)
    BY <2>2 DEF ScreensAt
  <2>4. \A i \in Rows : i + 0 < Height /\ i + 0 = i
    BY ScreenNumbers DEF Rows
  <2>. QED BY <1>1, <1>2, <2>1, <2>3, <2>4
<1>3. CASE ~(v.row < Height)
  <2>1. PICK n \in Nat : n = v.row - Height + 1
    BY <1>1, <1>3, ScreenNumbers
  <2>2. PICK u : u = Scroll(v, n)
    OBVIOUS
  <2>3. /\ u \in ScreensAt(C, 0..(Height + 1))
        /\ u.col = v.col /\ u.esc = v.esc /\ u.parms = v.parms
        /\ \A i \in Rows : u.text[i] = IF i + n < Height THEN v.text[i + n] ELSE BlankRow
    BY <2>2, ScrollKeeps
  <2>4. w = [u EXCEPT !.row = Height - 1]
    BY <1>3, <2>1, <2>2 DEF MayScroll
  <2>5. Height - 1 \in Rows /\ v.row - (Height - 1) = n
    BY <1>1, <2>1, ScreenNumbers DEF Rows
  <2>6. w \in ScreensAt(C, Rows)
    BY <2>3, <2>4, <2>5 DEF ScreensAt
  <2>7. /\ w.row = Height - 1 /\ w.text = u.text
        /\ w.col = u.col /\ w.esc = u.esc /\ w.parms = u.parms
    BY <2>3, <2>4 DEF ScreensAt
  <2>. QED BY <1>3, <2>3, <2>5, <2>6, <2>7
<1>. QED BY <1>2, <1>3

\* clrtoeol blanks the rest of a row.
LEMMA ClrToEolKeeps ==
  ASSUME NEW C, Blank \in C, NEW v \in ScreensAt(C, 0..(Height + 1)),
         NEW w, w = ClrToEol(v)
  PROVE  /\ w \in ScreensAt(C, 0..(Height + 1))
         /\ w.row = v.row /\ w.col = v.col /\ w.esc = v.esc /\ w.parms = v.parms
         /\ \A i \in Rows : i # v.row => w.text[i] = v.text[i]
         /\ v.row \in Rows =>
              \A c \in Columns : w.text[v.row][c] = IF c < v.col THEN v.text[v.row][c] ELSE Blank
<1>1. v.row \in 0..(Height + 1) /\ v.text \in Texts(C)
  BY DEF ScreensAt
<1>2. CASE v.row >= Height
  <2>1. w = v /\ v.row \notin Rows
    BY <1>1, <1>2, ScreenNumbers DEF ClrToEol, Rows
  <2>. QED BY <2>1
<1>3. CASE ~(v.row >= Height)
  <2>1. v.row \in Rows
    BY <1>1, <1>3, ScreenNumbers DEF Rows
  <2>2. PICK line : line = [c \in Columns |-> IF c < v.col THEN v.text[v.row][c] ELSE Blank]
    OBVIOUS
  <2>3. line \in [Columns -> C]
    BY <1>1, <2>1, <2>2 DEF Texts
  <2>4. PICK text : text = [v.text EXCEPT ![v.row] = line]
    OBVIOUS
  <2>5. text \in Texts(C)
    BY <1>1, <2>3, <2>4 DEF Texts
  <2>6. w = [v EXCEPT !.text = text]
    BY <1>3, <2>2, <2>4 DEF ClrToEol
  <2>7. w \in ScreensAt(C, 0..(Height + 1))
    BY <2>5, <2>6 DEF ScreensAt
  <2>8. w.row = v.row /\ w.col = v.col /\ w.esc = v.esc /\ w.parms = v.parms /\ w.text = text
    BY <2>6 DEF ScreensAt
  <2>9. text[v.row] = line /\ \A i \in Rows : i # v.row => text[i] = v.text[i]
    BY <1>1, <2>1, <2>4 DEF Texts
  <2>. QED BY <2>2, <2>7, <2>8, <2>9
<1>. QED BY <1>2, <1>3

\* Behind the last column there is room in the next row.
Room(v) == IF v.col >= Width THEN [v EXCEPT !.row = @ + 1, !.col = 0] ELSE v

\* A character is put down where the cursor is, in the next row if this one is full.
LEMMA PutDownKeeps ==
  ASSUME NEW C, Blank \in C, NEW v \in Screens(C), NEW ch \in C, NEW u, NEW w,
         u = MayScroll(Room(v)),
         w = PutDown(v, ch)
  PROVE  /\ w \in ScreensAt(C, Rows)
         /\ w.esc = v.esc /\ w.parms = v.parms
         /\ u \in ScreensAt(C, Rows) /\ u.col \in Columns
         /\ u.col = IF v.col >= Width THEN 0 ELSE v.col
         /\ w.row = u.row /\ w.col = u.col + 1
         /\ \A i \in Rows, c \in Columns :
              w.text[i][c] = IF i = u.row /\ c = u.col THEN ch ELSE u.text[i][c]
<1>1. PICK t : t = Room(v)
  OBVIOUS
<1>2. /\ t \in ScreensAt(C, 0..(Height + 1)) /\ t.esc = v.esc /\ t.parms = v.parms
      /\ t.col = IF v.col >= Width THEN 0 ELSE v.col
  <2>1. CASE v.col >= Width
    <3>1. v.row + 1 \in 0..(Height + 1) /\ 0 \in 0..Width
      BY ScreenNumbers DEF Screens, ScreensAt
    <3>2. t = [v EXCEPT !.row = v.row + 1, !.col = 0]
      BY <1>1, <2>1 DEF Room
    <3>. QED BY <2>1, <3>1, <3>2 DEF Screens, ScreensAt
  <2>2. CASE ~(v.col >= Width)
    <3>1. v.row \in 0..(Height + 1)
      BY ScreenNumbers DEF Screens, ScreensAt
    <3>. QED BY <1>1, <2>2, <3>1 DEF Screens, ScreensAt, Room
  <2>. QED BY <2>1, <2>2
<1>3. u = MayScroll(t)
  BY <1>1
<1>4. u \in ScreensAt(C, Rows) /\ u.col = t.col /\ u.esc = v.esc /\ u.parms = v.parms
  BY <1>2, <1>3, MayScrollKeeps
<1>5. u.col \in Columns
  <2>1. v.col \in 0..Width
    BY DEF Screens, ScreensAt
  <2>. QED BY <1>2, <1>4, <2>1, ScreenNumbers DEF Columns
<1>6. u.row \in Rows /\ u.text \in Texts(C) /\ u.col \in 0..Width
  BY <1>4 DEF ScreensAt
<1>7. PICK text : text = [u.text EXCEPT ![u.row] = [u.text[u.row] EXCEPT ![u.col] = ch]]
  OBVIOUS
<1>8. text \in Texts(C)
  BY <1>6, <1>7 DEF Texts
<1>9. w = [u EXCEPT !.text = text, !.col = u.col + 1]
  BY <1>1, <1>3, <1>7 DEF PutDown, Room
<1>10. u.col + 1 \in 0..Width
  BY <1>5, ScreenNumbers DEF Columns
<1>11. w \in ScreensAt(C, Rows)
  BY <1>4, <1>8, <1>9, <1>10 DEF ScreensAt
<1>12. w.row = u.row /\ w.col = u.col + 1 /\ w.text = text /\ w.esc = u.esc /\ w.parms = u.parms
  BY <1>4, <1>9 DEF ScreensAt
<1>13. \A i \in Rows, c \in Columns :
         text[i][c] = IF i = u.row /\ c = u.col THEN ch ELSE u.text[i][c]
  BY <1>5, <1>6, <1>7 DEF Texts
<1>. QED BY <1>2, <1>4, <1>5, <1>11, <1>12, <1>13

\* A tab goes to the next stop, which may be in the row below the last.
LEMMA TabKeeps ==
  ASSUME NEW C, Blank \in C, NEW v \in Screens(C), NEW w, w = Tab(v)
  PROVE  w \in Screens(C) /\ w.esc = v.esc /\ w.parms = v.parms
<1>1. PICK u : u = MayScroll(v)
  OBVIOUS
<1>2. v \in ScreensAt(C, 0..(Height + 1))
  BY ScreenNumbers DEF Screens, ScreensAt
<1>3. u \in ScreensAt(C, Rows) /\ u.esc = v.esc /\ u.parms = v.parms
  BY <1>1, <1>2, MayScrollKeeps
<1>4. u.row \in Rows /\ u.col \in 0..Width
  BY <1>3 DEF ScreensAt
<1>5. u.col % TabSize \in 0..(TabSize - 1)
  BY <1>4, ScreenNumbers
<1>6. PICK next : next = u.col + TabSize - (u.col % TabSize)
  OBVIOUS
<1>7. next \in Nat /\ next <= Width + TabSize
  BY <1>4, <1>5, <1>6, ScreenNumbers
<1>8. CASE next >= Width
  <2>1. w = [u EXCEPT !.row = u.row + 1, !.col = next - Width]
    BY <1>1, <1>6, <1>8 DEF Tab
  <2>2. u.row + 1 \in 0..Height /\ next - Width \in 0..Width
    BY <1>4, <1>7, <1>8, ScreenNumbers DEF Rows
  <2>. QED BY <1>3, <2>1, <2>2 DEF Screens, ScreensAt
<1>9. CASE ~(next >= Width)
  <2>1. w = [u EXCEPT !.col = next]
    BY <1>1, <1>6, <1>9 DEF Tab
  <2>2. u.row \in 0..Height /\ next \in 0..Width
    BY <1>4, <1>7, <1>9, ScreenNumbers DEF Rows
  <2>. QED BY <1>3, <2>1, <2>2 DEF Screens, ScreensAt
<1>. QED BY <1>8, <1>9

\* A character that addch is given leaves a screen.
LEMMA AddChKeeps ==
  ASSUME NEW C, Blank \in C, NEW v \in Screens(C), NEW ch \in C, NEW w, w = AddCh(v, ch)
  PROVE  w \in Screens(C) /\ w.esc = v.esc /\ w.parms = v.parms
<1>1. v.row \in 0..Height /\ v.col \in 0..Width
  BY DEF Screens, ScreensAt
<1>2. v \in ScreensAt(C, 0..(Height + 1))
  BY ScreenNumbers DEF Screens, ScreensAt
<1>3. ASSUME NEW u \in ScreensAt(C, Rows) PROVE u \in Screens(C)
  BY ScreenNumbers DEF Screens, ScreensAt, Rows
<1>4. 0 \in 0..Width
  BY ScreenNumbers
<1>5. CASE ch = "BS"
  <2>1. PICK col \in 0..Width : w = [v EXCEPT !.col = col]
    <3>1. (IF v.col # 0 THEN v.col - 1 ELSE 0) \in 0..Width
      BY <1>1, ScreenNumbers
    <3>. QED BY <1>5, <3>1 DEF AddCh
  <2>. QED BY <2>1 DEF Screens, ScreensAt
<1>6. CASE ch = "LF"
  <2>1. PICK t : t = [v EXCEPT !.row = v.row + 1]
    OBVIOUS
  <2>2. t \in ScreensAt(C, 0..(Height + 1)) /\ t.esc = v.esc /\ t.parms = v.parms
    <3>1. v.row + 1 \in 0..(Height + 1)
      BY <1>1, ScreenNumbers
    <3>. QED BY <2>1, <3>1 DEF Screens, ScreensAt
  <2>3. PICK u : u = ClrToEol(t)
    OBVIOUS
  <2>4. u \in ScreensAt(C, 0..(Height + 1)) /\ u.esc = v.esc /\ u.parms = v.parms
    BY <2>2, <2>3, ClrToEolKeeps
  <2>5. PICK x : x = MayScroll(u)
    OBVIOUS
  <2>6. x \in ScreensAt(C, Rows) /\ x.esc = v.esc /\ x.parms = v.parms
    BY <2>4, <2>5, MayScrollKeeps
  <2>7. w = [x EXCEPT !.col = 0]
    BY <1>6, <2>1, <2>3, <2>5 DEF AddCh
  <2>8. x \in Screens(C)
    BY <1>3, <2>6
  <2>. QED BY <1>4, <2>6, <2>7, <2>8 DEF Screens, ScreensAt
<1>7. CASE ch = "CR"
  <2>1. PICK x : x = MayScroll(v)
    OBVIOUS
  <2>2. x \in ScreensAt(C, Rows) /\ x.esc = v.esc /\ x.parms = v.parms
    BY <1>2, <2>1, MayScrollKeeps
  <2>3. w = [x EXCEPT !.col = 0]
    BY <1>7, <2>1 DEF AddCh
  <2>4. x \in Screens(C)
    BY <1>3, <2>2
  <2>. QED BY <1>4, <2>2, <2>3, <2>4 DEF Screens, ScreensAt
<1>8. CASE ch = "HT"
  <2>1. w = Tab(v)
    BY <1>8 DEF AddCh
  <2>. QED BY <2>1, TabKeeps
<1>9. CASE ch \notin {"BS", "LF", "CR", "HT"}
  <2>1. w = PutDown(v, ch)
    BY <1>9 DEF AddCh
  <2>2. PICK u : u = MayScroll(Room(v))
    OBVIOUS
  <2>3. w \in ScreensAt(C, Rows) /\ w.esc = v.esc /\ w.parms = v.parms
    BY <2>1, <2>2, PutDownKeeps
  <2>. QED BY <1>3, <2>3
<1>. QED BY <1>5, <1>6, <1>7, <1>8, <1>9

(***************************************************************************)
(* The telnet page.                                                        *)
(***************************************************************************)
Tokens == Keys \cup {"data"}

Cells == Keys \cup Printed \cup Controls \cup InSequence \cup {Blank}

InOrder(out, keys) ==
  Len(out) = Len(keys) /\ \A i \in 1..Len(keys) : out[i] \in {keys[i], Zeros}

Out(w, waiting) == Handed(w) \o w.sQ \o waiting

\* Queues that lose their contents keep their lengths.
LEMMA ZeroedInOrder ==
  ASSUME NEW S, NEW h \in Seq(S), NEW q \in Seq(S), NEW z \in Seq(S), NEW b \in Seq(S),
         NEW keys, InOrder(h \o q \o b, keys),
         Len(z) = Len(q), \A i \in 1..Len(q) : z[i] = Zeros
  PROVE  InOrder(h \o z \o b, keys)
<1>1. Len(h \o q \o b) = Len(h \o z \o b)
  OBVIOUS
<1>2. ASSUME NEW i \in 1..Len(h \o z \o b)
      PROVE  (h \o z \o b)[i] \in {(h \o q \o b)[i], Zeros}
  OBVIOUS
<1>. QED BY <1>1, <1>2 DEF InOrder

\* A key is added to those that wait.
LEMMA LongerInOrder ==
  ASSUME NEW S, NEW a \in Seq(S), NEW b \in Seq(S), NEW key \in S,
         NEW K, NEW keys \in Seq(K), InOrder(a \o b, keys)
  PROVE  InOrder(a \o Append(b, key), Append(keys, key))
<1>1. PICK all \in Seq(S) : all = a \o b
  <2>1. a \o b \in Seq(S)
    OBVIOUS
  <2>. QED BY <2>1
<1>2. a \o Append(b, key) = Append(all, key)
  BY <1>1
<1>3. Len(all) = Len(keys) /\ \A i \in 1..Len(keys) : all[i] \in {keys[i], Zeros}
  BY <1>1 DEF InOrder
<1>4. Len(Append(all, key)) = Len(Append(keys, key))
  BY <1>3
<1>5. ASSUME NEW i \in 1..Len(Append(keys, key))
      PROVE  Append(all, key)[i] \in {Append(keys, key)[i], Zeros}
  <2>1. CASE i = Len(keys) + 1
    <3>1. Append(keys, key)[i] = key
      BY <2>1
    <3>2. Append(all, key)[i] = key
      BY <1>3, <2>1
    <3>. QED BY <3>1, <3>2
  <2>2. CASE i # Len(keys) + 1
    <3>1. i \in 1..Len(keys)
      BY <2>2
    <3>2. Append(keys, key)[i] = keys[i] /\ Append(all, key)[i] = all[i]
      BY <1>3, <3>1
    <3>. QED BY <1>3, <3>1, <3>2
  <2>. QED BY <2>1, <2>2
<1>. QED BY <1>2, <1>4, <1>5 DEF InOrder

\* It does not matter in which order the pieces of a sequence are put together.
LEMMA Associates ==
  ASSUME NEW S, NEW a \in Seq(S), NEW b \in Seq(S), NEW c \in Seq(S)
  PROVE  a \o (b \o c) = (a \o b) \o c
  OBVIOUS

\* The WebSocket made last is the current one, and there is one while the keys are
\* grabbed.
TelnetInv ==
  /\ sock \in Websocks(Tokens) /\ OneIsLive(sock) /\ sock.current = sock.made
  /\ connectButton \in {"connect", "nothing", "disconnect"}
  /\ connectButton = "disconnect" => sock.current # NoConnection
  /\ typed \in Seq(Keys) /\ Len(typed) <= MaxKeys
  /\ vt \in Screens(Cells) /\ Len(vt.parms) \in 1..MaxParms
  /\ grabbed \in BOOLEAN /\ (grabbed => connectButton = "disconnect")
  /\ keyBuf \in Seq(Keys) /\ timers \in Nat
  /\ InOrder(Out(sock, keyBuf), typed)

\* The invariant of the telnet page has its types in it.
LEMMA TelnetTypes ==
  ASSUME TelnetInv PROVE TelnetTypeOK
<1>1. vt.row \in 0..Height /\ vt.col \in 0..Width
  BY DEF TelnetInv, Screens, ScreensAt
<1>2. DOMAIN vt.text = Rows /\ \A r \in Rows : DOMAIN vt.text[r] = Columns
  BY DEF TelnetInv, Screens, ScreensAt, Texts
<1>3. vt.esc \in 0..6 /\ vt.parms \in Seq(Nat)
  BY DEF TelnetInv, Screens, ScreensAt
<1>. QED BY <1>1, <1>2, <1>3 DEF TelnetInv, TelnetTypeOK, VTTypeOK, Tokens

\* A page that disconnects keeps the keys that wait.
LEMMA DisconnectKeeps ==
  ASSUME TelnetInv, NEW w \in Websocks(Tokens), OneIsLive(w),
         w.current = sock.current, w.made = sock.made, w.sQ = sock.sQ,
         Handed(w) = Handed(sock),
         TelnetDisconnected(w)
  PROVE  TelnetInv'
<1>1. sock' = CloseSocket(w) /\ grabbed' = FALSE /\ connectButton' = "connect"
      /\ typed' = typed /\ vt' = vt /\ keyBuf' = keyBuf /\ timers' = timers
  BY DEF TelnetDisconnected
<1>2. sock' \in Websocks(Tokens) /\ OneIsLive(sock') /\ Kept(sock', w)
  BY <1>1, CloseKeeps
<1>3. Handed(sock') = Handed(sock)
  BY <1>2, ClosingHandsNothing
<1>4. sock'.current = sock.current /\ sock'.made = sock.made /\ sock'.sQ = sock.sQ
  BY <1>2 DEF Kept
<1>5. Out(sock', keyBuf') = Out(sock, keyBuf)
  BY <1>1, <1>3, <1>4 DEF Out
<1>. QED BY <1>1, <1>2, <1>4, <1>5 DEF TelnetInv

\* What a change of a WebSocket's state leaves the page with.
LEMMA SetHands ==
  ASSUME TelnetInv, NEW c \in Connections, sock.ready[c] # "none",
         NEW state \in ReadyStates,
         state \in {"connecting", "open"} => c = sock.current,
         NEW v \in {Becomes(sock, c, state), Parts(sock, c, state)}
  PROVE  /\ v \in Websocks(Tokens) /\ OneIsLive(v)
         /\ v.current = sock.current /\ v.made = sock.made /\ v.sQ = sock.sQ
         /\ Handed(v) = Handed(sock)
<1>1. v \in Websocks(Tokens) /\ OneIsLive(v) /\ Kept(v, sock)
  <2>1. sock \in Websocks(Tokens) /\ OneIsLive(sock)
    BY DEF TelnetInv
  <2>. QED BY <2>1, SetKeeps
<1>2. Handed(v) = Handed(sock)
  BY <1>1, ClosingHandsNothing DEF TelnetInv
<1>. QED BY <1>1, <1>2 DEF Kept

\* Every step of the telnet page keeps its invariant.
LEMMA TelnetStep ==
  ASSUME TelnetInv, TelnetNext PROVE TelnetInv'
<1>1. CASE TelnetConnect
  <2>1. /\ sock.made < MaxConnections /\ sock' = OpenSocket(CloseSocket(sock))
        /\ connectButton = "connect" /\ connectButton' = "nothing"
        /\ typed' = typed /\ vt' = vt /\ grabbed' = grabbed /\ keyBuf' = keyBuf /\ timers' = timers
    BY <1>1 DEF TelnetConnect, vtVars
  <2>2. PICK u : u = CloseSocket(sock)
    OBVIOUS
  <2>3. u \in Websocks(Tokens) /\ OneIsLive(u) /\ NoneIsLive(u) /\ Kept(u, sock)
    BY <2>2, CloseKeeps DEF TelnetInv
  <2>4. u.made < MaxConnections
    BY <2>1, <2>3 DEF Kept
  <2>5. /\ sock' \in Websocks(Tokens) /\ OneIsLive(sock')
        /\ sock'.current = u.made + 1 /\ sock'.made = u.made + 1 /\ sock'.made \in Connections
        /\ sock'.wire = u.wire /\ sock'.sQ = AllZeros(u.sQ)
    BY <2>1, <2>2, <2>3, <2>4, OpenKeeps
  <2>6. Handed(sock') = Handed(sock)
    <3>1. Handed(sock') = Handed(u)
      BY <2>3, <2>5, OpeningHandsNothing
    <3>2. Handed(u) = Handed(sock)
      BY <2>3, ClosingHandsNothing DEF TelnetInv
    <3>. QED BY <3>1, <3>2
  <2>7. InOrder(Out(sock', keyBuf'), typed')
    <3>. DEFINE T == Tokens \cup {Zeros}
    <3>1. PICK h \in Seq(T) : h = Handed(sock)
      BY HandedType DEF TelnetInv
    <3>2. PICK q \in Seq(T) : q = sock.sQ
      BY Fields DEF TelnetInv
    <3>3. PICK z : z = AllZeros(q)
      OBVIOUS
    <3>4. z \in Seq(T) /\ Len(z) = Len(q) /\ \A i \in 1..Len(q) : z[i] = Zeros
      BY <3>3 DEF AllZeros
    <3>5. keyBuf \in Seq(T) /\ typed \in Seq(Keys)
      BY DEF TelnetInv, Tokens
    <3>6. InOrder(h \o q \o keyBuf, typed)
      BY <3>1, <3>2 DEF TelnetInv, Out
    <3>7. InOrder(h \o z \o keyBuf, typed)
      <4>. HIDE DEF T
      <4>. QED BY <3>4, <3>5, <3>6, ZeroedInOrder
    <3>8. Out(sock', keyBuf') = h \o z \o keyBuf
      <4>1. u.sQ = q
        BY <2>3, <3>2 DEF Kept
      <4>. QED BY <2>1, <2>5, <2>6, <3>1, <3>3, <4>1 DEF Out
    <3>. QED BY <2>1, <3>7, <3>8
  <2>8. sock'.current # NoConnection
    BY <2>5 DEF Connections, NoConnection
  <2>. QED BY <2>1, <2>5, <2>7, <2>8 DEF TelnetInv
<1>2. CASE Disconnect
  BY <1>2, DisconnectKeeps DEF TelnetInv, Disconnect
<1>3. CASE SendKey
  <2>1. /\ timers > 0 /\ grabbed /\ keyBuf # << >>
        /\ keyBuf' = Tail(keyBuf) /\ vt' = AddCh(vt, Head(keyBuf))
        /\ grabbed' = grabbed /\ timers' = timers
        /\ sock' = SendBytes(sock, <<Head(keyBuf)>>)
        /\ connectButton' = connectButton /\ typed' = typed
    BY <1>3 DEF SendKey, Get
  <2>2. PICK key \in Keys : key = Head(keyBuf)
    BY <2>1 DEF TelnetInv
  <2>3. keyBuf' \in Seq(Keys) /\ keyBuf = <<key>> \o keyBuf'
    BY <2>1, <2>2 DEF TelnetInv
  <2>4. vt' \in Screens(Cells) /\ Len(vt'.parms) \in 1..MaxParms
    <3>1. Blank \in Cells /\ key \in Cells
      BY DEF Cells
    <3>2. vt' \in Screens(Cells) /\ vt'.parms = vt.parms
      BY <2>1, <2>2, <3>1, AddChKeeps DEF TelnetInv
    <3>. QED BY <3>2 DEF TelnetInv
  <2>5. sock.current # NoConnection
    BY <2>1 DEF TelnetInv
  <2>6. PICK bytes \in Seq(Tokens \cup {Zeros}) : bytes = <<key>>
    <3>1. <<key>> \in Seq(Tokens \cup {Zeros})
      BY DEF Tokens
    <3>. QED BY <3>1
  <2>7. /\ sock' \in Websocks(Tokens) /\ OneIsLive(sock')
        /\ sock'.current = sock.current /\ sock'.made = sock.made
        /\ \/ sock'.wire = sock.wire /\ sock'.sQ = sock.sQ \o bytes
           \/ sock'.wire = Given(sock.wire, sock.current, sock.sQ \o bytes) /\ sock'.sQ = << >>
    <3>1. sock \in Websocks(Tokens) /\ OneIsLive(sock) /\ sock' = SendBytes(sock, bytes)
      BY <2>1, <2>2, <2>6 DEF TelnetInv
    <3>. QED BY <2>5, <3>1, SendKeeps
  <2>8. Out(sock', keyBuf') = Out(sock, keyBuf)
    <3>. DEFINE T == Tokens \cup {Zeros}
    <3>1. PICK h \in Seq(T) : h = Handed(sock)
      BY HandedType DEF TelnetInv
    <3>2. PICK q \in Seq(T) : q = sock.sQ
      BY Fields DEF TelnetInv
    <3>3. PICK rest \in Seq(T) : rest = keyBuf'
      BY <2>3 DEF Tokens
    <3>4. Out(sock, keyBuf) = h \o q \o (bytes \o rest)
      BY <2>3, <2>6, <3>1, <3>2, <3>3 DEF Out
    <3>5. h \o q \o (bytes \o rest) = h \o (q \o bytes) \o rest
      <4>1. bytes \in Seq(T) /\ h \o q \in Seq(T)
        OBVIOUS
      <4>. HIDE DEF T
      <4>2. h \o (q \o bytes) = (h \o q) \o bytes
        BY <4>1, Associates
      <4>3. PICK hq \in Seq(T) : hq = h \o q
        BY <4>1
      <4>4. hq \o (bytes \o rest) = (hq \o bytes) \o rest
        BY <4>1, Associates
      <4>. QED BY <4>2, <4>3, <4>4
    <3>6. CASE sock'.wire = sock.wire /\ sock'.sQ = sock.sQ \o bytes
      <4>1. Handed(sock') = h
        BY <2>7, <3>1, <3>6 DEF Handed, Pieces
      <4>2. Out(sock', keyBuf') = h \o (q \o bytes) \o rest
        BY <3>2, <3>3, <3>6, <4>1 DEF Out
      <4>. QED BY <3>4, <3>5, <4>2
    <3>7. CASE sock'.wire = Given(sock.wire, sock.current, sock.sQ \o bytes) /\ sock'.sQ = << >>
      <4>1. PICK sent \in Seq(T) : sent = q \o bytes
        <5>1. q \o bytes \in Seq(T)
          OBVIOUS
        <5>. QED BY <5>1
      <4>2. Handed(sock') = h \o sent
        <5>1. sock'.wire = Given(sock.wire, sock.made, sent)
          BY <3>2, <3>7, <4>1 DEF TelnetInv
        <5>2. sock \in Websocks(Tokens) /\ sock.made # NoConnection
          BY <2>5 DEF TelnetInv
        <5>. QED BY <2>7, <3>1, <5>1, <5>2, SendingHandsOver
      <4>3. Out(sock', keyBuf') = (h \o sent) \o << >> \o rest
        BY <3>3, <3>7, <4>2 DEF Out
      <4>4. (h \o sent) \o << >> = h \o sent
        <5>1. h \o sent \in Seq(T)
          OBVIOUS
        <5>. QED BY <5>1
      <4>. QED BY <3>4, <3>5, <4>1, <4>3, <4>4
    <3>. QED BY <2>7, <3>6, <3>7
  <2>. QED BY <2>1, <2>3, <2>4, <2>7, <2>8 DEF TelnetInv
<1>4. CASE TimerForNothing
  <2>1. /\ timers > 0 /\ timers' = timers - 1
        /\ UNCHANGED <<vt, grabbed, keyBuf, sock, connectButton, typed>>
    BY <1>4 DEF TimerForNothing, NothingToGet
  <2>2. timers' \in Nat
    BY <2>1 DEF TelnetInv
  <2>. QED BY <2>1, <2>2 DEF TelnetInv
<1>5. ASSUME NEW key \in Keys, PressKey(key) PROVE TelnetInv'
  <2>1. /\ Len(typed) < MaxKeys /\ typed' = Append(typed, key)
        /\ keyBuf' = Append(keyBuf, key) /\ timers' = timers + 1
        /\ UNCHANGED <<sock, connectButton, vt, grabbed>>
    BY <1>5 DEF PressKey, KeyPressed
  <2>2. /\ typed' \in Seq(Keys) /\ Len(typed') <= MaxKeys
        /\ keyBuf' \in Seq(Keys) /\ timers' \in Nat
    <3>1. typed \in Seq(Keys) /\ keyBuf \in Seq(Keys) /\ timers \in Nat
      BY DEF TelnetInv
    <3>. QED BY <2>1, <3>1, MaxKeysAssumption
  <2>3. InOrder(Out(sock', keyBuf'), typed')
    <3>. DEFINE T == Tokens \cup {Zeros}
    <3>1. PICK before \in Seq(T) : before = Handed(sock) \o sock.sQ
      <4>1. Handed(sock) \in Seq(T) /\ sock.sQ \in Seq(T)
        BY HandedType, Fields DEF TelnetInv
      <4>2. Handed(sock) \o sock.sQ \in Seq(T)
        BY <4>1
      <4>. QED BY <4>2
    <3>2. keyBuf \in Seq(T) /\ key \in T /\ typed \in Seq(Keys)
      BY DEF TelnetInv, Tokens
    <3>3. InOrder(before \o keyBuf, typed)
      BY <3>1 DEF TelnetInv, Out
    <3>4. InOrder(before \o Append(keyBuf, key), Append(typed, key))
      <4>. HIDE DEF T
      <4>. QED BY <3>2, <3>3, LongerInOrder
    <3>. QED BY <2>1, <3>1, <3>4 DEF Out
  <2>. QED BY <2>1, <2>2, <2>3 DEF TelnetInv
<1>6. ASSUME NEW c \in Connections,
             \/ TelnetOpens(c) \/ TelnetFails(c) \/ PeerCloses(c)
             \/ TelnetCloseEvent(c) \/ TelnetReceive(c)
      PROVE  TelnetInv'
  <2>1. CASE TelnetOpens(c)
    <3>1. /\ sock.ready[c] = "connecting" /\ sock' = Becomes(sock, c, "open")
          /\ grabbed' = TRUE /\ connectButton' = "disconnect"
          /\ UNCHANGED <<typed, vt, keyBuf, timers>>
      BY <2>1 DEF TelnetOpens, Becomes
    <3>2. "open" \in ReadyStates /\ sock.ready[c] # "none" /\ c = sock.current
      BY <3>1 DEF ReadyStates, TelnetInv, OneIsLive
    <3>3. /\ sock' \in Websocks(Tokens) /\ OneIsLive(sock')
          /\ sock'.current = sock.current /\ sock'.made = sock.made /\ sock'.sQ = sock.sQ
          /\ Handed(sock') = Handed(sock)
      BY <3>1, <3>2, SetHands
    <3>4. sock'.current # NoConnection
      BY <3>2, <3>3 DEF Connections, NoConnection
    <3>5. Out(sock', keyBuf') = Out(sock, keyBuf)
      BY <3>1, <3>3 DEF Out
    <3>. QED BY <3>1, <3>3, <3>4, <3>5 DEF TelnetInv
  <2>2. CASE TelnetFails(c) \/ TelnetCloseEvent(c)
    <3>1. sock.ready[c] # "none" /\ TelnetDisconnected(Becomes(sock, c, "closed"))
      BY <2>2 DEF TelnetFails, TelnetCloseEvent, Becomes
    <3>2. PICK state \in ReadyStates : state = "closed"
      BY DEF ReadyStates
    <3>3. PICK w : w = Becomes(sock, c, state)
      OBVIOUS
    <3>4. /\ w \in Websocks(Tokens) /\ OneIsLive(w)
          /\ w.current = sock.current /\ w.made = sock.made /\ w.sQ = sock.sQ
          /\ Handed(w) = Handed(sock)
      BY <3>1, <3>2, <3>3, SetHands
    <3>. QED BY <3>1, <3>2, <3>3, <3>4, DisconnectKeeps
  <2>3. CASE PeerCloses(c)
    <3>1. sock.ready[c] = "open" /\ sock' = Parts(sock, c, "closing")
          /\ UNCHANGED <<connectButton, typed, vt, grabbed, keyBuf, timers>>
      BY <2>3 DEF PeerCloses, Parts, telnetVars, vtVars
    <3>2. "closing" \in ReadyStates /\ sock.ready[c] # "none"
      BY <3>1 DEF ReadyStates
    <3>3. /\ sock' \in Websocks(Tokens) /\ OneIsLive(sock')
          /\ sock'.current = sock.current /\ sock'.made = sock.made /\ sock'.sQ = sock.sQ
          /\ Handed(sock') = Handed(sock)
      BY <3>1, <3>2, SetHands
    <3>4. Out(sock', keyBuf') = Out(sock, keyBuf)
      BY <3>1, <3>3 DEF Out
    <3>. QED BY <3>1, <3>3, <3>4 DEF TelnetInv
  <2>4. CASE TelnetReceive(c)
    <3>1. PICK data \in Seq(Tokens \cup {Zeros}) : data = <<"data">>
      <4>1. <<"data">> \in Seq(Tokens \cup {Zeros})
        BY DEF Tokens
      <4>. QED BY <4>1
    <3>2. PICK w : w = HandlerThrew(sock, data)
      OBVIOUS
    <3>3. /\ w \in Websocks(Tokens) /\ OneIsLive(w)
          /\ w.current = sock.current /\ w.made = sock.made
          /\ w.wire = sock.wire /\ w.sQ = sock.sQ
      BY <3>2, HandlerKeeps DEF TelnetInv
    <3>4. Handed(w) = Handed(sock)
      BY <3>3 DEF Handed, Pieces
    <3>5. TelnetDisconnected(w)
      BY <2>4, <3>1, <3>2 DEF TelnetReceive
    <3>. QED BY <3>3, <3>4, <3>5, DisconnectKeeps
  <2>. QED BY <1>6, <2>1, <2>2, <2>3, <2>4
<1>. QED BY <1>1, <1>2, <1>3, <1>4, <1>5, <1>6 DEF TelnetNext

(***************************************************************************)
(* The Websock of the chat page.                                           *)
(***************************************************************************)
Talk == Requests \cup Replies

\* It sends requests, and what it has not read of its receive queue is zeros.
SockOK(w) ==
  /\ w \in Websocks(Talk) /\ OneIsLive(w)
  /\ w.wire \in Wires(Requests) /\ w.sQ \in Seq(Requests \cup {Zeros})
  /\ \A i \in 1..Len(w.rQ) : i > w.rQi => w.rQ[i] = Zeros

\* The closing handshake is no reply.
LEMMA SockCloses ==
  ASSUME NEW w, SockOK(w), NEW v \in Websocks(Talk), OneIsLive(v), Kept(v, w)
  PROVE  SockOK(v)
<1>1. w.wire \in Wires(Requests) /\ v.wire \in Wires(Talk)
  BY Fields DEF SockOK
<1>2. ASSUME NEW c \in Connections PROVE v.wire[c] \in Seq(Seq(Requests \cup {Zeros}))
  <2>1. w.wire[c] \in Seq(Seq(Requests \cup {Zeros})) /\ << >> \in Seq(Requests \cup {Zeros})
    BY <1>1 DEF Wires
  <2>2. Append(w.wire[c], << >>) \in Seq(Seq(Requests \cup {Zeros}))
    BY <2>1
  <2>. QED BY <2>1, <2>2 DEF Kept
<1>3. v.wire \in Wires(Requests)
  BY <1>1, <1>2 DEF Wires
<1>. QED BY <1>3 DEF SockOK, Kept

\* Requests are sent after what waits.
LEMMA SockSends ==
  ASSUME NEW w, SockOK(w), w.current # NoConnection,
         NEW bytes \in Seq(Requests), NEW v, v = SendBytes(w, bytes)
  PROVE  SockOK(v) /\ v.current = w.current /\ v.made = w.made /\ v.ready = w.ready
<1>1. w \in Websocks(Talk) /\ OneIsLive(w)
  BY DEF SockOK
<1>2. PICK b \in Seq(Talk \cup {Zeros}) : b = bytes
  BY DEF Talk
<1>3. /\ v \in Websocks(Talk) /\ OneIsLive(v)
      /\ v.current = w.current /\ v.made = w.made /\ v.ready = w.ready
      /\ v.rQ = w.rQ /\ v.rQi = w.rQi
      /\ \/ v.wire = w.wire /\ v.sQ = w.sQ \o b
         \/ v.wire = Given(w.wire, w.current, w.sQ \o b) /\ v.sQ = << >>
  BY <1>1, <1>2, SendKeeps
<1>4. PICK q \in Seq(Requests \cup {Zeros}) : q = w.sQ \o b
  <2>1. w.sQ \in Seq(Requests \cup {Zeros}) /\ b \in Seq(Requests \cup {Zeros})
    BY <1>2 DEF SockOK
  <2>2. w.sQ \o b \in Seq(Requests \cup {Zeros})
    BY <2>1
  <2>. QED BY <2>2
<1>5. w.current \in Connections
  BY <1>1, Fields
<1>6. v.wire \in Wires(Requests) /\ v.sQ \in Seq(Requests \cup {Zeros})
  <2>1. w.wire \in Wires(Requests)
    BY DEF SockOK
  <2>2. Given(w.wire, w.current, q) \in Wires(Requests)
    <3>1. w.wire[w.current] \in Seq(Seq(Requests \cup {Zeros}))
      BY <1>5, <2>1 DEF Wires
    <3>2. Append(w.wire[w.current], q) \in Seq(Seq(Requests \cup {Zeros}))
      BY <3>1
    <3>. QED BY <1>5, <2>1, <3>2 DEF Given, Wires
  <2>3. << >> \in Seq(Requests \cup {Zeros})
    OBVIOUS
  <2>. QED BY <1>3, <1>4, <2>1, <2>2, <2>3
<1>. QED BY <1>3, <1>6 DEF SockOK

\* A login opens a WebSocket and sends the request after the zeros that wait.
LEMMA SockLogsIn ==
  ASSUME NEW w, SockOK(w), w.made < MaxConnections,
         NEW v, v = SendBytes(OpenSocket(CloseSocket(w)), <<"login", "crlf">>)
  PROVE  /\ SockOK(v) /\ v.current = w.made + 1 /\ v.made = w.made + 1
         /\ v.made \in Connections
<1>1. PICK u : u = CloseSocket(w)
  OBVIOUS
<1>2. w \in Websocks(Talk) /\ OneIsLive(w)
  BY DEF SockOK
<1>3. u \in Websocks(Talk) /\ OneIsLive(u) /\ NoneIsLive(u) /\ Kept(u, w)
  BY <1>1, <1>2, CloseKeeps
<1>4. SockOK(u) /\ u.made = w.made
  BY <1>3, SockCloses DEF Kept
<1>5. PICK x : x = OpenSocket(u)
  OBVIOUS
<1>6. /\ x \in Websocks(Talk) /\ OneIsLive(x)
      /\ x.current = w.made + 1 /\ x.made = w.made + 1 /\ x.made \in Connections
      /\ x.wire = u.wire /\ x.sQ = AllZeros(u.sQ) /\ x.rQ = AllZeros(u.rQ) /\ x.rQi = 0
  BY <1>3, <1>4, <1>5, OpenKeeps
<1>7. SockOK(x)
  <2>1. AllZeros(u.sQ) \in Seq(Requests \cup {Zeros})
    <3>1. PICK q \in Seq(Requests \cup {Zeros}) : q = u.sQ
      BY <1>4 DEF SockOK
    <3>. QED BY <3>1 DEF AllZeros
  <2>2. \A i \in 1..Len(AllZeros(u.rQ)) : AllZeros(u.rQ)[i] = Zeros
    <3>1. PICK q \in Seq(Talk \cup {Zeros}) : q = u.rQ
      BY <1>3, Fields
    <3>. QED BY <3>1 DEF AllZeros
  <2>3. u.wire \in Wires(Requests)
    BY <1>4 DEF SockOK
  <2>. HIDE DEF AllZeros
  <2>. QED BY <1>6, <2>1, <2>2, <2>3 DEF SockOK
<1>8. PICK bytes \in Seq(Requests) : bytes = <<"login", "crlf">>
  <2>1. <<"login", "crlf">> \in Seq(Requests)
    BY DEF Requests
  <2>. QED BY <2>1
<1>9. x.current # NoConnection
  BY <1>6 DEF Connections, NoConnection
<1>. QED BY <1>1, <1>5, <1>6, <1>7, <1>8, <1>9, SockSends

\* After a message has been handled nothing is left unread.
LEMMA SockReceives ==
  ASSUME NEW w, SockOK(w), NEW data \in Seq(Replies),
         NEW v \in {HandlerReturned(w), HandlerThrew(w, data)}
  PROVE  SockOK(v) /\ v.current = w.current /\ v.made = w.made /\ v.ready = w.ready
<1>1. w \in Websocks(Talk) /\ OneIsLive(w)
  BY DEF SockOK
<1>2. PICK d \in Seq(Talk \cup {Zeros}) : d = data
  BY DEF Talk
<1>3. /\ v \in Websocks(Talk) /\ OneIsLive(v)
      /\ v.current = w.current /\ v.made = w.made
      /\ v.ready = w.ready /\ v.wire = w.wire /\ v.sQ = w.sQ
  BY <1>1, <1>2, HandlerKeeps
<1>4. \A i \in 1..Len(v.rQ) : ~(i > v.rQi)
  <2>1. CASE v = HandlerReturned(w)
    <3>1. v.rQ = << >>
      BY <1>1, <2>1 DEF HandlerReturned, Websocks
    <3>. QED BY <3>1
  <2>2. CASE v = HandlerThrew(w, data)
    <3>1. PICK q \in Seq(Talk \cup {Zeros}) : q = w.rQ
      BY <1>1, Fields
    <3>2. v.rQ = q \o d /\ v.rQi = Len(q) + Len(d)
      BY <1>1, <1>2, <2>2, <3>1 DEF HandlerThrew, Websocks
    <3>. QED BY <3>2
  <2>. QED BY <2>1, <2>2
<1>. QED BY <1>3, <1>4 DEF SockOK

\* A page that is loaded anew has no WebSocket, and those it had are closed.
LEMMA SockReloads ==
  ASSUME NEW w, SockOK(w), Reloaded(w)
  PROVE  SockOK(sock') /\ sock'.current = NoConnection /\ sock'.made = w.made
<1>1. /\ w.made \in {NoConnection} \cup Connections /\ w.made \in Nat
      /\ w.ready \in [Connections -> ReadyStates] /\ w.wire \in Wires(Requests)
  <2>1. w \in Websocks(Talk) /\ w.wire \in Wires(Requests)
    BY DEF SockOK
  <2>2. w.made \in {NoConnection} \cup Connections /\ w.ready \in [Connections -> ReadyStates]
    BY <2>1, Fields
  <2>. QED BY <2>1, <2>2, Numbers
<1>2. PICK ready : ready = [c \in Connections |-> IF c <= w.made THEN "closed" ELSE "none"]
  OBVIOUS
<1>3. PICK wire : wire = [c \in Connections |-> IF w.ready[c] = "open"
                                                THEN Append(w.wire[c], CloseFrame)
                                                ELSE w.wire[c]]
  OBVIOUS
<1>4. sock' = [NewWebsock EXCEPT !.made = w.made, !.ready = ready, !.wire = wire]
  BY <1>2, <1>3 DEF Reloaded
<1>5. /\ sock'.current = NoConnection /\ sock'.made = w.made
      /\ sock'.ready = ready /\ sock'.wire = wire
      /\ sock'.sQ = << >> /\ sock'.rQ = << >> /\ sock'.rQi = 0
      /\ sock' = [current |-> NoConnection, made |-> w.made, ready |-> ready, wire |-> wire,
                  sQ |-> << >>, rQ |-> << >>, rQi |-> 0]
  BY <1>4 DEF NewWebsock
<1>6. ready \in [Connections -> ReadyStates]
  BY <1>2 DEF ReadyStates
<1>7. ASSUME NEW c \in Connections
      PROVE  wire[c] \in Seq(Seq(Requests \cup {Zeros})) /\ wire[c] \in Seq(Seq(Talk \cup {Zeros}))
  <2>1. w.wire[c] \in Seq(Seq(Requests \cup {Zeros})) /\ << >> \in Seq(Requests \cup {Zeros})
    BY <1>1 DEF Wires
  <2>2. Append(w.wire[c], << >>) \in Seq(Seq(Requests \cup {Zeros}))
    BY <2>1
  <2>3. wire[c] \in Seq(Seq(Requests \cup {Zeros}))
    BY <1>3, <2>1, <2>2 DEF CloseFrame
  <2>4. ASSUME NEW m \in Seq(Seq(Requests \cup {Zeros})) PROVE m \in Seq(Seq(Talk \cup {Zeros}))
    BY DEF Talk
  <2>. QED BY <2>3, <2>4
<1>8. wire \in Wires(Requests) /\ wire \in Wires(Talk)
  BY <1>3, <1>7 DEF Wires
<1>9. sock' \in Websocks(Talk)
  <2>1. << >> \in Seq(Talk \cup {Zeros}) /\ 0 \in Nat
    OBVIOUS
  <2>. QED BY <1>1, <1>5, <1>6, <1>8, <2>1 DEF Websocks, Wires
<1>10. OneIsLive(sock')
  <2>1. NoConnection <= w.made
    BY <1>1 DEF NoConnection
  <2>2. \A c \in Connections : ready[c] \notin {"connecting", "open"}
    BY <1>2
  <2>3. \A c \in Connections : c > w.made => ready[c] = "none"
    <3>1. \A c \in Connections : c > w.made => ~(c <= w.made)
      BY <1>1 DEF Connections
    <3>. QED BY <1>2, <3>1
  <2>4. \A c \in Connections : c > w.made => wire[c] = << >>
    <3>1. \A c \in Connections : c > w.made => w.ready[c] = "none" /\ w.wire[c] = << >>
      BY DEF SockOK, OneIsLive
    <3>. QED BY <1>3, <3>1
  <2>. QED BY <1>5, <2>1, <2>2, <2>3, <2>4 DEF OneIsLive
<1>11. << >> \in Seq(Requests \cup {Zeros}) /\ \A i \in 1..Len(<< >>) : FALSE
  OBVIOUS
<1>. QED BY <1>5, <1>8, <1>9, <1>10, <1>11 DEF SockOK

\* The proxy takes the first message from the wire.
LEMMA SockIsHeard ==
  ASSUME NEW w, SockOK(w), NEW c \in Connections, w.wire[c] # << >>,
         NEW v, v = [w EXCEPT !.wire[c] = Tail(@)]
  PROVE  SockOK(v) /\ v.current = w.current /\ v.made = w.made /\ v.ready = w.ready
<1>1. w \in Websocks(Talk) /\ w.wire \in Wires(Requests) /\ w.wire \in Wires(Talk)
  BY Fields DEF SockOK
<1>2. PICK wire : wire = [w.wire EXCEPT ![c] = Tail(w.wire[c])]
  OBVIOUS
<1>3. wire \in Wires(Requests) /\ wire \in Wires(Talk)
  <2>1. Tail(w.wire[c]) \in Seq(Seq(Requests \cup {Zeros}))
    BY <1>1 DEF Wires
  <2>2. Tail(w.wire[c]) \in Seq(Seq(Talk \cup {Zeros}))
    BY <1>1 DEF Wires
  <2>. QED BY <1>1, <1>2, <2>1, <2>2 DEF Wires
<1>4. v = [w EXCEPT !.wire = wire]
  BY <1>2
<1>5. v \in Websocks(Talk)
  BY <1>1, <1>3, <1>4 DEF Websocks, Wires
<1>6. /\ v.current = w.current /\ v.made = w.made /\ v.ready = w.ready /\ v.wire = wire
      /\ v.sQ = w.sQ /\ v.rQ = w.rQ /\ v.rQi = w.rQi
  BY <1>1, <1>4 DEF Websocks
<1>7. \A d \in Connections : d # c => wire[d] = w.wire[d]
  BY <1>1, <1>2 DEF Wires
<1>8. OneIsLive(v)
  BY <1>6, <1>7 DEF SockOK, OneIsLive
<1>. QED BY <1>3, <1>5, <1>6, <1>8 DEF SockOK

(***************************************************************************)
(* The chat page.                                                          *)
(***************************************************************************)
\* Neither the proxy nor the browser has the reply to a login.
NoReplyYet(c) ==
  /\ ~Contains(fromServer[c], "login")
  /\ \A m \in 1..Len(down[c]) : ~Contains(down[c][m], "login")

RepliesAreTrue == \A c \in Connections : session[c] = "out" => NoReplyYet(c)

PageTypes ==
  /\ screen \in {"login", "chat"} /\ button \in BOOLEAN
  /\ fresh \subseteq 1..sock.made
  /\ awkward \subseteq Replies

ProxyTypes ==
  /\ client \in [Connections -> {"none", "open", "closed"}]
  /\ target \in [Connections -> {"none", "open", "ended"}]
  /\ \A c \in Connections : client[c] # "none" \/ target[c] # "none" => c <= sock.made

StreamTypes ==
  /\ down \in [Connections -> Seq(Seq(Replies))]
  /\ fromServer \in [Connections -> Seq(Replies)]

ServerTypes ==
  /\ toServer \in [Connections -> Seq(Requests \cup {Zeros})]
  /\ up \in BOOLEAN
  /\ place \in [Connections -> {"read", "more", "gone"}]
  /\ buffer \in [Connections -> Seq(Requests)]
  /\ session \in [Connections -> {"out", "in", "left"}]

ChatInv ==
  /\ SockOK(sock)
  /\ PageTypes /\ ProxyTypes /\ StreamTypes /\ ServerTypes
  /\ RepliesAreTrue
  /\ ChatIsOfThisConnection

\* The invariant of the chat page has its types in it.
LEMMA ChatTypes ==
  ASSUME ChatInv PROVE ChatTypeOK
  BY DEF ChatInv, ChatTypeOK, SockOK, PageTypes, ProxyTypes, StreamTypes, ServerTypes, Talk

\* What a browser delivers or drops makes no reply.
Delivers ==
  /\ down' \in [Connections -> Seq(Seq(Replies))]
  /\ fromServer' = fromServer /\ session' = session
  /\ \A c \in Connections :
       \/ down'[c] = down[c]
       \/ down'[c] = << >>
       \/ down[c] # << >> /\ down'[c] = Tail(down[c])

\* So what is said there stays true.
LEMMA DeliveringIsTrue ==
  ASSUME ChatInv, Delivers PROVE StreamTypes' /\ RepliesAreTrue'
<1>1. StreamTypes'
  BY DEF Delivers, ChatInv, StreamTypes
<1>2. ASSUME NEW c \in Connections, session'[c] = "out" PROVE NoReplyYet(c)'
  <2>1. NoReplyYet(c) /\ fromServer'[c] = fromServer[c]
    BY <1>2 DEF ChatInv, RepliesAreTrue, Delivers
  <2>2. ASSUME NEW m \in 1..Len(down'[c]) PROVE ~Contains(down'[c][m], "login")
    <3>1. PICK d \in Seq(Seq(Replies)) : d = down[c]
      BY DEF ChatInv, StreamTypes
    <3>2. PICK n \in 1..Len(d) : down'[c][m] = d[n]
      <4>1. down'[c] # << >>
        OBVIOUS
      <4>2. CASE down'[c] = d
        BY <4>2
      <4>3. CASE d # << >> /\ down'[c] = Tail(d)
        <5>1. m + 1 \in 1..Len(d) /\ down'[c][m] = d[m + 1]
          BY <4>3
        <5>. QED BY <5>1
      <4>. QED BY <3>1, <4>1, <4>2, <4>3 DEF Delivers
    <3>. QED BY <2>1, <3>1, <3>2 DEF NoReplyYet
  <2>. QED BY <2>1, <2>2 DEF NoReplyYet
<1>. QED BY <1>1, <1>2 DEF RepliesAreTrue

\* A browser keeps what came on the WebSocket that stays open.
LEMMA KeepingDelivers ==
  ASSUME ChatInv, fromServer' = fromServer, session' = session,
         \/ KeepIfOpen(down)
         \/ \E c \in Connections : down[c] # << >> /\ KeepIfOpen([down EXCEPT ![c] = Tail(@)])
  PROVE  Delivers
<1>1. down \in [Connections -> Seq(Seq(Replies))] /\ << >> \in Seq(Seq(Replies))
  BY DEF ChatInv, StreamTypes
<1>2. CASE KeepIfOpen(down)
  <2>1. \A c \in Connections : down'[c] = down[c] \/ down'[c] = << >>
    BY <1>2 DEF KeepIfOpen
  <2>2. down' \in [Connections -> Seq(Seq(Replies))]
    BY <1>1, <1>2 DEF KeepIfOpen
  <2>. QED BY <2>1, <2>2 DEF Delivers
<1>3. ASSUME NEW c \in Connections, down[c] # << >>, KeepIfOpen([down EXCEPT ![c] = Tail(@)])
      PROVE  Delivers
  <2>1. PICK some : some = [down EXCEPT ![c] = Tail(down[c])]
    OBVIOUS
  <2>2. Tail(down[c]) \in Seq(Seq(Replies))
    BY <1>1, <1>3
  <2>3. some \in [Connections -> Seq(Seq(Replies))]
    BY <1>1, <2>1, <2>2
  <2>4. down' = [d \in Connections |-> IF sock'.ready[d] = "open" THEN some[d] ELSE << >>]
    BY <1>3, <2>1 DEF KeepIfOpen
  <2>5. down' \in [Connections -> Seq(Seq(Replies))]
    BY <1>1, <2>3, <2>4
  <2>6. ASSUME NEW d \in Connections
        PROVE  \/ down'[d] = down[d]
               \/ down'[d] = << >>
               \/ down[d] # << >> /\ down'[d] = Tail(down[d])
    BY <1>1, <1>3, <2>1, <2>4
  <2>. QED BY <2>5, <2>6 DEF Delivers
<1>. QED BY <1>2, <1>3

\* A step of the page that leaves it its connection, or shows the login.
LEMMA PageStep ==
  ASSUME ChatInv, SockOK(sock'), sock'.made = sock.made,
         screen' = "login" \/ (sock'.current = sock.current /\ screen' = screen),
         button' \in BOOLEAN, fresh' = fresh, awkward' = awkward,
         UNCHANGED <<client, target, tcpVars, serverVars>>, Delivers
  PROVE  ChatInv'
<1>1. PageTypes' /\ ProxyTypes' /\ ServerTypes'
  BY DEF ChatInv, PageTypes, ProxyTypes, ServerTypes, tcpVars, serverVars
<1>2. StreamTypes' /\ RepliesAreTrue'
  BY DeliveringIsTrue
<1>3. ChatIsOfThisConnection'
  BY DEF ChatInv, ChatIsOfThisConnection, serverVars
<1>. QED BY <1>1, <1>2, <1>3 DEF ChatInv

\* The page closes its current WebSocket.
LEMMA DisconnectedStep ==
  ASSUME ChatInv, NEW w, SockOK(w), w.current = sock.current, w.made = sock.made,
         Disconnected(w), screen' = screen, fresh' = fresh, awkward' = awkward,
         UNCHANGED <<client, target, tcpVars, serverVars>>, Delivers
  PROVE  ChatInv'
<1>1. w \in Websocks(Talk) /\ OneIsLive(w) /\ sock' = CloseSocket(w) /\ button' = TRUE
  BY DEF SockOK, Disconnected
<1>2. sock' \in Websocks(Talk) /\ OneIsLive(sock') /\ Kept(sock', w)
  BY <1>1, CloseKeeps
<1>3. SockOK(sock') /\ sock'.current = sock.current /\ sock'.made = sock.made
  BY <1>2, SockCloses DEF Kept
<1>. QED BY <1>1, <1>3, PageStep

\* A click on the login button.
LEMMA ConnectStep ==
  ASSUME ChatInv, Connect PROVE ChatInv'
<1>1. /\ screen = "login" /\ screen' = screen /\ sock.made < MaxConnections
      /\ sock' = SendBytes(OpenSocket(CloseSocket(sock)), <<"login", "crlf">>)
      /\ button' = FALSE /\ awkward' = awkward
      /\ fresh' \in {fresh, fresh \cup {sock'.current}}
      /\ KeepIfOpen(down)
      /\ UNCHANGED <<client, target, tcpVars, serverVars>>
  BY DEF Connect
<1>2. /\ SockOK(sock') /\ sock'.current = sock.made + 1 /\ sock'.made = sock.made + 1
      /\ sock'.made \in Connections
  BY <1>1, SockLogsIn DEF ChatInv
<1>3. sock.made \in Nat
  <2>1. sock \in Websocks(Talk)
    BY DEF ChatInv, SockOK
  <2>2. sock.made \in {NoConnection} \cup Connections
    BY <2>1, Fields
  <2>. QED BY <2>2, Numbers
<1>4. PageTypes'
  <2>1. fresh \subseteq 1..sock.made
    BY DEF ChatInv, PageTypes
  <2>2. fresh' \subseteq 1..(sock.made + 1)
    BY <1>1, <1>2, <1>3, <2>1
  <2>. QED BY <1>1, <1>2, <2>2 DEF ChatInv, PageTypes
<1>5. ProxyTypes' /\ ServerTypes'
  <2>1. ASSUME NEW c \in Connections, client[c] # "none" \/ target[c] # "none"
        PROVE  c <= sock.made + 1
    <3>1. c <= sock.made /\ c \in Nat
      BY <2>1 DEF ChatInv, ProxyTypes, Connections
    <3>. QED BY <1>3, <3>1
  <2>. QED BY <1>1, <1>2, <2>1 DEF ChatInv, ProxyTypes, ServerTypes, tcpVars, serverVars
<1>6. StreamTypes' /\ RepliesAreTrue'
  <2>1. fromServer' = fromServer /\ session' = session
    BY <1>1 DEF tcpVars, serverVars
  <2>. QED BY <1>1, <2>1, KeepingDelivers, DeliveringIsTrue
<1>7. ChatIsOfThisConnection'
  BY <1>1 DEF ChatIsOfThisConnection
<1>. QED BY <1>2, <1>4, <1>5, <1>6, <1>7 DEF ChatInv

\* The page is loaded anew.
LEMMA ReloadedStep ==
  ASSUME ChatInv, NEW w, SockOK(w), w.made = sock.made, Reloaded(w),
         UNCHANGED <<fresh, awkward, client, target, tcpVars, serverVars>>, Delivers
  PROVE  ChatInv'
<1>1. SockOK(sock') /\ sock'.made = sock.made
  BY SockReloads
<1>2. screen' = "login" /\ button' = TRUE
  BY DEF Reloaded
<1>. QED BY <1>1, <1>2, PageStep

\* The WebSocket opens, and with it the proxy's connection.
LEMMA OpensStep ==
  ASSUME ChatInv, NEW c \in Connections, Opens(c) PROVE ChatInv'
<1>1. /\ sock.ready[c] = "connecting"
      /\ sock' = SendBytes(SendBytes(Becomes(sock, c, "open"), <<"crlf">>), <<"crlf">>)
      /\ client' = [client EXCEPT ![c] = "open"]
      /\ target' = [target EXCEPT ![c] = "open"]
      /\ UNCHANGED <<screen, button, fresh, awkward, down, tcpVars, serverVars>>
  BY DEF Opens, Becomes
<1>2. PICK a : a = Becomes(sock, c, "open")
  OBVIOUS
<1>3. c = sock.current /\ sock.ready[c] # "none" /\ "open" \in ReadyStates
  BY <1>1 DEF ChatInv, SockOK, OneIsLive, ReadyStates
<1>4. sock \in Websocks(Talk) /\ OneIsLive(sock)
  BY DEF ChatInv, SockOK
<1>5. a \in Websocks(Talk) /\ OneIsLive(a) /\ Kept(a, sock)
  BY <1>2, <1>3, <1>4, SetKeeps
<1>6. SockOK(a) /\ a.current = sock.current /\ a.made = sock.made
  BY <1>5, SockCloses DEF ChatInv, Kept
<1>7. a.current # NoConnection
  BY <1>3, <1>6 DEF Connections, NoConnection
<1>8. PICK crlf \in Seq(Requests) : crlf = <<"crlf">>
  <2>1. <<"crlf">> \in Seq(Requests)
    BY DEF Requests
  <2>. QED BY <2>1
<1>9. PICK b : b = SendBytes(a, crlf)
  OBVIOUS
<1>10. SockOK(b) /\ b.current = a.current /\ b.made = a.made
  BY <1>6, <1>7, <1>9, SockSends
<1>11. sock' = SendBytes(b, crlf)
  BY <1>1, <1>2, <1>8, <1>9
<1>12. SockOK(sock') /\ sock'.current = sock.current /\ sock'.made = sock.made
  BY <1>6, <1>7, <1>10, <1>11, SockSends
<1>13. PageTypes' /\ ServerTypes' /\ StreamTypes'
  BY <1>1, <1>12 DEF ChatInv, PageTypes, ServerTypes, StreamTypes, tcpVars, serverVars
<1>14. ProxyTypes'
  <2>1. c <= sock.made
    BY <1>3, <1>4 DEF OneIsLive
  <2>. QED BY <1>1, <1>12, <2>1 DEF ChatInv, ProxyTypes
<1>15. RepliesAreTrue' /\ ChatIsOfThisConnection'
  BY <1>1, <1>12 DEF ChatInv, RepliesAreTrue, NoReplyYet, ChatIsOfThisConnection, tcpVars, serverVars
<1>. QED BY <1>12, <1>13, <1>14, <1>15 DEF ChatInv

\* It fails, or is closed.
LEMMA ClosedStep ==
  ASSUME ChatInv, NEW c \in Connections, Fails(c) \/ CloseEvent(c) PROVE ChatInv'
<1>1. PICK w : /\ Disconnected(w)
               /\ w \in {Becomes(sock, c, "closed"), Parts(sock, c, "closed")}
  <2>1. CASE Fails(c)
    BY <2>1 DEF Fails, Becomes
  <2>2. CASE CloseEvent(c)
    <3>1. CASE sock.ready[c] = "open"
      <4>1. Disconnected([[sock EXCEPT !.wire[c] = Append(@, CloseFrame)] EXCEPT !.ready[c] = "closed"])
        BY <2>2, <3>1 DEF CloseEvent
      <4>2. [[sock EXCEPT !.wire[c] = Append(@, CloseFrame)] EXCEPT !.ready[c] = "closed"]
              = Parts(sock, c, "closed")
        BY DEF Parts, ChatInv, SockOK, Websocks
      <4>. QED BY <4>1, <4>2
    <3>2. CASE sock.ready[c] # "open"
      BY <2>2, <3>2 DEF CloseEvent, Becomes
    <3>. QED BY <3>1, <3>2
  <2>. QED BY <2>1, <2>2
<1>2. /\ sock.ready[c] # "none" /\ KeepIfOpen(down) /\ screen' = screen
      /\ fresh' = fresh /\ awkward' = awkward
      /\ UNCHANGED <<client, target, tcpVars, serverVars>>
  BY DEF Fails, CloseEvent
<1>3. sock \in Websocks(Talk) /\ OneIsLive(sock) /\ "closed" \in ReadyStates
  BY DEF ChatInv, SockOK, ReadyStates
<1>4. w \in Websocks(Talk) /\ OneIsLive(w) /\ Kept(w, sock)
  BY <1>1, <1>2, <1>3, SetKeeps
<1>5. SockOK(w) /\ w.current = sock.current /\ w.made = sock.made
  BY <1>4, SockCloses DEF ChatInv, Kept
<1>6. Delivers
  BY <1>2, KeepingDelivers DEF tcpVars, serverVars
<1>. QED BY <1>1, <1>2, <1>5, <1>6, DisconnectedStep

\* A message arrives: it shows the chat only if it begins with the reply to the
\* login of the connection it came on, whatever was left in the receive queue.
LEMMA ReceiveStep ==
  ASSUME ChatInv, NEW c \in Connections, Receive(c) PROVE ChatInv'
<1>1. /\ sock.ready[c] = "open" /\ down[c] # << >> /\ Head(down[c]) # << >>
      /\ KeepIfOpen([down EXCEPT ![c] = Tail(@)])
      /\ UNCHANGED <<fresh, awkward, client, target, tcpVars, serverVars>>
  BY DEF Receive, CloseFrame
<1>2. PICK data \in Seq(Replies) : data = Head(down[c]) /\ data = down[c][1] /\ 1 \in 1..Len(down[c])
  <2>1. down[c] \in Seq(Seq(Replies))
    BY DEF ChatInv, StreamTypes
  <2>. QED BY <1>1, <2>1
<1>3. c = sock.current
  BY <1>1 DEF ChatInv, SockOK, OneIsLive
<1>4. Delivers
  <2>1. fromServer' = fromServer /\ session' = session
    BY <1>1 DEF tcpVars, serverVars
  <2>2. \E d \in Connections : down[d] # << >> /\ KeepIfOpen([down EXCEPT ![d] = Tail(@)])
    BY <1>1
  <2>. QED BY <2>1, <2>2, KeepingDelivers
<1>5. PICK msg : msg = Unread(sock, data)
  OBVIOUS
<1>6. CASE Throws(msg)
  <2>1. PICK w : w = HandlerThrew(sock, data)
    OBVIOUS
  <2>2. SockOK(w) /\ w.current = sock.current /\ w.made = sock.made
    BY <2>1, SockReceives DEF ChatInv
  <2>3. Disconnected(w) /\ screen' = screen
    BY <1>2, <1>5, <1>6, <2>1 DEF Receive
  <2>. QED BY <1>1, <1>4, <2>2, <2>3, DisconnectedStep
<1>7. CASE ~Throws(msg)
  <2>1. PICK w : w = HandlerReturned(sock)
    OBVIOUS
  <2>2. SockOK(w) /\ w.current = sock.current /\ w.made = sock.made
    BY <1>2, <2>1, SockReceives DEF ChatInv
  <2>3. CASE msg = <<"wrong">>
    <3>1. Reloaded(w)
      BY <1>2, <1>5, <1>7, <2>1, <2>3 DEF Receive
    <3>. QED BY <1>1, <1>4, <2>2, <3>1, ReloadedStep
  <2>4. CASE msg # <<"wrong">>
    <3>1. sock' = w /\ button' = button /\ screen' = IF Head(msg) = "login" THEN "chat" ELSE screen
      BY <1>2, <1>5, <1>7, <2>1, <2>4 DEF Receive, Recognized
    <3>2. PageTypes' /\ ProxyTypes' /\ ServerTypes'
      BY <1>1, <2>2, <3>1 DEF ChatInv, PageTypes, ProxyTypes, ServerTypes, tcpVars, serverVars
    <3>3. StreamTypes' /\ RepliesAreTrue'
      BY <1>4, DeliveringIsTrue
    <3>4. ASSUME Head(msg) = "login" PROVE session[c] # "out"
      <4>1. PICK q \in Seq(Talk \cup {Zeros}), n \in Nat :
              /\ q = sock.rQ /\ n = sock.rQi
              /\ \A i \in 1..Len(q) : i > n => q[i] = Zeros
        BY Fields DEF ChatInv, SockOK
      <4>2. msg = SubSeq(q, n + 1, Len(q)) \o data
        BY <1>5, <4>1 DEF Unread
      <4>3. CASE n < Len(q)
        <5>1. PICK rest : rest = SubSeq(q, n + 1, Len(q))
          OBVIOUS
        <5>2. rest \in Seq(Talk \cup {Zeros}) /\ Len(rest) >= 1 /\ rest[1] = q[n + 1]
          BY <4>3, <5>1
        <5>3. q[n + 1] = Zeros
          BY <4>1, <4>3
        <5>4. (rest \o data)[1] = rest[1] /\ Head(rest \o data) = (rest \o data)[1]
          BY <5>2 DEF Talk
        <5>5. Zeros # "login"
          BY DEF Zeros
        <5>. QED BY <3>4, <4>2, <5>1, <5>2, <5>3, <5>4, <5>5
      <4>4. CASE ~(n < Len(q))
        <5>1. SubSeq(q, n + 1, Len(q)) = << >>
          BY <4>4
        <5>2. msg = data
          <6>1. << >> \o data = data
            OBVIOUS
          <6>. QED BY <4>2, <5>1, <6>1
        <5>3. data[1] = "login" /\ 1 \in 1..Len(data)
          BY <1>1, <1>2, <3>4, <5>2
        <5>4. Contains(down[c][1], "login")
          BY <1>2, <5>3 DEF Contains
        <5>. QED BY <1>2, <5>4 DEF ChatInv, RepliesAreTrue, NoReplyYet
      <4>. QED BY <4>3, <4>4
    <3>5. c # NoConnection
      BY DEF Connections, NoConnection
    <3>6. ChatIsOfThisConnection'
      BY <1>1, <1>3, <2>2, <3>1, <3>4, <3>5 DEF ChatInv, ChatIsOfThisConnection, serverVars
    <3>. QED BY <2>2, <3>1, <3>2, <3>3, <3>6 DEF ChatInv
  <2>. QED BY <2>3, <2>4
<1>. QED BY <1>6, <1>7

\* A message is put on a WebSocket, or dropped: it makes no reply that was not
\* there.
LEMMA SendingIsTrue ==
  ASSUME ChatInv, NEW c \in Connections, NEW message \in Seq(Replies),
         session[c] = "out" => ~Contains(message, "login"),
         down' \in {down, Sent(c, message)},
         fromServer' \in [Connections -> Seq(Replies)], session' = session,
         \A d \in Connections : ~Contains(fromServer[d], "login") => ~Contains(fromServer'[d], "login")
  PROVE  StreamTypes' /\ RepliesAreTrue'
<1>1. down \in [Connections -> Seq(Seq(Replies))]
  BY DEF ChatInv, StreamTypes
<1>2. PICK more \in Seq(Seq(Replies)) :
        /\ more = Append(down[c], message) /\ Len(more) = Len(down[c]) + 1
        /\ more[Len(more)] = message
        /\ \A m \in 1..Len(down[c]) : more[m] = down[c][m]
  <2>1. down[c] \in Seq(Seq(Replies))
    BY <1>1
  <2>. DEFINE more == Append(down[c], message)
  <2>2. /\ more \in Seq(Seq(Replies)) /\ Len(more) = Len(down[c]) + 1
        /\ more[Len(more)] = message
        /\ \A m \in 1..Len(down[c]) : more[m] = down[c][m]
    BY <2>1
  <2>. QED BY <2>2
<1>3. down' = down \/ down' = [down EXCEPT ![c] = more]
  BY <1>2 DEF Sent
<1>4. down' \in [Connections -> Seq(Seq(Replies))]
  BY <1>1, <1>2, <1>3
<1>5. ASSUME NEW d \in Connections, session'[d] = "out" PROVE NoReplyYet(d)'
  <2>1. NoReplyYet(d)
    BY <1>5 DEF ChatInv, RepliesAreTrue
  <2>2. CASE down'[d] = down[d]
    BY <2>1, <2>2 DEF NoReplyYet
  <2>3. CASE down'[d] # down[d]
    <3>1. d = c /\ down'[d] = more
      BY <1>1, <1>3, <2>3
    <3>2. Len(down[c]) \in Nat
      <4>1. down[c] \in Seq(Seq(Replies))
        BY <1>1
      <4>. QED BY <4>1
    <3>3. ASSUME NEW m \in 1..Len(more) PROVE ~Contains(more[m], "login")
      <4>1. m \in 1..Len(down[c]) \/ m = Len(more)
        BY <1>2, <3>2
      <4>. QED BY <1>2, <1>5, <2>1, <3>1, <4>1 DEF NoReplyYet
    <3>. QED BY <2>1, <3>1, <3>3 DEF NoReplyYet
  <2>. QED BY <2>2, <2>3
<1>. QED BY <1>4, <1>5 DEF StreamTypes, RepliesAreTrue

\* A step of the proxy or the server, of which the page shows nothing.
LEMMA BehindThePage ==
  ASSUME ChatInv, SockOK(sock'), sock'.current = sock.current, sock'.made = sock.made,
         UNCHANGED pageVars, ProxyTypes', ServerTypes', StreamTypes', RepliesAreTrue',
         \A c \in Connections : session'[c] = "out" => session[c] = "out"
  PROVE  ChatInv'
<1>1. PageTypes'
  BY DEF ChatInv, PageTypes, pageVars
<1>2. ChatIsOfThisConnection'
  <2>1. SUFFICES ASSUME screen = "chat" PROVE sock.current # NoConnection /\ session'[sock.current] # "out"
    BY DEF ChatIsOfThisConnection, pageVars
  <2>2. sock.current # NoConnection /\ session[sock.current] # "out"
    BY <2>1 DEF ChatInv, ChatIsOfThisConnection
  <2>3. sock \in Websocks(Talk)
    BY DEF ChatInv, SockOK
  <2>4. sock.current \in Connections
    BY <2>2, <2>3, Fields
  <2>. QED BY <2>2, <2>4
<1>. QED BY <1>1, <1>2 DEF ChatInv

\* The proxy passes a message on.
LEMMA ClientMessageStep ==
  ASSUME ChatInv, NEW c \in Connections, ClientMessage(c) PROVE ChatInv'
<1>1. /\ sock.wire[c] # << >> /\ sock' = [sock EXCEPT !.wire[c] = Tail(@)]
      /\ toServer' = IF target[c] = "open"
                     THEN [toServer EXCEPT ![c] = @ \o Head(sock.wire[c])] ELSE toServer
      /\ UNCHANGED <<screen, button, fresh, awkward, proxyVars, fromServer, serverVars>>
  BY DEF ClientMessage
<1>2. SockOK(sock') /\ sock'.current = sock.current /\ sock'.made = sock.made
  BY <1>1, SockIsHeard DEF ChatInv
<1>3. ServerTypes'
  <2>1. sock.wire[c] \in Seq(Seq(Requests \cup {Zeros}))
    BY DEF ChatInv, SockOK, Wires
  <2>2. PICK first \in Seq(Requests \cup {Zeros}) : first = Head(sock.wire[c])
    BY <1>1, <2>1
  <2>3. toServer \in [Connections -> Seq(Requests \cup {Zeros})]
    BY DEF ChatInv, ServerTypes
  <2>4. toServer[c] \o first \in Seq(Requests \cup {Zeros})
    BY <2>3
  <2>5. toServer' \in [Connections -> Seq(Requests \cup {Zeros})]
    BY <1>1, <2>2, <2>3, <2>4
  <2>. QED BY <1>1, <2>5 DEF ChatInv, ServerTypes, serverVars
<1>4. ProxyTypes' /\ StreamTypes' /\ RepliesAreTrue'
  BY <1>1, <1>2 DEF ChatInv, ProxyTypes, StreamTypes, RepliesAreTrue, NoReplyYet, proxyVars, serverVars
<1>5. UNCHANGED pageVars /\ session' = session
  BY <1>1 DEF pageVars, serverVars
<1>. QED BY <1>2, <1>3, <1>4, <1>5, BehindThePage

\* What the proxy closes it closes on both sides.
LEMMA ClientClosedTypes ==
  ASSUME ChatInv, NEW c \in Connections, c <= sock.made, ClientClosed(c),
         target' = [target EXCEPT ![c] = "ended"], sock'.made = sock.made,
         UNCHANGED <<tcpVars, serverVars>>
  PROVE  ProxyTypes' /\ ServerTypes' /\ StreamTypes' /\ RepliesAreTrue'
<1>1. client' = [client EXCEPT ![c] = "closed"] /\ down' \in {down, Sent(c, CloseFrame)}
  BY DEF ClientClosed
<1>2. ProxyTypes' /\ ServerTypes'
  BY <1>1 DEF ChatInv, ProxyTypes, ServerTypes, tcpVars, serverVars
<1>3. CloseFrame \in Seq(Replies) /\ ~Contains(CloseFrame, "login")
  BY DEF CloseFrame, Contains
<1>4. fromServer' \in [Connections -> Seq(Replies)] /\ fromServer' = fromServer /\ session' = session
  BY DEF ChatInv, StreamTypes, tcpVars, serverVars
<1>5. StreamTypes' /\ RepliesAreTrue'
  BY <1>1, <1>3, <1>4, SendingIsTrue
<1>. QED BY <1>2, <1>5

\* The close event of the proxy's client.
LEMMA ClientCloseStep ==
  ASSUME ChatInv, NEW c \in Connections, ClientCloseEvent(c) PROVE ChatInv'
<1>1. /\ sock.wire[c] # << >> /\ sock' = [sock EXCEPT !.wire[c] = Tail(@)]
      /\ ClientClosed(c) /\ target' = [target EXCEPT ![c] = "ended"]
      /\ UNCHANGED <<screen, button, fresh, awkward, tcpVars, serverVars>>
  BY DEF ClientCloseEvent
<1>2. SockOK(sock') /\ sock'.current = sock.current /\ sock'.made = sock.made
  BY <1>1, SockIsHeard DEF ChatInv
<1>3. c <= sock.made
  <2>1. sock \in Websocks(Talk) /\ OneIsLive(sock)
    BY DEF ChatInv, SockOK
  <2>2. sock.made \in {NoConnection} \cup Connections
    BY <2>1, Fields
  <2>3. sock.made \in Nat /\ c \in Nat
    BY <2>2, Numbers DEF Connections
  <2>4. ~(c > sock.made)
    BY <1>1, <2>1 DEF OneIsLive
  <2>. QED BY <2>3, <2>4
<1>4. ProxyTypes' /\ ServerTypes' /\ StreamTypes' /\ RepliesAreTrue'
  BY <1>1, <1>2, <1>3, ClientClosedTypes
<1>5. UNCHANGED pageVars /\ session' = session
  BY <1>1 DEF pageVars, serverVars
<1>. QED BY <1>2, <1>4, <1>5, BehindThePage

\* The end of the proxy's connection to the server.
LEMMA TargetEndStep ==
  ASSUME ChatInv, NEW c \in Connections, TargetEnd(c) PROVE ChatInv'
<1>. c <= sock.made
  BY DEF ChatInv, ProxyTypes, TargetEnd
<1>1. /\ ClientClosed(c) /\ target' = [target EXCEPT ![c] = "ended"]
      /\ sock' = sock /\ UNCHANGED <<pageVars, tcpVars, serverVars>>
  BY DEF TargetEnd
<1>2. ProxyTypes' /\ ServerTypes' /\ StreamTypes' /\ RepliesAreTrue'
  BY <1>1, ClientClosedTypes
<1>3. session' = session
  BY <1>1 DEF serverVars
<1>4. SockOK(sock') /\ sock'.current = sock.current /\ sock'.made = sock.made
  BY <1>1 DEF ChatInv
<1>. QED BY <1>1, <1>2, <1>3, <1>4, BehindThePage

\* What is left of a sequence whose first k elements are taken.
LEMMA WhatIsLeft ==
  ASSUME NEW S, NEW s \in Seq(S), NEW k \in 1..Len(s),
         NEW rest, rest = SubSeq(s, k + 1, Len(s))
  PROVE  /\ rest \in Seq(S)
         /\ \A i \in 1..Len(rest) : i + k \in 1..Len(s) /\ rest[i] = s[i + k]
<1>1. PICK n \in Nat : n = Len(s)
  OBVIOUS
<1>2. k \in Nat /\ k >= 1 /\ k <= n
  BY <1>1
<1>3. rest \in Seq(S)
  BY <1>1, <1>2
<1>4. Len(rest) = n - k
  BY <1>1, <1>2
<1>5. ASSUME NEW i \in 1..(n - k) PROVE i + k \in 1..n /\ rest[i] = s[i + k]
  BY <1>1, <1>2
<1>. QED BY <1>1, <1>3, <1>4, <1>5

\* The proxy sends on a part of what the server wrote.
LEMMA TargetDataStep ==
  ASSUME ChatInv, NEW c \in Connections, TargetData(c) PROVE ChatInv'
<1>1. PICK k \in 1..Len(fromServer[c]) :
        /\ target[c] # "none"
        /\ fromServer' = [fromServer EXCEPT ![c] = SubSeq(@, k + 1, Len(@))]
        /\ \/ /\ down' = Sent(c, SubSeq(fromServer[c], 1, k))
              /\ target' = target
           \/ /\ target' = [target EXCEPT ![c] = "ended"]
              /\ down' = down
        /\ UNCHANGED <<sock, pageVars, client, toServer, serverVars>>
  BY DEF TargetData
<1>2. PICK reply \in Seq(Replies) : reply = fromServer[c]
  BY DEF ChatInv, StreamTypes
<1>3. PICK part \in Seq(Replies) : part = SubSeq(reply, 1, k) /\ \A i \in 1..Len(part) : part[i] = reply[i]
  <2>. DEFINE part == SubSeq(reply, 1, k)
  <2>1. part \in Seq(Replies) /\ \A i \in 1..Len(part) : part[i] = reply[i]
    BY <1>2
  <2>. QED BY <2>1
<1>4. PICK rest \in Seq(Replies) :
        /\ rest = SubSeq(reply, k + 1, Len(reply))
        /\ \A i \in 1..Len(rest) : i + k \in 1..Len(reply) /\ rest[i] = reply[i + k]
  <2>1. PICK rest : rest = SubSeq(reply, k + 1, Len(reply))
    OBVIOUS
  <2>2. k \in 1..Len(reply)
    BY <1>2
  <2>. QED BY <2>1, <2>2, WhatIsLeft
<1>5. Len(part) <= Len(reply)
  BY <1>2, <1>3
<1>6. ~Contains(reply, "login") => ~Contains(part, "login") /\ ~Contains(rest, "login")
  BY <1>3, <1>4, <1>5 DEF Contains
<1>7. fromServer \in [Connections -> Seq(Replies)] /\ fromServer' = [fromServer EXCEPT ![c] = rest]
  BY <1>1, <1>2, <1>4 DEF ChatInv, StreamTypes
<1>8. session[c] = "out" => ~Contains(part, "login")
  BY <1>2, <1>6 DEF ChatInv, RepliesAreTrue, NoReplyYet
<1>9. down' \in {down, Sent(c, part)} /\ session' = session
  BY <1>1, <1>2, <1>3 DEF serverVars
<1>10. fromServer' \in [Connections -> Seq(Replies)]
  BY <1>7
<1>11. ASSUME NEW d \in Connections, ~Contains(fromServer[d], "login")
       PROVE  ~Contains(fromServer'[d], "login")
  BY <1>2, <1>6, <1>7, <1>11
<1>12. StreamTypes' /\ RepliesAreTrue'
  BY <1>8, <1>9, <1>10, <1>11, SendingIsTrue
<1>13. ProxyTypes' /\ ServerTypes'
  BY <1>1 DEF ChatInv, ProxyTypes, ServerTypes, serverVars
<1>14. SockOK(sock') /\ sock'.current = sock.current /\ sock'.made = sock.made
  BY <1>1 DEF ChatInv
<1>. QED BY <1>1, <1>9, <1>12, <1>13, <1>14, BehindThePage

\* The text of a buffer ends before its first zero.
LEMMA TextOfRequests ==
  ASSUME NEW chunk \in Seq(Requests \cup {Zeros}) PROVE Text(chunk) \in Seq(Requests)
<1>1. CASE ~Contains(chunk, Zeros)
  <2>1. \A i \in 1..Len(chunk) : chunk[i] \in Requests
    BY <1>1 DEF Contains
  <2>2. chunk \in Seq(Requests)
    BY <2>1
  <2>. QED BY <1>1, <2>2 DEF Text
<1>2. CASE Contains(chunk, Zeros)
  <2>. DEFINE I == {i \in 1..Len(chunk) : chunk[i] = Zeros}
  <2>1. I \in SUBSET Nat /\ I # {}
    BY <1>2 DEF Contains
  <2>2. PICK n \in I : \A m \in I : n <= m
    BY <2>1, NatLeast
  <2>3. Min(I) \in I /\ \A m \in I : Min(I) <= m
    BY <2>2 DEF Min
  <2>4. PICK first \in Nat : first = Min(I) /\ first >= 1 /\ first <= Len(chunk)
    <3>1. Len(chunk) \in Nat /\ \A m \in I : m \in Nat /\ m >= 1 /\ m <= Len(chunk)
      OBVIOUS
    <3>. HIDE DEF I
    <3>. QED BY <2>3, <3>1
  <2>5. SelectInSeq(chunk, LAMBDA b : b = Zeros) = first
    BY <2>1, <2>4 DEF SelectInSeq
  <2>6. \A i \in 1..(first - 1) : chunk[i] \in Requests
    <3>1. \A i \in 1..(first - 1) : i \in 1..Len(chunk) /\ ~(first <= i)
      BY <2>4
    <3>. QED BY <2>3, <2>4, <3>1
  <2>7. SubSeq(chunk, 1, first - 1) \in Seq(Requests)
    <3>1. first - 1 \in Nat /\ first - 1 <= Len(chunk)
      BY <2>4
    <3>. QED BY <2>6, <3>1
  <2>. QED BY <1>2, <2>5, <2>7 DEF Text
<1>. QED BY <1>1, <1>2

\* The server reads a request, and may log the user in: only then does it write the
\* reply to a login.
LEMMA ServerReadsStep ==
  ASSUME ChatInv, NEW c \in Connections, ServerReads(c) PROVE ChatInv'
<1>1. /\ toServer' = [toServer EXCEPT ![c] = << >>]
      /\ UNCHANGED <<sock, pageVars, proxyVars, up>>
  BY DEF ServerReads
<1>2. PICK text : /\ text = (IF place[c] = "read" THEN << >> ELSE buffer[c]) \o Text(toServer[c])
                  /\ Login(c, text)
  BY DEF ServerReads
<1>3. text \in Seq(Requests)
  <2>1. toServer[c] \in Seq(Requests \cup {Zeros}) /\ buffer[c] \in Seq(Requests)
    BY DEF ChatInv, ServerTypes
  <2>2. Text(toServer[c]) \in Seq(Requests)
    BY <2>1, TextOfRequests
  <2>3. (IF place[c] = "read" THEN << >> ELSE buffer[c]) \in Seq(Requests)
    BY <2>1
  <2>. QED BY <1>2, <2>2, <2>3
<1>4. /\ place' \in {[place EXCEPT ![c] = "more"], [place EXCEPT ![c] = "read"]}
      /\ buffer' \in {[buffer EXCEPT ![c] = text], [buffer EXCEPT ![c] = << >>]}
      /\ \/ fromServer' = fromServer /\ session' = session
         \/ /\ session' = [session EXCEPT ![c] = "in"]
            /\ fromServer' = [fromServer EXCEPT ![c] = @ \o <<"login", "lists">>]
         \/ fromServer' = [fromServer EXCEPT ![c] = Append(@, "wrong")] /\ session' = session
  BY <1>2 DEF Login
<1>5. PICK reply \in Seq(Replies) : reply = fromServer[c]
  BY DEF ChatInv, StreamTypes
<1>6. ServerTypes'
  <2>1. << >> \in Seq(Requests) /\ << >> \in Seq(Requests \cup {Zeros})
    OBVIOUS
  <2>2. toServer' \in [Connections -> Seq(Requests \cup {Zeros})] /\ up' \in BOOLEAN
    BY <1>1, <2>1 DEF ChatInv, ServerTypes
  <2>3. place' \in [Connections -> {"read", "more", "gone"}]
    BY <1>4 DEF ChatInv, ServerTypes
  <2>4. buffer' \in [Connections -> Seq(Requests)]
    BY <1>3, <1>4, <2>1 DEF ChatInv, ServerTypes
  <2>5. session' \in [Connections -> {"out", "in", "left"}]
    BY <1>4 DEF ChatInv, ServerTypes
  <2>. QED BY <2>2, <2>3, <2>4, <2>5 DEF ServerTypes
<1>7. \A d \in Connections : session'[d] = "out" => session[d] = "out"
  BY <1>4 DEF ChatInv, ServerTypes
<1>8. StreamTypes'
  <2>1. reply \o <<"login", "lists">> \in Seq(Replies) /\ Append(reply, "wrong") \in Seq(Replies)
    <3>1. <<"login", "lists">> \in Seq(Replies) /\ "wrong" \in Replies
      BY DEF Replies
    <3>. QED BY <3>1
  <2>2. fromServer' \in [Connections -> Seq(Replies)]
    BY <1>4, <1>5, <2>1 DEF ChatInv, StreamTypes
  <2>. QED BY <1>1, <2>2 DEF ChatInv, StreamTypes, proxyVars
<1>9. RepliesAreTrue'
  <2>1. ASSUME NEW d \in Connections, session'[d] = "out" PROVE NoReplyYet(d)'
    <3>1. NoReplyYet(d)
      BY <1>7, <2>1 DEF ChatInv, RepliesAreTrue
    <3>2. ~Contains(fromServer'[d], "login")
      <4>1. CASE fromServer'[d] = fromServer[d]
        BY <3>1, <4>1 DEF NoReplyYet
      <4>2. CASE d = c /\ fromServer'[c] = Append(reply, "wrong")
        <5>1. ~Contains(reply, "login")
          BY <1>5, <3>1, <4>2 DEF NoReplyYet
        <5>2. ~Contains(Append(reply, "wrong"), "login")
          <6>1. ASSUME NEW i \in 1..Len(Append(reply, "wrong")) PROVE Append(reply, "wrong")[i] # "login"
            <7>1. CASE i \in 1..Len(reply)
              BY <5>1, <7>1 DEF Contains
            <7>2. CASE i \notin 1..Len(reply)
              BY <7>2
            <7>. QED BY <7>1, <7>2
          <6>. QED BY <6>1 DEF Contains
        <5>. QED BY <4>2, <5>2
      <4>. QED BY <1>4, <1>5, <2>1, <4>1, <4>2 DEF ChatInv, StreamTypes, ServerTypes
    <3>. QED BY <1>1, <3>1, <3>2 DEF NoReplyYet, proxyVars
  <2>. QED BY <2>1 DEF RepliesAreTrue
<1>10. ProxyTypes' /\ SockOK(sock') /\ sock'.current = sock.current /\ sock'.made = sock.made
  BY <1>1 DEF ChatInv, ProxyTypes, proxyVars
<1>. QED BY <1>1, <1>6, <1>7, <1>8, <1>9, <1>10, BehindThePage

\* Its reading thread leaves, or it dies.
ServerEnds ==
  /\ UNCHANGED <<sock, pageVars, proxyVars, tcpVars, buffer>>
  /\ up' \in BOOLEAN
  /\ place' \in [Connections -> {"read", "more", "gone"}]
  /\ session' \in [Connections -> {"out", "in", "left"}]
  /\ \A c \in Connections : session'[c] = "out" => session[c] = "out"

\* No session begins by that.
LEMMA ServerEndsStep ==
  ASSUME ChatInv, ServerDies \/ \E c \in Connections : ServerReadsEnd(c) PROVE ChatInv'
<1>1. ServerEnds
  <2>1. CASE ServerDies
    BY <2>1 DEF ServerEnds, ServerDies, ChatInv, ServerTypes
  <2>2. ASSUME NEW c \in Connections, ServerReadsEnd(c) PROVE ServerEnds
    <3>1. /\ UNCHANGED <<sock, pageVars, proxyVars, tcpVars, up, buffer>>
          /\ place' = [place EXCEPT ![c] = "gone"]
          /\ session' = [session EXCEPT ![c] = IF @ = "in" THEN "left" ELSE @]
      BY <2>2 DEF ServerReadsEnd
    <3>. QED BY <3>1 DEF ServerEnds, ChatInv, ServerTypes
  <2>. QED BY <2>1, <2>2
<1>2. ProxyTypes' /\ ServerTypes' /\ StreamTypes'
  BY <1>1 DEF ServerEnds, ChatInv, ProxyTypes, ServerTypes, StreamTypes, proxyVars, tcpVars
<1>3. RepliesAreTrue'
  BY <1>1 DEF ServerEnds, ChatInv, RepliesAreTrue, NoReplyYet, proxyVars, tcpVars
<1>4. SockOK(sock') /\ sock'.current = sock.current /\ sock'.made = sock.made
  BY <1>1 DEF ServerEnds, ChatInv
<1>. QED BY <1>1, <1>2, <1>3, <1>4, BehindThePage DEF ServerEnds

\* Every step of the chat page, the proxy and the server keeps the invariant.
LEMMA ChatStep ==
  ASSUME ChatInv, ChatNext PROVE ChatInv'
<1>1. CASE Connect
  BY <1>1, ConnectStep
<1>2. CASE Reload
  <2>1. /\ Reloaded(sock) /\ KeepIfOpen(down)
        /\ UNCHANGED <<fresh, awkward, client, target, tcpVars, serverVars>>
    BY <1>2 DEF Reload
  <2>2. Delivers
    BY <2>1, KeepingDelivers DEF tcpVars, serverVars
  <2>. QED BY <2>1, <2>2, ReloadedStep DEF ChatInv
<1>3. ASSUME NEW c \in Connections, System(c) PROVE ChatInv'
  BY <1>3, OpensStep, ClosedStep, ReceiveStep, ClientMessageStep, ClientCloseStep,
     TargetDataStep, TargetEndStep, ServerReadsStep, ServerEndsStep DEF System
<1>. QED BY <1>1, <1>2, <1>3, ServerEndsStep DEF ChatNext

(***************************************************************************)
(* What a program writes to the screen.                                    *)
(***************************************************************************)

\* The cursor moves to the nearest place there is.
LEMMA MoveKeeps ==
  ASSUME NEW C, NEW v \in Screens(C), NEW i \in Int, NEW j \in Int, NEW w, w = Move(v, i, j)
  PROVE  /\ w \in Screens(C) /\ w.text = v.text /\ w.esc = v.esc /\ w.parms = v.parms
         /\ i \in Rows => w.row = i
         /\ j \in Columns => w.col = j
<1>1. PICK a \in 0..(Height - 1) : a = Clamp(i, Height - 1) /\ (i \in Rows => a = i)
  BY ScreenNumbers DEF Clamp, Rows
<1>2. PICK b \in 0..(Width - 1) : b = Clamp(j, Width - 1) /\ (j \in Columns => b = j)
  BY ScreenNumbers DEF Clamp, Columns
<1>3. a \in 0..Height /\ b \in 0..Width
  BY ScreenNumbers
<1>4. w = [v EXCEPT !.row = a, !.col = b]
  BY <1>1, <1>2 DEF Move
<1>5. w \in Screens(C)
  BY <1>3, <1>4 DEF Screens, ScreensAt
<1>6. w.row = a /\ w.col = b /\ w.text = v.text /\ w.esc = v.esc /\ w.parms = v.parms
  BY <1>4 DEF Screens, ScreensAt
<1>. QED BY <1>1, <1>2, <1>5, <1>6

\* A line feed goes to the next row, and scrolls when there is none.
LEMMA LineFeedKeeps ==
  ASSUME NEW C, Blank \in C, NEW v \in Screens(C), NEW w, w = LineFeed(v)
  PROVE  /\ w \in Screens(C) /\ w.col = 0 /\ w.esc = v.esc /\ w.parms = v.parms
         /\ v.row < Height - 1 => w.row = v.row + 1 /\ w.text = v.text
         /\ v.row >= Height - 1 =>
              /\ w.row = Height - 1
              /\ \A i \in Rows : w.text[i] = IF i + 1 < Height THEN v.text[i + 1] ELSE BlankRow
<1>1. v.row \in 0..Height
  BY DEF Screens, ScreensAt
<1>2. 0 \in Columns /\ 0 \in Int /\ Height - 1 \in Rows /\ Height - 1 \in Int
  BY ScreenNumbers DEF Columns, Rows
<1>3. CASE v.row >= Height - 1
  <2>1. PICK u : u = Scroll(v, 1)
    OBVIOUS
  <2>2. /\ u \in Screens(C) /\ u.esc = v.esc /\ u.parms = v.parms
        /\ \A i \in Rows : u.text[i] = IF i + 1 < Height THEN v.text[i + 1] ELSE BlankRow
    BY <2>1, ScrollKeeps DEF Screens
  <2>3. w = Move(u, Height - 1, 0)
    BY <1>3, <2>1 DEF LineFeed
  <2>4. /\ w \in Screens(C) /\ w.text = u.text /\ w.esc = u.esc /\ w.parms = u.parms
        /\ w.row = Height - 1 /\ w.col = 0
    BY <1>2, <2>2, <2>3, MoveKeeps
  <2>5. ~(v.row < Height - 1)
    BY <1>1, <1>3, ScreenNumbers
  <2>. QED BY <2>2, <2>4, <2>5
<1>4. CASE ~(v.row >= Height - 1)
  <2>1. w = Move(v, v.row + 1, 0)
    BY <1>4 DEF LineFeed
  <2>2. v.row + 1 \in Rows /\ v.row + 1 \in Int
    BY <1>1, <1>4, ScreenNumbers DEF Rows
  <2>3. /\ w \in Screens(C) /\ w.text = v.text /\ w.esc = v.esc /\ w.parms = v.parms
        /\ w.row = v.row + 1 /\ w.col = 0
    BY <1>2, <2>1, <2>2, MoveKeeps
  <2>. QED BY <1>4, <2>3
<1>. QED BY <1>3, <1>4

\* Clearing the screen below the cursor, and all of it.
LEMMA ClearingKeeps ==
  ASSUME NEW C, Blank \in C, NEW v \in Screens(C), NEW w, w \in {ClrToEol(v), ClrToBot(v), Clear(v)}
  PROVE  w \in Screens(C) /\ w.esc = v.esc /\ w.parms = v.parms
<1>1. BlankRow \in [Columns -> C] /\ BlankText \in Texts(C)
  BY DEF BlankRow, BlankText, Texts
<1>2. v \in ScreensAt(C, 0..(Height + 1)) /\ v.row \in 0..Height
  BY ScreenNumbers DEF Screens, ScreensAt
<1>3. PICK u : u = ClrToEol(v)
  OBVIOUS
<1>4. u \in ScreensAt(C, 0..(Height + 1)) /\ u.row = v.row /\ u.esc = v.esc /\ u.parms = v.parms
  BY <1>2, <1>3, ClrToEolKeeps
<1>5. u \in Screens(C)
  BY <1>2, <1>4 DEF Screens, ScreensAt
<1>6. CASE w = ClrToEol(v)
  BY <1>3, <1>4, <1>5, <1>6
<1>7. CASE w = ClrToBot(v)
  <2>1. PICK text : text = [r \in Rows |-> IF r <= v.row THEN u.text[r] ELSE BlankRow]
    OBVIOUS
  <2>2. text \in Texts(C)
    BY <1>1, <1>5, <2>1 DEF Screens, ScreensAt, Texts
  <2>3. w = [u EXCEPT !.text = text]
    BY <1>3, <1>7, <2>1 DEF ClrToBot
  <2>. QED BY <1>4, <1>5, <2>2, <2>3 DEF Screens, ScreensAt
<1>8. CASE w = Clear(v)
  <2>1. 0 \in 0..Height /\ 0 \in 0..Width
    BY ScreenNumbers
  <2>. QED BY <1>1, <1>8, <2>1 DEF Clear, Screens, ScreensAt
<1>. QED BY <1>6, <1>7, <1>8

\* A sequence that is over leaves one parameter.
LEMMA ForgottenKeeps ==
  ASSUME NEW C, NEW v \in Screens(C), v.esc = 3 => Len(v.parms) \in 1..MaxParms,
         NEW w, w = Forgotten(v)
  PROVE  /\ w \in Screens(C) /\ Len(w.parms) \in 1..MaxParms
         /\ w.row = v.row /\ w.col = v.col /\ w.text = v.text /\ w.esc = v.esc
<1>1. CASE v.esc = 3
  BY <1>1 DEF Forgotten
<1>2. CASE v.esc # 3
  <2>1. PICK parms \in Seq(Nat) : parms = <<0>> /\ Len(parms) = 1
    <3>1. <<0>> \in Seq(Nat) /\ Len(<<0>>) = 1
      OBVIOUS
    <3>. QED BY <3>1
  <2>2. w = [v EXCEPT !.parms = parms]
    BY <1>2, <2>1 DEF Forgotten
  <2>3. 1 \in 1..MaxParms
    BY ScreenNumbers
  <2>. QED BY <2>1, <2>2, <2>3 DEF Screens, ScreensAt
<1>. QED BY <1>1, <1>2

\* The commands with parameters stay on the screen whatever the parameters are.
LEMMA CommandKeeps ==
  ASSUME NEW C, Blank \in C, NEW v \in Screens(C), Len(v.parms) >= 1,
         NEW ch, NEW w, w = Command(v, ch)
  PROVE  w \in Screens(C) /\ w.esc = v.esc
<1>1. v.row \in Int /\ v.col \in Int /\ v.parms \in Seq(Nat)
  BY DEF Screens, ScreensAt
<1>2. v.parms[1] \in Nat /\ Count(v) \in Nat
  BY <1>1 DEF Count
<1>3. CASE ch \in {"A", "B", "C", "D"}
  <2>1. PICK i \in Int, j \in Int : w = Move(v, i, j)
    <3>1. v.row - Count(v) \in Int /\ v.row + Count(v) \in Int
          /\ v.col - Count(v) \in Int /\ v.col + Count(v) \in Int
      BY <1>1, <1>2
    <3>. QED BY <1>1, <1>3, <3>1 DEF Command
  <2>. QED BY <2>1, MoveKeeps
<1>4. CASE ch \in {"f", "H"}
  <2>1. PICK parms \in Seq(Nat) : parms = Append(v.parms, 0) /\ Len(parms) >= 2
    <3>1. Append(v.parms, 0) \in Seq(Nat) /\ Len(Append(v.parms, 0)) >= 2
      BY <1>1
    <3>. QED BY <3>1
  <2>2. parms[1] - 1 \in Int /\ parms[2] - 1 \in Int
    BY <2>1
  <2>3. PICK u : u = [v EXCEPT !.parms = parms]
    OBVIOUS
  <2>4. u \in Screens(C) /\ u.esc = v.esc
    BY <2>3 DEF Screens, ScreensAt
  <2>5. w = Move(u, parms[1] - 1, parms[2] - 1)
    BY <1>4, <2>1, <2>3 DEF Command
  <2>. QED BY <2>2, <2>4, <2>5, MoveKeeps
<1>5. CASE ch = "J"
  <2>1. w \in {ClrToBot(v), Clear(v), v}
    BY <1>5 DEF Command
  <2>. QED BY <2>1, ClearingKeeps
<1>6. CASE ch \notin {"A", "B", "C", "D", "f", "H", "J"}
  <2>1. w = v
    BY <1>6 DEF Command
  <2>. QED BY <2>1
<1>. QED BY <1>3, <1>4, <1>5, <1>6

\* A state of the escape sequence is taken on.
LEMMA StateKeeps ==
  ASSUME NEW C, NEW v \in Screens(C), NEW esc \in 0..6, NEW w, w = [v EXCEPT !.esc = esc]
  PROVE  /\ w \in Screens(C) /\ w.esc = esc
         /\ w.row = v.row /\ w.col = v.col /\ w.text = v.text /\ w.parms = v.parms
  BY DEF Screens, ScreensAt

\* What follows a sequence that has begun, with or without parameters.
LEMMA ParameterKeeps ==
  ASSUME NEW C, Blank \in C, NEW v \in Screens(C), v.esc = 3, Len(v.parms) \in 1..MaxParms,
         NEW ch, NEW w, w = Parameter(v, ch)
  PROVE  w \in Screens(C) /\ (w.esc = 3 => Len(w.parms) \in 1..MaxParms)
<1>1. v.parms \in Seq(Nat) /\ Len(v.parms) >= 1 /\ Len(v.parms) <= MaxParms
  BY ScreenNumbers DEF Screens, ScreensAt
<1>2. "[" \notin Digits /\ Separator \notin Digits /\ Separator # "["
  BY Zenon DEF Digits, Separator
<1>3. CASE ch \in Digits
  <2>1. PICK parms : parms = DigitAdded(v.parms, ch)
    OBVIOUS
  <2>2. parms \in Seq(Nat) /\ Len(parms) = Len(v.parms)
    <3>1. DigitValue(ch) \in Nat /\ Last(v.parms) \in Nat
      BY <1>1 DEF DigitValue, Last
    <3>2. PICK value \in Nat : value = Last(v.parms) * 10 + DigitValue(ch)
      BY <3>1
    <3>3. Front(v.parms) \in Seq(Nat) /\ Len(Front(v.parms)) = Len(v.parms) - 1
      BY <1>1 DEF Front
    <3>4. parms = Append(Front(v.parms), value)
      BY <2>1, <3>2 DEF DigitAdded
    <3>. QED BY <1>1, <3>3, <3>4
  <2>3. w = [v EXCEPT !.parms = parms]
    BY <1>3, <1>2, <2>1 DEF Parameter
  <2>. QED BY <2>2, <2>3 DEF Screens, ScreensAt
<1>4. CASE ch \notin Digits /\ ch = Separator
  <2>1. PICK parms : parms = NextBegun(v.parms)
    OBVIOUS
  <2>2. parms \in Seq(Nat) /\ Len(parms) \in 1..MaxParms
    BY <1>1, <2>1, ScreenNumbers DEF NextBegun
  <2>3. w = [v EXCEPT !.parms = parms]
    BY <1>4, <1>2, <2>1 DEF Parameter
  <2>. QED BY <2>2, <2>3 DEF Screens, ScreensAt
<1>5. CASE ch \notin Digits /\ ch # Separator /\ ch = "["
  <2>1. w = [v EXCEPT !.esc = 4]
    BY <1>5 DEF Parameter
  <2>. QED BY <2>1, StateKeeps
<1>6. CASE ch \notin Digits /\ ch # Separator /\ ch # "["
  <2>1. PICK u : u = [v EXCEPT !.esc = 0]
    OBVIOUS
  <2>2. u \in Screens(C) /\ u.esc = 0 /\ u.parms = v.parms
    BY <2>1, StateKeeps
  <2>3. w = Command(u, ch)
    BY <1>6, <2>1 DEF Parameter
  <2>4. w \in Screens(C) /\ w.esc = 0
    BY <1>1, <2>2, <2>3, CommandKeeps
  <2>. QED BY <2>4
<1>. QED BY <1>3, <1>4, <1>5, <1>6

\* What follows ESC and what follows CSI.
LEMMA SequenceBegins ==
  ASSUME NEW C, Blank \in C, NEW v \in Screens(C), v.esc \in {1, 2},
         NEW ch, NEW w, w = IF v.esc = 1 THEN AfterEsc(v, ch) ELSE AfterCsi(v, ch)
  PROVE  w \in Screens(C) /\ (w.esc = 3 => Len(w.parms) \in 1..MaxParms)
<1>1. CASE v.esc = 1
  <2>1. w = v \/ \E esc \in {0, 2} : w = [v EXCEPT !.esc = esc]
    BY <1>1 DEF AfterEsc
  <2>2. CASE w = v
    BY <1>1, <2>2
  <2>3. CASE \E esc \in {0, 2} : w = [v EXCEPT !.esc = esc]
    <3>1. PICK esc \in {0, 2} : w = [v EXCEPT !.esc = esc]
      BY <2>3
    <3>. QED BY <3>1, StateKeeps
  <2>. QED BY <2>1, <2>2, <2>3
<1>2. CASE v.esc = 2
  <2>1. w = AfterCsi(v, ch)
    BY <1>2
  <2>2. PICK u : u = [v EXCEPT !.esc = 0]
    OBVIOUS
  <2>3. u \in Screens(C) /\ u.esc = 0
    BY <2>2, StateKeeps
  <2>4. CASE ch \in {"K", "J"}
    <3>1. w \in {ClrToEol(u), ClrToBot(u), Clear(u)}
      BY <2>1, <2>2, <2>4 DEF AfterCsi
    <3>2. w \in Screens(C) /\ w.esc = 0
      BY <2>3, <3>1, ClearingKeeps
    <3>. QED BY <3>2
  <2>5. CASE ch = "H"
    <3>1. w = Move(u, 0, 0)
      BY <2>1, <2>2, <2>5 DEF AfterCsi
    <3>2. w \in Screens(C) /\ w.esc = 0
      BY <2>3, <3>1, MoveKeeps
    <3>. QED BY <3>2
  <2>6. CASE ch = "?"
    <3>1. w = [v EXCEPT !.esc = 5]
      BY <2>1, <2>6 DEF AfterCsi
    <3>. QED BY <3>1, StateKeeps
  <2>7. CASE ch \notin {"K", "J", "H", "?"}
    <3>1. PICK parms \in Seq(Nat) : parms = <<0>> /\ Len(parms) = 1
      <4>1. <<0>> \in Seq(Nat) /\ Len(<<0>>) = 1
        OBVIOUS
      <4>. QED BY <4>1
    <3>2. PICK t : t = [v EXCEPT !.esc = 3, !.parms = parms]
      OBVIOUS
    <3>3. t \in Screens(C) /\ t.esc = 3 /\ t.parms = parms
      <4>1. PICK esc \in 0..6 : esc = 3
        OBVIOUS
      <4>2. t = [v EXCEPT !.esc = esc, !.parms = parms]
        BY <3>2, <4>1
      <4>. QED BY <4>1, <4>2 DEF Screens, ScreensAt
    <3>4. w = Parameter(t, ch)
      BY <2>1, <2>7, <3>1, <3>2 DEF AfterCsi
    <3>5. Len(parms) \in 1..MaxParms
      BY <3>1, ScreenNumbers
    <3>. QED BY <3>3, <3>4, <3>5, ParameterKeeps
  <2>. QED BY <2>4, <2>5, <2>6, <2>7
<1>. QED BY <1>1, <1>2

\* Whatever is written, and in whatever state of a sequence, a screen is left.
LEMMA WriteKeeps ==
  ASSUME NEW C, Blank \in C, NEW v \in Screens(C), Len(v.parms) \in 1..MaxParms,
         NEW ch \in C, NEW w, w = Write(v, ch)
  PROVE  w \in Screens(C) /\ Len(w.parms) \in 1..MaxParms
<1>1. v.esc \in 0..6
  BY DEF Screens, ScreensAt
<1>2. CASE ch \in {"a", "BS", "HT", "CR"}
  <2>1. w = AddCh(v, ch)
    BY <1>2 DEF Write
  <2>. QED BY <2>1, AddChKeeps
<1>3. CASE ch \in {"LF", "FF"}
  <2>1. w = LineFeed(v)
    BY <1>3 DEF Write
  <2>. QED BY <2>1, LineFeedKeeps
<1>4. CASE ch \notin {"a", "BS", "HT", "CR", "LF", "FF"}
  <2>. DEFINE other ==
         CASE v.esc = 0 -> AddCh(v, ch)
           [] v.esc = 1 -> AfterEsc(v, ch)
           [] v.esc = 2 -> AfterCsi(v, ch)
           [] v.esc = 3 -> Parameter(v, ch)
           [] v.esc = 5 -> [v EXCEPT !.esc = 6]
           [] OTHER     -> [v EXCEPT !.esc = 0]
  <2>1. PICK u : /\ u \in Screens(C)
                 /\ u.esc = 3 => Len(u.parms) \in 1..MaxParms
                 /\ w = Forgotten(u)
    <3>1. CASE ch \in {"CAN", "ESC", "CSI"}
      <4>1. \E esc \in {0, 1, 2} : w = Forgotten([v EXCEPT !.esc = esc])
        BY <1>4, <3>1 DEF Write
      <4>2. PICK esc \in {0, 1, 2} : w = Forgotten([v EXCEPT !.esc = esc])
        BY <4>1
      <4>3. PICK u : u = [v EXCEPT !.esc = esc]
        OBVIOUS
      <4>4. esc \in 0..6
        OBVIOUS
      <4>5. u \in Screens(C) /\ u.esc = esc
        BY <4>3, <4>4, StateKeeps
      <4>6. w = Forgotten(u)
        BY <4>2, <4>3
      <4>7. u.esc # 3
        BY <4>5
      <4>. QED BY <4>5, <4>6, <4>7
    <3>2. CASE ch \notin {"CAN", "ESC", "CSI"}
      <4>1. PICK u : u = other
        OBVIOUS
      <4>2. w = Forgotten(u)
        BY <1>4, <3>2, <4>1 DEF Write
      <4>3. CASE v.esc = 0
        <5>1. u = AddCh(v, ch)
          BY <4>1, <4>3
        <5>2. u \in Screens(C) /\ u.esc = v.esc
          BY <5>1, AddChKeeps
        <5>. QED BY <4>2, <4>3, <5>2
      <4>4. CASE v.esc \in {1, 2}
        <5>1. u = IF v.esc = 1 THEN AfterEsc(v, ch) ELSE AfterCsi(v, ch)
          BY <4>1, <4>4
        <5>2. u \in Screens(C) /\ (u.esc = 3 => Len(u.parms) \in 1..MaxParms)
          BY <4>4, <5>1, SequenceBegins
        <5>. QED BY <4>2, <5>2
      <4>5. CASE v.esc = 3
        <5>1. u = Parameter(v, ch)
          BY <4>1, <4>5
        <5>2. u \in Screens(C) /\ (u.esc = 3 => Len(u.parms) \in 1..MaxParms)
          BY <4>5, <5>1, ParameterKeeps
        <5>. QED BY <4>2, <5>2
      <4>6. CASE v.esc \in {4, 5, 6}
        <5>1. PICK esc \in {0, 6} : u = [v EXCEPT !.esc = esc]
          BY <4>1, <4>6
        <5>2. esc \in 0..6
          OBVIOUS
        <5>3. u \in Screens(C) /\ u.esc = esc
          BY <5>1, <5>2, StateKeeps
        <5>. QED BY <4>2, <5>3
      <4>. QED BY <1>1, <4>3, <4>4, <4>5, <4>6
    <3>. QED BY <3>1, <3>2
  <2>. QED BY <2>1, ForgottenKeeps
<1>. QED BY <1>2, <1>3, <1>4

(***************************************************************************)
(* The layout of plain text: its lines, and the rows they take.            *)
(***************************************************************************)
Splits(f, t, n) ==
  f = [i \in 0..n |-> IF i = 0 THEN << << >> >> ELSE Continued(f[i - 1], t[i])]

\* There is a function that splits the first n characters, for every n.
LEMMA SplitsExist ==
  ASSUME NEW t, NEW n \in Nat
  PROVE  \E f : Splits(f, t, n)
<1>. DEFINE Good == {k \in Nat : \E f : Splits(f, t, k)}
<1>1. 0 \in Good
  <2>1. Splits([i \in 0..0 |-> << << >> >>], t, 0)
    BY DEF Splits
  <2>. QED BY <2>1
<1>2. ASSUME NEW k \in Nat, k >= 0, k \in Good PROVE k + 1 \in Good
  <2>1. PICK f : Splits(f, t, k)
    BY <1>2
  <2>2. PICK g : g = [i \in 0..(k + 1) |-> IF i <= k THEN f[i] ELSE Continued(f[k], t[k + 1])]
    OBVIOUS
  <2>3. ASSUME NEW i \in 0..(k + 1)
        PROVE  g[i] = IF i = 0 THEN << << >> >> ELSE Continued(g[i - 1], t[i])
    <3>1. CASE i <= k
      <4>1. i \in 0..k
        BY <3>1
      <4>2. f[i] = IF i = 0 THEN << << >> >> ELSE Continued(f[i - 1], t[i])
        BY <2>1, <4>1 DEF Splits
      <4>3. i # 0 => i - 1 \in 0..(k + 1) /\ i - 1 <= k
        BY <3>1
      <4>4. g[i] = f[i] /\ (i # 0 => g[i - 1] = f[i - 1])
        BY <2>2, <3>1, <4>3
      <4>. QED BY <4>2, <4>4
    <3>2. CASE i = k + 1
      <4>1. k \in 0..(k + 1) /\ k <= k /\ i # 0 /\ i - 1 = k /\ ~(i <= k)
        BY <3>2
      <4>2. g[k] = f[k]
        BY <2>2, <4>1
      <4>3. g[i] = Continued(f[k], t[k + 1])
        BY <2>2, <4>1
      <4>. QED BY <3>2, <4>1, <4>2, <4>3
    <3>. QED BY <3>1, <3>2
  <2>4. Splits(g, t, k + 1)
    <3>1. g = [i \in 0..(k + 1) |-> g[i]]
      BY <2>2
    <3>. QED BY <2>3, <3>1 DEF Splits
  <2>. QED BY <2>4
<1>. HIDE DEF Good
<1>3. \A k \in Nat : k >= 0 => k \in Good
  BY <1>1, <1>2, NatInductionFrom
<1>4. n \in Good
  BY <1>3
<1>. QED BY <1>4 DEF Good

\* The lines of a text are found character by character.
LEMMA LinesAreSplit ==
  ASSUME NEW t, Len(t) \in Nat
  PROVE  \E f : Splits(f, t, Len(t)) /\ Lines(t) = f[Len(t)]
<1>. DEFINE n == Len(t)
            split == CHOOSE f : Splits(f, t, n)
<1>1. Splits(split, t, n)
  <2>. HIDE DEF n
  <2>1. n \in Nat
    BY DEF n
  <2>. QED BY <2>1, SplitsExist
<1>2. Lines(t) = split[n]
  BY DEF Lines, Splits
<1>. QED BY <1>1, <1>2

\* No text is one empty line.
LEMMA LinesOfNothing ==
  Lines(<< >>) = << << >> >>
<1>1. Len(<< >>) = 0
  OBVIOUS
<1>2. PICK f : Splits(f, << >>, 0) /\ Lines(<< >>) = f[0]
  BY <1>1, LinesAreSplit
<1>. QED BY <1>2 DEF Splits

\* One more character goes on with the last line or begins another.
LEMMA LinesOneMore ==
  ASSUME NEW S, NEW t \in Seq(S), NEW ch \in S
  PROVE  Lines(Append(t, ch)) = Continued(Lines(t), ch)
<1>1. PICK n \in Nat : n = Len(t)
  OBVIOUS
<1>2. PICK more \in Seq(S) : more = Append(t, ch)
  <2>1. Append(t, ch) \in Seq(S)
    OBVIOUS
  <2>. QED BY <2>1
<1>3. Len(more) = n + 1 /\ more[n + 1] = ch /\ \A i \in 1..n : t[i] = more[i]
  BY <1>1, <1>2
<1>4. PICK g : Splits(g, more, n + 1) /\ Lines(more) = g[n + 1]
  BY <1>3, LinesAreSplit
<1>5. PICK f : Splits(f, t, n) /\ Lines(t) = f[n]
  BY <1>1, LinesAreSplit
<1>6. f[n] = g[n]
  <2>. DEFINE Same == {k \in Nat : k <= n => f[k] = g[k]}
  <2>1. 0 \in Same
    <3>1. 0 \in 0..n /\ 0 \in 0..(n + 1)
      OBVIOUS
    <3>2. f[0] = << << >> >> /\ g[0] = << << >> >>
      BY <1>4, <1>5, <3>1 DEF Splits
    <3>. QED BY <3>2
  <2>2. ASSUME NEW k \in Nat, k >= 0, k \in Same PROVE k + 1 \in Same
    <3>1. SUFFICES ASSUME k + 1 <= n PROVE f[k + 1] = g[k + 1]
      OBVIOUS
    <3>2. /\ k + 1 \in 0..n /\ k + 1 \in 0..(n + 1) /\ k + 1 # 0
          /\ (k + 1) - 1 = k /\ k + 1 \in 1..n
      BY <3>1
    <3>3. f[k + 1] = Continued(f[k], t[k + 1])
      BY <1>5, <3>2 DEF Splits
    <3>4. g[k + 1] = Continued(g[k], more[k + 1])
      BY <1>4, <3>2 DEF Splits
    <3>5. f[k] = g[k] /\ t[k + 1] = more[k + 1]
      BY <1>3, <2>2, <3>1, <3>2
    <3>. QED BY <3>3, <3>4, <3>5
  <2>. HIDE DEF Same
  <2>3. \A k \in Nat : k >= 0 => k \in Same
    BY <2>1, <2>2, NatInductionFrom
  <2>4. n \in Same
    BY <2>3
  <2>. QED BY <2>4 DEF Same
<1>7. n + 1 \in 0..(n + 1) /\ n + 1 # 0 /\ (n + 1) - 1 = n
  OBVIOUS
<1>8. g[n + 1] = Continued(g[n], more[n + 1])
  BY <1>4, <1>7 DEF Splits
<1>. QED BY <1>2, <1>3, <1>4, <1>5, <1>6, <1>8

\* How many rows a line takes, and the column behind its last character.
RowCount(line) == IF line = << >> THEN 1 ELSE (Len(line) + Width - 1) \div Width
EndOf(line) == Len(line) - (RowCount(line) - 1) * Width

\* Rows follow one another.
LEMMA RowsInOrder ==
  ASSUME NEW w \in Nat, NEW a \in Int, NEW b \in Int
  PROVE  /\ a * w \in Int /\ b * w \in Int
         /\ (a + 1) * w = a * w + w
         /\ a < b => a * w + w <= b * w
         /\ a <= b => a * w <= b * w
<1>1. a * w \in Int /\ b * w \in Int /\ (a + 1) * w = a * w + w
  OBVIOUS
<1>2. ASSUME a <= b PROVE a * w <= b * w
  <2>1. b - a \in Nat
    BY <1>2
  <2>2. (b - a) * w >= 0
    BY <2>1
  <2>3. (b - a) * w = b * w - a * w
    OBVIOUS
  <2>. QED BY <1>1, <2>2, <2>3
<1>3. ASSUME a < b PROVE a * w + w <= b * w
  <2>1. b - a - 1 \in Nat
    BY <1>3
  <2>2. (b - a - 1) * w >= 0
    BY <2>1
  <2>3. (b - a - 1) * w = b * w - a * w - w
    OBVIOUS
  <2>. QED BY <1>1, <2>2, <2>3
<1>. QED BY <1>1, <1>2, <1>3

\* A line ends in its last row, which only an empty line leaves empty.
LEMMA CountOfRows ==
  ASSUME NEW S, NEW line \in Seq(S), NEW n, n = RowCount(line)
  PROVE  /\ n \in Nat /\ n >= 1
         /\ (n - 1) * Width \in Nat
         /\ (n - 1) * Width <= Len(line) /\ Len(line) <= (n - 1) * Width + Width
         /\ line # << >> => (n - 1) * Width < Len(line)
<1>1. Width \in Nat \ {0} /\ Len(line) \in Nat
  BY ScreenNumbers
<1>2. CASE line = << >>
  <2>1. n = 1 /\ Len(line) = 0
    BY <1>2 DEF RowCount
  <2>2. (n - 1) * Width = 0
    BY <1>1, <2>1
  <2>. QED BY <1>1, <1>2, <2>1, <2>2
<1>3. CASE line # << >>
  <2>1. PICK l \in Nat : l = Len(line) /\ l >= 1
    BY <1>3
  <2>2. PICK w \in Nat \ {0} : w = Width
    BY <1>1
  <2>3. PICK a \in Int : a = l + w - 1
    OBVIOUS
  <2>4. n = a \div w
    BY <1>3, <2>1, <2>2, <2>3 DEF RowCount
  <2>5. PICK r \in 0..(w - 1) : a = w * n + r /\ n \in Int
    BY <2>4, Divided
  <2>6. PICK m \in Int : m = (n - 1) * w /\ w * n = m + w
    <3>1. PICK k \in Int : k = n
      BY <2>5
    <3>2. (k - 1) * w \in Int /\ w * k = (k - 1) * w + w
      OBVIOUS
    <3>. QED BY <3>1, <3>2
  <2>7. m < l /\ l <= m + w
    <3>1. PICK p \in Int : p = w * n
      BY <2>6
    <3>2. a = p + r
      BY <2>5, <3>1
    <3>3. p = m + w
      BY <2>6, <3>1
    <3>. QED BY <2>3, <3>2, <3>3
  <2>8. n >= 1
    <3>1. ASSUME n - 1 < 0 PROVE FALSE
      <4>1. (n - 1) * w + w <= 0 * w
        BY <2>5, <3>1, RowsInOrder
      <4>. QED BY <2>1, <2>6, <2>7, <4>1
    <3>. QED BY <2>5, <3>1
  <2>9. m >= 0
    <3>1. 0 * w <= (n - 1) * w
      BY <2>5, <2>8, RowsInOrder
    <3>. QED BY <2>6, <3>1
  <2>. QED BY <2>1, <2>2, <2>5, <2>6, <2>7, <2>8, <2>9
<1>. QED BY <1>2, <1>3

\* There is one number of rows only that a line takes.
LEMMA CountIsUnique ==
  ASSUME NEW S, NEW line \in Seq(S), line # << >>,
         NEW k \in Nat, k >= 1,
         (k - 1) * Width < Len(line), Len(line) <= (k - 1) * Width + Width
  PROVE  RowCount(line) = k
<1>1. PICK n : n = RowCount(line)
  OBVIOUS
<1>2. /\ n \in Nat /\ n >= 1
      /\ (n - 1) * Width < Len(line) /\ Len(line) <= (n - 1) * Width + Width
  BY <1>1, CountOfRows
<1>3. PICK w \in Nat : w = Width
  BY ScreenNumbers
<1>4. PICK a \in Int, b \in Int : a = (n - 1) * w /\ b = (k - 1) * w
  BY <1>2, RowsInOrder
<1>5. (n - 1 < k - 1 => a + w <= b) /\ (k - 1 < n - 1 => b + w <= a)
  BY <1>2, <1>4, RowsInOrder
<1>6. Len(line) \in Nat /\ a < Len(line) /\ Len(line) <= a + w /\ b < Len(line) /\ Len(line) <= b + w
  BY <1>2, <1>3, <1>4
<1>7. n = k
  BY <1>2, <1>5, <1>6
<1>. QED BY <1>1, <1>7

\* What the terminal may print, and the rows it takes.
Line == Seq(Printed)
Shown == Printed \cup {Blank}
ScreenRow == [Columns -> Shown]

\* The rows of a line, cell by cell.
CellsOf(rows, line, n, w) ==
  /\ Len(rows) = n
  /\ \A r \in 1..n, c \in Columns :
       rows[r][c] = IF (r - 1) * w + c < Len(line) THEN line[(r - 1) * w + c + 1] ELSE Blank

LEMMA RowsOfLine ==
  ASSUME NEW line \in Line, NEW n, n = RowCount(line), NEW w, w = Width,
         NEW rows, rows = RowsOf(line)
  PROVE  rows \in Seq(ScreenRow) /\ CellsOf(rows, line, n, w)
<1>. PICK l : l = Len(line)
  OBVIOUS
<1>1. n \in Nat /\ w \in Nat /\ l \in Nat
  BY CountOfRows, ScreenNumbers DEF Line
<1>2. rows = [r \in 1..n |-> [c \in Columns |->
               IF (r - 1) * w + c < l THEN line[(r - 1) * w + c + 1] ELSE Blank]]
  BY DEF RowsOf, RowCount
<1>3. ASSUME NEW r \in 1..n, NEW c \in Columns, (r - 1) * w + c < l
      PROVE  line[(r - 1) * w + c + 1] \in Shown
  <2>1. PICK a \in Nat : a = (r - 1) * w
    <3>1. 0 * w <= (r - 1) * w /\ (r - 1) * w \in Int
      BY <1>1, RowsInOrder
    <3>. QED BY <1>1, <3>1
  <2>2. c \in Nat
    BY <1>1 DEF Columns
  <2>3. a + c + 1 \in 1..l
    BY <1>1, <1>3, <2>1, <2>2
  <2>. QED BY <2>1, <2>3 DEF Line, Shown
<1>4. \A r \in 1..n : rows[r] = [c \in Columns |->
         IF (r - 1) * w + c < l THEN line[(r - 1) * w + c + 1] ELSE Blank]
  BY <1>2
<1>5. ASSUME NEW r \in 1..n PROVE rows[r] \in ScreenRow
  <2>1. PICK a : a = (r - 1) * w
    OBVIOUS
  <2>2. \A c \in Columns : a + c < l => line[a + c + 1] \in Shown
    BY <1>3, <2>1
  <2>3. rows[r] = [c \in Columns |-> IF a + c < l THEN line[a + c + 1] ELSE Blank]
    BY <1>4, <2>1
  <2>4. Blank \in Shown
    BY DEF Shown
  <2>. QED BY <2>2, <2>3, <2>4 DEF ScreenRow
<1>6. rows \in Seq(ScreenRow) /\ Len(rows) = n
  <2>1. rows = [r \in 1..n |-> rows[r]]
    BY <1>2
  <2>. QED BY <1>1, <1>5, <2>1, IsSequence
<1>7. ASSUME NEW r \in 1..n, NEW c \in Columns
      PROVE  rows[r][c] = IF (r - 1) * w + c < l THEN line[(r - 1) * w + c + 1] ELSE Blank
  <2>1. PICK a : a = (r - 1) * w
    OBVIOUS
  <2>2. rows[r] = [j \in Columns |-> IF a + j < l THEN line[a + j + 1] ELSE Blank]
    BY <1>4, <2>1
  <2>3. rows[r][c] = IF a + c < l THEN line[a + c + 1] ELSE Blank
    BY <2>2
  <2>. QED BY <2>1, <2>3
<1>. QED BY <1>6, <1>7 DEF CellsOf

\* Rows to which a character is added in column c, which may be the one behind the
\* last: then it begins another row.
Grows(rows, more, c, x) ==
  LET n == Len(rows) IN
  IF c < Width
  THEN /\ Len(more) = n
       /\ \A r \in 1..n, j \in Columns :
            more[r][j] = IF r = n /\ j = c THEN x ELSE rows[r][j]
  ELSE /\ Len(more) = n + 1
       /\ \A r \in 1..n, j \in Columns : more[r][j] = rows[r][j]
       /\ \A j \in Columns : more[n + 1][j] = IF j = 0 THEN x ELSE Blank

\* A character at the end of a line is added behind what was the last.
LEMMA LineGrows ==
  ASSUME NEW line \in Line, NEW x \in Printed,
         NEW more, more = Append(line, x), NEW c, c = EndOf(line)
  PROVE  /\ c \in 0..Width
         /\ EndOf(more) = IF c < Width THEN c + 1 ELSE 1
         /\ Grows(RowsOf(line), RowsOf(more), c, x)
<1>1. PICK w \in Nat : w = Width /\ w >= 1
  BY ScreenNumbers
<1>2. PICK n \in Nat : n = RowCount(line) /\ n >= 1
  BY CountOfRows DEF Line
<1>3. PICK l \in Nat : l = Len(line)
  BY DEF Line
<1>4. PICK b \in Nat : b = (n - 1) * w /\ b <= l /\ l <= b + w
  BY <1>1, <1>2, <1>3, CountOfRows DEF Line
<1>5. c = l - b /\ c \in 0..w
  <2>1. (RowCount(line) - 1) * Width = b
    BY <1>1, <1>2, <1>4
  <2>2. c = l - b
    BY <1>3, <2>1 DEF EndOf
  <2>. QED BY <1>4, <2>2
<1>6. /\ more \in Line /\ Len(more) = l + 1 /\ more # << >> /\ more[l + 1] = x
      /\ \A i \in 1..l : more[i] = line[i]
  BY <1>3 DEF Line
<1>7. PICK k \in Nat : k = RowCount(more) /\ k = IF c < w THEN n ELSE n + 1
  <2>1. CASE c < w
    <3>1. (n - 1) * Width < Len(more) /\ Len(more) <= (n - 1) * Width + Width
      BY <1>1, <1>4, <1>5, <1>6, <2>1
    <3>. QED BY <1>2, <1>6, <2>1, <3>1, CountIsUnique DEF Line
  <2>2. CASE ~(c < w)
    <3>1. (n + 1) - 1 = n /\ n + 1 \in Nat /\ n + 1 >= 1
      BY <1>2
    <3>2. n * w = b + w
      BY <1>2, <1>4, RowsInOrder
    <3>3. n * Width < Len(more) /\ Len(more) <= n * Width + Width
      BY <1>1, <1>5, <1>6, <2>2, <3>2
    <3>4. RowCount(more) = n + 1
      BY <1>6, <3>1, <3>3, CountIsUnique DEF Line
    <3>. QED BY <2>2, <3>1, <3>4
  <2>. QED BY <2>1, <2>2
<1>8. EndOf(more) = IF c < w THEN c + 1 ELSE 1
  <2>1. CASE c < w
    <3>1. (k - 1) * Width = b
      BY <1>1, <1>4, <1>7, <2>1
    <3>. QED BY <1>5, <1>6, <1>7, <2>1, <3>1 DEF EndOf
  <2>2. CASE ~(c < w)
    <3>1. k - 1 = n
      BY <1>2, <1>7, <2>2
    <3>2. (k - 1) * Width = b + w
      BY <1>1, <1>2, <1>4, <3>1, RowsInOrder
    <3>. QED BY <1>5, <1>6, <1>7, <2>2, <3>2 DEF EndOf
  <2>. QED BY <2>1, <2>2
<1>. PICK rows, new : rows = RowsOf(line) /\ new = RowsOf(more)
  OBVIOUS
<1>9. /\ Len(rows) = n
      /\ \A r \in 1..n, j \in Columns :
           rows[r][j] = IF (r - 1) * w + j < l THEN line[(r - 1) * w + j + 1] ELSE Blank
  <2>1. CellsOf(rows, line, n, w)
    BY <1>1, <1>2, RowsOfLine
  <2>. QED BY <1>3, <2>1 DEF CellsOf
<1>10. /\ Len(new) = k
       /\ \A r \in 1..k, j \in Columns :
            new[r][j] = IF (r - 1) * w + j < l + 1 THEN more[(r - 1) * w + j + 1] ELSE Blank
  <2>1. CellsOf(new, more, k, w)
    BY <1>1, <1>6, <1>7, RowsOfLine
  <2>. QED BY <1>6, <2>1 DEF CellsOf
<1>11. \A j \in Columns : j \in Nat /\ j < w
  BY <1>1 DEF Columns
<1>12. ASSUME NEW r \in 1..n PROVE (r - 1) * w \in Nat /\ (r # n => (r - 1) * w + w <= b)
  <2>1. 0 * w <= (r - 1) * w /\ (r - 1) * w \in Int
    BY RowsInOrder
  <2>2. r # n => r - 1 < n - 1
    OBVIOUS
  <2>3. r # n => (r - 1) * w + w <= (n - 1) * w
    BY <2>2, RowsInOrder
  <2>. QED BY <1>4, <2>1, <2>3
<1>13. ASSUME NEW r \in 1..n, r \in 1..k, NEW j \in Columns
       PROVE  new[r][j] = IF r = n /\ j = c THEN x ELSE rows[r][j]
  <2>1. PICK a \in Nat : a = (r - 1) * w /\ (r # n => a + w <= b) /\ (r = n => a = b)
    BY <1>4, <1>12
  <2>2. rows[r][j] = IF a + j < l THEN line[a + j + 1] ELSE Blank
    BY <1>9, <2>1
  <2>3. new[r][j] = IF a + j < l + 1 THEN more[a + j + 1] ELSE Blank
    BY <1>10, <1>13, <2>1
  <2>4. j \in Nat /\ j < w
    BY <1>11
  <2>5. CASE a + j < l
    <3>1. a + j + 1 \in 1..l /\ a + j < l + 1 /\ ~(r = n /\ j = c)
      BY <1>5, <2>1, <2>4, <2>5
    <3>2. more[a + j + 1] = line[a + j + 1]
      BY <1>6, <3>1
    <3>. QED BY <2>2, <2>3, <2>5, <3>1, <3>2
  <2>6. CASE a + j = l
    <3>1. r = n /\ j = c /\ a + j < l + 1
      BY <1>4, <1>5, <2>1, <2>4, <2>6
    <3>. QED BY <1>6, <2>3, <2>6, <3>1
  <2>7. CASE a + j > l
    <3>1. ~(r = n /\ j = c) /\ ~(a + j < l) /\ ~(a + j < l + 1)
      BY <1>5, <2>1, <2>4, <2>7
    <3>. QED BY <2>2, <2>3, <3>1
  <2>. QED BY <2>4, <2>5, <2>6, <2>7
<1>14. Grows(rows, new, c, x)
  <2>1. CASE c < w
    <3>1. k = n
      BY <1>7, <2>1
    <3>. QED BY <1>1, <1>9, <1>10, <1>13, <2>1, <3>1 DEF Grows
  <2>2. CASE ~(c < w)
    <3>1. k = n + 1 /\ c = w /\ l = b + w /\ n * w = l
      <4>1. n * w = b + w
        BY <1>2, <1>4, RowsInOrder
      <4>. QED BY <1>5, <1>7, <2>2, <4>1
    <3>2. ASSUME NEW r \in 1..n, NEW j \in Columns PROVE new[r][j] = rows[r][j]
      <4>1. r \in 1..k /\ j # c
        BY <1>11, <3>1
      <4>. QED BY <1>13, <4>1
    <3>3. ASSUME NEW j \in Columns PROVE new[n + 1][j] = IF j = 0 THEN x ELSE Blank
      <4>1. n + 1 \in 1..k /\ ((n + 1) - 1) * w = l
        BY <3>1
      <4>2. new[n + 1][j] = IF l + j < l + 1 THEN more[l + j + 1] ELSE Blank
        BY <1>10, <4>1
      <4>3. j \in Nat /\ (l + j < l + 1 <=> j = 0)
        BY <1>11
      <4>. QED BY <1>6, <4>2, <4>3
    <3>. QED BY <1>1, <1>9, <1>10, <2>2, <3>1, <3>2, <3>3 DEF Grows
  <2>. QED BY <2>1, <2>2
<1>. QED BY <1>1, <1>5, <1>8, <1>9, <1>10, <1>14

\* What comes before does not matter.
LEMMA GrowsBehind ==
  ASSUME NEW R, NEW a \in Seq(R), NEW b \in Seq(R), NEW more \in Seq(R), Len(b) >= 1,
         NEW c, NEW x, Grows(b, more, c, x)
  PROVE  Grows(a \o b, a \o more, c, x)
<1>1. PICK m \in Nat, n \in Nat, k \in Nat : m = Len(a) /\ n = Len(b) /\ k = Len(more) /\ n >= 1
  OBVIOUS
<1>2. PICK rows \in Seq(R), new \in Seq(R) : rows = a \o b /\ new = a \o more
  <2>1. a \o b \in Seq(R) /\ a \o more \in Seq(R)
    OBVIOUS
  <2>. QED BY <2>1
<1>3. Len(rows) = m + n /\ Len(new) = m + k
  BY <1>1, <1>2
<1>4. \A r \in 1..m : rows[r] = a[r] /\ new[r] = a[r]
  BY <1>1, <1>2
<1>5. (\A r \in 1..n : rows[m + r] = b[r]) /\ (\A r \in 1..k : new[m + r] = more[r])
  BY <1>1, <1>2
<1>6. ASSUME NEW r \in 1..(m + n)
      PROVE  (r \in 1..m /\ r # m + n) \/ \E i \in 1..n : r = m + i
  <2>1. CASE r > m
    <3>1. r - m \in 1..n /\ r = m + (r - m)
      BY <2>1
    <3>. QED BY <3>1
  <2>2. CASE ~(r > m)
    BY <1>1, <2>2
  <2>. QED BY <2>1, <2>2
<1>7. CASE c < Width
  <2>1. k = n
    BY <1>1, <1>7 DEF Grows
  <2>2. ASSUME NEW r \in 1..(m + n), NEW j \in Columns
        PROVE  new[r][j] = IF r = m + n /\ j = c THEN x ELSE rows[r][j]
    <3>1. CASE r \in 1..m /\ r # m + n
      BY <1>4, <3>1
    <3>2. ASSUME NEW i \in 1..n, r = m + i
          PROVE  new[r][j] = IF r = m + n /\ j = c THEN x ELSE rows[r][j]
      <4>1. more[i][j] = IF i = n /\ j = c THEN x ELSE b[i][j]
        BY <1>1, <1>7 DEF Grows
      <4>2. new[r] = more[i] /\ rows[r] = b[i] /\ (r = m + n <=> i = n)
        BY <1>5, <2>1, <3>2
      <4>. QED BY <4>1, <4>2
    <3>. QED BY <1>6, <3>1, <3>2
  <2>. QED BY <1>2, <1>3, <1>7, <2>1, <2>2 DEF Grows
<1>8. CASE ~(c < Width)
  <2>1. k = n + 1
    BY <1>1, <1>8 DEF Grows
  <2>2. ASSUME NEW r \in 1..(m + n), NEW j \in Columns PROVE new[r][j] = rows[r][j]
    <3>1. CASE r \in 1..m /\ r # m + n
      BY <1>4, <3>1
    <3>2. ASSUME NEW i \in 1..n, r = m + i PROVE new[r][j] = rows[r][j]
      <4>1. more[i][j] = b[i][j]
        BY <1>1, <1>8 DEF Grows
      <4>2. new[r] = more[i] /\ rows[r] = b[i]
        BY <1>5, <2>1, <3>2
      <4>. QED BY <4>1, <4>2
    <3>. QED BY <1>6, <3>1, <3>2
  <2>3. ASSUME NEW j \in Columns PROVE new[(m + n) + 1][j] = IF j = 0 THEN x ELSE Blank
    <3>1. more[n + 1][j] = IF j = 0 THEN x ELSE Blank
      BY <1>1, <1>8 DEF Grows
    <3>2. n + 1 \in 1..k /\ m + (n + 1) = (m + n) + 1
      BY <2>1
    <3>. QED BY <1>5, <3>1, <3>2
  <2>4. Len(new) = (m + n) + 1
    BY <1>3, <2>1
  <2>. QED BY <1>2, <1>3, <1>8, <2>2, <2>3, <2>4 DEF Grows
<1>. QED BY <1>7, <1>8

\* The last line is laid out behind the others.
LEMMA LaidOneMore ==
  ASSUME NEW front \in Seq(Line), NEW line \in Line,
         NEW all, all = Append(front, line)
  PROVE  /\ Laid(front) \in Seq(ScreenRow) /\ RowsOf(line) \in Seq(ScreenRow)
         /\ Laid(all) = Laid(front) \o RowsOf(line)
<1>1. PICK n \in Nat : n = Len(front)
  OBVIOUS
<1>2. \A l \in Line : RowsOf(l) \in Seq(ScreenRow)
  BY RowsOfLine
<1>3. PICK f : f = [k \in 1..n |-> RowsOf(front[k])]
  OBVIOUS
<1>4. f \in Seq(Seq(ScreenRow)) /\ Len(f) = n
  <2>1. \A k \in 1..n : f[k] \in Seq(ScreenRow)
    BY <1>1, <1>2, <1>3
  <2>2. f = [k \in 1..n |-> f[k]]
    BY <1>3
  <2>. QED BY <2>1, <2>2, IsSequence
<1>5. all \in Seq(Line)
  OBVIOUS
<1>6. Len(all) = n + 1 /\ all[n + 1] = line /\ \A k \in 1..n : all[k] = front[k]
  BY <1>1
<1>7. PICK g : g = [k \in 1..(n + 1) |-> RowsOf(all[k])]
  OBVIOUS
<1>8. g \in Seq(Seq(ScreenRow)) /\ Len(g) = n + 1
  <2>1. \A k \in 1..(n + 1) : g[k] \in Seq(ScreenRow)
    BY <1>2, <1>6, <1>7
  <2>2. g = [k \in 1..(n + 1) |-> g[k]]
    BY <1>7
  <2>3. n + 1 \in Nat
    OBVIOUS
  <2>. QED BY <2>1, <2>2, <2>3, IsSequence
<1>9. PICK p \in Seq(ScreenRow) : p = RowsOf(line)
  BY <1>2
<1>10. g = Append(f, p)
  <2>1. PICK P : P = Seq(ScreenRow)
    OBVIOUS
  <2>2. f \in Seq(P) /\ g \in Seq(P) /\ p \in P
    BY <1>4, <1>8, <1>9, <2>1
  <2>3. PICK h : h = Append(f, p)
    OBVIOUS
  <2>4. h \in Seq(P) /\ Len(h) = n + 1 /\ h[n + 1] = p /\ \A k \in 1..n : h[k] = f[k]
    BY <1>4, <2>2, <2>3, Appended
  <2>5. g[n + 1] = p /\ \A k \in 1..n : g[k] = f[k]
    BY <1>3, <1>6, <1>7, <1>9
  <2>6. \A k \in 1..(n + 1) : g[k] = h[k]
    BY <2>4, <2>5
  <2>7. g = h
    BY <1>8, <2>2, <2>4, <2>6, SameElements
  <2>. QED BY <2>3, <2>7
<1>11. Laid(front) = FlattenSeq(f) /\ Laid(all) = FlattenSeq(g)
  BY <1>1, <1>3, <1>6, <1>7 DEF Laid
<1>12. FlattenSeq(g) = FlattenSeq(f) \o p /\ FlattenSeq(f) \in Seq(ScreenRow)
  <2>. QED BY <1>4, <1>9, <1>10, FlattenOneMore, FlattenType
<1>. QED BY <1>5, <1>9, <1>11, <1>12

\* A character that is added to the last line is added behind the last row's.
LEMMA LaidGrows ==
  ASSUME NEW lines \in Seq(Line), NEW m, m = Len(lines), m >= 1,
         NEW x \in Printed, x # "LF", NEW more, more = Continued(lines, x),
         NEW c, c = EndOf(lines[m])
  PROVE  /\ more \in Seq(Line) /\ Len(more) = m
         /\ c \in 0..Width /\ EndOf(more[m]) = IF c < Width THEN c + 1 ELSE 1
         /\ Laid(lines) \in Seq(ScreenRow) /\ Len(Laid(lines)) >= 1
         /\ Laid(more) \in Seq(ScreenRow)
         /\ Grows(Laid(lines), Laid(more), c, x)
<1>1. lines \in Seq(Line) /\ m \in Nat
  OBVIOUS
<1>2. PICK line \in Line : line = lines[m]
  BY <1>1
<1>3. PICK longer \in Line : longer = Append(line, x)
  <2>1. Append(line, x) \in Line
    BY DEF Line
  <2>. QED BY <2>1
<1>4. PICK front : front = [k \in 1..(m - 1) |-> lines[k]]
  OBVIOUS
<1>5. front \in Seq(Line) /\ Len(front) = m - 1
  <2>1. front = [k \in 1..(m - 1) |-> front[k]] /\ \A k \in 1..(m - 1) : front[k] \in Line
    BY <1>1, <1>4
  <2>2. m - 1 \in Nat
    BY <1>1
  <2>. QED BY <2>1, <2>2, IsSequence
<1>6. lines = Append(front, line)
  <2>1. PICK h : h = Append(front, line)
    OBVIOUS
  <2>2. h \in Seq(Line) /\ Len(h) = (m - 1) + 1 /\ h[(m - 1) + 1] = line
        /\ \A k \in 1..(m - 1) : h[k] = front[k]
    BY <1>2, <1>5, <2>1, Appended
  <2>3. (m - 1) + 1 = m
    BY <1>1
  <2>4. \A k \in 1..m : lines[k] = h[k]
    <3>1. \A k \in 1..m : k = m \/ k \in 1..(m - 1)
      BY <1>1
    <3>2. \A k \in 1..(m - 1) : front[k] = lines[k]
      BY <1>4
    <3>. QED BY <1>2, <2>2, <2>3, <3>1, <3>2
  <2>5. lines = h
    BY <1>1, <2>2, <2>3, <2>4, SameElements
  <2>. QED BY <2>1, <2>5
<1>7. /\ more \in Seq(Line) /\ Len(more) = m /\ more[m] = longer
      /\ \A k \in 1..m : k # m => more[k] = lines[k]
  <2>1. more = [lines EXCEPT ![m] = longer]
    BY <1>2, <1>3 DEF Continued
  <2>. QED BY <1>1, <2>1
<1>8. more = Append(front, longer)
  <2>1. PICK h : h = Append(front, longer)
    OBVIOUS
  <2>2. h \in Seq(Line) /\ Len(h) = (m - 1) + 1 /\ h[(m - 1) + 1] = longer
        /\ \A k \in 1..(m - 1) : h[k] = front[k]
    BY <1>5, <2>1, Appended
  <2>3. (m - 1) + 1 = m
    BY <1>1
  <2>4. \A k \in 1..m : more[k] = h[k]
    <3>1. \A k \in 1..m : k = m \/ (k \in 1..(m - 1) /\ k # m)
      BY <1>1
    <3>2. \A k \in 1..(m - 1) : front[k] = lines[k]
      BY <1>4
    <3>. QED BY <1>7, <2>2, <2>3, <3>1, <3>2
  <2>5. Len(more) = Len(h) /\ \A k \in 1..Len(more) : more[k] = h[k]
    BY <1>7, <2>2, <2>3, <2>4
  <2>6. more = h
    BY <1>7, <2>2, <2>5, SameElements
  <2>. QED BY <2>1, <2>6
<1>9. /\ Laid(front) \in Seq(ScreenRow)
       /\ RowsOf(line) \in Seq(ScreenRow) /\ Laid(lines) = Laid(front) \o RowsOf(line)
  BY <1>5, <1>6, LaidOneMore
<1>10. RowsOf(longer) \in Seq(ScreenRow) /\ Laid(more) = Laid(front) \o RowsOf(longer)
  BY <1>5, <1>8, LaidOneMore
<1>11. PICK a \in Seq(ScreenRow), b \in Seq(ScreenRow), d \in Seq(ScreenRow) :
         a = Laid(front) /\ b = RowsOf(line) /\ d = RowsOf(longer)
  BY <1>9, <1>10
<1>12. /\ c \in 0..Width /\ EndOf(longer) = IF c < Width THEN c + 1 ELSE 1
       /\ Grows(RowsOf(line), RowsOf(longer), c, x)
  <2>1. c = EndOf(line)
    BY <1>2
  <2>. QED BY <1>3, <2>1, LineGrows
<1>13. Len(b) >= 1
  <2>1. PICK n : n = RowCount(line)
    OBVIOUS
  <2>2. n \in Nat /\ n >= 1
    BY <2>1, CountOfRows DEF Line
  <2>3. CellsOf(b, line, n, Width)
    BY <1>11, <2>1, RowsOfLine
  <2>. QED BY <2>2, <2>3 DEF CellsOf
<1>14. Grows(a \o b, a \o d, c, x)
  <2>1. Grows(b, d, c, x)
    BY <1>11, <1>12
  <2>. QED BY <1>13, <2>1, GrowsBehind
<1>15. a \o b \in Seq(ScreenRow) /\ a \o d \in Seq(ScreenRow) /\ Len(a \o b) >= 1
  BY <1>13
<1>. QED BY <1>7, <1>9, <1>10, <1>11, <1>14, <1>15, <1>12

\* An empty line is a blank row.
LEMMA EmptyLine ==
  RowsOf(<< >>) = <<BlankRow>> /\ EndOf(<< >>) = 0
<1>1. RowCount(<< >>) = 1 /\ Len(<< >>) = 0
  BY DEF RowCount
<1>2. PICK rows : rows = RowsOf(<< >>)
  OBVIOUS
<1>3. << >> \in Line
  BY DEF Line
<1>4. rows \in Seq(ScreenRow) /\ CellsOf(rows, << >>, 1, Width)
  BY <1>1, <1>2, <1>3, RowsOfLine
<1>5. Len(rows) = 1 /\ \A c \in Columns : rows[1][c] = Blank
  <2>1. (1 - 1) * Width = 0
    BY ScreenNumbers
  <2>2. \A c \in Columns : ~(0 + c < 0)
    BY ScreenNumbers DEF Columns
  <2>. QED BY <1>1, <1>4, <2>1, <2>2 DEF CellsOf
<1>6. rows[1] = BlankRow
  BY <1>4, <1>5 DEF BlankRow, ScreenRow
<1>7. rows = <<BlankRow>>
  BY <1>4, <1>5, <1>6
<1>8. EndOf(<< >>) = 0
  BY <1>1, ScreenNumbers DEF EndOf
<1>. QED BY <1>2, <1>7, <1>8

\* A line feed adds a blank row.
LEMMA LaidFeeds ==
  ASSUME NEW lines \in Seq(Line), NEW m, m = Len(lines), m >= 1,
         NEW more, more = Continued(lines, "LF")
  PROVE  /\ more \in Seq(Line) /\ Len(more) = m + 1 /\ EndOf(more[m + 1]) = 0
         /\ Laid(lines) \in Seq(ScreenRow)
         /\ Laid(more) = Append(Laid(lines), BlankRow)
<1>1. PICK none : none = << >>
  OBVIOUS
<1>2. none \in Line /\ lines \in Seq(Line)
  BY <1>1 DEF Line
<1>3. more = Append(lines, none)
  BY <1>1 DEF Continued
<1>4. more \in Seq(Line) /\ Len(more) = m + 1 /\ more[m + 1] = none
  <2>1. PICK n \in Nat : n = Len(lines)
    BY <1>2
  <2>2. PICK h : h = Append(lines, none)
    OBVIOUS
  <2>3. h \in Seq(Line) /\ Len(h) = n + 1 /\ h[n + 1] = none
    BY <1>2, <2>1, <2>2, Appended
  <2>. QED BY <1>3, <2>1, <2>2, <2>3
<1>5. Laid(lines) \in Seq(ScreenRow) /\ Laid(more) = Laid(lines) \o RowsOf(none)
  BY <1>1, <1>2, <1>3, LaidOneMore
<1>6. BlankRow \in ScreenRow
  BY DEF BlankRow, ScreenRow, Shown
<1>7. PICK a \in Seq(ScreenRow) : a = Laid(lines)
  BY <1>5
<1>8. a \o <<BlankRow>> = Append(a, BlankRow)
  BY <1>6
<1>. QED BY <1>1, <1>4, <1>5, <1>7, <1>8, EmptyLine

\* No text is a blank row.
LEMMA LaidNothing ==
  LET one == Lines(<< >>) IN
  one \in Seq(Line) /\ Len(one) = 1 /\ EndOf(one[1]) = 0 /\ Laid(one) = <<BlankRow>>
<1>1. PICK none, one, front : none = << >> /\ one = Lines(<< >>) /\ front = << >>
  OBVIOUS
<1>2. none \in Line /\ front \in Seq(Line) /\ Len(front) = 0
  BY <1>1 DEF Line
<1>3. one = Append(front, none)
  BY <1>1, LinesOfNothing
<1>4. one \in Seq(Line) /\ Len(one) = 1 /\ one[1] = none
  BY <1>2, <1>3
<1>5. Laid(one) = Laid(front) \o RowsOf(none)
  BY <1>2, <1>3, LaidOneMore
<1>6. Laid(front) = << >>
  <2>1. PICK f : f = [k \in 1..Len(front) |-> RowsOf(front[k])]
    OBVIOUS
  <2>2. f \in Seq(Seq({})) /\ Len(f) = 0
    BY <1>2, <2>1
  <2>3. FlattenSeq(f) = << >>
    BY <2>2, FlattenNothing
  <2>. QED BY <2>1, <2>3 DEF Laid
<1>7. << >> \o <<BlankRow>> = <<BlankRow>>
  OBVIOUS
<1>. QED BY <1>1, <1>4, <1>5, <1>6, <1>7, EmptyLine

(***************************************************************************)
(* The last rows of a text, on the screen.                                 *)
(***************************************************************************)
Above(n) == IF n > Height THEN n - Height ELSE 0

\* How many rows have gone.
LEMMA AboveIs ==
  ASSUME NEW n \in Nat
  PROVE  /\ Above(n) \in Nat
         /\ n > Height => Above(n) = n - Height
         /\ n <= Height => Above(n) = 0
  BY ScreenNumbers DEF Above

\* The cursor is in the row of the last.
Shows(v, all) ==
  /\ Len(all) >= 1 /\ v.row = Len(all) - 1 - Above(Len(all))
  /\ \A r \in Rows :
       v.text[r] = IF Above(Len(all)) + r + 1 <= Len(all)
                   THEN all[Above(Len(all)) + r + 1] ELSE BlankRow

LEMMA ShownRow ==
  ASSUME NEW all \in Seq(ScreenRow), NEW v, Shows(v, all)
  PROVE  v.row \in 0..(Height - 1)
<1>1. PICK n \in Nat : n = Len(all) /\ n >= 1
  BY DEF Shows
<1>2. v.row = n - 1 - Above(n)
  BY <1>1 DEF Shows
<1>3. CASE n > Height
  BY <1>2, <1>3, AboveIs, ScreenNumbers
<1>4. CASE n <= Height
  BY <1>1, <1>2, <1>4, AboveIs, ScreenNumbers
<1>. QED BY <1>3, <1>4, ScreenNumbers

\* What feeding a line does to rows and cursor.
Feeds(v, u) ==
  \/ /\ v.row < Height - 1 /\ u.row = v.row + 1
     /\ \A r \in Rows : u.text[r] = v.text[r]
  \/ /\ v.row = Height - 1 /\ u.row = Height - 1
     /\ \A r \in Rows : u.text[r] = IF r + 1 < Height THEN v.text[r + 1] ELSE BlankRow

\* Then a blank row follows what is shown.
LEMMA ShowsFeeds ==
  ASSUME NEW all \in Seq(ScreenRow), NEW v, NEW u, Shows(v, all), Feeds(v, u),
         NEW more, more = Append(all, BlankRow)
  PROVE  Shows(u, more)
<1>1. PICK h \in Nat : h = Height /\ h >= 1 /\ Rows = 0..(h - 1)
  BY ScreenNumbers DEF Rows
<1>2. PICK n \in Nat : n = Len(all) /\ n >= 1
  BY DEF Shows
<1>3. PICK a \in Nat, b \in Nat : /\ a = Above(n) /\ (n > h => a = n - h) /\ (n <= h => a = 0)
                                  /\ b = Above(n + 1) /\ (n + 1 > h => b = n + 1 - h)
                                  /\ (n + 1 <= h => b = 0)
  <2>1. n + 1 \in Nat
    OBVIOUS
  <2>2. Above(n) \in Nat /\ Above(n + 1) \in Nat
    BY <2>1, AboveIs
  <2>3. (n > h => Above(n) = n - h) /\ (n <= h => Above(n) = 0)
    BY <1>1, AboveIs
  <2>4. (n + 1 > h => Above(n + 1) = n + 1 - h) /\ (n + 1 <= h => Above(n + 1) = 0)
    BY <1>1, <2>1, AboveIs
  <2>. QED BY <2>2, <2>3, <2>4
<1>4. BlankRow \in ScreenRow
  BY DEF BlankRow, ScreenRow, Shown
<1>5. Len(more) = n + 1 /\ more[n + 1] = BlankRow /\ \A i \in 1..n : more[i] = all[i]
  BY <1>2, <1>4
<1>6. /\ v.row = n - 1 - a
      /\ \A r \in Rows : v.text[r] = IF a + r + 1 <= n THEN all[a + r + 1] ELSE BlankRow
  BY <1>2, <1>3 DEF Shows
<1>7. u.row = (n + 1) - 1 - b
  <2>1. PICK q \in Int : q = n - 1 - a /\ q = v.row
    BY <1>6
  <2>2. (q < h - 1 /\ u.row = q + 1) \/ (q = h - 1 /\ u.row = h - 1)
    BY <1>1, <2>1 DEF Feeds
  <2>3. (q < h - 1 => q + 1 = (n + 1) - 1 - b) /\ (q = h - 1 => h - 1 = (n + 1) - 1 - b)
    BY <1>1, <1>2, <1>3, <2>1
  <2>. QED BY <2>2, <2>3
<1>8. ASSUME NEW r \in Rows
      PROVE  u.text[r] = IF b + r + 1 <= n + 1 THEN more[b + r + 1] ELSE BlankRow
  <2>1. r \in Nat /\ r < h
    BY <1>1
  <2>2. b + r + 1 <= n => b + r + 1 \in 1..n
    BY <2>1
  <2>3. b + r + 1 <= n => more[b + r + 1] = all[b + r + 1]
    BY <1>5, <2>2
  <2>4. CASE v.row < h - 1
    <3>1. a = 0 /\ b = 0
      BY <1>1, <1>2, <1>3, <1>6, <2>4
    <3>2. u.text[r] = v.text[r]
      BY <1>1, <2>4 DEF Feeds
    <3>3. v.text[r] = IF b + r + 1 <= n THEN all[b + r + 1] ELSE BlankRow
      BY <1>6, <3>1
    <3>4. b + r + 1 <= n + 1 => b + r + 1 <= n \/ b + r + 1 = n + 1
      BY <2>1
    <3>5. b + r + 1 <= n => b + r + 1 <= n + 1
      BY <2>1
    <3>. QED BY <1>5, <2>3, <3>2, <3>3, <3>4, <3>5
  <2>5. CASE v.row = h - 1
    <3>1. b = a + 1 /\ b + h = n + 1
      <4>1. n - 1 - a = h - 1
        BY <1>6, <2>5
      <4>2. n = a + h /\ n + 1 > h
        BY <4>1
      <4>3. b = n + 1 - h
        BY <1>3, <4>2
      <4>. QED BY <4>2, <4>3
    <3>2. u.text[r] = IF r + 1 < h THEN v.text[r + 1] ELSE BlankRow
      BY <1>1, <2>5 DEF Feeds
    <3>3. CASE r + 1 < h
      <4>1. r + 1 \in Rows /\ a + (r + 1) + 1 = b + r + 1 /\ b + r + 1 <= n
        BY <1>1, <2>1, <3>1, <3>3
      <4>2. v.text[r + 1] = all[b + r + 1]
        BY <1>6, <4>1
      <4>3. b + r + 1 <= n + 1
        BY <2>1, <4>1
      <4>. QED BY <2>3, <3>2, <3>3, <4>1, <4>2, <4>3
    <3>4. CASE ~(r + 1 < h)
      <4>1. b + r + 1 = n + 1 /\ b + r + 1 <= n + 1
        BY <2>1, <3>1, <3>4
      <4>. QED BY <1>5, <3>2, <3>4, <4>1
    <3>. QED BY <3>3, <3>4
  <2>6. v.row < h - 1 \/ v.row = h - 1
    BY <1>1 DEF Feeds
  <2>. QED BY <2>4, <2>5, <2>6
<1>9. n + 1 >= 1
  OBVIOUS
<1>. QED BY <1>3, <1>5, <1>7, <1>8, <1>9 DEF Shows

\* Rows with the same cells are the same.
LEMMA SameRow ==
  ASSUME NEW A, NEW B, NEW a \in [Columns -> A], NEW b \in [Columns -> B],
         \A j \in Columns : a[j] = b[j]
  PROVE  a = b
<1>1. a = [j \in Columns |-> a[j]] /\ b = [j \in Columns |-> b[j]]
  OBVIOUS
<1>. QED BY <1>1

\* A character that is put down in the row of the cursor.
Puts(u, w, c, x) ==
  /\ w.row = u.row
  /\ \A i \in Rows, j \in Columns :
       w.text[i][j] = IF i = u.row /\ j = c THEN x ELSE u.text[i][j]

LEMMA ShowsPut ==
  ASSUME NEW all \in Seq(ScreenRow), NEW more \in Seq(ScreenRow),
         NEW u, NEW w, w.text \in Texts(Cells),
         NEW c \in Columns, NEW x, Shows(u, all), Grows(all, more, c, x), Puts(u, w, c, x)
  PROVE  Shows(w, more)
<1>1. PICK h \in Nat : h = Height /\ h >= 1 /\ Rows = 0..(h - 1)
  BY ScreenNumbers DEF Rows
<1>2. PICK n \in Nat : n = Len(all) /\ n >= 1
  BY DEF Shows
<1>3. PICK a \in Nat : a = Above(n) /\ (n > h => a = n - h) /\ (n <= h => a = 0)
  BY <1>1, AboveIs
<1>4. c < Width
  BY ScreenNumbers DEF Columns
<1>5. Len(more) = n
  BY <1>2, <1>4 DEF Grows
<1>6. \A r \in 1..n, j \in Columns : more[r][j] = IF r = n /\ j = c THEN x ELSE all[r][j]
  BY <1>2, <1>4 DEF Grows
<1>7. /\ u.row = n - 1 - a
      /\ \A r \in Rows : u.text[r] = IF a + r + 1 <= n THEN all[a + r + 1] ELSE BlankRow
  BY <1>2, <1>3 DEF Shows
<1>8. ASSUME NEW r \in Rows
      PROVE  w.text[r] = IF a + r + 1 <= n THEN more[a + r + 1] ELSE BlankRow
  <2>1. r \in Nat /\ (r = u.row <=> a + r + 1 = n)
    <3>1. r \in Nat
      BY <1>1
    <3>2. r = n - 1 - a <=> a + r + 1 = n
      BY <3>1
    <3>. QED BY <1>7, <3>1, <3>2
  <2>2. w.text[r] \in [Columns -> Cells]
    BY DEF Texts
  <2>3. \A j \in Columns : w.text[r][j] = IF r = u.row /\ j = c THEN x ELSE u.text[r][j]
    BY DEF Puts
  <2>4. CASE a + r + 1 <= n
    <3>1. PICK k \in 1..n : k = a + r + 1
      BY <2>1, <2>4
    <3>2. u.text[r] = all[k]
      BY <1>7, <2>4, <3>1
    <3>3. \A j \in Columns : more[k][j] = IF k = n /\ j = c THEN x ELSE all[k][j]
      BY <1>6
    <3>4. \A j \in Columns : w.text[r][j] = more[k][j]
      BY <2>1, <2>3, <3>1, <3>2, <3>3
    <3>5. more[k] \in [Columns -> Shown]
      BY <1>5 DEF ScreenRow
    <3>6. w.text[r] = more[k]
      BY <2>2, <3>4, <3>5, SameRow
    <3>. QED BY <2>4, <3>1, <3>6
  <2>5. CASE ~(a + r + 1 <= n)
    <3>1. r # u.row /\ u.text[r] = BlankRow
      BY <1>7, <2>1, <2>5
    <3>2. \A j \in Columns : w.text[r][j] = BlankRow[j]
      BY <2>3, <3>1
    <3>3. BlankRow \in [Columns -> {Blank}]
      BY DEF BlankRow
    <3>4. w.text[r] = BlankRow
      BY <2>2, <3>2, <3>3, SameRow
    <3>. QED BY <2>5, <3>4
  <2>. QED BY <2>4, <2>5
<1>. QED BY <1>2, <1>3, <1>5, <1>7, <1>8 DEF Shows, Puts

\* A row that begins is a blank one with a character.
LEMMA BlankThenPut ==
  ASSUME NEW all \in Seq(ScreenRow), NEW more, NEW x, NEW c, c = Width, Grows(all, more, c, x),
         NEW blank, blank = Append(all, BlankRow)
  PROVE  blank \in Seq(ScreenRow) /\ Grows(blank, more, 0, x)
<1>1. BlankRow \in ScreenRow
  BY DEF BlankRow, ScreenRow, Shown
<1>2. PICK n \in Nat : n = Len(all)
  OBVIOUS
<1>3. /\ blank \in Seq(ScreenRow) /\ Len(blank) = n + 1
      /\ blank[n + 1] = BlankRow /\ \A i \in 1..n : blank[i] = all[i]
  BY <1>1, <1>2
<1>4. ~(c < Width) /\ 0 < Width
  BY ScreenNumbers
<1>5. /\ Len(more) = n + 1
      /\ \A r \in 1..n, j \in Columns : more[r][j] = all[r][j]
      /\ \A j \in Columns : more[n + 1][j] = IF j = 0 THEN x ELSE Blank
  BY <1>2, <1>4 DEF Grows
<1>6. ASSUME NEW r \in 1..(n + 1), NEW j \in Columns
      PROVE  more[r][j] = IF r = n + 1 /\ j = 0 THEN x ELSE blank[r][j]
  <2>1. CASE r = n + 1
    <3>1. blank[r][j] = Blank
      BY <1>3, <2>1 DEF BlankRow
    <3>. QED BY <1>5, <2>1, <3>1
  <2>2. CASE r # n + 1
    <3>1. r \in 1..n
      BY <2>2
    <3>. QED BY <1>3, <1>5, <2>2, <3>1
  <2>. QED BY <2>1, <2>2
<1>. QED BY <1>3, <1>4, <1>5, <1>6 DEF Grows

\* The screen shows plain text, and the cursor is where the next character goes.
ShowsText(v, t) ==
  \E lines \in Seq(Line), m \in Nat :
    /\ lines = Lines(t) /\ m = Len(lines) /\ m >= 1
    /\ v.esc = 0 /\ v.col = EndOf(lines[m])
    /\ Shows(v, Laid(lines))

\* A line feed goes on with a blank row.
LEMMA LineFeedShows ==
  ASSUME NEW t \in Seq(PlainChars), NEW v \in Screens(Cells), ShowsText(v, t),
         NEW w, w = LineFeed(v)
  PROVE  ShowsText(w, Append(t, "LF"))
<1>1. PICK lines \in Seq(Line), m \in Nat :
        /\ lines = Lines(t) /\ m = Len(lines) /\ m >= 1
        /\ v.esc = 0 /\ v.col = EndOf(lines[m])
        /\ Shows(v, Laid(lines))
  BY DEF ShowsText
<1>2. PICK more : more = Continued(lines, "LF")
  OBVIOUS
<1>3. /\ more \in Seq(Line) /\ Len(more) = m + 1 /\ EndOf(more[m + 1]) = 0
      /\ Laid(lines) \in Seq(ScreenRow)
      /\ Laid(more) = Append(Laid(lines), BlankRow)
  BY <1>1, <1>2, LaidFeeds
<1>4. more = Lines(Append(t, "LF"))
  <2>1. "LF" \in PlainChars
    BY DEF PlainChars
  <2>. QED BY <1>1, <1>2, <2>1, LinesOneMore
<1>5. /\ w.col = 0 /\ w.esc = v.esc
      /\ v.row < Height - 1 => w.row = v.row + 1 /\ w.text = v.text
      /\ v.row >= Height - 1 =>
           /\ w.row = Height - 1
           /\ \A i \in Rows : w.text[i] = IF i + 1 < Height THEN v.text[i + 1] ELSE BlankRow
  <2>1. Blank \in Cells
    BY DEF Cells
  <2>. QED BY <2>1, LineFeedKeeps
<1>6. v.row \in 0..(Height - 1)
  BY <1>1, <1>3, ShownRow
<1>7. Feeds(v, w)
  <2>1. v.row < Height - 1 \/ v.row = Height - 1
    BY <1>6, ScreenNumbers
  <2>. QED BY <1>5, <1>6, <2>1 DEF Feeds
<1>8. Shows(w, Laid(more))
  BY <1>1, <1>3, <1>7, ShowsFeeds
<1>9. m + 1 \in Nat /\ m + 1 >= 1
  OBVIOUS
<1>. QED BY <1>1, <1>3, <1>4, <1>5, <1>8, <1>9 DEF ShowsText

\* Any other character is put down behind the last.
LEMMA PutDownShows ==
  ASSUME NEW t \in Seq(PlainChars), NEW v \in Screens(Cells), ShowsText(v, t),
         NEW x \in Printed, x # "LF", NEW w, w = PutDown(v, x)
  PROVE  ShowsText(w, Append(t, x))
<1>1. PICK lines \in Seq(Line), m \in Nat :
        /\ lines = Lines(t) /\ m = Len(lines) /\ m >= 1
        /\ v.esc = 0 /\ v.col = EndOf(lines[m])
        /\ Shows(v, Laid(lines))
  BY DEF ShowsText
<1>2. PICK more, c : more = Continued(lines, x) /\ c = EndOf(lines[m])
  OBVIOUS
<1>3. /\ more \in Seq(Line) /\ Len(more) = m
      /\ c \in 0..Width /\ EndOf(more[m]) = IF c < Width THEN c + 1 ELSE 1
      /\ Laid(lines) \in Seq(ScreenRow) /\ Laid(more) \in Seq(ScreenRow)
      /\ Grows(Laid(lines), Laid(more), c, x)
  BY <1>1, <1>2, LaidGrows
<1>4. more = Lines(Append(t, x))
  <2>1. x \in PlainChars
    BY DEF PlainChars
  <2>. QED BY <1>1, <1>2, <2>1, LinesOneMore
<1>5. PICK r, u : r = Room(v) /\ u = MayScroll(r)
  OBVIOUS
<1>6. /\ w \in ScreensAt(Cells, Rows) /\ w.esc = v.esc
      /\ u \in ScreensAt(Cells, Rows)
      /\ u.col = IF v.col >= Width THEN 0 ELSE v.col
      /\ w.row = u.row /\ w.col = u.col + 1
      /\ \A i \in Rows, j \in Columns :
           w.text[i][j] = IF i = u.row /\ j = u.col THEN x ELSE u.text[i][j]
  <2>1. Blank \in Cells /\ x \in Cells
    BY DEF Cells
  <2>2. u = MayScroll(Room(v))
    BY <1>5
  <2>. QED BY <2>1, <2>2, PutDownKeeps
<1>7. w.text \in Texts(Cells)
  BY <1>6 DEF ScreensAt
<1>8. v.row \in 0..(Height - 1)
  BY <1>1, <1>3, ShownRow
<1>9. CASE c < Width
  <2>1. v.col = c /\ ~(v.col >= Width) /\ c \in Columns
    BY <1>1, <1>2, <1>3, <1>9, ScreenNumbers DEF Columns
  <2>2. u = v
    <3>1. r = v
      BY <1>5, <2>1 DEF Room
    <3>2. v.row < Height
      BY <1>8, ScreenNumbers
    <3>. QED BY <1>5, <3>1, <3>2 DEF MayScroll
  <2>3. Shows(w, Laid(more))
    <3>1. Shows(u, Laid(lines))
      BY <1>1, <2>2
    <3>2. u.col = c
      BY <2>1, <2>2
    <3>3. Puts(u, w, c, x)
      BY <1>6, <3>2 DEF Puts
    <3>. QED BY <1>3, <1>7, <2>1, <3>1, <3>3, ShowsPut
  <2>4. w.col = EndOf(more[m])
    BY <1>3, <1>6, <1>9, <2>1
  <2>. QED BY <1>1, <1>3, <1>4, <1>6, <2>3, <2>4 DEF ShowsText
<1>10. CASE ~(c < Width)
  <2>1. c = Width /\ v.col >= Width /\ 0 \in Columns
    BY <1>1, <1>2, <1>3, <1>10, ScreenNumbers DEF Columns
  <2>2. Feeds(v, u)
    <3>1. r = [v EXCEPT !.row = v.row + 1, !.col = 0]
      BY <1>5, <2>1 DEF Room
    <3>2. /\ r \in ScreensAt(Cells, 0..(Height + 1))
          /\ r.row = v.row + 1 /\ r.text = v.text
      <4>1. v.row + 1 \in 0..(Height + 1) /\ 0 \in 0..Width
        BY <1>8, ScreenNumbers
      <4>. QED BY <3>1, <4>1 DEF Screens, ScreensAt
    <3>3. /\ u.row = IF r.row < Height THEN r.row ELSE Height - 1
          /\ \A i \in Rows : u.text[i] = IF i + (r.row - u.row) < Height
                                         THEN r.text[i + (r.row - u.row)] ELSE BlankRow
      <4>1. Blank \in Cells
        BY DEF Cells
      <4>. QED BY <1>5, <3>2, <4>1, MayScrollKeeps
    <3>4. CASE v.row < Height - 1
      <4>1. r.row < Height /\ r.row - u.row = 0 /\ u.row = v.row + 1
        BY <1>8, <3>2, <3>3, <3>4, ScreenNumbers
      <4>2. \A i \in Rows : i + 0 < Height /\ i + 0 = i
        BY ScreenNumbers DEF Rows
      <4>3. \A i \in Rows : u.text[i] = v.text[i]
        BY <3>2, <3>3, <4>1, <4>2
      <4>. QED BY <3>4, <4>1, <4>3 DEF Feeds
    <3>5. CASE v.row = Height - 1
      <4>1. ~(r.row < Height) /\ u.row = Height - 1 /\ r.row - u.row = 1
        BY <3>2, <3>3, <3>5, ScreenNumbers
      <4>2. \A i \in Rows : u.text[i] = IF i + 1 < Height THEN v.text[i + 1] ELSE BlankRow
        BY <3>2, <3>3, <4>1
      <4>. QED BY <3>5, <4>1, <4>2 DEF Feeds
    <3>. QED BY <1>8, <3>4, <3>5, ScreenNumbers
  <2>3. PICK blank : blank = Append(Laid(lines), BlankRow)
    OBVIOUS
  <2>4. Shows(u, blank)
    BY <1>1, <1>3, <2>2, <2>3, ShowsFeeds
  <2>5. blank \in Seq(ScreenRow) /\ Grows(blank, Laid(more), 0, x)
    BY <1>3, <2>1, <2>3, BlankThenPut
  <2>6. u.col = 0
    BY <1>6, <2>1
  <2>7. Shows(w, Laid(more))
    <3>1. Puts(u, w, 0, x)
      BY <1>6, <2>6 DEF Puts
    <3>. QED BY <1>3, <1>7, <2>1, <2>4, <2>5, <3>1, ShowsPut
  <2>8. w.col = EndOf(more[m])
    BY <1>3, <1>6, <1>10, <2>6
  <2>. QED BY <1>1, <1>3, <1>4, <1>6, <2>7, <2>8 DEF ShowsText
<1>. QED BY <1>9, <1>10

\* A screen that was cleared shows no text.
LEMMA ClearedShows ==
  ASSUME NEW v, v.row = 0, v.col = 0, v.esc = 0, v.text = BlankText
  PROVE  ShowsText(v, << >>)
<1>1. PICK one : one = Lines(<< >>)
  OBVIOUS
<1>2. one \in Seq(Line) /\ Len(one) = 1 /\ EndOf(one[1]) = 0 /\ Laid(one) = <<BlankRow>>
  BY <1>1, LaidNothing
<1>3. PICK all : all = Laid(one) /\ Len(all) = 1 /\ all[1] = BlankRow
  BY <1>2
<1>4. Above(1) = 0
  BY AboveIs, ScreenNumbers
<1>5. \A r \in Rows : v.text[r] = BlankRow /\ (0 + r + 1 <= 1 => 0 + r + 1 = 1)
  BY ScreenNumbers DEF BlankText, Rows
<1>6. Shows(v, all)
  BY <1>3, <1>4, <1>5 DEF Shows
<1>7. 1 \in Nat /\ 1 >= 1
  OBVIOUS
<1>. QED BY <1>1, <1>2, <1>3, <1>6, <1>7 DEF ShowsText

\* The sequence that clears the screen does.
LEMMA ClearingShows ==
  ASSUME NEW v \in Screens(Cells), v.esc = 3, v.parms[1] = 2, NEW w, w = Write(v, "J")
  PROVE  ShowsText(w, << >>)
<1>1. PICK u : u = [v EXCEPT !.esc = 0]
  OBVIOUS
<1>2. u.esc = 0 /\ u.parms = v.parms
  BY <1>1 DEF Screens, ScreensAt
<1>3. PICK k : k = [u EXCEPT !.row = 0, !.col = 0, !.text = BlankText]
  OBVIOUS
<1>4. k.row = 0 /\ k.col = 0 /\ k.text = BlankText /\ k.esc = 0
  BY <1>1, <1>3 DEF Screens, ScreensAt
<1>5. Command(u, "J") = k
  BY <1>2, <1>3 DEF Command, Clear
<1>6. Parameter(v, "J") = k
  <2>1. "J" # Separator
    BY Zenon DEF Separator
  <2>. QED BY <1>1, <1>5, <2>1 DEF Parameter, Digits
<1>7. w = Forgotten(k)
  BY <1>6 DEF Write
<1>8. w = [k EXCEPT !.parms = <<0>>]
  BY <1>4, <1>7 DEF Forgotten
<1>9. w.row = 0 /\ w.col = 0 /\ w.text = BlankText /\ w.esc = 0
  BY <1>1, <1>3, <1>8 DEF Screens, ScreensAt
<1>. QED BY <1>9, ClearedShows

\* A plain character is shown.
LEMMA PlainShows ==
  ASSUME NEW t \in Seq(PlainChars), NEW v \in Screens(Cells), ShowsText(v, t),
         NEW ch \in PlainChars, NEW w, w = Write(v, ch)
  PROVE  ShowsText(w, Append(t, ch))
<1>1. v.esc = 0
  BY DEF ShowsText
<1>2. CASE ch = "LF"
  <2>1. w = LineFeed(v)
    BY <1>2 DEF Write
  <2>. QED BY <1>2, <2>1, LineFeedShows
<1>3. CASE ch # "LF"
  <2>1. ch \in Printed /\ ch \notin {"BS", "HT", "CR", "LF", "FF", "CAN", "ESC", "CSI"}
    BY <1>3, PrintedAssumption DEF PlainChars
  <2>2. PICK u : u = PutDown(v, ch)
    OBVIOUS
  <2>3. u = AddCh(v, ch)
    BY <2>1, <2>2 DEF AddCh
  <2>4. ShowsText(u, Append(t, ch))
    BY <1>3, <2>1, <2>2, PutDownShows
  <2>5. CASE ch = "a"
    BY <2>3, <2>4, <2>5 DEF Write
  <2>6. CASE ch # "a"
    <3>1. w = Forgotten(u)
      BY <1>1, <2>1, <2>3, <2>6 DEF Write
    <3>2. u \in Screens(Cells) /\ u.esc = 0
      <4>1. ch \in Cells /\ Blank \in Cells
        BY <2>1 DEF Cells
      <4>. QED BY <1>1, <2>3, <4>1, AddChKeeps
    <3>3. w = [u EXCEPT !.parms = <<0>>]
      BY <3>1, <3>2 DEF Forgotten
    <3>4. w.row = u.row /\ w.col = u.col /\ w.text = u.text /\ w.esc = u.esc
      BY <3>2, <3>3 DEF Screens, ScreensAt
    <3>. QED BY <2>4, <3>4 DEF ShowsText, Shows
  <2>. QED BY <2>5, <2>6
<1>. QED BY <1>2, <1>3


(***************************************************************************)
(* The web client.                                                         *)
(***************************************************************************)
TerminalInv ==
  /\ vt \in Screens(Cells) /\ Len(vt.parms) \in 1..MaxParms
  /\ grabbed \in BOOLEAN /\ keyBuf \in Seq(Keys) /\ timers \in Nat

ClientInv ==
  /\ page \in {"chat", "telnet", "terminal"}
  /\ page = "chat" => ChatInv
  /\ page # "chat" => screen = "login"
  /\ page = "telnet" => TelnetInv
  /\ page = "terminal" => TerminalInv

\* A new Websock has no WebSocket yet, and has sent nothing.
LEMMA NewWebsockIsOne ==
  ASSUME NEW T, NEW w, w = NewWebsock
  PROVE  /\ w \in Websocks(T) /\ OneIsLive(w) /\ w.wire \in Wires(T)
         /\ w.current = NoConnection /\ w.made = NoConnection
         /\ w.sQ = << >> /\ w.rQ = << >>
         /\ Handed(w) = << >>
<1>1. PICK ready, wire : /\ ready = [c \in Connections |-> "none"]
                         /\ wire = [c \in Connections |-> << >>]
  OBVIOUS
<1>2. ready \in [Connections -> ReadyStates]
  BY <1>1 DEF ReadyStates
<1>3. wire \in Wires(T)
  <2>1. << >> \in Seq(Seq(T \cup {Zeros}))
    OBVIOUS
  <2>. QED BY <1>1, <2>1 DEF Wires
<1>4. w = [current |-> NoConnection, made |-> NoConnection, ready |-> ready, wire |-> wire,
           sQ |-> << >>, rQ |-> << >>, rQi |-> 0]
  BY <1>1 DEF NewWebsock
<1>5. << >> \in Seq(T \cup {Zeros}) /\ 0 \in Nat
  OBVIOUS
<1>6. w \in Websocks(T)
  BY <1>2, <1>3, <1>4, <1>5 DEF Websocks, Wires
<1>7. /\ w.current = NoConnection /\ w.made = NoConnection /\ w.ready = ready /\ w.wire = wire
      /\ w.sQ = << >> /\ w.rQ = << >>
  BY <1>4
<1>8. OneIsLive(w)
  BY <1>1, <1>7 DEF OneIsLive, NoConnection
<1>9. Handed(w) = << >>
  <2>1. Pieces(w) \in Seq(Seq(T \cup {Zeros})) /\ Len(Pieces(w)) = 0
    BY <1>6, <1>7, HandedType DEF NoConnection
  <2>. QED BY <2>1, FlattenNothing DEF Handed
<1>. QED BY <1>3, <1>6, <1>7, <1>8, <1>9

\* The screen is blank at first.
LEMMA NewScreenIsOne ==
  ASSUME NEW w, w = NewScreen
  PROVE  w \in Screens(Cells) /\ Len(w.parms) \in 1..MaxParms
<1>1. BlankText \in Texts(Cells)
  BY DEF BlankText, BlankRow, Texts, Cells
<1>2. PICK parms \in Seq(Nat) : parms = <<0>> /\ Len(parms) = 1
  <2>1. <<0>> \in Seq(Nat) /\ Len(<<0>>) = 1
    OBVIOUS
  <2>. QED BY <2>1
<1>3. w = [row |-> 0, col |-> 0, text |-> BlankText, esc |-> 0, parms |-> parms]
  BY <1>2 DEF NewScreen
<1>4. 0 \in 0..Height /\ 0 \in 0..Width /\ 0 \in 0..6 /\ 1 \in 1..MaxParms
  BY ScreenNumbers
<1>5. w \in Screens(Cells)
  BY <1>1, <1>3, <1>4 DEF Screens, ScreensAt
<1>. QED BY <1>2, <1>3, <1>4, <1>5

\* Every page begins in its invariant.
LEMMA ClientBegins ==
  ASSUME Init PROVE ClientInv
<1>1. /\ page \in {"chat", "telnet", "terminal"} /\ sock = NewWebsock
      /\ ChatInit /\ TelnetInit /\ VTInit
  BY DEF Init
<1>2. screen = "login"
  BY <1>1 DEF ChatInit
<1>3. /\ vt \in Screens(Cells) /\ Len(vt.parms) \in 1..MaxParms
      /\ grabbed = FALSE /\ keyBuf = << >> /\ timers = 1
  BY <1>1, NewScreenIsOne DEF VTInit
<1>4. keyBuf \in Seq(Keys) /\ timers \in Nat
  BY <1>3
<1>5. TerminalInv
  BY <1>3, <1>4 DEF TerminalInv
<1>6. TelnetInv
  <2>1. /\ sock \in Websocks(Tokens) /\ OneIsLive(sock) /\ sock.current = sock.made
        /\ Handed(sock) = << >> /\ sock.sQ = << >>
    BY <1>1, NewWebsockIsOne
  <2>2. connectButton = "connect" /\ typed = << >>
    BY <1>1 DEF TelnetInit
  <2>3. << >> \in Seq(Keys) /\ Len(<< >>) = 0 /\ (<< >> \o << >>) \o << >> = << >>
    OBVIOUS
  <2>4. Out(sock, keyBuf) = << >>
    BY <1>3, <2>1, <2>3 DEF Out
  <2>5. InOrder(<< >>, << >>)
    BY <2>3 DEF InOrder
  <2>6. InOrder(Out(sock, keyBuf), typed)
    BY <2>2, <2>4, <2>5
  <2>7. typed \in Seq(Keys) /\ Len(typed) <= MaxKeys
    BY <2>2, <2>3, MaxKeysAssumption
  <2>. QED BY <1>3, <1>4, <2>1, <2>2, <2>6, <2>7 DEF TelnetInv
<1>7. ChatInv
  <2>1. SockOK(sock)
    <3>1. sock \in Websocks(Talk) /\ OneIsLive(sock) /\ sock.rQ = << >> /\ sock.sQ = << >>
      BY <1>1, NewWebsockIsOne
    <3>2. sock.wire \in Wires(Requests)
      BY <1>1, NewWebsockIsOne
    <3>3. << >> \in Seq(Requests \cup {Zeros}) /\ \A i \in 1..Len(<< >>) : FALSE
      OBVIOUS
    <3>. QED BY <3>1, <3>2, <3>3 DEF SockOK
  <2>2. PageTypes
    BY <1>1 DEF ChatInit, PageTypes, Replies
  <2>3. ProxyTypes
    BY <1>1 DEF ChatInit, ProxyTypes
  <2>4. StreamTypes /\ RepliesAreTrue
    <3>1. << >> \in Seq(Seq(Replies)) /\ << >> \in Seq(Replies) /\ \A i \in 1..Len(<< >>) : FALSE
      OBVIOUS
    <3>2. \A c \in Connections : down[c] = << >> /\ fromServer[c] = << >>
      BY <1>1 DEF ChatInit
    <3>3. StreamTypes
      BY <1>1, <3>1 DEF ChatInit, StreamTypes
    <3>4. ~Contains(<< >>, "login")
      BY <3>1 DEF Contains
    <3>. QED BY <3>1, <3>2, <3>3, <3>4 DEF RepliesAreTrue, NoReplyYet
  <2>5. ServerTypes
    <3>1. << >> \in Seq(Requests \cup {Zeros}) /\ << >> \in Seq(Requests)
      OBVIOUS
    <3>. QED BY <1>1, <3>1 DEF ChatInit, ServerTypes
  <2>6. ChatIsOfThisConnection
    BY <1>2 DEF ChatIsOfThisConnection
  <2>. QED BY <2>1, <2>2, <2>3, <2>4, <2>5, <2>6 DEF ChatInv
<1>. QED BY <1>1, <1>2, <1>5, <1>6, <1>7 DEF ClientInv

\* What a program writes keeps the screen.
LEMMA WrittenStep ==
  ASSUME TerminalInv, NEW ch \in Printed \cup Controls \cup InSequence, Written(ch)
  PROVE  TerminalInv'
<1>1. /\ vt' = Write(vt, ch)
      /\ grabbed' = grabbed /\ keyBuf' = keyBuf /\ timers' = timers
  BY DEF Written
<1>2. ch \in Cells /\ Blank \in Cells
  BY DEF Cells
<1>3. vt' \in Screens(Cells) /\ Len(vt'.parms) \in 1..MaxParms
  BY <1>1, <1>2, WriteKeeps DEF TerminalInv
<1>. QED BY <1>1, <1>3 DEF TerminalInv

\* Whatever page is open, a step keeps its invariant.
LEMMA ClientStep ==
  ASSUME ClientInv, [Next]_vars PROVE ClientInv'
<1>1. CASE UNCHANGED vars
  <2>1. page' = page /\ screen' = screen
    BY <1>1 DEF vars, chatVars, pageVars
  <2>2. ChatInv => ChatInv'
    BY <1>1 DEF vars, chatVars, pageVars, proxyVars, tcpVars, serverVars,
         ChatInv, SockOK, PageTypes, ProxyTypes, StreamTypes, ServerTypes,
         RepliesAreTrue, NoReplyYet, ChatIsOfThisConnection
  <2>3. TelnetInv => TelnetInv'
    BY <1>1 DEF vars, telnetVars, vtVars, TelnetInv
  <2>4. TerminalInv => TerminalInv'
    BY <1>1 DEF vars, telnetVars, vtVars, TerminalInv
  <2>. QED BY <2>1, <2>2, <2>3, <2>4 DEF ClientInv
<1>2. CASE page = "chat" /\ ChatNext /\ UNCHANGED <<page, plain, isPlain, telnetVars>>
  <2>1. ChatInv'
    BY <1>2, ChatStep DEF ClientInv
  <2>. QED BY <1>2, <2>1 DEF ClientInv
<1>3. CASE page = "telnet" /\ TelnetNext /\ UNCHANGED <<page, plain, isPlain, chatVars>>
  <2>1. TelnetInv'
    BY <1>3, TelnetStep DEF ClientInv
  <2>2. page' = page /\ screen' = screen
    BY <1>3 DEF chatVars, pageVars
  <2>. QED BY <1>3, <2>1, <2>2 DEF ClientInv
<1>4. ASSUME page = "terminal", NEW ch \in Printed \cup Controls \cup InSequence, Written(ch)
      PROVE  ClientInv'
  <2>1. TerminalInv'
    BY <1>4, WrittenStep DEF ClientInv
  <2>2. page' = page /\ screen' = screen
    BY <1>4 DEF Written, chatVars, pageVars
  <2>. QED BY <1>4, <2>1, <2>2 DEF ClientInv
<1>. QED BY <1>1, <1>2, <1>3, <1>4 DEF Next

\* The invariant of whatever page is open is never left.
LEMMA ClientInvariant ==
  Spec => []ClientInv
<1>1. Init => ClientInv
  BY ClientBegins
<1>2. ClientInv /\ [Next]_vars => ClientInv'
  BY ClientStep
<1>. QED BY <1>1, <1>2, PTL DEF Spec

\* Each page keeps the types of its variables: whatever is written, in whatever
\* state of an escape sequence and with whatever parameters, the cursor of the
\* terminal stays on the screen or in the row below it (addch, move and write of
\* VT100.js), and the proxy has no side of a WebSocket that was not made.
THEOREM WebClientTypes ==
  Spec => []TypeOK
<1>1. ClientInv => TypeOK
  <2>1. SUFFICES ASSUME ClientInv PROVE TypeOK
    OBVIOUS
  <2>2. page = "chat" => ChatTypeOK
    BY <2>1, ChatTypes DEF ClientInv
  <2>3. page = "telnet" => TelnetTypeOK
    BY <2>1, TelnetTypes DEF ClientInv
  <2>4. page = "terminal" => VTTypeOK(Keys)
    <3>1. SUFFICES ASSUME TerminalInv PROVE VTTypeOK(Keys)
      BY <2>1 DEF ClientInv
    <3>2. vt.row \in 0..Height /\ vt.col \in 0..Width
      BY <3>1 DEF TerminalInv, Screens, ScreensAt
    <3>3. DOMAIN vt.text = Rows /\ \A r \in Rows : DOMAIN vt.text[r] = Columns
      BY <3>1 DEF TerminalInv, Screens, ScreensAt, Texts
    <3>4. vt.esc \in 0..6 /\ vt.parms \in Seq(Nat)
      BY <3>1 DEF TerminalInv, Screens, ScreensAt
    <3>. QED BY <3>1, <3>2, <3>3, <3>4 DEF TerminalInv, VTTypeOK
  <2>. QED BY <2>2, <2>3, <2>4 DEF TypeOK
<1>. QED BY <1>1, ClientInvariant, PTL

\* The chat page shows the chat only for a login the server accepted on the very
\* connection it has now, over however many connections and whatever the queues of
\* the Websock, the proxy and the server hold of earlier ones: what recvMsg takes
\* for the reply to a login is one.
THEOREM ChatBelongsToItsConnection ==
  Spec => []ChatIsOfThisConnection
<1>1. ClientInv => ChatIsOfThisConnection
  <2>1. SUFFICES ASSUME ClientInv PROVE ChatIsOfThisConnection
    OBVIOUS
  <2>2. CASE page = "chat"
    BY <2>1, <2>2 DEF ClientInv, ChatInv
  <2>3. CASE page # "chat"
    BY <2>1, <2>3 DEF ClientInv, ChatIsOfThisConnection
  <2>. QED BY <2>2, <2>3
<1>. QED BY <1>1, ClientInvariant, PTL

\* Every key typed on the telnet page is handed over once and in the order typed,
\* over however many connections (key_down, go_getch_ and send_chr over send and
\* flush of websock.js); a zero goes out in the place of one that waited in the
\* send queue when init put a new buffer under the old length.
THEOREM KeysStayInOrder ==
  Spec => []KeysGoOutInOrder
<1>1. ClientInv => KeysGoOutInOrder
  <2>1. SUFFICES ASSUME TelnetInv, page = "telnet" PROVE KeysGoOutInOrder
    BY DEF ClientInv, KeysGoOutInOrder
  <2>2. KeysOut = Out(sock, keyBuf)
    BY DEF KeysOut, Out, Handed, Pieces
  <2>. QED BY <2>1, <2>2 DEF TelnetInv, InOrder, KeysGoOutInOrder
<1>. QED BY <1>1, ClientInvariant, PTL

\* What is plain stays shown.
PlainInv ==
  page = "terminal" /\ isPlain => plain \in Seq(PlainChars) /\ ShowsText(vt, plain)

\* The screen shows plain text from the beginning.
LEMMA PlainBegins ==
  ASSUME Init PROVE PlainInv
<1>1. vt = NewScreen /\ plain = << >>
  BY DEF Init, VTInit
<1>2. vt.row = 0 /\ vt.col = 0 /\ vt.esc = 0 /\ vt.text = BlankText
  BY <1>1 DEF NewScreen
<1>3. ShowsText(vt, << >>)
  BY <1>2, ClearedShows
<1>4. << >> \in Seq(PlainChars)
  OBVIOUS
<1>. QED BY <1>1, <1>3, <1>4 DEF PlainInv

\* What a program writes keeps plain text on the screen.
LEMMA PlainStep ==
  ASSUME ClientInv, PlainInv, [Next]_vars PROVE PlainInv'
<1>1. CASE UNCHANGED vars
  BY <1>1 DEF vars, telnetVars, vtVars, PlainInv
<1>2. CASE page # "terminal" /\ page' = page
  BY <1>2 DEF PlainInv
<1>3. ASSUME page = "terminal", NEW ch \in Printed \cup Controls \cup InSequence, Written(ch),
             isPlain'
      PROVE  plain' \in Seq(PlainChars) /\ ShowsText(vt', plain')
  <2>1. vt \in Screens(Cells) /\ vt' = Write(vt, ch)
    BY <1>3 DEF Written, ClientInv, TerminalInv
  <2>2. CASE vt.esc = 3 /\ ch = "J" /\ vt.parms[1] = 2 /\ plain' = << >>
    <3>1. ShowsText(vt', << >>)
      BY <2>1, <2>2, ClearingShows
    <3>2. << >> \in Seq(PlainChars)
      OBVIOUS
    <3>. QED BY <2>2, <3>1, <3>2
  <2>3. CASE /\ isPlain' = (isPlain /\ ch \in PlainChars)
             /\ plain' = IF isPlain' THEN Append(plain, ch) ELSE << >>
    <3>1. isPlain /\ ch \in PlainChars /\ plain' = Append(plain, ch)
      BY <1>3, <2>3
    <3>2. plain \in Seq(PlainChars) /\ ShowsText(vt, plain)
      BY <1>3, <3>1 DEF PlainInv
    <3>3. Append(plain, ch) \in Seq(PlainChars)
      BY <3>1, <3>2
    <3>4. ShowsText(vt', Append(plain, ch))
      BY <2>1, <3>1, <3>2, PlainShows
    <3>. QED BY <3>1, <3>3, <3>4
  <2>. QED BY <1>3, <2>2, <2>3 DEF Written
<1>. QED BY <1>1, <1>2, <1>3 DEF Next, PlainInv

\* What is shown is what the property says.
LEMMA PlainIsShown ==
  ASSUME PlainInv PROVE PlainTextIsShown
<1>. SUFFICES ASSUME page = "terminal", isPlain
              PROVE  LET all == Layout(plain)
                         above == IF Len(all) > Height THEN Len(all) - Height ELSE 0
                     IN  \A r \in Rows :
                           vt.text[r] = IF above + r + 1 <= Len(all) THEN all[above + r + 1]
                                        ELSE BlankRow
  BY DEF PlainTextIsShown
<1>1. PICK all : all = Layout(plain) /\ Shows(vt, all)
  BY DEF PlainInv, ShowsText, Layout
<1>. QED BY <1>1 DEF Shows, Above

\* Plain text stands where it should: whatever a program writes to the terminal,
\* text without any control sequence since the screen was cleared is laid out line
\* by line, a line that is too long going on in the next row, and the screen shows
\* the last rows of it.  This is about write, addch and may_scroll_.
THEOREM PlainTextStandsWhereItShould ==
  Spec => []PlainTextIsShown
<1>1. Init => PlainInv
  BY PlainBegins
<1>2. ClientInv /\ PlainInv /\ [Next]_vars => PlainInv'
  BY PlainStep
<1>3. PlainInv => PlainTextIsShown
  BY PlainIsShown
<1>. QED BY <1>1, <1>2, <1>3, ClientInvariant, PTL DEF Spec
===============================================================================
