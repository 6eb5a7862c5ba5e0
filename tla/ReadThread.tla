------------------------------ MODULE ReadThread ------------------------------
(***************************************************************************)
(* The thread that reads a connection and cuts the stream into requests    *)
(* (server.cpp, read_thread), against a client that writes requests        *)
(* (utils.cpp, vector2string) and goes away, and a network that hands over *)
(* what it has in pieces of any length.                                    *)
(*                                                                         *)
(* A request is a word over text, backslash and hash; on the wire these    *)
(* two are escaped by a backslash and an unescaped hash ends the request.  *)
(* The colons between the parts of a request play no role in the framing.  *)
(***************************************************************************)
EXTENDS Integers, SequencesExt

CONSTANTS
  Words,        \* the requests clients send
  BufferSize,   \* the most one read returns
  MaxRequests   \* bound: requests a client sends

ASSUME BoundsAssumption == BufferSize \in Nat \ {0} /\ MaxRequests \in Nat
ASSUME WordsAssumption == Words \subseteq Seq({"text", "\\", "#"})

VARIABLES
  patient,     \* whether the client waits for a request to be taken
  sent,        \* the requests written completely
  wire,        \* the bytes on their way, each with the number of its request
  ended,       \* how the stream ends: "no" end yet, "between" two requests or
               \* "inside" one, a "reset" still to be read, or "over" after one
  place,       \* where the thread is: "read", "scan", "more" or "gone"
  buffer,      \* buffer_str
  findPos,     \* find_pos
  produced,    \* the requests put into the queue
  closed       \* whether "closed" was put into the queue

vars == <<patient, sent, wire, ended, place, buffer, findPos, produced, closed>>

Bytes == [char : {"text", "\\", "#"}, of : 1..MaxRequests]

\* escape_special_chars for every byte, and the end of the message.
Escaped(word, n) ==
  FlattenSeq([i \in 1..Len(word) |->
    IF word[i] = "text" THEN <<[char |-> "text", of |-> n]>>
    ELSE <<[char |-> "\\", of |-> n], [char |-> word[i], of |-> n]>>])

Encoded(word, n) == Append(Escaped(word, n), [char |-> "#", of |-> n])

-------------------------------------------------------------------------------
(* The client *)

\* A patient client writes a request when those before it have been taken.
Ready ==
  /\ ended = "no"
  /\ Len(sent) < MaxRequests
  /\ patient => Len(produced) = Len(sent)

Send(word) ==
  /\ Ready
  /\ sent' = Append(sent, word)
  /\ wire' = wire \o Encoded(word, Len(sent) + 1)
  /\ UNCHANGED <<patient, ended, place, buffer, findPos, produced, closed>>

\* The client is killed or cut off while write has put down a part of a request
\* (a short write is not noticed: its result is only compared with 0).
Abort(word) ==
  /\ Ready
  /\ LET bytes == Escaped(word, Len(sent) + 1)
     IN  \E k \in 1..Len(bytes) : wire' = wire \o SubSeq(bytes, 1, k)
  /\ ended' = "inside"
  /\ UNCHANGED <<patient, sent, place, buffer, findPos, produced, closed>>

Exit ==
  /\ ended = "no"
  /\ ended' = "between"
  /\ UNCHANGED <<patient, sent, wire, place, buffer, findPos, produced, closed>>

\* The connection is reset or times out: what has not arrived yet is lost.
Reset ==
  /\ ended = "no"
  /\ ended' = "reset"
  /\ \E k \in 0..Len(wire) : wire' = SubSeq(wire, 1, k)
  /\ UNCHANGED <<patient, sent, place, buffer, findPos, produced, closed>>

-------------------------------------------------------------------------------
(* The thread *)

\* read returns 0 at the end, and again and again.
EndOfStream == wire = << >> /\ ended \in {"between", "inside", "over"}

\* After a reset read returns an error once; error() only prints it, and the
\* thread goes on with the buffer it has.
FailedRead ==
  /\ wire = << >>
  /\ ended = "reset"
  /\ ended' = "over"
  /\ UNCHANGED <<buffer, wire>>

\* read returns any part of what is there, up to the size of the buffer.
Chunks == {k \in 1..Len(wire) : k <= BufferSize}

\* What is left of the buffer is overwritten.
ReadAnew ==
  /\ \E k \in Chunks :
       /\ buffer' = SubSeq(wire, 1, k)
       /\ wire' = SubSeq(wire, k + 1, Len(wire))
  /\ UNCHANGED ended

ReadOn ==
  /\ place = "read"
  /\ ReadAnew \/ FailedRead
  /\ place' = "scan"
  /\ UNCHANGED <<patient, sent, findPos, produced, closed>>

\* The first read of a request, or the search of what is left once more.
Read ==
  /\ place = "read"
  /\ ReadAnew \/ FailedRead
  /\ findPos' = 0
  /\ place' = "scan"
  /\ UNCHANGED <<patient, sent, produced, closed>>

BreakSilently ==
  /\ place = "read"
  /\ EndOfStream
  /\ place' = "gone"
  /\ UNCHANGED <<patient, sent, wire, ended, buffer, findPos, produced, closed>>

ReadEnd ==
  /\ place = "read"
  /\ EndOfStream
  /\ closed' = TRUE
  /\ place' = "gone"
  /\ UNCHANGED <<patient, sent, wire, ended, buffer, findPos, produced>>

Hashes == {i \in (findPos + 1)..Len(buffer) : buffer[i].char = "#"}

LastHash == Max(Hashes)

FirstHash == Min(Hashes)

IgnoreBackslash(pos) == FALSE

\* The byte before the first one of a string is not a backslash: it belongs to
\* the length of the string or of its block of memory.
IsEscaped(pos) == pos > 1 /\ buffer[pos - 1].char = "\\"

Scan ==
  /\ place = "scan"
  /\ \/ /\ Hashes = {}
        /\ place' = "more"
        /\ UNCHANGED <<buffer, findPos, produced>>
     \/ /\ Hashes # {}
        /\ IsEscaped(FirstHash)
        /\ findPos' = FirstHash
        /\ UNCHANGED <<place, buffer, produced>>
     \/ /\ Hashes # {}
        /\ ~IsEscaped(FirstHash)
        /\ produced' = Append(produced, SubSeq(buffer, 1, FirstHash))
        /\ buffer' = SubSeq(buffer, FirstHash + 1, Len(buffer))
        /\ findPos' = FirstHash
        /\ place' = "read"
  /\ UNCHANGED <<patient, sent, wire, ended, closed>>

ReadOver ==
  /\ place = "more"
  /\ ReadAnew \/ FailedRead \/ (EndOfStream /\ UNCHANGED <<buffer, wire, ended>>)
  /\ place' = "scan"
  /\ UNCHANGED <<patient, sent, findPos, produced, closed>>

\* The end of the stream is not looked for inside a request.
ReadMore ==
  /\ place = "more"
  /\ \/ /\ \E k \in Chunks :
             /\ buffer' = buffer \o SubSeq(wire, 1, k)
             /\ wire' = SubSeq(wire, k + 1, Len(wire))
        /\ UNCHANGED ended
     \/ FailedRead
     \/ EndOfStream /\ UNCHANGED <<buffer, wire, ended>>
  /\ place' = "scan"
  /\ UNCHANGED <<patient, sent, findPos, produced, closed>>

-------------------------------------------------------------------------------

Init ==
  /\ patient \in BOOLEAN
  /\ sent = << >>
  /\ wire = << >>
  /\ ended = "no"
  /\ place = "read"
  /\ buffer = << >>
  /\ findPos = 0
  /\ produced = << >>
  /\ closed = FALSE

Thread == Read \/ ReadEnd \/ Scan \/ ReadMore

Client == Exit \/ Reset \/ \E word \in Words : Send(word) \/ Abort(word)

Next == Thread \/ Client

\* The thread goes on as long as there is something to read.
Spec == Init /\ [][Next]_vars /\ WF_vars(Thread)

-------------------------------------------------------------------------------
(* Properties *)

\* The thread's variables keep their types, and a search starts inside the buffer.
TypeOK ==
  /\ patient \in BOOLEAN
  /\ sent \in Seq(Words) /\ Len(sent) <= MaxRequests
  /\ wire \in Seq(Bytes)
  /\ ended \in {"no", "between", "inside", "reset", "over"}
  /\ place \in {"read", "scan", "more", "gone"}
  /\ buffer \in Seq(Bytes)
  /\ findPos \in Nat
  /\ place \in {"scan", "more"} => findPos <= Len(buffer)
  /\ produced \in Seq(Seq(Bytes))
  /\ closed \in BOOLEAN

\* A request that ends in a backslash has no end: its last hash is taken for an
\* escaped one.
HasEnd(word) == Last(word) # "\\"

AllHaveEnds == \A n \in 1..Len(sent) : HasEnd(sent[n])

\* Requests are taken as they were written, in order, however the network cuts
\* the stream and even if it loses the end, if the client waits for each to be
\* taken.
RequestsArriveWhole ==
  patient => \A n \in 1..Len(produced) :
               n <= Len(sent) /\ produced[n] = Encoded(sent[n], n)

\* What the thread takes from a client that does not wait is never made up of
\* bytes of two requests, also when it searches what it had left again after a
\* failed read.  It need not be whole: the beginning may have been lost with the
\* buffer, and with it the backslash before a hash, where the rest is cut again.
RequestsAreNotMixed ==
  AllHaveEnds => \A n \in 1..Len(produced) :
    \A i, j \in 1..Len(produced[n]) : produced[n][i].of = produced[n][j].of

\* Every request of a client that waits is taken at last, unless the connection
\* is reset.
EveryRequestArrives ==
  \A n \in 1..MaxRequests :
    (patient /\ Len(sent) = n /\ AllHaveEnds)
      ~> (Len(produced) >= n \/ ended \in {"reset", "over"})

\* The end of a client that closes its connection between two requests is
\* reported, whatever was lost before.  One that ends inside a request is not,
\* nor is a reset, unless the buffer still holds a whole request.
ClosingIsReported == (ended = "between" /\ AllHaveEnds) ~> closed
===============================================================================
