----------------------------- MODULE RequestStack -----------------------------
(***************************************************************************)
(* What the request queue of the server promises to the control thread:    *)
(* every request of every connection is handled exactly once.  The control *)
(* thread takes all that is pending at once and handles it newest first,   *)
(* which is the order lockless_queue hands it over in.                     *)
(***************************************************************************)
EXTENDS Naturals, Sequences

CONSTANTS Producers, MaxRequests

VARIABLES
  pending,   \* requests not taken yet, newest first
  batch,     \* requests taken and not handled yet, newest first
  handled    \* requests in the order they were handled

vars == <<pending, batch, handled>>

\* The i-th request of connection p.
Requests == Producers \X (1..MaxRequests)

Init == pending = << >> /\ batch = << >> /\ handled = << >>

Known == {pending[i] : i \in 1..Len(pending)} \cup {batch[i] : i \in 1..Len(batch)}
           \cup {handled[i] : i \in 1..Len(handled)}

Produce(request) ==
  /\ request \notin Known
  /\ pending' = <<request>> \o pending
  /\ UNCHANGED <<batch, handled>>

TakeAll ==
  /\ pending # << >> /\ batch = << >>
  /\ batch' = pending
  /\ pending' = << >>
  /\ UNCHANGED handled

HandleNewest ==
  /\ batch # << >>
  /\ handled' = Append(handled, Head(batch))
  /\ batch' = Tail(batch)
  /\ UNCHANGED pending

Next == (\E request \in Requests : Produce(request)) \/ TakeAll \/ HandleNewest

Spec == Init /\ [][Next]_vars /\ WF_vars(TakeAll) /\ WF_vars(HandleNewest)
===============================================================================
