------------------------------- MODULE WebClient -------------------------------
(***************************************************************************)
(* The web client: a visitor opens the chat page, the telnet page, or a    *)
(* page with a program that writes to a terminal of VT100.js (the telnet   *)
(* page would, if its receive handler got as far).                         *)
(***************************************************************************)
EXTENDS WebChat, Telnet

CONSTANTS
  Printed,   \* the characters it prints
  Controls,  \* those that are taken whatever came before
  InSequence,\* those it writes inside an escape sequence
  MaxPlain   \* bound: plain text written since the screen was cleared

ASSUME PrintedAssumption ==
  Printed \cap {"BS", "HT", "CR", "LF", "FF", "CAN", "ESC", "CSI"} = {}

VARIABLES
  page,      \* the page that is open
  plain,     \* the plain text written since the screen was cleared
  isPlain    \* whether nothing else was written since then

vars == <<page, plain, isPlain, sock, chatVars, telnetVars>>

PlainChars == Printed \cup {"LF"}

\* write, with one character.  Bound: a parameter has one digit.
Written(ch) ==
  /\ ch \in InSequence => vt.esc # 0
  /\ ch \in Digits => Last(vt.parms) = 0
  /\ isPlain /\ ch \in PlainChars => Len(plain) < MaxPlain
  /\ vt' = Write(vt, ch)
  /\ \/ /\ vt.esc = 3 /\ ch = "J" /\ vt.parms[1] = 2
        /\ plain' = << >> /\ isPlain' = TRUE
     \/ /\ ~(vt.esc = 3 /\ ch = "J" /\ vt.parms[1] = 2)
        /\ isPlain' = (isPlain /\ ch \in PlainChars)
        /\ plain' = IF isPlain' THEN Append(plain, ch) ELSE << >>
  /\ UNCHANGED <<page, sock, chatVars, connectButton, typed, grabbed, keyBuf, timers>>

Init ==
  /\ page \in {"chat", "telnet", "terminal"}
  /\ sock = NewWebsock
  /\ ChatInit
  /\ page # "chat" => awkward = {}
  /\ TelnetInit /\ VTInit
  /\ plain = << >> /\ isPlain = TRUE

Next ==
  \/ /\ page = "chat" /\ ChatNext
     /\ UNCHANGED <<page, plain, isPlain, telnetVars>>
  \/ /\ page = "telnet" /\ TelnetNext
     /\ UNCHANGED <<page, plain, isPlain, chatVars>>
  \/ /\ page = "terminal" /\ \E ch \in Printed \cup Controls \cup InSequence : Written(ch)

\* Browser, proxy and server do what they have to do and timers fire; the visitor
\* need not do anything.
Spec ==
  /\ Init /\ [][Next]_vars
  /\ \A c \in Connections :
       WF_vars(page = "chat" /\ System(c) /\ UNCHANGED <<page, plain, isPlain, telnetVars>>)
  /\ WF_vars(page = "telnet" /\ (SendKey \/ TimerForNothing)
               /\ UNCHANGED <<page, plain, isPlain, chatVars>>)

-------------------------------------------------------------------------------
(* Properties *)

\* Each page keeps the types of its variables.
TypeOK ==
  /\ page = "chat" => ChatTypeOK
  /\ page = "telnet" => TelnetTypeOK
  /\ page = "terminal" => VTTypeOK(Keys)

\* For every key that was typed one message goes out, in the order they were typed and
\* over however many connections: the key, or a zero in its place.
KeysGoOutInOrder ==
  page = "telnet" =>
    /\ Len(KeysOut) = Len(typed)
    /\ \A i \in 1..Len(typed) : KeysOut[i] \in {typed[i], Zeros}

\* The rows a line takes, at least one.
RowsOf(line) ==
  LET n == IF line = << >> THEN 1 ELSE (Len(line) + Width - 1) \div Width
  IN  [r \in 1..n |-> [c \in Columns |->
         IF (r - 1) * Width + c < Len(line) THEN line[(r - 1) * Width + c + 1] ELSE Blank]]

\* The lines of a text: a line feed begins another one.
Continued(lines, ch) ==
  IF ch = "LF" THEN Append(lines, << >>)
  ELSE [lines EXCEPT ![Len(lines)] = Append(@, ch)]

Lines(t) ==
  LET lines[n \in 0..Len(t)] == IF n = 0 THEN << << >> >> ELSE Continued(lines[n - 1], t[n])
  IN  lines[Len(t)]

\* The rows of a text, line by line.
Laid(lines) == FlattenSeq([k \in 1..Len(lines) |-> RowsOf(lines[k])])
Layout(t) == Laid(Lines(t))

\* Plain text on a cleared screen is laid out line by line, and the screen shows
\* the last rows of it, however the screen came to be cleared.
PlainTextIsShown ==
  page = "terminal" /\ isPlain =>
    LET all == Layout(plain)
        above == IF Len(all) > Height THEN Len(all) - Height ELSE 0
    IN  \A r \in Rows :
          vt.text[r] = IF above + r + 1 <= Len(all) THEN all[above + r + 1] ELSE BlankRow
===============================================================================
