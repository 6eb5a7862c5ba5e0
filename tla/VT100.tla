--------------------------------- MODULE VT100 ---------------------------------
(***************************************************************************)
(* The terminal of the web client (VT100.js): the screen that write fills  *)
(* one character after the other, interpreting escape sequences, and the   *)
(* keys that wait for getch.  Colours and attributes, the drawing of the   *)
(* screen and what is ignored without any effect are left out.             *)
(*                                                                         *)
(* The screen is a record, and what the code does to it step by step are   *)
(* operators on it.                                                        *)
(***************************************************************************)
EXTENDS Integers, SequencesExt

CONSTANTS
  Height, Width,  \* ht_ and wd_
  TabSize,        \* TABSIZE
  MaxParms        \* the most parameters of an escape sequence: 17

ASSUME ScreenAssumption ==
  /\ Height \in Nat \ {0} /\ TabSize \in Nat \ {0} /\ MaxParms \in Nat \ {0}
  /\ Width \in Nat /\ TabSize <= Width

VARIABLES
  vt,       \* the screen
  grabbed,  \* grab_events_, and the_vt_ # undefined
  keyBuf,   \* key_buf_
  timers    \* the calls of go_getch_ that are due

vtVars == <<vt, grabbed, keyBuf, timers>>

Rows == 0..(Height - 1)
Columns == 0..(Width - 1)

\* An empty cell.
Blank == " "

BlankRow == [c \in Columns |-> Blank]
BlankText == [r \in Rows |-> BlankRow]

\* Between two parameters.
Separator == ";"

Digits == {"1", "2"}
DigitValue(ch) == IF ch = "1" THEN 1 ELSE 2

NewScreen == [row |-> 0, col |-> 0, text |-> BlankText, esc |-> 0, parms |-> <<0>>]

VTInit == vt = NewScreen /\ grabbed = FALSE /\ keyBuf = << >> /\ timers = 1

-------------------------------------------------------------------------------
(* The screen *)

\* scroll, a number of times.
Scroll(v, n) ==
  [v EXCEPT !.text = [r \in Rows |-> IF r + n < Height THEN v.text[r + n] ELSE BlankRow]]

\* may_scroll_
MayScroll(v) ==
  IF v.row < Height THEN v
  ELSE [Scroll(v, v.row - Height + 1) EXCEPT !.row = Height - 1]

\* clrtoeol
ClrToEol(v) ==
  IF v.row >= Height THEN v
  ELSE [v EXCEPT !.text[v.row] = [c \in Columns |-> IF c < v.col THEN @[c] ELSE Blank]]

\* clrtobot
ClrToBot(v) ==
  [ClrToEol(v) EXCEPT !.text = [r \in Rows |-> IF r <= v.row THEN @[r] ELSE BlankRow]]

\* clear
Clear(v) == [v EXCEPT !.row = 0, !.col = 0, !.text = BlankText]

MoveUnclamped(v, r, c) == [v EXCEPT !.row = r, !.col = c]

\* move
Clamp(n, last) == IF n < 0 THEN 0 ELSE IF n > last THEN last ELSE n

Move(v, r, c) == [v EXCEPT !.row = Clamp(r, Height - 1), !.col = Clamp(c, Width - 1)]

\* addch of a character that is put down.
PutDown(v, ch) ==
  LET w == MayScroll(IF v.col >= Width THEN [v EXCEPT !.row = @ + 1, !.col = 0] ELSE v)
  IN  [w EXCEPT !.text[w.row][w.col] = ch, !.col = @ + 1]

\* A tab may leave the cursor below the last row.
Tab(v) ==
  LET w == MayScroll(v)
      next == w.col + TabSize - (w.col % TabSize)
  IN  IF next >= Width THEN [w EXCEPT !.row = @ + 1, !.col = next - Width]
      ELSE [w EXCEPT !.col = next]

\* addch
AddCh(v, ch) ==
  CASE ch = "BS" -> [v EXCEPT !.col = IF @ # 0 THEN @ - 1 ELSE 0]
    [] ch = "LF" -> [MayScroll(ClrToEol([v EXCEPT !.row = @ + 1])) EXCEPT !.col = 0]
    [] ch = "CR" -> [MayScroll(v) EXCEPT !.col = 0]
    [] ch = "HT" -> Tab(v)
    [] OTHER     -> PutDown(v, ch)

LineFeedAtHeight(v) ==
  IF v.row >= Height THEN Move(Scroll(v, 1), Height - 1, 0) ELSE Move(v, v.row + 1, 0)

\* write: line feed, vertical tab and form feed.
LineFeed(v) ==
  IF v.row >= Height - 1 THEN Move(Scroll(v, 1), Height - 1, 0) ELSE Move(v, v.row + 1, 0)

\* write, after ESC: every other character leaves the state as it is.
AfterEsc(v, ch) ==
  CASE ch = "[" -> [v EXCEPT !.esc = 2]
    [] ch \in {"=", ">", "H"} -> [v EXCEPT !.esc = 0]
    [] OTHER -> v

Count(v) == IF v.parms[1] > 1 THEN v.parms[1] ELSE 1

\* write, the end of a sequence with parameters.
Command(v, ch) ==
  CASE ch = "A" -> Move(v, v.row - Count(v), v.col)
    [] ch = "B" -> Move(v, v.row + Count(v), v.col)
    [] ch = "C" -> Move(v, v.row, v.col + Count(v))
    [] ch = "D" -> Move(v, v.row, v.col - Count(v))
    [] ch \in {"f", "H"} ->
         LET parms == Append(v.parms, 0) IN
         Move([v EXCEPT !.parms = parms], parms[1] - 1, parms[2] - 1)
    [] ch = "J" -> IF v.parms[1] = 0 THEN ClrToBot(v)
                   ELSE IF v.parms[1] = 2 THEN Clear(v) ELSE v
    [] OTHER -> v

\* The last parameter goes on, or another one begins if there may be one.
DigitAdded(parms, ch) == Append(Front(parms), Last(parms) * 10 + DigitValue(ch))
NextBegun(parms) == IF Len(parms) < MaxParms THEN Append(parms, 0) ELSE parms

\* write, inside a sequence with parameters.
Parameter(v, ch) ==
  CASE ch \in Digits -> [v EXCEPT !.parms = DigitAdded(@, ch)]
    [] ch = Separator -> [v EXCEPT !.parms = NextBegun(@)]
    [] ch = "[" -> [v EXCEPT !.esc = 4]
    [] OTHER -> Command([v EXCEPT !.esc = 0], ch)

\* write, after CSI: four characters at once have a meaning of their own.
AfterCsi(v, ch) ==
  CASE ch = "K" -> ClrToEol([v EXCEPT !.esc = 0])
    [] ch = "H" -> Move([v EXCEPT !.esc = 0], 0, 0)
    [] ch = "J" -> ClrToBot([v EXCEPT !.esc = 0])
    [] ch = "?" -> [v EXCEPT !.esc = 5]
    [] OTHER -> Parameter([v EXCEPT !.esc = 3, !.parms = <<0>>], ch)

\* Once a sequence is over its parameters are not looked at again.
Forgotten(v) == IF v.esc = 3 THEN v ELSE [v EXCEPT !.parms = <<0>>]

\* write, for one character.  A few are taken before the escape state is looked
\* at, and among them, for want of an escape \a in the language, the letter a.
Write(v, ch) ==
  CASE ch \in {"a", "BS", "HT", "CR"} -> AddCh(v, ch)
    [] ch \in {"LF", "FF"} -> LineFeed(v)
    [] ch = "CAN" -> Forgotten([v EXCEPT !.esc = 0])
    [] ch = "ESC" -> Forgotten([v EXCEPT !.esc = 1])
    [] ch = "CSI" -> Forgotten([v EXCEPT !.esc = 2])
    [] OTHER ->
         Forgotten(CASE v.esc = 0 -> AddCh(v, ch)
                     [] v.esc = 1 -> AfterEsc(v, ch)
                     [] v.esc = 2 -> AfterCsi(v, ch)
                     [] v.esc = 3 -> Parameter(v, ch)
                     [] v.esc = 5 -> [v EXCEPT !.esc = 6]
                     [] OTHER     -> [v EXCEPT !.esc = 0])

-------------------------------------------------------------------------------
(* The keys *)

\* A key is put into key_buf_, and go_getch_ is called soon.
KeyPressed(key) ==
  /\ keyBuf' = Append(keyBuf, key)
  /\ timers' = timers + 1

\* go_getch_ without a key to hand over.
NothingToGet ==
  /\ timers > 0
  /\ ~grabbed \/ keyBuf = << >>
  /\ timers' = timers - 1
  /\ UNCHANGED <<vt, grabbed, keyBuf>>

GetOnce ==
  /\ timers > 0
  /\ grabbed /\ keyBuf # << >>
  /\ keyBuf' = Tail(keyBuf)
  /\ vt' = AddCh(vt, Head(keyBuf))
  /\ timers' = timers - 1
  /\ UNCHANGED grabbed

\* go_getch_ with one: it is shown, whatever it is, and handed to the handler of
\* getch, which asks for the next one and so makes another call of go_getch_ due.
Get ==
  /\ timers > 0
  /\ grabbed /\ keyBuf # << >>
  /\ keyBuf' = Tail(keyBuf)
  /\ vt' = AddCh(vt, Head(keyBuf))
  /\ UNCHANGED <<grabbed, timers>>

-------------------------------------------------------------------------------

VTTypeOK(keys) ==
  /\ vt.row \in 0..Height /\ vt.col \in 0..Width
  /\ DOMAIN vt.text = Rows /\ \A r \in Rows : DOMAIN vt.text[r] = Columns
  /\ vt.esc \in 0..6
  /\ vt.parms \in Seq(Nat) /\ Len(vt.parms) \in 1..MaxParms
  /\ grabbed \in BOOLEAN
  /\ keyBuf \in Seq(keys)
  /\ timers \in Nat
===============================================================================
