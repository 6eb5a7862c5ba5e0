--------------------------- MODULE ReadThreadProofs ---------------------------
(***************************************************************************)
(* Theorems about ReadThread, for requests of any length and number, a     *)
(* buffer of any size, and every way of the network to cut the stream.     *)
(***************************************************************************)
EXTENDS ReadThread, Induction, SequenceTheorems

(***************************************************************************)
(* Parts of sequences.                                                     *)
(***************************************************************************)

\* What one read takes and what it leaves make up what there was.
LEMMA SplitJoins ==
  ASSUME NEW S, NEW s \in Seq(S), NEW k \in 0..Len(s)
  PROVE  /\ SubSeq(s, 1, k) \in Seq(S) /\ SubSeq(s, k + 1, Len(s)) \in Seq(S)
         /\ Len(SubSeq(s, 1, k)) = k
         /\ \A i \in 1..k : SubSeq(s, 1, k)[i] = s[i]
         /\ SubSeq(s, 1, k) \o SubSeq(s, k + 1, Len(s)) = s
<1>1. /\ Len(s) \in Nat /\ k \in Int /\ k <= Len(s)
      /\ \A i \in 1..Len(s) : s[i] \in S
  OBVIOUS
<1>2. /\ SubSeq(s, 1, k) \in Seq(S) /\ Len(SubSeq(s, 1, k)) = k
      /\ \A i \in 1..k : SubSeq(s, 1, k)[i] = s[1 + i - 1]
  <2>1. Len(SubSeq(s, 1, k)) = IF 1 <= k THEN k - 1 + 1 ELSE 0
    BY <1>1, SubSeqProperties
  <2>. QED BY <1>1, <2>1, SubSeqProperties
<1>3. SubSeq(s, k + 1, Len(s)) \in Seq(S)
  BY <1>1, SubSeqProperties
<1>4. SubSeq(s, 1, k) \o SubSeq(s, k + 1, Len(s)) = SubSeq(s, 1, Len(s))
  <2>1. 1 \in 1..(Len(s) + 1) /\ k \in (1 - 1)..Len(s) /\ Len(s) \in k..Len(s)
    BY <1>1
  <2>. QED BY <2>1, ConcatAdjacentSubSeq
<1>5. SubSeq(s, 1, Len(s)) = s
  BY SubSeqFull
<1>6. \A i \in 1..k : 1 + i - 1 = i
  OBVIOUS
<1>. QED BY <1>2, <1>3, <1>4, <1>5, <1>6

\* The bytes of two pieces put together.
LEMMA Joined ==
  ASSUME NEW S, NEW s \in Seq(S), NEW t \in Seq(S)
  PROVE  /\ s \o t \in Seq(S) /\ Len(s \o t) = Len(s) + Len(t)
         /\ Len(s) \in Nat /\ Len(t) \in Nat
         /\ \A i \in 1..Len(s) : (s \o t)[i] = s[i]
         /\ \A i \in 1..Len(t) : (s \o t)[Len(s) + i] = t[i]
  OBVIOUS

\* A piece between two others belongs to either.
LEMMA JoinedTwice ==
  ASSUME NEW S, NEW s \in Seq(S), NEW t \in Seq(S), NEW u \in Seq(S)
  PROVE  (s \o t) \o u = s \o (t \o u)
  OBVIOUS

\* The first of some positions is one of them, and before the others.
LEMMA FirstOfSome ==
  ASSUME NEW S \in SUBSET Nat, S # {}
  PROVE  Min(S) \in S /\ \A n \in S : Min(S) <= n
  BY NatLeast DEF Min

(***************************************************************************)
(* What a request looks like on the wire: bytes of its own, and no         *)
(* unescaped hash but the one that ends it.                                *)
(***************************************************************************)
Chars == {"text", "\\", "#"}

BytesOf(n) == [char : Chars, of : {n}]

\* An unescaped hash, as read_thread sees it: the first byte has none before it.
Ends(s, k) == s[k].char = "#" /\ (k > 1 => s[k - 1].char # "\\")

NoEnd(s) == \A k \in 1..Len(s) : ~Ends(s, k)

Piece(char, n) ==
  IF char = "text" THEN <<[char |-> "text", of |-> n]>>
  ELSE <<[char |-> "\\", of |-> n], [char |-> char, of |-> n]>>

\* One escaped character.
LEMMA PieceBytes ==
  ASSUME NEW n, NEW c \in Chars, NEW p, p = Piece(c, n)
  PROVE  /\ p \in Seq(BytesOf(n)) /\ Len(p) \in Nat
         /\ \/ Len(p) = 1 /\ c = "text" /\ p[1].char = c
            \/ Len(p) = 2 /\ p[1].char = "\\" /\ p[2].char = c
<1>. DEFINE back == [char |-> "\\", of |-> n]
            byte == [char |-> c, of |-> n]
<1>1. /\ byte \in BytesOf(n) /\ byte.char = c
      /\ back \in BytesOf(n) /\ back.char = "\\"
  BY DEF BytesOf, Chars
<1>2. p = IF c = "text" THEN <<byte>> ELSE <<back, byte>>
  BY DEF Piece
<1>. HIDE DEF back, byte
<1>3. CASE c = "text"
  <2>1. p = <<byte>>
    BY <1>2, <1>3
  <2>2. p \in Seq(BytesOf(n)) /\ Len(p) = 1 /\ p[1] = byte
    BY <1>1, <2>1
  <2>. QED BY <1>1, <1>3, <2>2
<1>4. CASE c # "text"
  <2>1. p = <<back, byte>>
    BY <1>2, <1>4
  <2>2. p \in Seq(BytesOf(n)) /\ Len(p) = 2 /\ p[1] = back /\ p[2] = byte
    BY <1>1, <2>1
  <2>. QED BY <1>1, <2>2
<1>. QED BY <1>3, <1>4

\* A word escaped so far, and one more character.
With(s, c, n) == s \o Piece(c, n)

EscapedUpTo(s, c, n) ==
  s \in Seq(BytesOf(n)) /\ NoEnd(s) /\ s # << >> /\ s[Len(s)].char = c

\* One more escaped character makes no end.
LEMMA PieceStep ==
  ASSUME NEW n, NEW s \in Seq(BytesOf(n)), NoEnd(s), NEW c \in Chars
  PROVE  EscapedUpTo(With(s, c, n), c, n)
<1>. DEFINE p == Piece(c, n)
            t == With(s, c, n)
<1>1. /\ p \in Seq(BytesOf(n)) /\ Len(p) \in Nat
      /\ \/ Len(p) = 1 /\ c = "text" /\ p[1].char = c
         \/ Len(p) = 2 /\ p[1].char = "\\" /\ p[2].char = c
  BY PieceBytes
<1>0. t = s \o p
  BY DEF With
<1>. HIDE DEF p, t
<1>2. /\ t \in Seq(BytesOf(n)) /\ Len(t) = Len(s) + Len(p) /\ Len(s) \in Nat
      /\ \A i \in 1..Len(s) : t[i] = s[i]
      /\ \A i \in 1..Len(p) : t[Len(s) + i] = p[i]
  BY <1>0, <1>1, Joined
<1>3. ASSUME NEW k \in 1..Len(t), Ends(t, k) PROVE FALSE
  <2>1. CASE k <= Len(s)
    <3>1. k \in 1..Len(s) /\ (k > 1 => k - 1 \in 1..Len(s))
      BY <1>2, <2>1
    <3>2. Ends(s, k)
      BY <1>2, <1>3, <3>1 DEF Ends
    <3>. QED BY <3>1, <3>2 DEF NoEnd
  <2>2. CASE k > Len(s)
    <3>1. k - Len(s) \in 1..Len(p) /\ t[k] = p[k - Len(s)]
      <4>1. k - Len(s) \in 1..Len(p) /\ Len(s) + (k - Len(s)) = k
        BY <1>1, <1>2, <2>2
      <4>. QED BY <1>2, <4>1
    <3>2. CASE Len(p) = 1
      BY <1>1, <1>3, <3>1, <3>2 DEF Ends
    <3>3. CASE Len(p) = 2 /\ k - Len(s) = 1
      BY <1>1, <1>3, <3>1, <3>3 DEF Ends
    <3>4. CASE Len(p) = 2 /\ k - Len(s) = 2
      <4>1. k > 1 /\ k - 1 = Len(s) + 1 /\ 1 \in 1..Len(p)
        BY <1>2, <3>4
      <4>2. t[k - 1].char = "\\"
        BY <1>1, <1>2, <3>4, <4>1
      <4>. QED BY <1>3, <4>1, <4>2 DEF Ends
    <3>5. k - Len(s) \in Nat /\ k - Len(s) >= 1 /\ k - Len(s) <= Len(p)
      BY <1>1, <1>2, <3>1
    <3>6. CASE Len(p) = 1
      BY <3>2, <3>6
    <3>7. CASE Len(p) = 2
      <4>1. k - Len(s) = 1 \/ k - Len(s) = 2
        BY <3>5, <3>7
      <4>. QED BY <3>3, <3>4, <3>7, <4>1
    <3>. QED BY <1>1, <3>6, <3>7
  <2>. QED BY <1>2, <2>1, <2>2
<1>4. t[Len(t)].char = c
  <2>1. CASE Len(p) = 1
    <3>1. 1 \in 1..Len(p) /\ Len(t) = Len(s) + 1
      BY <1>1, <1>2, <2>1
    <3>. QED BY <1>1, <1>2, <2>1, <3>1
  <2>2. CASE Len(p) = 2
    <3>1. 2 \in 1..Len(p) /\ Len(t) = Len(s) + 2
      BY <1>1, <1>2, <2>2
    <3>. QED BY <1>1, <1>2, <2>2, <3>1
  <2>. QED BY <1>1, <2>1, <2>2
<1>5. t # << >>
  <2>1. Len(t) # 0
    BY <1>1, <1>2
  <2>. QED BY <2>1
<1>. QED BY <1>2, <1>3, <1>4, <1>5 DEF NoEnd, EscapedUpTo, t

\* Escaping a word leaves no end in it, and its last character last.
LEMMA EscapedBytes ==
  ASSUME NEW word \in Seq(Chars), NEW n
  PROVE  /\ Escaped(word, n) \in Seq(BytesOf(n)) /\ NoEnd(Escaped(word, n))
         /\ word = << >> => Escaped(word, n) = << >>
         /\ word # << >> => /\ Escaped(word, n) # << >>
                            /\ Escaped(word, n)[Len(Escaped(word, n))].char = Last(word)
<1>. DEFINE pieces == [i \in 1..Len(word) |-> Piece(word[i], n)]
<1>1. Escaped(word, n) = FlattenSeq(pieces) /\ Len(word) \in Nat /\ Len(pieces) = Len(word)
  BY DEF Escaped, Piece
<1>2. CASE word = << >>
  <2>1. pieces = << >> /\ Len(pieces) = 0
    BY <1>2
  <2>2. FlattenSeq(pieces) = << >>
    BY <2>1 DEF FlattenSeq
  <2>3. Escaped(word, n) = << >> /\ << >> \in Seq(BytesOf(n)) /\ NoEnd(<< >>)
    BY <1>1, <2>2 DEF NoEnd
  <2>. QED BY <1>2, <2>3
<1>3. CASE word # << >>
  <2>1. Len(word) >= 1 /\ \A i \in 1..Len(word) : word[i] \in Chars /\ pieces[i] = Piece(word[i], n)
    BY <1>3
  <2>. HIDE DEF pieces
  <2>2. PICK f : Flattens(f, pieces, Len(word)) /\ FlattenSeq(pieces) = f[Len(word)]
    BY <1>1, <2>1, FlattenSteps
  <2>. DEFINE Good(k) == EscapedUpTo(f[k], word[k], n)
              Done == {k \in Nat : k <= Len(word) => Good(k)}
  <2>3. 1 \in Done
    <3>1. f[1] = pieces[1]
      BY <2>1, <2>2 DEF Flattens
    <3>2. /\ << >> \in Seq(BytesOf(n)) /\ NoEnd(<< >>)
          /\ << >> \o Piece(word[1], n) = Piece(word[1], n)
      <4>1. Piece(word[1], n) \in Seq(BytesOf(n))
        BY <2>1, PieceBytes
      <4>. QED BY <4>1 DEF NoEnd
    <3>3. word[1] \in Chars /\ f[1] = << >> \o Piece(word[1], n)
      BY <2>1, <3>1, <3>2
    <3>4. Good(1)
      <4>1. f[1] = With(<< >>, word[1], n)
        BY <3>3 DEF With
      <4>. QED BY <3>2, <3>3, <4>1, PieceStep
    <3>. QED BY <3>4
  <2>4. ASSUME NEW k \in Nat, k >= 1, k \in Done PROVE k + 1 \in Done
    <3>. SUFFICES ASSUME k + 1 <= Len(word) PROVE Good(k + 1)
      OBVIOUS
    <3>1. k + 1 \in 1..Len(word) /\ k + 1 # 1 /\ (k + 1) - 1 = k /\ k <= Len(word)
      BY <1>1, <2>4
    <3>2. f[k + 1] = f[k] \o Piece(word[k + 1], n)
      BY <2>1, <2>2, <3>1 DEF Flattens
    <3>3. Good(k)
      BY <2>4, <3>1
    <3>4. f[k] \in Seq(BytesOf(n)) /\ NoEnd(f[k]) /\ word[k + 1] \in Chars
      BY <2>1, <3>1, <3>3 DEF EscapedUpTo
    <3>5. Good(k + 1)
      <4>1. f[k + 1] = With(f[k], word[k + 1], n)
        BY <3>2 DEF With
      <4>. QED BY <3>4, <4>1, PieceStep
    <3>. QED BY <3>5
  <2>. HIDE DEF Good
  <2>5. \A k \in Nat : k >= 1 => k \in Done
    <3>. HIDE DEF Done
    <3>. QED BY <2>3, <2>4, NatInductionFrom
  <2>6. Good(Len(word))
    BY <1>1, <2>1, <2>5
  <2>. QED BY <1>1, <1>3, <2>2, <2>6 DEF Good, EscapedUpTo, Last
<1>. QED BY <1>2, <1>3

\* A request on the wire has no end but its last byte; and that is one, unless the
\* word ends in a backslash.
LEMMA EncodedBytes ==
  ASSUME NEW word \in Seq(Chars), NEW n
  PROVE  LET s == Encoded(word, n)
         IN  /\ s \in Seq(BytesOf(n)) /\ Len(s) >= 1
             /\ \A k \in 1..Len(s) : Ends(s, k) => k = Len(s)
             /\ HasEnd(word) => Ends(s, Len(s))
<1>. DEFINE e == Escaped(word, n)
            s == Encoded(word, n)
            hash == [char |-> "#", of |-> n]
<1>1. hash \in BytesOf(n) /\ hash.char = "#"
  BY DEF BytesOf, Chars
<1>2. /\ e \in Seq(BytesOf(n)) /\ NoEnd(e) /\ (word = << >> => e = << >>)
      /\ word # << >> => e # << >> /\ e[Len(e)].char = Last(word)
  BY EscapedBytes
<1>3. s = Append(e, hash)
  BY DEF Encoded
<1>. HIDE DEF e, s, hash
<1>4. /\ s \in Seq(BytesOf(n)) /\ Len(s) = Len(e) + 1 /\ Len(e) \in Nat
      /\ \A i \in 1..Len(e) : s[i] = e[i]
      /\ s[Len(e) + 1] = hash
  BY <1>1, <1>2, <1>3
<1>5. ASSUME NEW k \in 1..Len(s), Ends(s, k), k # Len(s) PROVE FALSE
  <2>1. k \in 1..Len(e) /\ (k > 1 => k - 1 \in 1..Len(e))
    BY <1>4, <1>5
  <2>2. Ends(e, k)
    BY <1>4, <1>5, <2>1 DEF Ends
  <2>. QED BY <1>2, <2>1, <2>2 DEF NoEnd
<1>6. ASSUME HasEnd(word) PROVE Ends(s, Len(s))
  <2>1. CASE e = << >>
    <3>1. Len(s) = 1 /\ s[1] = hash
      BY <1>4, <2>1
    <3>. QED BY <1>1, <3>1 DEF Ends
  <2>2. CASE e # << >>
    <3>1. Len(e) \in 1..Len(e) /\ Len(s) - 1 = Len(e) /\ s[Len(s) - 1] = e[Len(e)]
      BY <1>2, <1>4, <2>2
    <3>2. e[Len(e)].char # "\\"
      BY <1>2, <1>6, <2>2 DEF HasEnd
    <3>. QED BY <1>1, <1>4, <3>1, <3>2 DEF Ends
  <2>. QED BY <2>1, <2>2
<1>. QED BY <1>4, <1>5, <1>6 DEF s

(***************************************************************************)
(* The stream: what the thread has of the request it is reading, and what  *)
(* is on its way.                                                          *)
(***************************************************************************)
Then(s, t) == s \o t

Start(s, k) == SubSeq(s, 1, k)

Rest(s, k) == SubSeq(s, k + 1, Len(s))

Reading == place \in {"scan", "more"}

Stream == IF Reading THEN Then(buffer, wire) ELSE wire

\* Putting pieces together.
LEMMA ThenBytes ==
  ASSUME NEW S, NEW s \in Seq(S), NEW t \in Seq(S)
  PROVE  /\ Then(s, t) \in Seq(S) /\ Len(Then(s, t)) = Len(s) + Len(t)
         /\ Len(s) \in Nat /\ Len(t) \in Nat
         /\ \A i \in 1..Len(s) : Then(s, t)[i] = s[i]
         /\ \A i \in 1..Len(t) : Then(s, t)[Len(s) + i] = t[i]
  BY Joined DEF Then

LEMMA ThenTwice ==
  ASSUME NEW S, NEW s \in Seq(S), NEW t \in Seq(S), NEW u \in Seq(S)
  PROVE  Then(Then(s, t), u) = Then(s, Then(t, u))
  BY JoinedTwice DEF Then

\* Taking them apart.
LEMMA StartRest ==
  ASSUME NEW S, NEW s \in Seq(S), NEW k \in 0..Len(s)
  PROVE  /\ Start(s, k) \in Seq(S) /\ Len(Start(s, k)) = k
         /\ \A i \in 1..k : Start(s, k)[i] = s[i]
         /\ Rest(s, k) \in Seq(S) /\ Then(Start(s, k), Rest(s, k)) = s
  BY SplitJoins DEF Start, Rest, Then

\* What is after the first of two pieces is the second.
LEMMA RestOfThen ==
  ASSUME NEW S, NEW s \in Seq(S), NEW t \in Seq(S)
  PROVE  Rest(Then(s, t), Len(s)) = t
<1>. DEFINE u == Then(s, t)
            b == Rest(u, Len(s))
<1>1. /\ u \in Seq(S) /\ Len(u) = Len(s) + Len(t) /\ Len(s) \in Nat /\ Len(t) \in Nat
      /\ \A i \in 1..Len(t) : u[Len(s) + i] = t[i]
  BY ThenBytes
<1>. HIDE DEF u
<1>2. Len(s) \in 0..Len(u)
  BY <1>1
<1>3. /\ Start(u, Len(s)) \in Seq(S) /\ Len(Start(u, Len(s))) = Len(s)
      /\ b \in Seq(S) /\ Then(Start(u, Len(s)), b) = u
  BY <1>1, <1>2, StartRest
<1>. HIDE DEF b
<1>4. PICK a \in Seq(S) : a = Start(u, Len(s))
  BY <1>3
<1>5. Len(a) = Len(s) /\ Then(a, b) = u
  BY <1>3, <1>4
<1>6. /\ Len(u) = Len(a) + Len(b) /\ Len(a) \in Nat /\ Len(b) \in Nat
      /\ \A i \in 1..Len(b) : u[Len(a) + i] = b[i]
  <2>1. PICK c \in Seq(S) : c = b
    BY <1>3
  <2>2. u = Then(a, c)
    BY <1>5, <2>1
  <2>3. /\ Len(Then(a, c)) = Len(a) + Len(c) /\ Len(a) \in Nat /\ Len(c) \in Nat
        /\ \A i \in 1..Len(c) : Then(a, c)[Len(a) + i] = c[i]
    BY ThenBytes
  <2>. QED BY <2>1, <2>2, <2>3
<1>7. Len(b) = Len(t)
  BY <1>1, <1>5, <1>6
<1>8. \A i \in 1..Len(b) : b[i] = t[i]
  BY <1>1, <1>5, <1>6, <1>7
<1>9. b = t
  BY <1>3, <1>7, <1>8, SeqEqual
<1>. QED BY <1>9 DEF b, u

\* The variables of the thread keep their types.
LEMMA EncodedType ==
  ASSUME NEW word \in Words, NEW n \in 1..MaxRequests
  PROVE  /\ word \in Seq(Chars) /\ BytesOf(n) \subseteq Bytes
         /\ Encoded(word, n) \in Seq(Bytes) /\ Escaped(word, n) \in Seq(Bytes)
<1>1. word \in Seq(Chars)
  BY WordsAssumption DEF Chars
<1>2. BytesOf(n) \subseteq Bytes
  BY DEF BytesOf, Bytes, Chars
<1>3. Encoded(word, n) \in Seq(BytesOf(n)) /\ Escaped(word, n) \in Seq(BytesOf(n))
  BY <1>1, EncodedBytes, EscapedBytes
<1>4. \A s : s \in Seq(BytesOf(n)) => s \in Seq(Bytes)
  BY <1>2, SeqMonotonic
<1>. QED BY <1>1, <1>2, <1>3, <1>4

\* Where the search finds a hash.
LEMMA FirstHashFound ==
  ASSUME TypeOK, Hashes # {}
  PROVE  /\ FirstHash \in Nat /\ FirstHash > findPos
         /\ FirstHash \in 1..Len(buffer) /\ buffer[FirstHash].char = "#"
         /\ \A k \in 1..Len(buffer) : (k > findPos /\ buffer[k].char = "#") => k >= FirstHash
<1>1. findPos \in Nat /\ Len(buffer) \in Nat
  BY DEF TypeOK
<1>2. Hashes \in SUBSET Nat
  BY <1>1 DEF Hashes
<1>3. FirstHash \in Hashes /\ \A k \in Hashes : FirstHash <= k
  <2>. HIDE DEF Hashes
  <2>. QED BY <1>2, FirstOfSome DEF FirstHash
<1>. QED BY <1>1, <1>3 DEF Hashes

LEMMA InitTypes == Init => TypeOK
<1>. SUFFICES ASSUME Init PROVE TypeOK
  OBVIOUS
<1>1. << >> \in Seq(Words) /\ << >> \in Seq(Bytes) /\ << >> \in Seq(Seq(Bytes)) /\ Len(<< >>) = 0
  OBVIOUS
<1>2. 0 <= MaxRequests
  BY BoundsAssumption
<1>3. sent \in Seq(Words) /\ Len(sent) <= MaxRequests
  BY <1>1, <1>2 DEF Init
<1>. QED BY <1>1, <1>3 DEF Init, TypeOK

LEMMA StepTypes == TypeOK /\ [Next]_vars => TypeOK'
<1>. SUFFICES ASSUME TypeOK, [Next]_vars PROVE TypeOK'
  OBVIOUS
<1>1. ASSUME NEW word \in Words, Send(word) PROVE TypeOK'
  <2>1. Len(sent) + 1 \in 1..MaxRequests /\ Len(sent) \in Nat
    BY <1>1, BoundsAssumption DEF Send, Ready, TypeOK
  <2>2. PICK e \in Seq(Bytes) : e = Encoded(word, Len(sent) + 1)
    BY <2>1, EncodedType
  <2>3. wire' = wire \o e
    BY <1>1, <2>2 DEF Send
  <2>4. wire' \in Seq(Bytes)
    BY <2>3 DEF TypeOK
  <2>5. sent' \in Seq(Words) /\ Len(sent') = Len(sent) + 1
    BY <1>1 DEF Send, TypeOK
  <2>. QED BY <1>1, <2>1, <2>4, <2>5, BoundsAssumption DEF Send, TypeOK
<1>2. ASSUME NEW word \in Words, Abort(word) PROVE TypeOK'
  <2>1. Len(sent) + 1 \in 1..MaxRequests /\ Len(sent) \in Nat
    BY <1>2, BoundsAssumption DEF Abort, Ready, TypeOK
  <2>2. PICK e \in Seq(Bytes) : e = Escaped(word, Len(sent) + 1)
    BY <2>1, EncodedType
  <2>3. PICK k \in 1..Len(e) : wire' = wire \o SubSeq(e, 1, k)
    BY <1>2, <2>2 DEF Abort
  <2>4. PICK part \in Seq(Bytes) : part = SubSeq(e, 1, k)
    <3>1. k \in 0..Len(e)
      OBVIOUS
    <3>. QED BY <3>1, SplitJoins
  <2>5. wire' \in Seq(Bytes)
    BY <2>3, <2>4 DEF TypeOK
  <2>. QED BY <1>2, <2>5 DEF Abort, TypeOK
<1>3. CASE Exit
  BY <1>3 DEF Exit, TypeOK
<1>4. CASE Read
  <2>1. CASE ReadAnew
    <3>1. PICK k \in 1..Len(wire) : /\ buffer' = SubSeq(wire, 1, k)
                                    /\ wire' = SubSeq(wire, k + 1, Len(wire))
      BY <2>1 DEF ReadAnew, Chunks
    <3>2. buffer' \in Seq(Bytes) /\ wire' \in Seq(Bytes) /\ Len(buffer') = k /\ k \in Nat
      BY <3>1, SplitJoins DEF TypeOK
    <3>. QED BY <1>4, <2>1, <3>2 DEF Read, ReadAnew, TypeOK
  <2>2. CASE FailedRead
    <3>1. Len(buffer) \in Nat
      BY DEF TypeOK
    <3>. QED BY <1>4, <2>2, <3>1 DEF Read, FailedRead, TypeOK
  <2>. QED BY <1>4, <2>1, <2>2 DEF Read
<1>5. CASE ReadEnd
  BY <1>5 DEF ReadEnd, TypeOK
<1>6. CASE Scan
  <2>1. CASE Hashes = {}
    BY <1>6, <2>1 DEF Scan, TypeOK
  <2>2. CASE Hashes # {} /\ IsEscaped(FirstHash)
    BY <1>6, <2>2, FirstHashFound DEF Scan, TypeOK
  <2>3. CASE Hashes # {} /\ ~IsEscaped(FirstHash)
    <3>1. FirstHash \in 0..Len(buffer) /\ FirstHash \in Nat
      BY <2>3, FirstHashFound
    <3>2. /\ produced' = Append(produced, SubSeq(buffer, 1, FirstHash))
          /\ buffer' = SubSeq(buffer, FirstHash + 1, Len(buffer))
          /\ findPos' = FirstHash /\ place' = "read"
      BY <1>6, <2>3 DEF Scan
    <3>3. SubSeq(buffer, 1, FirstHash) \in Seq(Bytes) /\ buffer' \in Seq(Bytes)
      BY <3>1, <3>2, SplitJoins DEF TypeOK
    <3>4. produced' \in Seq(Seq(Bytes))
      <4>1. PICK r \in Seq(Bytes) : r = SubSeq(buffer, 1, FirstHash)
        BY <3>3
      <4>. QED BY <3>2, <4>1 DEF TypeOK
    <3>. QED BY <1>6, <3>1, <3>2, <3>3, <3>4 DEF Scan, TypeOK
  <2>. QED BY <2>1, <2>2, <2>3
<1>7. CASE ReadMore
  <2>1. ASSUME NEW k \in 1..Len(wire), buffer' = buffer \o SubSeq(wire, 1, k),
               wire' = SubSeq(wire, k + 1, Len(wire)), ended' = ended
        PROVE  TypeOK'
    <3>0. wire \in Seq(Bytes) /\ k \in 0..Len(wire)
      BY DEF TypeOK
    <3>1. PICK part \in Seq(Bytes) : part = SubSeq(wire, 1, k)
      BY <3>0, SplitJoins
    <3>2. wire' \in Seq(Bytes)
      BY <2>1, <3>0, SplitJoins
    <3>3. buffer' \in Seq(Bytes) /\ Len(buffer') >= Len(buffer) /\ Len(buffer) \in Nat
          /\ Len(buffer') \in Nat
      BY <2>1, <3>1 DEF TypeOK
    <3>. QED BY <1>7, <2>1, <3>2, <3>3 DEF ReadMore, TypeOK
  <2>2. ASSUME UNCHANGED <<buffer, wire>>, ended' \in {ended, "over"} PROVE TypeOK'
    BY <1>7, <2>2 DEF ReadMore, TypeOK
  <2>. QED BY <1>7, <2>1, <2>2 DEF ReadMore, FailedRead, Chunks
<1>8. CASE Reset
  <2>1. PICK k \in 0..Len(wire) : wire' = SubSeq(wire, 1, k)
    BY <1>8 DEF Reset
  <2>2. wire' \in Seq(Bytes)
    BY <2>1, SplitJoins DEF TypeOK
  <2>. QED BY <1>8, <2>2 DEF Reset, TypeOK
<1>9. CASE UNCHANGED vars
  BY <1>9 DEF vars, TypeOK
<1>. QED BY <1>1, <1>2, <1>3, <1>4, <1>5, <1>6, <1>7, <1>8, <1>9 DEF Next, Thread, Client

\* The thread's variables keep their types, and a search starts inside the
\* buffer: find_pos is never past what was read.
THEOREM ReadThreadTypes == Spec => []TypeOK
  BY InitTypes, StepTypes, PTL DEF Spec

\* What the steps do to the stream.  Reading moves bytes inside it, the client
\* adds to it, and a request that was found is taken off with all that was before
\* it in the buffer.  What was after it in the buffer is lost, unless the next
\* read fails: then it is all there is.  A reset loses the end.
LEMMA StreamType == TypeOK => Stream \in Seq(Bytes)
<1>. SUFFICES ASSUME TypeOK PROVE Stream \in Seq(Bytes)
  OBVIOUS
<1>1. wire \in Seq(Bytes) /\ buffer \in Seq(Bytes)
  BY DEF TypeOK
<1>2. Then(buffer, wire) \in Seq(Bytes)
  BY <1>1, ThenBytes
<1>. QED BY <1>1, <1>2 DEF Stream

LEMMA StreamStays ==
  ASSUME TypeOK
  PROVE  /\ Exit \/ ReadEnd \/ ReadMore \/ UNCHANGED vars => Stream' = Stream
         /\ Read => Stream' = Stream \/ (Stream = << >> /\ Stream' = buffer)
         /\ Scan /\ place' # "read" => Stream' = Stream
<1>1. wire \in Seq(Bytes) /\ buffer \in Seq(Bytes)
  BY DEF TypeOK
<1>2. ASSUME Exit \/ ReadEnd \/ UNCHANGED vars PROVE Stream' = Stream
  BY <1>2 DEF Exit, ReadEnd, vars, Stream, Reading
<1>3. ASSUME Read PROVE Stream' = Stream \/ (Stream = << >> /\ Stream' = buffer)
  <2>0. Stream = wire /\ Stream' = Then(buffer', wire')
    BY <1>3 DEF Read, Stream, Reading
  <2>1. CASE ReadAnew
    <3>1. PICK k \in 1..Len(wire) : buffer' = Start(wire, k) /\ wire' = Rest(wire, k)
      BY <2>1 DEF ReadAnew, Chunks, Start, Rest
    <3>2. k \in 0..Len(wire)
      BY <1>1
    <3>3. Then(buffer', wire') = wire
      BY <1>1, <3>1, <3>2, StartRest
    <3>. QED BY <2>0, <3>3
  <2>2. CASE FailedRead
    <3>1. Then(buffer, << >>) = buffer
      BY <1>1, ConcatEmptySeq DEF Then
    <3>. QED BY <2>0, <2>2, <3>1 DEF FailedRead
  <2>. QED BY <1>3, <2>1, <2>2 DEF Read
<1>4. ASSUME ReadMore PROVE Stream' = Stream
  <2>1. ASSUME NEW k \in 1..Len(wire), buffer' = Then(buffer, Start(wire, k)),
               wire' = Rest(wire, k)
        PROVE  Stream' = Stream
    <3>1. k \in 0..Len(wire)
      BY <1>1
    <3>2. Start(wire, k) \in Seq(Bytes) /\ Rest(wire, k) \in Seq(Bytes)
      BY <1>1, <3>1, StartRest
    <3>3. Then(Start(wire, k), Rest(wire, k)) = wire
      BY <1>1, <3>1, StartRest
    <3>4. Then(buffer', wire') = Then(buffer, wire)
      BY <1>1, <2>1, <3>2, <3>3, ThenTwice
    <3>. QED BY <1>4, <3>4 DEF ReadMore, Stream, Reading
  <2>2. ASSUME UNCHANGED <<buffer, wire>> PROVE Stream' = Stream
    BY <1>4, <2>2 DEF ReadMore, Stream, Reading
  <2>. QED BY <1>4, <2>1, <2>2 DEF ReadMore, FailedRead, Chunks, Start, Rest, Then
<1>5. ASSUME Scan, place' # "read" PROVE Stream' = Stream
  BY <1>5 DEF Scan, Stream, Reading
<1>. QED BY <1>2, <1>3, <1>4, <1>5

\* What is taken of the buffer, and what stays on the stream.
LEMMA Taken ==
  ASSUME TypeOK, Scan, place' = "read"
  PROVE  /\ Reading /\ FirstHash \in 1..Len(buffer) /\ Ends(buffer, FirstHash)
         /\ \A k \in 1..Len(buffer) : (k > findPos /\ k < FirstHash) => ~Ends(buffer, k)
         /\ produced' = Append(produced, Start(buffer, FirstHash))
         /\ Stream' = wire /\ Stream' = Rest(Stream, Len(buffer))
         /\ UNCHANGED <<patient, sent, ended>>
<1>1. wire \in Seq(Bytes) /\ buffer \in Seq(Bytes)
  BY DEF TypeOK
<1>2. /\ place = "scan" /\ Hashes # {} /\ ~IsEscaped(FirstHash)
      /\ produced' = Append(produced, SubSeq(buffer, 1, FirstHash))
      /\ UNCHANGED <<patient, sent, ended, wire>>
  BY DEF Scan
<1>3. Stream' = wire /\ Stream = Then(buffer, wire) /\ Reading
  BY <1>2 DEF Stream, Reading
<1>4. Rest(Then(buffer, wire), Len(buffer)) = wire
  BY <1>1, RestOfThen
<1>5. /\ FirstHash \in 1..Len(buffer) /\ buffer[FirstHash].char = "#" /\ FirstHash \in Nat
      /\ \A k \in 1..Len(buffer) : (k > findPos /\ buffer[k].char = "#") => k >= FirstHash
  BY <1>2, FirstHashFound
<1>6. Ends(buffer, FirstHash)
  BY <1>2, <1>5 DEF IsEscaped, Ends
<1>7. ASSUME NEW k \in 1..Len(buffer), k > findPos, k < FirstHash PROVE ~Ends(buffer, k)
  BY <1>5, <1>7 DEF Ends
<1>. QED BY <1>2, <1>3, <1>4, <1>5, <1>6, <1>7 DEF Start

\* What a reset leaves.
LEMMA ResetCuts ==
  ASSUME TypeOK, Reset
  PROVE  \E t \in Seq(Bytes) : Stream' \in Seq(Bytes) /\ Stream = Then(Stream', t)
<1>1. wire \in Seq(Bytes) /\ buffer \in Seq(Bytes)
  BY DEF TypeOK
<1>2. PICK k \in 0..Len(wire) : wire' = Start(wire, k)
  BY DEF Reset, Start
<1>3. PICK t \in Seq(Bytes) : t = Rest(wire, k)
  BY <1>1, StartRest
<1>4. wire' \in Seq(Bytes) /\ wire = Then(wire', t)
  BY <1>1, <1>2, <1>3, StartRest
<1>5. UNCHANGED <<place, buffer>>
  BY DEF Reset
<1>6. CASE Reading
  <2>1. Stream = Then(buffer, Then(wire', t)) /\ Stream' = Then(buffer, wire')
    BY <1>4, <1>5, <1>6 DEF Stream, Reading
  <2>2. Then(Then(buffer, wire'), t) = Then(buffer, Then(wire', t))
    BY <1>1, <1>4, ThenTwice
  <2>3. Then(buffer, wire') \in Seq(Bytes)
    BY <1>1, <1>4, ThenBytes
  <2>. QED BY <2>1, <2>2, <2>3
<1>7. CASE ~Reading
  BY <1>4, <1>5, <1>7 DEF Stream, Reading
<1>. QED BY <1>6, <1>7

\* What the client adds.
LEMMA Added ==
  ASSUME TypeOK, NEW e \in Seq(Bytes), wire' = Then(wire, e), UNCHANGED <<place, buffer>>
  PROVE  Stream' = Then(Stream, e)
<1>1. wire \in Seq(Bytes) /\ buffer \in Seq(Bytes)
  BY DEF TypeOK
<1>2. Then(Then(buffer, wire), e) = Then(buffer, Then(wire, e))
  BY <1>1, ThenTwice
<1>. QED BY <1>2 DEF Stream, Reading

LEMMA SendAdds ==
  ASSUME TypeOK, NEW word \in Words, Send(word)
  PROVE  /\ Len(sent) \in Nat /\ Len(sent) + 1 \in 1..MaxRequests
         /\ Encoded(word, Len(sent) + 1) \in Seq(Bytes)
         /\ Stream' = Then(Stream, Encoded(word, Len(sent) + 1))
         /\ sent' \in Seq(Words) /\ Len(sent') = Len(sent) + 1 /\ sent'[Len(sent) + 1] = word
         /\ \A n \in 1..Len(sent) : sent'[n] = sent[n]
<1>1. Len(sent) \in Nat /\ Len(sent) + 1 \in 1..MaxRequests
  BY BoundsAssumption DEF Send, Ready, TypeOK
<1>2. Encoded(word, Len(sent) + 1) \in Seq(Bytes)
  BY <1>1, EncodedType
<1>3. Stream' = Then(Stream, Encoded(word, Len(sent) + 1))
  <2>1. wire' = Then(wire, Encoded(word, Len(sent) + 1)) /\ UNCHANGED <<place, buffer>>
    BY DEF Send, Then
  <2>. QED BY <1>2, <2>1, Added
<1>4. /\ sent' \in Seq(Words) /\ Len(sent') = Len(sent) + 1 /\ sent'[Len(sent) + 1] = word
      /\ \A n \in 1..Len(sent) : sent'[n] = sent[n]
  BY DEF Send, TypeOK
<1>. QED BY <1>1, <1>2, <1>3, <1>4

LEMMA AbortAdds ==
  ASSUME TypeOK, NEW word \in Words, Abort(word)
  PROVE  /\ Len(sent) + 1 \in 1..MaxRequests
         /\ \E k \in 1..Len(Escaped(word, Len(sent) + 1)) :
              /\ Start(Escaped(word, Len(sent) + 1), k) \in Seq(Bytes)
              /\ Stream' = Then(Stream, Start(Escaped(word, Len(sent) + 1), k))
<1>1. Len(sent) + 1 \in 1..MaxRequests
  BY BoundsAssumption DEF Abort, Ready, TypeOK
<1>2. PICK e \in Seq(Bytes) : e = Escaped(word, Len(sent) + 1)
  BY <1>1, EncodedType
<1>3. PICK k \in 1..Len(e) : wire' = Then(wire, Start(e, k))
  BY <1>2 DEF Abort, Then, Start
<1>4. k \in 0..Len(e)
  OBVIOUS
<1>5. Start(e, k) \in Seq(Bytes)
  BY <1>4, StartRest
<1>6. Stream' = Then(Stream, Start(e, k))
  <2>1. UNCHANGED <<place, buffer>>
    BY DEF Abort
  <2>. QED BY <1>3, <1>5, <2>1, Added
<1>. QED BY <1>1, <1>2, <1>5, <1>6

(***************************************************************************)
(* Requests are not mixed.  Between the bytes of two requests there is an  *)
(* unescaped hash, wherever a read begins; what the search has passed over *)
(* holds none; so what is taken is of one request.                         *)
(***************************************************************************)
Framed(s) ==
  \A i, j \in 1..Len(s) :
    (i < j /\ s[i].of # s[j].of) => \E k \in i..(j - 1) : Ends(s, k)

Complete(s) == s = << >> \/ Ends(s, Len(s))

OneRequest(s) == \A i, j \in 1..Len(s) : s[i].of = s[j].of

\* The client may still write a request, or has ended after one.
InOrder == ended \in {"no", "between"}

MixInv ==
  AllHaveEnds =>
    /\ Framed(Stream)
    /\ Framed(buffer)
    /\ InOrder => Complete(Stream)
    /\ \A n \in 1..Len(produced) : OneRequest(produced[n])

SearchInv == Reading => \A k \in 1..Len(buffer) : k <= findPos => ~Ends(buffer, k)

\* An end is told by two bytes.
LEMMA SameEnds ==
  ASSUME NEW s, NEW i, NEW t, NEW j, t[j] = s[i], i > 1 <=> j > 1, i > 1 => t[j - 1] = s[i - 1]
  PROVE  Ends(s, i) <=> Ends(t, j)
  BY DEF Ends

\* The first of two pieces has the same ends as the whole.
LEMMA EndsOfFirst ==
  ASSUME NEW S, NEW s \in Seq(S), NEW t \in Seq(S), NEW k \in 1..Len(s)
  PROVE  Ends(Then(s, t), k) <=> Ends(s, k)
<1>. DEFINE u == Then(s, t)
<1>1. Len(s) \in Nat /\ \A i \in 1..Len(s) : u[i] = s[i]
  BY ThenBytes
<1>. HIDE DEF u
<1>2. k > 1 => k - 1 \in 1..Len(s)
  BY <1>1
<1>3. u[k] = s[k] /\ (k > 1 => u[k - 1] = s[k - 1])
  BY <1>1, <1>2
<1>4. Ends(u, k) <=> Ends(s, k)
  BY <1>3 DEF Ends
<1>. QED BY <1>4 DEF u

\* The end of the second piece is the end of the whole, if the first is complete.
LEMMA CompleteThen ==
  ASSUME NEW S, NEW s \in Seq(S), NEW t \in Seq(S), Complete(s), t # << >>, Ends(t, Len(t))
  PROVE  Complete(Then(s, t))
<1>. DEFINE u == Then(s, t)
<1>1. /\ Len(u) = Len(s) + Len(t) /\ Len(s) \in Nat /\ Len(t) \in Nat
      /\ \A i \in 1..Len(s) : u[i] = s[i]
      /\ \A i \in 1..Len(t) : u[Len(s) + i] = t[i]
  <2>1. Len(u) = Len(s) + Len(t) /\ Len(s) \in Nat /\ Len(t) \in Nat
    BY ThenBytes
  <2>2. \A i \in 1..Len(s) : u[i] = s[i]
    BY ThenBytes
  <2>3. \A i \in 1..Len(t) : u[Len(s) + i] = t[i]
    BY ThenBytes
  <2>. QED BY <2>1, <2>2, <2>3
<1>0. Len(t) > 1 \/ Len(t) = 1
  BY ONLY t \in Seq(S), t # << >>
<1>. HIDE DEF u
<1>2. Len(t) \in 1..Len(t) /\ u[Len(u)] = t[Len(t)]
  BY <1>0, <1>1
<1>3. CASE Len(t) > 1
  <2>1. Len(t) - 1 \in 1..Len(t) /\ Len(u) - 1 = Len(s) + (Len(t) - 1)
    BY <1>1, <1>3
  <2>2. u[Len(u) - 1] = t[Len(t) - 1]
    BY <1>1, <2>1
  <2>. QED BY <1>2, <1>3, <2>2 DEF Ends, Complete, u
<1>4. CASE Len(t) = 1
  <2>1. CASE s = << >>
    <3>1. Len(u) = 1
      BY <1>1, <1>4, <2>1
    <3>. QED BY <1>2, <3>1 DEF Ends, Complete, u
  <2>2. CASE s # << >>
    <3>1. s[Len(s)].char = "#" /\ Len(s) \in 1..Len(s)
      <4>1. Len(s) >= 1
        BY <1>1, <2>2
      <4>. QED BY <1>1, <2>2, <4>1 DEF Complete, Ends
    <3>2. Len(u) - 1 = Len(s) /\ u[Len(u) - 1] = s[Len(s)]
      BY <1>1, <1>4, <3>1
    <3>. QED BY <1>2, <3>1, <3>2 DEF Ends, Complete, u
  <2>. QED BY <2>1, <2>2
<1>. QED BY <1>0, <1>3, <1>4

\* A request after complete ones is set off from them.
LEMMA FramedThen ==
  ASSUME NEW S, NEW s \in Seq(S), NEW t \in Seq(S), Framed(s), Complete(s), OneRequest(t)
  PROVE  Framed(Then(s, t))
<1>. DEFINE u == Then(s, t)
<1>1. /\ Len(u) = Len(s) + Len(t) /\ Len(s) \in Nat /\ Len(t) \in Nat
      /\ \A i \in 1..Len(s) : u[i] = s[i]
      /\ \A i \in 1..Len(t) : u[Len(s) + i] = t[i]
      /\ \A k \in 1..Len(s) : Ends(u, k) <=> Ends(s, k)
  <2>1. Len(u) = Len(s) + Len(t) /\ Len(s) \in Nat /\ Len(t) \in Nat
    BY ThenBytes
  <2>2. \A i \in 1..Len(s) : u[i] = s[i]
    BY ThenBytes
  <2>3. \A i \in 1..Len(t) : u[Len(s) + i] = t[i]
    BY ThenBytes
  <2>4. \A k \in 1..Len(s) : Ends(u, k) <=> Ends(s, k)
    BY EndsOfFirst
  <2>. QED BY <2>1, <2>2, <2>3, <2>4
<1>. HIDE DEF u
<1>. SUFFICES ASSUME NEW i \in 1..Len(u), NEW j \in 1..Len(u), i < j, u[i].of # u[j].of
              PROVE  \E k \in i..(j - 1) : Ends(u, k)
  BY DEF Framed, u
<1>2. CASE j <= Len(s)
  <2>1. i \in 1..Len(s) /\ j \in 1..Len(s) /\ s[i].of # s[j].of
    BY <1>1, <1>2
  <2>2. PICK k \in i..(j - 1) : Ends(s, k)
    BY <2>1 DEF Framed
  <2>3. k \in 1..Len(s)
    BY <1>1, <2>1
  <2>. QED BY <1>1, <2>2, <2>3
<1>3. CASE i <= Len(s) /\ j > Len(s)
  <2>1. Len(s) \in 1..Len(s) /\ Len(s) \in i..(j - 1)
    BY <1>1, <1>3
  <2>2. s # << >>
    BY <1>1, <2>1
  <2>. QED BY <1>1, <2>1, <2>2 DEF Complete
<1>4. CASE i > Len(s)
  <2>1. /\ i - Len(s) \in 1..Len(t) /\ j - Len(s) \in 1..Len(t)
        /\ Len(s) + (i - Len(s)) = i /\ Len(s) + (j - Len(s)) = j
    BY <1>1, <1>4
  <2>2. u[i] = t[i - Len(s)] /\ u[j] = t[j - Len(s)]
    BY <1>1, <2>1
  <2>. QED BY <2>1, <2>2 DEF OneRequest
<1>. QED BY <1>1, <1>2, <1>3, <1>4

\* So is what is left when an end is taken off.
LEMMA FramedFirst ==
  ASSUME NEW S, NEW s \in Seq(S), NEW t \in Seq(S), Framed(Then(s, t))
  PROVE  Framed(s)
<1>1. /\ Len(Then(s, t)) = Len(s) + Len(t) /\ Len(s) \in Nat /\ Len(t) \in Nat
      /\ \A i \in 1..Len(s) : Then(s, t)[i] = s[i]
  BY ThenBytes
<1>. SUFFICES ASSUME NEW i \in 1..Len(s), NEW j \in 1..Len(s), i < j, s[i].of # s[j].of
              PROVE  \E k \in i..(j - 1) : Ends(s, k)
  BY DEF Framed
<1>2. /\ i \in 1..Len(Then(s, t)) /\ j \in 1..Len(Then(s, t))
      /\ Then(s, t)[i] = s[i] /\ Then(s, t)[j] = s[j]
  BY <1>1
<1>3. PICK k \in i..(j - 1) : Ends(Then(s, t), k)
  BY <1>2 DEF Framed
<1>4. k \in 1..Len(s)
  BY <1>1
<1>. QED BY <1>3, <1>4, EndsOfFirst

\* What is left when a front is taken off is as well framed as the whole.
LEMMA FramedRest ==
  ASSUME NEW S, NEW a \in Seq(S), NEW b \in Seq(S), Framed(Then(a, b))
  PROVE  Framed(b) /\ (Complete(Then(a, b)) => Complete(b))
<1>. DEFINE u == Then(a, b)
<1>1. /\ Len(u) = Len(a) + Len(b) /\ Len(a) \in Nat /\ Len(b) \in Nat
      /\ \A i \in 1..Len(b) : u[Len(a) + i] = b[i]
  BY ONLY a \in Seq(S), b \in Seq(S), ThenBytes
<1>. HIDE DEF u
<1>2. ASSUME NEW k \in 1..Len(b), Ends(u, Len(a) + k) PROVE Ends(b, k)
  <2>1. /\ u[Len(a) + k] = b[k]
        /\ k > 1 => /\ k - 1 \in 1..Len(b) /\ Len(a) + k > 1
                    /\ (Len(a) + k) - 1 = Len(a) + (k - 1)
    BY <1>1
  <2>2. k > 1 => u[(Len(a) + k) - 1] = b[k - 1]
    BY <1>1, <2>1
  <2>. QED BY <1>2, <2>1, <2>2 DEF Ends
<1>3. ASSUME NEW i \in 1..Len(b), NEW j \in 1..Len(b), i < j, b[i].of # b[j].of
      PROVE  \E k \in i..(j - 1) : Ends(b, k)
  <2>1. /\ Len(a) + i \in 1..Len(u) /\ Len(a) + j \in 1..Len(u) /\ Len(a) + i < Len(a) + j
        /\ u[Len(a) + i] = b[i] /\ u[Len(a) + j] = b[j]
    BY <1>1, <1>3
  <2>2. PICK m \in (Len(a) + i)..((Len(a) + j) - 1) : Ends(u, m)
    <3>1. Framed(u)
      BY DEF u
    <3>2. u[Len(a) + i].of # u[Len(a) + j].of
      BY <1>3, <2>1
    <3>. QED BY <2>1, <3>1, <3>2 DEF Framed
  <2>3. /\ m - Len(a) \in i..(j - 1) /\ m - Len(a) \in 1..Len(b)
        /\ Len(a) + (m - Len(a)) = m
    BY <1>1
  <2>. QED BY <1>2, <2>2, <2>3
<1>4. ASSUME Complete(u), b # << >> PROVE Ends(b, Len(b))
  <2>1. Len(b) \in 1..Len(b) /\ Len(u) # 0
    <3>1. Len(b) >= 1
      BY <1>1, <1>4
    <3>. QED BY <1>1, <3>1
  <2>2. u # << >>
    BY <2>1
  <2>. QED BY <1>1, <1>2, <1>4, <2>1, <2>2 DEF Complete
<1>. QED BY <1>3, <1>4 DEF Framed, Complete, u

\* Up to the first end all is of one request.
LEMMA OneRequestUpToEnd ==
  ASSUME NEW S, NEW s \in Seq(S), NEW t \in Seq(S), Framed(Then(s, t)), NEW f \in 1..Len(s),
         \A k \in 1..Len(s) : k < f => ~Ends(s, k)
  PROVE  OneRequest(Start(s, f))
<1>1. /\ f \in 0..Len(s) /\ Len(s) \in Nat /\ Len(Then(s, t)) = Len(s) + Len(t) /\ Len(t) \in Nat
      /\ \A i \in 1..Len(s) : Then(s, t)[i] = s[i]
  BY ThenBytes
<1>2. Len(Start(s, f)) = f /\ \A i \in 1..f : Start(s, f)[i] = s[i]
  BY <1>1, StartRest
<1>3. ASSUME NEW i \in 1..f, NEW j \in 1..f, i < j PROVE s[i].of = s[j].of
  <2>. SUFFICES ASSUME s[i].of # s[j].of PROVE FALSE
    OBVIOUS
  <2>1. /\ i \in 1..Len(Then(s, t)) /\ j \in 1..Len(Then(s, t))
        /\ Then(s, t)[i] = s[i] /\ Then(s, t)[j] = s[j]
    BY <1>1
  <2>2. PICK k \in i..(j - 1) : Ends(Then(s, t), k)
    BY <1>3, <2>1 DEF Framed
  <2>3. k \in 1..Len(s) /\ k < f
    BY <1>1
  <2>. QED BY <2>2, <2>3, EndsOfFirst
<1>4. ASSUME NEW i \in 1..f, NEW j \in 1..f PROVE s[i].of = s[j].of
  <2>1. i < j \/ i = j \/ j < i
    OBVIOUS
  <2>. QED BY <1>3, <2>1
<1>. QED BY <1>2, <1>4 DEF OneRequest

\* What the search has passed over holds no end.
LEMMA StepSearchInv == TypeOK /\ SearchInv /\ [Next]_vars => SearchInv'
<1>. SUFFICES ASSUME TypeOK, SearchInv, [Next]_vars PROVE SearchInv'
  OBVIOUS
<1>1. ASSUME UNCHANGED <<place, buffer, findPos>> PROVE SearchInv'
  BY <1>1 DEF SearchInv, Reading, Ends
<1>2. CASE Read
  <2>1. findPos' = 0
    BY <1>2 DEF Read
  <2>. QED BY <2>1 DEF SearchInv
<1>3. CASE ReadEnd
  BY <1>3 DEF ReadEnd, SearchInv, Reading
<1>4. CASE Scan
  <2>1. CASE Hashes = {}
    BY <1>4, <2>1 DEF Scan, SearchInv, Reading, Ends
  <2>2. CASE Hashes # {} /\ ~IsEscaped(FirstHash)
    <3>1. place' = "read"
      BY <1>4, <2>2 DEF Scan
    <3>. QED BY <3>1 DEF SearchInv, Reading
  <2>3. CASE Hashes # {} /\ IsEscaped(FirstHash)
    <3>1. buffer' = buffer /\ findPos' = FirstHash /\ Reading
      BY <1>4, <2>3 DEF Scan, Reading
    <3>. SUFFICES ASSUME NEW k \in 1..Len(buffer), k <= FirstHash, Ends(buffer, k) PROVE FALSE
      BY <3>1 DEF SearchInv, Ends
    <3>2. findPos \in Nat /\ FirstHash \in Nat /\ k > findPos
      BY <2>3, <3>1, FirstHashFound DEF SearchInv, TypeOK
    <3>3. buffer[k].char = "#"
      BY DEF Ends
    <3>4. k = FirstHash
      BY <2>3, <3>2, <3>3, FirstHashFound
    <3>. QED BY <2>3, <3>4 DEF Ends, IsEscaped
  <2>. QED BY <2>1, <2>2, <2>3
<1>5. CASE ReadMore
  <2>1. ASSUME NEW t \in Seq(Bytes), buffer' = Then(buffer, t) PROVE SearchInv'
    <3>1. place = "more" /\ place' = "scan" /\ findPos' = findPos /\ buffer \in Seq(Bytes)
      BY <1>5 DEF ReadMore, TypeOK
    <3>2. findPos <= Len(buffer) /\ findPos \in Nat /\ Len(buffer) \in Nat
      BY <3>1 DEF TypeOK
    <3>3. ASSUME NEW k \in 1..Len(buffer'), k <= findPos PROVE ~Ends(buffer', k)
      <4>1. k \in 1..Len(buffer)
        BY <3>2, <3>3
      <4>2. ~Ends(buffer, k)
        BY <3>1, <3>3, <4>1 DEF SearchInv, Reading
      <4>3. ~Ends(Then(buffer, t), k)
        BY <3>1, <4>1, <4>2, EndsOfFirst
      <4>. QED BY <2>1, <4>3
    <3>. QED BY <3>1, <3>3 DEF SearchInv, Ends
  <2>2. ASSUME NEW k \in 1..Len(wire), buffer' = Then(buffer, Start(wire, k)) PROVE SearchInv'
    <3>1. wire \in Seq(Bytes) /\ k \in 0..Len(wire)
      BY DEF TypeOK
    <3>2. Start(wire, k) \in Seq(Bytes)
      BY <3>1, StartRest
    <3>. QED BY <2>1, <2>2, <3>2
  <2>3. CASE UNCHANGED <<buffer, wire>>
    BY <1>5, <2>3 DEF ReadMore, SearchInv, Reading, Ends
  <2>. QED BY <1>5, <2>2, <2>3 DEF ReadMore, FailedRead, Chunks, Then, Start
<1>6. CASE UNCHANGED vars \/ Client
  BY <1>1, <1>6 DEF vars, Client, Send, Abort, Exit, Reset
<1>. QED BY <1>2, <1>3, <1>4, <1>5, <1>6 DEF Next, Thread

\* A request on the wire is one request, and complete.
LEMMA EncodedIsOne ==
  ASSUME NEW word \in Words, NEW n \in 1..MaxRequests
  PROVE  /\ OneRequest(Encoded(word, n)) /\ Encoded(word, n) # << >>
         /\ HasEnd(word) => Ends(Encoded(word, n), Len(Encoded(word, n)))
<1>1. word \in Seq(Chars)
  BY EncodedType
<1>2. PICK e : e = Encoded(word, n)
  OBVIOUS
<1>3. /\ e \in Seq(BytesOf(n)) /\ Len(e) >= 1
      /\ HasEnd(word) => Ends(e, Len(e))
  BY <1>1, <1>2, EncodedBytes
<1>4. \A i \in 1..Len(e) : e[i].of = n
  <2>1. \A i \in 1..Len(e) : e[i] \in BytesOf(n)
    BY <1>3
  <2>2. \A b \in BytesOf(n) : b.of = n
    BY DEF BytesOf
  <2>. QED BY <2>1, <2>2
<1>5. e # << >>
  BY <1>3
<1>. QED BY <1>2, <1>3, <1>4, <1>5 DEF OneRequest

\* So is a part of it.
LEMMA PartIsOne ==
  ASSUME NEW word \in Words, NEW n \in 1..MaxRequests, NEW k \in 1..Len(Escaped(word, n))
  PROVE  OneRequest(Start(Escaped(word, n), k)) /\ NoEnd(Start(Escaped(word, n), k))
<1>1. word \in Seq(Chars)
  BY EncodedType
<1>2. PICK e : e = Escaped(word, n)
  OBVIOUS
<1>3. e \in Seq(BytesOf(n)) /\ NoEnd(e)
  BY <1>1, <1>2, EscapedBytes
<1>4. k \in 1..Len(e) /\ k \in 0..Len(e) /\ Len(e) \in Nat
  BY <1>2, <1>3
<1>5. PICK s : s = Start(e, k)
  OBVIOUS
<1>6. Len(s) = k /\ \A i \in 1..k : s[i] = e[i]
  BY <1>3, <1>4, <1>5, StartRest
<1>7. \A i \in 1..Len(e) : e[i].of = n
  <2>1. \A i \in 1..Len(e) : e[i] \in BytesOf(n)
    BY <1>3
  <2>2. \A b \in BytesOf(n) : b.of = n
    BY DEF BytesOf
  <2>. QED BY <2>1, <2>2
<1>8. \A i, j \in 1..Len(s) : s[i].of = s[j].of
  BY <1>4, <1>6, <1>7
<1>9. ASSUME NEW i \in 1..Len(s), Ends(s, i) PROVE FALSE
  <2>1. i \in 1..Len(e) /\ i \in 1..k /\ (i > 1 => i - 1 \in 1..k)
    BY <1>4, <1>6
  <2>2. Ends(e, i)
    BY <1>6, <1>9, <2>1 DEF Ends
  <2>. QED BY <1>3, <2>1, <2>2 DEF NoEnd
<1>. QED BY <1>2, <1>5, <1>8, <1>9 DEF OneRequest, NoEnd

\* What is in the buffer after a step is a part of the stream before it or after
\* it, or of the buffer.
LEMMA StepFramedBuffer ==
  ASSUME TypeOK, Framed(buffer), Framed(Stream), Next
  PROVE  Framed(buffer')
<1>1. wire \in Seq(Bytes) /\ buffer \in Seq(Bytes)
  BY DEF TypeOK
<1>2. ASSUME buffer' = buffer PROVE Framed(buffer')
  BY <1>2
<1>3. ASSUME NEW k \in 1..Len(wire), ~Reading, buffer' = Start(wire, k) PROVE Framed(buffer')
  <2>1. k \in 0..Len(wire) /\ Stream = wire
    BY <1>1, <1>3 DEF Stream
  <2>2. PICK a \in Seq(Bytes), b \in Seq(Bytes) : a = Start(wire, k) /\ b = Rest(wire, k)
    BY <1>1, <2>1, StartRest
  <2>3. Then(a, b) = wire
    BY <1>1, <2>1, <2>2, StartRest
  <2>. QED BY <1>3, <2>1, <2>2, <2>3, FramedFirst
<1>4. CASE Read
  BY <1>2, <1>3, <1>4 DEF Read, ReadAnew, FailedRead, Chunks, Start, Reading
<1>5. CASE ReadMore
  <2>1. ASSUME NEW k \in 1..Len(wire), buffer' = Then(buffer, Start(wire, k)) PROVE Framed(buffer')
    <3>1. k \in 0..Len(wire) /\ Stream = Then(buffer, wire)
      BY <1>1, <1>5 DEF Stream, Reading, ReadMore
    <3>2. PICK a \in Seq(Bytes), b \in Seq(Bytes) : a = Start(wire, k) /\ b = Rest(wire, k)
      BY <1>1, <3>1, StartRest
    <3>3. Then(a, b) = wire
      BY <1>1, <3>1, <3>2, StartRest
    <3>4. Then(Then(buffer, a), b) = Then(buffer, wire)
      BY <1>1, <3>2, <3>3, ThenTwice
    <3>5. Then(buffer, a) \in Seq(Bytes)
      BY <1>1, <3>2, ThenBytes
    <3>6. Framed(Then(buffer, a))
      BY <3>1, <3>2, <3>4, <3>5, FramedFirst
    <3>. QED BY <2>1, <3>2, <3>6
  <2>. QED BY <1>2, <1>5, <2>1 DEF ReadMore, FailedRead, Chunks, Start, Then
<1>6. CASE Scan
  <2>1. CASE buffer' = buffer
    BY <1>2, <2>1
  <2>2. CASE Hashes # {} /\ buffer' = Rest(buffer, FirstHash)
    <3>1. FirstHash \in 0..Len(buffer)
      BY <2>2, FirstHashFound
    <3>2. PICK a \in Seq(Bytes), b \in Seq(Bytes) :
            a = Start(buffer, FirstHash) /\ b = Rest(buffer, FirstHash)
      BY <1>1, <3>1, StartRest
    <3>3. Then(a, b) = buffer
      BY <1>1, <3>1, <3>2, StartRest
    <3>. QED BY <2>2, <3>2, <3>3, FramedRest
  <2>. QED BY <1>6, <2>1, <2>2 DEF Scan, Rest
<1>7. CASE ReadEnd \/ Client
  BY <1>2, <1>7 DEF ReadEnd, Client, Exit, Reset, Send, Abort
<1>. QED BY <1>4, <1>5, <1>6, <1>7 DEF Next, Thread

\* A step leaves the stream framed, and takes single requests from it.
LEMMA StepMixInv == TypeOK /\ SearchInv /\ MixInv /\ [Next]_vars => MixInv'
<1>. SUFFICES ASSUME TypeOK, SearchInv, MixInv, [Next]_vars, AllHaveEnds'
              PROVE  /\ Framed(Stream') /\ Framed(buffer')
                     /\ InOrder' => Complete(Stream')
                     /\ \A n \in 1..Len(produced') : OneRequest(produced'[n])
  BY DEF MixInv, Framed, Complete, OneRequest, Ends
<1>1. wire \in Seq(Bytes) /\ buffer \in Seq(Bytes) /\ Stream \in Seq(Bytes)
  BY StreamType DEF TypeOK
<1>0. AllHaveEnds
  <2>1. ASSUME NEW word \in Words, Send(word) PROVE AllHaveEnds
    <3>1. /\ Len(sent) \in Nat /\ Len(sent') = Len(sent) + 1
          /\ \A n \in 1..Len(sent) : sent'[n] = sent[n]
      BY <2>1, SendAdds
    <3>2. \A n \in 1..Len(sent') : HasEnd(sent'[n])
      BY DEF AllHaveEnds, HasEnd
    <3>3. \A n \in 1..Len(sent) : HasEnd(sent[n])
      <4>1. \A n \in 1..Len(sent) : n \in 1..Len(sent')
        BY <3>1
      <4>. QED BY <3>1, <3>2, <4>1
    <3>. QED BY <3>3 DEF AllHaveEnds
  <2>2. ASSUME sent' = sent PROVE AllHaveEnds
    BY <2>2 DEF AllHaveEnds
  <2>. QED BY <2>1, <2>2 DEF Next, Thread, Client, Abort, Exit, Reset, Read, ReadEnd, Scan, ReadMore, vars
<1>2. /\ Framed(Stream) /\ Framed(buffer) /\ (InOrder => Complete(Stream))
      /\ \A n \in 1..Len(produced) : OneRequest(produced[n])
  BY <1>0 DEF MixInv
<1>b. Framed(buffer')
  BY <1>2, StepFramedBuffer DEF vars
<1>3. CASE Exit \/ ReadEnd \/ Read \/ ReadMore \/ UNCHANGED vars
  <2>1. Stream' = Stream \/ (Read /\ Stream = << >> /\ Stream' = buffer)
    BY <1>3, StreamStays
  <2>2. produced' = produced /\ (InOrder' => InOrder)
    BY <1>3 DEF Exit, ReadEnd, Read, ReadMore, ReadAnew, FailedRead, InOrder, vars
  <2>3. Framed(Stream')
    BY <1>2, <2>1
  <2>4. InOrder' => Stream' = Stream
    <3>1. ASSUME Read, InOrder' PROVE Stream' = Stream
      <4>1. ReadAnew
        BY <3>1 DEF Read, FailedRead, InOrder
      <4>2. PICK k \in 1..Len(wire) : buffer' = Start(wire, k) /\ wire' = Rest(wire, k)
        BY <4>1 DEF ReadAnew, Chunks, Start, Rest
      <4>3. k \in 0..Len(wire)
        BY <1>1
      <4>4. Then(buffer', wire') = wire
        BY <1>1, <4>2, <4>3, StartRest
      <4>. QED BY <3>1, <4>4 DEF Read, Stream, Reading
    <3>. QED BY <2>1, <3>1
  <2>. QED BY <1>2, <1>b, <2>2, <2>3, <2>4
<1>4. CASE Scan /\ place' # "read"
  <2>1. Stream' = Stream
    BY <1>4, StreamStays
  <2>2. produced' = produced /\ ended' = ended
    BY <1>4 DEF Scan
  <2>. QED BY <1>2, <1>b, <2>1, <2>2 DEF InOrder
<1>5. CASE Scan /\ place' = "read"
  <2>1. /\ Reading /\ FirstHash \in 1..Len(buffer)
        /\ \A k \in 1..Len(buffer) : (k > findPos /\ k < FirstHash) => ~Ends(buffer, k)
        /\ produced' = Append(produced, Start(buffer, FirstHash))
        /\ Stream' = wire /\ UNCHANGED <<patient, sent, ended>>
    BY <1>5, Taken
  <2>2. Stream = Then(buffer, wire)
    BY <2>1 DEF Stream
  <2>3. Framed(wire) /\ (InOrder => Complete(wire))
    BY <1>1, <1>2, <2>1, <2>2, FramedRest
  <2>4. \A k \in 1..Len(buffer) : k < FirstHash => ~Ends(buffer, k)
    <3>1. findPos \in Nat
      BY DEF TypeOK
    <3>. QED BY <2>1, <3>1 DEF SearchInv
  <2>5. OneRequest(Start(buffer, FirstHash))
    BY <1>1, <1>2, <2>1, <2>2, <2>4, OneRequestUpToEnd
  <2>6. \A n \in 1..Len(produced') : OneRequest(produced'[n])
    <3>1. PICK r : r = Start(buffer, FirstHash)
      OBVIOUS
    <3>2. /\ Len(produced) \in Nat /\ Len(produced') = Len(produced) + 1
          /\ produced'[Len(produced) + 1] = r
          /\ \A n \in 1..Len(produced) : produced'[n] = produced[n]
      BY <2>1, <3>1 DEF TypeOK
    <3>3. OneRequest(r) /\ \A n \in 1..Len(produced) : OneRequest(produced[n])
      BY <1>2, <2>1, <2>5, <3>1
    <3>. SUFFICES ASSUME NEW n \in 1..Len(produced') PROVE OneRequest(produced'[n])
      OBVIOUS
    <3>4. CASE n = Len(produced) + 1
      BY <3>2, <3>3, <3>4
    <3>5. CASE n # Len(produced) + 1
      <4>1. n \in 1..Len(produced)
        BY <3>2, <3>5
      <4>. QED BY <3>2, <3>3, <4>1
    <3>. QED BY <3>4, <3>5
  <2>. QED BY <1>b, <2>1, <2>3, <2>6 DEF InOrder
<1>6. ASSUME NEW word \in Words, Send(word)
      PROVE  /\ Framed(Stream') /\ Complete(Stream')
             /\ \A n \in 1..Len(produced') : OneRequest(produced'[n])
  <2>1. /\ Len(sent) \in Nat /\ Len(sent) + 1 \in 1..MaxRequests
        /\ Len(sent') = Len(sent) + 1 /\ sent'[Len(sent) + 1] = word
        /\ \A n \in 1..Len(sent) : sent'[n] = sent[n]
    BY <1>6, SendAdds
  <2>2. PICK e \in Seq(Bytes) : e = Encoded(word, Len(sent) + 1)
    BY <1>6, SendAdds
  <2>3. Stream' = Then(Stream, e)
    BY <1>6, <2>2, SendAdds
  <2>4. HasEnd(word)
    <3>1. \A n \in 1..Len(sent') : HasEnd(sent'[n])
      BY DEF AllHaveEnds, HasEnd
    <3>2. Len(sent) + 1 \in 1..Len(sent')
      BY <2>1
    <3>. QED BY <2>1, <3>1, <3>2
  <2>5. ended = "no" /\ produced' = produced
    BY <1>6 DEF Send, Ready
  <2>6. /\ Framed(Stream) /\ Complete(Stream)
        /\ \A n \in 1..Len(produced) : OneRequest(produced[n])
    BY <1>2, <2>5 DEF InOrder
  <2>7. OneRequest(e) /\ e # << >> /\ Ends(e, Len(e))
    BY <2>1, <2>2, <2>4, EncodedIsOne
  <2>8. Framed(Then(Stream, e))
    BY <1>1, <2>6, <2>7, FramedThen
  <2>9. Complete(Then(Stream, e))
    BY <1>1, <2>6, <2>7, CompleteThen
  <2>. QED BY <2>3, <2>5, <2>6, <2>8, <2>9
<1>7. ASSUME NEW word \in Words, Abort(word)
      PROVE  /\ Framed(Stream') /\ ~InOrder'
             /\ \A n \in 1..Len(produced') : OneRequest(produced'[n])
  <2>1. ended = "no" /\ produced' = produced /\ sent' = sent /\ ended' = "inside"
    BY <1>7 DEF Abort, Ready
  <2>2. PICK k \in 1..Len(Escaped(word, Len(sent) + 1)) :
          /\ Start(Escaped(word, Len(sent) + 1), k) \in Seq(Bytes)
          /\ Stream' = Then(Stream, Start(Escaped(word, Len(sent) + 1), k))
    BY <1>7, AbortAdds
  <2>3. PICK part \in Seq(Bytes) : part = Start(Escaped(word, Len(sent) + 1), k)
    BY <2>2
  <2>4. OneRequest(part)
    BY <1>7, <2>3, PartIsOne, AbortAdds
  <2>5. Framed(Then(Stream, part))
    BY <1>1, <1>2, <2>1, <2>4, FramedThen DEF InOrder
  <2>. QED BY <1>2, <2>1, <2>2, <2>3, <2>5 DEF InOrder
<1>8. CASE Reset
  <2>1. PICK t \in Seq(Bytes) : Stream' \in Seq(Bytes) /\ Stream = Then(Stream', t)
    BY <1>8, ResetCuts
  <2>2. Framed(Stream')
    BY <1>2, <2>1, FramedFirst
  <2>3. produced' = produced /\ ~InOrder'
    BY <1>8 DEF Reset, InOrder
  <2>. QED BY <1>2, <1>b, <2>2, <2>3
<1>. QED BY <1>b, <1>3, <1>4, <1>5, <1>6, <1>7, <1>8 DEF Next, Thread, Client

\* No request that is taken is made up of parts of two, however the network cuts
\* the stream and however much of it the thread loses.
THEOREM RequestsStayApart == Spec => []RequestsAreNotMixed
<1>1. Init => SearchInv /\ MixInv
  <2>. SUFFICES ASSUME Init PROVE SearchInv /\ MixInv
    OBVIOUS
  <2>1. Stream = << >> /\ ~Reading /\ produced = << >> /\ buffer = << >>
    BY DEF Init, Stream, Reading
  <2>2. Len(<< >>) = 0
    OBVIOUS
  <2>. QED BY <2>1, <2>2 DEF SearchInv, MixInv, Framed, Complete
<1>2. MixInv => RequestsAreNotMixed
  BY DEF MixInv, RequestsAreNotMixed, OneRequest
<1>. QED BY <1>1, <1>2, InitTypes, StepTypes, StepSearchInv, StepMixInv, PTL DEF Spec

(***************************************************************************)
(* Requests arrive whole.  A client that waits has at most one request on  *)
(* the stream, from its first byte, and its only end is its last byte; a   *)
(* request that is cut short has none.                                     *)
(***************************************************************************)
Nothing == Len(sent) = Len(produced) /\ Stream = << >>

Underway ==
  /\ Len(sent) = Len(produced) + 1
  /\ Stream = Encoded(sent[Len(sent)], Len(sent))

CutShort == ~InOrder /\ NoEnd(Stream)

\* Between two requests nothing is left in the buffer for a failed read to find.
NothingLeft == ~Reading => buffer = << >>

WholeInv ==
  patient => RequestsArriveWhole /\ NothingLeft /\ (Nothing \/ Underway \/ CutShort)

\* A request that was taken whole is the one the client waits for; so what is
\* taken is what was sent.
LEMMA StepWholeInv == TypeOK /\ WholeInv /\ [Next]_vars => WholeInv'
<1>. SUFFICES ASSUME TypeOK, WholeInv, [Next]_vars, patient'
              PROVE  RequestsArriveWhole' /\ NothingLeft' /\ (Nothing' \/ Underway' \/ CutShort')
  BY DEF WholeInv
<1>0. patient' = patient
  BY DEF Next, Thread, Client, Send, Abort, Exit, Reset, Read, ReadEnd, Scan, ReadMore, vars
<1>1. /\ wire \in Seq(Bytes) /\ buffer \in Seq(Bytes) /\ Stream \in Seq(Bytes)
      /\ Len(produced) \in Nat /\ Len(sent) \in Nat /\ sent \in Seq(Words)
      /\ Len(sent) <= MaxRequests
  BY StreamType DEF TypeOK
<1>2. /\ \A n \in 1..Len(produced) : n <= Len(sent) /\ produced[n] = Encoded(sent[n], n)
      /\ Nothing \/ Underway \/ CutShort
      /\ NothingLeft
  BY <1>0 DEF WholeInv, RequestsArriveWhole
<1>3. ASSUME Stream' = Stream, UNCHANGED <<sent, produced>>, InOrder' => InOrder
      PROVE  RequestsArriveWhole' /\ (Nothing' \/ Underway' \/ CutShort')
  <2>1. RequestsArriveWhole'
    BY <1>2, <1>3 DEF RequestsArriveWhole
  <2>2. Nothing => Nothing'
    BY <1>3 DEF Nothing
  <2>3. Underway => Underway'
    BY <1>3 DEF Underway
  <2>4. CutShort => CutShort'
    BY <1>3 DEF CutShort, NoEnd, Ends
  <2>. QED BY <1>2, <2>1, <2>2, <2>3, <2>4
<1>4. CASE Exit \/ ReadEnd \/ Read \/ ReadMore \/ UNCHANGED vars
  <2>1. Stream' = Stream
    <3>1. Read => buffer = << >>
      BY <1>2 DEF Read, NothingLeft, Reading
    <3>. QED BY <1>4, <3>1, StreamStays
  <2>2. UNCHANGED <<sent, produced>> /\ (InOrder' => InOrder)
    BY <1>4 DEF Exit, ReadEnd, Read, ReadMore, ReadAnew, FailedRead, InOrder, vars
  <2>3. NothingLeft'
    <3>1. Read \/ ReadMore => Reading'
      BY DEF Read, ReadMore, Reading
    <3>2. Exit \/ ReadEnd \/ UNCHANGED vars => buffer' = buffer /\ (~Reading' => ~Reading)
      BY DEF Exit, ReadEnd, vars, Reading
    <3>. QED BY <1>2, <1>4, <3>1, <3>2 DEF NothingLeft
  <2>. QED BY <1>3, <2>1, <2>2, <2>3
<1>5. CASE Scan /\ place' # "read"
  <2>1. Stream' = Stream
    BY <1>5, StreamStays
  <2>2. UNCHANGED <<sent, produced, ended>> /\ Reading'
    BY <1>5 DEF Scan, Reading
  <2>. QED BY <1>3, <2>1, <2>2 DEF InOrder, NothingLeft
<1>6. CASE Scan /\ place' = "read"
  <2>1. /\ Reading /\ FirstHash \in 1..Len(buffer) /\ Ends(buffer, FirstHash)
        /\ produced' = Append(produced, Start(buffer, FirstHash))
        /\ Stream' = wire /\ UNCHANGED <<patient, sent, ended>>
        /\ buffer' = Rest(buffer, FirstHash)
    BY <1>6, Taken DEF Scan, Rest
  <2>2. Stream = Then(buffer, wire)
    BY <2>1 DEF Stream
  <2>3. Ends(Then(buffer, wire), FirstHash)
    BY <1>1, <2>1, EndsOfFirst
  <2>4. /\ Len(Then(buffer, wire)) = Len(buffer) + Len(wire)
        /\ Len(buffer) \in Nat /\ Len(wire) \in Nat
    BY <1>1, ThenBytes
  <2>5. FirstHash \in 1..Len(Then(buffer, wire))
    BY <2>1, <2>4
  <2>6. ~CutShort
    BY <2>2, <2>3, <2>5 DEF CutShort, NoEnd
  <2>7. ~Nothing
    <3>1. Len(Then(buffer, wire)) # 0
      BY <2>4, <2>5
    <3>. QED BY <2>2, <3>1 DEF Nothing
  <2>8. Underway
    BY <1>2, <2>6, <2>7
  <2>9. PICK n \in 1..MaxRequests : n = Len(produced) + 1 /\ n = Len(sent)
    BY <1>1, <2>8 DEF Underway
  <2>10. sent[n] \in Words /\ Then(buffer, wire) = Encoded(sent[n], n)
    BY <1>1, <2>2, <2>8, <2>9 DEF Underway
  <2>11. FirstHash = Len(Then(buffer, wire))
    <3>1. sent[n] \in Seq(Chars)
      BY <2>10, EncodedType
    <3>2. PICK e : e = Encoded(sent[n], n)
      OBVIOUS
    <3>3. \A k \in 1..Len(e) : Ends(e, k) => k = Len(e)
      BY <3>1, <3>2, EncodedBytes
    <3>. QED BY <2>3, <2>5, <2>10, <3>2, <3>3
  <2>12. FirstHash = Len(buffer) /\ Len(wire) = 0
    BY <2>1, <2>4, <2>11
  <2>13. wire = << >> /\ Start(buffer, FirstHash) = buffer
    <3>1. Start(buffer, Len(buffer)) = buffer
      BY <1>1, SubSeqFull DEF Start
    <3>. QED BY <1>1, <2>12, <3>1
  <2>14. buffer = Encoded(sent[n], n)
    <3>1. Then(buffer, << >>) = buffer
      BY <1>1, ConcatEmptySeq DEF Then
    <3>. QED BY <2>10, <2>13, <3>1
  <2>15. /\ Len(produced') = n /\ produced'[n] = Encoded(sent[n], n)
         /\ \A m \in 1..Len(produced) : produced'[m] = produced[m]
    <3>1. PICK r : r = buffer
      OBVIOUS
    <3>2. produced' = Append(produced, r)
      BY <2>1, <2>13, <3>1
    <3>3. /\ Len(produced') = Len(produced) + 1 /\ produced'[Len(produced) + 1] = r
          /\ \A m \in 1..Len(produced) : produced'[m] = produced[m]
      BY <3>2 DEF TypeOK
    <3>. QED BY <2>9, <2>14, <3>1, <3>3
  <2>16. RequestsArriveWhole'
    <3>1. ASSUME NEW m \in 1..n PROVE m <= Len(sent) /\ produced'[m] = Encoded(sent[m], m)
      <4>1. CASE m = n
        BY <2>9, <2>15, <4>1
      <4>2. CASE m # n
        <5>1. m \in 1..Len(produced)
          BY <1>1, <2>9, <4>2
        <5>. QED BY <1>2, <2>15, <5>1
      <4>. QED BY <4>1, <4>2
    <3>. QED BY <2>1, <2>15, <3>1 DEF RequestsArriveWhole
  <2>17. Nothing'
    BY <2>1, <2>8, <2>9, <2>13, <2>15 DEF Nothing, Underway
  <2>18. NothingLeft'
    <3>1. Rest(Then(buffer, << >>), Len(buffer)) = << >>
      <4>1. << >> \in Seq(Bytes)
        OBVIOUS
      <4>. QED BY <1>1, <4>1, RestOfThen
    <3>2. Then(buffer, << >>) = buffer
      BY <1>1, ConcatEmptySeq DEF Then
    <3>. QED BY <2>1, <2>12, <3>1, <3>2 DEF NothingLeft
  <2>. QED BY <2>16, <2>17, <2>18
<1>7. ASSUME NEW word \in Words, Send(word)
      PROVE  RequestsArriveWhole' /\ NothingLeft' /\ Underway'
  <2>1. /\ Len(sent) + 1 \in 1..MaxRequests
        /\ Len(sent') = Len(sent) + 1 /\ sent'[Len(sent) + 1] = word
        /\ \A n \in 1..Len(sent) : sent'[n] = sent[n]
        /\ Stream' = Then(Stream, Encoded(word, Len(sent) + 1))
        /\ Encoded(word, Len(sent) + 1) \in Seq(Bytes)
    BY <1>7, SendAdds
  <2>2. ended = "no" /\ ended' = "no" /\ produced' = produced /\ Len(produced) = Len(sent)
    BY <1>0, <1>7 DEF Send, Ready
  <2>3. Nothing
    BY <1>1, <1>2, <2>2 DEF Underway, CutShort, InOrder
  <2>4. Then(<< >>, Encoded(word, Len(sent) + 1)) = Encoded(word, Len(sent) + 1)
    BY <2>1, ConcatEmptySeq DEF Then
  <2>5. Underway'
    BY <2>1, <2>2, <2>3, <2>4 DEF Underway, Nothing
  <2>6. RequestsArriveWhole'
    <3>1. ASSUME NEW n \in 1..Len(produced)
          PROVE  n <= Len(sent') /\ produced[n] = Encoded(sent'[n], n)
      <4>1. n \in 1..Len(sent) /\ produced[n] = Encoded(sent[n], n)
        BY <1>1, <1>2, <2>2
      <4>. QED BY <1>1, <2>1, <4>1
    <3>. QED BY <2>2, <3>1 DEF RequestsArriveWhole
  <2>7. NothingLeft'
    BY <1>2, <1>7 DEF Send, NothingLeft, Reading
  <2>. QED BY <2>5, <2>6, <2>7
<1>8. ASSUME NEW word \in Words, Abort(word)
      PROVE  RequestsArriveWhole' /\ NothingLeft' /\ CutShort'
  <2>1. /\ ended = "no" /\ ended' = "inside" /\ produced' = produced /\ sent' = sent
        /\ Len(produced) = Len(sent)
    BY <1>0, <1>8 DEF Abort, Ready
  <2>2. Len(sent) + 1 \in 1..MaxRequests
    BY <1>8, AbortAdds
  <2>3. PICK k \in 1..Len(Escaped(word, Len(sent) + 1)) :
          /\ Start(Escaped(word, Len(sent) + 1), k) \in Seq(Bytes)
          /\ Stream' = Then(Stream, Start(Escaped(word, Len(sent) + 1), k))
    BY <1>8, AbortAdds
  <2>4. PICK part \in Seq(Bytes) : part = Start(Escaped(word, Len(sent) + 1), k)
    BY <2>3
  <2>5. NoEnd(part)
    BY <2>2, <2>4, PartIsOne
  <2>6. Stream = << >>
    BY <1>1, <1>2, <2>1 DEF Nothing, Underway, CutShort, InOrder
  <2>7. Stream' = part
    <3>1. Then(<< >>, part) = part
      BY ConcatEmptySeq DEF Then
    <3>. QED BY <2>3, <2>4, <2>6, <3>1
  <2>8. CutShort'
    BY <2>1, <2>5, <2>7 DEF CutShort, NoEnd, Ends, InOrder
  <2>9. RequestsArriveWhole'
    BY <1>2, <2>1 DEF RequestsArriveWhole
  <2>10. NothingLeft'
    BY <1>2, <1>8 DEF Abort, NothingLeft, Reading
  <2>. QED BY <2>8, <2>9, <2>10
<1>9. ASSUME Reset
      PROVE  RequestsArriveWhole' /\ NothingLeft' /\ (Nothing' \/ Underway' \/ CutShort')
  <2>1. PICK s \in Seq(Bytes), t \in Seq(Bytes) : Stream' = s /\ Stream = Then(s, t)
    BY <1>9, ResetCuts
  <2>2. UNCHANGED <<sent, produced, place, buffer>> /\ ~InOrder' /\ InOrder
    BY <1>9 DEF Reset, InOrder
  <2>3. RequestsArriveWhole' /\ NothingLeft'
    BY <1>2, <2>2 DEF RequestsArriveWhole, NothingLeft, Reading
  <2>4. /\ Len(Stream) = Len(s) + Len(t) /\ Len(s) \in Nat /\ Len(t) \in Nat
        /\ \A k \in 1..Len(s) : Ends(Stream, k) <=> Ends(s, k)
    <3>1. Len(Then(s, t)) = Len(s) + Len(t) /\ Len(s) \in Nat /\ Len(t) \in Nat
      BY ThenBytes
    <3>2. \A k \in 1..Len(s) : Ends(Then(s, t), k) <=> Ends(s, k)
      BY EndsOfFirst
    <3>. QED BY <2>1, <3>1, <3>2
  <2>5. CASE Nothing
    <3>1. NoEnd(s)
      <4>1. Len(Stream) = 0
        BY <2>5 DEF Nothing
      <4>2. PICK m \in Nat, n \in Nat : m = Len(s) /\ n = Len(t) /\ m + n = Len(Stream)
        BY <2>4
      <4>3. m = 0
        BY <4>1, <4>2
      <4>. QED BY <4>2, <4>3 DEF NoEnd
    <3>. QED BY <2>1, <2>2, <2>3, <3>1 DEF CutShort, NoEnd, Ends
  <2>6. CASE Underway /\ Len(t) = 0
    <3>1. t = << >> /\ Then(s, << >>) = s
      BY <2>6, ConcatEmptySeq DEF Then
    <3>2. Stream' = Stream
      BY <2>1, <3>1
    <3>. QED BY <2>2, <2>3, <2>6, <3>2 DEF Underway
  <2>7. CASE Underway /\ Len(t) # 0
    <3>1. PICK n \in 1..MaxRequests : n = Len(sent)
      BY <1>1, <2>7 DEF Underway
    <3>2. sent[n] \in Words /\ Stream = Encoded(sent[n], n)
      BY <1>1, <2>7, <3>1 DEF Underway
    <3>3. sent[n] \in Seq(Chars)
      BY <3>2, EncodedType
    <3>4. \A k \in 1..Len(Stream) : Ends(Stream, k) => k = Len(Stream)
      <4>1. PICK e : e = Encoded(sent[n], n)
        OBVIOUS
      <4>2. \A k \in 1..Len(e) : Ends(e, k) => k = Len(e)
        BY <3>3, <4>1, EncodedBytes
      <4>. QED BY <3>2, <4>1, <4>2
    <3>5. ASSUME NEW k \in 1..Len(s), Ends(s, k) PROVE FALSE
      <4>1. k \in 1..Len(Stream) /\ k # Len(Stream)
        BY <2>4, <2>7
      <4>. QED BY <2>4, <3>4, <3>5, <4>1
    <3>6. NoEnd(s)
      BY <3>5 DEF NoEnd
    <3>. QED BY <2>1, <2>2, <2>3, <3>6 DEF CutShort, NoEnd, Ends
  <2>. QED BY <1>2, <2>2, <2>5, <2>6, <2>7 DEF CutShort
<1>. QED BY <1>4, <1>5, <1>6, <1>7, <1>8, <1>9 DEF Next, Thread, Client

\* Whatever pieces the network hands over, and wherever hashes and backslashes
\* fall in them, a client that waits for each request to be taken has every one
\* taken as it was written, and in order.
THEOREM RequestsAreTakenAsWritten == Spec => []RequestsArriveWhole
<1>1. Init => WholeInv
  <2>. SUFFICES ASSUME Init PROVE WholeInv
    OBVIOUS
  <2>1. Stream = << >> /\ sent = << >> /\ produced = << >> /\ buffer = << >> /\ Len(<< >>) = 0
    BY DEF Init, Stream, Reading
  <2>. QED BY <2>1 DEF WholeInv, Nothing, NothingLeft, RequestsArriveWhole
<1>2. WholeInv => RequestsArriveWhole
  BY DEF WholeInv, RequestsArriveWhole
<1>. QED BY <1>1, <1>2, InitTypes, StepTypes, StepWholeInv, PTL DEF Spec
===============================================================================
