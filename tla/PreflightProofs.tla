--------------------------- MODULE PreflightProofs ---------------------------
(***************************************************************************)
(* Proofs about what is done before a game is started.                     *)
(*                                                                         *)
(* The command line, for every command of any length: the line that        *)
(* elevation.hpp writes is split into the words it was written for, and an *)
(* elevated launcher understands what the user's launcher understood.      *)
(*                                                                         *)
(* The reading of an executable, for every section table, width of its     *)
(* fields, size of the image and of the file, content and pattern: a view  *)
(* has the bytes of its address, and a search finds each match once.       *)
(*                                                                         *)
(* The library's induction takes an operator as a parameter, which the     *)
(* provers cannot instantiate. SetInduction is induction for a set of      *)
(* numbers, proved from the finite sets; Recursion derives the values of a *)
(* recursive function from it.                                             *)
(***************************************************************************)
EXTENDS Preflight, FiniteSetTheorems, SequenceTheorems, TLAPS

-----------------------------------------------------------------------------
(* Induction and recursion                                                 *)

\* Induction, stated for a set of numbers.
LEMMA SetInduction ==
  ASSUME NEW T, 0 \in T, \A n \in Nat : n \in T => n + 1 \in T
  PROVE  \A n \in Nat : n \in T
<1>1. SUFFICES ASSUME NEW n \in Nat, n \notin T PROVE FALSE
  OBVIOUS
<1> DEFINE U == {i \in 0 .. n : i \notin T}
           back == [i \in U |-> i - 1]
<1>2. IsFiniteSet(U) /\ Cardinality(U) \in Nat
  <2>1. IsFiniteSet(0 .. n) /\ U \in SUBSET (0 .. n)
    BY FS_Interval
  <2> HIDE DEF U
  <2> QED BY <2>1, FS_Subset, FS_CardinalityType
<1>3. n \in U /\ \A i \in U : i - 1 \in U \ {n}
  BY <1>1
<1>4. IsFiniteSet(U \ {n}) /\ Cardinality(U \ {n}) = Cardinality(U) - 1
  BY <1>2, <1>3, FS_RemoveElement
<1>5. back \in [U -> U \ {n}]
  BY <1>3
<1>6. PICK i, j \in U : i # j /\ back[i] = back[j]
  <2> HIDE DEF back, U
  <2> QED BY <1>2, <1>4, <1>5, FS_PigeonHole
<1> QED
  BY <1>6

\* What one step makes of a value and the number of the step.
IsStep(step, S, m) == step \in [S \X (1 .. m) -> S]

\* g starts at `base` and makes n steps.
Obeys(g, S, base, n, step) ==
  /\ g \in [0 .. n -> S]
  /\ g[0] = base
  /\ \A i \in 1 .. n : g[i] = step[<<g[i - 1], i>>]

\* There is a function with a given start and given steps: what the recursive
\* functions of the model are compared with.
LEMMA Recursion ==
  ASSUME NEW S, NEW base \in S, NEW m \in Nat, NEW step, IsStep(step, S, m)
  PROVE  \E g : Obeys(g, S, base, m, step)
<1> DEFINE T == {n \in Nat : n <= m => \E g : Obeys(g, S, base, n, step)}
<1>1. 0 \in T
  <2>1. Obeys([k \in 0 .. 0 |-> base], S, base, 0, step)
    BY DEF Obeys
  <2> QED BY <2>1
<1>2. ASSUME NEW n \in Nat, n \in T PROVE n + 1 \in T
  <2> SUFFICES ASSUME n + 1 <= m PROVE \E h : Obeys(h, S, base, n + 1, step)
    OBVIOUS
  <2>1. PICK g : Obeys(g, S, base, n, step)
    BY <1>2
  <2> DEFINE next == step[<<g[n], n + 1>>]
             h == [k \in 0 .. n + 1 |-> IF k = n + 1 THEN next ELSE g[k]]
  <2>2. g \in [0 .. n -> S] /\ next \in S
    BY <2>1 DEF Obeys, IsStep
  <2>3. h \in [0 .. n + 1 -> S] /\ h[n + 1] = next /\ \A k \in 0 .. n : h[k] = g[k]
    <3> HIDE DEF next
    <3> QED BY <2>2
  <2> HIDE DEF h
  <2>4. \A i \in 1 .. n + 1 : h[i] = step[<<h[i - 1], i>>]
    <3> SUFFICES ASSUME NEW i \in 1 .. n + 1 PROVE h[i] = step[<<h[i - 1], i>>]
      OBVIOUS
    <3>1. i - 1 \in 0 .. n /\ h[i - 1] = g[i - 1]
      BY <2>3
    <3>2. CASE i = n + 1
      BY <2>3, <3>1, <3>2
    <3>3. CASE i # n + 1
      <4>1. i \in 1 .. n /\ i \in 0 .. n
        BY <3>3
      <4> QED BY <2>1, <2>3, <3>1, <4>1 DEF Obeys
    <3> QED BY <3>2, <3>3
  <2> QED BY <2>1, <2>3, <2>4 DEF Obeys
<1>3. \A n \in Nat : n \in T
  <2> HIDE DEF T
  <2> QED BY <1>1, <1>2, SetInduction
<1> QED BY <1>3

-----------------------------------------------------------------------------
(* Quoting and splitting: what the functions compute.                      *)

\* The characters of arguments.  (The provers do not know that these literals
\* are strings.)
Letters == STRING \cup {Slash, Quote, Blank, "C:", "ZenlessZoneZero.exe", RelaunchFlag}

\* What argv holds, and a state of the quoting.
Argument == Seq(Letters)

Quoted == [text : Argument, slashes : Nat]

\* The three characters that the encoding is about.
LEMMA ThreeLetters ==
  /\ Slash \in Letters /\ Quote \in Letters /\ Blank \in Letters
  /\ Slash # Quote /\ Slash # Blank /\ Quote # Blank
<1>1. Slash # Quote /\ Slash # Blank /\ Quote # Blank
  BY DEF Slash, Quote, Blank
<1> QED BY <1>1 DEF Letters

\* Repeated backslashes are an argument.
LEMMA RepeatType ==
  ASSUME NEW n \in Nat PROVE Repeat(Slash, n) \in Argument /\ Len(Repeat(Slash, n)) = n
BY ThreeLetters DEF Repeat, Argument

\* quote_argument's round keeps its types.
LEMMA QuoteCharacterType ==
  ASSUME NEW q \in Quoted, NEW c \in Letters
  PROVE  QuoteCharacter(q, c) \in Quoted
<1>1. q.text \in Argument /\ q.slashes \in Nat
  BY DEF Quoted
<1>2. CASE c = Slash
  BY <1>2, <1>1 DEF QuoteCharacter, Quoted
<1>3. CASE c # Slash
  <2> DEFINE n == IF c = Quote THEN 2 * q.slashes + 1 ELSE q.slashes
  <2>1. n \in Nat
    BY <1>1
  <2>2. Repeat(Slash, n) \in Argument
    BY <2>1, RepeatType
  <2>3. <<c>> \in Argument
    BY DEF Argument
  <2>4. q.text \o Repeat(Slash, n) \o <<c>> \in Argument
    <3> HIDE DEF n
    <3> QED BY <1>1, <2>2, <2>3 DEF Argument
  <2> QED BY <1>3, <2>4 DEF QuoteCharacter, Quoted
<1> QED BY <1>2, <1>3

\* quote_argument's loop starts with the quote and makes its rounds in order.
LEMMA QuotingSteps ==
  ASSUME NEW a \in Argument
  PROVE  /\ Quoting(a)[0] = [text |-> <<Quote>>, slashes |-> 0]
         /\ \A i \in 1 .. Len(a) :
              Quoting(a)[i] = QuoteCharacter(Quoting(a)[i - 1], a[i])
         /\ \A i \in 0 .. Len(a) : Quoting(a)[i] \in Quoted
<1> DEFINE base == [text |-> <<Quote>>, slashes |-> 0]
           step == [p \in Quoted \X (1 .. Len(a)) |-> QuoteCharacter(p[1], a[p[2]])]
           Def(h) == h = [i \in 0 .. Len(a) |->
                            IF i = 0 THEN base ELSE QuoteCharacter(h[i - 1], a[i])]
<1>1. Len(a) \in Nat /\ \A i \in 1 .. Len(a) : a[i] \in Letters
  BY DEF Argument
<1>2. base \in Quoted
  BY ThreeLetters DEF Quoted, Argument
<1>3. IsStep(step, Quoted, Len(a))
  BY <1>1, QuoteCharacterType DEF IsStep
<1>4. PICK g : Obeys(g, Quoted, base, Len(a), step)
  <2> HIDE DEF base, step
  <2> QED BY <1>1, <1>2, <1>3, Recursion
<1>5. /\ g \in [0 .. Len(a) -> Quoted] /\ g[0] = base
      /\ \A i \in 1 .. Len(a) : g[i] = QuoteCharacter(g[i - 1], a[i])
  <2>1. g \in [0 .. Len(a) -> Quoted]
    BY <1>4 DEF Obeys
  <2>2. ASSUME NEW i \in 1 .. Len(a) PROVE <<g[i - 1], i>> \in Quoted \X (1 .. Len(a))
    <3>1. i - 1 \in 0 .. Len(a)
      BY <1>1
    <3>2. g[i - 1] \in Quoted
      BY <2>1, <3>1
    <3> QED BY <3>2
  <2> QED BY <1>4, <2>2 DEF Obeys
<1>6. Def(g)
  <2> HIDE DEF base
  <2> QED BY <1>5
<1>7. Quoting(a) = CHOOSE h : Def(h)
  BY DEF Quoting
<1>8. Def(Quoting(a))
  <2> HIDE DEF Def
  <2> QED BY <1>6, <1>7
<1> HIDE DEF base
<1>9. /\ Quoting(a)[0] = base
      /\ \A i \in 1 .. Len(a) : Quoting(a)[i] = QuoteCharacter(Quoting(a)[i - 1], a[i])
  BY <1>1, <1>8
<1> DEFINE T == {i \in Nat : i \in 0 .. Len(a) => Quoting(a)[i] \in Quoted}
<1>10. \A i \in Nat : i \in T
  <2>1. 0 \in T
    BY <1>2, <1>9
  <2>2. ASSUME NEW i \in Nat, i \in T PROVE i + 1 \in T
    BY <1>1, <1>9, <2>2, QuoteCharacterType
  <2> HIDE DEF T
  <2> QED BY <2>1, <2>2, SetInduction
<1> QED BY <1>1, <1>9, <1>10 DEF base

-----------------------------------------------------------------------------
(* Reading a line back                                                     *)

\* A way of the reader over a line.
ReadingOf(f, line) ==
  /\ DOMAIN f = 0 .. Len(line)
  /\ \A i \in 1 .. Len(line) : f[i] = ReadCharacter(f[i - 1], line[i])

\* Reading the line takes the splitter from r to s.
Reads(r, line, s) ==
  \E f : ReadingOf(f, line) /\ f[0] = r /\ f[Len(line)] = s

\* Between two arguments, in the middle of one, and after its closing quote.
Between(args) ==
  [args |-> args, word |-> <<>>, slashes |-> 0, inside |-> FALSE,
   quoted |-> FALSE, closed |-> FALSE]
Middle(args, word, n) ==
  [args |-> args, word |-> word, slashes |-> n, inside |-> TRUE,
   quoted |-> TRUE, closed |-> FALSE]
Closed(args, word) ==
  [args |-> args, word |-> word, slashes |-> 0, inside |-> TRUE,
   quoted |-> FALSE, closed |-> TRUE]

\* One character.
LEMMA ReadsOne ==
  ASSUME NEW r, NEW c PROVE Reads(r, <<c>>, ReadCharacter(r, c))
<1> DEFINE f == [i \in 0 .. 1 |-> IF i = 0 THEN r ELSE ReadCharacter(r, c)]
<1>1. ReadingOf(f, <<c>>) /\ f[0] = r /\ f[Len(<<c>>)] = ReadCharacter(r, c)
  BY DEF ReadingOf
<1> HIDE DEF f
<1> QED BY <1>1 DEF Reads

\* One part of a line after the other.
LEMMA ReadsOn ==
  ASSUME NEW r, NEW s, NEW t, NEW line \in Argument, NEW more \in Argument,
         Reads(r, line, s), Reads(s, more, t)
  PROVE  Reads(r, line \o more, t)
<1> DEFINE m == Len(line)
           n == Len(more)
<1>1. m \in Nat /\ n \in Nat /\ Len(line \o more) = m + n
  BY DEF Argument
<1>2. PICK f : ReadingOf(f, line) /\ f[0] = r /\ f[m] = s
  BY DEF Reads
<1>3. PICK g : ReadingOf(g, more) /\ g[0] = s /\ g[n] = t
  BY DEF Reads
<1> DEFINE h == [i \in 0 .. m + n |-> IF i <= m THEN f[i] ELSE g[i - m]]
<1>4. \A i \in 1 .. m + n : (line \o more)[i] = IF i <= m THEN line[i] ELSE more[i - m]
  BY DEF Argument
<1>5. \A i \in 0 .. m + n : h[i] = IF i <= m THEN f[i] ELSE g[i - m]
  OBVIOUS
<1>6. DOMAIN h = 0 .. m + n
  OBVIOUS
<1> HIDE DEF h, m, n
<1>7. ASSUME NEW i \in 1 .. m + n
      PROVE  h[i] = ReadCharacter(h[i - 1], (line \o more)[i])
  <2>1. i - 1 \in 0 .. m + n /\ i \in 0 .. m + n
    BY <1>1
  <2>2. CASE i <= m
    <3>1. i - 1 <= m /\ i \in 1 .. m
      BY <1>1, <2>2
    <3> QED BY <1>2, <1>4, <1>5, <2>1, <2>2, <3>1 DEF ReadingOf, m
  <2>3. CASE i = m + 1
    <3>1. i - 1 = m /\ i - m = 1 /\ ~(i <= m) /\ 1 \in 1 .. n
      BY <1>1, <2>3
    <3>2. h[i - 1] = g[0] /\ h[i] = g[1] /\ (line \o more)[i] = more[1]
      BY <1>1, <1>2, <1>3, <1>4, <1>5, <2>1, <3>1
    <3>3. g[1] = ReadCharacter(g[0], more[1])
      BY <1>3, <3>1 DEF ReadingOf, n
    <3> QED BY <3>2, <3>3
  <2>4. CASE i > m + 1
    <3>1. ~(i - 1 <= m) /\ ~(i <= m) /\ i - m \in 1 .. n /\ i - 1 - m = i - m - 1
      BY <1>1, <2>4
    <3>2. h[i - 1] = g[i - m - 1] /\ h[i] = g[i - m] /\ (line \o more)[i] = more[i - m]
      BY <1>4, <1>5, <2>1, <3>1
    <3> QED BY <1>3, <3>1, <3>2 DEF ReadingOf, n
  <2> QED BY <1>1, <2>2, <2>3, <2>4
<1>8. h[0] = r /\ h[m + n] = t
  <2>1. h[0] = r
    BY <1>1, <1>2, <1>5
  <2>2. CASE n = 0
    BY <1>1, <1>2, <1>3, <1>5, <2>2
  <2>3. CASE n # 0
    <3>1. ~(m + n <= m) /\ m + n - m = n /\ m + n \in 0 .. m + n
      BY <1>1, <2>3
    <3>2. h[m + n] = g[n]
      BY <1>1, <1>5, <3>1
    <3> QED BY <1>3, <2>1, <3>2 DEF n
  <2> QED BY <2>1, <2>2, <2>3
<1> QED BY <1>1, <1>6, <1>7, <1>8 DEF Reads, ReadingOf

\* Backslashes are counted until it is known what follows them.
LEMMA ReadsSlashes ==
  ASSUME NEW args, NEW word, NEW n \in Nat
  PROVE  Reads(Middle(args, word, 0), Repeat(Slash, n), Middle(args, word, n))
<1> DEFINE f == [i \in 0 .. n |-> Middle(args, word, i)]
<1>1. Len(Repeat(Slash, n)) = n /\ \A i \in 1 .. n : Repeat(Slash, n)[i] = Slash
  BY DEF Repeat
<1>2. ASSUME NEW i \in 1 .. n
      PROVE  Middle(args, word, i) = ReadCharacter(Middle(args, word, i - 1), Slash)
  <2>1. i - 1 + 1 = i
    OBVIOUS
  <2> QED BY <2>1, ThreeLetters DEF Middle, ReadCharacter
<1>3. ReadingOf(f, Repeat(Slash, n)) /\ f[0] = Middle(args, word, 0)
      /\ f[n] = Middle(args, word, n)
  BY <1>1, <1>2 DEF ReadingOf
<1> HIDE DEF f
<1> QED BY <1>1, <1>3 DEF Reads

\* A way from the beginning of a line is what Splitting follows.
LEMMA ReadsSplitting ==
  ASSUME NEW line \in Argument, NEW r, Reads(NothingSplit, line, r)
  PROVE  Splitting(line)[Len(line)] = r
<1> DEFINE Def(h) == h = [i \in 0 .. Len(line) |->
                            IF i = 0 THEN NothingSplit ELSE ReadCharacter(h[i - 1], line[i])]
<1>1. PICK f : ReadingOf(f, line) /\ f[0] = NothingSplit /\ f[Len(line)] = r
  BY DEF Reads
<1>2. Len(line) \in Nat
  BY DEF Argument
<1> DEFINE g == [i \in 0 .. Len(line) |-> f[i]]
<1>3. Def(g)
  BY <1>1, <1>2 DEF ReadingOf
<1>4. Splitting(line) = CHOOSE h : Def(h)
  BY DEF Splitting
<1>5. Def(Splitting(line))
  <2> HIDE DEF Def, g
  <2> QED BY <1>3, <1>4
<1>6. /\ Splitting(line)[0] = NothingSplit
      /\ \A i \in 1 .. Len(line) :
           Splitting(line)[i] = ReadCharacter(Splitting(line)[i - 1], line[i])
  BY <1>2, <1>5
<1> DEFINE T == {i \in Nat : i <= Len(line) => Splitting(line)[i] = f[i]}
<1>7. \A i \in Nat : i \in T
  <2>1. 0 \in T
    BY <1>1, <1>6
  <2>2. ASSUME NEW i \in Nat, i \in T PROVE i + 1 \in T
    <3> SUFFICES ASSUME i + 1 <= Len(line) PROVE Splitting(line)[i + 1] = f[i + 1]
      OBVIOUS
    <3>1. i + 1 \in 1 .. Len(line) /\ i + 1 - 1 = i /\ Splitting(line)[i] = f[i]
      BY <1>2, <2>2
    <3> QED BY <1>1, <1>6, <3>1 DEF ReadingOf
  <2> HIDE DEF T
  <2> QED BY <2>1, <2>2, SetInduction
<1> QED BY <1>1, <1>2, <1>7

-----------------------------------------------------------------------------
(* What is quoted is what is read                                          *)

\* Backslashes before an ordinary character are a part of the word.
LEMMA ReadsOrdinary ==
  ASSUME NEW args, NEW word, NEW n \in Nat, NEW c, c # Slash, c # Quote
  PROVE  ReadCharacter(Middle(args, word, n), c)
           = Middle(args, Append(word \o Repeat(Slash, n), c), 0)
BY ThreeLetters DEF ReadCharacter, Middle

\* An odd number of backslashes before a quote: half of them, and the quote.
LEMMA ReadsEscape ==
  ASSUME NEW args, NEW word, NEW n \in Nat
  PROVE  ReadCharacter(Middle(args, word, 2 * n + 1), Quote)
           = Middle(args, Append(word \o Repeat(Slash, n), Quote), 0)
<1>1. ASSUME NEW k, k % 2 = 1, 1 # 0
      PROVE  ReadCharacter(Middle(args, word, k), Quote)
               = Middle(args, Append(word \o Repeat(Slash, k \div 2), Quote), 0)
  BY <1>1, Zenon, ThreeLetters DEF ReadCharacter, Middle
<1>2. (2 * n + 1) % 2 = 1 /\ (2 * n + 1) \div 2 = n /\ 1 # 0
  OBVIOUS
<1> QED BY <1>1, <1>2

\* An even number of them: half, and the end of the quoted part.
LEMMA ReadsClosing ==
  ASSUME NEW args, NEW word, NEW n \in Nat
  PROVE  ReadCharacter(Middle(args, word, 2 * n), Quote)
           = Closed(args, word \o Repeat(Slash, n))
<1>1. ASSUME NEW k, k % 2 = 0, 1 # 0
      PROVE  ReadCharacter(Middle(args, word, k), Quote)
               = Closed(args, word \o Repeat(Slash, k \div 2))
  BY <1>1, Zenon, ThreeLetters DEF ReadCharacter, Middle, Closed
<1>2. (2 * n) % 2 = 0 /\ (2 * n) \div 2 = n /\ 1 # 0
  OBVIOUS
<1> QED BY <1>1, <1>2

\* The opening quote.
LEMMA ReadsOpening ==
  ASSUME NEW args
  PROVE  ReadCharacter(Between(args), Quote) = Middle(args, <<>>, 0)
<1>1. 0 % 2 = 0 /\ 0 \div 2 = 0 /\ 1 # 0
  OBVIOUS
<1>2. ReadCharacter(Between(args), Quote) = Middle(args, <<>> \o Repeat(Slash, 0), 0)
  BY <1>1, Zenon, ThreeLetters DEF ReadCharacter, Middle, Between
<1>3. <<>> \o Repeat(Slash, 0) = <<>>
  BY DEF Repeat
<1> QED BY <1>2, <1>3

\* A blank after a closing quote ends the argument.
LEMMA ReadsEnd ==
  ASSUME NEW args, NEW word \in Argument
  PROVE  ReadCharacter(Closed(args, word), Blank) = Between(Append(args, word))
<1>1. word \o Repeat(Slash, 0) = word
  BY DEF Repeat, Argument
<1> QED BY <1>1, Zenon, ThreeLetters DEF ReadCharacter, Closed, Between

\* After each round the text is a word and the backslashes held back are its end.
RoundIsRead(args, a, i) ==
  \E word \in Argument :
    /\ Reads(Between(args), Quoting(a)[i].text, Middle(args, word, 0))
    /\ word \o Repeat(Slash, Quoting(a)[i].slashes) = SubSeq(a, 1, i)

\* One round of quote_argument and the reader's way over what it has written.
LEMMA NextRoundIsRead ==
  ASSUME NEW args, NEW a \in Argument, NEW i \in 1 .. Len(a), RoundIsRead(args, a, i - 1)
  PROVE  RoundIsRead(args, a, i)
<1> DEFINE c == a[i]
           q == Quoting(a)[i - 1]
           t == Quoting(a)[i]
           k == q.slashes
<1>1. Len(a) \in Nat /\ i - 1 \in 0 .. Len(a) /\ c \in Letters
  BY DEF Argument
<1>2. q \in Quoted /\ k \in Nat /\ q.text \in Argument /\ t = QuoteCharacter(q, c)
  BY <1>1, QuotingSteps DEF Quoted
<1>3. PICK word \in Argument :
        /\ Reads(Between(args), q.text, Middle(args, word, 0))
        /\ word \o Repeat(Slash, k) = SubSeq(a, 1, i - 1)
  BY DEF RoundIsRead
<1>4. SubSeq(a, 1, i) = Append(SubSeq(a, 1, i - 1), c)
  BY <1>1 DEF Argument
<1> HIDE DEF c, q, t, k
<1>5. CASE c = Slash
  <2>1. t.text = q.text /\ t.slashes = k + 1
    BY <1>2, <1>5 DEF QuoteCharacter, k
  <2>2. word \o Repeat(Slash, k + 1) = Append(word \o Repeat(Slash, k), Slash)
    BY <1>2 DEF Repeat, Argument
  <2> QED BY <1>3, <1>4, <1>5, <2>1, <2>2 DEF RoundIsRead, t
<1>6. CASE c # Slash
  <2> DEFINE n == IF c = Quote THEN 2 * k + 1 ELSE k
             more == Append(word \o Repeat(Slash, k), c)
  <2>1. n \in Nat
    BY <1>2
  <2>2. t.text = q.text \o Repeat(Slash, n) \o <<c>> /\ t.slashes = 0
    BY <1>2, <1>6 DEF QuoteCharacter, k
  <2>3. ReadCharacter(Middle(args, word, n), c) = Middle(args, more, 0)
    BY <1>2, <1>6, ReadsOrdinary, ReadsEscape
  <2> HIDE DEF n
  <2>4. Repeat(Slash, n) \in Argument /\ <<c>> \in Argument
    BY <1>1, <2>1, RepeatType DEF Argument
  <2>5. q.text \o Repeat(Slash, n) \in Argument
    BY <1>2, <2>4 DEF Argument
  <2>6. Reads(Between(args), q.text \o Repeat(Slash, n), Middle(args, word, n))
    BY <1>2, <1>3, <2>1, <2>4, ReadsSlashes, ReadsOn
  <2>7. Reads(Middle(args, word, n), <<c>>, Middle(args, more, 0))
    BY <2>3, ReadsOne
  <2>8. Reads(Between(args), t.text, Middle(args, more, 0))
    BY <2>2, <2>4, <2>5, <2>6, <2>7, ReadsOn
  <2>9. more \in Argument /\ more \o Repeat(Slash, 0) = SubSeq(a, 1, i)
    <3>1. word \o Repeat(Slash, k) \in Argument
      BY <1>2, RepeatType DEF Argument
    <3>2. more \in Argument
      BY <1>1, <3>1 DEF Argument
    <3>3. more \o Repeat(Slash, 0) = more
      <4> HIDE DEF more
      <4> QED BY <3>2 DEF Repeat, Argument
    <3> QED BY <1>3, <1>4, <3>2, <3>3
  <2> QED BY <2>2, <2>8, <2>9 DEF RoundIsRead, t
<1> QED BY <1>5, <1>6

\* Every quoted argument is read as that argument, whatever its characters are.
LEMMA QuotedIsRead ==
  ASSUME NEW args, NEW a \in Argument
  PROVE  /\ quote_argument(a) \in Argument /\ quote_argument(a) # <<>>
         /\ Reads(Between(args), quote_argument(a), Closed(args, a))
<1> DEFINE T == {i \in Nat : i <= Len(a) => RoundIsRead(args, a, i)}
<1>1. Len(a) \in Nat
  BY DEF Argument
<1>2. 0 \in T
  <2>1. Quoting(a)[0].text = <<Quote>> /\ Quoting(a)[0].slashes = 0
    BY QuotingSteps
  <2>2. Reads(Between(args), <<Quote>>, Middle(args, <<>>, 0))
    BY ReadsOpening, ReadsOne
  <2>3. <<>> \in Argument /\ <<>> \o Repeat(Slash, 0) = SubSeq(a, 1, 0)
    BY DEF Repeat, Argument
  <2> QED BY <2>1, <2>2, <2>3 DEF RoundIsRead
<1>3. ASSUME NEW i \in Nat, i \in T PROVE i + 1 \in T
  <2> SUFFICES ASSUME i + 1 <= Len(a) PROVE RoundIsRead(args, a, i + 1)
    OBVIOUS
  <2>1. i + 1 \in 1 .. Len(a) /\ i + 1 - 1 = i /\ RoundIsRead(args, a, i)
    BY <1>1, <1>3
  <2> QED BY <2>1, NextRoundIsRead
<1>4. \A i \in Nat : i \in T
  <2> HIDE DEF T
  <2> QED BY <1>2, <1>3, SetInduction
<1> DEFINE q == Quoting(a)[Len(a)]
           k == q.slashes
<1>5. q.text \in Argument /\ k \in Nat
  BY <1>1, QuotingSteps DEF Quoted
<1>6. PICK word \in Argument :
        /\ Reads(Between(args), q.text, Middle(args, word, 0))
        /\ word \o Repeat(Slash, k) = SubSeq(a, 1, Len(a))
  <2>1. RoundIsRead(args, a, Len(a))
    BY <1>1, <1>4
  <2> QED BY <2>1 DEF RoundIsRead
<1>7. SubSeq(a, 1, Len(a)) = a
  BY DEF Argument
<1>8. quote_argument(a) = q.text \o Repeat(Slash, 2 * k) \o <<Quote>>
  BY DEF quote_argument, ClosingSlashes
<1> HIDE DEF q, k
<1>9. Repeat(Slash, 2 * k) \in Argument /\ <<Quote>> \in Argument
  BY <1>5, RepeatType, ThreeLetters DEF Argument
<1>10. q.text \o Repeat(Slash, 2 * k) \in Argument
  BY <1>5, <1>9 DEF Argument
<1>11. Reads(Between(args), q.text \o Repeat(Slash, 2 * k), Middle(args, word, 2 * k))
  BY <1>5, <1>6, <1>9, ReadsSlashes, ReadsOn
<1>12. Reads(Middle(args, word, 2 * k), <<Quote>>, Closed(args, a))
  BY <1>5, <1>6, <1>7, ReadsClosing, ReadsOne
<1>13. quote_argument(a) \in Argument /\ quote_argument(a) # <<>>
  BY <1>8, <1>9, <1>10 DEF Argument
<1> QED BY <1>8, <1>9, <1>10, <1>11, <1>12, <1>13, ReadsOn

\* A line of some arguments is read up to the end of the last one.
LineIsRead(args, i) ==
  /\ Lines(args)[i] \in Argument
  /\ i = 0 => Lines(args)[i] = <<>>
  /\ i > 0 => /\ Lines(args)[i] # <<>>
              /\ Reads(NothingSplit, Lines(args)[i],
                       Closed(SubSeq(args, 1, i - 1), args[i]))

\* The line grows by one argument.
LEMMA LineSteps ==
  ASSUME NEW args \in Seq(Argument)
  PROVE  /\ Lines(args)[0] = <<>>
         /\ \A i \in 1 .. Len(args) :
              Lines(args)[i] = AddArgument(Lines(args)[i - 1], args[i])
<1> DEFINE step == [p \in Argument \X (1 .. Len(args)) |-> AddArgument(p[1], args[p[2]])]
           Def(h) == h = [i \in 0 .. Len(args) |->
                            IF i = 0 THEN <<>> ELSE AddArgument(h[i - 1], args[i])]
<1>1. Len(args) \in Nat /\ \A i \in 1 .. Len(args) : args[i] \in Argument
  OBVIOUS
<1>2. <<>> \in Argument
  BY DEF Argument
<1>3. IsStep(step, Argument, Len(args))
  <2> SUFFICES ASSUME NEW line \in Argument, NEW i \in 1 .. Len(args)
               PROVE  AddArgument(line, args[i]) \in Argument
    BY DEF IsStep
  <2>1. quote_argument(args[i]) \in Argument
    BY <1>1, QuotedIsRead
  <2>2. <<Blank>> \in Argument
    BY ThreeLetters DEF Argument
  <2> QED BY <1>2, <2>1, <2>2 DEF AddArgument, Argument
<1>4. PICK g : Obeys(g, Argument, <<>>, Len(args), step)
  <2> HIDE DEF step
  <2> QED BY <1>1, <1>2, <1>3, Recursion
<1>5. /\ g \in [0 .. Len(args) -> Argument] /\ g[0] = <<>>
      /\ \A i \in 1 .. Len(args) : g[i] = AddArgument(g[i - 1], args[i])
  <2>1. \A i \in 1 .. Len(args) : <<g[i - 1], i>> \in Argument \X (1 .. Len(args))
    BY <1>1, <1>4 DEF Obeys
  <2> QED BY <1>4, <2>1 DEF Obeys
<1>6. Def(g)
  BY <1>5
<1>7. Lines(args) = CHOOSE h : Def(h)
  BY DEF Lines
<1>8. Def(Lines(args))
  <2> HIDE DEF Def
  <2> QED BY <1>6, <1>7
<1> QED BY <1>1, <1>8

\* The C runtime of the elevated launcher finds exactly the arguments that
\* parameters() was given (elevation.hpp), whatever they are.
THEOREM LineSplitsBack ==
  ASSUME NEW args \in Seq(Argument)
  PROVE  SplitLine(parameters(args)) = args
<1> DEFINE n == Len(args)
           T == {i \in Nat : i <= n => LineIsRead(args, i)}
<1>1. n \in Nat /\ \A i \in 1 .. n : args[i] \in Argument
  OBVIOUS
<1>2. 0 \in T
  <2>1. Lines(args)[0] = <<>> /\ <<>> \in Argument /\ ~(0 > 0)
    BY LineSteps DEF Argument
  <2>2. LineIsRead(args, 0)
    BY <2>1 DEF LineIsRead
  <2> QED BY <2>2
<1>3. ASSUME NEW i \in Nat, i \in T PROVE i + 1 \in T
  <2> SUFFICES ASSUME i + 1 <= n PROVE LineIsRead(args, i + 1)
    OBVIOUS
  <2> DEFINE a == args[i + 1]
             line == Lines(args)[i]
  <2>1. i + 1 \in 1 .. n /\ i + 1 - 1 = i /\ a \in Argument /\ LineIsRead(args, i)
    BY <1>1, <1>3
  <2>2. Lines(args)[i + 1] = AddArgument(line, a)
    BY <2>1, LineSteps
  <2>3. quote_argument(a) \in Argument /\ quote_argument(a) # <<>>
    BY <2>1, QuotedIsRead
  <2>4. Reads(Between(SubSeq(args, 1, i)), quote_argument(a), Closed(SubSeq(args, 1, i), a))
    BY <2>1, QuotedIsRead
  <2>5. CASE i = 0
    <3>1. AddArgument(line, a) = quote_argument(a)
      <4>1. line = <<>>
        BY <2>1, <2>5 DEF LineIsRead
      <4> HIDE DEF line
      <4> QED BY <2>3, <4>1 DEF AddArgument, Argument
    <3>2. Between(SubSeq(args, 1, i)) = NothingSplit
      <4>1. SubSeq(args, 1, i) = <<>>
        BY <2>5
      <4> QED BY <4>1 DEF Between, NothingSplit
    <3> QED BY <2>1, <2>2, <2>3, <2>4, <3>1, <3>2 DEF LineIsRead
  <2>6. CASE i > 0
    <3>1. /\ line \in Argument /\ line # <<>>
          /\ Reads(NothingSplit, line, Closed(SubSeq(args, 1, i - 1), args[i]))
      BY <2>1, <2>6 DEF LineIsRead
    <3>2. AddArgument(line, a) = (line \o <<Blank>>) \o quote_argument(a)
      <4> HIDE DEF line
      <4> QED BY <3>1 DEF AddArgument
    <3>3. SubSeq(args, 1, i) = Append(SubSeq(args, 1, i - 1), args[i])
      BY <2>1, <2>6
    <3>4. args[i] \in Argument
      BY <1>1, <2>1, <2>6
    <3>5. Reads(Closed(SubSeq(args, 1, i - 1), args[i]), <<Blank>>,
                Between(SubSeq(args, 1, i)))
      BY <3>3, <3>4, ReadsEnd, ReadsOne
    <3> HIDE DEF line, a
    <3>6. <<Blank>> \in Argument /\ line \o <<Blank>> \in Argument
      BY <3>1, ThreeLetters DEF Argument
    <3>7. Reads(NothingSplit, line \o <<Blank>>, Between(SubSeq(args, 1, i)))
      BY <3>1, <3>5, <3>6, ReadsOn
    <3>8. Reads(NothingSplit, AddArgument(line, a), Closed(SubSeq(args, 1, i), a))
      BY <2>3, <2>4, <3>2, <3>6, <3>7, ReadsOn
    <3>9. AddArgument(line, a) \in Argument /\ AddArgument(line, a) # <<>>
      BY <2>3, <3>2, <3>6 DEF Argument
    <3> QED BY <2>1, <2>2, <3>8, <3>9 DEF LineIsRead, a
  <2> QED BY <2>5, <2>6
<1>4. \A i \in Nat : i \in T
  <2> HIDE DEF T
  <2> QED BY <1>2, <1>3, SetInduction
<1> DEFINE line == Lines(args)[n]
<1>5. LineIsRead(args, n) /\ line \in Argument
  BY <1>1, <1>4 DEF LineIsRead
<1>6. Reads(NothingSplit, Append(line, Blank), Between(args))
  <2>1. Append(line, Blank) = line \o <<Blank>> /\ <<Blank>> \in Argument
    BY <1>5, ThreeLetters DEF Argument
  <2>2. CASE n = 0
    <3>1. line = <<>> /\ args = <<>>
      BY <1>5, <2>2 DEF LineIsRead
    <3>2. ReadCharacter(NothingSplit, Blank) = Between(<<>>)
      <4>1. <<>> \o Repeat(Slash, 0) = <<>>
        BY DEF Repeat
      <4> QED BY <4>1, ThreeLetters DEF ReadCharacter, NothingSplit, Between
    <3>3. Append(line, Blank) = <<Blank>>
      BY <3>1
    <3> QED BY <3>1, <3>2, <3>3, ReadsOne
  <2>3. CASE n > 0
    <3>1. Reads(NothingSplit, line, Closed(SubSeq(args, 1, n - 1), args[n]))
      BY <1>5, <2>3 DEF LineIsRead
    <3>2. args = Append(SubSeq(args, 1, n - 1), args[n]) /\ args[n] \in Argument
      BY <1>1, <2>3
    <3>3. Reads(Closed(SubSeq(args, 1, n - 1), args[n]), <<Blank>>, Between(args))
      BY <3>2, ReadsEnd, ReadsOne
    <3> HIDE DEF line
    <3> QED BY <1>5, <2>1, <3>1, <3>3, ReadsOn
  <2> QED BY <1>1, <2>2, <2>3
<1>7. Append(line, Blank) \in Argument /\ Len(Append(line, Blank)) = Len(line) + 1
  <2> HIDE DEF line
  <2> QED BY <1>5, ThreeLetters DEF Argument
<1>8. SplitLine(line) = Between(args).args
  <2> HIDE DEF line
  <2> QED BY <1>6, <1>7, ReadsSplitting DEF SplitLine
<1> QED BY <1>8 DEF parameters, Between

-----------------------------------------------------------------------------
(* What a launcher has understood of its words                             *)

\* What the variable opt may hold.
Options ==
  [kind : GameFlags \cup {"none"}, game : Argument, extra : Argument,
   given : SUBSET {"game", "extra", "action"}, marker : BOOLEAN,
   forwarded : Seq(Argument)]

\* The options that wmain forwards to an elevated copy.
ForwardedFlags == GameFlags \cup Actions \cup Valued \cup {"--log"}

\* F is a command whose words at the places of P are the values of the options
\* before them: each is there, and no option is given twice.
WellFormed(F, P) ==
  /\ F \in Seq(Argument) /\ P \subseteq 1 .. Len(F)
  /\ \A i \in P : i - 1 \in (1 .. Len(F)) \ P /\ \E f \in Valued : F[i - 1] = <<f>>
  /\ \A i \in (1 .. Len(F)) \ P :
       /\ \E f \in ForwardedFlags : F[i] = <<f>>
       /\ (\E f \in Valued : F[i] = <<f>>) => i + 1 \in P
       /\ F[i] = <<"--game">> => Canonical(F[i + 1]) = F[i + 1]
  /\ \A i, j \in (1 .. Len(F)) \ P :
       \/ i = j
       \/ \A S \in {GameFlags, Actions, {"--game"}, {"--extra"}} :
            ~ \E f, g \in S : F[i] = <<f>> /\ F[j] = <<g>>

\* Among the first n words there is one of these flags.
Has(F, P, n, flags) == \E i \in (1 .. n) \ P : \E f \in flags : F[i] = <<f>>

\* o is what the first n words of F say.
Told(F, P, n, o) ==
  /\ o \in Options
  /\ \A k \in GameFlags : Has(F, P, n, {k}) <=> o.kind = k
  /\ Has(F, P, n, {"--game"}) <=> "game" \in o.given
  /\ Has(F, P, n, {"--extra"}) <=> "extra" \in o.given
  /\ Has(F, P, n, Actions) <=> "action" \in o.given
  /\ IF "game" \in o.given
       THEN \A i \in (1 .. n) \ P : F[i] = <<"--game">> => o.game = F[i + 1]
       ELSE o.game = DefaultGame
  /\ IF "extra" \in o.given
       THEN \A i \in (1 .. n) \ P : F[i] = <<"--extra">> => o.extra = F[i + 1]
       ELSE o.extra = <<>>
  /\ o.forwarded = SubSeq(F, 1, n)

\* o is what its own forwarded words say.
Says(o, P) ==
  WellFormed(o.forwarded, P) /\ Told(o.forwarded, P, Len(o.forwarded), o)

\* --log was forwarded.
SaysLog(o, P) == Has(o.forwarded, P, Len(o.forwarded), {"--log"})

\* The launcher that the user started: what it has read, it could forward.
Understands ==
  asked = NotAsked =>
    /\ argv \in Seq(Argument) /\ at \in 1 .. Len(argv) + 1
    /\ pc = "scan" => at = 1 /\ opt = NothingRead
    /\ pc \in {"read", "elevation"} =>
         \E P :
           /\ Says(opt, P)
           /\ pc = "read" =>
                /\ Scanning(argv)[at - 1] = [log |-> SaysLog(opt, P), value |-> FALSE]
                /\ log = Scanning(argv)[Len(argv)].log
           /\ pc = "elevation" => log = SaysLog(opt, P)

\* The elevated one: it has the words of the other and the marker, and reads
\* them as they were meant.
ReadsAgain ==
  asked # NotAsked =>
    LET o == asked[1]
        F == o.forwarded
        n == Len(F)
    IN  /\ asked = <<o, asked[2]>> /\ ~o.marker
        /\ \E P :
             /\ Says(o, P) /\ asked[2] = SaysLog(o, P)
             /\ pc \in {"scan", "read"} => argv = Append(F, <<RelaunchFlag>>)
             /\ pc = "scan" => at = 1 /\ opt = NothingRead
             /\ pc = "read" =>
                  /\ log = asked[2]
                  /\ \/ /\ at \in (1 .. n + 1) \ P /\ ~opt.marker
                        /\ Told(F, P, at - 1, opt)
                     \/ /\ at = n + 2 /\ opt.marker
                        /\ Told(F, P, n, opt)
        /\ pc \notin {"scan", "read"} =>
             opt = [o EXCEPT !.marker = TRUE] /\ log = asked[2]

\* The inductive invariant: whoever of the two reads, this is known.
CommandInv == Understands /\ ReadsAgain

-----------------------------------------------------------------------------
(* One word more                                                           *)

\* A word is the flag it is, and no other.
LEMMA OneFlag == \A f, g : <<f>> = <<g>> => f = g
OBVIOUS

\* The n-th word is one of these flags, and not a value.
Stands(F, P, n, flags) == n \notin P /\ \E f \in flags : F[n] = <<f>>

\* A flag adds itself, a value nothing.
LEMMA HasNext ==
  ASSUME NEW F, NEW P, NEW n \in Nat, NEW flags
  PROVE  Has(F, P, n + 1, flags) <=> (Has(F, P, n, flags) \/ Stands(F, P, n + 1, flags))
<1>1. \A i : i \in (1 .. n + 1) \ P
               <=> (i \in (1 .. n) \ P \/ (n + 1 \notin P /\ i = n + 1))
  OBVIOUS
<1> QED BY <1>1, Zenon DEF Has, Stands

\* What that is for a flag, and for a value.
LEMMA HasFlag ==
  ASSUME NEW F, NEW P, NEW n \in Nat, NEW flags, NEW f, n + 1 \notin P, F[n + 1] = <<f>>
  PROVE  Has(F, P, n + 1, flags) <=> (Has(F, P, n, flags) \/ f \in flags)
<1>1. Stands(F, P, n + 1, flags) <=> f \in flags
  BY OneFlag DEF Stands
<1> QED BY <1>1, HasNext, Zenon

\* A value adds nothing to the flags.
LEMMA HasValue ==
  ASSUME NEW F, NEW P, NEW n \in Nat, NEW flags, n + 1 \in P
  PROVE  Has(F, P, n + 1, flags) <=> Has(F, P, n, flags)
BY HasNext, Zenon DEF Stands

\* What a part of a command says does not depend on what follows it.
LEMMA HasPrefix ==
  ASSUME NEW F, NEW G, NEW P, NEW Q, NEW n \in Nat, NEW flags,
         \A i \in 1 .. n : G[i] = F[i] /\ (i \in Q <=> i \in P)
  PROVE  Has(G, Q, n, flags) <=> Has(F, P, n, flags)
<1>1. (1 .. n) \ Q = (1 .. n) \ P /\ \A i \in (1 .. n) \ P : G[i] = F[i]
  OBVIOUS
<1>2. ASSUME NEW i \in (1 .. n) \ P
      PROVE  (\E f \in flags : G[i] = <<f>>) <=> (\E f \in flags : F[i] = <<f>>)
  BY <1>1
<1> QED BY <1>1, <1>2 DEF Has

\* A reading is also one of a longer command.
LEMMA ToldPrefix ==
  ASSUME NEW F, NEW G, NEW P, NEW Q, WellFormed(F, P), G \in Seq(Argument),
         Len(F) <= Len(G), NEW o, Told(F, P, Len(F), o),
         \A i \in 1 .. Len(F) : G[i] = F[i] /\ (i \in Q <=> i \in P)
  PROVE  Told(G, Q, Len(F), o)
<1> DEFINE n == Len(F)
<1>1. n \in Nat /\ F \in Seq(Argument)
  BY DEF WellFormed
<1>2. \A flags : Has(G, Q, n, flags) <=> Has(F, P, n, flags)
  <2> HIDE DEF n
  <2> QED BY <1>1, HasPrefix DEF n
<1>3. (1 .. n) \ Q = (1 .. n) \ P
  OBVIOUS
<1>4. SubSeq(G, 1, n) = SubSeq(F, 1, n)
  BY <1>1
<1>5. ASSUME NEW i \in (1 .. n) \ P, F[i] = <<"--game">> \/ F[i] = <<"--extra">>
      PROVE  G[i] = F[i] /\ G[i + 1] = F[i + 1]
  <2>1. \E f \in Valued : F[i] = <<f>>
    BY <1>5 DEF Valued
  <2>2. i + 1 \in 1 .. n
    BY <2>1 DEF WellFormed
  <2> QED BY <2>2
<1> HIDE DEF n
<1>6. /\ \A k \in GameFlags : Has(G, Q, n, {k}) <=> o.kind = k
      /\ Has(G, Q, n, {"--game"}) <=> "game" \in o.given
      /\ Has(G, Q, n, {"--extra"}) <=> "extra" \in o.given
      /\ Has(G, Q, n, Actions) <=> "action" \in o.given
  BY <1>2 DEF Told, n
<1>7. /\ IF "game" \in o.given
           THEN \A i \in (1 .. n) \ Q : G[i] = <<"--game">> => o.game = G[i + 1]
           ELSE o.game = DefaultGame
      /\ IF "extra" \in o.given
           THEN \A i \in (1 .. n) \ Q : G[i] = <<"--extra">> => o.extra = G[i + 1]
           ELSE o.extra = <<>>
  <2>1. \A i \in (1 .. n) \ P : G[i] = F[i]
    BY DEF n
  <2> QED BY <1>3, <1>5, <2>1 DEF Told, n
<1>8. o \in Options /\ o.forwarded = SubSeq(G, 1, n)
  BY <1>4 DEF Told, n
<1> QED BY <1>6, <1>7, <1>8 DEF Told, n

\* A flag without a value.
LEMMA ToldFlag ==
  ASSUME NEW F \in Seq(Argument), NEW P, NEW n \in Nat, n < Len(F), n + 1 \notin P,
         NEW f, F[n + 1] = <<f>>, NEW o, Told(F, P, n, o), NEW p \in Options,
         p.game = o.game, p.extra = o.extra, p.forwarded = Append(o.forwarded, F[n + 1]),
         \/ f \in GameFlags /\ o.kind = "none" /\ p.kind = f /\ p.given = o.given
         \/ f \in Actions /\ p.kind = o.kind /\ p.given = o.given \cup {"action"}
         \/ f = "--log" /\ p.kind = o.kind /\ p.given = o.given
  PROVE  Told(F, P, n + 1, p)
<1>1. ASSUME NEW flags
      PROVE  Has(F, P, n + 1, flags) <=> Has(F, P, n, flags) \/ f \in flags
  BY HasFlag
<1>2. SubSeq(F, 1, n + 1) = Append(SubSeq(F, 1, n), F[n + 1])
  OBVIOUS
<1>3. p.forwarded = SubSeq(F, 1, n + 1)
  BY <1>2 DEF Told
<1>4. f \notin Valued
  BY DEF GameFlags, Actions, Valued
<1>5. (1 .. n + 1) \ P = ((1 .. n) \ P) \cup {n + 1}
  OBVIOUS
<1>6. F[n + 1] # <<"--game">> /\ F[n + 1] # <<"--extra">>
  BY <1>4, OneFlag DEF Valued
<1>7. /\ \A i \in (1 .. n + 1) \ P : F[i] = <<"--game">> => i \in (1 .. n) \ P
      /\ \A i \in (1 .. n + 1) \ P : F[i] = <<"--extra">> => i \in (1 .. n) \ P
  BY <1>5, <1>6
<1>8. ("game" \in p.given <=> "game" \in o.given) /\ ("extra" \in p.given <=> "extra" \in o.given)
  OBVIOUS
<1>9. /\ Has(F, P, n + 1, {"--game"}) <=> "game" \in p.given
      /\ Has(F, P, n + 1, {"--extra"}) <=> "extra" \in p.given
  BY <1>1, <1>4, <1>8 DEF Told, Valued
<1>10. Has(F, P, n + 1, Actions) <=> "action" \in p.given
  <2>1. Has(F, P, n, Actions) <=> "action" \in o.given
    BY DEF Told
  <2>2. f \in Actions <=> ~(f \in GameFlags \/ f = "--log")
    BY DEF Actions, GameFlags
  <2> QED BY <1>1, <2>1, <2>2
<1>11. \A k \in GameFlags : Has(F, P, n + 1, {k}) <=> p.kind = k
  <2>1. \A k \in GameFlags : Has(F, P, n, {k}) <=> o.kind = k
    BY DEF Told
  <2>2. "none" \notin GameFlags /\ "--log" \notin GameFlags
        /\ \A a \in Actions : a \notin GameFlags
    BY DEF Actions, GameFlags
  <2> QED BY <1>1, <2>1, <2>2
<1>12. IF "game" \in p.given
         THEN \A i \in (1 .. n + 1) \ P : F[i] = <<"--game">> => p.game = F[i + 1]
         ELSE p.game = DefaultGame
  BY <1>7, <1>8 DEF Told
<1>13. IF "extra" \in p.given
         THEN \A i \in (1 .. n + 1) \ P : F[i] = <<"--extra">> => p.extra = F[i + 1]
         ELSE p.extra = <<>>
  BY <1>7, <1>8 DEF Told
<1> QED BY <1>3, <1>9, <1>10, <1>11, <1>12, <1>13 DEF Told

\* An option and its value.
LEMMA ToldValue ==
  ASSUME NEW F, NEW P, WellFormed(F, P), NEW n \in Nat, n + 1 < Len(F),
         n + 1 \notin P, n + 2 \in P, NEW o, Told(F, P, n, o), NEW p \in Options,
         p.kind = o.kind, p.forwarded = o.forwarded \o <<F[n + 1], F[n + 2]>>,
         \/ /\ F[n + 1] = <<"--game">> /\ "game" \notin o.given
            /\ p.given = o.given \cup {"game"} /\ p.game = F[n + 2] /\ p.extra = o.extra
         \/ /\ F[n + 1] = <<"--extra">> /\ "extra" \notin o.given
            /\ p.given = o.given \cup {"extra"} /\ p.extra = F[n + 2] /\ p.game = o.game
  PROVE  Told(F, P, n + 2, p)
<1>1. F \in Seq(Argument) /\ Len(F) \in Nat
  BY DEF WellFormed
<1>2. PICK f \in Valued : F[n + 1] = <<f>>
  BY DEF Valued
<1>3. ASSUME NEW flags
      PROVE  Has(F, P, n + 2, flags) <=> Has(F, P, n, flags) \/ f \in flags
  <2>2. Has(F, P, n + 1, flags) <=> Has(F, P, n, flags) \/ f \in flags
    BY <1>2, HasFlag
  <2>3. n + 1 \in Nat /\ n + 1 + 1 = n + 2
    OBVIOUS
  <2>4. Has(F, P, n + 1 + 1, flags) <=> Has(F, P, n + 1, flags)
    <3>1. n + 1 + 1 \in P
      BY <2>3
    <3> QED BY <2>3, <3>1, HasValue
  <2> QED BY <2>2, <2>3, <2>4
<1>4. p.forwarded = SubSeq(F, 1, n + 2)
  <2> DEFINE s == SubSeq(F, 1, n)
             t == SubSeq(F, 1, n + 2)
  <2>1. s \in Seq(Argument) /\ Len(s) = n /\ \A i \in 1 .. n : s[i] = F[i]
    BY <1>1
  <2>2. t \in Seq(Argument) /\ Len(t) = n + 2 /\ \A i \in 1 .. n + 2 : t[i] = F[i]
    BY <1>1
  <2>3. F[n + 1] \in Argument /\ F[n + 2] \in Argument
    BY <1>1
  <2> HIDE DEF s, t
  <2> DEFINE u == <<F[n + 1], F[n + 2]>>
  <2>5. Len(s \o u) = n + 2 /\ s \o u \in Seq(Argument)
    BY <2>1, <2>3
  <2>6. \A i \in 1 .. n + 2 : (s \o u)[i] = F[i]
    BY <2>1, <2>3
  <2> HIDE DEF u
  <2>4. t = s \o u
    <3> DEFINE v == s \o u
    <3>1. v \in Seq(Argument) /\ Len(v) = Len(t) /\ \A i \in 1 .. Len(t) : t[i] = v[i]
      BY <2>2, <2>5, <2>6
    <3> HIDE DEF v
    <3>2. t = v
      BY <2>2, <3>1, SeqEqual
    <3> QED BY <3>2 DEF v
  <2> QED BY <2>4 DEF Told, s, t, u
<1>5. (1 .. n + 2) \ P = ((1 .. n) \ P) \cup {n + 1}
  OBVIOUS
<1>6. \A k \in GameFlags : Has(F, P, n + 2, {k}) <=> p.kind = k
  <2>1. f \notin GameFlags
    BY <1>2 DEF Valued, GameFlags
  <2> QED BY <1>3, <2>1 DEF Told
<1>7. Has(F, P, n + 2, Actions) <=> "action" \in p.given
  <2>1. f \notin Actions
    BY <1>2 DEF Valued, Actions
  <2> QED BY <1>3, <2>1 DEF Told
<1>8. CASE F[n + 1] = <<"--game">>
  <2>1. f = "--game" /\ F[n + 1] # <<"--extra">>
    BY <1>2, <1>8, OneFlag
  <2>2. ~Has(F, P, n, {"--game"})
    BY <1>8, <2>1 DEF Told
  <2>3. \A i \in (1 .. n + 2) \ P : F[i] = <<"--game">> => i = n + 1
    BY <1>5, <2>2 DEF Has
  <2>4. \A i \in (1 .. n + 2) \ P : F[i] = <<"--extra">> => i \in (1 .. n) \ P
    BY <1>5, <2>1
  <2>5. /\ p.given = o.given \cup {"game"} /\ p.game = F[n + 2] /\ p.extra = o.extra
    BY <1>8, <2>1
  <2>6. n + 1 + 1 = n + 2
    OBVIOUS
  <2>7. /\ Has(F, P, n + 2, {"--game"}) <=> "game" \in p.given
        /\ Has(F, P, n + 2, {"--extra"}) <=> "extra" \in p.given
    BY <1>3, <2>1, <2>5 DEF Told
  <2>8. IF "game" \in p.given
          THEN \A i \in (1 .. n + 2) \ P : F[i] = <<"--game">> => p.game = F[i + 1]
          ELSE p.game = DefaultGame
    BY <2>3, <2>5, <2>6
  <2>9. IF "extra" \in p.given
          THEN \A i \in (1 .. n + 2) \ P : F[i] = <<"--extra">> => p.extra = F[i + 1]
          ELSE p.extra = <<>>
    BY <2>4, <2>5 DEF Told
  <2> QED BY <1>4, <1>6, <1>7, <2>7, <2>8, <2>9 DEF Told
<1>9. CASE F[n + 1] = <<"--extra">>
  <2>1. f = "--extra" /\ F[n + 1] # <<"--game">>
    BY <1>2, <1>9, OneFlag
  <2>2. ~Has(F, P, n, {"--extra"})
    BY <1>9, <2>1 DEF Told
  <2>3. \A i \in (1 .. n + 2) \ P : F[i] = <<"--extra">> => i = n + 1
    BY <1>5, <2>2 DEF Has
  <2>4. \A i \in (1 .. n + 2) \ P : F[i] = <<"--game">> => i \in (1 .. n) \ P
    BY <1>5, <2>1
  <2>5. /\ p.given = o.given \cup {"extra"} /\ p.extra = F[n + 2] /\ p.game = o.game
    BY <1>9, <2>1
  <2>6. n + 1 + 1 = n + 2
    OBVIOUS
  <2>7. /\ Has(F, P, n + 2, {"--game"}) <=> "game" \in p.given
        /\ Has(F, P, n + 2, {"--extra"}) <=> "extra" \in p.given
    BY <1>3, <2>1, <2>5 DEF Told
  <2>8. IF "game" \in p.given
          THEN \A i \in (1 .. n + 2) \ P : F[i] = <<"--game">> => p.game = F[i + 1]
          ELSE p.game = DefaultGame
    BY <2>4, <2>5 DEF Told
  <2>9. IF "extra" \in p.given
          THEN \A i \in (1 .. n + 2) \ P : F[i] = <<"--extra">> => p.extra = F[i + 1]
          ELSE p.extra = <<>>
    BY <2>3, <2>5, <2>6
  <2> QED BY <1>4, <1>6, <1>7, <2>7, <2>8, <2>9 DEF Told
<1> QED BY <1>8, <1>9

\* Two readings of the same words are the same, but for the marker.
LEMMA ToldOnce ==
  ASSUME NEW F, NEW P, NEW n, NEW o, NEW p, Told(F, P, n, o), Told(F, P, n, p)
  PROVE  /\ p.kind = o.kind /\ p.given = o.given /\ p.forwarded = o.forwarded
         /\ p.game = o.game /\ p.extra = o.extra
<1>1. o \in Options /\ p \in Options
  BY DEF Told
<1>2. p.kind = o.kind
  <2>1. \A k \in GameFlags : p.kind = k <=> o.kind = k
    BY DEF Told
  <2>2. p.kind \in GameFlags \cup {"none"} /\ o.kind \in GameFlags \cup {"none"}
    BY <1>1 DEF Options
  <2> QED BY <2>1, <2>2
<1>3. p.given = o.given
  <2>1. \A g \in {"game", "extra", "action"} : g \in p.given <=> g \in o.given
    BY DEF Told
  <2>2. p.given \subseteq {"game", "extra", "action"}
        /\ o.given \subseteq {"game", "extra", "action"}
    BY <1>1 DEF Options
  <2> QED BY <2>1, <2>2
<1>4. p.game = o.game
  <2>1. CASE "game" \in o.given
    <3>1. PICK i \in (1 .. n) \ P : F[i] = <<"--game">>
      BY <2>1 DEF Told, Has
    <3> QED BY <1>3, <2>1, <3>1 DEF Told
  <2>2. CASE "game" \notin o.given
    BY <1>3, <2>2 DEF Told
  <2> QED BY <2>1, <2>2
<1>5. p.extra = o.extra
  <2>1. CASE "extra" \in o.given
    <3>1. PICK i \in (1 .. n) \ P : F[i] = <<"--extra">>
      BY <2>1 DEF Told, Has
    <3> QED BY <1>3, <2>1, <3>1 DEF Told
  <2>2. CASE "extra" \notin o.given
    BY <1>3, <2>2 DEF Told
  <2> QED BY <2>1, <2>2
<1> QED BY <1>2, <1>3, <1>4, <1>5 DEF Told

-----------------------------------------------------------------------------
(* The first loop over forwarded words                                     *)

\* wmain's first loop goes over the words in order.
LEMMA ScanSteps ==
  ASSUME NEW args, Len(args) \in Nat
  PROVE  /\ Scanning(args)[0] = [log |-> FALSE, value |-> FALSE]
         /\ \A i \in 1 .. Len(args) :
              Scanning(args)[i] = ScanWord(Scanning(args)[i - 1], args[i])
<1> DEFINE S == [log : BOOLEAN, value : BOOLEAN]
           base == [log |-> FALSE, value |-> FALSE]
           step == [p \in S \X (1 .. Len(args)) |-> ScanWord(p[1], args[p[2]])]
           Def(h) == h = [i \in 0 .. Len(args) |->
                            IF i = 0 THEN base ELSE ScanWord(h[i - 1], args[i])]
<1>1. base \in S
  OBVIOUS
<1>2. IsStep(step, S, Len(args))
  <2> SUFFICES ASSUME NEW s \in S, NEW i \in 1 .. Len(args)
               PROVE  ScanWord(s, args[i]) \in S
    BY DEF IsStep
  <2>1. s.log \in BOOLEAN /\ s.value \in BOOLEAN
    OBVIOUS
  <2>2. /\ (s.log \/ (~s.value /\ args[i] = <<"--log">>)) \in BOOLEAN
        /\ (~s.value /\ \E f \in Valued : args[i] = <<f>>) \in BOOLEAN
    BY <2>1
  <2> QED BY <2>2 DEF ScanWord
<1>3. PICK g : Obeys(g, S, base, Len(args), step)
  <2> HIDE DEF base, S, step
  <2> QED BY <1>1, <1>2, Recursion
<1>4. /\ g \in [0 .. Len(args) -> S] /\ g[0] = base
      /\ \A i \in 1 .. Len(args) : g[i] = ScanWord(g[i - 1], args[i])
  <2> HIDE DEF S, base
  <2>1. \A i \in 1 .. Len(args) : <<g[i - 1], i>> \in S \X (1 .. Len(args))
    BY <1>3 DEF Obeys
  <2> QED BY <1>3, <2>1 DEF Obeys
<1>5. Def(g)
  <2> HIDE DEF S, base
  <2> QED BY <1>4
<1>6. Scanning(args) = CHOOSE h : Def(h)
  BY DEF Scanning
<1>7. Def(Scanning(args))
  <2> HIDE DEF Def
  <2> QED BY <1>5, <1>6
<1> HIDE DEF base
<1>8. /\ Scanning(args)[0] = base
      /\ \A i \in 1 .. Len(args) :
           Scanning(args)[i] = ScanWord(Scanning(args)[i - 1], args[i])
  BY <1>7
<1> QED BY <1>8 DEF base

\* It takes no value for a flag, and no flag for a value.
LEMMA ScanForwarded ==
  ASSUME NEW F, NEW P, WellFormed(F, P), NEW args, Len(args) \in Nat,
         Len(F) <= Len(args), \A i \in 1 .. Len(F) : args[i] = F[i]
  PROVE  \A i \in 0 .. Len(F) :
           Scanning(args)[i] = [log |-> Has(F, P, i, {"--log"}), value |-> i + 1 \in P]
<1> DEFINE n == Len(F)
           Right(i) == Scanning(args)[i] = [log |-> Has(F, P, i, {"--log"}),
                                            value |-> i + 1 \in P]
           T == {i \in Nat : i <= n => Right(i)}
<1>1. n \in Nat /\ P \subseteq 1 .. n
  BY DEF WellFormed
<1>2. 0 \in T
  <2>1. ~Has(F, P, 0, {"--log"})
    BY DEF Has
  <2>2. 0 + 1 \notin P
    BY <1>1 DEF WellFormed
  <2>3. Scanning(args)[0] = [log |-> FALSE, value |-> FALSE]
    BY ScanSteps
  <2>4. Has(F, P, 0, {"--log"}) = FALSE /\ (0 + 1 \in P) = FALSE
    BY <2>1, <2>2 DEF Has
  <2> QED BY <2>3, <2>4
<1>3. ASSUME NEW i \in Nat, i \in T PROVE i + 1 \in T
  <2> SUFFICES ASSUME i + 1 <= n PROVE Right(i + 1)
    OBVIOUS
  <2> DEFINE s == Scanning(args)[i]
             w == F[i + 1]
  <2>1. i + 1 \in 1 .. n /\ i + 1 \in 1 .. Len(args) /\ i + 1 - 1 = i /\ args[i + 1] = w
    BY <1>1
  <2>2. Scanning(args)[i + 1] = ScanWord(s, w)
    BY <2>1, ScanSteps
  <2>3. s.log = Has(F, P, i, {"--log"}) /\ s.value = (i + 1 \in P)
    BY <1>1, <1>3
  <2> HIDE DEF s
  <2>4. (i + 1 \notin P /\ \E f \in Valued : w = <<f>>) <=> i + 1 + 1 \in P
    <3>1. i + 1 + 1 - 1 = i + 1
      OBVIOUS
    <3>2. i + 1 + 1 \in P => i + 1 \notin P /\ \E f \in Valued : w = <<f>>
      BY <3>1 DEF WellFormed
    <3>3. i + 1 \notin P /\ (\E f \in Valued : w = <<f>>) => i + 1 + 1 \in P
      BY <2>1 DEF WellFormed
    <3> QED BY <3>2, <3>3
  <2>5. Has(F, P, i + 1, {"--log"})
          <=> (Has(F, P, i, {"--log"}) \/ (i + 1 \notin P /\ w = <<"--log">>))
    <3> DEFINE flags == {"--log"}
    <3> HIDE DEF flags
    <3>1. Has(F, P, i + 1, flags) <=> (Has(F, P, i, flags) \/ Stands(F, P, i + 1, flags))
      BY HasNext, Zenon
    <3>2. Stands(F, P, i + 1, flags) <=> (i + 1 \notin P /\ w = <<"--log">>)
      BY DEF flags, Stands
    <3> QED BY <3>1, <3>2 DEF flags
  <2>6. (s.log \/ (~s.value /\ w = <<"--log">>)) = Has(F, P, i + 1, {"--log"})
    BY <2>3, <2>5 DEF Has
  <2>7. (~s.value /\ \E f \in Valued : w = <<f>>) = (i + 1 + 1 \in P)
    <3>1. ~s.value <=> i + 1 \notin P
      BY <2>3
    <3>2. (~s.value /\ \E f \in Valued : w = <<f>>) <=> i + 1 + 1 \in P
      BY <2>4, <3>1
    <3> DEFINE A == ~s.value /\ \E f \in Valued : w = <<f>>
               B == i + 1 + 1 \in P
    <3>3. A \in BOOLEAN /\ B \in BOOLEAN /\ (A <=> B)
      BY <3>2
    <3> HIDE DEF A, B
    <3>4. A = B
      BY <3>3
    <3> QED BY <3>4 DEF A, B
  <2> QED BY <2>2, <2>6, <2>7 DEF ScanWord
<1>4. \A i \in Nat : i \in T
  <2> HIDE DEF T
  <2> QED BY <1>2, <1>3, SetInduction
<1>5. \A i \in 0 .. n : i \in Nat /\ i <= n
  BY <1>1
<1> HIDE DEF Right, n
<1>6. \A i \in 0 .. n : Right(i)
  BY <1>4, <1>5
<1> QED BY <1>6 DEF Right, n

\* The marker at the end changes nothing.
LEMMA ScanRelaunched ==
  ASSUME NEW F, NEW P, WellFormed(F, P)
  PROVE  LET args == Append(F, <<RelaunchFlag>>)
         IN  Scanning(args)[Len(args)].log = Has(F, P, Len(F), {"--log"})
<1> DEFINE args == Append(F, <<RelaunchFlag>>)
           n == Len(F)
<1>1. n \in Nat /\ F \in Seq(Argument) /\ n + 1 \notin P
  BY DEF WellFormed
<1>2. Len(args) = n + 1 /\ args[n + 1] = <<RelaunchFlag>> /\ \A i \in 1 .. n : args[i] = F[i]
  BY <1>1
<1> HIDE DEF args
<1>3. Scanning(args)[n] = [log |-> Has(F, P, n, {"--log"}), value |-> n + 1 \in P]
  BY <1>1, <1>2, ScanForwarded
<1>4. Scanning(args)[n + 1] = ScanWord(Scanning(args)[n], <<RelaunchFlag>>)
  <2>1. n + 1 \in 1 .. Len(args) /\ n + 1 - 1 = n /\ Len(args) \in Nat
    BY <1>1, <1>2
  <2>2. Scanning(args)[n + 1] = ScanWord(Scanning(args)[n + 1 - 1], args[n + 1])
    BY <2>1, ScanSteps
  <2> QED BY <1>2, <2>1, <2>2
<1>5. <<RelaunchFlag>> # <<"--log">>
  BY OneFlag DEF RelaunchFlag
<1>6. ScanWord(Scanning(args)[n], <<RelaunchFlag>>).log = (Scanning(args)[n].log \/ FALSE)
  BY <1>5 DEF ScanWord
<1>7. Scanning(args)[n].log = Has(F, P, n, {"--log"})
  BY <1>3
<1> QED BY <1>2, <1>4, <1>6, <1>7 DEF Has, args

-----------------------------------------------------------------------------
(* A command grows by what the second loop forwards                        *)

\* No two options of a command are of one kind.
LEMMA OneOfAKind ==
  ASSUME NEW F, NEW P, WellFormed(F, P),
         NEW i \in (1 .. Len(F)) \ P, NEW j \in (1 .. Len(F)) \ P, i # j,
         NEW S \in {GameFlags, Actions, {"--game"}, {"--extra"}},
         NEW g \in S, NEW h \in S, F[i] = <<g>>, F[j] = <<h>>
  PROVE  FALSE
<1>1. \A k, l \in (1 .. Len(F)) \ P :
        \/ k = l
        \/ \A T \in {GameFlags, Actions, {"--game"}, {"--extra"}} :
             ~ \E e, f \in T : F[k] = <<e>> /\ F[l] = <<f>>
  BY DEF WellFormed
<1> QED BY <1>1, Zenon

\* A flag that was not given before.
LEMMA GrowsFlag ==
  ASSUME NEW F, NEW P, WellFormed(F, P), NEW w \in Argument,
         NEW f \in ForwardedFlags, w = <<f>>, f \notin Valued,
         f \in GameFlags => \A k \in GameFlags : ~Has(F, P, Len(F), {k}),
         f \in Actions => ~Has(F, P, Len(F), Actions)
  PROVE  WellFormed(Append(F, w), P)
<1> DEFINE n == Len(F)
           G == Append(F, w)
<1>1. n \in Nat /\ F \in Seq(Argument) /\ P \subseteq 1 .. n /\ n + 1 \notin P
  BY DEF WellFormed
<1>2. G \in Seq(Argument) /\ Len(G) = n + 1 /\ G[n + 1] = <<f>>
      /\ \A i \in 1 .. n : G[i] = F[i]
  BY <1>1
<1>3. P \subseteq 1 .. n + 1 /\ (1 .. n + 1) \ P = ((1 .. n) \ P) \cup {n + 1}
  BY <1>1
<1> HIDE DEF G
<1>4. ASSUME NEW i \in P
      PROVE  i - 1 \in (1 .. n + 1) \ P /\ \E g \in Valued : G[i - 1] = <<g>>
  <2>1. i - 1 \in (1 .. n) \ P /\ \E g \in Valued : F[i - 1] = <<g>>
    BY DEF WellFormed
  <2> QED BY <1>2, <1>3, <2>1
<1>5. ASSUME NEW i \in (1 .. n + 1) \ P
      PROVE  /\ \E g \in ForwardedFlags : G[i] = <<g>>
             /\ (\E g \in Valued : G[i] = <<g>>) => i + 1 \in P
             /\ G[i] = <<"--game">> => Canonical(G[i + 1]) = G[i + 1]
  <2>1. CASE i \in (1 .. n) \ P
    <3>1. /\ \E g \in ForwardedFlags : F[i] = <<g>>
          /\ (\E g \in Valued : F[i] = <<g>>) => i + 1 \in P
          /\ F[i] = <<"--game">> => Canonical(F[i + 1]) = F[i + 1]
      BY <2>1 DEF WellFormed
    <3>2. G[i] = F[i]
      BY <1>2, <2>1
    <3>3. F[i] = <<"--game">> => G[i + 1] = F[i + 1]
      <4>1. SUFFICES ASSUME F[i] = <<"--game">> PROVE i + 1 \in 1 .. n
        BY <1>2
      <4>2. i + 1 \in P
        BY <3>1, <4>1 DEF Valued
      <4> QED BY <1>1, <4>2
    <3> QED BY <3>1, <3>2, <3>3
  <2>2. CASE i = n + 1
    <3>1. \A g \in Valued : <<f>> # <<g>>
      BY OneFlag
    <3>2. <<f>> # <<"--game">>
      BY <3>1 DEF Valued
    <3> QED BY <1>2, <2>2, <3>1, <3>2
  <2> QED BY <1>3, <2>1, <2>2
<1>6. ASSUME NEW i \in (1 .. n + 1) \ P, NEW j \in (1 .. n + 1) \ P, i # j,
             NEW S \in {GameFlags, Actions, {"--game"}, {"--extra"}},
             NEW g \in S, NEW h \in S, G[i] = <<g>>, G[j] = <<h>>
      PROVE  FALSE
  <2>1. CASE i \in 1 .. n /\ j \in 1 .. n
    <3>1. F[i] = <<g>> /\ F[j] = <<h>> /\ i \in (1 .. n) \ P /\ j \in (1 .. n) \ P
      BY <1>2, <1>6, <2>1
    <3> QED BY <1>6, <3>1, OneOfAKind, Zenon
  <2>2. ASSUME NEW l \in (1 .. n) \ P, NEW e \in S, F[l] = <<e>>, f \in S PROVE FALSE
    <3>1. S = GameFlags \/ S = Actions
      BY <2>2 DEF Valued
    <3>2. CASE S = GameFlags
      <4>1. Has(F, P, n, {e})
        BY <2>2 DEF Has
      <4> QED BY <2>2, <3>2, <4>1
    <3>3. CASE S = Actions
      <4>1. Has(F, P, n, Actions)
        BY <2>2, <3>3 DEF Has
      <4> QED BY <2>2, <3>3, <4>1
    <3> QED BY <3>1, <3>2, <3>3
  <2>3. CASE i = n + 1
    <3>1. j \in (1 .. n) \ P /\ F[j] = <<h>> /\ g = f
      BY <1>2, <1>3, <1>6, <2>3, OneFlag
    <3> QED BY <2>2, <3>1
  <2>4. CASE j = n + 1
    <3>1. i \in (1 .. n) \ P /\ F[i] = <<g>> /\ h = f
      BY <1>2, <1>3, <1>6, <2>4, OneFlag
    <3> QED BY <2>2, <3>1
  <2> QED BY <1>3, <2>1, <2>3, <2>4
<1> HIDE DEF n
<1>7. WellFormed(G, P)
  <2>1. \A i \in P :
          i - 1 \in (1 .. Len(G)) \ P /\ \E g \in Valued : G[i - 1] = <<g>>
    BY <1>2, <1>4
  <2>2. \A i \in (1 .. Len(G)) \ P :
          /\ \E g \in ForwardedFlags : G[i] = <<g>>
          /\ (\E g \in Valued : G[i] = <<g>>) => i + 1 \in P
          /\ G[i] = <<"--game">> => Canonical(G[i + 1]) = G[i + 1]
    BY <1>2, <1>5
  <2>3. \A i, j \in (1 .. Len(G)) \ P :
          \/ i = j
          \/ \A S \in {GameFlags, Actions, {"--game"}, {"--extra"}} :
               ~ \E g, h \in S : G[i] = <<g>> /\ G[j] = <<h>>
    BY <1>2, <1>6
  <2> QED BY <1>2, <1>3, <2>1, <2>2, <2>3 DEF WellFormed
<1> QED BY <1>7 DEF G, n

\* An option that was not given before, and its value.
LEMMA GrowsValue ==
  ASSUME NEW F, NEW P, WellFormed(F, P), NEW w \in Argument, NEW v \in Argument,
         NEW f \in Valued, w = <<f>>, ~Has(F, P, Len(F), {f}),
         f = "--game" => Canonical(v) = v
  PROVE  WellFormed(F \o <<w, v>>, P \cup {Len(F) + 2})
<1> DEFINE n == Len(F)
           G == F \o <<w, v>>
           Q == P \cup {n + 2}
<1>1. n \in Nat /\ F \in Seq(Argument) /\ P \subseteq 1 .. n /\ n + 1 \notin P
  BY DEF WellFormed
<1>2. G \in Seq(Argument) /\ Len(G) = n + 2 /\ G[n + 1] = <<f>> /\ G[n + 2] = v
      /\ \A i \in 1 .. n : G[i] = F[i]
  <2>1. Len(F) = n /\ Len(<<w, v>>) = 2 /\ <<w, v>> \in Seq(Argument)
    OBVIOUS
  <2>2. G \in Seq(Argument) /\ Len(G) = n + 2
    BY <1>1, <2>1
  <2>3. G[n + 1] = w /\ G[n + 2] = v
    BY <1>1, <2>1
  <2>4. \A i \in 1 .. n : G[i] = F[i]
    BY <1>1, <2>1
  <2> HIDE DEF G
  <2> QED BY <2>2, <2>3, <2>4
<1>3. Q \subseteq 1 .. n + 2 /\ (1 .. n + 2) \ Q = ((1 .. n) \ P) \cup {n + 1}
  <2> HIDE DEF n
  <2> QED BY <1>1
<1> HIDE DEF G
<1>4. ASSUME NEW i \in Q
      PROVE  i - 1 \in (1 .. n + 2) \ Q /\ \E g \in Valued : G[i - 1] = <<g>>
  <2>1. CASE i \in P
    <3>1. i - 1 \in (1 .. n) \ P /\ \E g \in Valued : F[i - 1] = <<g>>
      BY <2>1 DEF WellFormed
    <3> QED BY <1>2, <1>3, <3>1
  <2>2. CASE i = n + 2
    <3>1. i - 1 = n + 1
      BY <1>1, <2>2
    <3> QED BY <1>2, <1>3, <3>1
  <2> QED BY <2>1, <2>2
<1>5. ASSUME NEW i \in (1 .. n + 2) \ Q
      PROVE  /\ \E g \in ForwardedFlags : G[i] = <<g>>
             /\ (\E g \in Valued : G[i] = <<g>>) => i + 1 \in Q
             /\ G[i] = <<"--game">> => Canonical(G[i + 1]) = G[i + 1]
  <2>1. CASE i \in (1 .. n) \ P
    <3>1. /\ \E g \in ForwardedFlags : F[i] = <<g>>
          /\ (\E g \in Valued : F[i] = <<g>>) => i + 1 \in P
          /\ F[i] = <<"--game">> => Canonical(F[i + 1]) = F[i + 1]
      BY <2>1 DEF WellFormed
    <3>2. G[i] = F[i]
      BY <1>2, <2>1
    <3>3. F[i] = <<"--game">> => G[i + 1] = F[i + 1]
      <4>1. SUFFICES ASSUME F[i] = <<"--game">> PROVE i + 1 \in 1 .. n
        BY <1>2
      <4>2. i + 1 \in P
        BY <3>1, <4>1 DEF Valued
      <4> QED BY <1>1, <4>2
    <3> QED BY <3>1, <3>2, <3>3
  <2>2. CASE i = n + 1
    <3>1. i + 1 = n + 2 /\ f \in ForwardedFlags
      BY <1>1, <2>2 DEF ForwardedFlags
    <3>2. <<f>> = <<"--game">> => f = "--game"
      BY OneFlag
    <3> QED BY <1>2, <2>2, <3>1, <3>2
  <2> QED BY <1>3, <2>1, <2>2
<1>6. ASSUME NEW i \in (1 .. n + 2) \ Q, NEW j \in (1 .. n + 2) \ Q, i # j,
             NEW S \in {GameFlags, Actions, {"--game"}, {"--extra"}},
             NEW g \in S, NEW h \in S, G[i] = <<g>>, G[j] = <<h>>
      PROVE  FALSE
  <2>1. CASE i \in 1 .. n /\ j \in 1 .. n
    <3>1. F[i] = <<g>> /\ F[j] = <<h>> /\ i \in (1 .. n) \ P /\ j \in (1 .. n) \ P
      BY <1>2, <1>3, <1>6, <2>1
    <3> QED BY <1>6, <3>1, OneOfAKind, Zenon
  <2>2. ASSUME NEW l \in (1 .. n) \ P, NEW e \in S, F[l] = <<e>>, f \in S PROVE FALSE
    <3>1. S = {"--game"} \/ S = {"--extra"}
      BY <2>2 DEF Valued, GameFlags, Actions
    <3>2. e = f
      BY <2>2, <3>1
    <3> QED BY <2>2, <3>2 DEF Has
  <2>3. CASE i = n + 1
    <3>1. j \in (1 .. n) \ P /\ F[j] = <<h>> /\ g = f
      BY <1>2, <1>3, <1>6, <2>3, OneFlag
    <3> QED BY <2>2, <3>1
  <2>4. CASE j = n + 1
    <3>1. i \in (1 .. n) \ P /\ F[i] = <<g>> /\ h = f
      BY <1>2, <1>3, <1>6, <2>4, OneFlag
    <3> QED BY <2>2, <3>1
  <2> QED BY <1>3, <2>1, <2>3, <2>4
<1> HIDE DEF n
<1> QED
  <2> HIDE DEF Q
  <2>1. \A i, j \in (1 .. n + 2) \ Q :
          \/ i = j
          \/ \A S \in {GameFlags, Actions, {"--game"}, {"--extra"}} :
               ~ \E g, h \in S : G[i] = <<g>> /\ G[j] = <<h>>
    BY <1>6
  <2>2. G \in Seq(Argument) /\ Len(G) = n + 2 /\ Q \subseteq 1 .. n + 2
    BY <1>2, <1>3
  <2>3. \A i \in Q : i - 1 \in (1 .. n + 2) \ Q /\ \E g \in Valued : G[i - 1] = <<g>>
    BY <1>4
  <2>4. \A i \in (1 .. n + 2) \ Q :
          /\ \E g \in ForwardedFlags : G[i] = <<g>>
          /\ (\E g \in Valued : G[i] = <<g>>) => i + 1 \in Q
          /\ G[i] = <<"--game">> => Canonical(G[i + 1]) = G[i + 1]
    BY <1>5
  <2>5. WellFormed(G, Q)
    BY <2>1, <2>2, <2>3, <2>4 DEF WellFormed
  <2> QED BY <2>5 DEF G, Q, n

\* Options that have one flag more.
LEMMA SaysFlag ==
  ASSUME NEW o, NEW P, Says(o, P), NEW w \in Argument, NEW f, w = <<f>>,
         NEW p \in Options, p.game = o.game, p.extra = o.extra,
         p.forwarded = Append(o.forwarded, w),
         \/ f \in GameFlags /\ o.kind = "none" /\ p.kind = f /\ p.given = o.given
         \/ /\ f \in Actions /\ "action" \notin o.given
            /\ p.kind = o.kind /\ p.given = o.given \cup {"action"}
         \/ f = "--log" /\ p.kind = o.kind /\ p.given = o.given
  PROVE  Says(p, P)
<1> DEFINE F == o.forwarded
           n == Len(F)
           G == Append(F, w)
<1>1. n \in Nat /\ F \in Seq(Argument) /\ P \subseteq 1 .. n /\ n + 1 \notin P
  BY DEF Says, WellFormed
<1>2. f \in ForwardedFlags /\ f \notin Valued
  BY DEF ForwardedFlags, Valued, GameFlags, Actions
<1>3. f \in GameFlags => \A k \in GameFlags : ~Has(F, P, n, {k})
  <2>1. f \in GameFlags => o.kind \notin GameFlags
    BY DEF GameFlags, Actions
  <2> QED BY <2>1 DEF Says, Told
<1>4. f \in Actions => ~Has(F, P, n, Actions)
  <2>1. f \in Actions => "action" \notin o.given
    BY DEF GameFlags, Actions
  <2> QED BY <2>1 DEF Says, Told
<1>5. WellFormed(F, P) /\ Told(F, P, n, o)
  BY DEF Says
<1>6. G \in Seq(Argument) /\ Len(G) = n + 1 /\ G[n + 1] = w
      /\ \A i \in 1 .. n : G[i] = F[i]
  BY <1>1
<1> HIDE DEF G, F
<1>7. WellFormed(G, P)
  BY <1>2, <1>3, <1>4, <1>5, GrowsFlag DEF G
<1>8. Told(G, P, n, o)
  BY <1>1, <1>5, <1>6, ToldPrefix
<1>9. p.forwarded = G
  BY DEF G, F
<1>10. n < Len(G)
  BY <1>1, <1>6
<1>11. p.forwarded = Append(o.forwarded, G[n + 1])
  BY <1>6
<1> HIDE DEF n
<1>12. Told(G, P, n + 1, p)
  BY <1>1, <1>6, <1>8, <1>10, <1>11, ToldFlag
<1> QED BY <1>6, <1>7, <1>9, <1>12 DEF Says

\* Options that have one option and its value more.
LEMMA SaysValue ==
  ASSUME NEW o, NEW P, Says(o, P), NEW w \in Argument, NEW v \in Argument,
         NEW p \in Options, p.kind = o.kind, p.forwarded = o.forwarded \o <<w, v>>,
         \/ /\ w = <<"--game">> /\ "game" \notin o.given /\ Canonical(v) = v
            /\ p.given = o.given \cup {"game"} /\ p.game = v /\ p.extra = o.extra
         \/ /\ w = <<"--extra">> /\ "extra" \notin o.given
            /\ p.given = o.given \cup {"extra"} /\ p.extra = v /\ p.game = o.game
  PROVE  Says(p, P \cup {Len(o.forwarded) + 2})
<1> DEFINE F == o.forwarded
           n == Len(F)
           G == F \o <<w, v>>
           Q == P \cup {n + 2}
<1>1. n \in Nat /\ F \in Seq(Argument) /\ P \subseteq 1 .. n
  BY DEF Says, WellFormed
<1>2. PICK f \in Valued : /\ w = <<f>> /\ ~Has(F, P, n, {f})
                          /\ f = "--game" => Canonical(v) = v
  <2>1. CASE w = <<"--game">> /\ "game" \notin o.given
    <3>1. ~Has(F, P, n, {"--game"})
      BY <2>1 DEF Says, Told
    <3> QED BY <2>1, <3>1 DEF Valued
  <2>2. CASE w = <<"--extra">> /\ "extra" \notin o.given
    <3>1. ~Has(F, P, n, {"--extra"})
      BY <2>2 DEF Says, Told
    <3> QED BY <2>2, <3>1 DEF Valued
  <2> QED BY <2>1, <2>2
<1>3. WellFormed(F, P) /\ Told(F, P, n, o)
  BY DEF Says
<1>4. G \in Seq(Argument) /\ Len(G) = n + 2 /\ G[n + 1] = w /\ G[n + 2] = v
      /\ \A i \in 1 .. n : G[i] = F[i]
  BY <1>1
<1>5. n + 1 \notin Q /\ n + 2 \in Q /\ n + 1 < n + 2 /\ n <= n + 2
      /\ \A i \in 1 .. n : i \in Q <=> i \in P
  BY <1>1
<1> HIDE DEF G, F
<1>6. WellFormed(G, Q)
  BY <1>2, <1>3, GrowsValue DEF G
<1>7. Told(G, Q, n, o)
  <2> HIDE DEF Q
  <2> QED BY <1>1, <1>3, <1>4, <1>5, ToldPrefix
<1>8. p.forwarded = G
  BY DEF G, F
<1> HIDE DEF n, Q
<1>9. Told(G, Q, n + 2, p)
  BY <1>1, <1>4, <1>5, <1>6, <1>7, ToldValue
<1> QED BY <1>4, <1>6, <1>8, <1>9 DEF Says, Q, n, F

-----------------------------------------------------------------------------
(* The launcher that the user started                                      *)

\* Before the first word nothing has been said.
LEMMA ToldNothing ==
  ASSUME NEW F, NEW P, F \in Seq(Argument)
  PROVE  Told(F, P, 0, NothingRead)
<1>1. \A flags : ~Has(F, P, 0, flags)
  BY DEF Has
<1>2. DefaultGame \in Argument /\ <<>> \in Argument /\ <<>> \in Seq(Argument)
  BY DEF DefaultGame, Directory, Argument, Letters
<1>3. NothingRead \in Options
  BY <1>2 DEF NothingRead, Options
<1>4. \A k \in GameFlags : NothingRead.kind # k
  BY DEF NothingRead, GameFlags
<1>5. NothingRead.given = {} /\ NothingRead.game = DefaultGame
      /\ NothingRead.extra = <<>> /\ NothingRead.forwarded = <<>>
  BY DEF NothingRead
<1>6. SubSeq(F, 1, 0) = <<>>
  OBVIOUS
<1> QED BY <1>1, <1>3, <1>4, <1>5, <1>6 DEF Told

\* The marker is no part of what the words say.
LEMMA ToldMarker ==
  ASSUME NEW F, NEW P, NEW n, NEW o, Told(F, P, n, o)
  PROVE  Told(F, P, n, [o EXCEPT !.marker = TRUE])
<1> DEFINE p == [o EXCEPT !.marker = TRUE]
<1>1. o \in Options
  BY DEF Told
<1>2. /\ p \in Options /\ p.kind = o.kind /\ p.given = o.given
      /\ p.game = o.game /\ p.extra = o.extra /\ p.forwarded = o.forwarded
  BY <1>1 DEF Options
<1> HIDE DEF p
<1>3. Told(F, P, n, p)
  BY <1>2 DEF Told
<1> QED BY <1>3 DEF p

\* A forwarded flag is --log or leaves the logging as it was.
LEMMA LogFlag ==
  ASSUME NEW o, NEW P, Says(o, P), NEW f, NEW w \in Argument, w = <<f>>, NEW p,
         p.forwarded = Append(o.forwarded, w)
  PROVE  SaysLog(p, P) <=> (SaysLog(o, P) \/ f = "--log")
<1> DEFINE F == o.forwarded
           n == Len(F)
           G == p.forwarded
<1>1. n \in Nat /\ F \in Seq(Argument) /\ n + 1 \notin P
  BY DEF Says, WellFormed
<1>2. Len(G) = n + 1 /\ G[n + 1] = w /\ \A i \in 1 .. n : G[i] = F[i]
  BY <1>1
<1> HIDE DEF G, F, n
<1>3. Has(G, P, n + 1, {"--log"}) <=> (Has(G, P, n, {"--log"}) \/ f \in {"--log"})
  BY <1>1, <1>2, HasFlag
<1>4. Has(G, P, n, {"--log"}) <=> Has(F, P, n, {"--log"})
  BY <1>1, <1>2, HasPrefix
<1> QED BY <1>2, <1>3, <1>4 DEF SaysLog, G, F, n

\* An option with a value leaves it, whatever the value is.
LEMMA LogValue ==
  ASSUME NEW o, NEW P, Says(o, P), NEW f \in Valued, NEW w \in Argument, w = <<f>>,
         NEW v \in Argument, NEW p, p.forwarded = o.forwarded \o <<w, v>>
  PROVE  SaysLog(p, P \cup {Len(o.forwarded) + 2}) <=> SaysLog(o, P)
<1> DEFINE F == o.forwarded
           n == Len(F)
           G == p.forwarded
           Q == P \cup {n + 2}
<1>1. n \in Nat /\ F \in Seq(Argument) /\ P \subseteq 1 .. n
  BY DEF Says, WellFormed
<1>2. Len(G) = n + 2 /\ G[n + 1] = w /\ \A i \in 1 .. n : G[i] = F[i]
  BY <1>1
<1>3. n + 1 \notin Q /\ n + 1 + 1 \in Q /\ n + 1 + 1 = n + 2 /\ n + 1 \in Nat
      /\ \A i \in 1 .. n : i \in Q <=> i \in P
  <2> HIDE DEF n
  <2> QED BY <1>1
<1>4. f \notin {"--log"}
  BY DEF Valued
<1> HIDE DEF G, F, n, Q
<1>5. Has(G, Q, n + 1 + 1, {"--log"}) <=> Has(G, Q, n + 1, {"--log"})
  BY <1>3, HasValue
<1>6. Has(G, Q, n + 1, {"--log"}) <=> (Has(G, Q, n, {"--log"}) \/ f \in {"--log"})
  BY <1>1, <1>2, <1>3, HasFlag
<1>7. Has(G, Q, n, {"--log"}) <=> Has(F, P, n, {"--log"})
  BY <1>1, <1>2, <1>3, HasPrefix
<1> QED BY <1>2, <1>3, <1>4, <1>5, <1>6, <1>7 DEF SaysLog, G, F, n, Q

\* What the second loop has to show for a word or two.
LEMMA TookInv ==
  ASSUME Understands, asked = NotAsked, pc = "read", NEW k \in {1, 2}, NEW p, Took(k, p),
         at + k \in 1 .. Len(argv) + 1, NEW P, Says(p, P),
         Scanning(argv)[at + k - 1] = [log |-> SaysLog(p, P), value |-> FALSE],
         log = Scanning(argv)[Len(argv)].log
  PROVE  CommandInv'
<1>1. /\ asked' = NotAsked /\ argv' = argv /\ pc' = "read" /\ at' = at + k
      /\ opt' = p /\ log' = log
  BY DEF Took
<1>2. argv \in Seq(Argument)
  BY DEF Understands
<1>3. Scanning(argv') = Scanning(argv)
  BY <1>1
<1>4. Says(opt', P) /\ SaysLog(opt', P) = SaysLog(p, P)
  BY <1>1
<1>5. /\ Says(opt', P)
      /\ Scanning(argv')[at' - 1] = [log |-> SaysLog(opt', P), value |-> FALSE]
      /\ log' = Scanning(argv')[Len(argv')].log
  <2>1. at' - 1 = at + k - 1
    <3>1. at \in Nat
      BY <1>2 DEF Understands
    <3> QED BY <1>1, <3>1
  <2>2. Scanning(argv')[at' - 1] = Scanning(argv)[at + k - 1]
    BY <1>3, <2>1
  <2>3. Len(argv') = Len(argv)
    BY <1>1
  <2>4. log' = Scanning(argv')[Len(argv')].log
    BY <1>1, <1>3, <2>3
  <2> QED BY <1>4, <2>2, <2>4
<1>6. pc' # "scan" /\ pc' # "elevation" /\ argv' \in Seq(Argument)
      /\ at' \in 1 .. Len(argv') + 1
  BY <1>1, <1>2
<1>7. Understands'
  BY <1>5, <1>6 DEF Understands
<1>8. ReadsAgain'
  BY <1>1 DEF ReadsAgain
<1> QED BY <1>7, <1>8 DEF CommandInv

\* What it knows before and what its first loop made of the word.
Knows(P) ==
  /\ Says(opt, P) /\ opt \in Options /\ opt.forwarded \in Seq(Argument)
  /\ log = Scanning(argv)[Len(argv)].log
  /\ Scanning(argv)[at] = [log |-> (SaysLog(opt, P) \/ argv[at] = <<"--log">>),
                           value |-> \E f \in Valued : argv[at] = <<f>>]

\* It knows that before every word.
LEMMA FirstReads ==
  ASSUME Understands, asked = NotAsked, Reading
  PROVE  /\ argv \in Seq(Argument) /\ at \in 1 .. Len(argv) /\ argv[at] \in Argument
         /\ pc = "read"
         /\ \E P : Knows(P)
<1>1. argv \in Seq(Argument) /\ at \in 1 .. Len(argv) /\ pc = "read" /\ Len(argv) \in Nat
  BY DEF Understands, Reading
<1>2. PICK P :
        /\ Says(opt, P)
        /\ Scanning(argv)[at - 1] = [log |-> SaysLog(opt, P), value |-> FALSE]
        /\ log = Scanning(argv)[Len(argv)].log
  BY <1>1 DEF Understands
<1>3. Scanning(argv)[at] = ScanWord(Scanning(argv)[at - 1], argv[at])
  BY <1>1, ScanSteps
<1>4. Scanning(argv)[at] = [log |-> (SaysLog(opt, P) \/ argv[at] = <<"--log">>),
                            value |-> \E f \in Valued : argv[at] = <<f>>]
  <2> DEFINE s == Scanning(argv)[at - 1]
  <2>1. s.log = SaysLog(opt, P) /\ s.value = FALSE
    BY <1>2
  <2> HIDE DEF s
  <2>2. ScanWord(s, argv[at]) = [log |-> (SaysLog(opt, P) \/ argv[at] = <<"--log">>),
                                 value |-> \E f \in Valued : argv[at] = <<f>>]
    BY <2>1, Zenon DEF ScanWord
  <2> QED BY <1>3, <2>2 DEF s
<1>5. opt \in Options /\ opt.forwarded \in Seq(Argument)
  BY <1>2 DEF Says, Told, Options
<1>6. Knows(P)
  BY <1>2, <1>4, <1>5 DEF Knows
<1> QED BY <1>1, <1>6

\* A flag: SelectsGame, TakesAction, TakesLog.
LEMMA FirstTakesFlag ==
  ASSUME Understands, asked = NotAsked, Reading, NEW f, IsFlag(f), NEW p \in Options,
         Took(1, p), p.game = opt.game, p.extra = opt.extra,
         p.forwarded = opt.forwarded \o <<argv[at]>>,
         \/ f \in GameFlags /\ opt.kind = "none" /\ p.kind = f /\ p.given = opt.given
         \/ /\ f \in Actions /\ "action" \notin opt.given
            /\ p.kind = opt.kind /\ p.given = opt.given \cup {"action"}
         \/ f = "--log" /\ p.kind = opt.kind /\ p.given = opt.given
  PROVE  CommandInv'
<1>1. /\ argv \in Seq(Argument) /\ at \in 1 .. Len(argv) /\ argv[at] \in Argument
      /\ pc = "read"
  BY FirstReads
<1>2. PICK P : Knows(P)
  BY FirstReads
<1>3. p.forwarded = Append(opt.forwarded, argv[at]) /\ argv[at] = <<f>>
  BY <1>1, <1>2 DEF IsFlag, Knows
<1>4. Says(p, P)
  BY <1>1, <1>2, <1>3, SaysFlag DEF Knows
<1>5. SaysLog(p, P) <=> (SaysLog(opt, P) \/ f = "--log")
  <2> DEFINE w == argv[at]
  <2>1. Says(opt, P)
    BY <1>2 DEF Knows
  <2>2. w \in Argument /\ w = <<f>> /\ p.forwarded = Append(opt.forwarded, w)
    BY <1>1, <1>3
  <2> HIDE DEF w
  <2> QED BY <2>1, <2>2, LogFlag
<1>6. f \notin Valued
  BY DEF Valued, GameFlags, Actions
<1>7. (argv[at] = <<"--log">> <=> f = "--log") /\ ~ \E g \in Valued : argv[at] = <<g>>
  BY <1>3, <1>6, OneFlag
<1>8. Scanning(argv)[at] = [log |-> SaysLog(p, P), value |-> FALSE]
  <2>1. (SaysLog(opt, P) \/ argv[at] = <<"--log">>) = SaysLog(p, P)
    BY <1>5, <1>7 DEF SaysLog, Has
  <2>2. (\E g \in Valued : argv[at] = <<g>>) = FALSE
    BY <1>7
  <2> QED BY <1>2, <2>1, <2>2 DEF Knows
<1>9. at + 1 \in 1 .. Len(argv) + 1 /\ at + 1 - 1 = at
  BY <1>1
<1> QED BY <1>1, <1>2, <1>4, <1>8, <1>9, TookInv DEF Knows

\* An option and its value: TakesPath, TakesExtra.
LEMMA FirstTakesValue ==
  ASSUME Understands, asked = NotAsked, Reading, at < Len(argv), NEW v \in Argument,
         NEW p \in Options, Took(2, p), p.kind = opt.kind,
         p.forwarded = opt.forwarded \o <<argv[at], v>>,
         \/ /\ IsFlag("--game") /\ "game" \notin opt.given /\ Canonical(v) = v
            /\ p.given = opt.given \cup {"game"} /\ p.game = v /\ p.extra = opt.extra
         \/ /\ IsFlag("--extra") /\ "extra" \notin opt.given
            /\ p.given = opt.given \cup {"extra"} /\ p.extra = v /\ p.game = opt.game
  PROVE  CommandInv'
<1>1. /\ argv \in Seq(Argument) /\ at \in 1 .. Len(argv) /\ argv[at] \in Argument
      /\ pc = "read"
  BY FirstReads
<1>2. PICK P : Knows(P)
  BY FirstReads
<1>3. PICK f \in Valued : argv[at] = <<f>>
  BY DEF Valued, IsFlag
<1> DEFINE Q == P \cup {Len(opt.forwarded) + 2}
<1>4. Says(p, Q)
  BY <1>1, <1>2, SaysValue DEF IsFlag, Knows
<1>5. SaysLog(p, Q) <=> SaysLog(opt, P)
  <2> DEFINE w == argv[at]
  <2>1. w \in Argument /\ w = <<f>> /\ p.forwarded = opt.forwarded \o <<w, v>>
    BY <1>1, <1>3
  <2>2. Says(opt, P)
    BY <1>2 DEF Knows
  <2> HIDE DEF w
  <2> QED BY <2>1, <2>2, LogValue
<1> HIDE DEF Q
<1>6. argv[at] # <<"--log">>
  BY <1>3, OneFlag DEF Valued
<1>7. Scanning(argv)[at].log = SaysLog(p, Q) /\ Scanning(argv)[at].value = TRUE
  <2>1. (SaysLog(opt, P) \/ argv[at] = <<"--log">>) = SaysLog(p, Q)
    BY <1>5, <1>6 DEF SaysLog, Has
  <2>2. (\E g \in Valued : argv[at] = <<g>>) = TRUE
    BY <1>3
  <2> QED BY <1>2, <2>1, <2>2 DEF Knows
<1>8. at + 2 \in 1 .. Len(argv) + 1 /\ at + 2 - 1 = at + 1 /\ at + 1 \in 1 .. Len(argv)
      /\ at + 1 - 1 = at /\ Len(argv) \in Nat /\ at \in Nat
  BY <1>1
<1>9. Scanning(argv)[at + 1] = [log |-> SaysLog(p, Q), value |-> FALSE]
  <2>1. \A i \in 1 .. Len(argv) :
          Scanning(argv)[i] = ScanWord(Scanning(argv)[i - 1], argv[i])
    BY <1>8, ScanSteps
  <2>2. Scanning(argv)[at + 1] = ScanWord(Scanning(argv)[at], argv[at + 1])
    <3> DEFINE j == at + 1
    <3>1. j \in 1 .. Len(argv) /\ j - 1 = at
      BY <1>8
    <3> HIDE DEF j
    <3>2. Scanning(argv)[j] = ScanWord(Scanning(argv)[at], argv[j])
      BY <2>1, <3>1
    <3> QED BY <3>2 DEF j
  <2> DEFINE s == Scanning(argv)[at]
             e == argv[at + 1]
  <2>3. SaysLog(p, Q) \in BOOLEAN
    BY DEF SaysLog, Has
  <2>4. s.log = SaysLog(p, Q) /\ s.value = TRUE
    BY <1>7
  <2> HIDE DEF s, e
  <2>5. (s.log \/ (~s.value /\ e = <<"--log">>)) = SaysLog(p, Q)
    BY <2>3, <2>4
  <2>6. (~s.value /\ \E g \in Valued : e = <<g>>) = FALSE
    BY <2>4
  <2>7. ScanWord(s, e) = [log |-> SaysLog(p, Q), value |-> FALSE]
    BY <2>5, <2>6 DEF ScanWord
  <2> QED BY <2>2, <2>7 DEF s, e
<1> QED BY <1>1, <1>2, <1>4, <1>8, <1>9, TookInv DEF Knows

\* A canonical path is the same when it is made canonical again.
LEMMA CanonicalTwice ==
  ASSUME NEW v \in Argument
  PROVE  Canonical(v) \in Argument /\ Canonical(Canonical(v)) = Canonical(v)
<1>1. CASE v # <<>> /\ Head(v) = "C:"
  BY <1>1 DEF Canonical
<1>2. CASE ~(v # <<>> /\ Head(v) = "C:")
  <2>1. Directory \in Argument /\ Len(Directory) = 2 /\ Directory[1] = "C:"
    BY DEF Directory, Argument, Letters
  <2> DEFINE c == Directory \o v
  <2>2. ASSUME NEW d \in Seq(Letters), NEW w \in Seq(Letters), Len(d) = 2, d[1] = "C:"
        PROVE  d \o w \in Seq(Letters) /\ d \o w # <<>> /\ Head(d \o w) = "C:"
    <3>1. d \o w \in Seq(Letters) /\ Len(d \o w) = 2 + Len(w) /\ (d \o w)[1] = d[1]
      <4>1. /\ d \o w \in Seq(Letters) /\ Len(d \o w) = Len(d) + Len(w)
            /\ \A i \in 1 .. Len(d) + Len(w) :
                 (d \o w)[i] = IF i <= Len(d) THEN d[i] ELSE w[i - Len(d)]
        BY ConcatProperties
      <4>2. Len(w) \in Nat /\ 1 \in 1 .. 2 + Len(w)
        OBVIOUS
      <4> QED BY <2>2, <4>1, <4>2
    <3> DEFINE e == d \o w
    <3>2. e \in Seq(Letters) /\ Len(e) > 0 /\ e[1] = "C:"
      BY <2>2, <3>1
    <3> HIDE DEF e
    <3>3. e # <<>> /\ Head(e) = "C:"
      BY <3>2
    <3> QED BY <3>2, <3>3 DEF e
  <2>5. c \in Argument /\ c # <<>> /\ Head(c) = "C:"
    BY <2>1, <2>2 DEF Argument
  <2>3. Canonical(v) = c
    BY <1>2 DEF Canonical
  <2> HIDE DEF c
  <2>4. Canonical(c) = c
    BY <2>5 DEF Canonical
  <2> QED BY <2>3, <2>4, <2>5
<1> QED BY <1>1, <1>2

\* Nothing happens to the command where a launcher only goes elsewhere.
LEMMA FirstStops ==
  ASSUME Understands, asked = NotAsked, NEW where, where \notin {"scan", "read", "elevation"},
         Stop(where)
  PROVE  CommandInv'
<1>1. /\ pc' = where /\ argv' = argv /\ at' = at /\ asked' = NotAsked
  BY DEF Stop
<1> QED BY <1>1 DEF CommandInv, Understands, ReadsAgain

\* The started launcher keeps what it can forward, and hands it on whole.
LEMMA FirstStep ==
  ASSUME Understands, asked = NotAsked, CommandNext
  PROVE  CommandInv'
<1>1. CASE ScanForLog
  <2>1. /\ argv' = argv /\ at' = 1 /\ pc' = "read" /\ opt' = NothingRead /\ asked' = NotAsked
        /\ log' = Scanning(argv)[Len(argv)].log /\ argv \in Seq(Argument)
    BY <1>1 DEF ScanForLog, Understands
  <2>2. Says(NothingRead, {})
    <3>1. NothingRead.forwarded = <<>> /\ <<>> \in Seq(Argument) /\ Len(<<>>) = 0
      BY DEF NothingRead
    <3>2. WellFormed(<<>>, {})
      BY <3>1 DEF WellFormed
    <3> QED BY <3>1, <3>2, ToldNothing DEF Says
  <2>3. SaysLog(NothingRead, {}) = FALSE
    <3>1. Len(NothingRead.forwarded) = 0
      BY DEF NothingRead
    <3> QED BY <3>1 DEF SaysLog, Has
  <2>4. Scanning(argv)[0] = [log |-> FALSE, value |-> FALSE]
    BY <2>1, ScanSteps
  <2>5. /\ Says(opt', {}) /\ log' = Scanning(argv')[Len(argv')].log
        /\ Scanning(argv')[at' - 1] = [log |-> SaysLog(opt', {}), value |-> FALSE]
    <3>1. 1 - 1 = 0
      OBVIOUS
    <3> QED BY <2>1, <2>2, <2>3, <2>4, <3>1
  <2>6. Understands'
    <3>1. at' \in 1 .. Len(argv') + 1
      BY <2>1
    <3> QED BY <2>1, <2>5, <3>1 DEF Understands
  <2> QED BY <2>1, <2>6 DEF CommandInv, ReadsAgain
<1>2. CASE AsksHelp
  BY <1>2, FirstStops DEF AsksHelp
<1>3. CASE TakesMarker
  <2> DEFINE p == [opt EXCEPT !.marker = TRUE]
  <2>1. Reading /\ IsFlag(RelaunchFlag) /\ Took(1, p)
    BY <1>3 DEF TakesMarker
  <2>2. /\ argv \in Seq(Argument) /\ at \in 1 .. Len(argv) /\ pc = "read"
    BY <2>1, FirstReads
  <2>3. PICK P : Knows(P)
    BY <2>1, FirstReads
  <2>4. p.forwarded = opt.forwarded
    BY <2>3 DEF Knows, Options
  <2>5. Says(p, P) /\ SaysLog(p, P) = SaysLog(opt, P)
    <3>1. Says(opt, P)
      BY <2>3 DEF Knows
    <3>2. Told(opt.forwarded, P, Len(opt.forwarded), p)
      BY <3>1, ToldMarker DEF Says
    <3> HIDE DEF p
    <3> QED BY <2>4, <3>1, <3>2 DEF Says, SaysLog
  <2> HIDE DEF p
  <2>6. argv[at] # <<"--log">> /\ ~ \E f \in Valued : argv[at] = <<f>>
    BY <2>1, OneFlag DEF IsFlag, RelaunchFlag, Valued
  <2>7. Scanning(argv)[at] = [log |-> SaysLog(p, P), value |-> FALSE]
    <3>1. (SaysLog(opt, P) \/ argv[at] = <<"--log">>) = SaysLog(p, P)
      BY <2>5, <2>6 DEF SaysLog, Has
    <3>2. (\E g \in Valued : argv[at] = <<g>>) = FALSE
      BY <2>6
    <3> QED BY <2>3, <3>1, <3>2 DEF Knows
  <2>8. at + 1 \in 1 .. Len(argv) + 1 /\ at + 1 - 1 = at
    BY <2>2
  <2>9. log = Scanning(argv)[Len(argv)].log
    BY <2>3 DEF Knows
  <2> QED BY <2>1, <2>2, <2>5, <2>7, <2>8, <2>9, TookInv
<1>4. CASE SelectsGame
  <2>1. Reading /\ opt.kind = "none"
    BY <1>4 DEF SelectsGame
  <2>2. PICK k \in GameFlags :
          IsFlag(k) /\ Took(1, [opt EXCEPT !.kind = k, !.forwarded = Forward(<<argv[at]>>)])
    BY <1>4 DEF SelectsGame
  <2> DEFINE p == [opt EXCEPT !.kind = k, !.forwarded = Forward(<<argv[at]>>)]
  <2>3. argv[at] \in Argument /\ opt \in Options /\ opt.forwarded \in Seq(Argument)
    BY <2>1, FirstReads DEF Knows
  <2>4. Forward(<<argv[at]>>) = opt.forwarded \o <<argv[at]>>
        /\ Forward(<<argv[at]>>) \in Seq(Argument)
    BY <2>3 DEF Forward
  <2>5. /\ p \in Options /\ p.game = opt.game /\ p.extra = opt.extra /\ p.kind = k
        /\ p.given = opt.given /\ p.forwarded = opt.forwarded \o <<argv[at]>>
    BY <2>3, <2>4 DEF Options
  <2> HIDE DEF p
  <2> QED BY <2>1, <2>2, <2>5, FirstTakesFlag DEF p
<1>5. CASE TakesPath
  <2> DEFINE v == Canonical(argv[at + 1])
             p == [opt EXCEPT !.game = v, !.given = @ \cup {"game"},
                              !.forwarded = Forward(<<argv[at], v>>)]
  <2>1. Reading /\ IsFlag("--game") /\ at < Len(argv) /\ "game" \notin opt.given /\ Took(2, p)
    BY <1>5 DEF TakesPath
  <2>2. /\ argv \in Seq(Argument) /\ at \in 1 .. Len(argv) /\ argv[at] \in Argument
        /\ opt \in Options /\ opt.forwarded \in Seq(Argument)
    BY <2>1, FirstReads DEF Knows
  <2>3. v \in Argument /\ Canonical(v) = v
    <3>1. argv[at + 1] \in Argument
      BY <2>1, <2>2
    <3> QED BY <3>1, CanonicalTwice
  <2> HIDE DEF v
  <2>4. Forward(<<argv[at], v>>) = opt.forwarded \o <<argv[at], v>>
        /\ Forward(<<argv[at], v>>) \in Seq(Argument)
    BY <2>2, <2>3 DEF Forward
  <2>5. /\ p \in Options /\ p.game = v /\ p.extra = opt.extra /\ p.kind = opt.kind
        /\ p.given = opt.given \cup {"game"}
        /\ p.forwarded = opt.forwarded \o <<argv[at], v>>
    BY <2>2, <2>3, <2>4 DEF Options
  <2> HIDE DEF p
  <2> QED BY <2>1, <2>3, <2>5, FirstTakesValue
<1>6. CASE TakesExtra
  <2> DEFINE v == argv[at + 1]
             p == [opt EXCEPT !.extra = v, !.given = @ \cup {"extra"},
                              !.forwarded = Forward(<<argv[at], v>>)]
  <2>1. Reading /\ IsFlag("--extra") /\ at < Len(argv) /\ "extra" \notin opt.given /\ Took(2, p)
    BY <1>6 DEF TakesExtra
  <2>2. /\ argv \in Seq(Argument) /\ at \in 1 .. Len(argv) /\ argv[at] \in Argument
        /\ opt \in Options /\ opt.forwarded \in Seq(Argument)
    BY <2>1, FirstReads DEF Knows
  <2>3. v \in Argument
    BY <2>1, <2>2
  <2> HIDE DEF v
  <2>4. Forward(<<argv[at], v>>) = opt.forwarded \o <<argv[at], v>>
        /\ Forward(<<argv[at], v>>) \in Seq(Argument)
    BY <2>2, <2>3 DEF Forward
  <2>5. /\ p \in Options /\ p.extra = v /\ p.game = opt.game /\ p.kind = opt.kind
        /\ p.given = opt.given \cup {"extra"}
        /\ p.forwarded = opt.forwarded \o <<argv[at], v>>
    BY <2>2, <2>3, <2>4 DEF Options
  <2> HIDE DEF p
  <2> QED BY <2>1, <2>3, <2>5, FirstTakesValue
<1>7. CASE TakesAction
  <2> DEFINE p == [opt EXCEPT !.given = @ \cup {"action"},
                              !.forwarded = Forward(<<argv[at]>>)]
  <2>1. Reading /\ "action" \notin opt.given /\ Took(1, p)
    BY <1>7 DEF TakesAction
  <2>2. PICK f \in Actions : IsFlag(f)
    BY <1>7 DEF TakesAction
  <2>3. argv[at] \in Argument /\ opt \in Options /\ opt.forwarded \in Seq(Argument)
    BY <2>1, FirstReads DEF Knows
  <2>4. Forward(<<argv[at]>>) = opt.forwarded \o <<argv[at]>>
        /\ Forward(<<argv[at]>>) \in Seq(Argument)
    BY <2>3 DEF Forward
  <2>5. /\ p \in Options /\ p.game = opt.game /\ p.extra = opt.extra /\ p.kind = opt.kind
        /\ p.given = opt.given \cup {"action"}
        /\ p.forwarded = opt.forwarded \o <<argv[at]>>
    BY <2>3, <2>4 DEF Options
  <2> HIDE DEF p
  <2> QED BY <2>1, <2>2, <2>5, FirstTakesFlag
<1>8. CASE TakesLog
  <2> DEFINE p == [opt EXCEPT !.forwarded = Forward(<<argv[at]>>)]
  <2>1. Reading /\ IsFlag("--log") /\ Took(1, p)
    BY <1>8 DEF TakesLog
  <2>3. argv[at] \in Argument /\ opt \in Options /\ opt.forwarded \in Seq(Argument)
    BY <2>1, FirstReads DEF Knows
  <2>4. Forward(<<argv[at]>>) = opt.forwarded \o <<argv[at]>>
        /\ Forward(<<argv[at]>>) \in Seq(Argument)
    BY <2>3 DEF Forward
  <2>5. /\ p \in Options /\ p.game = opt.game /\ p.extra = opt.extra /\ p.kind = opt.kind
        /\ p.given = opt.given /\ p.forwarded = opt.forwarded \o <<argv[at]>>
    BY <2>3, <2>4 DEF Options
  <2> HIDE DEF p
  <2> QED BY <2>1, <2>5, FirstTakesFlag
<1>9. CASE Refuses
  BY <1>9, FirstStops DEF Refuses
<1>10. CASE Validates
  <2>1. CASE Stop("probe") \/ Stop("error")
    BY <2>1, FirstStops
  <2>2. CASE Stop("elevation")
    <3>1. /\ pc = "read" /\ at = Len(argv) + 1 /\ Len(argv) \in Nat /\ argv \in Seq(Argument)
      BY <1>10 DEF Validates, Understands
    <3>2. PICK P :
            /\ Says(opt, P)
            /\ Scanning(argv)[at - 1] = [log |-> SaysLog(opt, P), value |-> FALSE]
            /\ log = Scanning(argv)[Len(argv)].log
      BY <3>1 DEF Understands
    <3>3. at - 1 = Len(argv)
      BY <3>1
    <3>4. log = SaysLog(opt, P)
      BY <3>2, <3>3
    <3>5. /\ pc' = "elevation" /\ argv' = argv /\ at' = at /\ asked' = NotAsked
          /\ Says(opt', P) /\ log' = SaysLog(opt', P)
      BY <2>2, <3>2, <3>4 DEF Stop
    <3>6. Understands'
      BY <3>1, <3>5 DEF Understands
    <3> QED BY <3>5, <3>6 DEF CommandInv, ReadsAgain
  <2> QED BY <1>10, <2>1, <2>2 DEF Validates
<1>11. CASE HasRights \/ GivesUp \/ Canceled
  BY <1>11, FirstStops DEF HasRights, GivesUp, Canceled
<1>12. CASE Relaunches
  <2>1. /\ pc = "elevation" /\ ~opt.marker /\ asked' = <<opt, log>> /\ at' = 1 /\ pc' = "scan"
        /\ opt' = NothingRead
        /\ argv' = SplitLine(parameters(Append(opt.forwarded, <<RelaunchFlag>>)))
    BY <1>12 DEF Relaunches
  <2>2. PICK P : Says(opt, P) /\ log = SaysLog(opt, P)
    BY <2>1 DEF Understands
  <2>3. Append(opt.forwarded, <<RelaunchFlag>>) \in Seq(Argument)
    <3>1. <<RelaunchFlag>> \in Argument
      BY DEF Argument, Letters
    <3>2. opt.forwarded \in Seq(Argument)
      BY <2>2 DEF Says, WellFormed
    <3> QED BY <3>1, <3>2
  <2>4. argv' = Append(opt.forwarded, <<RelaunchFlag>>)
    BY <2>1, <2>3, LineSplitsBack
  <2>5. asked'[1] = opt /\ asked'[2] = log /\ asked' # NotAsked
    BY <2>1 DEF NotAsked
  <2>6. ReadsAgain'
    BY <2>1, <2>2, <2>4, <2>5 DEF ReadsAgain
  <2> QED BY <2>5, <2>6 DEF CommandInv, Understands
<1> QED BY <1>1, <1>2, <1>3, <1>4, <1>5, <1>6, <1>7, <1>8, <1>9, <1>10, <1>11, <1>12
        DEF CommandNext

-----------------------------------------------------------------------------
(* The elevated launcher                                                   *)

\* The command o with the values at P, which it has from the other, read so far.
Halfway(o, P) ==
  /\ asked = <<o, SaysLog(o, P)>> /\ ~o.marker /\ Says(o, P)
  /\ argv = Append(o.forwarded, <<RelaunchFlag>>)
  /\ pc = "read" /\ log = SaysLog(o, P)
  /\ \/ /\ at \in (1 .. Len(o.forwarded) + 1) \ P /\ ~opt.marker
        /\ Told(o.forwarded, P, at - 1, opt)
     \/ /\ at = Len(o.forwarded) + 2 /\ opt.marker
        /\ Told(o.forwarded, P, Len(o.forwarded), opt)

\* Being halfway is all that the invariant asks for.
LEMMA HalfwayInv ==
  ASSUME NEW o, NEW P, Halfway(o, P)'
  PROVE  CommandInv'
<1>1. asked' = <<o, SaysLog(o, P)>>
  BY DEF Halfway
<1>2. asked'[1] = o /\ asked'[2] = SaysLog(o, P) /\ asked' # NotAsked
  BY <1>1 DEF NotAsked
<1>3. ReadsAgain'
  BY <1>1, <1>2 DEF Halfway, ReadsAgain
<1> QED BY <1>2, <1>3 DEF CommandInv, Understands

\* The launcher that reads is halfway.
LEMMA IsHalfway ==
  ASSUME ReadsAgain, asked # NotAsked, pc = "read"
  PROVE  \E o, P : Halfway(o, P)
<1> DEFINE o == asked[1]
<1>1. PICK P :
        /\ Says(o, P) /\ asked[2] = SaysLog(o, P)
        /\ argv = Append(o.forwarded, <<RelaunchFlag>>)
        /\ log = asked[2]
        /\ \/ /\ at \in (1 .. Len(o.forwarded) + 1) \ P /\ ~opt.marker
              /\ Told(o.forwarded, P, at - 1, opt)
           \/ /\ at = Len(o.forwarded) + 2 /\ opt.marker
              /\ Told(o.forwarded, P, Len(o.forwarded), opt)
  BY DEF ReadsAgain
<1>2. asked = <<o, asked[2]>> /\ ~o.marker
  BY DEF ReadsAgain
<1> HIDE DEF o
<1>3. Halfway(o, P)
  BY <1>1, <1>2 DEF Halfway
<1> QED BY <1>3

\* What the word at i gives was not given before.
GivenOnce(F, P, i) ==
  \A S \in {GameFlags, Actions, {"--game"}, {"--extra"}} :
    (\E g \in S : F[i] = <<g>>) => ~Has(F, P, i - 1, S)

\* Nothing is given twice.
LEMMA NotTwice ==
  ASSUME NEW F, NEW P, WellFormed(F, P), NEW i \in (1 .. Len(F)) \ P
  PROVE  GivenOnce(F, P, i)
<1> SUFFICES ASSUME NEW S \in {GameFlags, Actions, {"--game"}, {"--extra"}},
                    NEW g \in S, F[i] = <<g>>,
                    NEW j \in (1 .. i - 1) \ P, NEW h \in S, F[j] = <<h>>
             PROVE  FALSE
  BY DEF GivenOnce, Has
<1>1. Len(F) \in Nat
  BY DEF WellFormed
<1>2. j \in (1 .. Len(F)) \ P /\ j # i
  BY <1>1
<1> QED BY <1>2 DEF WellFormed

\* Before a value there is its option.
LEMMA BeforeValue ==
  ASSUME NEW F, NEW P, WellFormed(F, P), NEW i \in P
  PROVE  i - 1 \notin P /\ \E f \in Valued : F[i - 1] = <<f>>
BY DEF WellFormed

\* The word it is at: a flag of the command, which is not given twice, or the
\* marker at the end.
LEMMA AtWord ==
  ASSUME NEW o, NEW P, Halfway(o, P), Reading
  PROVE  /\ at \in (1 .. Len(o.forwarded) + 1) \ P /\ ~opt.marker
         /\ Told(o.forwarded, P, at - 1, opt) /\ opt \in Options
         /\ WellFormed(o.forwarded, P) /\ Len(o.forwarded) \in Nat
         /\ o.forwarded \in Seq(Argument)
         /\ Len(argv) = Len(o.forwarded) + 1
         /\ \/ /\ at \in (1 .. Len(o.forwarded)) \ P /\ argv[at] = o.forwarded[at]
               /\ \E f \in ForwardedFlags : IsFlag(f)
            \/ at = Len(o.forwarded) + 1 /\ IsFlag(RelaunchFlag)
<1> DEFINE F == o.forwarded
           n == Len(F)
<1>1. WellFormed(F, P) /\ F \in Seq(Argument) /\ n \in Nat
  <2>1. WellFormed(F, P)
    BY DEF Halfway, Says
  <2> HIDE DEF F
  <2>2. F \in Seq(Argument)
    BY <2>1 DEF WellFormed
  <2> QED BY <2>1, <2>2
<1>2. /\ argv = Append(F, <<RelaunchFlag>>)
      /\ \/ at \in (1 .. n + 1) \ P /\ ~opt.marker /\ Told(F, P, at - 1, opt)
         \/ at = n + 2
  BY DEF Halfway
<1> HIDE DEF F
<1>3. Len(argv) = n + 1 /\ argv[n + 1] = <<RelaunchFlag>> /\ \A i \in 1 .. n : argv[i] = F[i]
  BY <1>1, <1>2
<1>4. at \in (1 .. n + 1) \ P /\ ~opt.marker /\ Told(F, P, at - 1, opt)
  BY <1>1, <1>2, <1>3 DEF Reading
<1>5. opt \in Options
  BY <1>4 DEF Told
<1>6. CASE at = n + 1
  BY <1>1, <1>3, <1>4, <1>5, <1>6 DEF IsFlag, F
<1>7. CASE at # n + 1
  <2>1. at \in (1 .. n) \ P
    BY <1>1, <1>4, <1>7
  <2>2. PICK f \in ForwardedFlags : F[at] = <<f>>
    BY <1>1, <2>1 DEF WellFormed
  <2>3. argv[at] = F[at]
    BY <1>3, <2>1
  <2>4. IsFlag(f)
    BY <2>2, <2>3 DEF IsFlag
  <2> QED BY <1>1, <1>3, <1>4, <1>5, <2>1, <2>3, <2>4 DEF F
<1> QED BY <1>6, <1>7

\* A flag: SelectsGame, TakesAction, TakesLog.
LEMMA AgainTakesFlag ==
  ASSUME NEW o, NEW P, Halfway(o, P), Reading, NEW f, IsFlag(f), NEW p, Took(1, p),
         p = [opt EXCEPT !.kind = p.kind, !.given = p.given,
                         !.forwarded = opt.forwarded \o <<argv[at]>>],
         \/ f \in GameFlags /\ opt.kind = "none" /\ p.kind = f /\ p.given = opt.given
         \/ f \in Actions /\ p.kind = opt.kind /\ p.given = opt.given \cup {"action"}
         \/ f = "--log" /\ p.kind = opt.kind /\ p.given = opt.given
  PROVE  Halfway(o, P)'
<1> DEFINE F == o.forwarded
           n == Len(F)
<1>1. /\ at \in (1 .. n + 1) \ P /\ ~opt.marker
      /\ Told(F, P, at - 1, opt) /\ opt \in Options
      /\ WellFormed(F, P) /\ n \in Nat /\ F \in Seq(Argument)
      /\ \/ /\ at \in (1 .. n) \ P /\ argv[at] = F[at]
         \/ at = n + 1 /\ IsFlag(RelaunchFlag)
  BY AtWord
<1>2. f # RelaunchFlag /\ f \notin Valued
  BY DEF RelaunchFlag, GameFlags, Actions, Valued
<1> HIDE DEF F
<1>3. at \in (1 .. n) \ P /\ F[at] = <<f>> /\ argv[at] = F[at] /\ F[at] \in Argument
  BY <1>1, <1>2, OneFlag DEF IsFlag
<1>4. opt.forwarded \in Seq(Argument)
  BY <1>1 DEF Options
<1>5. /\ p \in Options /\ p.game = opt.game /\ p.extra = opt.extra /\ ~p.marker
      /\ p.forwarded = Append(opt.forwarded, F[at])
  <2>1. opt.forwarded \o <<argv[at]>> = Append(opt.forwarded, F[at])
        /\ Append(opt.forwarded, F[at]) \in Seq(Argument)
    BY <1>3, <1>4
  <2>2. p.kind \in GameFlags \cup {"none"} /\ p.given \in SUBSET {"game", "extra", "action"}
    BY <1>1 DEF Options
  <2> DEFINE new == [opt EXCEPT !.kind = p.kind, !.given = p.given,
                                !.forwarded = Append(opt.forwarded, F[at])]
  <2>3. p = new
    BY <2>1
  <2>4. /\ new \in Options /\ new.game = opt.game /\ new.extra = opt.extra
        /\ new.marker = opt.marker /\ new.forwarded = Append(opt.forwarded, F[at])
    BY <1>1, <2>1, <2>2 DEF Options
  <2> HIDE DEF new
  <2> QED BY <1>1, <2>3, <2>4
<1> DEFINE m == at - 1
<1>6. m \in Nat /\ m < n /\ m + 1 = at /\ at + 1 - 1 = at
  BY <1>1, <1>3
<1> HIDE DEF m, n
<1>7. Told(F, P, m + 1, p)
  <2>1. m + 1 \notin P /\ F[m + 1] = <<f>> /\ p.forwarded = Append(opt.forwarded, F[m + 1])
    BY <1>3, <1>5, <1>6
  <2>2. Told(F, P, m, opt)
    BY <1>1 DEF m
  <2> QED BY <1>1, <1>5, <1>6, <2>1, <2>2, ToldFlag DEF n
<1>8. at + 1 \in (1 .. n + 1) \ P
  <2>1. at + 1 \notin P
    <3>1. SUFFICES ASSUME at + 1 \in P PROVE FALSE
      OBVIOUS
    <3>2. PICK g \in Valued : F[at] = <<g>>
      <4> DEFINE j == at + 1
      <4>1. j \in P /\ j - 1 = at
        BY <1>6, <3>1
      <4> HIDE DEF j
      <4>2. \E g \in Valued : F[j - 1] = <<g>>
        BY <1>1, <4>1, BeforeValue
      <4> QED BY <4>1, <4>2
    <3> QED BY <1>2, <1>3, <3>2, OneFlag
  <2> QED BY <1>1, <1>3, <2>1
<1>9. /\ at' = at + 1 /\ opt' = p /\ pc' = pc /\ argv' = argv /\ log' = log /\ asked' = asked
  BY DEF Took
<1>10. at' \in (1 .. n + 1) \ P /\ ~opt'.marker /\ Told(F, P, at' - 1, opt')
  BY <1>5, <1>6, <1>7, <1>8, <1>9
<1> QED BY <1>9, <1>10 DEF Halfway, F, n

\* An option and its value: TakesPath, TakesExtra.
LEMMA AgainTakesValue ==
  ASSUME NEW o, NEW P, Halfway(o, P), Reading, NEW v, NEW p, Took(2, p),
         p = [opt EXCEPT !.game = p.game, !.extra = p.extra, !.given = p.given,
                         !.forwarded = opt.forwarded \o <<argv[at], v>>],
         \/ /\ IsFlag("--game") /\ "game" \notin opt.given /\ v = Canonical(argv[at + 1])
            /\ p.given = opt.given \cup {"game"} /\ p.game = v /\ p.extra = opt.extra
         \/ /\ IsFlag("--extra") /\ "extra" \notin opt.given /\ v = argv[at + 1]
            /\ p.given = opt.given \cup {"extra"} /\ p.extra = v /\ p.game = opt.game
  PROVE  Halfway(o, P)'
<1> DEFINE F == o.forwarded
           n == Len(F)
<1>1. /\ at \in (1 .. n + 1) \ P /\ ~opt.marker
      /\ Told(F, P, at - 1, opt) /\ opt \in Options
      /\ WellFormed(F, P) /\ n \in Nat /\ F \in Seq(Argument) /\ P \subseteq 1 .. n
      /\ \/ /\ at \in (1 .. n) \ P /\ argv[at] = F[at]
         \/ at = n + 1 /\ IsFlag(RelaunchFlag)
  <2>1. WellFormed(F, P)
    BY AtWord
  <2>2. P \subseteq 1 .. n
    <3> HIDE DEF F
    <3> QED BY <2>1 DEF WellFormed
  <2> QED BY <2>2, AtWord
<1>2. argv = Append(F, <<RelaunchFlag>>)
  BY DEF Halfway
<1> HIDE DEF F
<1>3. PICK f \in Valued : argv[at] = <<f>>
  BY DEF Valued, IsFlag
<1>4. at \in (1 .. n) \ P /\ F[at] = <<f>> /\ argv[at] = F[at] /\ F[at] \in Argument
  <2>1. f # RelaunchFlag
    BY DEF RelaunchFlag, Valued
  <2> QED BY <1>1, <1>3, <2>1, OneFlag DEF IsFlag
<1>5. at + 1 \in P /\ at + 1 \in 1 .. n
  BY <1>1, <1>4 DEF WellFormed
<1>6. argv[at + 1] = F[at + 1] /\ F[at + 1] \in Argument
  BY <1>1, <1>2, <1>5
<1>7. v = F[at + 1]
  <2>1. CASE IsFlag("--game") /\ v = Canonical(argv[at + 1])
    <3>1. F[at] = <<"--game">>
      BY <1>4, <2>1 DEF IsFlag
    <3>2. Canonical(F[at + 1]) = F[at + 1]
      BY <1>1, <1>4, <3>1 DEF WellFormed
    <3> QED BY <1>6, <2>1, <3>2
  <2>2. CASE v = argv[at + 1]
    BY <1>6, <2>2
  <2> QED BY <2>1, <2>2
<1>8. opt.forwarded \in Seq(Argument)
  BY <1>1 DEF Options
<1>9. /\ p \in Options /\ p.kind = opt.kind /\ ~p.marker
      /\ p.forwarded = opt.forwarded \o <<F[at], F[at + 1]>>
  <2>1. opt.forwarded \o <<F[at], F[at + 1]>> \in Seq(Argument)
    BY <1>4, <1>6, <1>8
  <2>2. p.game \in Argument /\ p.extra \in Argument
        /\ p.given \in SUBSET {"game", "extra", "action"}
    BY <1>1, <1>6, <1>7 DEF Options
  <2> DEFINE new == [opt EXCEPT !.game = p.game, !.extra = p.extra, !.given = p.given,
                                !.forwarded = opt.forwarded \o <<F[at], F[at + 1]>>]
  <2>3. p = new
    BY <1>4, <1>7
  <2>4. /\ new \in Options /\ new.kind = opt.kind /\ new.marker = opt.marker
        /\ new.forwarded = opt.forwarded \o <<F[at], F[at + 1]>>
    BY <1>1, <2>1, <2>2 DEF Options
  <2> HIDE DEF new
  <2> QED BY <1>1, <2>3, <2>4
<1> DEFINE m == at - 1
<1>10. m \in Nat /\ m + 1 < n + 1 /\ m + 1 = at /\ m + 2 = at + 1 /\ at + 2 - 1 = at + 1
       /\ at + 1 <= n
  BY <1>1, <1>4, <1>5
<1> HIDE DEF m, n
<1>11. Told(F, P, m + 2, p)
  <2>1. /\ m + 1 \notin P /\ m + 2 \in P /\ m + 1 < n
        /\ p.forwarded = opt.forwarded \o <<F[m + 1], F[m + 2]>>
    <3>1. F[m + 1] = F[at] /\ F[m + 2] = F[at + 1]
      BY <1>10
    <3>2. m + 1 \notin P /\ m + 2 \in P
      BY <1>4, <1>5, <1>10
    <3>3. m + 1 < n
      BY <1>1, <1>4, <1>5, <1>10
    <3> QED BY <1>9, <3>1, <3>2, <3>3
  <2>2. Told(F, P, m, opt)
    BY <1>1 DEF m
  <2>3. \/ /\ F[m + 1] = <<"--game">> /\ "game" \notin opt.given
           /\ p.given = opt.given \cup {"game"} /\ p.game = F[m + 2] /\ p.extra = opt.extra
        \/ /\ F[m + 1] = <<"--extra">> /\ "extra" \notin opt.given
           /\ p.given = opt.given \cup {"extra"} /\ p.extra = F[m + 2] /\ p.game = opt.game
    BY <1>4, <1>7, <1>10 DEF IsFlag
  <2> QED BY <1>1, <1>9, <1>10, <2>1, <2>2, <2>3, ToldValue DEF n
<1>12. at + 2 \in (1 .. n + 1) \ P
  <2>1. at + 2 \notin P
    <3>1. SUFFICES ASSUME at + 2 \in P PROVE FALSE
      OBVIOUS
    <3>2. at + 1 \notin P
      <4> DEFINE j == at + 2
      <4>1. j \in P /\ j - 1 = at + 1
        BY <1>10, <3>1
      <4> HIDE DEF j
      <4>2. j - 1 \notin P
        BY <1>1, <4>1, BeforeValue
      <4> QED BY <4>1, <4>2
    <3> QED BY <1>5, <3>2
  <2> QED BY <1>1, <1>10, <2>1
<1>13. /\ at' = at + 2 /\ opt' = p /\ pc' = pc /\ argv' = argv /\ log' = log /\ asked' = asked
  BY DEF Took
<1>14. at' \in (1 .. n + 1) \ P /\ ~opt'.marker /\ Told(F, P, at' - 1, opt')
  BY <1>9, <1>10, <1>11, <1>12, <1>13
<1> QED BY <1>13, <1>14 DEF Halfway, F, n

\* A word of a forwarded command is never refused.
LEMMA AgainRefuses ==
  ASSUME NEW o, NEW P, Halfway(o, P), Refuses
  PROVE  FALSE
<1> DEFINE F == o.forwarded
           n == Len(F)
<1>1. /\ Reading
      /\ \/ IsFlag(RelaunchFlag) /\ opt.marker
         \/ (\E k \in GameFlags : IsFlag(k)) /\ opt.kind # "none"
         \/ IsFlag("--game") /\ (at = Len(argv) \/ "game" \in opt.given)
         \/ IsFlag("--extra") /\ (at = Len(argv) \/ "extra" \in opt.given)
         \/ (\E a \in Actions : IsFlag(a)) /\ "action" \in opt.given
         \/ \A f \in GameFlags \cup Helps \cup Actions \cup Valued
                      \cup {RelaunchFlag, "--log"} : ~IsFlag(f)
  BY DEF Refuses
<1>2. /\ at \in (1 .. n + 1) \ P /\ ~opt.marker
      /\ Told(F, P, at - 1, opt) /\ opt \in Options
      /\ WellFormed(F, P) /\ n \in Nat /\ Len(argv) = n + 1
      /\ \/ /\ at \in (1 .. n) \ P /\ argv[at] = F[at]
            /\ \E f \in ForwardedFlags : IsFlag(f)
         \/ at = n + 1 /\ IsFlag(RelaunchFlag)
  BY <1>1, AtWord
<1> HIDE DEF F
<1>3. CASE IsFlag(RelaunchFlag)
  <2>1. \A f \in GameFlags \cup Actions \cup Valued : ~IsFlag(f)
    BY <1>3, OneFlag DEF IsFlag, RelaunchFlag, GameFlags, Actions, Valued
  <2> QED BY <1>1, <1>2, <1>3, <2>1 DEF Valued
<1>4. CASE ~IsFlag(RelaunchFlag)
  <2>1. at \in (1 .. n) \ P /\ argv[at] = F[at] /\ at # Len(argv)
    BY <1>2, <1>4
  <2>2. PICK f \in ForwardedFlags : IsFlag(f)
    BY <1>2, <1>4
  <2>3. \A S \in {GameFlags, Actions, {"--game"}, {"--extra"}} :
          (\E g \in S : IsFlag(g)) => ~Has(F, P, at - 1, S)
    <3>1. at \in (1 .. Len(F)) \ P /\ WellFormed(F, P)
      BY <1>2, <2>1
    <3>2. GivenOnce(F, P, at)
      <4> HIDE DEF n
      <4> QED BY <3>1, NotTwice
    <3> QED BY <2>1, <3>2 DEF IsFlag, GivenOnce
  <2>4. CASE (\E k \in GameFlags : IsFlag(k)) /\ opt.kind # "none"
    <3>1. ~Has(F, P, at - 1, GameFlags)
      BY <2>3, <2>4
    <3>2. opt.kind \in GameFlags
      BY <1>2, <2>4 DEF Options
    <3>3. Has(F, P, at - 1, {opt.kind})
      BY <1>2, <3>2 DEF Told
    <3> QED BY <3>1, <3>2, <3>3 DEF Has
  <2>5. CASE IsFlag("--game") /\ (at = Len(argv) \/ "game" \in opt.given)
    <3>1. ~Has(F, P, at - 1, {"--game"})
      BY <2>3, <2>5
    <3> QED BY <1>2, <2>1, <2>5, <3>1 DEF Told
  <2>6. CASE IsFlag("--extra") /\ (at = Len(argv) \/ "extra" \in opt.given)
    <3>1. ~Has(F, P, at - 1, {"--extra"})
      BY <2>3, <2>6
    <3> QED BY <1>2, <2>1, <2>6, <3>1 DEF Told
  <2>7. CASE (\E a \in Actions : IsFlag(a)) /\ "action" \in opt.given
    <3>1. ~Has(F, P, at - 1, Actions)
      BY <2>3, <2>7
    <3> QED BY <1>2, <2>7, <3>1 DEF Told
  <2>8. ~(\A g \in GameFlags \cup Helps \cup Actions \cup Valued
                    \cup {RelaunchFlag, "--log"} : ~IsFlag(g))
    BY <2>2 DEF ForwardedFlags
  <2> QED BY <1>1, <1>4, <2>4, <2>5, <2>6, <2>7, <2>8
<1> QED BY <1>3, <1>4

\* The marker is the last word.
LEMMA AgainTakesMarker ==
  ASSUME NEW o, NEW P, Halfway(o, P), TakesMarker
  PROVE  Halfway(o, P)'
<1> DEFINE F == o.forwarded
           n == Len(F)
           p == [opt EXCEPT !.marker = TRUE]
<1>1. Reading /\ IsFlag(RelaunchFlag) /\ Took(1, p)
  BY DEF TakesMarker
<1>2. /\ Told(F, P, at - 1, opt) /\ opt \in Options /\ n \in Nat
      /\ \/ \E f \in ForwardedFlags : IsFlag(f)
         \/ at = n + 1
  BY <1>1, AtWord
<1> HIDE DEF F
<1>3. \A f \in ForwardedFlags : ~IsFlag(f)
  BY <1>1, OneFlag
    DEF IsFlag, RelaunchFlag, ForwardedFlags, GameFlags, Actions, Valued
<1>4. at = n + 1 /\ at + 1 = n + 2 /\ at - 1 = n
  BY <1>2, <1>3
<1>5. Told(F, P, n, p) /\ p.marker
  BY <1>2, <1>4, ToldMarker DEF Options
<1> HIDE DEF p
<1>6. /\ at' = n + 2 /\ opt' = p /\ pc' = pc /\ argv' = argv /\ log' = log /\ asked' = asked
  BY <1>1, <1>4 DEF Took
<1>7. at' = n + 2 /\ opt'.marker /\ Told(F, P, n, opt')
  BY <1>5, <1>6
<1> QED BY <1>6, <1>7 DEF Halfway, F

\* It reads its words to the end.
LEMMA AgainReads ==
  ASSUME NEW o, NEW P, Halfway(o, P),
         \/ AsksHelp \/ TakesMarker \/ SelectsGame \/ TakesPath \/ TakesExtra
         \/ TakesAction \/ TakesLog \/ Refuses
  PROVE  Halfway(o, P)'
<1>1. ASSUME Reading
      PROVE  opt \in Options /\ argv[at] \in Argument
  <2>1. opt \in Options
    BY <1>1, AtWord
  <2>2. o.forwarded \in Seq(Argument) /\ argv = Append(o.forwarded, <<RelaunchFlag>>)
        /\ at \in 1 .. Len(o.forwarded) + 1
    BY <1>1, AtWord DEF Halfway
  <2>3. <<RelaunchFlag>> \in Argument
    BY DEF Argument, Letters
  <2> QED BY <2>1, <2>2, <2>3
<1>2. CASE AsksHelp
  <2>1. Reading /\ \E h \in Helps : IsFlag(h)
    BY <1>2 DEF AsksHelp
  <2>2. \E f \in ForwardedFlags \cup {RelaunchFlag} : IsFlag(f)
    BY <2>1, AtWord
  <2>3. \A h \in Helps, f \in ForwardedFlags \cup {RelaunchFlag} : h # f
    BY DEF Helps, ForwardedFlags, RelaunchFlag, GameFlags, Actions, Valued
  <2> QED BY <2>1, <2>2, <2>3, OneFlag DEF IsFlag
<1>3. CASE TakesMarker
  BY <1>3, AgainTakesMarker
<1>4. CASE SelectsGame
  <2>1. Reading /\ opt.kind = "none"
    BY <1>4 DEF SelectsGame
  <2>2. PICK k \in GameFlags :
          IsFlag(k) /\ Took(1, [opt EXCEPT !.kind = k, !.forwarded = Forward(<<argv[at]>>)])
    BY <1>4 DEF SelectsGame
  <2> DEFINE p == [opt EXCEPT !.kind = k, !.forwarded = Forward(<<argv[at]>>)]
  <2>3. /\ p.kind = k /\ p.given = opt.given
        /\ p = [opt EXCEPT !.kind = p.kind, !.given = p.given,
                           !.forwarded = opt.forwarded \o <<argv[at]>>]
    BY <1>1, <2>1 DEF Options, Forward
  <2>4. Took(1, p)
    BY <2>2
  <2> HIDE DEF p
  <2> QED BY <2>1, <2>2, <2>3, <2>4, AgainTakesFlag
<1>5. CASE TakesPath
  <2> DEFINE v == Canonical(argv[at + 1])
             p == [opt EXCEPT !.game = v, !.given = @ \cup {"game"},
                              !.forwarded = Forward(<<argv[at], v>>)]
  <2>1. Reading /\ IsFlag("--game") /\ "game" \notin opt.given /\ Took(2, p)
    BY <1>5 DEF TakesPath
  <2>2. v = Canonical(argv[at + 1])
    OBVIOUS
  <2> HIDE DEF v
  <2>3. /\ p.game = v /\ p.extra = opt.extra /\ p.given = opt.given \cup {"game"}
        /\ p = [opt EXCEPT !.game = p.game, !.extra = p.extra, !.given = p.given,
                           !.forwarded = opt.forwarded \o <<argv[at], v>>]
    BY <1>1, <2>1 DEF Options, Forward
  <2> HIDE DEF p
  <2> QED BY <2>1, <2>2, <2>3, AgainTakesValue
<1>6. CASE TakesExtra
  <2> DEFINE v == argv[at + 1]
             p == [opt EXCEPT !.extra = v, !.given = @ \cup {"extra"},
                              !.forwarded = Forward(<<argv[at], v>>)]
  <2>1. Reading /\ IsFlag("--extra") /\ "extra" \notin opt.given /\ Took(2, p)
    BY <1>6 DEF TakesExtra
  <2>2. v = argv[at + 1]
    OBVIOUS
  <2> HIDE DEF v
  <2>3. /\ p.extra = v /\ p.game = opt.game /\ p.given = opt.given \cup {"extra"}
        /\ p = [opt EXCEPT !.game = p.game, !.extra = p.extra, !.given = p.given,
                           !.forwarded = opt.forwarded \o <<argv[at], v>>]
    BY <1>1, <2>1 DEF Options, Forward
  <2> HIDE DEF p
  <2> QED BY <2>1, <2>2, <2>3, AgainTakesValue
<1>7. CASE TakesAction
  <2> DEFINE p == [opt EXCEPT !.given = @ \cup {"action"},
                              !.forwarded = Forward(<<argv[at]>>)]
  <2>1. Reading /\ Took(1, p)
    BY <1>7 DEF TakesAction
  <2>2. PICK f \in Actions : IsFlag(f)
    BY <1>7 DEF TakesAction
  <2>3. /\ p.kind = opt.kind /\ p.given = opt.given \cup {"action"}
        /\ p = [opt EXCEPT !.kind = p.kind, !.given = p.given,
                           !.forwarded = opt.forwarded \o <<argv[at]>>]
    BY <1>1, <2>1 DEF Options, Forward
  <2> HIDE DEF p
  <2> QED BY <2>1, <2>2, <2>3, AgainTakesFlag
<1>8. CASE TakesLog
  <2> DEFINE p == [opt EXCEPT !.forwarded = Forward(<<argv[at]>>)]
  <2>1. Reading /\ IsFlag("--log") /\ Took(1, p)
    BY <1>8 DEF TakesLog
  <2>2. /\ p.kind = opt.kind /\ p.given = opt.given
        /\ p = [opt EXCEPT !.kind = p.kind, !.given = p.given,
                           !.forwarded = opt.forwarded \o <<argv[at]>>]
    BY <1>1, <2>1 DEF Options, Forward
  <2> HIDE DEF p
  <2> QED BY <2>1, <2>2, AgainTakesFlag
<1>9. CASE Refuses
  BY <1>9, AgainRefuses
<1> QED BY <1>2, <1>3, <1>4, <1>5, <1>6, <1>7, <1>8, <1>9

\* The elevated launcher comes to the command of the other.
LEMMA SecondStep ==
  ASSUME ReadsAgain, asked # NotAsked, CommandNext
  PROVE  CommandInv'
<1> DEFINE o == asked[1]
           known == [o EXCEPT !.marker = TRUE]
<1>1. asked = <<o, asked[2]>> /\ ~o.marker
  BY DEF ReadsAgain
<1>2. PICK P :
        /\ Says(o, P) /\ asked[2] = SaysLog(o, P)
        /\ pc \in {"scan", "read"} => argv = Append(o.forwarded, <<RelaunchFlag>>)
        /\ pc = "scan" => at = 1 /\ opt = NothingRead
        /\ pc \notin {"scan", "read"} => opt = known /\ log = asked[2]
  BY DEF ReadsAgain
<1>3. o \in Options /\ WellFormed(o.forwarded, P) /\ o.forwarded \in Seq(Argument)
  BY <1>2 DEF Says, Told, WellFormed
<1>4. ASSUME UNCHANGED asked, pc' \notin {"scan", "read"}, opt' = known, log' = asked[2]
      PROVE  CommandInv'
  <2>1. asked'[1] = o /\ asked'[2] = asked[2] /\ asked' # NotAsked
    BY <1>4
  <2>2. asked' = <<o, asked'[2]>>
    BY <1>1, <1>4
  <2> HIDE DEF o, known
  <2>3. ReadsAgain'
    BY <1>1, <1>2, <1>4, <2>1, <2>2 DEF ReadsAgain, known
  <2> QED BY <2>1, <2>3 DEF CommandInv, Understands
<1> HIDE DEF o, known
<1>5. CASE ScanForLog
  <2>1. /\ pc = "scan" /\ pc' = "read" /\ log' = Scanning(argv)[Len(argv)].log
        /\ argv' = argv /\ at' = at /\ opt' = opt /\ asked' = asked
    BY <1>5 DEF ScanForLog
  <2>2. argv = Append(o.forwarded, <<RelaunchFlag>>) /\ at = 1 /\ opt = NothingRead
    BY <1>2, <2>1
  <2>3. log' = SaysLog(o, P)
    BY <1>3, <2>1, <2>2, ScanRelaunched DEF SaysLog
  <2>4. at \in (1 .. Len(o.forwarded) + 1) \ P
    <3>1. 1 \notin P
      BY <1>3 DEF WellFormed
    <3> QED BY <1>3, <2>2, <3>1
  <2>5. Told(o.forwarded, P, at - 1, opt) /\ ~opt.marker
    <3>1. 1 - 1 = 0 /\ ~NothingRead.marker
      BY DEF NothingRead
    <3> QED BY <1>3, <2>2, <3>1, ToldNothing
  <2>6. PICK c : c = o
    OBVIOUS
  <2>7. Halfway(c, P)'
    BY <1>1, <1>2, <2>1, <2>2, <2>3, <2>4, <2>5, <2>6 DEF Halfway
  <2> QED BY <2>7, HalfwayInv
<1>6. CASE pc = "read"
  <2>1. PICK q, Q : Halfway(q, Q)
    BY <1>6, IsHalfway
  <2>2. CASE \/ AsksHelp \/ TakesMarker \/ SelectsGame \/ TakesPath \/ TakesExtra
             \/ TakesAction \/ TakesLog \/ Refuses
    BY <2>1, <2>2, AgainReads, HalfwayInv
  <2>3. CASE Validates
    <3>1. /\ asked = <<q, SaysLog(q, Q)>> /\ ~q.marker /\ Says(q, Q)
          /\ argv = Append(q.forwarded, <<RelaunchFlag>>) /\ log = SaysLog(q, Q)
          /\ \/ at \in 1 .. Len(q.forwarded) + 1
             \/ opt.marker /\ Told(q.forwarded, Q, Len(q.forwarded), opt)
      BY <2>1 DEF Halfway
    <3>2. q = o
      BY <1>1, <3>1
    <3>3. Len(argv) = Len(o.forwarded) + 1 /\ Len(o.forwarded) \in Nat
      BY <1>3, <3>1, <3>2
    <3>4. at > Len(argv)
      BY <2>3 DEF Validates
    <3>5. opt.marker /\ Told(o.forwarded, Q, Len(o.forwarded), opt)
      BY <3>1, <3>2, <3>3, <3>4
    <3>6. Told(o.forwarded, Q, Len(o.forwarded), o)
      BY <3>1, <3>2 DEF Says
    <3>7. /\ opt.kind = o.kind /\ opt.given = o.given /\ opt.forwarded = o.forwarded
          /\ opt.game = o.game /\ opt.extra = o.extra
      BY <3>5, <3>6, ToldOnce
    <3>8. opt \in Options
      BY <3>5 DEF Told
    <3>9. opt = known
      BY <1>3, <3>5, <3>7, <3>8 DEF Options, known
    <3>10. log = asked[2]
      BY <3>1
    <3>11. UNCHANGED <<opt, log, asked>> /\ pc' \notin {"scan", "read"}
      BY <2>3 DEF Validates, Stop
    <3> QED BY <1>4, <3>9, <3>10, <3>11
  <2> QED BY <1>6, <2>2, <2>3
        DEF CommandNext, ScanForLog, HasRights, GivesUp, Canceled, Relaunches
<1>7. CASE HasRights \/ GivesUp \/ Canceled
  <2>1. pc = "elevation" /\ UNCHANGED <<opt, log, asked>> /\ pc' \notin {"scan", "read"}
    BY <1>7 DEF HasRights, GivesUp, Canceled, Stop
  <2> QED BY <1>2, <1>4, <2>1
<1>8. CASE Relaunches
  <2>1. pc = "elevation" /\ ~opt.marker
    BY <1>8 DEF Relaunches
  <2>2. opt = known
    BY <1>2, <2>1
  <2> QED BY <1>3, <2>1, <2>2 DEF known, Options
<1> QED BY <1>5, <1>6, <1>7, <1>8
      DEF CommandNext, AsksHelp, TakesMarker, SelectsGame, TakesPath, TakesExtra,
          TakesAction, TakesLog, Refuses, Validates, Reading

\* A launcher starts with a command that the user may give.
LEMMA CommandStart == Init => CommandInv
<1>1. ASSUME CommandInit PROVE CommandInv
  <2>1. Seq(Seq(STRING)) \subseteq Seq(Argument)
    <3>1. STRING \subseteq Letters
      BY DEF Letters
    <3>2. Seq(STRING) \subseteq Argument
      <4> SUFFICES ASSUME NEW s \in Seq(STRING) PROVE s \in Seq(Letters)
        BY DEF Argument
      <4> QED BY <3>1, SeqMonotonic
    <3> HIDE DEF Argument
    <3> QED BY <3>2
  <2>2. argv \in Seq(Argument)
    BY <1>1, <2>1, CommandsAssumption DEF CommandInit
  <2>3. 1 \in 1 .. Len(argv) + 1
    BY <2>2
  <2> QED BY <1>1, <2>2, <2>3 DEF CommandInit, CommandInv, Understands, ReadsAgain
<1>2. ASSUME argv = <<>> /\ at = 1 /\ pc = "launch" /\ asked = NotAsked
      PROVE  CommandInv
  BY <1>2 DEF CommandInv, Understands, ReadsAgain
<1> QED BY <1>1, <1>2 DEF Init

\* Both launchers keep what has to be known about their words.
LEMMA CommandStep == CommandInv /\ [Next]_vars => CommandInv'
<1> SUFFICES ASSUME CommandInv, [Next]_vars PROVE CommandInv'
  OBVIOUS
<1>1. CASE CommandNext
  BY <1>1, FirstStep, SecondStep DEF CommandInv
<1>2. CASE UNCHANGED commandVars
  BY <1>2 DEF commandVars, CommandInv, Understands, ReadsAgain
<1> QED BY <1>1, <1>2 DEF Next, vars

\* At every moment the started launcher can forward what it has read, and the
\* elevated one has read it as it was meant (wmain, elevation.hpp).
THEOREM CommandInvariance == Spec => []CommandInv
BY CommandStart, CommandStep, PTL DEF Spec

\* The elevated launcher understands exactly the command that the user gave,
\* whatever words, paths and texts it consists of.
THEOREM CommandSurvivesRelaunch == Spec => []RelaunchKeepsTheCommand
<1>1. CommandInv => RelaunchKeepsTheCommand
  BY DEF CommandInv, ReadsAgain, RelaunchKeepsTheCommand
<1> QED BY <1>1, CommandInvariance, PTL

-----------------------------------------------------------------------------
(* Largest and smallest numbers                                            *)

\* A set of numbers has a smallest one.
LEMMA MinIs ==
  ASSUME NEW S, S \subseteq Nat, S # {}
  PROVE  Min(S) \in S /\ \A x \in S : Min(S) <= x
<1>1. PICK y \in S : TRUE
  OBVIOUS
<1>2. \E x \in S : \A z \in S : x <= z
  <2>1. SUFFICES ASSUME \A x \in S : \E z \in S : ~(x <= z) PROVE FALSE
    OBVIOUS
  <2> DEFINE T == {n \in Nat : \A x \in S : n <= x}
  <2>2. 0 \in T
    OBVIOUS
  <2>3. ASSUME NEW n \in Nat, n \in T PROVE n + 1 \in T
    <3>1. ASSUME NEW x \in S PROVE n + 1 <= x
      <4>1. PICK z \in S : ~(x <= z)
        BY <2>1
      <4>2. n <= z /\ x \in Nat /\ z \in Nat
        BY <2>3
      <4> QED BY <4>1, <4>2
    <3> QED BY <3>1
  <2>4. \A n \in Nat : n \in T
    <3> HIDE DEF T
    <3> QED BY <2>2, <2>3, SetInduction
  <2>5. y \in Nat /\ y + 1 \in T
    BY <2>4
  <2> QED BY <2>5
<1> QED BY <1>2 DEF Min

\* A set of numbers under a bound has a largest one.
LEMMA MaxIs ==
  ASSUME NEW m \in Nat, NEW S, S \subseteq 0 .. m, S # {}
  PROVE  Max(S) \in S /\ \A x \in S : x <= Max(S)
<1> DEFINE R == {m - x : x \in S}
<1>1. R \subseteq Nat /\ R # {}
  <2>1. ASSUME NEW z \in R PROVE z \in Nat
    <3>1. PICK x \in S : z = m - x
      BY <2>1
    <3>2. x \in 0 .. m
      OBVIOUS
    <3> QED BY <3>1, <3>2
  <2>2. R # {}
    OBVIOUS
  <2> QED BY <2>1, <2>2
<1>2. Min(R) \in R /\ \A z \in R : Min(R) <= z
  <2> HIDE DEF R
  <2> QED BY <1>1, MinIs
<1>3. PICK y \in S : Min(R) = m - y
  BY <1>2
<1>4. \A x \in S : m - x \in R
  OBVIOUS
<1>5. \A x \in S : x <= y
  <2> SUFFICES ASSUME NEW x \in S PROVE x <= y
    OBVIOUS
  <2>1. m - y <= m - x
    BY <1>2, <1>3, <1>4
  <2> QED BY <2>1
<1>6. \A x \in S : y >= x
  BY <1>5
<1>7. Max(S) \in S /\ \A x \in S : Max(S) >= x
  BY <1>6 DEF Max
<1> QED BY <1>7

-----------------------------------------------------------------------------
(* Lists without repetition                                                *)

\* The sequence q has each element of S once and no other.
Lists(q, S) ==
  /\ q \in Seq(Nat)
  /\ \A x : x \in S <=> \E i \in 1 .. Len(q) : q[i] = x
  /\ \A i, j \in 1 .. Len(q) : q[i] = q[j] => i = j

\* Nothing is listed by the empty sequence.
LEMMA ListsNone == Lists(<<>>, {})
BY DEF Lists

\* One thing is listed by itself.
LEMMA ListsOne == ASSUME NEW x \in Nat PROVE Lists(<<x>>, {x})
BY DEF Lists

\* Two lists of different things make one.
LEMMA ListsBoth ==
  ASSUME NEW q, NEW r, NEW S, NEW T, Lists(q, S), Lists(r, T), S \cap T = {}
  PROVE  Lists(q \o r, S \cup T)
<1> DEFINE m == Len(q)
           n == Len(r)
           b == q \o r
<1>1. q \in Seq(Nat) /\ r \in Seq(Nat) /\ m \in Nat /\ n \in Nat
  BY DEF Lists
<1>2. /\ b \in Seq(Nat) /\ Len(b) = m + n
      /\ \A i \in 1 .. m + n : b[i] = IF i <= m THEN q[i] ELSE r[i - m]
  BY <1>1, ConcatProperties
<1>3. /\ \A x : x \in S <=> \E i \in 1 .. m : q[i] = x
      /\ \A i, j \in 1 .. m : q[i] = q[j] => i = j
      /\ \A x : x \in T <=> \E i \in 1 .. n : r[i] = x
      /\ \A i, j \in 1 .. n : r[i] = r[j] => i = j
  BY DEF Lists
<1> HIDE DEF b, m, n
<1>4. \A i \in 1 .. m : i \in 1 .. m + n /\ b[i] = q[i]
  BY <1>1, <1>2
<1>5. \A i \in 1 .. n : i + m \in 1 .. m + n /\ b[i + m] = r[i]
  BY <1>1, <1>2
<1>6. ASSUME NEW i \in 1 .. m + n
      PROVE  \/ i \in 1 .. m /\ b[i] = q[i]
             \/ i - m \in 1 .. n /\ b[i] = r[i - m]
  <2>1. CASE i <= m
    <3>1. i \in 1 .. m
      BY <1>1, <2>1
    <3> QED BY <1>4, <3>1
  <2>2. CASE ~(i <= m)
    BY <1>1, <1>2, <2>2
  <2> QED BY <2>1, <2>2
<1>7. ASSUME NEW x PROVE x \in S \cup T <=> \E i \in 1 .. m + n : b[i] = x
  <2>1. ASSUME x \in S PROVE \E i \in 1 .. m + n : b[i] = x
    BY <1>3, <1>4, <2>1
  <2>2. ASSUME x \in T PROVE \E i \in 1 .. m + n : b[i] = x
    BY <1>3, <1>5, <2>2
  <2>3. ASSUME NEW i \in 1 .. m + n, b[i] = x PROVE x \in S \cup T
    BY <1>3, <1>6, <2>3
  <2> QED BY <2>1, <2>2, <2>3
<1>8. ASSUME NEW i \in 1 .. m + n, NEW j \in 1 .. m + n, b[i] = b[j] PROVE i = j
  <2>1. CASE i \in 1 .. m /\ j \in 1 .. m
    BY <1>3, <1>4, <1>8, <2>1
  <2>2. CASE i - m \in 1 .. n /\ j - m \in 1 .. n
    <3>1. b[i] = r[i - m] /\ b[j] = r[j - m]
      <4>1. ~(i <= m) /\ ~(j <= m)
        BY <1>1, <2>2
      <4> QED BY <1>2, <4>1
    <3>2. i - m = j - m
      BY <1>3, <1>8, <2>2, <3>1
    <3> QED BY <1>1, <3>2
  <2>3. ASSUME NEW k \in 1 .. m + n, NEW l \in 1 .. m + n, b[k] = b[l],
               k \in 1 .. m, l - m \in 1 .. n
        PROVE  FALSE
    <3>1. b[k] \in S
      BY <1>3, <1>4, <2>3
    <3>2. b[l] = r[l - m]
      <4>1. ~(l <= m)
        BY <1>1, <2>3
      <4> QED BY <1>2, <4>1
    <3>3. b[l] \in T
      BY <1>3, <2>3, <3>2
    <3> QED BY <2>3, <3>1, <3>3
  <2> QED BY <1>6, <1>8, <2>1, <2>2, <2>3
<1> QED BY <1>2, <1>7, <1>8 DEF Lists, b

\* Its length is the number of things.
LEMMA ListsLength ==
  ASSUME NEW q, NEW S, Lists(q, S)
  PROVE  ToSet(q) = S /\ Len(q) = Cardinality(ToSet(q))
<1>1. q \in Seq(Nat) /\ Len(q) \in Nat /\ DOMAIN q = 1 .. Len(q)
  BY DEF Lists
<1>2. ToSet(q) = S
  BY <1>1 DEF Lists, ToSet
<1>3. IsFiniteSet(1 .. Len(q)) /\ Cardinality(1 .. Len(q)) = Len(q)
  <2> DEFINE n == Len(q)
  <2>1. n \in Nat /\ 1 \in Int /\ n \in Int
    BY <1>1
  <2> HIDE DEF n
  <2>2. IsFiniteSet(1 .. n) /\ Cardinality(1 .. n) = IF 1 > n THEN 0 ELSE n - 1 + 1
    BY <2>1, FS_Interval
  <2>3. Cardinality(1 .. n) = n
    BY <2>1, <2>2
  <2> QED BY <2>2, <2>3 DEF n
<1>4. q \in Bijection(1 .. Len(q), S)
  <2>1. q \in [1 .. Len(q) -> S]
    BY <1>1 DEF Lists
  <2>2. \A x \in S : \E i \in 1 .. Len(q) : q[i] = x
    BY DEF Lists
  <2>3. \A i, j \in 1 .. Len(q) : q[i] = q[j] => i = j
    BY DEF Lists
  <2> QED BY <2>1, <2>2, <2>3 DEF Bijection, Injection, Surjection, IsInjective
<1>5. Cardinality(S) = Len(q)
  BY <1>3, <1>4, FS_Bijection DEF ExistsBijection
<1> QED BY <1>2, <1>5

-----------------------------------------------------------------------------
(* What is known of an image                                               *)

\* An image that can be viewed was accepted, and what view() and find() have
\* returned is exact.
IInv ==
  /\ stage # "refused" => image \in Images
  /\ stage = "open" => Accepted
  /\ ViewsAreBacked
  /\ FindIsExact

\* The address lies in the section.
Holds(s, rva) == s.rva <= rva /\ rva < s.rva + s.size

-----------------------------------------------------------------------------
(* Facts about accepted tables.                                            *)

\* The sections of an image are sections.
LEMMA SectionTypes ==
  ASSUME image \in Images, NEW i \in DOMAIN image.sections
  PROVE  /\ image.sections[i] \in Section
         /\ image.loaded \in BOOLEAN
         /\ DOMAIN image.sections \subseteq Nat
BY ImagesAssumption

\* The fields of a section are numbers.
LEMMA SectionFields ==
  ASSUME NEW s \in Section
  PROVE  /\ s.rva \in Nat /\ s.size \in Nat /\ s.raw \in Nat /\ s.rawSize \in Nat
         /\ s.rawSize <= s.size
         /\ s.code \in BOOLEAN
<1>1. Fields \subseteq Nat
  BY SizesAssumption DEF Fields
<1> QED
  BY <1>1 DEF Section

\* The constructor's sums keep sections apart: no address is in two of them.
LEMMA OneHolder ==
  ASSUME image \in Images, Accepted, NEW rva \in Nat,
         NEW i \in DOMAIN image.sections, NEW j \in DOMAIN image.sections,
         Holds(image.sections[i], rva), Holds(image.sections[j], rva)
  PROVE  i = j
<1> SUFFICES ASSUME i # j PROVE FALSE
  OBVIOUS
<1> DEFINE s == image.sections[i]
           t == image.sections[j]
<1>1. s \in Section /\ t \in Section /\ i \in Nat /\ j \in Nat
  BY SectionTypes
<1>2. /\ s.rva \in Nat /\ s.size \in Nat /\ t.rva \in Nat /\ t.size \in Nat
  BY <1>1, SectionFields
<1>3. SectionsApart(s, t) \/ SectionsApart(t, s)
  BY <1>1 DEF Accepted
<1> HIDE DEF s, t
<1>4. Apart(s.rva, s.size, t.rva, t.size) \/ Apart(t.rva, t.size, s.rva, s.size)
  BY <1>3 DEF SectionsApart
<1>5. s.rva <= rva /\ rva < s.rva + s.size /\ t.rva <= rva /\ rva < t.rva + t.size
  BY DEF Holds, s, t
<1> QED
  BY <1>2, <1>4, <1>5 DEF Apart, End

\* A place has at most one covering section, the one that section() returns.
LEMMA SectionCovers ==
  ASSUME image \in Images, Accepted, NEW rva \in Nat, NEW length \in Nat \ {0},
         Covering(rva, length) # {}
  PROVE  \E i \in DOMAIN image.sections :
           /\ section(rva, length) = image.sections[i]
           /\ Within(image.sections[i], rva, length)
<1>1. PICK i \in DOMAIN image.sections : Within(image.sections[i], rva, length)
  BY DEF Covering
<1>2. ASSUME NEW k \in DOMAIN image.sections, Within(image.sections[k], rva, length)
      PROVE  Holds(image.sections[k], rva)
  <2>1. image.sections[k] \in Section
    BY SectionTypes
  <2>2. image.sections[k].rva \in Nat /\ image.sections[k].size \in Nat
    BY <2>1, SectionFields
  <2> QED
    BY <1>2, <2>2 DEF Within, Holds
<1>3. Covering(rva, length) = {i}
  BY <1>1, <1>2, OneHolder DEF Covering
<1>4. i \in Nat
  BY SectionTypes
<1>5. Min({i}) = i
  BY <1>4 DEF Min
<1> QED
  BY <1>1, <1>3, <1>5 DEF section

\* A view's bytes, one by one, are in the image, exist, and are the bytes of
\* their address.
LEMMA ViewBacked ==
  ASSUME image \in Images, Accepted, NEW rva \in Nat, NEW length \in Nat \ {0},
         Viewable(rva, length), NEW k \in 1 .. length
  PROVE  LET b == ViewAt(rva, length)[k]
         IN  /\ rva + k - 1 \in Headers .. ImageSize - 1
             /\ b \in DOMAIN image.bytes
             /\ Sources(rva + k - 1) = {b}
<1> DEFINE a == rva + k - 1
           s == section(rva, length)
           b == Base(s) + (rva - s.rva) + k - 1
<1>1. ViewAt(rva, length)[k] = b
  BY DEF ViewAt
<1>2. PICK i \in DOMAIN image.sections :
        s = image.sections[i] /\ Within(image.sections[i], rva, length)
  BY SectionCovers DEF Viewable
<1>3. /\ s \in Section /\ image.loaded \in BOOLEAN
      /\ s.rva \in Nat /\ s.size \in Nat /\ s.raw \in Nat /\ s.rawSize \in Nat
      /\ s.rawSize <= s.size
  BY <1>2, SectionTypes, SectionFields
<1>4. /\ BackedSize(s) = IF image.loaded THEN s.size ELSE s.rawSize
      /\ Base(s) = IF image.loaded THEN s.rva ELSE s.raw
      /\ length <= BackedSize(s) - (rva - s.rva)
      /\ rva >= s.rva
  BY <1>2 DEF BackedSize, Base, Viewable, Within
<1>5. SectionFits(s)
  BY <1>2 DEF Accepted
<1>6. {Headers, ImageSize, FileSize} \subseteq Nat
  BY SizesAssumption
<1> HIDE DEF s
<1>7. a \in Nat /\ s.rva <= a /\ a < s.rva + BackedSize(s)
      /\ BackedSize(s) \in Nat /\ BackedSize(s) <= s.size
  BY <1>3, <1>4
<1>8. a \in Headers .. ImageSize - 1
  BY <1>3, <1>5, <1>6, <1>7 DEF SectionFits, End
<1>9. b \in DOMAIN image.bytes
  <2>1. DOMAIN image.bytes = 0 .. (IF image.loaded THEN ImageSize ELSE FileSize) - 1
    BY ImagesAssumption
  <2>2. CASE image.loaded
    <3>1. b = a
      BY <1>3, <1>4, <2>2
    <3>2. a \in 0 .. ImageSize - 1
      BY <1>6, <1>8
    <3> QED
      BY <2>1, <2>2, <3>1, <3>2
  <2>3. CASE ~image.loaded
    <3>1. length <= s.rawSize - (rva - s.rva) /\ b = s.raw + (rva - s.rva) + k - 1
      BY <1>4, <2>3
    <3>2. s.rawSize # 0
      BY <1>3, <1>4, <3>1
    <3>3. s.raw + s.rawSize <= FileSize
      BY <1>5, <2>3, <3>2 DEF SectionFits, End
    <3>4. b \in 0 .. FileSize - 1
      <4> HIDE DEF b
      <4> QED
        BY <1>3, <1>4, <1>6, <3>1, <3>3
    <3> QED
      BY <2>1, <2>3, <3>4
  <2> QED
    BY <1>3, <2>2, <2>3
<1>10. Sources(a) = {b}
  <2>1. ASSUME NEW j \in DOMAIN image.sections,
               image.sections[j].rva <= a,
               a < image.sections[j].rva + BackedSize(image.sections[j])
        PROVE  image.sections[j] = s
    <3> DEFINE t == image.sections[j]
    <3>1. /\ t \in Section /\ t.rva \in Nat /\ t.size \in Nat /\ t.rawSize \in Nat
          /\ t.rawSize <= t.size
      BY SectionTypes, SectionFields
    <3>2. BackedSize(t) <= t.size /\ BackedSize(t) \in Nat
      BY <3>1 DEF BackedSize
    <3>3. t.rva <= a /\ a < t.rva + BackedSize(t)
      BY <2>1
    <3>4. Holds(t, a)
      <4> HIDE DEF t, a
      <4> QED
        BY <1>7, <3>1, <3>2, <3>3 DEF Holds
    <3>5. Holds(s, a)
      <4> HIDE DEF a
      <4> QED
        BY <1>3, <1>7 DEF Holds
    <3>6. i = j
      BY <1>2, <1>7, <3>4, <3>5, OneHolder
    <3> QED
      BY <1>2, <3>6
  <2>2. {t \in ToSet(image.sections) : t.rva <= a /\ a < t.rva + BackedSize(t)} = {s}
    BY <1>2, <1>7, <2>1 DEF ToSet
  <2>3. Base(s) + (a - s.rva) = b
    BY <1>3, <1>4
  <2> QED
    BY <2>2, <2>3 DEF Sources
<1> QED
  BY <1>1, <1>8, <1>9, <1>10

-----------------------------------------------------------------------------
(* Where find() looks                                                      *)

\* The longest run of fixed bytes, where find() anchors its search: it lies in
\* the rule, and all its bytes are fixed.
LEMMA AnchorFacts ==
  ASSUME NEW rule \in Rules, Searchable(rule)
  PROVE  /\ Len(rule.bytes) \in Nat /\ Anchor(rule) \in Nat /\ RunLength(rule) \in Nat
         /\ RunLength(rule) >= 2 /\ Anchor(rule) + RunLength(rule) <= Len(rule.bytes)
         /\ \A i \in 1 .. RunLength(rule) : rule.mask[Anchor(rule) + i]
<1> DEFINE n == Len(rule.mask)
           lengths == {r[2] : r \in Runs(rule)}
           longest == {q \in Runs(rule) : q[2] = RunLength(rule)}
           starts == {r[1] : r \in longest}
<1>1. n \in Nat /\ Len(rule.bytes) = n
  BY RulesAssumption
<1>2. \A r \in Runs(rule) : /\ r[1] \in 0 .. n /\ r[2] \in 0 .. n /\ r[1] + r[2] <= n
                            /\ \A i \in 1 .. r[2] : rule.mask[r[1] + i]
  BY <1>1 DEF Runs
<1>3. <<0, 0>> \in Runs(rule)
  BY <1>1 DEF Runs
<1>4. RunLength(rule) \in lengths
  <2>1. lengths \subseteq 0 .. n /\ lengths # {}
    BY <1>2, <1>3
  <2>2. Max(lengths) \in lengths
    <3> HIDE DEF lengths, n
    <3> QED BY <1>1, <2>1, MaxIs
  <2> QED BY <2>2 DEF RunLength
<1>5. Anchor(rule) \in starts
  <2>1. starts \subseteq Nat /\ starts # {}
    BY <1>2, <1>4
  <2>2. Min(starts) \in starts
    <3> HIDE DEF starts
    <3> QED BY <2>1, MinIs
  <2> QED BY <2>2 DEF Anchor
<1>6. PICK r \in Runs(rule) : r[2] = RunLength(rule) /\ r[1] = Anchor(rule)
  BY <1>5
<1> QED BY <1>1, <1>2, <1>6 DEF Searchable

\* The next place of the anchor's first byte, when there is one.
LEMMA NextPlace ==
  ASSUME NEW s, NEW rule, NEW from \in Nat, FirstBytes(s, rule, from) # {},
         LastAnchor(s, rule) \in Nat
  PROVE  LET p == Min(FirstBytes(s, rule, from))
         IN  /\ p \in from .. LastAnchor(s, rule) /\ p \in Nat
             /\ p \in FirstBytes(s, rule, from)
             /\ \A x \in FirstBytes(s, rule, from) : p <= x
<1> DEFINE P == FirstBytes(s, rule, from)
<1>1. P \subseteq from .. LastAnchor(s, rule)
  BY DEF FirstBytes
<1>2. P \subseteq Nat /\ P # {}
  BY <1>1
<1>3. Min(P) \in P /\ \A x \in P : Min(P) <= x
  <2> HIDE DEF P
  <2> QED BY <1>2, MinIs
<1> HIDE DEF P
<1>4. Min(P) \in from .. LastAnchor(s, rule) /\ Min(P) \in Nat
  <2>1. Min(P) \in P
    BY <1>3
  <2>2. \A x \in from .. LastAnchor(s, rule) : x \in Nat
    OBVIOUS
  <2> QED BY <1>1, <2>1, <2>2
<1> QED BY <1>3, <1>4 DEF P

\* What the loop of find() makes of the places from `from` on, when `later` is
\* what it makes of the places after the next one.
Resumed(s, rule, from, later) ==
  LET places == FirstBytes(s, rule, from)
  IN  IF places = {} THEN <<>>
      ELSE HitAt(s, rule, Min(places)) \o later[Min(places) + 1]

\* h is the loop's result from each place on, down to the place `low`.
Resumes(h, s, rule, low) ==
  h = [from \in low .. LastAnchor(s, rule) + 1 |-> Resumed(s, rule, from, h)]

\* The loop's result depends on the later places only.
LEMMA ResumedSame ==
  ASSUME NEW s, NEW rule, NEW from \in Nat, LastAnchor(s, rule) \in Nat, NEW g, NEW h,
         \A x \in from + 1 .. LastAnchor(s, rule) + 1 : g[x] = h[x]
  PROVE  Resumed(s, rule, from, g) = Resumed(s, rule, from, h)
<1>1. CASE FirstBytes(s, rule, from) = {}
  BY <1>1 DEF Resumed
<1>2. CASE FirstBytes(s, rule, from) # {}
  <2> DEFINE p == Min(FirstBytes(s, rule, from))
  <2>1. p \in from .. LastAnchor(s, rule) /\ p \in Nat
    BY <1>2, NextPlace
  <2> HIDE DEF p
  <2>2. p + 1 \in from + 1 .. LastAnchor(s, rule) + 1
    BY <2>1
  <2>3. g[p + 1] = h[p + 1]
    BY <2>2
  <2> QED BY <1>2, <2>3 DEF Resumed, p
<1> QED BY <1>1, <1>2

\* Search is the loop.
LEMMA SearchSteps ==
  ASSUME NEW s, NEW rule, Anchor(rule) \in Nat, LastAnchor(s, rule) \in Nat,
         Anchor(rule) <= LastAnchor(s, rule)
  PROVE  \A from \in Anchor(rule) .. LastAnchor(s, rule) + 1 :
           Search(s, rule)[from] = Resumed(s, rule, from, Search(s, rule))
<1> DEFINE a == Anchor(rule)
           last == LastAnchor(s, rule)
           T == {k \in Nat : k <= last + 1 - a => \E h : Resumes(h, s, rule, last + 1 - k)}
<1>1. 0 \in T
  <2> DEFINE h == [from \in last + 1 - 0 .. last + 1 |-> <<>>]
  <2>1. ASSUME NEW from \in last + 1 - 0 .. last + 1 PROVE Resumed(s, rule, from, h) = <<>>
    <3>1. FirstBytes(s, rule, from) = {}
      BY DEF FirstBytes
    <3> QED BY <3>1 DEF Resumed
  <2>2. Resumes(h, s, rule, last + 1 - 0)
    BY <2>1 DEF Resumes
  <2> QED BY <2>2
<1>2. ASSUME NEW k \in Nat, k \in T PROVE k + 1 \in T
  <2> SUFFICES ASSUME k + 1 <= last + 1 - a
               PROVE  \E h : Resumes(h, s, rule, last + 1 - (k + 1))
    OBVIOUS
  <2> DEFINE low == last + 1 - k
             p == last + 1 - (k + 1)
  <2>1. low \in Nat /\ p \in Nat /\ low = p + 1 /\ p \in a .. last /\ last \in Nat
    OBVIOUS
  <2>2. PICK g : Resumes(g, s, rule, low)
    BY <1>2
  <2> HIDE DEF low, p, last
  <2> DEFINE v == Resumed(s, rule, p, g)
             h == [from \in p .. last + 1 |-> IF from = p THEN v ELSE g[from]]
  <2>3. \A x \in p + 1 .. last + 1 : g[x] = h[x]
    BY <2>1
  <2>4. \A x \in p + 1 .. last + 1 : g[x] = Resumed(s, rule, x, g)
    BY <2>1, <2>2 DEF Resumes, last
  <2>5. ASSUME NEW x \in p .. last + 1 PROVE h[x] = Resumed(s, rule, x, h)
    <3> HIDE DEF h, v
    <3>1. Resumed(s, rule, x, g) = Resumed(s, rule, x, h)
      <4>1. x \in Nat /\ \A y \in x + 1 .. last + 1 : g[y] = h[y]
        BY <2>1, <2>3
      <4> QED BY <2>1, <4>1, ResumedSame DEF last
    <3>2. CASE x = p
      BY <2>1, <3>1, <3>2 DEF h, v
    <3>3. CASE x # p
      BY <2>1, <2>3, <2>4, <3>1, <3>3
    <3> QED BY <3>2, <3>3
  <2>6. Resumes(h, s, rule, p)
    BY <2>5 DEF Resumes, last
  <2> QED BY <2>6 DEF p, last
<1>3. \A k \in Nat : k \in T
  <2> HIDE DEF T
  <2> QED BY <1>1, <1>2, SetInduction
<1>4. \E h : Resumes(h, s, rule, a)
  <2>1. last + 1 - a \in Nat /\ last + 1 - (last + 1 - a) = a
    OBVIOUS
  <2> QED BY <1>3, <2>1
<1>5. Search(s, rule) = CHOOSE h : Resumes(h, s, rule, a)
  BY DEF Search, Resumes, Resumed
<1>6. Resumes(Search(s, rule), s, rule, a)
  BY <1>4, <1>5
<1> QED BY <1>6 DEF Resumes

-----------------------------------------------------------------------------
(* Matches in one section                                                  *)

\* A place where the loop may find an anchor belongs to an address where the
\* rule lies in the section: of n bytes, its anchor the a-th, and b bytes at v.
LEMMA PlaceToAddress ==
  ASSUME NEW a \in Nat, NEW n \in Nat, NEW b \in Nat, NEW v \in Nat,
         NEW q \in a .. b - n + a
  PROVE  v + q - a \in Nat /\ v <= v + q - a /\ v + q - a + n <= v + b
OBVIOUS

\* And each such address to a place.
LEMMA AddressToPlace ==
  ASSUME NEW a \in Nat, NEW n \in Nat, NEW b \in Nat, NEW v \in Nat,
         NEW rva \in Nat, v <= rva, rva + n <= v + b
  PROVE  rva - v + a \in a .. b - n + a
OBVIOUS

\* The rule would lie in these bytes of the section, a code section.
Fits(s, rule, rva) ==
  s.code /\ s.rva <= rva /\ rva + Len(rule.bytes) <= s.rva + BackedSize(s)

\* The rule's bytes, those that are not fixed are zeros.
LEMMA RuleTypes ==
  ASSUME NEW rule \in Rules
  PROVE  /\ rule.bytes \in Seq(Nat) /\ rule.mask \in Seq(BOOLEAN)
         /\ Len(rule.bytes) \in Nat /\ Len(rule.mask) = Len(rule.bytes)
         /\ DOMAIN rule.bytes = 1 .. Len(rule.bytes)
         /\ \A i \in 1 .. Len(rule.bytes) : ~rule.mask[i] => rule.bytes[i] = 0
<1>1. rule.bytes \in Seq(Nat) /\ rule.mask \in Seq(BOOLEAN) /\ Len(rule.mask) = Len(rule.bytes)
  BY RulesAssumption
<1>2. DOMAIN rule.mask = 1 .. Len(rule.bytes)
  BY <1>1
<1> QED BY <1>1, <1>2, RulesAssumption

\* What the sizes of a section are.
LEMMA BackedFacts ==
  ASSUME image \in Images, NEW k \in DOMAIN image.sections
  PROVE  LET s == image.sections[k]
         IN  /\ s.rva \in Nat /\ s.size \in Nat /\ BackedSize(s) \in Nat /\ Base(s) \in Nat
             /\ BackedSize(s) <= s.size
<1> DEFINE s == image.sections[k]
<1>1. s \in Section /\ image.loaded \in BOOLEAN
  BY SectionTypes
<1>2. /\ s.rva \in Nat /\ s.size \in Nat /\ s.raw \in Nat /\ s.rawSize \in Nat
      /\ s.rawSize <= s.size
  BY <1>1, SectionFields
<1> HIDE DEF s
<1>3. /\ s.rva \in Nat /\ s.size \in Nat /\ BackedSize(s) \in Nat /\ Base(s) \in Nat
      /\ BackedSize(s) <= s.size
  BY <1>1, <1>2 DEF BackedSize, Base
<1> QED BY <1>3 DEF s

\* Where a rule lies in a section, matches() looks at that section's bytes,
\* and tells whether its fixed bytes stand there.
LEMMA MatchesInSection ==
  ASSUME image \in Images, Accepted, NEW rule \in Rules, Len(rule.bytes) # 0,
         NEW k \in DOMAIN image.sections, NEW rva \in Nat,
         Fits(image.sections[k], rule, rva)
  PROVE  LET s == image.sections[k]
         IN  /\ Viewable(rva, Len(rule.bytes))
             /\ section(rva, Len(rule.bytes)) = s
             /\ matches(rva, rule) <=>
                  \A i \in 1 .. Len(rule.bytes) :
                    rule.mask[i] => Byte(s, rva - s.rva + i - 1) = rule.bytes[i]
<1> DEFINE s == image.sections[k]
           n == Len(rule.bytes)
           t == section(rva, n)
<1>1. /\ s.rva \in Nat /\ s.size \in Nat /\ BackedSize(s) \in Nat /\ Base(s) \in Nat
      /\ BackedSize(s) <= s.size
  BY BackedFacts
<1>2. n \in Nat /\ n # 0
  BY RuleTypes
<1>3. s.rva <= rva /\ rva + n <= s.rva + BackedSize(s) /\ s.code
  BY DEF Fits
<1>4. Within(s, rva, n) /\ Holds(s, rva)
  <2> HIDE DEF s, n
  <2> QED BY <1>1, <1>2, <1>3 DEF Within, Holds
<1>5. Covering(rva, n) # {}
  BY <1>4 DEF Covering
<1>6. PICK j \in DOMAIN image.sections :
        t = image.sections[j] /\ Within(image.sections[j], rva, n)
  <2>1. n \in Nat \ {0}
    BY <1>2
  <2> HIDE DEF n
  <2> QED BY <1>5, <2>1, SectionCovers
<1>7. j = k
  <2> DEFINE u == image.sections[j]
  <2>1. u.rva \in Nat /\ u.size \in Nat
    BY BackedFacts
  <2>2. Holds(u, rva)
    <3>1. Within(u, rva, n)
      BY <1>6
    <3> HIDE DEF u, n
    <3> QED BY <1>2, <2>1, <3>1 DEF Within, Holds
  <2> QED BY <1>4, <2>2, OneHolder
<1>8. t = s
  BY <1>6, <1>7
<1>9. Viewable(rva, n)
  <2>1. rva - s.rva <= BackedSize(s) /\ n <= BackedSize(s) - (rva - s.rva)
    <3> HIDE DEF s, n
    <3> QED BY <1>1, <1>2, <1>3
  <2> QED BY <1>3, <1>5, <1>8, <2>1 DEF Viewable
<1>10. ASSUME NEW i \in 1 .. n
       PROVE  Masked(image.bytes[ViewAt(rva, n)[i]], rule.mask[i]) = rule.bytes[i]
                <=> (rule.mask[i] => Byte(s, rva - s.rva + i - 1) = rule.bytes[i])
  <2>1. ViewAt(rva, n)[i] = Base(s) + (rva - s.rva) + i - 1
    BY <1>8 DEF ViewAt
  <2>2. Base(s) + (rva - s.rva) + i - 1 = Base(s) + (rva - s.rva + i - 1)
    <3>1. i \in Nat
      BY <1>2
    <3> HIDE DEF s
    <3> QED BY <1>1, <3>1
  <2>3. ~rule.mask[i] => rule.bytes[i] = 0
    BY RuleTypes
  <2> QED BY <2>1, <2>2, <2>3 DEF Masked, Byte
<1>11. matches(rva, rule) <=>
         \A i \in 1 .. n : rule.mask[i] => Byte(s, rva - s.rva + i - 1) = rule.bytes[i]
  <2>1. matches(rva, rule) <=>
          \A i \in 1 .. n : Masked(image.bytes[ViewAt(rva, n)[i]], rule.mask[i]) = rule.bytes[i]
    BY <1>3, <1>8, <1>9 DEF matches
  <2> QED BY <1>10, <2>1
<1> QED BY <1>8, <1>9, <1>11

\* A match has the anchor where the loop looks for it.
LEMMA MatchHasAnchor ==
  ASSUME image \in Images, Accepted, NEW rule \in Rules, Searchable(rule),
         NEW k \in DOMAIN image.sections,
         NEW place \in Anchor(rule) .. LastAnchor(image.sections[k], rule),
         image.sections[k].code, Len(rule.bytes) <= BackedSize(image.sections[k]),
         matches(image.sections[k].rva + place - Anchor(rule), rule)
  PROVE  /\ Byte(image.sections[k], place) = rule.bytes[Anchor(rule) + 1]
         /\ AnchorStands(image.sections[k], rule, place)
<1> DEFINE s == image.sections[k]
           n == Len(rule.bytes)
           a == Anchor(rule)
           l == RunLength(rule)
           rva == s.rva + place - a
<1>1. /\ s.rva \in Nat /\ s.size \in Nat /\ BackedSize(s) \in Nat /\ Base(s) \in Nat
      /\ BackedSize(s) <= s.size
  BY BackedFacts
<1>2. /\ n \in Nat /\ a \in Nat /\ l \in Nat /\ l >= 2 /\ a + l <= n
      /\ \A i \in 1 .. l : rule.mask[a + i]
  BY AnchorFacts
<1>3. place \in a .. BackedSize(s) - n + a
  BY DEF LastAnchor
<1>4. rva \in Nat /\ Fits(s, rule, rva) /\ rva - s.rva = place - a
  <2>1. s.code
    OBVIOUS
  <2> HIDE DEF s, n, a
  <2>2. rva \in Nat /\ s.rva <= rva /\ rva + n <= s.rva + BackedSize(s)
    BY <1>1, <1>2, <1>3, PlaceToAddress, Zenon
  <2>3. rva - s.rva = place - a
    <3>1. s.rva \in Nat /\ place \in Int /\ a \in Nat
      BY <1>1, <1>2, <1>3
    <3> QED BY <3>1
  <2> HIDE DEF rva
  <2> QED BY <2>1, <2>2, <2>3 DEF Fits, n
<1>5. \A i \in 1 .. n : rule.mask[i] => Byte(s, rva - s.rva + i - 1) = rule.bytes[i]
  <2>1. matches(rva, rule) /\ Len(rule.bytes) # 0
    BY <1>2
  <2> HIDE DEF rva
  <2> QED BY <1>4, <2>1, MatchesInSection
<1> HIDE DEF s, n, a, l, rva
<1>6. ASSUME NEW i \in 0 .. l - 1 PROVE Byte(s, place + i) = rule.bytes[a + i + 1]
  <2>1. a + i + 1 \in 1 .. n /\ i + 1 \in 1 .. l
    BY <1>2
  <2>2. rule.mask[a + i + 1]
    <3>1. a + (i + 1) = a + i + 1
      BY <1>2
    <3>2. rule.mask[a + (i + 1)]
      BY <1>2, <2>1
    <3> QED BY <3>1, <3>2
  <2>3. rva - s.rva + (a + i + 1) - 1 = place + i
    BY <1>2, <1>3, <1>4
  <2> QED BY <1>5, <2>1, <2>2, <2>3
<1>7. Byte(s, place) = rule.bytes[a + 1]
  <2>1. 0 \in 0 .. l - 1 /\ place + 0 = place /\ a + 0 + 1 = a + 1
    BY <1>2, <1>3
  <2>2. Byte(s, place + 0) = rule.bytes[a + 0 + 1]
    BY <1>6, <2>1
  <2> QED BY <2>1, <2>2
<1> QED BY <1>6, <1>7 DEF AnchorStands, s, a, l

\* The addresses where the rule matches, from a place of the section on.
FoundFrom(s, rule, from) ==
  {s.rva + p - Anchor(rule) :
     p \in {q \in from .. LastAnchor(s, rule) : matches(s.rva + q - Anchor(rule), rule)}}

\* The addresses where the rule matches in the section.
FoundIn(s, rule) == {rva \in 0 .. ImageSize : Fits(s, rule, rva) /\ matches(rva, rule)}

\* The loop lists the matches from its place on, each once: it goes from one
\* first byte to the next, and where it does not look there is no match.
LEMMA LoopStep ==
  ASSUME image \in Images, Accepted, NEW rule \in Rules, Searchable(rule),
         NEW k \in DOMAIN image.sections, NEW s, s = image.sections[k],
         s.code, Len(rule.bytes) <= BackedSize(s),
         NEW from \in Anchor(rule) .. LastAnchor(s, rule) + 1, NEW later,
         \A x \in from + 1 .. LastAnchor(s, rule) + 1 :
           Lists(later[x], FoundFrom(s, rule, x))
  PROVE  Lists(Resumed(s, rule, from, later), FoundFrom(s, rule, from))
<1> DEFINE n == Len(rule.bytes)
           a == Anchor(rule)
           last == LastAnchor(s, rule)
           places == FirstBytes(s, rule, from)
<1>1. s.rva \in Nat /\ BackedSize(s) \in Nat
  BY BackedFacts
<1>2. n \in Nat /\ a \in Nat /\ a < n
  BY AnchorFacts
<1>3. last \in Nat /\ last = BackedSize(s) - n + a /\ from \in Nat /\ a <= from
  BY <1>1, <1>2 DEF LastAnchor
<1>4. ASSUME NEW q \in from .. last, matches(s.rva + q - a, rule)
      PROVE  q \in places /\ AnchorStands(s, rule, q)
  <2>1. q \in a .. last
    BY <1>2, <1>3
  <2>2. Byte(s, q) = rule.bytes[a + 1] /\ AnchorStands(s, rule, q)
    BY <1>4, <2>1, MatchHasAnchor
  <2> QED BY <2>2 DEF FirstBytes
<1>5. CASE places = {}
  <2>1. FoundFrom(s, rule, from) = {}
    BY <1>4, <1>5 DEF FoundFrom
  <2>2. Resumed(s, rule, from, later) = <<>>
    BY <1>5 DEF Resumed
  <2> QED BY <2>1, <2>2, ListsNone
<1>6. CASE places # {}
  <2> DEFINE p == Min(places)
             rva == s.rva + p - a
             here == IF matches(rva, rule) THEN {rva} ELSE {}
  <2>1. /\ p \in from .. last /\ p \in Nat /\ p \in places
        /\ \A x \in places : p <= x
    BY <1>3, <1>6, NextPlace
  <2> HIDE DEF p
  <2>2. rva \in Nat
    <3>1. p \in a .. BackedSize(s) - n + a
      <4> HIDE DEF a, last
      <4> QED BY <1>2, <1>3, <2>1
    <3> QED BY <1>1, <1>2, <3>1, PlaceToAddress, Zenon
  <2>3. Lists(HitAt(s, rule, p), here)
    <3>1. CASE matches(rva, rule)
      <4>1. HitAt(s, rule, p) = <<rva>> /\ here = {rva}
        BY <1>4, <2>1, <3>1 DEF HitAt
      <4> HIDE DEF rva, here
      <4> QED BY <2>2, <4>1, ListsOne
    <3>2. CASE ~matches(rva, rule)
      <4>1. HitAt(s, rule, p) = <<>> /\ here = {}
        BY <3>2 DEF HitAt
      <4> QED BY <4>1, ListsNone
    <3> QED BY <3>1, <3>2
  <2>4. p + 1 \in from + 1 .. last + 1
    BY <1>3, <2>1
  <2>5. Lists(later[p + 1], FoundFrom(s, rule, p + 1))
    BY <2>4
  <2>6. here \cap FoundFrom(s, rule, p + 1) = {}
    <3> SUFFICES ASSUME NEW q \in p + 1 .. last, s.rva + q - a = rva PROVE FALSE
      BY DEF FoundFrom
    <3> HIDE DEF last
    <3> QED BY <1>1, <1>2, <1>3, <2>1
  <2>7. FoundFrom(s, rule, from) = here \cup FoundFrom(s, rule, p + 1)
    <3>1. ASSUME NEW x \in FoundFrom(s, rule, from)
          PROVE  x \in here \cup FoundFrom(s, rule, p + 1)
      <4>1. PICK q \in from .. last :
              x = s.rva + q - a /\ matches(s.rva + q - a, rule)
        BY DEF FoundFrom
      <4>2. q \in places
        BY <1>4, <4>1
      <4>3. p <= q
        BY <2>1, <4>2
      <4>4. CASE q = p
        BY <4>1, <4>4
      <4>5. CASE q # p
        <5>1. q \in p + 1 .. last
          BY <1>3, <2>1, <4>3, <4>5
        <5> QED BY <4>1, <5>1 DEF FoundFrom
      <4> QED BY <4>4, <4>5
    <3>2. ASSUME NEW x \in FoundFrom(s, rule, p + 1) PROVE x \in FoundFrom(s, rule, from)
      <4>1. PICK q \in p + 1 .. last :
              x = s.rva + q - a /\ matches(s.rva + q - a, rule)
        BY DEF FoundFrom
      <4>2. q \in from .. last
        BY <1>3, <2>1
      <4> QED BY <4>1, <4>2 DEF FoundFrom
    <3>3. ASSUME NEW x \in here PROVE x \in FoundFrom(s, rule, from)
      BY <2>1, <3>3 DEF FoundFrom
    <3> QED BY <3>1, <3>2, <3>3
  <2>8. Resumed(s, rule, from, later) = HitAt(s, rule, p) \o later[p + 1]
    BY <1>6 DEF Resumed, p
  <2> HIDE DEF here
  <2> QED BY <2>3, <2>5, <2>6, <2>7, <2>8, ListsBoth
<1> QED BY <1>5, <1>6

\* The search of one section lists its matches, each once.
LEMMA SearchLists ==
  ASSUME image \in Images, Accepted, NEW rule \in Rules, Searchable(rule),
         NEW k \in DOMAIN image.sections, NEW s, s = image.sections[k],
         s.code, Len(rule.bytes) <= BackedSize(s)
  PROVE  Lists(Search(s, rule)[Anchor(rule)], FoundFrom(s, rule, Anchor(rule)))
<1> DEFINE n == Len(rule.bytes)
           a == Anchor(rule)
           last == LastAnchor(s, rule)
           h == Search(s, rule)
           T == {i \in Nat : \A x \in a .. last + 1 :
                   last + 1 - x <= i => Lists(h[x], FoundFrom(s, rule, x))}
<1>1. a \in Nat /\ last \in Nat /\ a <= last
  <2>1. BackedSize(s) \in Nat
    BY BackedFacts
  <2>2. n \in Nat /\ a \in Nat
    BY AnchorFacts
  <2> QED BY <2>1, <2>2 DEF LastAnchor
<1> HIDE DEF h
<1>2. \A x \in a .. last + 1 : h[x] = Resumed(s, rule, x, h)
  BY <1>1, SearchSteps DEF h
<1>3. 0 \in T
  <2> SUFFICES ASSUME NEW x \in a .. last + 1, last + 1 - x <= 0
               PROVE  Lists(h[x], FoundFrom(s, rule, x))
    OBVIOUS
  <2> HIDE DEF last, a
  <2>1. x + 1 .. last + 1 = {}
    BY <1>1
  <2>2. Lists(Resumed(s, rule, x, h), FoundFrom(s, rule, x))
    BY <2>1, LoopStep DEF last, a
  <2> QED BY <1>2, <2>2
<1>4. ASSUME NEW i \in Nat, i \in T PROVE i + 1 \in T
  <2> SUFFICES ASSUME NEW x \in a .. last + 1, last + 1 - x <= i + 1
               PROVE  Lists(h[x], FoundFrom(s, rule, x))
    OBVIOUS
  <2>1. \A y \in x + 1 .. last + 1 : Lists(h[y], FoundFrom(s, rule, y))
    <3> SUFFICES ASSUME NEW y \in x + 1 .. last + 1 PROVE Lists(h[y], FoundFrom(s, rule, y))
      OBVIOUS
    <3> HIDE DEF last, a
    <3>1. y \in a .. last + 1 /\ last + 1 - y <= i
      BY <1>1
    <3> QED BY <1>4, <3>1
  <2>2. Lists(Resumed(s, rule, x, h), FoundFrom(s, rule, x))
    BY <2>1, LoopStep
  <2> QED BY <1>2, <2>2
<1>5. \A i \in Nat : i \in T
  <2> HIDE DEF T
  <2> QED BY <1>3, <1>4, SetInduction
<1>6. a \in a .. last + 1 /\ last + 1 - a \in Nat /\ last + 1 - a <= last + 1 - a
  <2> HIDE DEF a, last
  <2> QED BY <1>1
<1>7. last + 1 - a \in T
  <2> HIDE DEF T
  <2> QED BY <1>5, <1>6
<1>8. Lists(h[a], FoundFrom(s, rule, a))
  <2> HIDE DEF a, last
  <2> QED BY <1>6, <1>7
<1> QED BY <1>8 DEF h

\* The matches from the first place on are all of the section's.
LEMMA FoundFromFirst ==
  ASSUME image \in Images, Accepted, NEW rule \in Rules, Searchable(rule),
         NEW k \in DOMAIN image.sections, NEW s, s = image.sections[k],
         s.code, Len(rule.bytes) <= BackedSize(s)
  PROVE  FoundFrom(s, rule, Anchor(rule)) = FoundIn(s, rule)
<1> DEFINE n == Len(rule.bytes)
           a == Anchor(rule)
           last == LastAnchor(s, rule)
<1>1. s.rva \in Nat /\ s.size \in Nat /\ BackedSize(s) \in Nat /\ BackedSize(s) <= s.size
  BY BackedFacts
<1>2. n \in Nat /\ a \in Nat /\ ImageSize \in Nat
  BY AnchorFacts, SizesAssumption
<1>3. last = BackedSize(s) - n + a /\ last \in Nat
  BY <1>1, <1>2 DEF LastAnchor
<1>4. s.rva + s.size <= ImageSize
  BY DEF Accepted, SectionFits, End
<1> HIDE DEF n, a, last
<1>5. ASSUME NEW q \in a .. last, matches(s.rva + q - a, rule)
      PROVE  s.rva + q - a \in FoundIn(s, rule)
  <2> DEFINE rva == s.rva + q - a
  <2>1. q \in a .. BackedSize(s) - n + a
    BY <1>3
  <2>2. rva \in Nat /\ s.rva <= rva /\ rva + n <= s.rva + BackedSize(s)
    BY <1>1, <1>2, <2>1, PlaceToAddress, Zenon
  <2>3. matches(rva, rule)
    BY <1>5
  <2> HIDE DEF rva
  <2>4. rva \in 0 .. ImageSize
    BY <1>1, <1>2, <1>4, <2>2
  <2>5. rva \in FoundIn(s, rule)
    BY <2>2, <2>3, <2>4 DEF FoundIn, Fits, n
  <2> QED BY <2>5 DEF rva
<1>6. ASSUME NEW rva \in FoundIn(s, rule)
      PROVE  rva \in FoundFrom(s, rule, a)
  <2> DEFINE q == rva - s.rva + a
  <2>1. /\ rva \in 0 .. ImageSize /\ s.rva <= rva /\ rva + n <= s.rva + BackedSize(s)
        /\ matches(rva, rule)
    BY <1>6 DEF FoundIn, Fits, n
  <2>2. q \in a .. last /\ s.rva + q - a = rva
    <3> HIDE DEF q
    <3>1. rva \in Nat
      BY <1>2, <2>1
    <3>2. s.rva \in Nat /\ BackedSize(s) \in Nat /\ last = BackedSize(s) - n + a
      BY <1>1, <1>3
    <3>3. s.rva <= rva /\ rva + n <= s.rva + BackedSize(s)
      BY <2>1
    <3>4. rva - s.rva + a \in a .. BackedSize(s) - n + a
      BY <1>2, <3>1, <3>2, <3>3, AddressToPlace, Zenon
    <3>5. s.rva + (rva - s.rva + a) - a = rva
      <4>1. a \in Nat /\ rva \in Nat /\ s.rva \in Nat
        BY <1>2, <3>1, <3>2
      <4> QED BY <4>1
    <3> QED BY <3>2, <3>4, <3>5 DEF q
  <2> HIDE DEF q
  <2>3. matches(s.rva + q - a, rule)
    BY <2>1, <2>2
  <2> QED BY <2>2, <2>3 DEF FoundFrom, a, last
<1>7. \A x \in FoundFrom(s, rule, a) : x \in FoundIn(s, rule)
  BY <1>5 DEF FoundFrom, a, last
<1> QED BY <1>6, <1>7 DEF a

\* What find() takes from a section are its matches, each once.
LEMMA ScanLists ==
  ASSUME image \in Images, Accepted, NEW rule \in Rules, Searchable(rule),
         NEW k \in DOMAIN image.sections
  PROVE  Lists(Scan(image.sections[k], rule), FoundIn(image.sections[k], rule))
<1> DEFINE n == Len(rule.bytes)
           s == image.sections[k]
<1>1. s.rva \in Nat /\ BackedSize(s) \in Nat
  BY BackedFacts
<1>2. n \in Nat /\ Anchor(rule) \in Nat
  BY AnchorFacts
<1> HIDE DEF s
<1>3. CASE ~s.code \/ BackedSize(s) < n
  <2>1. FoundIn(s, rule) = {}
    <3> SUFFICES ASSUME NEW rva \in Nat, Fits(s, rule, rva) PROVE FALSE
      BY SizesAssumption DEF FoundIn
    <3> QED BY <1>1, <1>2, <1>3 DEF Fits
  <2>2. Scan(s, rule) = <<>>
    BY <1>3 DEF Scan
  <2> QED BY <2>1, <2>2, ListsNone DEF s
<1>4. CASE s.code /\ ~(BackedSize(s) < n)
  <2>1. n <= BackedSize(s) /\ ~(LastAnchor(s, rule) < Anchor(rule))
    BY <1>1, <1>2, <1>4 DEF LastAnchor
  <2>2. Scan(s, rule) = Search(s, rule)[Anchor(rule)]
    BY <1>4, <2>1 DEF Scan
  <2>3. Lists(Search(s, rule)[Anchor(rule)], FoundIn(s, rule))
    BY <1>4, <2>1, SearchLists, FoundFromFirst DEF s
  <2> QED BY <2>2, <2>3 DEF s
<1> QED BY <1>3, <1>4

-----------------------------------------------------------------------------
(* Matches in the image                                                    *)

\* The matches in the first sections.
FoundUpTo(m, rule) == UNION {FoundIn(image.sections[k], rule) : k \in 1 .. m}

\* The sections are searched one after another.
SearchesIn(h, rule) ==
  h = [i \in 0 .. Len(image.sections) |->
         IF i = 0 THEN <<>> ELSE h[i - 1] \o Scan(image.sections[i], rule)]

\* Searches goes from section to section.
LEMMA SearchesSteps ==
  ASSUME image \in Images, Accepted, NEW rule \in Rules, Searchable(rule)
  PROVE  LET h == Searches(rule)
             m == Len(image.sections)
         IN  /\ m \in Nat /\ DOMAIN image.sections = 1 .. m
             /\ h[0] = <<>>
             /\ \A i \in 1 .. m : h[i] = h[i - 1] \o Scan(image.sections[i], rule)
<1> DEFINE m == Len(image.sections)
           step == [x \in Seq(Nat) \X (1 .. m) |-> x[1] \o Scan(image.sections[x[2]], rule)]
<1>1. m \in Nat /\ DOMAIN image.sections = 1 .. m
  BY ImagesAssumption
<1>2. \A i \in 1 .. m : Scan(image.sections[i], rule) \in Seq(Nat)
  BY <1>1, ScanLists DEF Lists
<1>3. IsStep(step, Seq(Nat), m)
  <2>1. ASSUME NEW x \in Seq(Nat) \X (1 .. m)
        PROVE  x[1] \o Scan(image.sections[x[2]], rule) \in Seq(Nat)
    BY <1>2, ConcatProperties
  <2> QED BY <2>1 DEF IsStep
<1>4. \A x \in Seq(Nat), i \in 1 .. m : step[<<x, i>>] = x \o Scan(image.sections[i], rule)
  OBVIOUS
<1> HIDE DEF step, m
<1>5. PICK g : Obeys(g, Seq(Nat), <<>>, m, step)
  <2>1. <<>> \in Seq(Nat)
    OBVIOUS
  <2> DEFINE S == Seq(Nat)
             base == <<>>
  <2> HIDE DEF S, base
  <2>2. base \in S /\ IsStep(step, S, m)
    BY <1>3, <2>1 DEF S, base
  <2>3. \E g : Obeys(g, S, base, m, step)
    BY <1>1, <2>2, Recursion
  <2> QED BY <2>3 DEF S, base
<1>6. g \in [0 .. m -> Seq(Nat)] /\ g[0] = <<>>
  BY <1>5 DEF Obeys
<1>7. ASSUME NEW i \in 0 .. m
      PROVE  g[i] = IF i = 0 THEN <<>> ELSE g[i - 1] \o Scan(image.sections[i], rule)
  <2>1. CASE i = 0
    BY <1>6, <2>1
  <2>2. CASE i # 0
    <3>1. i \in 1 .. m /\ i - 1 \in 0 .. m
      BY <1>1, <2>2
    <3>2. g[i] = step[<<g[i - 1], i>>] /\ g[i - 1] \in Seq(Nat)
      BY <1>5, <1>6, <3>1 DEF Obeys
    <3> QED BY <1>4, <2>2, <3>1, <3>2
  <2> QED BY <2>1, <2>2
<1>8. SearchesIn(g, rule)
  BY <1>6, <1>7 DEF SearchesIn, m
<1>9. Searches(rule) = CHOOSE h : SearchesIn(h, rule)
  BY DEF Searches, SearchesIn
<1>10. SearchesIn(Searches(rule), rule)
  BY <1>8, <1>9
<1> DEFINE h == Searches(rule)
<1> HIDE DEF h
<1>11. \A i \in 0 .. m : h[i] = IF i = 0 THEN <<>> ELSE h[i - 1] \o Scan(image.sections[i], rule)
  BY <1>10 DEF SearchesIn, m, h
<1>12. ASSUME NEW i \in 1 .. m PROVE h[i] = h[i - 1] \o Scan(image.sections[i], rule)
  <2>1. i \in 0 .. m /\ i # 0
    BY <1>1
  <2> QED BY <1>11, <2>1
<1>13. h[0] = <<>>
  <2>1. 0 \in 0 .. m
    BY <1>1
  <2> QED BY <1>11, <2>1
<1> QED BY <1>1, <1>12, <1>13 DEF h, m

\* No address is found in two sections.
LEMMA FoundOnce ==
  ASSUME image \in Images, Accepted, NEW rule \in Rules, Searchable(rule),
         NEW i \in DOMAIN image.sections, NEW j \in DOMAIN image.sections, NEW rva,
         rva \in FoundIn(image.sections[i], rule), rva \in FoundIn(image.sections[j], rule)
  PROVE  i = j
<1>1. rva \in Nat /\ Len(rule.bytes) \in Nat /\ Len(rule.bytes) # 0
  BY AnchorFacts, SizesAssumption DEF FoundIn
<1>2. ASSUME NEW k \in DOMAIN image.sections, rva \in FoundIn(image.sections[k], rule)
      PROVE  Holds(image.sections[k], rva)
  <2> DEFINE s == image.sections[k]
  <2>1. s.rva \in Nat /\ s.size \in Nat /\ BackedSize(s) \in Nat /\ BackedSize(s) <= s.size
    BY BackedFacts
  <2>2. s.rva <= rva /\ rva + Len(rule.bytes) <= s.rva + BackedSize(s)
    BY <1>2 DEF FoundIn, Fits
  <2> HIDE DEF s
  <2>3. Holds(s, rva)
    BY <1>1, <2>1, <2>2 DEF Holds
  <2> QED BY <2>3 DEF s
<1> QED BY <1>1, <1>2, OneHolder

\* find() lists the matches of all sections, each once.
LEMMA HitsList ==
  ASSUME image \in Images, Accepted, NEW rule \in Rules, Searchable(rule)
  PROVE  Lists(Hits(rule), FoundUpTo(Len(image.sections), rule))
<1> DEFINE m == Len(image.sections)
           h == Searches(rule)
           T == {i \in Nat : i <= m => Lists(h[i], FoundUpTo(i, rule))}
<1>1. /\ m \in Nat /\ DOMAIN image.sections = 1 .. m
      /\ h[0] = <<>>
      /\ \A i \in 1 .. m : h[i] = h[i - 1] \o Scan(image.sections[i], rule)
  BY SearchesSteps
<1> HIDE DEF m, h
<1>2. 0 \in T
  <2>1. FoundUpTo(0, rule) = {}
    BY DEF FoundUpTo
  <2>2. Lists(h[0], FoundUpTo(0, rule))
    BY <1>1, <2>1, ListsNone
  <2> QED BY <2>2
<1>3. ASSUME NEW i \in Nat, i \in T PROVE i + 1 \in T
  <2> SUFFICES ASSUME i + 1 <= m PROVE Lists(h[i + 1], FoundUpTo(i + 1, rule))
    OBVIOUS
  <2> DEFINE j == i + 1
             new == FoundIn(image.sections[j], rule)
  <2>1. j \in 1 .. m /\ j - 1 = i /\ i <= m
    BY <1>1
  <2>2. Lists(h[i], FoundUpTo(i, rule))
    BY <1>3, <2>1
  <2>3. \A k \in 1 .. j : k = j \/ k \in 1 .. i
    OBVIOUS
  <2>4. j \in 1 .. j /\ \A k \in 1 .. i : k \in 1 .. j /\ k # j /\ k \in 1 .. m
    BY <2>1, <1>1
  <2> HIDE DEF j
  <2>5. Lists(Scan(image.sections[j], rule), new)
    BY <1>1, <2>1, ScanLists
  <2>6. FoundUpTo(j, rule) = FoundUpTo(i, rule) \cup new
    BY <2>3, <2>4 DEF FoundUpTo
  <2>7. FoundUpTo(i, rule) \cap new = {}
    <3> SUFFICES ASSUME NEW k \in 1 .. i, NEW rva,
                        rva \in FoundIn(image.sections[k], rule), rva \in new
                 PROVE  FALSE
      BY DEF FoundUpTo
    <3>1. k = j
      BY <1>1, <2>1, <2>4, FoundOnce
    <3> QED BY <2>4, <3>1
  <2>8. h[j] = h[i] \o Scan(image.sections[j], rule)
    BY <1>1, <2>1
  <2> HIDE DEF new
  <2>9. Lists(h[j], FoundUpTo(j, rule))
    BY <2>2, <2>5, <2>6, <2>7, <2>8, ListsBoth
  <2> QED BY <2>9 DEF j
<1>4. \A i \in Nat : i \in T
  <2> HIDE DEF T
  <2> QED BY <1>2, <1>3, SetInduction
<1>5. Lists(h[m], FoundUpTo(m, rule))
  BY <1>1, <1>4
<1> QED BY <1>5 DEF Hits, h, m

\* Where a rule lies in a code section, it matches just when the bytes that a
\* loader puts at each of its addresses are those it asks for.
LEMMA MatchStands ==
  ASSUME image \in Images, Accepted, NEW rule \in Rules, Searchable(rule),
         NEW k \in DOMAIN image.sections, NEW rva \in Nat,
         Fits(image.sections[k], rule, rva)
  PROVE  matches(rva, rule) <=> StandsAt(rule, rva)
<1> DEFINE s == image.sections[k]
           n == Len(rule.bytes)
<1>1. n \in Nat /\ n # 0 /\ DOMAIN rule.bytes = 1 .. n
  BY AnchorFacts, RuleTypes
<1>2. /\ Viewable(rva, n) /\ section(rva, n) = s
      /\ matches(rva, rule) <=>
           \A i \in 1 .. n : rule.mask[i] => Byte(s, rva - s.rva + i - 1) = rule.bytes[i]
  BY <1>1, MatchesInSection
<1>3. s.rva \in Nat /\ Base(s) \in Nat
  BY BackedFacts
<1>4. s \in ToSet(image.sections) /\ s.rva <= rva
  BY DEF ToSet, Fits
<1>5. ASSUME NEW i \in 1 .. n
      PROVE  Sources(rva + i - 1) = {Base(s) + (rva - s.rva + i - 1)}
  <2> DEFINE b == ViewAt(rva, n)[i]
  <2>1. Sources(rva + i - 1) = {b}
    BY <1>1, <1>2, ViewBacked
  <2>2. b = Base(s) + (rva - s.rva) + i - 1
    BY <1>2 DEF ViewAt
  <2>3. Base(s) + (rva - s.rva) + i - 1 = Base(s) + (rva - s.rva + i - 1)
    <3>1. i \in Nat
      BY <1>1
    <3> HIDE DEF s
    <3> QED BY <1>3, <3>1
  <2> QED BY <2>1, <2>2, <2>3
<1>6. StandsAt(rule, rva) <=>
        \A i \in 1 .. n :
          rule.mask[i] => \A b \in Sources(rva + i - 1) : image.bytes[b] = rule.bytes[i]
  BY <1>1, <1>4 DEF StandsAt, Fits
<1>7. ASSUME NEW i \in 1 .. n
      PROVE  (\A b \in Sources(rva + i - 1) : image.bytes[b] = rule.bytes[i])
               <=> Byte(s, rva - s.rva + i - 1) = rule.bytes[i]
  BY <1>5 DEF Byte
<1> QED BY <1>2, <1>6, <1>7

\* find() returns the addresses where the rule stands, each once.
LEMMA FindExact ==
  ASSUME image \in Images, Accepted, NEW rule \in Rules, Searchable(rule)
  PROVE  /\ ToSet(Hits(rule)) = {rva \in 0 .. ImageSize : StandsAt(rule, rva)}
         /\ Len(Hits(rule)) = Cardinality(ToSet(Hits(rule)))
<1> DEFINE found == FoundUpTo(Len(image.sections), rule)
           standing == {rva \in 0 .. ImageSize : StandsAt(rule, rva)}
<1>1. DOMAIN image.sections = 1 .. Len(image.sections)
  BY ImagesAssumption
<1>2. \A rva \in 0 .. ImageSize : rva \in Nat
  BY SizesAssumption
<1>3. ASSUME NEW rva \in found PROVE rva \in standing
  <2>1. PICK k \in DOMAIN image.sections : rva \in FoundIn(image.sections[k], rule)
    BY <1>1 DEF FoundUpTo
  <2> QED BY <1>2, <2>1, MatchStands DEF FoundIn
<1>4. ASSUME NEW rva \in standing PROVE rva \in found
  <2>1. PICK k \in DOMAIN image.sections : Fits(image.sections[k], rule, rva)
    BY DEF StandsAt, Fits, ToSet
  <2>2. rva \in FoundIn(image.sections[k], rule)
    BY <1>2, <2>1, MatchStands DEF FoundIn
  <2> QED BY <1>1, <2>2 DEF FoundUpTo
<1>5. found = standing
  BY <1>3, <1>4
<1>6. Lists(Hits(rule), standing)
  BY <1>5, HitsList
<1> QED BY <1>6, ListsLength

-----------------------------------------------------------------------------
\* Nothing has been viewed at the start.
LEMMA InitInv == Init => IInv
BY DEF Init, ImageInit, IInv, ViewsAreBacked, FindIsExact, NoAnswer

\* A view of an accepted image is backed, also when it is empty because
\* view() threw.
LEMMA ViewInv ==
  ASSUME IInv, NEW rva \in 0 .. ImageSize, NEW length \in 1 .. MaxView,
         View(rva, length)
  PROVE  IInv'
<1>1. /\ stage = "open" /\ image \in Images /\ Accepted
      /\ UNCHANGED <<image, stage>>
  BY DEF IInv, View
<1>2. /\ answer'.call = "view" /\ answer'.rva = rva
      /\ answer'.result = IF Viewable(rva, length) THEN ViewAt(rva, length) ELSE <<>>
  BY DEF View
<1>3. rva \in Nat /\ length \in Nat \ {0}
  BY SizesAssumption
<1>4. ASSUME NEW k \in DOMAIN answer'.result
      PROVE  /\ rva + k - 1 \in Headers .. ImageSize - 1
             /\ answer'.result[k] \in DOMAIN image.bytes
             /\ Sources(rva + k - 1) = {answer'.result[k]}
  <2>1. Viewable(rva, length) /\ answer'.result = ViewAt(rva, length)
    BY <1>2
  <2>2. k \in 1 .. length
    BY <2>1 DEF ViewAt
  <2> QED
    BY <1>1, <1>3, <2>1, <2>2, ViewBacked
<1>5. Accepted' /\ \A a : Sources(a)' = Sources(a)
  BY <1>1 DEF Accepted, SectionFits, SectionsApart, Sources, BackedSize, Base
<1>6. ViewsAreBacked'
  BY <1>1, <1>2, <1>4 DEF ViewsAreBacked, Sources, BackedSize, Base
<1>7. FindIsExact'
  BY <1>2 DEF FindIsExact
<1> QED
  BY <1>1, <1>5, <1>6, <1>7 DEF IInv

\* A search of an accepted image finds each match once.
LEMMA FindInv ==
  ASSUME IInv, NEW rule \in Rules, Find(rule)
  PROVE  IInv'
<1>1. /\ stage = "open" /\ image \in Images /\ Accepted /\ Searchable(rule)
      /\ UNCHANGED <<image, stage>>
  BY DEF IInv, Find
<1>2. answer'.call = "find" /\ answer'.rule = rule /\ answer'.result = Hits(rule)
  BY DEF Find
<1>3. Accepted'
  BY <1>1 DEF Accepted, SectionFits, SectionsApart
<1>4. ViewsAreBacked'
  BY <1>2 DEF ViewsAreBacked
<1>5. /\ ToSet(Hits(rule)) = {rva \in 0 .. ImageSize : StandsAt(rule, rva)}
      /\ Len(Hits(rule)) = Cardinality(ToSet(Hits(rule)))
  BY <1>1, FindExact
<1>6. ASSUME NEW rva PROVE StandsAt(answer.rule, rva)' <=> StandsAt(rule, rva)
  <2>1. \A place : Sources(place)' = Sources(place)
    BY <1>1 DEF Sources, BackedSize, Base
  <2>2. \A s : BackedSize(s)' = BackedSize(s)
    BY <1>1 DEF BackedSize
  <2> QED BY <1>1, <1>2, <2>1, <2>2 DEF StandsAt
<1>7. FindIsExact'
  <2>1. {rva \in 0 .. ImageSize : StandsAt(answer.rule, rva)}'
          = {rva \in 0 .. ImageSize : StandsAt(rule, rva)}
    BY <1>6
  <2> QED BY <1>2, <1>5, <2>1 DEF FindIsExact
<1> QED
  BY <1>1, <1>3, <1>4, <1>7 DEF IInv

\* A step that leaves the image and the answer alone keeps them exact.
LEMMA SameAnswer ==
  ASSUME ViewsAreBacked, FindIsExact, UNCHANGED <<image, answer>>
  PROVE  ViewsAreBacked' /\ FindIsExact'
<1>1. \A rva : Sources(rva)' = Sources(rva)
  BY DEF Sources, BackedSize, Base
<1>2. \A s : BackedSize(s)' = BackedSize(s)
  BY DEF BackedSize
<1>3. ViewsAreBacked'
  BY <1>1 DEF ViewsAreBacked
<1>4. FindIsExact'
  <2>1. ASSUME NEW rva PROVE StandsAt(answer.rule, rva)' <=> StandsAt(answer.rule, rva)
    BY <1>1, <1>2 DEF StandsAt
  <2>2. {rva \in 0 .. ImageSize : StandsAt(answer.rule, rva)}'
          = {rva \in 0 .. ImageSize : StandsAt(answer.rule, rva)}
    BY <2>1
  <2> QED BY <2>2 DEF FindIsExact
<1> QED
  BY <1>3, <1>4

\* The invariant is inductive.
LEMMA NextInv == IInv /\ [Next]_vars => IInv'
<1> SUFFICES ASSUME IInv, [Next]_vars PROVE IInv'
  OBVIOUS
<1>1. CASE Construct
  BY <1>1, SameAnswer DEF Construct, IInv, Accepted, SectionFits, SectionsApart
<1>2. ASSUME NEW rva \in 0 .. ImageSize, NEW length \in 1 .. MaxView,
             View(rva, length)
      PROVE  IInv'
  BY <1>2, ViewInv
<1>3. ASSUME NEW rule \in Rules, Find(rule) PROVE IInv'
  BY <1>3, FindInv
<1>4. CASE UNCHANGED imageVars
  BY <1>4, SameAnswer DEF imageVars, IInv, Accepted, SectionFits, SectionsApart
<1> QED
  BY <1>1, <1>2, <1>3, <1>4 DEF Next, ImageNext, vars

\* An opened image keeps to its accepted table, and what view() and find()
\* return of it is exact (the constructor, view, matches and find).
THEOREM ImageInvariance == Spec => []IInv
BY InitInv, NextInv, PTL DEF Spec

\* view() never returns a byte outside the image, outside the bytes there are,
\* or of another address, whatever 32-bit numbers the table holds.
THEOREM ViewsStayInside == Spec => []ViewsAreBacked
BY ImageInvariance, PTL DEF IInv

\* find() misses no place of a code section where the rule's fixed bytes stand,
\* returns no other, and none twice: what unique() and locate() take for unique
\* is unique in the code, of every accepted table, content and rule.
THEOREM SearchIsExact == Spec => []FindIsExact
BY ImageInvariance, PTL DEF IInv
=============================================================================
