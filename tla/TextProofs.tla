----------------------------- MODULE TextProofs -----------------------------
(***************************************************************************)
(* IniFile and Wire: what is read of a text is what was written in it.     *)
(* First files of any number of lines, with any names and values: the      *)
(* helpers, then the loop over the lines. Then the addresses, their texts, *)
(* and the packet of a node, however many interfaces it has.               *)
(* The two are proved in one module for the lemmas they share.             *)
(***************************************************************************)
EXTENDS IniFile, Wire, SequenceTheorems, WellFoundedInduction, TLAPS

\* A set of numbers has a least one.
LEMMA LeastNumber ==
  ASSUME NEW T \in SUBSET Nat, T # {}
  PROVE  \E m \in T : \A k \in T : m <= k
<1>1. \E x \in T : \A y \in T : ~(<<y, x>> \in OpToRel(<, Nat))
  BY NatLessThanWellFounded, WFMin
<1>2. \E x \in T : \A y \in T : ~(y < x)
  BY <1>1 DEF OpToRel
<1> QED
  BY <1>2

\* Induction on the numbers up to N, for a set instead of a property.
LEMMA Induction ==
  ASSUME NEW N \in Nat, NEW T \in SUBSET (0..N), 0 \in T,
         \A n \in 1..N : n - 1 \in T => n \in T
  PROVE  T = 0..N
<1> SUFFICES ASSUME (0..N) \ T # {} PROVE FALSE
  OBVIOUS
<1> DEFINE Rest == (0..N) \ T
<1>1. PICK m \in Rest : \A k \in Rest : m <= k
  <2>1. Rest \in SUBSET Nat /\ Rest # {}
    OBVIOUS
  <2> HIDE DEF Rest
  <2> QED
    BY <2>1, LeastNumber
<1>2. m # 0 /\ m - 1 \in 0..N
  BY <1>1
<1>3. m - 1 \in T
  BY <1>1, <1>2
<1> QED
  BY <1>1, <1>2, <1>3

\* The least and the greatest of the numbers up to N that are in a set.
LEMMA LeastOf ==
  ASSUME NEW N \in Nat, NEW T \in SUBSET (0..N), T # {}
  PROVE  Min(T) \in T /\ \A k \in T : Min(T) <= k
<1>1. \E m \in T : \A k \in T : m <= k
  <2>1. T \in SUBSET Nat
    OBVIOUS
  <2> QED
    BY <2>1, LeastNumber
<1> QED
  BY <1>1 DEF Min

LEMMA GreatestOf ==
  ASSUME NEW N \in Nat, NEW T \in SUBSET (0..N), T # {}
  PROVE  Max(T) \in T /\ \A k \in T : Max(T) >= k
<1> DEFINE Below == {N - k : k \in T}
<1>1. PICK m \in Below : \A k \in Below : m <= k
  <2>1. Below \in SUBSET Nat
    OBVIOUS
  <2>2. Below # {}
    <3>1. PICK k \in T : TRUE
      OBVIOUS
    <3>2. N - k \in Below
      OBVIOUS
    <3> QED
      BY <3>2
  <2> HIDE DEF Below
  <2> QED
    BY <2>1, <2>2, LeastNumber
<1>2. PICK g \in T : m = N - g
  OBVIOUS
<1>3. \A k \in T : g >= k
  <2> SUFFICES ASSUME NEW k \in T PROVE g >= k
    OBVIOUS
  <2>1. N - k \in Below
    OBVIOUS
  <2>2. g \in 0..N /\ k \in 0..N
    OBVIOUS
  <2> QED
    BY <1>1, <1>2, <2>1, <2>2
<1>4. \E g2 \in T : \A k \in T : g2 >= k
  BY <1>3
<1> QED
  BY <1>4 DEF Max

-----------------------------------------------------------------------------
(* The helpers: what they return, for any text.                            *)

\* find_first_of: the place of the first character c, or npos.
LEMMA FirstOfText ==
  ASSUME NEW S, NEW l \in Seq(S), NEW c
  PROVE  \/ FirstOf(l, c) = -1 /\ \A i \in 1..Len(l) : l[i] # c
         \/ /\ FirstOf(l, c) \in 0..(Len(l) - 1)
            /\ l[FirstOf(l, c) + 1] = c
            /\ \A i \in 1..FirstOf(l, c) : l[i] # c
<1> DEFINE I == {i \in 1..Len(l) : l[i] = c}
<1>1. FirstOf(l, c) = (IF I # {} THEN Min(I) ELSE 0) - 1
  BY DEF FirstOf, SelectInSeq
<1>2. Len(l) \in Nat
  OBVIOUS
<1>3. CASE I = {}
  BY <1>1, <1>3
<1>4. CASE I # {}
  <2>1. I \in SUBSET (0..Len(l))
    OBVIOUS
  <2>2. Min(I) \in I /\ \A k \in I : Min(I) <= k
    <3> HIDE DEF I
    <3> QED
      BY <1>2, <1>4, <2>1, LeastOf
  <2>3. Min(I) \in 1..Len(l) /\ l[Min(I)] = c
    BY <2>2
  <2>4. \A i \in 1..(Min(I) - 1) : l[i] # c
    <3> SUFFICES ASSUME NEW i \in 1..(Min(I) - 1), l[i] = c PROVE FALSE
      OBVIOUS
    <3>1. i \in I
      BY <1>2, <2>3
    <3>2. Min(I) <= i
      BY <2>2, <3>1
    <3> QED
      BY <2>3, <3>2
  <2> HIDE DEF I
  <2>5. FirstOf(l, c) = Min(I) - 1
    BY <1>1, <1>4
  <2> QED
    BY <1>2, <2>3, <2>4, <2>5
<1> QED
  BY <1>3, <1>4

\* The first n characters.
LEMMA TakeText ==
  ASSUME NEW S, NEW l \in Seq(S), NEW n \in Int
  PROVE  /\ Take(l, n) \in Seq(S)
         /\ Len(Take(l, n)) = IF n < 0 THEN 0 ELSE IF n < Len(l) THEN n ELSE Len(l)
         /\ \A i \in 1..Len(Take(l, n)) : Take(l, n)[i] = l[i]
<1> DEFINE m == IF n < Len(l) THEN n ELSE Len(l)
<1>1. m \in Int /\ m <= Len(l) /\ Len(l) \in Nat
  OBVIOUS
<1>2. \A i \in 1..m : l[i] \in S
  BY <1>1
<1>3. Take(l, n) = SubSeq(l, 1, m)
  BY DEF Take
<1> HIDE DEF m
<1>4. /\ SubSeq(l, 1, m) \in Seq(S)
      /\ Len(SubSeq(l, 1, m)) = IF 1 <= m THEN m - 1 + 1 ELSE 0
      /\ \A i \in 1..(m - 1 + 1) : SubSeq(l, 1, m)[i] = l[1 + i - 1]
  BY <1>1, <1>2, SubSeqProperties
<1>5. \A i \in 1..Len(Take(l, n)) : Take(l, n)[i] = l[i]
  BY <1>1, <1>3, <1>4
<1> QED
  BY <1>1, <1>3, <1>4, <1>5 DEF m

\* length characters behind the first from.
LEMMA SubstrText ==
  ASSUME NEW S, NEW l \in Seq(S), NEW from \in Nat, NEW length \in Nat
  PROVE  /\ Substr(l, from, length) \in Seq(S)
         /\ Len(Substr(l, from, length)) =
              IF from + length < Len(l) THEN length
              ELSE IF from < Len(l) THEN Len(l) - from ELSE 0
         /\ \A i \in 1..Len(Substr(l, from, length)) : Substr(l, from, length)[i] = l[from + i]
<1> DEFINE n == IF from + length < Len(l) THEN from + length ELSE Len(l)
           t == SubSeq(l, from + 1, n)
<1>1. n \in Nat /\ n <= Len(l) /\ Len(l) \in Nat
  OBVIOUS
<1>2. \A i \in (from + 1)..n : l[i] \in S
  BY <1>1
<1>3. Substr(l, from, length) = t
  BY DEF Substr
<1> HIDE DEF n
<1>4. /\ t \in Seq(S)
      /\ Len(t) = IF from + 1 <= n THEN n - (from + 1) + 1 ELSE 0
      /\ \A i \in 1..(n - (from + 1) + 1) : t[i] = l[from + 1 + i - 1]
  BY <1>1, <1>2, SubSeqProperties
<1> HIDE DEF t
<1>5. \A i \in 1..Len(t) : t[i] = l[from + i]
  BY <1>1, <1>4
<1>6. Len(t) = IF from + length < Len(l) THEN length
               ELSE IF from < Len(l) THEN Len(l) - from ELSE 0
  BY <1>1, <1>4 DEF n
<1> QED
  BY <1>3, <1>4, <1>5, <1>6

\* A mark of a comment is a ";" or two slashes.
LEMMA Marks ==
  ASSUME NEW S, NEW l \in Seq(S), NEW i \in 1..Len(l)
  PROVE  i \in Comment(l) <=>
           l[i] = ";" \/ (l[i] = "/" /\ i + 1 \in 1..Len(l) /\ l[i + 1] = "/")
<1> DEFINE t == Substr(l, i - 1, 2)
<1>1. /\ t \in Seq(S)
      /\ Len(t) = IF i - 1 + 2 < Len(l) THEN 2 ELSE IF i - 1 < Len(l) THEN Len(l) - (i - 1) ELSE 0
      /\ \A k \in 1..Len(t) : t[k] = l[i - 1 + k]
  <2>1. i - 1 \in Nat /\ 2 \in Nat
    OBVIOUS
  <2> QED
    BY <2>1, SubstrText
<1>2. i \in Comment(l) <=> l[i] = ";" \/ t = <<"/", "/">>
  BY DEF Comment
<1> HIDE DEF t
<1>3. Len(l) \in Nat /\ i \in Nat
  OBVIOUS
<1>a. Len(t) = IF i + 1 < Len(l) THEN 2 ELSE Len(l) - i + 1
  BY <1>1, <1>3
<1>b. Len(t) = 2 => t[1] = l[i] /\ t[2] = l[i + 1]
  <2> SUFFICES ASSUME Len(t) = 2 PROVE t[1] = l[i] /\ t[2] = l[i + 1]
    OBVIOUS
  <2>1. 1 \in 1..Len(t) /\ 2 \in 1..Len(t)
    OBVIOUS
  <2>2. t[1] = l[i - 1 + 1] /\ t[2] = l[i - 1 + 2]
    BY <1>1, <2>1
  <2> QED
    BY <1>3, <2>2
<1>4. ASSUME t = <<"/", "/">>
      PROVE  l[i] = "/" /\ i + 1 \in 1..Len(l) /\ l[i + 1] = "/"
  <2>0. Len(t) = 2
    BY <1>4
  <2>1. t[1] = "/" /\ t[2] = "/"
    BY <1>4
  <2>2. i + 1 <= Len(l)
    <3>1. (IF i + 1 < Len(l) THEN 2 ELSE Len(l) - i + 1) = 2
      BY <1>a, <2>0
    <3> QED
      BY <1>3, <3>1
  <2>3. l[i] = "/" /\ l[i + 1] = "/"
    BY <1>b, <2>0, <2>1
  <2> QED
    BY <1>3, <2>2, <2>3
<1>5. ASSUME l[i] = "/", i + 1 \in 1..Len(l), l[i + 1] = "/"
      PROVE  t = <<"/", "/">>
  <2>1. Len(t) = 2
    BY <1>a, <1>3, <1>5
  <2>3. t[1] = "/" /\ t[2] = "/"
    BY <1>b, <1>5, <2>1
  <2> QED
    BY <1>1, <2>1, <2>3
<1> QED
  BY <1>2, <1>4, <1>5

\* The text of a line from its first character that is no space on.
Begin(line) == SelectInSeq(line, LAMBDA c : ~IsSpace(c))
From(line)  == SubSeq(line, Begin(line), Len(line))

LEMMA BeginText ==
  ASSUME NEW S, NEW line \in Seq(S), ~\A i \in 1..Len(line) : IsSpace(line[i])
  PROVE  /\ Begin(line) \in 1..Len(line) /\ ~IsSpace(line[Begin(line)])
         /\ \A i \in 1..(Begin(line) - 1) : IsSpace(line[i])
         /\ From(line) \in Seq(S)
         /\ Len(From(line)) = Len(line) - Begin(line) + 1
         /\ \A i \in 1..Len(From(line)) : From(line)[i] = line[Begin(line) + i - 1]
<1> DEFINE I == {i \in 1..Len(line) : ~IsSpace(line[i])}
<1>1. I # {} /\ I \in SUBSET (0..Len(line)) /\ Len(line) \in Nat
  OBVIOUS
<1>2. Begin(line) = Min(I)
  BY <1>1 DEF Begin, SelectInSeq
<1>3. Min(I) \in I /\ \A k \in I : Min(I) <= k
  <2> HIDE DEF I
  <2> QED
    BY <1>1, LeastOf
<1>4. Begin(line) \in 1..Len(line) /\ ~IsSpace(line[Begin(line)])
  BY <1>2, <1>3
<1>5. \A i \in 1..(Begin(line) - 1) : IsSpace(line[i])
  <2> SUFFICES ASSUME NEW i \in 1..(Begin(line) - 1), ~IsSpace(line[i]) PROVE FALSE
    OBVIOUS
  <2>1. i \in I
    BY <1>1, <1>4
  <2> QED
    BY <1>2, <1>3, <1>4, <2>1
<1> HIDE DEF I
<1>6. \A i \in Begin(line)..Len(line) : line[i] \in S
  BY <1>4
<1>7. /\ From(line) \in Seq(S)
      /\ Len(From(line)) = IF Begin(line) <= Len(line) THEN Len(line) - Begin(line) + 1 ELSE 0
      /\ \A i \in 1..(Len(line) - Begin(line) + 1) : From(line)[i] = line[Begin(line) + i - 1]
  <2>1. Begin(line) \in Int /\ Len(line) \in Int
    BY <1>4
  <2> QED
    BY <1>6, <2>1, SubSeqProperties DEF From
<1> QED
  BY <1>1, <1>4, <1>5, <1>7

\* The text before the first comment.
Code(text) ==
  Take(text, CHOOSE n \in 0..Len(text) :
               n + 1 \in Comment(text) /\ \A i \in 1..n : i \notin Comment(text))

LEMMA CodeText ==
  ASSUME NEW S, NEW text \in Seq(S), Comment(text) # {}
  PROVE  \E n \in 0..(Len(text) - 1) :
           /\ n + 1 \in Comment(text) /\ \A i \in 1..n : i \notin Comment(text)
           /\ Code(text) = Take(text, n)
<1>1. Comment(text) \in SUBSET (0..Len(text)) /\ Len(text) \in Nat
  <2>1. \A k \in Comment(text) : k \in 1..Len(text)
    BY DEF Comment
  <2> QED
    BY <2>1
<1>2. Min(Comment(text)) \in Comment(text) /\ \A k \in Comment(text) : Min(Comment(text)) <= k
  BY <1>1, LeastOf
<1> DEFINE P(n) == n + 1 \in Comment(text) /\ \A i \in 1..n : i \notin Comment(text)
           n0 == Min(Comment(text)) - 1
<1>3. Min(Comment(text)) \in 1..Len(text)
  BY <1>2 DEF Comment
<1>4. n0 \in 0..Len(text) /\ P(n0)
  BY <1>1, <1>2, <1>3
<1> DEFINE n1 == CHOOSE n \in 0..Len(text) : P(n)
<1>5. n1 \in 0..Len(text) /\ P(n1)
  <2> HIDE DEF P, n0
  <2> QED
    BY <1>4
<1>6. Code(text) = Take(text, n1)
  BY DEF Code
<1>7. n1 + 1 \in 1..Len(text)
  BY <1>5 DEF Comment
<1> HIDE DEF n1
<1>8. n1 \in 0..(Len(text) - 1)
  BY <1>1, <1>5, <1>7
<1> QED
  BY <1>5, <1>6, <1>8

LastSpace(code) == SelectLastInSeq(code, LAMBDA c : IsSpace(c))

LEMMA LastSpaceText ==
  ASSUME NEW S, NEW code \in Seq(S)
  PROVE  \/ LastSpace(code) = 0 /\ \A i \in 1..Len(code) : ~IsSpace(code[i])
         \/ /\ LastSpace(code) \in 1..Len(code) /\ IsSpace(code[LastSpace(code)])
            /\ \A i \in 1..Len(code) : IsSpace(code[i]) => i <= LastSpace(code)
<1> DEFINE I == {i \in 1..Len(code) : IsSpace(code[i])}
<1>1. I \in SUBSET (0..Len(code)) /\ Len(code) \in Nat
  OBVIOUS
<1>2. LastSpace(code) = IF I # {} THEN Max(I) ELSE 0
  BY DEF LastSpace, SelectLastInSeq
<1>3. CASE I = {}
  BY <1>2, <1>3
<1>4. CASE I # {}
  <2>1. Max(I) \in I /\ \A k \in I : Max(I) >= k
    <3> HIDE DEF I
    <3> QED
      BY <1>1, <1>4, GreatestOf
  <2>2. LastSpace(code) = Max(I)
    BY <1>2, <1>4
  <2>3. LastSpace(code) \in I /\ \A k \in I : LastSpace(code) >= k
    BY <2>1, <2>2
  <2>4. LastSpace(code) \in 1..Len(code) /\ IsSpace(code[LastSpace(code)])
    BY <2>3
  <2>5. ASSUME NEW i \in 1..Len(code), IsSpace(code[i])
        PROVE  i <= LastSpace(code)
    <3>1. i \in I
      BY <2>5
    <3> QED
      BY <2>3, <2>4, <3>1
  <2> QED
    BY <2>4, <2>5
<1> QED
  BY <1>3, <1>4

\* Trim in its parts.
LEMMA TrimParts ==
  ASSUME NEW line
  PROVE  Trim(line) =
           IF \A i \in 1..Len(line) : IsSpace(line[i]) THEN <<>>
           ELSE IF Comment(From(line)) = {} THEN From(line)
           ELSE Take(Code(From(line)), LastSpace(Code(From(line))) - 1)
BY DEF Trim, From, Begin, Code, LastSpace

LEMMA TrimType ==
  ASSUME NEW S, NEW line \in Seq(S)
  PROVE  Trim(line) \in Seq(S)
<1>1. CASE \A i \in 1..Len(line) : IsSpace(line[i])
  <2>1. Trim(line) = <<>>
    BY <1>1, TrimParts
  <2> QED
    BY <2>1
<1>2. CASE ~\A i \in 1..Len(line) : IsSpace(line[i])
  <2>1. From(line) \in Seq(S)
    BY <1>2, BeginText
  <2>2. CASE Comment(From(line)) = {}
    BY <1>2, <2>1, <2>2, TrimParts
  <2>3. CASE Comment(From(line)) # {}
    <3>1. Code(From(line)) \in Seq(S)
      <4>1. PICK n \in 0..(Len(From(line)) - 1) : Code(From(line)) = Take(From(line), n)
        BY <2>1, <2>3, CodeText
      <4> QED
        BY <2>1, <4>1, TakeText
    <3>2. LastSpace(Code(From(line))) - 1 \in Int
      BY <3>1, LastSpaceText
    <3>3. Take(Code(From(line)), LastSpace(Code(From(line))) - 1) \in Seq(S)
      BY <3>1, <3>2, TakeText
    <3> QED
      BY <1>2, <2>3, <3>3, TrimParts
  <2> QED
    BY <2>2, <2>3
<1> QED
  BY <1>1, <1>2

-----------------------------------------------------------------------------
(* Types.                                                                  *)
LEMMA LinesText ==
  ASSUME NEW l \in Lines
  PROVE  l \in Text
<1>1. l \in Seq(STRING)
  BY IniFileAssumption
<1>2. l \in Seq(Range(l))
  BY <1>1, SeqOfRange
<1>3. Range(l) \subseteq Characters
  BY DEF Characters
<1> QED
  BY <1>2, <1>3, SeqMonotonic DEF Text

LEMMA SectionText ==
  ASSUME NEW S, NEW l \in Seq(S)
  PROVE  InterpretIniSection(l) \in Seq(S)
<1> DEFINE a == FirstOf(l, "[")
           b == FirstOf(l, "]")
<1>1. CASE a >= 0 /\ b >= 1
  <2>1. a \in 0..(Len(l) - 1) /\ b \in 0..(Len(l) - 1)
    BY <1>1, FirstOfText
  <2>2. InterpretIniSection(l) = Substr(l, a + 1, b - 1)
    BY <1>1 DEF InterpretIniSection
  <2> HIDE DEF a, b
  <2>3. a + 1 \in Nat /\ b - 1 \in Nat
    BY <1>1, <2>1
  <2> QED
    BY <2>2, <2>3, SubstrText
<1>2. CASE ~(a >= 0 /\ b >= 1)
  <2>1. InterpretIniSection(l) = <<>>
    BY <1>2 DEF InterpretIniSection
  <2> QED
    BY <2>1
<1> QED
  BY <1>1, <1>2

LEMMA PairText ==
  ASSUME NEW S, NEW l \in Seq(S), IsPair(l)
  PROVE  KeyOf(l) \in Seq(S) /\ ValueOf(l) \in Seq(S)
<1> DEFINE e == FirstOf(l, "=")
           c == FirstOf(l, ";")
           n == IF c > 1 THEN c ELSE Len(l)
<1>1. e \in Nat
  BY FirstOfText DEF IsPair
<1>2. c = -1 \/ c \in 0..(Len(l) - 1)
  BY FirstOfText
<1>3. KeyOf(l) = Take(l, e) /\ ValueOf(l) = Substr(l, e + 1, n)
  BY DEF KeyOf, ValueOf
<1>4. Len(l) \in Nat
  OBVIOUS
<1> HIDE DEF e, c
<1>5. n \in Nat
  BY <1>2, <1>4
<1> HIDE DEF n
<1> QED
  BY <1>1, <1>3, <1>5, TakeText, SubstrText

\* Only a file that was opened is read.
Typed == TypeOK /\ (good => opened)

LEMMA IniInit == Init => Typed
<1> SUFFICES ASSUME Init PROVE Typed
  OBVIOUS
<1>1. file \in Seq(Lines)
  <2>1. PICK m \in 0..MaxLines : file \in [1..m -> Lines]
    BY DEF Init, SeqOf
  <2>2. m \in Nat
    BY IniFileAssumption
  <2> QED
    BY <2>1, <2>2, SeqDef
<1>2. <<>> \in Text /\ <<>> \in Seq([section : Text, key : Text, value : Text])
  BY DEF Text
<1>3. Len(file) \in Nat
  BY <1>1
<1>4. read \in 0..(IF opened THEN Len(file) ELSE 0)
  BY <1>3 DEF Init
<1> QED
  BY <1>1, <1>2, <1>4 DEF Init, Typed, TypeOK

\* What every step does.
LEMMA GetLineReads ==
  ASSUME Typed, GetLine
  PROVE  /\ opened /\ UNCHANGED <<file, opened>>
         /\ read \in 0..(Len(file) - 1) /\ read' = read + 1
         /\ good' = (Len(file[read + 1]) <= LineSize)
         /\ file[read + 1] \in Lines
         /\ TrimmedLine \in Text
<1>1. /\ good /\ read < Len(file) /\ read' = read + 1 /\ UNCHANGED <<file, opened>>
      /\ good' = (Len(file[read + 1]) <= LineSize)
  BY DEF GetLine
<1>2. opened
  BY <1>1 DEF Typed
<1>3. file \in Seq(Lines) /\ read \in 0..Len(file)
  BY <1>2 DEF Typed, TypeOK
<1>4. Len(file) \in Nat
  BY <1>3
<1>5. read \in 0..(Len(file) - 1) /\ read + 1 \in 1..Len(file)
  BY <1>1, <1>3, <1>4
<1>6. file[read + 1] \in Lines
  BY <1>3, <1>5
<1>7. file[read + 1] \in Text
  BY <1>6, LinesText
<1>8. Take(file[read + 1], LineSize) \in Text
  BY <1>7, TakeText, IniFileAssumption DEF Text
<1>9. TrimmedLine \in Text
  BY <1>8, TrimType DEF TrimmedLine, Text
<1> QED
  BY <1>1, <1>2, <1>5, <1>6, <1>9

\* What addCommandFunction is called with.
Entries == [section : Text, key : Text, value : Text]

LEMMA TypedStep ==
  ASSUME Typed, [Next]_vars
  PROVE  Typed'
<1>1. /\ file \in Seq(Lines) /\ added \in Seq(Entries)
      /\ section \in Text /\ key \in Text /\ multiline \in Text
      /\ multilineStart \in BOOLEAN /\ (multiline # <<>> => multilineStart)
  BY DEF Typed, TypeOK, Entries
<1>2. ASSUME GetLine
      PROVE  /\ file' \in Seq(Lines) /\ opened' \in BOOLEAN /\ good' \in BOOLEAN
             /\ read' \in 0..(IF opened' THEN Len(file') ELSE 0)
             /\ opened'
  <2>1. /\ opened /\ UNCHANGED <<file, opened>>
        /\ read \in 0..(Len(file) - 1) /\ read' = read + 1
        /\ good' = (Len(file[read + 1]) <= LineSize)
    BY <1>2, GetLineReads
  <2>2. Len(file) \in Nat
    BY <1>1
  <2>3. read' \in 0..Len(file')
    BY <2>1, <2>2
  <2> QED
    BY <1>1, <2>1, <2>3 DEF Typed, TypeOK
<1>3. ASSUME NEW k \in Text, NEW v \in Text, Add(k, v)
      PROVE  added' \in Seq(Entries)
  <2>1. [section |-> section, key |-> k, value |-> v] \in Entries
    BY <1>1 DEF Entries
  <2> QED
    BY <1>1, <1>3, <2>1, AppendProperties DEF Add
<1>4. ASSUME SkipComment
      PROVE  Typed'
  BY <1>1, <1>2, <1>4 DEF SkipComment, Typed, TypeOK, Entries
<1>5. ASSUME EndList
      PROVE  Typed'
  <2>1. added' \in Seq(Entries)
    BY <1>1, <1>3, <1>5 DEF EndList
  <2>2. <<>> \in Text
    BY DEF Text
  <2> QED
    BY <1>1, <1>2, <1>5, <2>1, <2>2 DEF EndList, Typed, TypeOK, Entries
<1>6. ASSUME ExtendList
      PROVE  Typed'
  <2>1. TrimmedLine \in Text
    BY <1>6, GetLineReads DEF ExtendList
  <2>2. multiline \o TrimmedLine \in Text
    BY <1>1, <2>1, ConcatProperties DEF Text
  <2> QED
    BY <1>1, <1>2, <1>6, <2>2 DEF ExtendList, Typed, TypeOK, Entries
<1>7. ASSUME BeginSection
      PROVE  Typed'
  <2>1. TrimmedLine \in Text
    BY <1>7, GetLineReads DEF BeginSection
  <2>2. InterpretIniSection(TrimmedLine) \in Text
    BY <2>1, SectionText DEF Text
  <2> QED
    BY <1>1, <1>2, <1>7, <2>2 DEF BeginSection, Typed, TypeOK, Entries
<1>8. ASSUME InterpretIniKeyValue
      PROVE  Typed'
  <2>1. TrimmedLine \in Text
    BY <1>8, GetLineReads DEF InterpretIniKeyValue
  <2>2. CASE IsPair(TrimmedLine)
    <3>1. KeyOf(TrimmedLine) \in Text /\ ValueOf(TrimmedLine) \in Text
      BY <2>1, <2>2, PairText DEF Text
    <3>2. added' \in Seq(Entries)
      BY <1>1, <1>3, <1>8, <2>2, <3>1 DEF InterpretIniKeyValue
    <3>3. OpensList(TrimmedLine) \in BOOLEAN
      BY DEF OpensList
    <3>4. multiline' = <<>> /\ multiline' \in Text
      BY <1>1, <1>8 DEF InterpretIniKeyValue
    <3> QED
      BY <1>1, <1>2, <1>8, <2>2, <3>1, <3>2, <3>3, <3>4
         DEF InterpretIniKeyValue, Typed, TypeOK, Entries
  <2>3. CASE ~IsPair(TrimmedLine)
    BY <1>1, <1>2, <1>8, <2>3 DEF InterpretIniKeyValue, Typed, TypeOK, Entries
  <2> QED
    BY <2>2, <2>3
<1>9. CASE UNCHANGED vars
  BY <1>9 DEF vars, Typed, TypeOK
<1> QED
  BY <1>4, <1>5, <1>6, <1>7, <1>8, <1>9 DEF Next

\* The reading of any file keeps its types, and outside a list no text of one.
THEOREM IniTypes == Spec => []TypeOK
<1>1. Typed => TypeOK
  BY DEF Typed
<1> QED
  BY <1>1, IniInit, TypedStep, PTL DEF Spec

-----------------------------------------------------------------------------
(* What is read of a usual line.                                           *)
Marking == {" ", ";", "/"}
Special == Marking \cup {"[", "]", "="}
Signs   == Characters \cup Special

LEMMA LineSays ==
  ASSUME NEW l \in Lines
  PROVE  /\ Says[l].kind \in {"comment", "section", "pair", "open", "item", "close"}
         /\ Says[l].name \in Text /\ Says[l].value \in Text
         /\ l \in Seq(Signs) /\ Says[l].name \in Seq(Signs) /\ Says[l].value \in Seq(Signs)
<1>1. /\ l \in Text /\ Says[l].name \in Text /\ Says[l].value \in Text
      /\ Says[l].kind \in {"comment", "section", "pair", "open", "item", "close"}
  BY LinesText, IniFileAssumption
<1>2. Characters \subseteq Signs
  BY DEF Signs
<1> QED
  BY <1>1, <1>2, SeqMonotonic DEF Text

\* Putting words together.
Free(t, Bad) == \A i \in 1..Len(t) : t[i] \notin Bad

Sign(c) == <<c>>

LEMMA OneSign ==
  ASSUME NEW S, NEW c \in S
  PROVE  /\ Sign(c) \in Seq(S) /\ Len(Sign(c)) = 1 /\ Sign(c)[1] = c
         /\ \A Bad : c \notin Bad => Free(Sign(c), Bad)
<1>1. Sign(c) \in Seq(S)
  BY DEF Sign
<1>2. Len(Sign(c)) = 1 /\ Sign(c)[1] = c
  BY DEF Sign
<1>3. \A i \in 1..Len(Sign(c)) : i = 1
  BY <1>2
<1> QED
  BY <1>1, <1>2, <1>3 DEF Free

LEMMA TwoTexts ==
  ASSUME NEW S, NEW a \in Seq(S), NEW b \in Seq(S)
  PROVE  /\ a \o b \in Seq(S) /\ Len(a \o b) = Len(a) + Len(b)
         /\ \A i \in 1..Len(a) : (a \o b)[i] = a[i]
         /\ \A i \in 1..Len(b) : (a \o b)[Len(a) + i] = b[i]
<1> DEFINE t == a \o b
<1>1. /\ t \in Seq(S) /\ Len(t) = Len(a) + Len(b)
      /\ \A i \in 1..Len(a) + Len(b) : t[i] = IF i <= Len(a) THEN a[i] ELSE b[i - Len(a)]
  BY ConcatProperties
<1>2. Len(a) \in Nat /\ Len(b) \in Nat
  OBVIOUS
<1> HIDE DEF t
<1>3. \A i \in 1..Len(a) : t[i] = a[i]
  BY <1>1, <1>2
<1>4. \A i \in 1..Len(b) : t[Len(a) + i] = b[i]
  <2> SUFFICES ASSUME NEW i \in 1..Len(b) PROVE t[Len(a) + i] = b[i]
    OBVIOUS
  <2>1. Len(a) + i \in 1..Len(a) + Len(b) /\ ~(Len(a) + i <= Len(a)) /\ Len(a) + i - Len(a) = i
    BY <1>2
  <2> QED
    BY <1>1, <2>1
<1> QED
  BY <1>1, <1>3, <1>4 DEF t

\* What is put together of texts free of something.
LEMMA FreeTexts ==
  ASSUME NEW S, NEW Bad, NEW a \in Seq(S), NEW b \in Seq(S), Free(a, Bad), Free(b, Bad)
  PROVE  Free(a \o b, Bad)
<1> DEFINE t == a \o b
<1>1. /\ Len(t) = Len(a) + Len(b)
      /\ \A i \in 1..Len(a) : t[i] = a[i]
      /\ \A i \in 1..Len(b) : t[Len(a) + i] = b[i]
  BY TwoTexts
<1>2. Len(a) \in Nat /\ Len(b) \in Nat
  OBVIOUS
<1> HIDE DEF t
<1>3. Free(t, Bad)
  <2> SUFFICES ASSUME NEW i \in 1..Len(t) PROVE t[i] \notin Bad
    BY DEF Free
  <2>1. CASE i \in 1..Len(a)
    BY <1>1, <2>1 DEF Free
  <2>2. CASE i \notin 1..Len(a)
    <3>1. i - Len(a) \in 1..Len(b) /\ i = Len(a) + (i - Len(a))
      BY <1>1, <1>2, <2>2
    <3>2. t[i] = b[i - Len(a)]
      BY <1>1, <3>1
    <3> QED
      BY <3>1, <3>2 DEF Free
  <2> QED
    BY <2>1, <2>2
<1> QED
  BY <1>3 DEF t

\* A character that is free is not found.
LEMMA FreeNotFound ==
  ASSUME NEW S, NEW t \in Seq(S), NEW Bad, Free(t, Bad), NEW c \in Bad
  PROVE  FirstOf(t, c) = -1
<1>1. CASE FirstOf(t, c) = -1
  BY <1>1
<1>2. CASE FirstOf(t, c) # -1
  <2>1. FirstOf(t, c) \in 0..(Len(t) - 1) /\ t[FirstOf(t, c) + 1] = c
    BY <1>2, FirstOfText
  <2>2. FirstOf(t, c) + 1 \in 1..Len(t)
    BY <2>1
  <2> QED
    BY <2>1, <2>2 DEF Free
<1> QED
  BY <1>1, <1>2

\* Where c is first found, if it is free before and there.
LEMMA FoundAt ==
  ASSUME NEW S, NEW t \in Seq(S), NEW c, NEW n \in Nat, n < Len(t), t[n + 1] = c,
         \A i \in 1..n : t[i] # c
  PROVE  FirstOf(t, c) = n
<1>1. n + 1 \in 1..Len(t)
  OBVIOUS
<1>2. /\ FirstOf(t, c) \in 0..(Len(t) - 1) /\ t[FirstOf(t, c) + 1] = c
      /\ \A i \in 1..FirstOf(t, c) : t[i] # c
  BY <1>1, FirstOfText
<1> DEFINE f == FirstOf(t, c)
<1> HIDE DEF f
<1>3. f \in 0..(Len(t) - 1) /\ t[f + 1] = c /\ \A i \in 1..f : t[i] # c
  BY <1>2 DEF f
<1>4. ~(f < n)
  <2> SUFFICES ASSUME f < n PROVE FALSE
    OBVIOUS
  <2>1. f + 1 \in 1..n
    BY <1>3
  <2> QED
    BY <1>3, <2>1
<1>5. ~(n < f)
  <2> SUFFICES ASSUME n < f PROVE FALSE
    OBVIOUS
  <2>1. n + 1 \in 1..f
    BY <1>3
  <2> QED
    BY <1>3, <2>1
<1>6. f = n
  BY <1>3, <1>4, <1>5
<1> QED
  BY <1>6 DEF f

\* The body of a usual line holds neither a space nor the mark of a comment.
LEMMA BodyText ==
  ASSUME NEW l \in Lines, AsUsual(l)
  PROVE  /\ Body(Says[l]) \in Seq(Signs)
         /\ Free(Body(Says[l]), Marking)
         /\ IF Says[l].kind = "comment" THEN Body(Says[l]) = <<>> ELSE Body(Says[l]) # <<>>
<1> DEFINE s == Says[l]
           b == Body(s)
           Good(t) == t \in Seq(Signs) /\ Free(t, Marking)
<1>1. /\ s.kind \in {"comment", "section", "pair", "open", "item", "close"}
      /\ s.name \in Seq(Signs) /\ s.value \in Seq(Signs)
  BY LineSays
<1>2. /\ Free(s.name, Special) /\ Free(s.value, Special)
      /\ s.kind = "item" => s.value # <<>>
  BY DEF AsUsual, Plain, Free, Special, Marking
<1>3. Good(s.name) /\ Good(s.value)
  BY <1>1, <1>2 DEF Free, Special
<1>4. ASSUME NEW c \in {"[", "]", "="}
      PROVE  Good(Sign(c)) /\ Len(Sign(c)) = 1
  BY OneSign DEF Signs, Special, Marking
<1>5. ASSUME NEW t, NEW u, Good(t), Good(u)
      PROVE  Good(t \o u) /\ Len(t \o u) = Len(t) + Len(u)
  BY <1>5, TwoTexts, FreeTexts
<1> HIDE DEF Good
<1>6. ASSUME NEW t, Good(t)
      PROVE  Len(t) \in Nat /\ (Len(t) # 0 => t # <<>>)
  BY <1>6 DEF Good
<1>7. CASE s.kind = "section"
  <2> DEFINE head == Sign("[") \o s.name
  <2>1. Body(s) = head \o Sign("]")
    BY <1>7 DEF Body, Sign
  <2>2. Good(head)
    BY <1>3, <1>4, <1>5
  <2> HIDE DEF head
  <2>3. Good(head \o Sign("]")) /\ Len(head \o Sign("]")) = Len(head) + 1
    BY <1>4, <1>5, <2>2
  <2>4. Good(b) /\ b # <<>>
    BY <1>6, <2>1, <2>2, <2>3
  <2> QED
    BY <1>7, <2>4 DEF Good
<1>8. CASE s.kind = "pair"
  <2> DEFINE head == s.name \o Sign("=")
  <2>1. Body(s) = head \o s.value
    BY <1>8 DEF Body, Sign
  <2>2. Good(head) /\ Len(head) = Len(s.name) + 1
    BY <1>3, <1>4, <1>5
  <2> HIDE DEF head
  <2>3. Good(head \o s.value) /\ Len(head \o s.value) = Len(head) + Len(s.value)
    BY <1>3, <1>5, <2>2
  <2>4. Good(b) /\ b # <<>>
    BY <1>3, <1>6, <2>1, <2>2, <2>3
  <2> QED
    BY <1>8, <2>4 DEF Good
<1>9. CASE s.kind = "open"
  <2> DEFINE tail == Sign("=") \o Sign("[")
  <2>1. Body(s) = s.name \o tail
    BY <1>9 DEF Body, Sign
  <2>2. Good(tail) /\ Len(tail) = 1 + 1
    BY <1>4, <1>5
  <2> HIDE DEF tail
  <2>3. Good(s.name \o tail) /\ Len(s.name \o tail) = Len(s.name) + Len(tail)
    BY <1>3, <1>5, <2>2
  <2>4. Good(b) /\ b # <<>>
    BY <1>3, <1>6, <2>1, <2>2, <2>3
  <2> QED
    BY <1>9, <2>4 DEF Good
<1>10. CASE s.kind = "item"
  <2>1. Good(b) /\ b # <<>>
    BY <1>2, <1>3, <1>10 DEF Body
  <2> QED
    BY <1>10, <2>1 DEF Good
<1>11. CASE s.kind = "close"
  <2>1. b = Sign("]")
    BY <1>11 DEF Body, Sign
  <2>2. Good(b) /\ b # <<>>
    BY <1>4, <1>6, <2>1
  <2> QED
    BY <1>11, <2>2 DEF Good
<1>12. CASE s.kind = "comment"
  BY <1>12 DEF Body, Free
<1> QED
  BY <1>1, <1>7, <1>8, <1>9, <1>10, <1>11, <1>12

\* A usual line is trimmed to its body; of a comment nothing is left.
LEMMA TrimUsual ==
  ASSUME NEW l \in Lines, AsUsual(l)
  PROVE  Trim(l) = Body(Says[l])
<1> DEFINE b == Body(Says[l])
           t == From(l)
<1>0. l \in Seq(Signs) /\ Len(l) \in Nat
  BY LineSays
<1>a. PICK i \in 0..Len(l) : \E j \in i..Len(l) :
        /\ \A k \in 1..i : IsSpace(l[k])
        /\ SubSeq(l, i + 1, j) = b
        /\ \/ j = Len(l)
           \/ l[j + 1] = " " /\ j + 2 \in Comment(l)
           \/ i = j /\ j + 1 \in Comment(l)
  BY DEF AsUsual
<1>1. PICK j \in i..Len(l) :
        /\ \A k \in 1..i : IsSpace(l[k])
        /\ SubSeq(l, i + 1, j) = b
        /\ \/ j = Len(l)
           \/ l[j + 1] = " " /\ j + 2 \in Comment(l)
           \/ i = j /\ j + 1 \in Comment(l)
  BY <1>a
<1>2. l \in Seq(Signs) /\ Len(l) \in Nat /\ i \in Nat /\ j \in Nat /\ i <= j /\ j <= Len(l)
  <2>1. i \in 0..Len(l) /\ j \in i..Len(l)
    OBVIOUS
  <2> QED
    BY <1>0, <2>1
<1>3. /\ b \in Seq(Signs) /\ Free(b, Marking)
      /\ IF Says[l].kind = "comment" THEN b = <<>> ELSE b # <<>>
  BY BodyText
<1>4. Len(b) = j - i /\ \A k \in 1..Len(b) : b[k] = l[i + k]
  <2>1. \A k \in (i + 1)..j : l[k] \in Signs
    BY <1>2
  <2>2. /\ Len(SubSeq(l, i + 1, j)) = IF i + 1 <= j THEN j - (i + 1) + 1 ELSE 0
        /\ \A k \in 1..(j - (i + 1) + 1) : SubSeq(l, i + 1, j)[k] = l[i + 1 + k - 1]
    BY <1>2, <2>1, SubSeqProperties
  <2>3. /\ Len(b) = IF i + 1 <= j THEN j - (i + 1) + 1 ELSE 0
        /\ \A k \in 1..(j - (i + 1) + 1) : b[k] = l[i + 1 + k - 1]
    BY <1>1, <2>2
  <2> HIDE DEF b
  <2> QED
    BY <1>2, <2>3
<1> HIDE DEF b
<1>5. \A k \in Comment(l) : k \in 1..Len(l) /\ l[k] \in {";", "/"}
  <2> SUFFICES ASSUME NEW k \in Comment(l) PROVE k \in 1..Len(l) /\ l[k] \in {";", "/"}
    OBVIOUS
  <2>1. k \in 1..Len(l)
    BY DEF Comment
  <2> QED
    BY <1>2, <2>1, Marks
<1>6. CASE \A k \in 1..Len(l) : IsSpace(l[k])
  <2>1. Trim(l) = <<>>
    BY <1>6, TrimParts
  <2>2. b = <<>>
    <3>1. ASSUME NEW k \in 1..Len(b)
          PROVE  FALSE
      <4>1. i + k \in 1..Len(l) /\ b[k] = l[i + k]
        BY <1>2, <1>4
      <4>2. b[k] = " "
        BY <1>6, <4>1 DEF IsSpace
      <4> QED
        BY <1>3, <4>2 DEF Free, Marking
    <3>2. Len(b) = 0
      BY <1>3, <3>1
    <3> QED
      BY <1>3, <3>2
  <2> QED
    BY <2>1, <2>2 DEF b
<1>7. CASE ~\A k \in 1..Len(l) : IsSpace(l[k])
  <2> DEFINE p == Begin(l)
  <2>1. /\ p \in 1..Len(l) /\ ~IsSpace(l[p])
        /\ \A k \in 1..(p - 1) : IsSpace(l[k])
        /\ t \in Seq(Signs) /\ Len(t) = Len(l) - p + 1
        /\ \A k \in 1..Len(t) : t[k] = l[p + k - 1]
    BY <1>2, <1>7, BeginText
  <2>2. Trim(l) = IF Comment(t) = {} THEN t ELSE Take(Code(t), LastSpace(Code(t)) - 1)
    BY <1>7, TrimParts
  <2> HIDE DEF p, t
  <2>3. ASSUME NEW k \in 1..Len(l), ~IsSpace(l[k]), \A m \in 1..Len(l) : m < k => IsSpace(l[m])
        PROVE  p = k
    <3>1. ~(p < k)
      <4> SUFFICES ASSUME p < k PROVE FALSE
        OBVIOUS
      <4> QED
        BY <2>1, <2>3
    <3>2. ~(k < p)
      <4> SUFFICES ASSUME k < p PROVE FALSE
        OBVIOUS
      <4>1. k \in 1..(p - 1)
        BY <1>2, <2>1
      <4> QED
        BY <2>1, <2>3, <4>1
    <3> QED
      BY <1>2, <2>1, <3>1, <3>2
  <2>4. ASSUME Comment(t) # {}
        PROVE  \E n \in 0..(Len(t) - 1) :
                 /\ n + 1 \in Comment(t) /\ \A k \in 1..n : k \notin Comment(t)
                 /\ Code(t) \in Seq(Signs) /\ Len(Code(t)) = n
                 /\ \A k \in 1..n : Code(t)[k] = t[k]
    <3>1. PICK n \in 0..(Len(t) - 1) :
            /\ n + 1 \in Comment(t) /\ \A k \in 1..n : k \notin Comment(t)
            /\ Code(t) = Take(t, n)
      BY <2>1, <2>4, CodeText
    <3>2. /\ Code(t) \in Seq(Signs)
          /\ Len(Code(t)) = IF n < 0 THEN 0 ELSE IF n < Len(t) THEN n ELSE Len(t)
          /\ \A k \in 1..Len(Code(t)) : Code(t)[k] = t[k]
      BY <2>1, <3>1, TakeText
    <3>3. Len(t) \in Nat
      BY <2>1
    <3>4. Len(Code(t)) = n
      BY <3>2, <3>3
    <3> QED
      BY <3>1, <3>2, <3>4
  <2>5. CASE b = <<>>
    <3>1. i = j
      <4>1. Len(b) = 0
        BY <2>5
      <4> QED
        BY <1>2, <1>4, <4>1
    <3>2. p \in Comment(l)
      <4>1. CASE l[j + 1] = " " /\ j + 2 \in Comment(l)
        <5>1. j + 2 \in 1..Len(l) /\ ~IsSpace(l[j + 2])
          BY <1>5, <4>1 DEF IsSpace
        <5>2. \A m \in 1..Len(l) : m < j + 2 => IsSpace(l[m])
          <6>1. \A m \in 1..Len(l) : m < j + 2 => m \in 1..i \/ m = j + 1
            BY <1>2, <3>1
          <6> QED
            BY <1>1, <4>1, <6>1 DEF IsSpace
        <5>3. p = j + 2
          BY <2>3, <5>1, <5>2
        <5> QED
          BY <4>1, <5>3
      <4>2. CASE i = j /\ j + 1 \in Comment(l)
        <5>1. j + 1 \in 1..Len(l) /\ ~IsSpace(l[j + 1])
          BY <1>5, <4>2 DEF IsSpace
        <5>2. \A m \in 1..Len(l) : m < j + 1 => IsSpace(l[m])
          <6>1. \A m \in 1..Len(l) : m < j + 1 => m \in 1..i
            BY <1>2, <3>1
          <6> QED
            BY <1>1, <6>1
        <5>3. p = j + 1
          BY <2>3, <5>1, <5>2
        <5> QED
          BY <4>2, <5>3
      <4>3. CASE j = Len(l)
        BY <1>1, <1>2, <2>1, <3>1, <4>3
      <4> QED
        BY <1>1, <4>1, <4>2, <4>3
    <3>3. 1 \in Comment(t)
      <4>1. /\ l[p] = ";" \/ (l[p] = "/" /\ p + 1 \in 1..Len(l) /\ l[p + 1] = "/")
        BY <1>2, <2>1, <3>2, Marks
      <4>2. 1 \in 1..Len(t) /\ t[1] = l[p] /\ (p + 1 \in 1..Len(l) => 2 \in 1..Len(t) /\ t[2] = l[p + 1])
        <5>1. 1 \in 1..Len(t) /\ p + 1 - 1 = p /\ p + 2 - 1 = p + 1
          BY <1>2, <2>1
        <5>2. t[1] = l[p]
          BY <2>1, <5>1
        <5>3. p + 1 \in 1..Len(l) => 2 \in 1..Len(t)
          BY <1>2, <2>1
        <5>4. 2 \in 1..Len(t) => t[2] = l[p + 1]
          BY <2>1, <5>1
        <5> QED
          BY <5>1, <5>2, <5>3, <5>4
      <4>3. t[1] = ";" \/ (t[1] = "/" /\ 1 + 1 \in 1..Len(t) /\ t[1 + 1] = "/")
        <5>1. 1 + 1 = 2
          OBVIOUS
        <5> QED
          BY <4>1, <4>2, <5>1
      <4> QED
        BY <2>1, <4>2, <4>3, Marks
    <3>4. PICK n \in 0..(Len(t) - 1) :
            /\ n + 1 \in Comment(t) /\ \A k \in 1..n : k \notin Comment(t)
            /\ Code(t) \in Seq(Signs) /\ Len(Code(t)) = n
      BY <2>4, <3>3
    <3>5. n = 0
      BY <3>3, <3>4
    <3>6. LastSpace(Code(t)) = 0
      <4>1. Len(Code(t)) = 0
        BY <3>4, <3>5
      <4>2. LastSpace(Code(t)) = 0 \/ LastSpace(Code(t)) \in 1..Len(Code(t))
        BY <3>4, LastSpaceText
      <4> QED
        BY <4>1, <4>2
    <3>7. Len(Take(Code(t), -1)) = 0 /\ Take(Code(t), -1) \in Seq(Signs)
      BY <3>4, TakeText
    <3>8. Trim(l) = Take(Code(t), -1)
      BY <2>2, <3>3, <3>6
    <3> QED
      BY <2>5, <3>7, <3>8 DEF b
  <2>6. CASE b # <<>>
    <3>1. i < j /\ 1 \in 1..Len(b) /\ i + 1 \in 1..Len(l) /\ b[1] = l[i + 1]
      <4>1. Len(b) # 0
        BY <1>3, <2>6
      <4> QED
        BY <1>2, <1>4, <4>1
    <3>2. ~IsSpace(l[i + 1])
      BY <1>3, <3>1 DEF Free, Marking, IsSpace
    <3>3. p = i + 1
      <4>1. \A m \in 1..Len(l) : m < i + 1 => IsSpace(l[m])
        <5>1. \A m \in 1..Len(l) : m < i + 1 => m \in 1..i
          BY <1>2
        <5> QED
          BY <1>1, <5>1
      <4>2. i + 1 \in 1..Len(l) /\ ~IsSpace(l[i + 1])
        BY <3>1, <3>2
      <4> QED
        BY ONLY <2>3, <4>1, <4>2, Zenon
    <3>4. Len(t) = Len(l) - i /\ \A k \in 1..Len(t) : t[k] = l[i + k]
      <4>1. Len(t) = Len(l) - i /\ \A k \in 1..Len(t) : p + k - 1 = i + k
        BY <1>2, <2>1, <3>3
      <4>2. \A k \in 1..Len(t) : t[k] = l[p + k - 1]
        BY <2>1
      <4> QED
        BY ONLY <4>1, <4>2, Zenon
    <3>5. \A k \in 1..Len(b) : k \in 1..Len(t) /\ t[k] = b[k]
      <4>1. \A k \in 1..Len(b) : k \in 1..Len(t)
        BY <1>2, <1>4, <3>4
      <4> QED
        BY <1>4, <3>4, <4>1
    <3>6. \A k \in 1..Len(b) : k \notin Comment(t)
      <4> SUFFICES ASSUME NEW k \in 1..Len(b), k \in Comment(t) PROVE FALSE
        OBVIOUS
      <4>1. t[k] \in {";", "/"}
        BY <2>1, <3>5, Marks
      <4> QED
        BY <1>3, <3>5, <4>1 DEF Free, Marking
    <3>7. CASE j = Len(l)
      <4>1. Len(t) = Len(b)
        BY <1>2, <1>4, <3>4, <3>7
      <4>2. t = b
        BY <1>3, <2>1, <3>5, <4>1, SeqEqual
      <4>3. Comment(t) = {}
        <5>1. \A k \in Comment(t) : k \in 1..Len(t)
          BY DEF Comment
        <5> QED
          BY <3>6, <4>1, <5>1
      <4> QED
        BY <2>2, <4>2, <4>3 DEF b
    <3>8. CASE l[j + 1] = " " /\ j + 2 \in Comment(l)
      <4>1. j + 2 \in 1..Len(l)
        BY <1>5, <3>8
      <4> DEFINE m == j - i
      <4>2. /\ m \in Nat /\ m = Len(b) /\ m + 2 \in 1..Len(t) /\ m + 1 \in 1..Len(t)
            /\ i + (m + 2) = j + 2 /\ i + (m + 1) = j + 1
        BY <1>2, <1>4, <3>1, <3>4, <4>1
      <4> HIDE DEF m
      <4>3. t[m + 2] = l[j + 2] /\ t[m + 1] = " "
        BY <3>4, <3>8, <4>2
      <4>4. m + 2 \in Comment(t)
        <5>1. l[j + 2] = ";" \/ (l[j + 2] = "/" /\ j + 2 + 1 \in 1..Len(l) /\ l[j + 2 + 1] = "/")
          BY <1>2, <3>8, <4>1, Marks
        <5>2. j + 2 + 1 \in 1..Len(l) => m + 2 + 1 \in 1..Len(t) /\ i + (m + 2 + 1) = j + 2 + 1
          <6>1. Len(t) = Len(l) - i
            BY <3>4
          <6> QED
            BY <1>2, <4>2, <6>1
        <5>3. j + 2 + 1 \in 1..Len(l) => m + 2 + 1 \in 1..Len(t) /\ t[m + 2 + 1] = l[j + 2 + 1]
          BY <3>4, <5>2
        <5>4. t[m + 2] = ";" \/ (t[m + 2] = "/" /\ m + 2 + 1 \in 1..Len(t) /\ t[m + 2 + 1] = "/")
          BY <4>3, <5>1, <5>3
        <5> QED
          BY <2>1, <4>2, <5>4, Marks
      <4>5. m + 1 \notin Comment(t)
        BY <2>1, <4>2, <4>3, Marks
      <4>6. PICK n \in 0..(Len(t) - 1) :
              /\ n + 1 \in Comment(t) /\ \A k \in 1..n : k \notin Comment(t)
              /\ Code(t) \in Seq(Signs) /\ Len(Code(t)) = n
              /\ \A k \in 1..n : Code(t)[k] = t[k]
        BY <2>4, <4>4
      <4>7. n = m + 1
        <5>1. n \in Nat /\ Len(t) \in Nat
          BY <2>1
        <5>2. ~(m + 2 <= n)
          BY <4>2, <4>4, <4>6, <5>1
        <5>3. n + 1 \notin 1..m /\ n + 1 # m + 1
          BY <3>6, <4>2, <4>5, <4>6
        <5> QED
          BY <4>2, <5>1, <5>2, <5>3
      <4>8. LastSpace(Code(t)) = m + 1
        <5>1. m + 1 \in 1..Len(Code(t)) /\ Code(t)[m + 1] = " "
          <6>1. m + 1 \in 1..n /\ n = Len(Code(t))
            BY <4>2, <4>6, <4>7
          <6> QED
            BY <4>3, <4>6, <6>1
        <5>2. /\ LastSpace(Code(t)) \in 1..Len(Code(t))
              /\ \A k \in 1..Len(Code(t)) : IsSpace(Code(t)[k]) => k <= LastSpace(Code(t))
          BY <4>6, <5>1, LastSpaceText DEF IsSpace
        <5>3. m + 1 <= LastSpace(Code(t)) /\ LastSpace(Code(t)) \in 1..(m + 1)
          BY <4>6, <4>7, <5>1, <5>2 DEF IsSpace
        <5> QED
          BY <4>2, <5>3
      <4>9. Trim(l) = Take(Code(t), m)
        <5>1. LastSpace(Code(t)) - 1 = m
          BY <4>2, <4>8
        <5>2. Trim(l) = Take(Code(t), LastSpace(Code(t)) - 1)
          BY <2>2, <4>4
        <5> QED
          BY ONLY <5>1, <5>2
      <4>10. /\ Take(Code(t), m) \in Seq(Signs)
             /\ Len(Take(Code(t), m)) = IF m < 0 THEN 0 ELSE IF m < Len(Code(t)) THEN m ELSE Len(Code(t))
             /\ \A k \in 1..Len(Take(Code(t), m)) : Take(Code(t), m)[k] = Code(t)[k]
        <5>1. m \in Nat /\ Code(t) \in Seq(Signs)
          BY <4>2, <4>6
        <5> QED
          BY ONLY <5>1, TakeText
      <4>11. Len(Take(Code(t), m)) = m
        BY <4>2, <4>6, <4>7, <4>10
      <4>12. \A k \in 1..Len(b) : Take(Code(t), m)[k] = b[k]
        <5> SUFFICES ASSUME NEW k \in 1..Len(b) PROVE Take(Code(t), m)[k] = b[k]
          OBVIOUS
        <5>1. k \in 1..m /\ k \in 1..n
          BY <4>2, <4>7
        <5> QED
          BY <3>5, <4>6, <4>10, <4>11, <5>1
      <4>13. Take(Code(t), m) = b
        BY <1>3, <4>2, <4>10, <4>11, <4>12, SeqEqual
      <4> QED
        BY <4>9, <4>13 DEF b
    <3>9. i # j
      BY <3>1
    <3> QED
      BY <1>1, <3>7, <3>8, <3>9
  <2> QED
    BY <2>5, <2>6
<1> QED
  BY <1>6, <1>7

\* A name, "=" and the rest are taken apart again.
LEMMA PairRead ==
  ASSUME NEW S, NEW name \in Seq(S), NEW rest \in Seq(S), NEW b \in Seq(S), NEW n \in Nat,
         n = Len(name), n > 1, Len(b) = n + 1 + Len(rest),
         Free(name, Special), Free(b, Marking),
         \A i \in 1..n : b[i] = name[i],
         b[n + 1] = "=",
         \A i \in 1..Len(rest) : b[n + 1 + i] = rest[i]
  PROVE  IsPair(b) /\ KeyOf(b) = name /\ ValueOf(b) = rest
<1>1. Len(rest) \in Nat /\ Len(b) \in Nat
  OBVIOUS
<1>2. FirstOf(b, "=") = n
  <2>1. n < Len(b)
    BY <1>1
  <2>2. \A i \in 1..n : b[i] # "="
    BY DEF Free, Special
  <2> QED
    BY <2>1, <2>2, FoundAt
<1>3. FirstOf(b, ";") = -1
  <2>1. ";" \in Marking
    BY DEF Marking
  <2> QED
    BY <2>1, FreeNotFound
<1>4. KeyOf(b) = name
  <2>1. KeyOf(b) = Take(b, n)
    BY <1>2 DEF KeyOf
  <2>2. /\ Take(b, n) \in Seq(S)
        /\ Len(Take(b, n)) = IF n < 0 THEN 0 ELSE IF n < Len(b) THEN n ELSE Len(b)
        /\ \A i \in 1..Len(Take(b, n)) : Take(b, n)[i] = b[i]
    BY TakeText
  <2>3. Len(Take(b, n)) = n
    BY <1>1, <2>2
  <2>4. \A i \in 1..n : Take(b, n)[i] = name[i]
    BY <2>2, <2>3
  <2> QED
    BY <2>1, <2>2, <2>3, <2>4, SeqEqual
<1>5. ValueOf(b) = rest
  <2> DEFINE v == Substr(b, n + 1, Len(b))
  <2>1. ValueOf(b) = Substr(b, n + 1, IF -1 > 1 THEN -1 ELSE Len(b))
    BY <1>2, <1>3, Zenon DEF ValueOf
  <2>2. /\ v \in Seq(S)
        /\ Len(v) = IF n + 1 + Len(b) < Len(b) THEN Len(b)
                    ELSE IF n + 1 < Len(b) THEN Len(b) - (n + 1) ELSE 0
        /\ \A i \in 1..Len(v) : v[i] = b[n + 1 + i]
    <3>1. PICK from \in Nat : from = n + 1
      OBVIOUS
    <3>2. PICK length \in Nat : length = Len(b)
      BY <1>1
    <3>3. /\ Substr(b, from, length) \in Seq(S)
          /\ Len(Substr(b, from, length)) =
               IF from + length < Len(b) THEN length
               ELSE IF from < Len(b) THEN Len(b) - from ELSE 0
          /\ \A i \in 1..Len(Substr(b, from, length)) : Substr(b, from, length)[i] = b[from + i]
      BY ONLY b \in Seq(S), from \in Nat, length \in Nat, SubstrText, ZenonT(40)
    <3> QED
      BY <3>1, <3>2, <3>3, Zenon
  <2>a. ValueOf(b) = v
    <3>1. ~(-1 > 1)
      OBVIOUS
    <3> QED
      BY <2>1, <3>1, Zenon
  <2> HIDE DEF v
  <2>3. Len(v) = Len(rest)
    BY <1>1, <2>2
  <2>4. \A i \in 1..Len(rest) : v[i] = rest[i]
    BY <2>2, <2>3
  <2> QED
    BY <2>a, <2>2, <2>3, <2>4, SeqEqual
<1>6. IsPair(b)
  BY <1>2 DEF IsPair
<1> QED
  BY <1>4, <1>5, <1>6

\* A name in brackets is the section's.
LEMMA SectionRead ==
  ASSUME NEW S, NEW name \in Seq(S), NEW b \in Seq(S), NEW n \in Nat,
         n = Len(name), Len(b) = n + 2, Free(name, Special),
         b[1] = "[", b[n + 2] = "]",
         \A i \in 1..n : b[1 + i] = name[i]
  PROVE  InterpretIniSection(b) = name
<1>1. FirstOf(b, "[") = 0
  <2>1. 0 \in Nat /\ 0 < Len(b) /\ b[0 + 1] = "[" /\ \A i \in 1..0 : b[i] # "["
    OBVIOUS
  <2> QED
    BY <2>1, FoundAt
<1>2. FirstOf(b, "]") = n + 1
  <2>1. n + 1 \in Nat /\ n + 1 < Len(b) /\ b[n + 1 + 1] = "]"
    <3>1. n + 1 + 1 = n + 2
      OBVIOUS
    <3> QED
      BY <3>1
  <2>2. \A i \in 1..(n + 1) : b[i] # "]"
    <3> SUFFICES ASSUME NEW i \in 1..(n + 1) PROVE b[i] # "]"
      OBVIOUS
    <3>1. CASE i = 1
      BY <3>1
    <3>2. CASE i # 1
      <4>1. i - 1 \in 1..n /\ 1 + (i - 1) = i
        BY <3>2
      <4>2. b[i] = name[i - 1]
        BY <4>1
      <4>3. name[i - 1] # "]"
        BY <4>1 DEF Free, Special
      <4> QED
        BY <4>2, <4>3
    <3> QED
      BY <3>1, <3>2
  <2> QED
    BY <2>1, <2>2, FoundAt, Zenon
<1> DEFINE v == Substr(b, 1, n)
<1>3. InterpretIniSection(b) = v
  <2>1. 0 + 1 = 1 /\ n + 1 - 1 = n /\ n + 1 >= 1
    OBVIOUS
  <2> QED
    BY <1>1, <1>2, <2>1 DEF InterpretIniSection
<1>4. /\ v \in Seq(S)
      /\ Len(v) = IF 1 + n < Len(b) THEN n ELSE IF 1 < Len(b) THEN Len(b) - 1 ELSE 0
      /\ \A i \in 1..Len(v) : v[i] = b[1 + i]
  <2>1. PICK from \in Nat : from = 1
    OBVIOUS
  <2>2. /\ Substr(b, from, n) \in Seq(S)
        /\ Len(Substr(b, from, n)) =
             IF from + n < Len(b) THEN n ELSE IF from < Len(b) THEN Len(b) - from ELSE 0
        /\ \A i \in 1..Len(Substr(b, from, n)) : Substr(b, from, n)[i] = b[from + i]
    BY ONLY b \in Seq(S), from \in Nat, n \in Nat, SubstrText, Zenon
  <2> QED
    BY <2>1, <2>2, Zenon
<1> HIDE DEF v
<1>5. Len(v) = n
  BY <1>4
<1>6. \A i \in 1..n : v[i] = name[i]
  BY <1>4, <1>5
<1> QED
  BY <1>3, <1>4, <1>5, <1>6, SeqEqual

\* A pair's body: the name, "=", the value.
LEMMA PairBody ==
  ASSUME NEW l \in Lines, AsUsual(l), Says[l].kind = "pair"
  PROVE  LET s == Says[l]
             b == Body(s)
         IN /\ InterpretIniSection(b) = <<>>
            /\ IsPair(b) /\ KeyOf(b) = s.name /\ ValueOf(b) = s.value
            /\ ~OpensList(b)
<1> DEFINE name == Says[l].name
           value == Says[l].value
           b == Body(Says[l])
           eq == Sign("=")
           head == name \o eq
           n == Len(name)
           Brackets == {"[", "]"}
<1>1. name \in Seq(Signs) /\ value \in Seq(Signs)
  BY LineSays
<1>2. Free(name, Special) /\ Free(value, Special) /\ n > 1
  BY DEF AsUsual, Plain, Free, Special, Marking
<1>3. b \in Seq(Signs) /\ Free(b, Marking)
  BY BodyText
<1>4. eq \in Seq(Signs) /\ Len(eq) = 1 /\ eq[1] = "=" /\ Free(eq, Brackets)
  <2>1. "=" \in Signs /\ "=" \notin Brackets
    BY DEF Signs, Special
  <2> QED
    BY <2>1, OneSign
<1>5. b = head \o value
  BY DEF Body, Sign
<1>6. Free(name, Brackets) /\ Free(value, Brackets)
  BY <1>2 DEF Free, Special
<1> HIDE DEF name, value, b, eq, Brackets
<1>7. head \in Seq(Signs) /\ Len(head) = n + 1 /\ Free(head, Brackets)
      /\ (\A i \in 1..n : head[i] = name[i]) /\ head[n + 1] = "="
  <2>1. /\ head \in Seq(Signs) /\ Len(head) = n + Len(eq)
        /\ \A i \in 1..n : head[i] = name[i]
        /\ \A i \in 1..Len(eq) : head[n + i] = eq[i]
    <3>1. name \in Seq(Signs) /\ eq \in Seq(Signs)
      BY <1>1, <1>4
    <3> QED
      BY <3>1, TwoTexts
  <2>2. Free(head, Brackets)
    BY <1>1, <1>4, <1>6, FreeTexts
  <2> QED
    BY <1>4, <2>1, <2>2
<1> HIDE DEF head
<1>8. /\ Len(b) = Len(head) + Len(value)
      /\ \A i \in 1..Len(head) : b[i] = head[i]
      /\ \A i \in 1..Len(value) : b[Len(head) + i] = value[i]
  <2>1. head \in Seq(Signs) /\ value \in Seq(Signs)
    BY <1>1, <1>7
  <2>2. /\ Len(head \o value) = Len(head) + Len(value)
        /\ \A i \in 1..Len(head) : (head \o value)[i] = head[i]
        /\ \A i \in 1..Len(value) : (head \o value)[Len(head) + i] = value[i]
    BY <2>1, TwoTexts
  <2> QED
    BY <1>5, <2>2, Zenon
<1>9. Free(b, Brackets)
  BY <1>1, <1>5, <1>6, <1>7, FreeTexts
<1>10. n \in Nat
  BY <1>1
<1> HIDE DEF n
<1>11. /\ Len(b) = n + 1 + Len(value) /\ b[n + 1] = "="
       /\ \A i \in 1..n : b[i] = name[i]
       /\ \A i \in 1..Len(value) : b[n + 1 + i] = value[i]
  <2>1. n + 1 \in 1..Len(head) /\ \A i \in 1..n : i \in 1..Len(head)
    BY <1>7, <1>10
  <2> QED
    BY <1>7, <1>8, <2>1
<1>12. IsPair(b) /\ KeyOf(b) = name /\ ValueOf(b) = value
  <2>1. n = Len(name)
    BY DEF n
  <2>2. /\ name \in Seq(Signs) /\ value \in Seq(Signs) /\ b \in Seq(Signs) /\ n \in Nat
        /\ n = Len(name) /\ n > 1 /\ Len(b) = n + 1 + Len(value)
    BY <1>1, <1>2, <1>3, <1>10, <1>11, <2>1
  <2>3. /\ Free(name, Special) /\ Free(b, Marking) /\ b[n + 1] = "="
        /\ \A i \in 1..n : b[i] = name[i]
        /\ \A i \in 1..Len(value) : b[n + 1 + i] = value[i]
    BY <1>2, <1>3, <1>11
  <2> QED
    BY ONLY <2>2, <2>3, PairRead, Zenon
<1>13. InterpretIniSection(b) = <<>>
  <2>1. FirstOf(b, "[") = -1
    <3>1. "[" \in Brackets
      BY DEF Brackets
    <3> QED
      BY <1>3, <1>9, <3>1, FreeNotFound
  <2> QED
    BY <2>1 DEF InterpretIniSection
<1>14. ~OpensList(b)
  <2> SUFFICES ASSUME value # <<>>, Head(value) = "[" PROVE FALSE
    BY <1>12 DEF OpensList
  <2>1. 1 \in 1..Len(value) /\ value[1] = "["
    BY <1>1
  <2> QED
    BY <1>2, <2>1 DEF Free, Special
<1> QED
  BY <1>12, <1>13, <1>14 DEF name, value, b

\* The body of a line that opens a list: the name, "=", "[".
LEMMA OpenBody ==
  ASSUME NEW l \in Lines, AsUsual(l), Says[l].kind = "open"
  PROVE  LET s == Says[l]
             b == Body(s)
         IN InterpretIniSection(b) = <<>> /\ IsPair(b) /\ KeyOf(b) = s.name /\ OpensList(b)
<1> DEFINE name == Says[l].name
           b == Body(Says[l])
           eq == Sign("=")
           rest == Sign("[")
           tail == eq \o rest
           n == Len(name)
           Closing == {"]"}
<1>1. name \in Seq(Signs)
  BY LineSays
<1>2. Free(name, Special) /\ n > 1
  BY DEF AsUsual, Plain, Free, Special, Marking
<1>3. b \in Seq(Signs) /\ Free(b, Marking)
  BY BodyText
<1>4. /\ eq \in Seq(Signs) /\ Len(eq) = 1 /\ eq[1] = "=" /\ Free(eq, Closing)
      /\ rest \in Seq(Signs) /\ Len(rest) = 1 /\ rest[1] = "[" /\ Free(rest, Closing)
  <2>1. "=" \in Signs /\ "=" \notin Closing /\ "[" \in Signs /\ "[" \notin Closing
    BY DEF Signs, Special
  <2> QED
    BY <2>1, OneSign
<1>5. b = name \o tail
  BY DEF Body, Sign
<1>6. Free(name, Closing)
  BY <1>2 DEF Free, Special
<1> HIDE DEF name, b, eq, rest, Closing
<1>7. tail \in Seq(Signs) /\ Len(tail) = 2 /\ tail[1] = "=" /\ tail[2] = "[" /\ Free(tail, Closing)
  <2>1. /\ tail \in Seq(Signs) /\ Len(tail) = Len(eq) + Len(rest)
        /\ \A i \in 1..Len(eq) : tail[i] = eq[i]
        /\ \A i \in 1..Len(rest) : tail[Len(eq) + i] = rest[i]
    BY <1>4, TwoTexts
  <2>2. Free(tail, Closing)
    BY <1>4, FreeTexts
  <2>3. 1 + 1 = 2 /\ 1 \in 1..1
    OBVIOUS
  <2> QED
    BY <1>4, <2>1, <2>2, <2>3
<1> HIDE DEF tail
<1>8. /\ Len(b) = n + Len(tail)
      /\ \A i \in 1..n : b[i] = name[i]
      /\ \A i \in 1..Len(tail) : b[n + i] = tail[i]
  <2>1. name \in Seq(Signs) /\ tail \in Seq(Signs)
    BY <1>1, <1>7
  <2>2. /\ Len(name \o tail) = Len(name) + Len(tail)
        /\ \A i \in 1..Len(name) : (name \o tail)[i] = name[i]
        /\ \A i \in 1..Len(tail) : (name \o tail)[Len(name) + i] = tail[i]
    BY <2>1, TwoTexts
  <2> QED
    BY <1>5, <2>2, Zenon
<1>9. Free(b, Closing)
  BY <1>1, <1>5, <1>6, <1>7, FreeTexts
<1>10. n \in Nat
  BY <1>1
<1> HIDE DEF n
<1>11. /\ Len(b) = n + 1 + Len(rest) /\ b[n + 1] = "="
       /\ \A i \in 1..Len(rest) : b[n + 1 + i] = rest[i]
  <2>1. 1 \in 1..Len(tail) /\ 2 \in 1..Len(tail) /\ n + 1 + 1 = n + 2
    BY <1>7, <1>10
  <2>2. b[n + 1] = "=" /\ b[n + 1 + 1] = rest[1]
    BY <1>4, <1>7, <1>8, <2>1
  <2>3. \A i \in 1..Len(rest) : i = 1
    BY <1>4
  <2>4. Len(b) = n + 1 + Len(rest)
    BY <1>4, <1>7, <1>8, <2>1
  <2> QED
    BY <2>2, <2>3, <2>4
<1>12. IsPair(b) /\ KeyOf(b) = name /\ ValueOf(b) = rest
  <2>1. n = Len(name)
    BY DEF n
  <2>2. /\ name \in Seq(Signs) /\ rest \in Seq(Signs) /\ b \in Seq(Signs) /\ n \in Nat
        /\ n = Len(name) /\ n > 1 /\ Len(b) = n + 1 + Len(rest)
    BY <1>1, <1>2, <1>3, <1>4, <1>10, <1>11, <2>1
  <2>3. /\ Free(name, Special) /\ Free(b, Marking) /\ b[n + 1] = "="
        /\ \A i \in 1..n : b[i] = name[i]
        /\ \A i \in 1..Len(rest) : b[n + 1 + i] = rest[i]
    BY <1>2, <1>3, <1>8, <1>11
  <2> QED
    BY ONLY <2>2, <2>3, PairRead, Zenon
<1>13. InterpretIniSection(b) = <<>>
  <2>1. FirstOf(b, "]") = -1
    <3>1. "]" \in Closing
      BY DEF Closing
    <3> QED
      BY <1>3, <1>9, <3>1, FreeNotFound
  <2> QED
    BY <2>1 DEF InterpretIniSection
<1>14. OpensList(b)
  <2>1. rest # <<>> /\ Head(rest) = "["
    BY <1>4
  <2> QED
    BY <1>12, <2>1 DEF OpensList
<1> QED
  BY <1>12, <1>13, <1>14 DEF name, b

\* A section's body: the name in brackets.
LEMMA SectionBody ==
  ASSUME NEW l \in Lines, AsUsual(l), Says[l].kind = "section"
  PROVE  InterpretIniSection(Body(Says[l])) = Says[l].name /\ Says[l].name # <<>>
<1> DEFINE name == Says[l].name
           b == Body(Says[l])
           a == Sign("[")
           z == Sign("]")
           head == a \o name
           n == Len(name)
<1>1. name \in Seq(Signs)
  BY LineSays
<1>2. Free(name, Special) /\ name # <<>>
  BY DEF AsUsual, Plain, Free, Special, Marking
<1>3. b \in Seq(Signs)
  BY BodyText
<1>4. /\ a \in Seq(Signs) /\ Len(a) = 1 /\ a[1] = "["
      /\ z \in Seq(Signs) /\ Len(z) = 1 /\ z[1] = "]"
  <2>1. "[" \in Signs /\ "]" \in Signs
    BY DEF Signs, Special
  <2> QED
    BY <2>1, OneSign
<1>5. b = head \o z
  BY DEF Body, Sign
<1> HIDE DEF name, b, a, z
<1>6. /\ head \in Seq(Signs) /\ Len(head) = 1 + n /\ head[1] = "["
      /\ \A i \in 1..n : head[1 + i] = name[i]
  <2>1. /\ head \in Seq(Signs) /\ Len(head) = Len(a) + n
        /\ \A i \in 1..Len(a) : head[i] = a[i]
        /\ \A i \in 1..n : head[Len(a) + i] = name[i]
    BY <1>1, <1>4, TwoTexts
  <2> QED
    BY <1>4, <2>1
<1> HIDE DEF head
<1>7. /\ Len(b) = Len(head) + Len(z)
      /\ \A i \in 1..Len(head) : b[i] = head[i]
      /\ \A i \in 1..Len(z) : b[Len(head) + i] = z[i]
  <2>1. head \in Seq(Signs) /\ z \in Seq(Signs)
    BY <1>4, <1>6
  <2>2. /\ Len(head \o z) = Len(head) + Len(z)
        /\ \A i \in 1..Len(head) : (head \o z)[i] = head[i]
        /\ \A i \in 1..Len(z) : (head \o z)[Len(head) + i] = z[i]
    BY <2>1, TwoTexts
  <2> QED
    BY <1>5, <2>2, Zenon
<1>8. n \in Nat
  BY <1>1
<1> HIDE DEF n
<1>9. /\ Len(b) = n + 2 /\ b[1] = "[" /\ b[n + 2] = "]"
      /\ \A i \in 1..n : b[1 + i] = name[i]
  <2>1. /\ 1 \in 1..Len(head) /\ 1 \in 1..Len(z) /\ Len(head) + 1 = n + 2
        /\ \A i \in 1..n : 1 + i \in 1..Len(head)
    BY <1>4, <1>6, <1>8
  <2>2. b[1] = "[" /\ b[n + 2] = "]"
    BY <1>4, <1>6, <1>7, <2>1
  <2>3. \A i \in 1..n : b[1 + i] = name[i]
    BY <1>6, <1>7, <2>1
  <2>4. Len(b) = n + 2
    BY <1>4, <1>6, <1>7, <1>8
  <2> QED
    BY <2>2, <2>3, <2>4
<1>10. InterpretIniSection(b) = name
  <2>1. n = Len(name)
    BY DEF n
  <2> QED
    BY <1>1, <1>2, <1>3, <1>8, <1>9, <2>1, SectionRead
<1> QED
  BY <1>2, <1>10 DEF name, b

\* An item is free of the bracket that ends a list, and that is all it ends with.
LEMMA ListBody ==
  ASSUME NEW l \in Lines, AsUsual(l)
  PROVE  LET b == Body(Says[l])
         IN /\ Says[l].kind = "item"  => b = Says[l].value /\ FirstOf(b, "]") = -1
            /\ Says[l].kind = "close" => FirstOf(b, "]") = 0
<1> DEFINE value == Says[l].value
           b == Body(Says[l])
<1>1. value \in Seq(Signs) /\ Free(value, Special)
  BY LineSays DEF AsUsual, Plain, Free, Special, Marking
<1>2. CASE Says[l].kind = "item"
  <2>1. b = value
    BY <1>2 DEF Body
  <2>2. "]" \in Special
    BY DEF Special
  <2> QED
    BY <1>1, <1>2, <2>1, <2>2, FreeNotFound
<1>3. CASE Says[l].kind = "close"
  <2> DEFINE z == Sign("]")
  <2>1. b = z
    BY <1>3 DEF Body, Sign
  <2>2. z \in Seq(Signs) /\ Len(z) = 1 /\ z[1] = "]"
    <3>1. "]" \in Signs
      BY DEF Signs, Special
    <3> QED
      BY <3>1, OneSign
  <2> HIDE DEF z
  <2>3. 0 \in Nat /\ 0 < Len(z) /\ z[0 + 1] = "]" /\ \A i \in 1..0 : z[i] # "]"
    BY <2>2
  <2>4. FirstOf(z, "]") = 0
    BY <2>2, <2>3, FoundAt
  <2> QED
    BY <1>3, <2>1, <2>4
<1> QED
  BY <1>2, <1>3

\* A usual line is a comment when it says nothing, and is read to its end.
LEMMA LineRead ==
  ASSUME NEW l \in Lines, AsUsual(l)
  PROVE  /\ Len(l) <= LineSize
         /\ Trim(Take(l, LineSize)) = Body(Says[l])
         /\ IsComment(Body(Says[l])) <=> Says[l].kind = "comment"
<1> DEFINE b == Body(Says[l])
<1>1. l \in Seq(Signs) /\ Len(l) \in Nat /\ Len(l) <= LineSize /\ LineSize \in Nat
  <2>1. l \in Seq(Signs)
    BY LineSays
  <2>2. Len(l) <= LineSize
    BY DEF AsUsual
  <2>3. LineSize \in Nat
    BY IniFileAssumption
  <2> QED
    BY <2>1, <2>2, <2>3
<1>2. Take(l, LineSize) = l
  <2>1. /\ Take(l, LineSize) \in Seq(Signs)
        /\ Len(Take(l, LineSize)) =
             IF LineSize < 0 THEN 0 ELSE IF LineSize < Len(l) THEN LineSize ELSE Len(l)
        /\ \A i \in 1..Len(Take(l, LineSize)) : Take(l, LineSize)[i] = l[i]
    BY <1>1, TakeText
  <2>2. Len(Take(l, LineSize)) = Len(l)
    BY <1>1, <2>1
  <2> QED
    BY <1>1, <2>1, <2>2, SeqEqual
<1>3. Trim(l) = b
  BY TrimUsual
<1>4. /\ b \in Seq(Signs) /\ Free(b, Marking)
      /\ IF Says[l].kind = "comment" THEN b = <<>> ELSE b # <<>>
  BY BodyText
<1> HIDE DEF b
<1>5. IsComment(b) <=> Says[l].kind = "comment"
  <2>1. CASE b = <<>>
    BY <1>4, <2>1 DEF IsComment
  <2>2. CASE b # <<>>
    <3>1. 1 \in 1..Len(b) /\ Head(b) = b[1]
      BY <1>4, <2>2
    <3>2. b[1] \notin {";", "/"}
      BY <1>4, <3>1 DEF Free, Marking
    <3> QED
      BY <1>4, <2>2, <3>1, <3>2 DEF IsComment
  <2> QED
    BY <2>1, <2>2
<1> QED
  BY <1>1, <1>2, <1>3, <1>5 DEF b

-----------------------------------------------------------------------------
(* What one line more of a file means.                                     *)
\* Putting texts together, one at a time.
Flat(F, s, i) == IF i = 1 THEN s[i] ELSE F[i - 1] \o s[i]

LEMMA JoiningRuns ==
  ASSUME NEW s, NEW n \in Nat
  PROVE  \E F : F = [i \in 1..n |-> Flat(F, s, i)]
<1> DEFINE Reached == {m \in 0..n : \E F : F = [i \in 1..m |-> Flat(F, s, i)]}
<1>1. 0 \in Reached
  <2>1. ASSUME NEW m \in 0..n, m = 0
        PROVE  m \in Reached
    <3> DEFINE F == [i \in 1..m |-> 0]
    <3>1. F = [i \in 1..m |-> F[i]] /\ \A i \in 1..m : F[i] = Flat(F, s, i)
      BY <2>1
    <3> HIDE DEF F
    <3>2. F = [i \in 1..m |-> Flat(F, s, i)]
      BY <3>1
    <3> QED
      BY <3>2
  <2> HIDE DEF Reached
  <2> QED
    BY <2>1
<1>2. ASSUME NEW m \in 1..n, m - 1 \in Reached
      PROVE  m \in Reached
  <2>1. PICK F : F = [i \in 1..(m - 1) |-> Flat(F, s, i)]
    BY <1>2
  <2> DEFINE G == [i \in 1..m |-> IF i = m THEN Flat(F, s, m) ELSE F[i]]
  <2>2. \A i \in 1..(m - 1) : G[i] = F[i]
    OBVIOUS
  <2>a. G[m] = Flat(F, s, m) /\ G = [i \in 1..m |-> G[i]]
    OBVIOUS
  <2> HIDE DEF G
  <2>3. ASSUME NEW i \in 1..m PROVE G[i] = Flat(G, s, i)
    <3>1. Flat(G, s, i) = Flat(F, s, i)
      <4>1. CASE i = 1
        BY <4>1 DEF Flat
      <4>2. CASE i # 1
        <5>1. i - 1 \in 1..(m - 1)
          BY <4>2
        <5>2. G[i - 1] = F[i - 1]
          BY <2>2, <5>1
        <5> QED
          BY <4>2, <5>2 DEF Flat
      <4> QED
        BY <4>1, <4>2
    <3>2. G[i] = Flat(F, s, i)
      <4>1. CASE i = m
        BY <2>a, <4>1
      <4>2. CASE i # m
        <5>1. i \in 1..(m - 1)
          BY <4>2
        <5>2. F[i] = Flat(F, s, i)
          BY <2>1, <5>1
        <5> QED
          BY <2>2, <5>1, <5>2
      <4> QED
        BY <4>1, <4>2
    <3> QED
      BY <3>1, <3>2
  <2>4. G = [i \in 1..m |-> Flat(G, s, i)]
    BY <2>3, <2>a
  <2> QED
    BY <2>4
<1>3. Reached \in SUBSET (0..n) /\ \A m \in 1..n : m - 1 \in Reached => m \in Reached
  BY <1>2
<1> HIDE DEF Reached
<1>4. Reached = 0..n
  BY <1>1, <1>3, Induction
<1>5. n \in Reached
  BY <1>4
<1> QED
  BY <1>5 DEF Reached

LEMMA Flattened ==
  ASSUME NEW S, NEW s \in Seq(Seq(S)), Len(s) # 0
  PROVE  \E F : /\ FlattenSeq(s) = F[Len(s)]
                /\ \A i \in 1..Len(s) : F[i] = Flat(F, s, i)
<1> DEFINE F == CHOOSE F : F = [i \in 1..Len(s) |-> Flat(F, s, i)]
<1>1. F = [i \in 1..Len(s) |-> Flat(F, s, i)]
  <2>1. Len(s) \in Nat
    OBVIOUS
  <2> QED
    BY <2>1, JoiningRuns
<1>2. FlattenSeq(s) = F[Len(s)]
  BY DEF FlattenSeq, Flat
<1>3. \A i \in 1..Len(s) : F[i] = Flat(F, s, i)
  BY <1>1
<1> QED
  BY <1>2, <1>3

\* One text more.
LEMMA FlattenOneMore ==
  ASSUME NEW S, NEW n \in Nat, NEW s \in Seq(Seq(S)), NEW t \in Seq(Seq(S)),
         Len(s) = n, Len(t) = n + 1, \A i \in 1..n : s[i] = t[i]
  PROVE  FlattenSeq(t) = FlattenSeq(s) \o t[n + 1]
<1>1. PICK G : FlattenSeq(t) = G[n + 1] /\ \A i \in 1..(n + 1) : G[i] = Flat(G, t, i)
  <2>1. Len(t) # 0
    OBVIOUS
  <2> QED
    BY <2>1, Flattened
<1>2. CASE n = 0
  <2>1. FlattenSeq(s) = <<>>
    BY <1>2 DEF FlattenSeq
  <2>2. FlattenSeq(t) = t[n + 1]
    BY <1>1, <1>2 DEF Flat
  <2>3. t[n + 1] \in Seq(S)
    OBVIOUS
  <2> QED
    BY <2>1, <2>2, <2>3, ConcatEmptySeq
<1>3. CASE n # 0
  <2>0. Len(s) # 0 /\ n = Len(s)
    BY <1>3
  <2>1. PICK F : FlattenSeq(s) = F[n] /\ \A i \in 1..n : F[i] = Flat(F, s, i)
    BY <2>0, Flattened, ZenonT(40)
  <2> DEFINE Same == {m \in 0..n : m = 0 \/ F[m] = G[m]}
  <2>2. 0 \in Same
    OBVIOUS
  <2>3. ASSUME NEW m \in 1..n, m - 1 \in Same
        PROVE  m \in Same
    <3>1. F[m] = Flat(F, s, m) /\ G[m] = Flat(G, t, m) /\ s[m] = t[m]
      BY <1>1, <2>1
    <3>2. Flat(F, s, m) = Flat(G, t, m)
      <4>1. CASE m = 1
        BY <3>1, <4>1 DEF Flat
      <4>2. CASE m # 1
        <5>1. F[m - 1] = G[m - 1]
          BY <2>3, <4>2
        <5> QED
          BY <3>1, <4>2, <5>1 DEF Flat
      <4> QED
        BY <4>1, <4>2
    <3> QED
      BY <3>1, <3>2
  <2>4. Same \in SUBSET (0..n) /\ \A m \in 1..n : m - 1 \in Same => m \in Same
    BY <2>3
  <2> HIDE DEF Same
  <2>5. Same = 0..n
    BY <2>2, <2>4, Induction
  <2>6. F[n] = G[n]
    <3>1. n \in Same
      BY <2>5
    <3> QED
      BY <1>3, <3>1 DEF Same
  <2>7. G[n + 1] = G[n] \o t[n + 1]
    <3>1. PICK m \in 1..(n + 1) : m = n + 1
      OBVIOUS
    <3>2. m # 1 /\ m - 1 = n
      BY <1>3, <3>1
    <3>3. G[m] = Flat(G, t, m)
      BY <1>1
    <3>4. Flat(G, t, m) = G[n] \o t[m]
      BY <3>2, Zenon DEF Flat
    <3> QED
      BY <3>1, <3>3, <3>4, Zenon
  <2> QED
    BY <1>1, <2>1, <2>6, <2>7
<1> QED
  BY <1>2, <1>3

LEMMA FlattenNone == FlattenSeq(<<>>) = <<>>
BY DEF FlattenSeq

\* The last line of a kind, with one line more.
LEMMA LastStep ==
  ASSUME NEW f, NEW i \in Nat \ {0}, NEW k
  PROVE  /\ LastOf(f, i, k) \in 0..(i - 1)
         /\ LastOf(f, i + 1, k) = IF Kind(f, i) = k THEN i ELSE LastOf(f, i, k)
<1> DEFINE T(n) == {0} \cup {j \in 1..(n - 1) : Kind(f, j) = k}
<1>1. ASSUME NEW n \in Nat \ {0}
      PROVE  /\ T(n) \in SUBSET (0..(n - 1)) /\ T(n) # {} /\ n - 1 \in Nat
             /\ LastOf(f, n, k) = Max(T(n))
  BY DEF LastOf
<1>2. T(i + 1) = IF Kind(f, i) = k THEN T(i) \cup {i} ELSE T(i)
  <2>1. 1..(i + 1 - 1) = 1..(i - 1) \cup {i}
    OBVIOUS
  <2> QED
    BY <2>1
<1> HIDE DEF T
<1>3. ASSUME NEW n \in Nat \ {0}
      PROVE  LastOf(f, n, k) \in T(n) /\ \A j \in T(n) : LastOf(f, n, k) >= j
  BY <1>1, GreatestOf
<1>4. LastOf(f, i, k) \in 0..(i - 1)
  BY <1>1, <1>3
<1>5. CASE Kind(f, i) = k
  <2>1. LastOf(f, i + 1, k) \in 0..i /\ LastOf(f, i + 1, k) >= i
    <3>1. i + 1 \in Nat \ {0} /\ i + 1 - 1 = i
      OBVIOUS
    <3>2. i \in T(i + 1)
      BY <1>2, <1>5
    <3> QED
      BY <1>1, <1>3, <3>1, <3>2
  <2>2. LastOf(f, i + 1, k) = i
    BY <2>1
  <2> QED
    BY <1>4, <1>5, <2>2
<1>6. CASE Kind(f, i) # k
  <2>1. T(i + 1) = T(i) /\ i + 1 \in Nat \ {0}
    BY <1>2, <1>6
  <2>2. LastOf(f, i + 1, k) = LastOf(f, i, k)
    BY <1>1, <2>1
  <2> QED
    BY <1>4, <1>6, <2>2
<1> QED
  BY <1>5, <1>6

\* Inside a list, with one line more.
LEMMA InsideStep ==
  ASSUME NEW f, NEW i \in Nat \ {0}
  PROVE  Inside(f, i + 1) <=> Kind(f, i) # "close" /\ (Kind(f, i) = "open" \/ Inside(f, i))
<1> DEFINE Open(j)  == Kind(f, j) = "open"
           Close(j) == Kind(f, j) = "close"
<1>1. Inside(f, i) <=> \E o \in 1..(i - 1) : Open(o) /\ \A j \in o..(i - 1) : ~Close(j)
  BY DEF Inside
<1>2. Inside(f, i + 1) <=> \E o \in 1..i : Open(o) /\ \A j \in o..i : ~Close(j)
  <2>1. i + 1 - 1 = i
    OBVIOUS
  <2> QED
    BY <2>1 DEF Inside
<1>3. Open(i) => ~Close(i)
  OBVIOUS
<1> HIDE DEF Open, Close
<1>4. ASSUME Inside(f, i + 1)
      PROVE  ~Close(i) /\ (Open(i) \/ Inside(f, i))
  <2>1. PICK o \in 1..i : Open(o) /\ \A j \in o..i : ~Close(j)
    BY <1>2, <1>4
  <2>2. ~Close(i)
    BY <2>1
  <2>3. CASE o = i
    BY <2>1, <2>2, <2>3
  <2>4. CASE o # i
    <3>1. o \in 1..(i - 1) /\ \A j \in o..(i - 1) : j \in o..i
      BY <2>4
    <3> QED
      BY <1>1, <2>1, <2>2, <3>1
  <2> QED
    BY <2>3, <2>4
<1>5. ASSUME ~Close(i), Open(i) \/ Inside(f, i)
      PROVE  Inside(f, i + 1)
  <2>1. CASE Open(i)
    <3>1. i \in 1..i /\ \A j \in i..i : j = i
      OBVIOUS
    <3> QED
      BY <1>2, <1>5, <2>1, <3>1
  <2>2. CASE Inside(f, i)
    <3>1. PICK o \in 1..(i - 1) : Open(o) /\ \A j \in o..(i - 1) : ~Close(j)
      BY <1>1, <2>2
    <3>2. o \in 1..i /\ \A j \in o..i : j \in o..(i - 1) \/ j = i
      OBVIOUS
    <3> QED
      BY <1>2, <1>5, <3>1, <3>2
  <2> QED
    BY <1>5, <2>1, <2>2
<1> QED
  BY <1>3, <1>4, <1>5 DEF Open, Close

\* The items of a list, with one line more.
LEMMA ItemsStep ==
  ASSUME NEW f \in Seq(Lines), NEW to \in 1..Len(f), NEW from \in 0..(to - 1)
  PROVE  Items(f, from, to + 1) = Items(f, from, to) \o Item(f, to)
<1> DEFINE n == to - from - 1
           s == [i \in 1..n |-> Item(f, from + i)]
           t == [i \in 1..(n + 1) |-> Item(f, from + i)]
<1>1. n \in Nat /\ to + 1 - from - 1 = n + 1 /\ from + (n + 1) = to /\ n + 1 \in Nat
  OBVIOUS
<1>2. Items(f, from, to) = FlattenSeq(s) /\ Items(f, from, to + 1) = FlattenSeq(t)
  BY <1>1 DEF Items
<1>3. ASSUME NEW i \in 1..(n + 1)
      PROVE  Item(f, from + i) \in Text
  <2>1. from + i \in 1..Len(f)
    OBVIOUS
  <2>2. f[from + i] \in Lines
    BY <2>1
  <2>3. Says[f[from + i]].value \in Text /\ <<>> \in Text
    BY <2>2, LineSays DEF Text
  <2> QED
    BY <2>3 DEF Item
<1> HIDE DEF n
<1>4. s \in Seq(Text) /\ Len(s) = n
  <2>1. \A i \in 1..n : Item(f, from + i) \in Text
    BY <1>1, <1>3
  <2> QED
    BY <1>1, <2>1
<1>5. t \in Seq(Text) /\ Len(t) = n + 1
  BY <1>1, <1>3
<1>6. (\A i \in 1..n : s[i] = t[i]) /\ t[n + 1] = Item(f, to)
  BY <1>1
<1> HIDE DEF s, t
<1>7. FlattenSeq(t) = FlattenSeq(s) \o t[n + 1]
  BY <1>1, <1>4, <1>5, <1>6, FlattenOneMore DEF Text
<1> QED
  BY <1>2, <1>6, <1>7

\* A list just opened has no items.
LEMMA ItemsNone ==
  ASSUME NEW f, NEW i \in Nat
  PROVE  Items(f, i, i + 1) = <<>>
<1>1. Items(f, i, i + 1) = FlattenSeq([j \in 1..(i + 1 - i - 1) |-> Item(f, i + j)])
  BY DEF Items
<1>2. i + 1 - i - 1 = 0
  OBVIOUS
<1>3. [j \in 1..0 |-> Item(f, i + j)] = <<>>
  OBVIOUS
<1> QED
  BY <1>1, <1>2, <1>3, FlattenNone

\* What a file gives, with one line more.
LEMMA MeansStep ==
  ASSUME NEW f, NEW n \in Nat
  PROVE  Means(f, n + 1) = Means(f, n) \o Gives(f, n + 1)
<1> DEFINE S == {Entry(f, i) : i \in 1..(n + 1)}
           s == [i \in 1..n |-> Gives(f, i)]
           t == [i \in 1..(n + 1) |-> Gives(f, i)]
<1>1. Means(f, n) = FlattenSeq(s) /\ Means(f, n + 1) = FlattenSeq(t)
  BY DEF Means
<1>2. \A i \in 1..(n + 1) : Entry(f, i) \in S
  OBVIOUS
<1> HIDE DEF S
<1>3. ASSUME NEW i \in 1..(n + 1)
      PROVE  Gives(f, i) \in Seq(S)
  BY <1>2 DEF Gives
<1>4. s \in Seq(Seq(S)) /\ Len(s) = n
  BY <1>3
<1>5. t \in Seq(Seq(S)) /\ Len(t) = n + 1
  BY <1>3
<1>6. (\A i \in 1..n : s[i] = t[i]) /\ t[n + 1] = Gives(f, n + 1)
  OBVIOUS
<1> HIDE DEF s, t
<1>7. FlattenSeq(t) = FlattenSeq(s) \o t[n + 1]
  BY <1>4, <1>5, <1>6, FlattenOneMore
<1> QED
  BY <1>1, <1>6, <1>7

LEMMA MeansNone ==
  ASSUME NEW f
  PROVE  Means(f, 0) = <<>>
<1>1. Means(f, 0) = FlattenSeq([i \in 1..0 |-> Gives(f, i)])
  BY DEF Means
<1>2. [i \in 1..0 |-> Gives(f, i)] = <<>>
  OBVIOUS
<1> QED
  BY <1>1, <1>2, FlattenNone

\* The section of a line, with one line more.
LEMMA SectionStep ==
  ASSUME NEW f, NEW i \in Nat \ {0}
  PROVE  SectionAt(f, i + 1) = IF Kind(f, i) = "section" THEN Says[f[i]].name ELSE SectionAt(f, i)
<1>1. LastOf(f, i + 1, "section") = IF Kind(f, i) = "section" THEN i ELSE LastOf(f, i, "section")
  BY LastStep
<1>2. CASE Kind(f, i) = "section"
  <2>1. LastOf(f, i + 1, "section") = i /\ i # 0
    BY <1>1, <1>2
  <2> QED
    BY <1>2, <2>1 DEF SectionAt
<1>3. CASE Kind(f, i) # "section"
  <2>1. LastOf(f, i + 1, "section") = LastOf(f, i, "section")
    BY <1>1, <1>3
  <2> QED
    BY <1>3, <2>1 DEF SectionAt
<1> QED
  BY <1>2, <1>3

-----------------------------------------------------------------------------
(* The reading keeps to what the lines read so far say.                    *)
UsualFile(f) == \A i \in 1..Len(f) : AsUsual(f[i])

\* The line the list was opened by that is read at the i-th.
Opener(f, i) == LastOf(f, i, "open")

LEMMA OpenerStep ==
  ASSUME NEW f, NEW i \in Nat \ {0}
  PROVE  /\ Opener(f, i) \in 0..(i - 1)
         /\ Opener(f, i + 1) = IF Kind(f, i) = "open" THEN i ELSE Opener(f, i)
<1>1. /\ LastOf(f, i, "open") \in 0..(i - 1)
      /\ LastOf(f, i + 1, "open") = IF Kind(f, i) = "open" THEN i ELSE LastOf(f, i, "open")
  BY LastStep
<1> QED
  BY ONLY <1>1 DEF Opener

AsRead ==
  /\ good
  /\ section = SectionAt(file, read + 1)
  /\ multilineStart <=> Inside(file, read + 1)
  /\ multilineStart => /\ key = Says[file[Opener(file, read + 1)]].name
                       /\ multiline = Items(file, Opener(file, read + 1), read + 1)
  /\ added = Means(file, read)

Reading == Typed /\ (opened /\ UsualFile(file) /\ WellFormed(file) => AsRead)

LEMMA ReadingBegins == Init => Reading
<1> SUFFICES ASSUME Init PROVE Reading
  OBVIOUS
<1>1. Typed
  BY IniInit
<1>2. ASSUME opened
      PROVE  AsRead
  <2>1. /\ read = 0 /\ section = <<>> /\ multilineStart = FALSE /\ added = <<>>
        /\ good
    BY <1>2 DEF Init
  <2>2. LastOf(file, 1, "section") = 0
    <3>1. 1 \in Nat \ {0}
      OBVIOUS
    <3>2. LastOf(file, 1, "section") \in 0..(1 - 1)
      BY <3>1, LastStep, Zenon
    <3> QED
      BY <3>2
  <2>3. SectionAt(file, 1) = <<>>
    BY <2>2 DEF SectionAt
  <2>4. ~Inside(file, 1)
    BY DEF Inside
  <2>5. Means(file, 0) = <<>>
    BY MeansNone
  <2>6. read + 1 = 1
    BY <2>1
  <2> QED
    BY <2>1, <2>3, <2>4, <2>5, <2>6 DEF AsRead
<1> QED
  BY <1>1, <1>2 DEF Reading

LEMMA ReadingStep ==
  ASSUME Typed, Typed', opened, UsualFile(file), WellFormed(file), AsRead, Next
  PROVE  AsRead'
<1> DEFINE i == read + 1
           l == file[i]
           s == Says[l]
           b == TrimmedLine
           kind == Kind(file, i)
<1>1. /\ file \in Seq(Lines) /\ read \in Nat /\ Len(file) \in Nat
      /\ section \in Text /\ key \in Text /\ multiline \in Text
      /\ multiline # <<>> => multilineStart
      /\ multilineStart \in BOOLEAN
      /\ added \in Seq(Entries)
  BY DEF Typed, TypeOK, Entries
<1>2. GetLine
  BY DEF Next, SkipComment, EndList, ExtendList, BeginSection, InterpretIniKeyValue
<1>3. i \in 1..Len(file) /\ i \in Nat \ {0}
  BY <1>1, <1>2 DEF GetLine
<1>4. l \in Lines /\ AsUsual(l)
  BY <1>1, <1>3 DEF UsualFile
<1>5. read' = i /\ file' = file /\ good'
  <2>1. Len(l) <= LineSize
    BY <1>4, LineRead
  <2> QED
    BY <1>2, <2>1 DEF GetLine
<1>6. b = Body(s) /\ (IsComment(b) <=> kind = "comment")
  BY <1>4, LineRead DEF TrimmedLine, Kind
<1>7. /\ kind \in {"comment", "section", "pair", "open", "item", "close"}
      /\ s.name \in Text /\ s.value \in Text
  BY <1>4, LineSays DEF Kind
<1>8. kind # "comment" => (multilineStart <=> kind \in {"item", "close"})
  <2>1. kind # "comment" => (Inside(file, i) <=> kind \in {"item", "close"})
    BY <1>3 DEF WellFormed
  <2> QED
    BY <2>1 DEF AsRead
<1> HIDE DEF b
<1>9. /\ section = SectionAt(file, i)
      /\ multilineStart <=> Inside(file, i)
      /\ multilineStart => /\ key = Says[file[Opener(file, i)]].name
                           /\ multiline = Items(file, Opener(file, i), i)
      /\ added = Means(file, read)
  BY DEF AsRead
<1>10. /\ SectionAt(file, i + 1) = IF kind = "section" THEN s.name ELSE section
       /\ Inside(file, i + 1) <=> kind # "close" /\ (kind = "open" \/ multilineStart)
       /\ Opener(file, i) \in 0..(i - 1)
       /\ Opener(file, i + 1) = IF kind = "open" THEN i ELSE Opener(file, i)
       /\ Means(file, i) = added \o Gives(file, i)
  <2>1. SectionAt(file, i + 1) = IF kind = "section" THEN s.name ELSE section
    BY <1>3, <1>9, SectionStep
  <2>2. Inside(file, i + 1) <=> kind # "close" /\ (kind = "open" \/ multilineStart)
    BY <1>3, <1>9, InsideStep
  <2>3. /\ Opener(file, i) \in 0..(i - 1)
        /\ Opener(file, i + 1) = IF kind = "open" THEN i ELSE Opener(file, i)
    BY <1>3, OpenerStep
  <2>4. Means(file, i) = added \o Gives(file, i)
    BY <1>1, <1>9, MeansStep
  <2> QED
    BY <2>1, <2>2, <2>3, <2>4
<1>11. kind \notin {"pair", "close"} => Means(file, i) = added
  <2> SUFFICES ASSUME kind \notin {"pair", "close"} PROVE Means(file, i) = added
    OBVIOUS
  <2>1. Gives(file, i) = <<>>
    BY DEF Gives
  <2> QED
    BY <1>1, <1>10, <2>1, ConcatEmptySeq
<1>12. kind \in {"pair", "close"} => Means(file, i) = added \o <<Entry(file, i)>>
  BY <1>10 DEF Gives
<1>13. Items(file, Opener(file, i), i + 1) = Items(file, Opener(file, i), i) \o Item(file, i)
  BY <1>1, <1>3, <1>10, ItemsStep
<1> HIDE DEF i, l, s, kind
<1>14. SUFFICES /\ section' = SectionAt(file, i + 1)
                /\ multilineStart' <=> Inside(file, i + 1)
                /\ multilineStart' => /\ key' = Says[file[Opener(file, i + 1)]].name
                                      /\ multiline' = Items(file, Opener(file, i + 1), i + 1)
                /\ added' = Means(file, i)
  BY <1>5 DEF AsRead
<1>15. CASE SkipComment
  <2>1. kind = "comment"
    BY <1>6, <1>15 DEF SkipComment, b
  <2>2. UNCHANGED <<section, key, multiline, multilineStart, added>>
    BY <1>15 DEF SkipComment
  <2>3. multilineStart => Items(file, Opener(file, i), i + 1) = multiline
    <3>1. Item(file, i) = <<>>
      BY <2>1 DEF Item, kind
    <3> QED
      BY <1>1, <1>9, <1>13, <3>1, ConcatEmptySeq DEF Text
  <2> QED
    BY <1>9, <1>10, <1>11, <2>1, <2>2, <2>3
<1>16. CASE EndList
  <2>1. kind \in {"item", "close"}
    BY <1>6, <1>8, <1>16 DEF EndList, b
  <2>2. kind = "close"
    <3>1. kind = "item" => FirstOf(b, "]") = -1
      BY <1>4, <1>6, ListBody DEF kind, Kind, l, s
    <3>2. FirstOf(b, "]") >= 0
      BY <1>16 DEF EndList, b
    <3>3. kind # "item"
      BY <3>1, <3>2
    <3> QED
      BY <2>1, <3>3
  <2>3. /\ multilineStart /\ multilineStart' = FALSE /\ section' = section
        /\ added' = Append(added, [section |-> section, key |-> key, value |-> multiline])
    BY <1>16 DEF EndList, Add
  <2>4. Entry(file, i) = [section |-> section, key |-> key, value |-> multiline]
    <3>1. Kind(file, i) # "pair"
      BY <2>2 DEF kind
    <3>2. Entry(file, i) = [section |-> SectionAt(file, i),
                            key     |-> Says[file[Opener(file, i)]].name,
                            value   |-> Items(file, Opener(file, i), i)]
      BY <3>1 DEF Entry, Opener
    <3> QED
      BY <1>9, <2>3, <3>2
  <2>5. Entry(file, i) \in Entries
    BY <1>1, <2>4 DEF Entries
  <2>6. added' = Means(file, i)
    <3>1. Append(added, Entry(file, i)) = added \o <<Entry(file, i)>>
      BY <1>1, <2>5, AppendIsConcat
    <3>2. Means(file, i) = added \o <<Entry(file, i)>>
      BY <1>12, <2>2
    <3> QED
      BY <2>3, <2>4, <3>1, <3>2
  <2> QED
    BY <1>10, <2>2, <2>3, <2>6
<1>17. CASE ExtendList
  <2>1. kind \in {"item", "close"}
    BY <1>6, <1>8, <1>17 DEF ExtendList, b
  <2>2. kind = "item"
    <3>1. kind = "close" => FirstOf(b, "]") = 0
      BY <1>4, <1>6, ListBody DEF kind, Kind, l, s
    <3>2. FirstOf(b, "]") < 0
      BY <1>17 DEF ExtendList, b
    <3>3. kind # "close"
      BY <3>1, <3>2
    <3> QED
      BY <2>1, <3>3
  <2>3. /\ multilineStart /\ multiline' = multiline \o b
        /\ UNCHANGED <<section, key, multilineStart, added>>
    BY <1>17 DEF ExtendList, b
  <2>4. b = Item(file, i)
    <3>1. b = s.value
      BY <1>4, <1>6, <2>2, ListBody DEF kind, Kind, l, s
    <3> QED
      BY <2>2, <3>1 DEF Item, kind, Kind, l, s
  <2> QED
    BY <1>9, <1>10, <1>11, <1>13, <2>2, <2>3, <2>4
<1>18. CASE BeginSection
  <2>1. kind \in {"section", "pair", "open"}
    BY <1>6, <1>7, <1>8, <1>18 DEF BeginSection, b
  <2>2. kind = "section"
    <3>1. kind = "pair" => InterpretIniSection(b) = <<>>
      BY <1>4, <1>6, PairBody DEF kind, Kind, l, s
    <3>2. kind = "open" => InterpretIniSection(b) = <<>>
      BY <1>4, <1>6, OpenBody DEF kind, Kind, l, s
    <3>3. InterpretIniSection(b) # <<>>
      BY <1>18 DEF BeginSection, b
    <3> QED
      BY <2>1, <3>1, <3>2, <3>3
  <2>3. InterpretIniSection(b) = s.name
    BY <1>4, <1>6, <2>2, SectionBody DEF kind, Kind, l, s
  <2>4. /\ section' = s.name /\ ~multilineStart
        /\ UNCHANGED <<key, multiline, multilineStart, added>>
    BY <1>18, <2>3 DEF BeginSection, b
  <2> QED
    BY <1>10, <1>11, <2>2, <2>4
<1>19. CASE InterpretIniKeyValue
  <2>1. kind \in {"section", "pair", "open"} /\ ~multilineStart
    BY <1>6, <1>7, <1>8, <1>19 DEF InterpretIniKeyValue, b
  <2>2. kind # "section"
    <3>1. kind = "section" => InterpretIniSection(b) # <<>>
      BY <1>4, <1>6, SectionBody DEF kind, Kind, l, s
    <3>2. InterpretIniSection(b) = <<>>
      BY <1>19 DEF InterpretIniKeyValue, b
    <3> QED
      BY <3>1, <3>2
  <2>3. section' = section /\ multiline' = multiline
    BY <1>19 DEF InterpretIniKeyValue
  <2>4. CASE kind = "pair"
    <3>1. IsPair(b) /\ KeyOf(b) = s.name /\ ValueOf(b) = s.value /\ ~OpensList(b)
      BY <1>4, <1>6, <2>4, PairBody DEF kind, Kind, l, s
    <3>2. /\ multilineStart' = FALSE
          /\ added' = Append(added, [section |-> section, key |-> s.name, value |-> s.value])
      BY <1>19, <3>1 DEF InterpretIniKeyValue, Add, b
    <3>3. Entry(file, i) = [section |-> section, key |-> s.name, value |-> s.value]
      BY <1>9, <2>4 DEF Entry, kind, l, s
    <3>4. Entry(file, i) \in Entries
      BY <1>1, <1>7, <3>3 DEF Entries
    <3>5. added' = Means(file, i)
      <4>1. Append(added, Entry(file, i)) = added \o <<Entry(file, i)>>
        BY <1>1, <3>4, AppendIsConcat
      <4>2. Means(file, i) = added \o <<Entry(file, i)>>
        BY <1>12, <2>4
      <4> QED
        BY <3>2, <3>3, <4>1, <4>2
    <3> QED
      BY <1>10, <2>1, <2>3, <2>4, <3>2, <3>5
  <2>5. CASE kind = "open"
    <3>1. IsPair(b) /\ KeyOf(b) = s.name /\ OpensList(b)
      BY <1>4, <1>6, <2>5, OpenBody DEF kind, Kind, l, s
    <3>2. multilineStart' /\ key' = s.name /\ added' = added
      BY <1>19, <3>1 DEF InterpretIniKeyValue, b
    <3>3. multiline' = <<>>
      BY <1>1, <2>1, <2>3
    <3>4. Opener(file, i + 1) = i
      BY <1>10, <2>5
    <3>5. Items(file, i, i + 1) = <<>>
      BY <1>3, ItemsNone
    <3>6. key' = Says[file[i]].name
      BY <3>2 DEF s, l
    <3> QED
      BY <1>10, <1>11, <2>3, <2>5, <3>2, <3>3, <3>4, <3>5, <3>6
  <2> QED
    BY <2>1, <2>2, <2>4, <2>5
<1> QED
  BY <1>15, <1>16, <1>17, <1>18, <1>19 DEF Next

LEMMA ReadingKept == Reading /\ [Next]_vars => Reading'
<1> SUFFICES ASSUME Reading, [Next]_vars PROVE Reading'
  OBVIOUS
<1>1. Typed /\ Typed'
  BY TypedStep DEF Reading
<1>2. ASSUME opened', UsualFile(file'), WellFormed(file')
      PROVE  AsRead'
  <2>1. file' = file /\ opened' = opened
    BY DEF Next, SkipComment, EndList, ExtendList, BeginSection, InterpretIniKeyValue, GetLine, vars
  <2>2. opened /\ UsualFile(file) /\ WellFormed(file)
    BY <1>2, <2>1
  <2>3. AsRead
    BY <2>2 DEF Reading
  <2>4. CASE Next
    BY <1>1, <2>2, <2>3, <2>4, ReadingStep
  <2>5. CASE UNCHANGED vars
    BY <2>3, <2>5 DEF AsRead, vars
  <2> QED
    BY <2>4, <2>5
<1> QED
  BY <1>1, <1>2 DEF Reading

\* A well-formed file of usual lines is read as what it says: every pair and
\* every list is added once, in order, with its section, key and value.
THEOREM IniReadsUsual == Spec => [](UsualFile(file) => ReadsWellFormed)
<1>1. Reading => (UsualFile(file) => ReadsWellFormed)
  BY DEF Reading, AsRead, ReadsWellFormed
<1> QED
  BY <1>1, ReadingBegins, ReadingKept, PTL DEF Spec

-----------------------------------------------------------------------------
(* Numbers and their digits.                                               *)

\* One digit more of the number that begins at i.
Digit(F, s, i, base, k) == IF k = i THEN 0 ELSE base * F[k - 1] + s[k - 1]

LEMMA DigitsRun ==
  ASSUME NEW s, NEW i \in Int, NEW n \in Nat, NEW base
  PROVE  \E F : F = [k \in i..(i + n) |-> Digit(F, s, i, base, k)]
<1> DEFINE Reached == {m \in 0..n : \E F : F = [k \in i..(i + m) |-> Digit(F, s, i, base, k)]}
<1>1. 0 \in Reached
  <2> DEFINE F == [k \in i..(i + 0) |-> 0]
  <2>1. F = [k \in i..(i + 0) |-> Digit(F, s, i, base, k)]
    BY DEF Digit
  <2> QED
    BY <2>1
<1>2. ASSUME NEW m \in 1..n, m - 1 \in Reached
      PROVE  m \in Reached
  <2>1. PICK F : F = [k \in i..(i + (m - 1)) |-> Digit(F, s, i, base, k)]
    BY <1>2
  <2> DEFINE G == [k \in i..(i + m) |-> IF k = i + m THEN Digit(F, s, i, base, i + m) ELSE F[k]]
  <2>2. \A k \in i..(i + (m - 1)) : G[k] = F[k]
    OBVIOUS
  <2>a. G[i + m] = Digit(F, s, i, base, i + m) /\ G = [k \in i..(i + m) |-> G[k]]
    OBVIOUS
  <2> HIDE DEF G
  <2>3. ASSUME NEW k \in i..(i + m) PROVE G[k] = Digit(G, s, i, base, k)
    <3>1. Digit(G, s, i, base, k) = Digit(F, s, i, base, k)
      <4>1. CASE k = i
        BY <4>1 DEF Digit
      <4>2. CASE k # i
        <5>1. k - 1 \in i..(i + (m - 1))
          BY <4>2
        <5>2. G[k - 1] = F[k - 1]
          BY <2>2, <5>1
        <5> QED
          BY <4>2, <5>2 DEF Digit
      <4> QED
        BY <4>1, <4>2
    <3>2. G[k] = Digit(F, s, i, base, k)
      <4>1. CASE k = i + m
        BY <2>a, <4>1
      <4>2. CASE k # i + m
        <5>1. k \in i..(i + (m - 1))
          BY <4>2
        <5>2. F[k] = Digit(F, s, i, base, k)
          BY <2>1, <5>1
        <5> QED
          BY <2>2, <5>1, <5>2
      <4> QED
        BY <4>1, <4>2
    <3> QED
      BY <3>1, <3>2
  <2>4. G = [k \in i..(i + m) |-> Digit(G, s, i, base, k)]
    BY <2>3, <2>a
  <2> QED
    BY <2>4
<1>3. Reached \in SUBSET (0..n) /\ \A m \in 1..n : m - 1 \in Reached => m \in Reached
  BY <1>2
<1> HIDE DEF Reached
<1>4. Reached = 0..n
  BY <1>1, <1>3, Induction
<1>5. n \in Reached
  BY <1>4
<1> QED
  BY <1>5 DEF Reached

\* Number is what the loop holds after the last digit.
LEMMA NumberLoop ==
  ASSUME NEW s, NEW i \in Int, NEW j \in Int, i <= j, NEW base
  PROVE  \E F : /\ Number(s, i, j, base) = F[j]
                /\ \A k \in i..j : F[k] = Digit(F, s, i, base, k)
<1> DEFINE F == CHOOSE F : F = [k \in i..j |-> Digit(F, s, i, base, k)]
<1>1. F = [k \in i..j |-> Digit(F, s, i, base, k)]
  <2>1. PICK n \in Nat : j = i + n
    <3>1. j - i \in Nat /\ j = i + (j - i)
      OBVIOUS
    <3> QED
      BY <3>1
  <2> QED
    BY <2>1, DigitsRun
<1>2. Number(s, i, j, base) = F[j]
  BY DEF Number, Digit
<1> HIDE DEF F
<1> QED
  BY <1>1, <1>2

LEMMA NumberType ==
  ASSUME NEW s, NEW i \in Int, NEW j \in Int, i <= j, NEW base \in Int,
         \A k \in i..(j - 1) : s[k] \in Int
  PROVE  Number(s, i, j, base) \in Int
<1>1. PICK F : /\ Number(s, i, j, base) = F[j]
               /\ \A k \in i..j : F[k] = Digit(F, s, i, base, k)
  BY NumberLoop
<1> DEFINE Good == {m \in 0..(j - i) : F[i + m] \in Int}
<1>2. 0 \in Good
  <2>1. i \in i..j /\ i + 0 = i /\ 0 \in 0..(j - i)
    OBVIOUS
  <2>2. F[i] = Digit(F, s, i, base, i)
    BY <1>1, <2>1
  <2>3. F[i] = 0
    BY <2>2 DEF Digit
  <2> QED
    BY <2>1, <2>3
<1>3. ASSUME NEW m \in 1..(j - i), m - 1 \in Good
      PROVE  m \in Good
  <2>1. PICK k \in (i + 1)..j : k = i + m
    OBVIOUS
  <2>2. F[k - 1] \in Int /\ s[k - 1] \in Int
    <3>1. k - 1 = i + (m - 1) /\ k - 1 \in i..(j - 1)
      BY <2>1
    <3>2. F[i + (m - 1)] \in Int
      BY <1>3
    <3> QED
      BY <3>1, <3>2
  <2>3. F[k] = base * F[k - 1] + s[k - 1]
    <3>1. k \in i..j /\ k # i
      OBVIOUS
    <3>2. F[k] = Digit(F, s, i, base, k)
      BY <1>1, <3>1
    <3> QED
      BY <3>1, <3>2 DEF Digit
  <2>4. F[k] \in Int
    BY <2>2, <2>3
  <2> QED
    BY <2>1, <2>4
<1>4. Good \in SUBSET (0..(j - i)) /\ j - i \in Nat
  OBVIOUS
<1> HIDE DEF Good
<1>5. Good = 0..(j - i)
  BY <1>2, <1>3, <1>4, Induction
<1>6. j - i \in Good
  BY <1>4, <1>5
<1>7. F[i + (j - i)] \in Int /\ i + (j - i) = j
  BY <1>6 DEF Good
<1> QED
  BY <1>1, <1>7

\* The n characters of s from b on are those of d.
Holds(s, b, d, n) == \A k \in 1..n : s[b + k - 1] = d[k]

\* The same digits at another place are the same number.
LEMMA NumberSame ==
  ASSUME NEW s, NEW d, NEW b \in Int, NEW n \in Nat, NEW base, Holds(s, b, d, n)
  PROVE  Number(s, b, b + n, base) = Number(d, 1, n + 1, base)
<1>0. PICK e \in Int, a \in Int, z \in Int : /\ e = b + n /\ b <= e
                                              /\ a = 1 /\ z = n + 1 /\ a <= z
  OBVIOUS
<1>1. PICK F : /\ Number(s, b, e, base) = F[e]
               /\ \A k \in b..e : F[k] = Digit(F, s, b, base, k)
  BY <1>0, NumberLoop
<1>2. PICK G : /\ Number(d, a, z, base) = G[z]
               /\ \A k \in a..z : G[k] = Digit(G, d, a, base, k)
  BY <1>0, NumberLoop
<1> DEFINE Same == {m \in 0..n : F[b + m] = G[1 + m]}
<1>3. 0 \in Same
  <2>1. b \in b..e /\ a \in a..z /\ b + 0 = b /\ 1 + 0 = a /\ 0 \in 0..n
    BY <1>0
  <2>2. F[b] = Digit(F, s, b, base, b) /\ G[a] = Digit(G, d, a, base, a)
    BY <1>1, <1>2, <2>1
  <2>3. F[b] = 0 /\ G[a] = 0
    BY <2>2 DEF Digit
  <2> QED
    BY <2>1, <2>3
<1>4. ASSUME NEW m \in 1..n, m - 1 \in Same
      PROVE  m \in Same
  <2>1. PICK k \in (b + 1)..(b + n) : k = b + m
    OBVIOUS
  <2>2. PICK l \in 2..(n + 1) : l = 1 + m
    OBVIOUS
  <2>3. F[k - 1] = G[l - 1]
    <3>1. k - 1 = b + (m - 1) /\ l - 1 = 1 + (m - 1)
      BY <2>1, <2>2
    <3>2. F[b + (m - 1)] = G[1 + (m - 1)]
      BY <1>4
    <3> QED
      BY <3>1, <3>2
  <2>4. s[k - 1] = d[l - 1]
    <3>1. s[b + m - 1] = d[m]
      BY DEF Holds
    <3>2. k - 1 = b + m - 1 /\ l - 1 = m
      BY <2>1, <2>2
    <3> QED
      BY <3>1, <3>2
  <2>5. F[k] = base * F[k - 1] + s[k - 1] /\ G[l] = base * G[l - 1] + d[l - 1]
    <3>1. k \in b..e /\ k # b /\ l \in a..z /\ l # a
      BY <1>0
    <3>2. F[k] = Digit(F, s, b, base, k) /\ G[l] = Digit(G, d, a, base, l)
      BY <1>1, <1>2, <3>1
    <3> QED
      BY <3>1, <3>2 DEF Digit
  <2>6. F[k] = G[l]
    BY <2>3, <2>4, <2>5
  <2> QED
    BY <2>1, <2>2, <2>6
<1>5. Same \in SUBSET (0..n)
  OBVIOUS
<1> HIDE DEF Same
<1>6. Same = 0..n
  BY <1>3, <1>4, <1>5, Induction
<1>7. n \in Same
  BY <1>6
<1>8. F[b + n] = G[1 + n] /\ b + n = e /\ 1 + n = z
  BY <1>0, <1>7 DEF Same
<1> QED
  BY <1>0, <1>1, <1>2, <1>8

\* Numbers of one, two, three and four digits.
Then(base, n, c) == base * n + c

LEMMA ShortNumbers ==
  ASSUME NEW d, NEW base \in Int, \A k \in DOMAIN d : d[k] \in Int
  PROVE  /\ DOMAIN d = 1..1 => Number(d, 1, 2, base) = d[1]
         /\ DOMAIN d = 1..2 => Number(d, 1, 3, base) = Then(base, d[1], d[2])
         /\ DOMAIN d = 1..3 => Number(d, 1, 4, base) = Then(base, Then(base, d[1], d[2]), d[3])
         /\ DOMAIN d = 1..4 =>
              Number(d, 1, 5, base) = Then(base, Then(base, Then(base, d[1], d[2]), d[3]), d[4])
<1>1. ASSUME NEW n \in 1..4, DOMAIN d = 1..n
      PROVE  \E F : /\ Number(d, 1, n + 1, base) = F[n + 1]
                    /\ F[2] = d[1]
                    /\ n > 1 => F[3] = Then(base, F[2], d[2])
                    /\ n > 2 => F[4] = Then(base, F[3], d[3])
                    /\ n > 3 => F[5] = Then(base, F[4], d[4])
  <2>0. PICK a \in Int, z \in Int : a = 1 /\ z = n + 1 /\ a <= z
    OBVIOUS
  <2>1. PICK F : /\ Number(d, a, z, base) = F[z]
                 /\ \A k \in a..z : F[k] = Digit(F, d, a, base, k)
    BY <2>0, NumberLoop
  <2>2. \A k \in 1..(n + 1) : F[k] = IF k = 1 THEN 0 ELSE base * F[k - 1] + d[k - 1]
    BY <2>0, <2>1 DEF Digit
  <2>3. d[1] \in Int
    BY <1>1
  <2>4. F[1] = 0 /\ F[2] = base * F[1] + d[1]
    BY <2>2
  <2>5. F[2] = d[1]
    BY <2>3, <2>4
  <2>6. /\ n > 1 => F[3] = Then(base, F[2], d[2])
        /\ n > 2 => F[4] = Then(base, F[3], d[3])
        /\ n > 3 => F[5] = Then(base, F[4], d[4])
    BY <2>2 DEF Then
  <2> QED
    BY <2>0, <2>1, <2>5, <2>6
<1>2. ASSUME DOMAIN d = 1..1 PROVE Number(d, 1, 2, base) = d[1]
  BY <1>1, <1>2
<1>3. ASSUME DOMAIN d = 1..2 PROVE Number(d, 1, 3, base) = Then(base, d[1], d[2])
  BY <1>1, <1>3
<1>4. ASSUME DOMAIN d = 1..3 PROVE Number(d, 1, 4, base) = Then(base, Then(base, d[1], d[2]), d[3])
  BY <1>1, <1>4
<1>5. ASSUME DOMAIN d = 1..4
      PROVE  Number(d, 1, 5, base) = Then(base, Then(base, Then(base, d[1], d[2]), d[3]), d[4])
  BY <1>1, <1>5
<1> QED
  BY <1>2, <1>3, <1>4, <1>5

\* The digits d are those of x, one to four of them.
Writes(d, x, base) ==
  /\ d \in Seq(0..base - 1) /\ Len(d) \in 1..4
  /\ Number(d, 1, Len(d) + 1, base) = x

\* A number is made of its four digits.
LEMMA FourParts ==
  ASSUME NEW base \in {10, 16}, NEW x \in Int,
         x \in base * base * base..base * base * base * base - 1
  PROVE  base * (base * (base * (x \div (base * base * base)) + ((x \div (base * base)) % base))
                   + ((x \div base) % base)) + (x % base) = x
OBVIOUS

LEMMA DigitsWrite ==
  ASSUME NEW base \in {10, 16}, NEW x \in Nat, x < base * base * base * base
  PROVE  Writes(Digits(x, base), x, base)
<1> DEFINE d == Digits(x, base)
<1>0. base \in Int /\ x \in Int
  OBVIOUS
<1>1. CASE x < base
  <2>1. d = <<x>>
    BY <1>1 DEF Digits
  <2>2. /\ x \in 0..base - 1
    BY <1>1
  <2>3. d \in Seq(0..base - 1) /\ Len(d) = 1 /\ DOMAIN d = 1..1
    BY <2>1, <2>2
  <2>4. d[1] = x
    BY <2>1
  <2> HIDE DEF d
  <2>5. \A k \in DOMAIN d : d[k] \in Int
    BY <1>0, <2>2, <2>3, <2>4
  <2>6. Number(d, 1, 2, base) = d[1]
    BY <1>0, <2>3, <2>5, ShortNumbers
  <2>8. d[1] = x
    BY <2>4
  <2>9. Number(d, 1, Len(d) + 1, base) = x
    BY <2>3, <2>6, <2>8
  <2> QED
    BY <2>3, <2>9 DEF Writes, d
<1>2. CASE x \in base..base * base - 1
  <2>1. d = <<x \div base, x % base>>
    BY <1>2 DEF Digits
  <2>2. /\ x \div base \in 0..base - 1
        /\ x % base \in 0..base - 1
    BY <1>2
  <2>3. d \in Seq(0..base - 1) /\ Len(d) = 2 /\ DOMAIN d = 1..2
    BY <2>1, <2>2
  <2>4. d[1] = x \div base /\ d[2] = x % base
    BY <2>1
  <2> HIDE DEF d
  <2>5. \A k \in DOMAIN d : d[k] \in Int
    BY <1>0, <2>2, <2>3, <2>4
  <2>6. Number(d, 1, 3, base) = Then(base, d[1], d[2])
    BY <1>0, <2>3, <2>5, ShortNumbers
  <2>7. base * (x \div base) + (x % base) = x
    BY <1>2
  <2>8. Then(base, d[1], d[2]) = x
    BY <1>0, <2>2, <2>4, <2>7 DEF Then
  <2>9. Number(d, 1, Len(d) + 1, base) = x
    BY <2>3, <2>6, <2>8
  <2> QED
    BY <2>3, <2>9 DEF Writes, d
<1>3. CASE x \in base * base..base * base * base - 1
  <2>1. d = <<x \div (base * base), (x \div base) % base, x % base>>
    BY <1>3 DEF Digits
  <2>2. /\ x \div (base * base) \in 0..base - 1
        /\ (x \div base) % base \in 0..base - 1
        /\ x % base \in 0..base - 1
    BY <1>3
  <2>3. d \in Seq(0..base - 1) /\ Len(d) = 3 /\ DOMAIN d = 1..3
    BY <2>1, <2>2
  <2>4. d[1] = x \div (base * base) /\ d[2] = (x \div base) % base /\ d[3] = x % base
    BY <2>1
  <2> HIDE DEF d
  <2>5. \A k \in DOMAIN d : d[k] \in Int
    BY <1>0, <2>2, <2>3, <2>4
  <2>6. Number(d, 1, 4, base) = Then(base, Then(base, d[1], d[2]), d[3])
    BY <1>0, <2>3, <2>5, ShortNumbers
  <2>7. base * (base * (x \div (base * base)) + ((x \div base) % base)) + (x % base) = x
    BY <1>3
  <2>8. Then(base, Then(base, d[1], d[2]), d[3]) = x
    BY <1>0, <2>2, <2>4, <2>7 DEF Then
  <2>9. Number(d, 1, Len(d) + 1, base) = x
    BY <2>3, <2>6, <2>8
  <2> QED
    BY <2>3, <2>9 DEF Writes, d
<1>4. CASE x \in base * base * base..base * base * base * base - 1
  <2>1. d = <<x \div (base * base * base), (x \div (base * base)) % base,
             (x \div base) % base, x % base>>
    BY <1>4 DEF Digits
  <2>2. /\ x \div (base * base * base) \in 0..base - 1
        /\ (x \div (base * base)) % base \in 0..base - 1
        /\ (x \div base) % base \in 0..base - 1
        /\ x % base \in 0..base - 1
    BY <1>4
  <2>3. d \in Seq(0..base - 1) /\ Len(d) = 4 /\ DOMAIN d = 1..4
    BY <2>1, <2>2
  <2>4. d[1] = x \div (base * base * base) /\ d[2] = (x \div (base * base)) % base /\ d[3] = (x \div base) % base /\ d[4] = x % base
    BY <2>1
  <2> HIDE DEF d
  <2>5. \A k \in DOMAIN d : d[k] \in Int
    BY <1>0, <2>2, <2>3, <2>4
  <2>6. Number(d, 1, 5, base) = Then(base, Then(base, Then(base, d[1], d[2]), d[3]), d[4])
    BY <1>0, <2>3, <2>5, ShortNumbers
  <2>7. base * (base * (base * (x \div (base * base * base)) + ((x \div (base * base)) % base)) + ((x \div base) % base)) + (x % base) = x
    BY <1>0, <1>4, FourParts
  <2>8. Then(base, Then(base, Then(base, d[1], d[2]), d[3]), d[4]) = x
    BY <1>0, <2>2, <2>4, <2>7 DEF Then
  <2>9. Number(d, 1, Len(d) + 1, base) = x
    BY <2>3, <2>6, <2>8
  <2> QED
    BY <2>3, <2>9 DEF Writes, d
<1> QED
  BY <1>1, <1>2, <1>3, <1>4

\* A byte in three decimal digits at the most, and in two of sixteen.
LEMMA ByteDigits ==
  ASSUME NEW x \in Byte
  PROVE  /\ Writes(Digits(x, 10), x, 10) /\ Len(Digits(x, 10)) <= 3
         /\ Writes(Padded(x, 2), x, 16) /\ Len(Padded(x, 2)) = 2
<1>1. Writes(Digits(x, 10), x, 10) /\ Len(Digits(x, 10)) <= 3
  <2>1. PICK b \in {10, 16} : b = 10
    OBVIOUS
  <2>2. x < b * b * b * b /\ x \in Nat /\ x < b * b * b
    BY <2>1 DEF Byte
  <2>3. Writes(Digits(x, b), x, b)
    BY <2>2, DigitsWrite
  <2>4. Len(Digits(x, b)) <= 3
    BY <2>2 DEF Digits
  <2> QED
    BY <2>1, <2>3, <2>4
<1>2. PICK b \in {10, 16} : b = 16
  OBVIOUS
<1>3. x < b * b * b * b /\ x \in Nat /\ x < b * b
  BY <1>2 DEF Byte
<1> DEFINE d == Digits(x, 16)
<1>4. Padded(x, 2) = [i \in 1..(2 - Len(d)) |-> 0] \o d
  BY DEF Padded
<1>5. CASE x < b
  <2>1. d = <<x>>
    <3>1. Digits(x, b) = <<x>>
      BY <1>3, <1>5 DEF Digits
    <3> QED
      BY <1>2, <3>1
  <2> HIDE DEF d
  <2> DEFINE p == Padded(x, 2)
  <2>2. 2 - Len(d) = 1
    BY <2>1
  <2>3. [i \in 1..1 |-> 0] = <<0>>
    OBVIOUS
  <2>a. [i \in 1..(2 - Len(d)) |-> 0] = [i \in 1..1 |-> 0]
    BY <2>2
  <2>b. p = <<0>> \o <<x>>
    BY <1>4, <2>1, <2>3, <2>a
  <2>c. x \in 0..15
    BY <1>2, <1>3, <1>5
  <2> HIDE DEF p
  <2>4. p \in Seq(0..15) /\ Len(p) = 2 /\ DOMAIN p = 1..2 /\ p[1] = 0 /\ p[2] = x
    BY <2>b, <2>c
  <2>5. PICK i16 \in Int : i16 = 16
    OBVIOUS
  <2>6. \A k \in DOMAIN p : p[k] \in Int
    BY <1>3, <2>4
  <2>7. Number(p, 1, 3, i16) = Then(i16, p[1], p[2])
    BY <2>4, <2>6, ShortNumbers
  <2>8. Number(p, 1, 3, 16) = x
    BY <1>3, <2>4, <2>5, <2>7 DEF Then
  <2>9. Writes(p, x, 16)
    BY <2>4, <2>8 DEF Writes
  <2> QED
    BY <1>1, <2>4, <2>9 DEF p
<1>6. CASE x >= b
  <2>1. Writes(d, x, 16)
    BY <1>2, <1>3, DigitsWrite
  <2>2. Len(d) = 2
    <3>1. x \in b..b * b - 1
      BY <1>2, <1>3, <1>6
    <3>2. Len(Digits(x, b)) = 2
      BY <3>1 DEF Digits
    <3> QED
      BY <1>2, <3>2
  <2> HIDE DEF d
  <2>3. 2 - Len(d) = 0 /\ [i \in 1..0 |-> 0] = <<>>
    BY <2>2
  <2>4. [i \in 1..(2 - Len(d)) |-> 0] = <<>>
    BY <2>3
  <2>5. <<>> \o d = d
    BY <2>1, ConcatEmptySeq DEF Writes
  <2>6. Padded(x, 2) = d
    BY <1>4, <2>4, <2>5
  <2> QED
    BY <1>1, <2>1, <2>2, <2>6
<1> QED
  BY <1>2, <1>3, <1>5, <1>6

-----------------------------------------------------------------------------
(* Texts laid one behind the other.                                        *)

\* The first k of the texts s, and where they end.
First(s, k) == FlattenSeq(SubSeq(s, 1, k))
End(s, k)   == Len(First(s, k))

LEMMA Begun ==
  ASSUME NEW S, NEW s \in Seq(Seq(S)), NEW k \in 0..Len(s)
  PROVE  /\ SubSeq(s, 1, k) \in Seq(Seq(S)) /\ Len(SubSeq(s, 1, k)) = k
         /\ \A i \in 1..k : SubSeq(s, 1, k)[i] = s[i]
<1>1. \A i \in 1..k : s[i] \in Seq(S)
  OBVIOUS
<1>2. /\ SubSeq(s, 1, k) \in Seq(Seq(S))
      /\ Len(SubSeq(s, 1, k)) = IF 1 <= k THEN k - 1 + 1 ELSE 0
      /\ \A i \in 1..(k - 1 + 1) : SubSeq(s, 1, k)[i] = s[1 + i - 1]
  <2>1. 1 \in Int /\ k \in Int
    OBVIOUS
  <2> QED
    BY <1>1, <2>1, SubSeqProperties
<1> QED
  BY <1>2

LEMMA BegunOneMore ==
  ASSUME NEW S, NEW s \in Seq(Seq(S)), NEW k \in 1..Len(s)
  PROVE  First(s, k) = First(s, k - 1) \o s[k]
<1> DEFINE a == SubSeq(s, 1, k - 1)
           b == SubSeq(s, 1, k)
<1>1. PICK n \in Nat : n = k - 1
  OBVIOUS
<1>2. /\ a \in Seq(Seq(S)) /\ Len(a) = n
      /\ \A i \in 1..n : a[i] = s[i]
  <2>1. n \in 0..Len(s)
    BY <1>1
  <2> QED
    BY <1>1, <2>1, Begun
<1>3. /\ b \in Seq(Seq(S)) /\ Len(b) = k
      /\ \A i \in 1..k : b[i] = s[i]
  BY Begun
<1> HIDE DEF a, b
<1>a. n + 1 = k /\ \A i \in 1..n : i \in 1..k
  BY <1>1
<1>b. \A i \in 1..n : a[i] = b[i]
  BY <1>2, <1>3, <1>a
<1>4. Len(b) = n + 1 /\ b[n + 1] = s[k]
  <2>1. k \in 1..k
    OBVIOUS
  <2>2. Len(b) = k /\ b[k] = s[k]
    BY <1>3, <2>1
  <2> QED
    BY <1>a, <2>2
<1>5. FlattenSeq(b) = FlattenSeq(a) \o b[n + 1]
  BY <1>2, <1>3, <1>4, <1>b, FlattenOneMore
<1> QED
  BY <1>4, <1>5 DEF a, b, First

LEMMA BegunText ==
  ASSUME NEW S, NEW s \in Seq(Seq(S)), NEW k \in 0..Len(s)
  PROVE  First(s, k) \in Seq(S)
<1> DEFINE Good == {m \in 0..Len(s) : First(s, m) \in Seq(S)}
<1>1. 0 \in Good
  <2>1. SubSeq(s, 1, 0) = <<>>
    BY SubSeqEmpty
  <2>2. First(s, 0) = <<>>
    BY <2>1, FlattenNone DEF First
  <2>3. <<>> \in Seq(S) /\ 0 \in 0..Len(s)
    OBVIOUS
  <2> QED
    BY <2>2, <2>3
<1>2. ASSUME NEW m \in 1..Len(s), m - 1 \in Good
      PROVE  m \in Good
  <2>1. First(s, m - 1) \in Seq(S) /\ s[m] \in Seq(S)
    BY <1>2
  <2>2. First(s, m) = First(s, m - 1) \o s[m]
    BY BegunOneMore
  <2>3. First(s, m) \in Seq(S)
    BY <2>1, <2>2, ConcatProperties
  <2> QED
    BY <2>3
<1>3. Good \in SUBSET (0..Len(s)) /\ Len(s) \in Nat
  OBVIOUS
<1> HIDE DEF Good
<1>4. Good = 0..Len(s)
  BY <1>1, <1>2, <1>3, Induction
<1>5. k \in Good
  BY <1>4
<1> QED
  BY <1>5 DEF Good


\* With one text more.
LEMMA OneTextMore ==
  ASSUME NEW S, NEW s \in Seq(Seq(S)), NEW l \in 0..Len(s) - 1, NEW k \in Int, k = l + 1
  PROVE  /\ First(s, l) \in Seq(S) /\ First(s, k) \in Seq(S) /\ s[k] \in Seq(S)
         /\ End(s, l) \in Nat /\ Len(s[k]) \in Nat /\ End(s, k) = End(s, l) + Len(s[k])
         /\ \A i \in 1..End(s, l) : First(s, k)[i] = First(s, l)[i]
         /\ \A i \in 1..Len(s[k]) : First(s, k)[End(s, l) + i] = s[k][i]
<1>1. k \in 1..Len(s) /\ l \in 0..Len(s) /\ k \in 0..Len(s) /\ k - 1 = l
  OBVIOUS
<1>2. PICK a \in Seq(S), b \in Seq(S), c \in Seq(S) : a = First(s, l) /\ b = s[k] /\ c = First(s, k)
  BY <1>1, BegunText
<1>3. c = a \o b
  BY <1>1, <1>2, BegunOneMore
<1>4. /\ Len(c) = Len(a) + Len(b)
      /\ \A i \in 1..Len(a) : c[i] = a[i]
      /\ \A i \in 1..Len(b) : c[Len(a) + i] = b[i]
  BY <1>3, TwoTexts
<1>5. Len(a) \in Nat /\ Len(b) \in Nat
  OBVIOUS
<1>6. End(s, l) = Len(a) /\ End(s, k) = Len(c)
  BY <1>2 DEF End
<1> QED
  BY <1>2, <1>4, <1>5, <1>6

LEMMA Parts ==
  ASSUME NEW S, NEW s \in Seq(Seq(S))
  PROVE  /\ FlattenSeq(s) \in Seq(S) /\ Len(FlattenSeq(s)) = End(s, Len(s))
         /\ End(s, 0) = 0
<1>1. Len(s) \in 0..Len(s)
  OBVIOUS
<1>2. First(s, Len(s)) = FlattenSeq(s)
  <2>1. SubSeq(s, 1, Len(s)) = s
    BY SubSeqFull
  <2> QED
    BY <2>1 DEF First
<1>3. First(s, 0) = <<>>
  <2>1. SubSeq(s, 1, 0) = <<>>
    BY SubSeqEmpty
  <2> QED
    BY <2>1, FlattenNone DEF First
<1>4. First(s, Len(s)) \in Seq(S)
  BY <1>1, BegunText
<1> QED
  BY <1>2, <1>3, <1>4 DEF End

\* Where each of the texts stands.
LEMMA Part ==
  ASSUME NEW S, NEW s \in Seq(Seq(S)), NEW l \in 0..Len(s) - 1, NEW k \in Int, k = l + 1,
         NEW i \in 1..Len(s[k])
  PROVE  End(s, l) + i <= Len(FlattenSeq(s)) /\ FlattenSeq(s)[End(s, l) + i] = s[k][i]
<1>1. /\ End(s, l) \in Nat /\ Len(s[k]) \in Nat /\ End(s, k) = End(s, l) + Len(s[k])
      /\ First(s, k)[End(s, l) + i] = s[k][i]
  BY OneTextMore
<1>2. PICK x \in Nat : x = End(s, l) + i /\ x >= 1
  BY <1>1
<1> DEFINE Here == {m \in 0..Len(s) : m >= k => x <= End(s, m) /\ First(s, m)[x] = s[k][i]}
<1>3. 0 \in Here
  OBVIOUS
<1>4. ASSUME NEW m \in 1..Len(s), m - 1 \in Here
      PROVE  m \in Here
  <2>1. PICK h \in 0..Len(s) - 1 : h = m - 1
    OBVIOUS
  <2>2. m = h + 1 /\ m \in Int
    BY <2>1
  <2>3. CASE h < k - 1
    BY <2>2, <2>3
  <2>4. CASE h = k - 1
    <3>1. m = k
      BY <2>2, <2>4
    <3> QED
      BY <1>1, <1>2, <3>1
  <2>5. CASE h >= k
    <3>1. x <= End(s, h) /\ First(s, h)[x] = s[k][i]
      BY <1>4, <2>1, <2>5
    <3>2. /\ End(s, h) \in Nat /\ Len(s[m]) \in Nat /\ End(s, m) = End(s, h) + Len(s[m])
          /\ \A j \in 1..End(s, h) : First(s, m)[j] = First(s, h)[j]
      BY <2>2, OneTextMore
    <3>3. x \in 1..End(s, h) /\ x <= End(s, m)
      BY <1>2, <3>1, <3>2, SMTT(30)
    <3> QED
      BY <3>1, <3>2, <3>3
  <2> QED
    BY <2>1, <2>3, <2>4, <2>5
<1>5. Here \in SUBSET (0..Len(s)) /\ Len(s) \in Nat
  OBVIOUS
<1> HIDE DEF Here
<1>6. Here = 0..Len(s)
  BY <1>3, <1>4, <1>5, Induction
<1>7. Len(s) \in Here /\ Len(s) >= k
  BY <1>5, <1>6
<1>8. x <= End(s, Len(s)) /\ First(s, Len(s))[x] = s[k][i]
  BY <1>7 DEF Here
<1>9. First(s, Len(s)) = FlattenSeq(s) /\ End(s, Len(s)) = Len(FlattenSeq(s))
  <2>1. SubSeq(s, 1, Len(s)) = s
    BY SubSeqFull
  <2> QED
    BY <2>1 DEF First, End
<1> QED
  BY <1>2, <1>8, <1>9

\* The n texts stand in t one behind the other, the k-th from B[k] on, with one
\* character between them.
Laid(t, texts, n, B) ==
  /\ \A k \in 1..n :
       /\ B[k] \in 1..Len(t) + 1
       /\ Holds(t, B[k], texts[k], Len(texts[k]))
  /\ B[1] = 1
  /\ \A k \in 1..n - 1 : /\ B[k] + Len(texts[k]) <= Len(t) /\ t[B[k] + Len(texts[k])] = Sep
                         /\ B[k + 1] = B[k] + Len(texts[k]) + 1
  /\ B[n] + Len(texts[n]) = Len(t) + 1

LEMMA JoinedLaid ==
  ASSUME NEW S, Sep \in S, NEW texts \in Seq(Seq(S)), NEW n \in Nat \ {0}, n = Len(texts)
  PROVE  Joined(texts) \in Seq(S) /\ \E B : Laid(Joined(texts), texts, n, B)
<1> DEFINE p == [i \in 1..n |-> IF i = 1 THEN texts[i] ELSE <<Sep>> \o texts[i]]
           t == Joined(texts)
           B == [k \in 1..n |-> IF k = 1 THEN 1 ELSE End(p, k - 1) + 2]
<1>1. t = FlattenSeq(p)
  BY DEF Joined
<1>2. \A k \in 1..n : texts[k] \in Seq(S) /\ Len(texts[k]) \in Nat
  OBVIOUS
<1>3. ASSUME NEW k \in 2..n
      PROVE  /\ <<Sep>> \o texts[k] \in Seq(S) /\ Len(<<Sep>> \o texts[k]) = Len(texts[k]) + 1
             /\ (<<Sep>> \o texts[k])[1] = Sep
             /\ \A i \in 1..Len(texts[k]) : (<<Sep>> \o texts[k])[i + 1] = texts[k][i]
  <2>1. PICK a \in Seq(S), b \in Seq(S) : a = <<Sep>> /\ b = texts[k]
    <3>1. <<Sep>> \in Seq(S)
      OBVIOUS
    <3>2. texts[k] \in Seq(S)
      BY <1>2
    <3> QED
      BY <3>1, <3>2
  <2>2. Len(a) = 1 /\ a[1] = Sep
    BY <2>1
  <2>3. /\ a \o b \in Seq(S) /\ Len(a \o b) = Len(a) + Len(b)
        /\ \A i \in 1..Len(a) : (a \o b)[i] = a[i]
        /\ \A i \in 1..Len(b) : (a \o b)[Len(a) + i] = b[i]
    BY TwoTexts
  <2>4. Len(b) \in Nat
    OBVIOUS
  <2> DEFINE c == a \o b
  <2> HIDE DEF c
  <2>5. /\ c \in Seq(S) /\ Len(c) = Len(b) + 1 /\ c[1] = Sep
        /\ \A i \in 1..Len(b) : c[i + 1] = b[i]
    BY <2>2, <2>3, <2>4 DEF c
  <2> QED
    BY <2>1, <2>5 DEF c
<1>4. /\ p \in Seq(Seq(S)) /\ Len(p) = n /\ p[1] = texts[1]
      /\ \A k \in 2..n : p[k] = <<Sep>> \o texts[k]
  <2>1. ASSUME NEW k \in 1..n
        PROVE  (IF k = 1 THEN texts[k] ELSE <<Sep>> \o texts[k]) \in Seq(S)
    <3>1. CASE k = 1
      BY <1>2, <3>1
    <3>2. CASE k # 1
      BY <1>3, <3>2
    <3> QED
      BY <3>1, <3>2
  <2> QED
    BY <2>1
<1>5. \A k \in 2..n : /\ Len(p[k]) = Len(texts[k]) + 1 /\ p[k][1] = Sep
                      /\ \A i \in 1..Len(texts[k]) : p[k][i + 1] = texts[k][i]
  BY <1>3, <1>4
<1>6. B[1] = 1 /\ \A k \in 2..n : B[k] = End(p, k - 1) + 2
  OBVIOUS
<1> HIDE DEF p, B, t
<1>7. t \in Seq(S) /\ Len(t) = End(p, n) /\ End(p, 0) = 0 /\ Len(t) \in Nat
  BY <1>1, <1>4, Parts
<1>8. ASSUME NEW l \in 0..n - 1, NEW k \in Int, k = l + 1
      PROVE  /\ End(p, l) \in Nat /\ End(p, k) = End(p, l) + Len(p[k])
             /\ \A i \in 1..Len(p[k]) : End(p, l) + i <= Len(t) /\ t[End(p, l) + i] = p[k][i]
  <2>1. End(p, l) \in Nat /\ End(p, k) = End(p, l) + Len(p[k])
    BY <1>4, <1>8, OneTextMore
  <2>2. ASSUME NEW i \in 1..Len(p[k])
        PROVE  End(p, l) + i <= Len(t) /\ t[End(p, l) + i] = p[k][i]
    BY <1>1, <1>4, <1>8, Part
  <2> QED
    BY <2>1, <2>2
  \* Where the k-th ends, and what stands there.
<1>9. ASSUME NEW k \in 1..n
      PROVE  /\ B[k] \in Nat \ {0} /\ B[k] + Len(texts[k]) = End(p, k) + 1
             /\ \A i \in 1..Len(texts[k]) : B[k] + i - 1 <= Len(t) /\ t[B[k] + i - 1] = texts[k][i]
             /\ k > 1 => /\ B[k] - 1 \in 1..Len(t) /\ t[B[k] - 1] = Sep
                         /\ B[k] - 1 = End(p, k - 1) + 1
  <2>1. PICK l \in 0..n - 1 : k = l + 1 /\ l = k - 1
    <3>1. k - 1 \in 0..n - 1 /\ k = k - 1 + 1
      OBVIOUS
    <3> QED
      BY <3>1
  <2>2. /\ End(p, l) \in Nat /\ End(p, k) = End(p, l) + Len(p[k])
        /\ \A i \in 1..Len(p[k]) : End(p, l) + i <= Len(t) /\ t[End(p, l) + i] = p[k][i]
    <3>1. k \in Int
      OBVIOUS
    <3> QED
      BY <1>8, <2>1, <3>1
  <2>3. CASE k = 1
    <3>a. l = 0
      BY <2>1, <2>3
    <3>1. End(p, l) = 0 /\ p[k] = texts[k] /\ B[k] = 1
      BY <1>4, <1>6, <1>7, <2>3, <3>a
    <3>2. Len(texts[k]) \in Nat
      BY <1>2
    <3>3. End(p, k) = Len(texts[k])
      BY <2>2, <3>1, <3>2
    <3>4. \A i \in 1..Len(texts[k]) : i <= Len(t) /\ t[i] = texts[k][i]
      BY <2>2, <3>1
    <3>5. \A i \in 1..Len(texts[k]) : B[k] + i - 1 = i
      BY <3>1
    <3>6. B[k] + Len(texts[k]) = End(p, k) + 1
      BY <3>1, <3>2, <3>3
    <3> QED
      BY <2>3, <3>1, <3>4, <3>5, <3>6
  <2>4. CASE k # 1
    <3>0. k \in 2..n
      BY <2>4
    <3>1. /\ Len(p[k]) = Len(texts[k]) + 1 /\ p[k][1] = Sep
          /\ \A i \in 1..Len(texts[k]) : p[k][i + 1] = texts[k][i]
          /\ B[k] = End(p, l) + 2
      BY <1>5, <1>6, <2>1, <3>0
    <3>2. Len(texts[k]) \in Nat
      BY <1>2
    <3>3. ASSUME NEW i \in 1..Len(texts[k])
          PROVE  B[k] + i - 1 <= Len(t) /\ t[B[k] + i - 1] = texts[k][i]
      <4>1. PICK j \in 1..Len(p[k]) : j = i + 1
        BY <3>1, <3>2
      <4>2. End(p, l) + j <= Len(t) /\ t[End(p, l) + j] = p[k][j] /\ p[k][j] = texts[k][i]
        BY <2>2, <3>1, <4>1
      <4>3. End(p, l) + j = B[k] + i - 1
        BY <2>2, <3>1, <4>1
      <4> QED
        BY <4>2, <4>3
    <3>4. End(p, l) + 1 <= Len(t) /\ t[End(p, l) + 1] = Sep
      <4>1. 1 \in 1..Len(p[k])
        BY <3>1, <3>2
      <4> QED
        BY <2>2, <3>1, <4>1
    <3>5. B[k] - 1 = End(p, l) + 1
      BY <2>2, <3>1
    <3>6. B[k] \in Nat \ {0} /\ B[k] + Len(texts[k]) = End(p, k) + 1
      <4>1. PICK e \in Nat : e = End(p, l)
        BY <2>2
      <4>2. PICK m \in Nat : m = Len(texts[k])
        BY <3>2
      <4>3. B[k] = e + 2 /\ End(p, k) = e + (m + 1)
        BY <2>2, <3>1, <4>1, <4>2
      <4>4. B[k] \in Nat \ {0} /\ B[k] + m = End(p, k) + 1
        BY <4>3
      <4> QED
        BY <4>2, <4>4
    <3> QED
      BY <1>7, <2>1, <2>2, <3>3, <3>4, <3>5, <3>6
  <2> QED
    BY <2>3, <2>4
<1>10. ASSUME NEW k \in 1..n - 1
       PROVE  /\ B[k] + Len(texts[k]) <= Len(t) /\ t[B[k] + Len(texts[k])] = Sep
              /\ B[k + 1] = B[k] + Len(texts[k]) + 1
  <2>1. PICK m \in 1..n : m = k + 1 /\ m > 1 /\ m - 1 = k
    <3>1. k + 1 \in 1..n /\ k + 1 > 1 /\ k + 1 - 1 = k
      OBVIOUS
    <3> QED
      BY <3>1
  <2>2. /\ B[m] \in Nat \ {0} /\ B[m] - 1 \in 1..Len(t) /\ t[B[m] - 1] = Sep
        /\ B[m] - 1 = End(p, k) + 1
    BY <1>9, <2>1
  <2>3. B[k] + Len(texts[k]) = End(p, k) + 1 /\ k \in 1..n
    BY <1>9
  <2>4. B[k] + Len(texts[k]) = B[m] - 1
    BY <2>2, <2>3
  <2>5. B[m] = B[k] + Len(texts[k]) + 1
    BY <2>2, <2>4
  <2> QED
    BY <2>1, <2>2, <2>4, <2>5
<1>11. B[n] + Len(texts[n]) = Len(t) + 1
  BY <1>7, <1>9
<1>12. \A k \in 1..n : B[k] \in 1..Len(t) + 1
  <2> SUFFICES ASSUME NEW k \in 1..n PROVE B[k] \in 1..Len(t) + 1
    OBVIOUS
  <2>1. B[k] \in Nat \ {0} /\ Len(texts[k]) \in Nat
    BY <1>2, <1>9
  <2>2. CASE k = n
    BY <1>7, <1>11, <2>1, <2>2
  <2>3. CASE k # n
    <3>1. k \in 1..n - 1
      BY <2>3
    <3> QED
      BY <1>7, <1>10, <2>1, <3>1
  <2> QED
    BY <2>2, <2>3
<1>13. Laid(t, texts, n, B)
  BY <1>6, <1>9, <1>10, <1>11, <1>12 DEF Laid, Holds
<1> QED
  BY <1>7, <1>13 DEF t

-----------------------------------------------------------------------------
(* Reading numbers out of a text.                                          *)
LEMMA RunEndType ==
  ASSUME NEW s, Len(s) \in Nat, NEW i \in 1..Len(s) + 1, NEW base, NEW most
  PROVE  /\ RunEnd(s, i, base, most) \in i..Len(s) + 1
         /\ \A k \in i..RunEnd(s, i, base, most) - 1 : Is(s[k], base) /\ k # i + most
         /\ RunEnd(s, i, base, most) <= Len(s) =>
              \/ RunEnd(s, i, base, most) = i + most
              \/ ~Is(s[RunEnd(s, i, base, most)], base)
<1> DEFINE T == {j \in i..Len(s) + 1 : j > Len(s) \/ j = i + most \/ ~Is(s[j], base)}
<1>1. T \in SUBSET (0..Len(s) + 1) /\ Len(s) + 1 \in T /\ Len(s) + 1 \in Nat
  OBVIOUS
<1>2. RunEnd(s, i, base, most) = Min(T)
  BY DEF RunEnd
<1>3. Min(T) \in T /\ \A k \in T : Min(T) <= k
  <2>1. T # {}
    BY <1>1
  <2> HIDE DEF T
  <2> QED
    BY <1>1, <2>1, LeastOf
<1>4. PICK e \in T : e = Min(T) /\ \A k \in T : e <= k
  BY <1>3
<1>5. e \in i..Len(s) + 1 /\ (e > Len(s) \/ e = i + most \/ ~Is(s[e], base))
  OBVIOUS
<1>6. ASSUME NEW k \in i..e - 1
      PROVE  Is(s[k], base) /\ k # i + most
  <2>1. k \in i..Len(s) + 1 /\ k < e
    BY <1>5
  <2>2. k \notin T
    BY <1>4, <1>5, <2>1
  <2> QED
    BY <2>1, <2>2
<1> QED
  BY <1>2, <1>4, <1>5, <1>6

LEMMA RunEndIs ==
  ASSUME NEW s, Len(s) \in Nat, NEW i \in 1..Len(s) + 1, NEW base, NEW most \in Nat,
         NEW e \in i..Len(s) + 1, e <= i + most, \A k \in i..e - 1 : Is(s[k], base),
         e = Len(s) + 1 \/ ~Is(s[e], base)
  PROVE  RunEnd(s, i, base, most) = e
<1>1. PICK r \in i..Len(s) + 1 : r = RunEnd(s, i, base, most)
  BY RunEndType
<1>2. /\ \A k \in i..r - 1 : Is(s[k], base) /\ k # i + most
      /\ r <= Len(s) => r = i + most \/ ~Is(s[r], base)
  BY <1>1, RunEndType
<1>3. ~(r < e)
  <2> SUFFICES ASSUME r < e PROVE FALSE
    OBVIOUS
  <2>1. r \in i..e - 1 /\ r <= Len(s)
    OBVIOUS
  <2> QED
    BY <1>2, <2>1
<1>4. ~(e < r)
  <2> SUFFICES ASSUME e < r PROVE FALSE
    OBVIOUS
  <2>1. e \in i..r - 1 /\ e <= Len(s)
    OBVIOUS
  <2> QED
    BY <1>2, <2>1
<1> QED
  BY <1>1, <1>3, <1>4

LEMMA NextDigitType ==
  ASSUME NEW s, Len(s) \in Nat, NEW i \in 1..Len(s) + 1, NEW base
  PROVE  /\ NextDigit(s, i, base) \in i..Len(s) + 1
         /\ \A k \in i..NextDigit(s, i, base) - 1 : ~Is(s[k], base)
         /\ NextDigit(s, i, base) <= Len(s) => Is(s[NextDigit(s, i, base)], base)
<1> DEFINE T == {j \in i..Len(s) + 1 : j > Len(s) \/ Is(s[j], base)}
<1>1. T \in SUBSET (0..Len(s) + 1) /\ Len(s) + 1 \in T /\ Len(s) + 1 \in Nat
  OBVIOUS
<1>2. NextDigit(s, i, base) = Min(T)
  BY DEF NextDigit
<1>3. Min(T) \in T /\ \A k \in T : Min(T) <= k
  <2>1. T # {}
    BY <1>1
  <2> HIDE DEF T
  <2> QED
    BY <1>1, <2>1, LeastOf
<1>4. PICK e \in T : e = Min(T) /\ \A k \in T : e <= k
  BY <1>3
<1>5. e \in i..Len(s) + 1 /\ (e > Len(s) \/ Is(s[e], base))
  OBVIOUS
<1>6. ASSUME NEW k \in i..e - 1
      PROVE  ~Is(s[k], base)
  <2>1. k \in i..Len(s) + 1 /\ k < e
    BY <1>5
  <2>2. k \notin T
    BY <1>4, <1>5, <2>1
  <2> QED
    BY <2>1, <2>2
<1> QED
  BY <1>2, <1>4, <1>5, <1>6

LEMMA NextDigitIs ==
  ASSUME NEW s, Len(s) \in Nat, NEW i \in 1..Len(s) + 1, NEW base,
         NEW e \in i..Len(s) + 1, \A k \in i..e - 1 : ~Is(s[k], base),
         e = Len(s) + 1 \/ Is(s[e], base)
  PROVE  NextDigit(s, i, base) = e
<1>1. PICK r \in i..Len(s) + 1 : r = NextDigit(s, i, base)
  BY NextDigitType
<1>2. (\A k \in i..r - 1 : ~Is(s[k], base)) /\ (r <= Len(s) => Is(s[r], base))
  BY <1>1, NextDigitType
<1>3. ~(r < e)
  <2> SUFFICES ASSUME r < e PROVE FALSE
    OBVIOUS
  <2>1. r \in i..e - 1 /\ r <= Len(s)
    OBVIOUS
  <2> QED
    BY <1>2, <2>1
<1>4. ~(e < r)
  <2> SUFFICES ASSUME e < r PROVE FALSE
    OBVIOUS
  <2>1. e \in i..r - 1 /\ e <= Len(s)
    OBVIOUS
  <2> QED
    BY <1>2, <2>1
<1> QED
  BY <1>1, <1>3, <1>4

\* One round of the loop of Ip::StrToIpt and Mac::Mac.
Round(F, s, base, most, k) ==
  IF k = 0 THEN [bytes |-> <<>>, pos |-> 1] ELSE NextRun(s, F[k - 1], base, most)

LEMMA RoundsRun ==
  ASSUME NEW s, NEW base, NEW most, NEW n \in Nat
  PROVE  \E F : F = [k \in 0..n |-> Round(F, s, base, most, k)]
<1> DEFINE Reached == {m \in 0..n : \E F : F = [k \in 0..m |-> Round(F, s, base, most, k)]}
<1>1. 0 \in Reached
  <2>1. ASSUME NEW m \in 0..n, m = 0
        PROVE  m \in Reached
    <3> DEFINE G == [k \in 0..m |-> Round(<<>>, s, base, most, k)]
    <3>1. ASSUME NEW k \in 0..m PROVE Round(<<>>, s, base, most, k) = Round(G, s, base, most, k)
      <4>1. k = 0
        BY <2>1
      <4> HIDE DEF G
      <4> QED
        BY <4>1 DEF Round
    <3>2. G = [k \in 0..m |-> Round(G, s, base, most, k)]
      BY <3>1
    <3> HIDE DEF G
    <3> QED
      BY <3>2
  <2> HIDE DEF Reached
  <2> QED
    BY <2>1
<1>2. ASSUME NEW m \in 1..n, m - 1 \in Reached
      PROVE  m \in Reached
  <2>1. PICK F : F = [k \in 0..(m - 1) |-> Round(F, s, base, most, k)]
    BY <1>2
  <2> DEFINE G == [k \in 0..m |-> IF k = m THEN Round(F, s, base, most, m) ELSE F[k]]
  <2>2. \A k \in 0..(m - 1) : G[k] = F[k]
    OBVIOUS
  <2>a. G[m] = Round(F, s, base, most, m) /\ G = [k \in 0..m |-> G[k]]
    OBVIOUS
  <2> HIDE DEF G
  <2>3. ASSUME NEW k \in 0..m PROVE G[k] = Round(G, s, base, most, k)
    <3>1. Round(G, s, base, most, k) = Round(F, s, base, most, k)
      <4>1. CASE k = 0
        BY <4>1 DEF Round
      <4>2. CASE k # 0
        <5>1. k - 1 \in 0..(m - 1)
          BY <4>2
        <5>2. G[k - 1] = F[k - 1]
          BY <2>2, <5>1
        <5> QED
          BY <4>2, <5>2 DEF Round
      <4> QED
        BY <4>1, <4>2
    <3>2. G[k] = Round(F, s, base, most, k)
      <4>1. CASE k = m
        BY <2>a, <4>1
      <4>2. CASE k # m
        <5>1. k \in 0..(m - 1)
          BY <4>2
        <5>2. F[k] = Round(F, s, base, most, k)
          BY <2>1, <5>1
        <5> QED
          BY <2>2, <5>1, <5>2
      <4> QED
        BY <4>1, <4>2
    <3> QED
      BY <3>1, <3>2
  <2>4. G = [k \in 0..m |-> Round(G, s, base, most, k)]
    BY <2>3, <2>a
  <2> QED
    BY <2>4
<1>3. Reached \in SUBSET (0..n) /\ \A m \in 1..n : m - 1 \in Reached => m \in Reached
  BY <1>2
<1> HIDE DEF Reached
<1>4. Reached = 0..n
  BY <1>1, <1>3, Induction
<1>5. n \in Reached
  BY <1>4
<1> QED
  BY <1>5 DEF Reached

\* Runs is what the loop holds after the last round.
LEMMA RunsLoop ==
  ASSUME NEW s, NEW n \in Nat, NEW base, NEW most
  PROVE  \E F : /\ Runs(s, n, base, most) = F[n].bytes
                /\ \A k \in 0..n : F[k] = Round(F, s, base, most, k)
<1> DEFINE F == CHOOSE F : F = [k \in 0..n |-> Round(F, s, base, most, k)]
<1>1. F = [k \in 0..n |-> Round(F, s, base, most, k)]
  BY RoundsRun
<1>2. Runs(s, n, base, most) = F[n].bytes
  BY DEF Runs, Round
<1> HIDE DEF F
<1> QED
  BY <1>1, <1>2

\* One round of the loop of Ipv6::Ipv6.
Turn(F, s, k) ==
  IF k = 0 THEN [words |-> <<>>, pos |-> 1, convert |-> TRUE] ELSE NextWord(s, F[k - 1])

LEMMA TurnsRun ==
  ASSUME NEW s, NEW n \in Nat
  PROVE  \E F : F = [k \in 0..n |-> Turn(F, s, k)]
<1> DEFINE Reached == {m \in 0..n : \E F : F = [k \in 0..m |-> Turn(F, s, k)]}
<1>1. 0 \in Reached
  <2>1. ASSUME NEW m \in 0..n, m = 0
        PROVE  m \in Reached
    <3> DEFINE G == [k \in 0..m |-> Turn(<<>>, s, k)]
    <3>1. ASSUME NEW k \in 0..m PROVE Turn(<<>>, s, k) = Turn(G, s, k)
      <4>1. k = 0
        BY <2>1
      <4> HIDE DEF G
      <4> QED
        BY <4>1 DEF Turn
    <3>2. G = [k \in 0..m |-> Turn(G, s, k)]
      BY <3>1
    <3> HIDE DEF G
    <3> QED
      BY <3>2
  <2> HIDE DEF Reached
  <2> QED
    BY <2>1
<1>2. ASSUME NEW m \in 1..n, m - 1 \in Reached
      PROVE  m \in Reached
  <2>1. PICK F : F = [k \in 0..(m - 1) |-> Turn(F, s, k)]
    BY <1>2
  <2> DEFINE G == [k \in 0..m |-> IF k = m THEN Turn(F, s, m) ELSE F[k]]
  <2>2. \A k \in 0..(m - 1) : G[k] = F[k]
    OBVIOUS
  <2>a. G[m] = Turn(F, s, m) /\ G = [k \in 0..m |-> G[k]]
    OBVIOUS
  <2> HIDE DEF G
  <2>3. ASSUME NEW k \in 0..m PROVE G[k] = Turn(G, s, k)
    <3>1. Turn(G, s, k) = Turn(F, s, k)
      <4>1. CASE k = 0
        BY <4>1 DEF Turn
      <4>2. CASE k # 0
        <5>1. k - 1 \in 0..(m - 1)
          BY <4>2
        <5>2. G[k - 1] = F[k - 1]
          BY <2>2, <5>1
        <5> QED
          BY <4>2, <5>2 DEF Turn
      <4> QED
        BY <4>1, <4>2
    <3>2. G[k] = Turn(F, s, k)
      <4>1. CASE k = m
        BY <2>a, <4>1
      <4>2. CASE k # m
        <5>1. k \in 0..(m - 1)
          BY <4>2
        <5>2. F[k] = Turn(F, s, k)
          BY <2>1, <5>1
        <5> QED
          BY <2>2, <5>1, <5>2
      <4> QED
        BY <4>1, <4>2
    <3> QED
      BY <3>1, <3>2
  <2>4. G = [k \in 0..m |-> Turn(G, s, k)]
    BY <2>3, <2>a
  <2> QED
    BY <2>4
<1>3. Reached \in SUBSET (0..n) /\ \A m \in 1..n : m - 1 \in Reached => m \in Reached
  BY <1>2
<1> HIDE DEF Reached
<1>4. Reached = 0..n
  BY <1>1, <1>3, Induction
<1>5. n \in Reached
  BY <1>4
<1> QED
  BY <1>5 DEF Reached

\* StrToIpv6 is what the loop holds after the last round.
LEMMA WordsLoop ==
  ASSUME NEW s
  PROVE  \E F : /\ StrToIpv6(s) = F[Ipv6WordLength].words
                /\ \A k \in 0..Ipv6WordLength : F[k] = Turn(F, s, k)
<1> DEFINE F == CHOOSE F : F = [k \in 0..Ipv6WordLength |-> Turn(F, s, k)]
<1>1. F = [k \in 0..Ipv6WordLength |-> Turn(F, s, k)]
  BY TurnsRun DEF Ipv6WordLength
<1>2. StrToIpv6(s) = F[Ipv6WordLength].words
  BY DEF StrToIpv6, Turn
<1> HIDE DEF F
<1> QED
  BY <1>1, <1>2

\* One round of the loop of EnumerateInterfaces.
Visit(F, e, unnamed, k) ==
  IF k = 0 THEN <<>>
  ELSE IF IsKept(e, unnamed, k) THEN Insert(F[k - 1], e[k].name, AddressOf(e[k]))
  ELSE F[k - 1]

LEMMA VisitsRun ==
  ASSUME NEW e, NEW unnamed, NEW n \in Nat
  PROVE  \E F : F = [k \in 0..n |-> Visit(F, e, unnamed, k)]
<1> DEFINE Reached == {m \in 0..n : \E F : F = [k \in 0..m |-> Visit(F, e, unnamed, k)]}
<1>1. 0 \in Reached
  <2>1. ASSUME NEW m \in 0..n, m = 0
        PROVE  m \in Reached
    <3> DEFINE G == [k \in 0..m |-> Visit(<<>>, e, unnamed, k)]
    <3>1. ASSUME NEW k \in 0..m PROVE Visit(<<>>, e, unnamed, k) = Visit(G, e, unnamed, k)
      <4>1. k = 0
        BY <2>1
      <4> HIDE DEF G
      <4> QED
        BY <4>1 DEF Visit
    <3>2. G = [k \in 0..m |-> Visit(G, e, unnamed, k)]
      BY <3>1
    <3> HIDE DEF G
    <3> QED
      BY <3>2
  <2> HIDE DEF Reached
  <2> QED
    BY <2>1
<1>2. ASSUME NEW m \in 1..n, m - 1 \in Reached
      PROVE  m \in Reached
  <2>1. PICK F : F = [k \in 0..(m - 1) |-> Visit(F, e, unnamed, k)]
    BY <1>2
  <2> DEFINE G == [k \in 0..m |-> IF k = m THEN Visit(F, e, unnamed, m) ELSE F[k]]
  <2>2. \A k \in 0..(m - 1) : G[k] = F[k]
    OBVIOUS
  <2>a. G[m] = Visit(F, e, unnamed, m) /\ G = [k \in 0..m |-> G[k]]
    OBVIOUS
  <2> HIDE DEF G
  <2>3. ASSUME NEW k \in 0..m PROVE G[k] = Visit(G, e, unnamed, k)
    <3>1. Visit(G, e, unnamed, k) = Visit(F, e, unnamed, k)
      <4>1. CASE k = 0
        BY <4>1 DEF Visit
      <4>2. CASE k # 0
        <5>1. k - 1 \in 0..(m - 1)
          BY <4>2
        <5>2. G[k - 1] = F[k - 1]
          BY <2>2, <5>1
        <5> QED
          BY <4>2, <5>2 DEF Visit
      <4> QED
        BY <4>1, <4>2
    <3>2. G[k] = Visit(F, e, unnamed, k)
      <4>1. CASE k = m
        BY <2>a, <4>1
      <4>2. CASE k # m
        <5>1. k \in 0..(m - 1)
          BY <4>2
        <5>2. F[k] = Visit(F, e, unnamed, k)
          BY <2>1, <5>1
        <5> QED
          BY <2>2, <5>1, <5>2
      <4> QED
        BY <4>1, <4>2
    <3> QED
      BY <3>1, <3>2
  <2>4. G = [k \in 0..m |-> Visit(G, e, unnamed, k)]
    BY <2>3, <2>a
  <2> QED
    BY <2>4
<1>3. Reached \in SUBSET (0..n) /\ \A m \in 1..n : m - 1 \in Reached => m \in Reached
  BY <1>2
<1> HIDE DEF Reached
<1>4. Reached = 0..n
  BY <1>1, <1>3, Induction
<1>5. n \in Reached
  BY <1>4
<1> QED
  BY <1>5 DEF Reached

\* EnumerateInterfaces is what the loop holds after the last round.
LEMMA VisitsLoop ==
  ASSUME NEW e, Len(e) \in Nat, NEW unnamed
  PROVE  \E F : /\ EnumerateInterfaces(e, unnamed) = F[Len(e)]
                /\ \A k \in 0..Len(e) : F[k] = Visit(F, e, unnamed, k)
<1> DEFINE F == CHOOSE F : F = [k \in 0..Len(e) |-> Visit(F, e, unnamed, k)]
<1>1. F = [k \in 0..Len(e) |-> Visit(F, e, unnamed, k)]
  BY VisitsRun
<1>2. EnumerateInterfaces(e, unnamed) = F[Len(e)]
  BY DEF EnumerateInterfaces, Visit
<1> HIDE DEF F
<1> QED
  BY <1>1, <1>2


\* Where a run that was laid ends, what it is, and where the next one begins.
BeginAll(texts, n, base) ==
  \A i \in 1..n : Len(texts[i]) \in Nat \ {0} /\ texts[i][1] \in 0..base - 1

ReadOne(s, n, base, most, B, k, x, j) ==
  /\ j \in B[k] + 1..Len(s) + 1
  /\ RunEnd(s, B[k], base, most) = j /\ Number(s, B[k], j, base) = x
  /\ NextDigit(s, j, base) = IF k = n THEN Len(s) + 1 ELSE B[k + 1]
  /\ k = n => j = Len(s) + 1
  /\ k # n => /\ s[j] = Sep /\ B[k + 1] = j + 1 /\ j + 1 <= Len(s)
              /\ s[j + 1] \in 0..base - 1

LEMMA OneRead ==
  ASSUME NEW s, Len(s) \in Nat, NEW n \in Nat \ {0}, NEW base \in {10, 16}, NEW most \in Nat,
         NEW texts, NEW B, Laid(s, texts, n, B), BeginAll(texts, n, base),
         NEW k \in 1..n, NEW x, Writes(texts[k], x, base), Len(texts[k]) <= most
  PROVE  \E j : ReadOne(s, n, base, most, B, k, x, j)
<1>0. \A i \in 1..n : Len(texts[i]) \in Nat \ {0} /\ texts[i][1] \in 0..base - 1
  BY DEF BeginAll
<1>1. PICK b \in 1..Len(s) + 1 : b = B[k]
  BY DEF Laid
<1>2. PICK m \in Nat \ {0} : m = Len(texts[k])
  BY <1>0
<1>3. texts[k] \in Seq(0..base - 1) /\ Number(texts[k], 1, m + 1, base) = x
  BY <1>2 DEF Writes
<1>4. \A i \in 1..m : s[b + i - 1] = texts[k][i] /\ texts[k][i] \in 0..base - 1
  <2>0. Holds(s, b, texts[k], m)
    BY <1>1, <1>2 DEF Laid
  <2>1. \A i \in 1..m : s[b + i - 1] = texts[k][i]
    BY <2>0 DEF Holds
  <2>1a. PICK T : T = 0..base - 1
    OBVIOUS
  <2>2. PICK d \in Seq(T) : T = 0..base - 1 /\ d = texts[k] /\ Len(d) = m
    BY <1>2, <1>3, <2>1a
  <2>a. \A i \in 1..Len(d) : d[i] \in T
    OBVIOUS
  <2>3. \A i \in 1..m : d[i] \in 0..base - 1
    BY <2>2, <2>a
  <2> QED
    BY <2>1, <2>2, <2>3
<1>5. PICK j \in Int : j = b + m
  OBVIOUS
<1>6. /\ k = n => j = Len(s) + 1
      /\ k # n => j <= Len(s) /\ s[j] = Sep /\ B[k + 1] = j + 1
  <2>1. k = n => j = Len(s) + 1
    BY <1>1, <1>2, <1>5 DEF Laid
  <2>2. CASE k # n
    <3>1. k \in 1..n - 1
      BY <2>2
    <3>2. B[k] + Len(texts[k]) <= Len(s) /\ s[B[k] + Len(texts[k])] = Sep
          /\ B[k + 1] = B[k] + Len(texts[k]) + 1
      BY <3>1 DEF Laid
    <3> QED
      BY <1>1, <1>2, <1>5, <2>2, <3>2
  <2> QED
    BY <2>1, <2>2
<1>7. j \in b + 1..Len(s) + 1 /\ j <= b + most
  <2>1. PICK c \in Nat : c = Len(s)
    OBVIOUS
  <2>2. m <= most /\ (j = c + 1 \/ j <= c)
    BY <1>2, <1>6, <2>1
  <2>3. j \in b + 1..c + 1 /\ j <= b + most
    BY <1>5, <2>2
  <2> QED
    BY <2>1, <2>3
<1>8. \A i \in b..j - 1 : Is(s[i], base)
  <2> SUFFICES ASSUME NEW i \in b..j - 1 PROVE Is(s[i], base)
    OBVIOUS
  <2>1. PICK l \in 1..m : l = i - b + 1
    BY <1>5
  <2>2. i = b + l - 1
    BY <2>1
  <2>3. s[i] = texts[k][l] /\ texts[k][l] \in 0..base - 1
    BY <1>4, <2>2
  <2> QED
    BY <2>3 DEF Is
<1>9. ~Is(Sep, base)
  BY DEF Is, Sep
<1>10. RunEnd(s, b, base, most) = j
  <2>1. j = Len(s) + 1 \/ ~Is(s[j], base)
    BY <1>6, <1>9
  <2>2. j \in b..Len(s) + 1
    BY <1>7
  <2> QED
    BY <1>7, <1>8, <2>1, <2>2, RunEndIs
<1>11. Number(s, b, j, base) = x
  <2>1. PICK d : d = texts[k]
    OBVIOUS
  <2>2. Holds(s, b, d, m) /\ b \in Int /\ m \in Nat
    BY <1>1, <1>2, <2>1 DEF Laid
  <2>3. Number(s, b, b + m, base) = Number(d, 1, m + 1, base)
    BY <2>2, NumberSame
  <2> QED
    BY <1>3, <1>5, <2>1, <2>3
<1>12. k # n => j + 1 <= Len(s) /\ s[j + 1] \in 0..base - 1
  <2> SUFFICES ASSUME k # n PROVE j + 1 <= Len(s) /\ s[j + 1] \in 0..base - 1
    OBVIOUS
  <2>1. PICK l \in 1..n : l = k + 1
    BY <1>1
  <2>2. B[l] = j + 1 /\ j + 1 \in 1..Len(s) + 1
    BY <1>6, <1>7, <2>1
  <2>3. PICK c \in Nat \ {0} : c = Len(texts[l])
    BY <1>0
  <2>4. s[j + 1] = texts[l][1]
    <3>1. \A i \in 1..c : s[B[l] + i - 1] = texts[l][i]
      BY <2>3 DEF Laid, Holds
    <3>2. 1 \in 1..c /\ B[l] + 1 - 1 = j + 1
      BY <2>2
    <3> QED
      BY <3>1, <3>2
  <2>a. s[j + 1] \in 0..base - 1
    BY <1>0, <2>4
  <2>b. j + 1 + c <= Len(s) + 1 => j + 1 <= Len(s)
    <3>1. PICK z \in Nat, y \in Nat : z = Len(s) /\ y = c /\ y # 0
      OBVIOUS
    <3>2. j + 1 + y <= z + 1 => j + 1 <= z
      BY <3>1
    <3> QED
      BY <3>1, <3>2
  <2>c. j + 1 + c <= Len(s) => j + 1 <= Len(s)
    <3>1. PICK z \in Nat, y \in Nat : z = Len(s) /\ y = c /\ y # 0
      OBVIOUS
    <3>2. j + 1 + y <= z => j + 1 <= z
      BY <3>1
    <3> QED
      BY <3>1, <3>2
  <2>5. CASE l = n
    <3>1. j + 1 + c = Len(s) + 1
      BY <2>2, <2>3, <2>5 DEF Laid
    <3> QED
      BY <2>a, <2>b, <3>1
  <2>6. CASE l # n
    <3>1. l \in 1..n - 1
      BY <2>6
    <3>2. j + 1 + c <= Len(s)
      BY <2>2, <2>3, <3>1 DEF Laid
    <3> QED
      BY <2>a, <2>c, <3>2
  <2> QED
    BY <2>5, <2>6
<1>13. NextDigit(s, j, base) = IF k = n THEN Len(s) + 1 ELSE B[k + 1]
  <2>1. PICK e \in j..Len(s) + 1 : e = IF k = n THEN Len(s) + 1 ELSE j + 1
    <3>1. (IF k = n THEN Len(s) + 1 ELSE j + 1) \in j..Len(s) + 1
      BY <1>7, <1>12
    <3> QED
      BY <3>1
  <2>2. \A i \in j..e - 1 : ~Is(s[i], base)
    <3> SUFFICES ASSUME NEW i \in j..e - 1 PROVE ~Is(s[i], base)
      OBVIOUS
    <3>1. k # n /\ i = j
      BY <1>6, <2>1
    <3> QED
      BY <1>6, <1>9, <3>1
  <2>3. e = Len(s) + 1 \/ Is(s[e], base)
    BY <1>12, <2>1 DEF Is
  <2>4. j \in 1..Len(s) + 1
    BY <1>7
  <2>5. NextDigit(s, j, base) = e
    BY <2>2, <2>3, <2>4, NextDigitIs
  <2> QED
    BY <1>6, <2>1, <2>5
<1> QED
  BY <1>1, <1>6, <1>7, <1>10, <1>11, <1>12, <1>13 DEF ReadOne

\* Bytes laid as numbers are read.
LEMMA RunsRead ==
  ASSUME NEW s, Len(s) \in Nat, NEW n \in Nat \ {0}, NEW base \in {10, 16}, NEW most \in Nat,
         NEW v \in [1..n -> Byte], NEW texts, NEW B, Laid(s, texts, n, B),
         \A k \in 1..n : Writes(texts[k], v[k], base) /\ Len(texts[k]) <= most
  PROVE  Runs(s, n, base, most) = v
<1>1. PICK F : /\ Runs(s, n, base, most) = F[n].bytes
               /\ \A k \in 0..n : F[k] = Round(F, s, base, most, k)
  BY RunsLoop, SMTT(30)
<1>2. BeginAll(texts, n, base)
  <2> SUFFICES ASSUME NEW i \in 1..n
               PROVE  Len(texts[i]) \in Nat \ {0} /\ texts[i][1] \in 0..base - 1
    BY DEF BeginAll
  <2>1. PICK d : d = texts[i] /\ d \in Seq(0..base - 1) /\ Len(d) \in 1..4
    BY DEF Writes
  <2>2. PICK c \in 1..4 : c = Len(d)
    BY <2>1
  <2>3. c \in Nat \ {0} /\ 1 \in 1..c
    OBVIOUS
  <2> QED
    BY <2>1, <2>2, <2>3
<1> DEFINE Pos(m) == IF m = n THEN Len(s) + 1 ELSE B[m + 1]
           Good == {m \in 0..n : F[m] = [bytes |-> [i \in 1..m |-> v[i]], pos |-> Pos(m)]}
<1>3. 0 \in Good
  <2>1. 0 \in 0..n /\ 0 # n
    OBVIOUS
  <2>2. F[0] = [bytes |-> <<>>, pos |-> 1]
    BY <1>1, <2>1 DEF Round
  <2>3. [i \in 1..0 |-> v[i]] = <<>> /\ B[0 + 1] = 1
    BY DEF Laid
  <2> QED
    BY <2>1, <2>2, <2>3
<1>4. ASSUME NEW m \in 1..n, m - 1 \in Good
      PROVE  m \in Good
  <2>1. PICK l \in 0..n : l = m - 1 /\ l # n /\ m = l + 1 /\ m # 0
    <3>1. m - 1 \in 0..n /\ m - 1 # n /\ m = m - 1 + 1 /\ m # 0
      OBVIOUS
    <3> QED
      BY <3>1
  <2>2. F[l] = [bytes |-> [i \in 1..l |-> v[i]], pos |-> B[m]]
    BY <1>4, <2>1
  <2>3. F[m] = NextRun(s, F[l], base, most)
    <3>1. m \in 0..n
      OBVIOUS
    <3> QED
      BY <1>1, <2>1, <3>1 DEF Round
  <2>4. PICK j : /\ RunEnd(s, B[m], base, most) = j /\ Number(s, B[m], j, base) = v[m]
                 /\ NextDigit(s, j, base) = IF m = n THEN Len(s) + 1 ELSE B[m + 1]
    <3>1. PICK x : x = v[m]
      OBVIOUS
    <3>2. Writes(texts[m], x, base) /\ Len(texts[m]) <= most
      BY <3>1
    <3>3. \E j : ReadOne(s, n, base, most, B, m, x, j)
      BY <1>2, <3>2, OneRead
    <3> QED
      BY <3>1, <3>3 DEF ReadOne
  <2>5. F[l].pos = B[m] /\ F[l].bytes = [i \in 1..l |-> v[i]]
    BY <2>2
  <2>6. F[m] = [bytes |-> Append([i \in 1..l |-> v[i]], v[m] % 256), pos |-> Pos(m)]
    BY <2>3, <2>4, <2>5, ZenonT(40) DEF NextRun
  <2>7. v[m] % 256 = v[m]
    <3>1. PICK x \in 0..255 : x = v[m]
      BY DEF Byte
    <3>2. x % 256 = x
      OBVIOUS
    <3> QED
      BY <3>1, <3>2
  <2>8. Append([i \in 1..l |-> v[i]], v[m]) = [i \in 1..m |-> v[i]]
    BY <2>1
  <2> HIDE DEF Pos
  <2>9. F[m] = [bytes |-> [i \in 1..m |-> v[i]], pos |-> Pos(m)]
    BY <2>6, <2>7, <2>8
  <2>10. m \in 0..n
    OBVIOUS
  <2> QED
    BY <2>9, <2>10
<1>5. Good \in SUBSET (0..n) /\ n \in Nat
  OBVIOUS
<1> HIDE DEF Good
<1>6. Good = 0..n
  BY <1>3, <1>4, <1>5, Induction
<1>7. n \in Good
  BY <1>5, <1>6
<1>8. F[n].bytes = [i \in 1..n |-> v[i]]
  BY <1>7 DEF Good
<1> QED
  BY <1>1, <1>8

\* Whatever the text, that many bytes are read.
LEMMA RunsType ==
  ASSUME NEW s \in Seq(Int), NEW n \in Nat, NEW base \in Int, NEW most \in Nat
  PROVE  Runs(s, n, base, most) \in [1..n -> Byte]
<1>1. PICK F : /\ Runs(s, n, base, most) = F[n].bytes
               /\ \A k \in 0..n : F[k] = Round(F, s, base, most, k)
  BY RunsLoop
<1>2. Len(s) \in Nat
  OBVIOUS
<1> DEFINE Good == {m \in 0..n : /\ F[m].bytes \in Seq(Byte) /\ Len(F[m].bytes) = m
                                 /\ F[m].pos \in 1..Len(s) + 1}
<1>3. 0 \in Good
  <2>1. F[0] = [bytes |-> <<>>, pos |-> 1]
    BY <1>1 DEF Round
  <2>2. F[0].bytes = <<>> /\ F[0].pos = 1
    BY <2>1
  <2>3. <<>> \in Seq(Byte) /\ Len(<<>>) = 0 /\ 1 \in 1..Len(s) + 1 /\ 0 \in 0..n
    BY <1>2
  <2> QED
    BY <2>2, <2>3
<1>4. ASSUME NEW m \in 1..n, m - 1 \in Good
      PROVE  m \in Good
  <2>1. PICK l \in 0..n : l = m - 1 /\ m # 0
    OBVIOUS
  <2>2. PICK i \in 1..Len(s) + 1, b \in Seq(Byte) : i = F[l].pos /\ b = F[l].bytes /\ Len(b) = l
    BY <1>4, <2>1
  <2>3. F[m] = NextRun(s, F[l], base, most)
    <3>1. m \in 0..n
      OBVIOUS
    <3> QED
      BY <1>1, <2>1, <3>1 DEF Round
  <2>4. PICK j \in i..Len(s) + 1 : j = RunEnd(s, i, base, most)
    BY <1>2, RunEndType
  <2>5. j \in 1..Len(s) + 1 /\ i \in Int /\ j \in Int /\ i <= j
    BY <1>2
  <2>6. Number(s, i, j, base) \in Int
    <3>1. \A k \in i..(j - 1) : s[k] \in Int
      BY <1>2
    <3> QED
      BY <2>5, <3>1, NumberType
  <2>7. PICK x \in Byte : x = Number(s, i, j, base) % 256
    <3>1. PICK y \in Int : y = Number(s, i, j, base)
      BY <2>6
    <3>2. y % 256 \in Byte
      BY DEF Byte
    <3> QED
      BY <3>1, <3>2
  <2>8. PICK p \in j..Len(s) + 1 : p = NextDigit(s, j, base)
    BY <1>2, <2>5, NextDigitType
  <2>9. F[m].bytes = Append(b, x) /\ F[m].pos = p
    <3>1. F[m] = [bytes |-> Append(F[l].bytes,
                                   Number(s, F[l].pos, RunEnd(s, F[l].pos, base, most), base) % 256),
                  pos |-> NextDigit(s, RunEnd(s, F[l].pos, base, most), base)]
      BY <2>3 DEF NextRun
    <3>2. F[m] = [bytes |-> Append(b, x), pos |-> p]
      BY <2>2, <2>4, <2>7, <2>8, <3>1, Zenon
    <3> QED
      BY <3>2
  <2>10. Append(b, x) \in Seq(Byte) /\ Len(Append(b, x)) = l + 1
    BY <2>2, AppendProperties, SMTT(30)
  <2>11. l + 1 = m /\ p \in 1..Len(s) + 1 /\ m \in 0..n
    BY <1>2, <2>1, <2>5
  <2> QED
    BY <2>9, <2>10, <2>11
<1>5. Good \in SUBSET (0..n)
  OBVIOUS
<1> HIDE DEF Good
<1>6. Good = 0..n
  BY <1>3, <1>4, <1>5, Induction
<1>7. n \in Good
  BY <1>6
<1>8. PICK b \in Seq(Byte) : b = F[n].bytes /\ Len(b) = n
  BY <1>7 DEF Good
<1>9. b \in [1..n -> Byte]
  BY <1>8
<1> QED
  BY <1>1, <1>8, <1>9

LEMMA StrToIptType ==
  ASSUME NEW s \in Seq(Int)
  PROVE  StrToIpt(s) \in Ip4
<1>1. PICK n \in Nat, base \in Int, most \in Nat : n = 4 /\ base = 10 /\ most = 8
  OBVIOUS
<1>2. Runs(s, n, base, most) \in [1..n -> Byte]
  BY RunsType
<1> QED
  BY <1>1, <1>2 DEF StrToIpt, IpByteLength, Ip4


\* How long a text of short texts is.
LEMMA LaidLength ==
  ASSUME NEW t, Len(t) \in Nat, NEW texts, NEW n \in Nat, n # 0, NEW B, Laid(t, texts, n, B),
         NEW w \in {3, 4}, \A k \in 1..n : Len(texts[k]) \in 0..w - 1
  PROVE  Len(t) < w * n
<1> DEFINE Good == {m \in 0..n - 1 : B[m + 1] <= w * m + 1}
<1>1. \A k \in 1..n : B[k] \in Nat
  BY DEF Laid
<1>2. 0 \in Good
  <2>1. B[1] = 1
    BY DEF Laid
  <2>2. 0 + 1 = 1 /\ 1 <= w * 0 + 1 /\ 0 \in 0..n - 1
    OBVIOUS
  <2> QED
    BY <2>1, <2>2
<1>3. ASSUME NEW m \in 1..n - 1, m - 1 \in Good
      PROVE  m \in Good
  <2>1. PICK c \in 0..w - 1 : c = Len(texts[m])
    OBVIOUS
  <2>2. PICK x \in Nat : x = B[m]
    BY <1>1
  <2>3. x <= w * (m - 1) + 1
    <3>1. B[m - 1 + 1] <= w * (m - 1) + 1 /\ m - 1 + 1 = m
      BY <1>3
    <3> QED
      BY <2>2, <3>1
  <2>4. PICK y \in Nat : y = B[m + 1]
    BY <1>1
  <2>5. y = x + c + 1
    <3>1. B[m + 1] = B[m] + Len(texts[m]) + 1
      BY DEF Laid
    <3> QED
      BY <2>1, <2>2, <2>4, <3>1
  <2>6. y <= w * m + 1
    BY <2>3, <2>5
  <2> QED
    BY <2>4, <2>6
<1>4. Good \in SUBSET (0..n - 1) /\ n - 1 \in Nat
  OBVIOUS
<1> HIDE DEF Good
<1>5. Good = 0..n - 1
  BY <1>2, <1>3, <1>4, Induction
<1>6. n - 1 \in Good
  BY <1>4, <1>5
<1>7. PICK x \in Nat : x = B[n]
  BY <1>1
<1>8. x <= w * (n - 1) + 1
  <2>1. B[n - 1 + 1] <= w * (n - 1) + 1 /\ n - 1 + 1 = n
    BY <1>6 DEF Good
  <2> QED
    BY <1>7, <2>1
<1>9. PICK c \in 0..w - 1, z \in Nat : c = Len(texts[n]) /\ z = Len(t)
  <2>1. n \in 1..n
    OBVIOUS
  <2>2. Len(texts[n]) \in 0..w - 1
    BY <2>1
  <2> QED
    BY <2>2
<1>10. x + c = z + 1
  BY <1>7, <1>9 DEF Laid
<1>11. z < w * n
  BY <1>8, <1>10
<1> QED
  BY <1>9, <1>11

\* A text that fits into the buffer is printed whole.
LEMMA PrintedWhole ==
  ASSUME NEW S, NEW s \in Seq(S), NEW size, Len(s) < size
  PROVE  Printed(s, size) = s
<1>1. Printed(s, size) = SubSeq(s, 1, Len(s))
  BY DEF Printed
<1> QED
  BY <1>1, SubSeqFull

\* What ToString writes the constructors read.
LEMMA IpReadsBack ==
  ASSUME NEW ip \in Ip4
  PROVE  StrToIpt(IpToString(ip)) = ip
<1>1. PICK base \in {10, 16}, n \in Nat \ {0}, most \in Nat : base = 10 /\ n = 4 /\ most = 8
  OBVIOUS
<1> DEFINE D == [i \in 1..n |-> Digits(ip[i], base)]
           S == Int
<1>2. ASSUME NEW k \in 1..n
      PROVE  Writes(D[k], ip[k], base) /\ Len(D[k]) \in 1..3 /\ D[k] \in Seq(S)
  <2>1. PICK x \in Byte : x = ip[k]
    BY <1>1 DEF Ip4
  <2>2. Writes(Digits(x, 10), x, 10) /\ Len(Digits(x, 10)) <= 3
    BY ByteDigits
  <2>3. D[k] = Digits(x, 10)
    BY <1>1, <2>1
  <2> HIDE DEF D
  <2>4. PICK d : d = D[k] /\ d \in Seq(0..base - 1) /\ Len(d) \in 1..3
    <3>1. PICK d : d = D[k] /\ d \in Seq(0..base - 1) /\ Len(d) \in 1..4 /\ Len(d) <= 3
      BY <1>1, <2>2, <2>3 DEF Writes
    <3>2. PICK c \in 1..4 : c = Len(d) /\ c <= 3
      BY <3>1
    <3>3. c \in 1..3
      BY <3>2
    <3>4. d = D[k] /\ d \in Seq(0..base - 1) /\ Len(d) \in 1..3
      BY <3>1, <3>2, <3>3
    <3> HIDE <3>1, <3>2, <3>3
    <3> QED
      BY ONLY <3>4, Zenon
  <2>5. d \in Seq(S)
    <3>1. 0..base - 1 \subseteq S
      BY <1>1
    <3> QED
      BY <2>4, <3>1, SeqMonotonic
  <2> QED
    BY <1>1, <2>1, <2>2, <2>3, <2>4, <2>5
<1>3. D \in Seq(Seq(S)) /\ Len(D) = n
  BY <1>2
<1> DEFINE t == Joined(D)
<1> HIDE DEF D
<1>4. PICK B : t \in Seq(S) /\ Laid(t, D, n, B)
  <2>1. Sep \in S
    BY DEF Sep
  <2> QED
    BY <1>3, <2>1, JoinedLaid
<1> HIDE DEF t
<1>5. Len(t) < 20
  <2>1. PICK w \in {3, 4} : w = 4
    OBVIOUS
  <2>2. \A k \in 1..n : Len(D[k]) \in 0..w - 1
    <3> SUFFICES ASSUME NEW k \in 1..n PROVE Len(D[k]) \in 0..w - 1
      OBVIOUS
    <3>1. PICK c \in 1..3 : c = Len(D[k])
      BY <1>2
    <3> QED
      BY <2>1, <3>1
  <2>3. PICK z \in Nat : z = Len(t)
    BY <1>4
  <2>4. z < w * n
    BY <1>4, <2>2, <2>3, LaidLength
  <2> QED
    BY <1>1, <2>1, <2>3, <2>4
<1>6. IpToString(ip) = t
  <2>1. IpToString(ip) = Printed(t, 20)
    BY <1>1 DEF IpToString, t, D
  <2> QED
    BY <1>4, <1>5, <2>1, PrintedWhole
<1>7. Runs(t, n, base, most) = ip
  <2>1. Len(t) \in Nat
    BY <1>4
  <2>2. ip \in [1..n -> Byte]
    BY <1>1 DEF Ip4
  <2>3. \A k \in 1..n : Writes(D[k], ip[k], base) /\ Len(D[k]) <= most
    <3> SUFFICES ASSUME NEW k \in 1..n PROVE Writes(D[k], ip[k], base) /\ Len(D[k]) <= most
      OBVIOUS
    <3>1. Writes(D[k], ip[k], base)
      BY <1>2
    <3>2. PICK c \in 1..3 : c = Len(D[k])
      BY <1>2
    <3>3. c <= most
      BY <1>1
    <3> QED
      BY <3>1, <3>2, <3>3
  <2> QED
    BY <1>4, <2>1, <2>2, <2>3, RunsRead
<1> QED
  BY <1>1, <1>6, <1>7 DEF StrToIpt, IpByteLength

LEMMA MacReadsBack ==
  ASSUME NEW m \in [1..6 -> Byte]
  PROVE  StrToMac(MacToString(m)) = m
<1>1. PICK base \in {10, 16}, n \in Nat \ {0}, most \in Nat :
        base = 16 /\ n = 6 /\ most = Unbounded
  BY DEF Unbounded
<1> DEFINE D == [i \in 1..n |-> Padded(m[i], 2)]
           S == Int
<1>2. ASSUME NEW k \in 1..n
      PROVE  Writes(D[k], m[k], base) /\ Len(D[k]) = 2 /\ D[k] \in Seq(S)
  <2>1. PICK x \in Byte : x = m[k]
    BY <1>1
  <2>2. Writes(Padded(x, 2), x, 16) /\ Len(Padded(x, 2)) = 2
    BY ByteDigits
  <2>3. D[k] = Padded(x, 2)
    BY <2>1
  <2>4. PICK d : d = D[k] /\ d \in Seq(0..base - 1)
    BY <1>1, <2>2, <2>3 DEF Writes
  <2>5. d \in Seq(S)
    <3>1. 0..base - 1 \subseteq S
      BY <1>1
    <3> QED
      BY <2>4, <3>1, SeqMonotonic
  <2> QED
    BY <1>1, <2>1, <2>2, <2>3, <2>4, <2>5
<1>3. D \in Seq(Seq(S)) /\ Len(D) = n
  BY <1>2
<1> DEFINE t == Joined(D)
<1> HIDE DEF D
<1>4. PICK B : t \in Seq(S) /\ Laid(t, D, n, B)
  <2>1. Sep \in S
    BY DEF Sep
  <2> QED
    BY <1>3, <2>1, JoinedLaid
<1> HIDE DEF t
<1>5. Len(t) < 18
  <2>1. PICK w \in {3, 4} : w = 3
    OBVIOUS
  <2>2. \A k \in 1..n : Len(D[k]) \in 0..w - 1
    BY <1>2, <2>1
  <2>3. PICK z \in Nat : z = Len(t)
    BY <1>4
  <2>4. z < w * n
    BY <1>4, <2>2, <2>3, LaidLength
  <2> QED
    BY <1>1, <2>1, <2>3, <2>4
<1>6. MacToString(m) = t
  <2>1. MacToString(m) = Printed(t, 18)
    BY <1>1 DEF MacToString, t, D
  <2> QED
    BY <1>4, <1>5, <2>1, PrintedWhole
<1>7. Runs(t, n, base, most) = m
  <2>1. Len(t) \in Nat
    BY <1>4
  <2>2. m \in [1..n -> Byte]
    BY <1>1
  <2>3. \A k \in 1..n : Writes(D[k], m[k], base) /\ Len(D[k]) <= most
    <3>1. 2 <= most
      BY <1>1 DEF Unbounded
    <3> SUFFICES ASSUME NEW k \in 1..n PROVE Writes(D[k], m[k], base) /\ Len(D[k]) <= most
      OBVIOUS
    <3> QED
      BY <1>2, <3>1
  <2> QED
    BY <1>4, <2>1, <2>2, <2>3, RunsRead
<1> QED
  BY <1>1, <1>6, <1>7 DEF StrToMac, MacByteLength

\* The group's address.
LEMMA GroupAddress == MulticastGroup = <<233, 255, 14, 7>>
<1> DEFINE s == <<2, 3, 3, Sep, 2, 5, 5, Sep, 1, 4, Sep, 7>>
           ip == <<233, 255, 14, 7>>
           D == <<Digits(233, 10), Digits(255, 10), Digits(14, 10), Digits(7, 10)>>
           B == <<1, 5, 9, 12>>
<1>1. PICK base \in {10, 16}, n \in Nat \ {0}, most \in Nat : base = 10 /\ n = 4 /\ most = 8
  OBVIOUS
<1>2. ASSUME NEW x \in Byte
      PROVE  Writes(Digits(x, 10), x, 10) /\ Len(Digits(x, 10)) <= 3
  BY ByteDigits
<1>3. /\ Digits(233, 10) = <<2, 3, 3>> /\ Digits(255, 10) = <<2, 5, 5>>
      /\ Digits(14, 10) = <<1, 4>> /\ Digits(7, 10) = <<7>>
  BY DEF Digits
<1>4. Len(s) = 12
  OBVIOUS
<1>5. /\ s[1] = 2 /\ s[2] = 3 /\ s[3] = 3 /\ s[4] = Sep /\ s[5] = 2 /\ s[6] = 5 /\ s[7] = 5
      /\ s[8] = Sep /\ s[9] = 1 /\ s[10] = 4 /\ s[11] = Sep /\ s[12] = 7
  OBVIOUS
<1>6. /\ D[1] = <<2, 3, 3>> /\ D[2] = <<2, 5, 5>> /\ D[3] = <<1, 4>> /\ D[4] = <<7>>
      /\ B[1] = 1 /\ B[2] = 5 /\ B[3] = 9 /\ B[4] = 12
  BY <1>3
<1>7. /\ ip \in [1..4 -> Byte] /\ ip[1] = 233 /\ ip[2] = 255 /\ ip[3] = 14 /\ ip[4] = 7
  BY DEF Byte
<1>8. \A k \in 1..4 : Writes(D[k], ip[k], 10) /\ Len(D[k]) <= 3
  <2>1. 233 \in Byte /\ 255 \in Byte /\ 14 \in Byte /\ 7 \in Byte
    BY DEF Byte
  <2>2. /\ D[1] = Digits(233, 10) /\ D[2] = Digits(255, 10)
        /\ D[3] = Digits(14, 10) /\ D[4] = Digits(7, 10)
    OBVIOUS
  <2> HIDE DEF D, ip
  <2>3. \A k \in 1..4 : k = 1 \/ k = 2 \/ k = 3 \/ k = 4
    OBVIOUS
  <2> QED
    BY <1>2, <1>7, <2>1, <2>2, <2>3
<1> HIDE DEF s, D, B, ip
<1>9. Laid(s, D, 4, B)
  <2>1. Len(D[1]) = 3 /\ Len(D[2]) = 3 /\ Len(D[3]) = 2 /\ Len(D[4]) = 1
    BY <1>6
  <2>2. /\ D[1][1] = 2 /\ D[1][2] = 3 /\ D[1][3] = 3 /\ D[2][1] = 2 /\ D[2][2] = 5
        /\ D[2][3] = 5 /\ D[3][1] = 1 /\ D[3][2] = 4 /\ D[4][1] = 7
    BY <1>6
  <2>3. /\ Holds(s, 1, D[1], 3) /\ Holds(s, 5, D[2], 3)
        /\ Holds(s, 9, D[3], 2) /\ Holds(s, 12, D[4], 1)
    BY <1>5, <2>2 DEF Holds
  <2>4. \A k \in 1..4 : B[k] \in 1..Len(s) + 1 /\ Holds(s, B[k], D[k], Len(D[k]))
    <3>1. \A k \in 1..4 : k = 1 \/ k = 2 \/ k = 3 \/ k = 4
      OBVIOUS
    <3>2. /\ 1 \in 1..Len(s) + 1 /\ 5 \in 1..Len(s) + 1
          /\ 9 \in 1..Len(s) + 1 /\ 12 \in 1..Len(s) + 1
      BY <1>4
    <3>3. /\ B[1] \in 1..Len(s) + 1 /\ Holds(s, B[1], D[1], Len(D[1]))
          /\ B[2] \in 1..Len(s) + 1 /\ Holds(s, B[2], D[2], Len(D[2]))
          /\ B[3] \in 1..Len(s) + 1 /\ Holds(s, B[3], D[3], Len(D[3]))
          /\ B[4] \in 1..Len(s) + 1 /\ Holds(s, B[4], D[4], Len(D[4]))
      BY <1>6, <2>1, <2>3, <3>2, Zenon
    <3> QED
      BY <3>1, <3>3
  <2>5. \A k \in 1..3 : /\ B[k] + Len(D[k]) <= Len(s) /\ s[B[k] + Len(D[k])] = Sep
                        /\ B[k + 1] = B[k] + Len(D[k]) + 1
    <3>1. \A k \in 1..3 : k = 1 \/ k = 2 \/ k = 3
      OBVIOUS
    <3>2. /\ B[1] + Len(D[1]) = 4 /\ B[2] + Len(D[2]) = 8 /\ B[3] + Len(D[3]) = 11
      BY <1>6, <2>1
    <3>3. /\ B[1 + 1] = 4 + 1 /\ B[2 + 1] = 8 + 1 /\ B[3 + 1] = 11 + 1
      BY <1>6
    <3>4. ASSUME NEW k \in 1..3, NEW e \in {4, 8, 11}, B[k] + Len(D[k]) = e, B[k + 1] = e + 1
          PROVE  /\ B[k] + Len(D[k]) <= Len(s) /\ s[B[k] + Len(D[k])] = Sep
                 /\ B[k + 1] = B[k] + Len(D[k]) + 1
      BY <1>4, <1>5, <3>4
    <3> QED
      BY <3>1, <3>2, <3>3, <3>4
  <2> QED
    BY <1>4, <1>6, <2>1, <2>4, <2>5 DEF Laid
<1>10. Runs(s, n, base, most) = ip
  <2>1. Len(s) \in Nat
    BY <1>4
  <2>2. Laid(s, D, n, B) /\ ip \in [1..n -> Byte]
    BY <1>1, <1>7, <1>9
  <2>3. \A k \in 1..n : Writes(D[k], ip[k], base) /\ Len(D[k]) <= most
    <3> SUFFICES ASSUME NEW k \in 1..n PROVE Writes(D[k], ip[k], base) /\ Len(D[k]) <= most
      OBVIOUS
    <3>1. Writes(D[k], ip[k], 10) /\ Len(D[k]) <= 3
      BY <1>1, <1>8
    <3>2. PICK c \in 1..4 : c = Len(D[k])
      BY <3>1 DEF Writes
    <3> QED
      BY <1>1, <3>1, <3>2
  <2> QED
    BY <2>1, <2>2, <2>3, RunsRead
<1> QED
  BY <1>1, <1>10 DEF MulticastGroup, StrToIpt, IpByteLength, s, ip

\* A word has four digits at most in base 16.
LEMMA FourDigits ==
  ASSUME NEW x \in Int, 0 <= x, x < 65536, NEW base \in {10, 16}, base = 16
  PROVE  x < base * base * base * base
OBVIOUS

\* What a member of U16 is. The solvers write an interval of two literals out,
\* one disjunct for each number, so MaxU16 and U16 are expanded apart.
LEMMA InU16 == \A n : n \in U16 <=> n \in Int /\ 0 <= n /\ n < 65536
<1>1. MaxU16 \in Int /\ \A n \in Int : n <= MaxU16 <=> n < 65536
  BY DEF MaxU16
<1>2. \A n : n \in U16 <=> n \in Int /\ 0 <= n /\ n <= MaxU16
  BY <1>1 DEF U16
<1> QED
  BY <1>1, <1>2

LEMMA WordDigits ==
  ASSUME NEW x \in U16, NEW base \in {10, 16}, base = 16
  PROVE  Writes(Digits(x, base), x, base)
<1>1. x \in Int /\ 0 <= x /\ x < 65536
  BY InU16
<1>2. x < base * base * base * base
  BY <1>1, FourDigits
<1>3. x \in Nat
  BY <1>1
<1> QED
  BY <1>2, <1>3, DigitsWrite

LEMMA WordTaken ==
  ASSUME NEW s, NEW st, st.convert, NEW j, NEW x \in U16,
         RunEnd(s, st.pos, 16, Unbounded) = j, Number(s, st.pos, j, 16) = x
  PROVE  NextWord(s, st) = After(s, j, Append(st.words, x))
<1>1. x \in Int /\ 0 <= x /\ x < 65536
  BY InU16
<1>2. x % 65536 = x
  BY ONLY <1>1
<1> QED
  BY <1>2 DEF NextWord

\* An IPv6 address that is written in full is read as it was.
LEMMA WordsRead ==
  ASSUME NEW s, Len(s) \in Nat, NEW v \in [1..8 -> U16], NEW texts, NEW B, Laid(s, texts, 8, B),
         \A k \in 1..8 : Writes(texts[k], v[k], 16) /\ Len(texts[k]) <= Unbounded
  PROVE  StrToIpv6(s) = v
<1>0. PICK base \in {10, 16}, n \in Nat \ {0}, most \in Nat :
        base = 16 /\ n = 8 /\ most = Unbounded /\ n = Ipv6WordLength
  <2>1. /\ 16 \in {10, 16} /\ 8 \in Nat \ {0} /\ Unbounded \in Nat
        /\ 8 = Ipv6WordLength
    BY DEF Unbounded, Ipv6WordLength
  <2> QED
    BY <2>1, Zenon
<1>a. PICK F : /\ StrToIpv6(s) = F[Ipv6WordLength].words
               /\ \A k \in 0..Ipv6WordLength : F[k] = Turn(F, s, k)
  BY WordsLoop
<1>1. /\ StrToIpv6(s) = F[n].words
      /\ \A k \in 0..n : F[k] = Turn(F, s, k)
  BY <1>0, <1>a
<1>2. BeginAll(texts, n, base)
  <2> SUFFICES ASSUME NEW i \in 1..n
               PROVE  Len(texts[i]) \in Nat \ {0} /\ texts[i][1] \in 0..base - 1
    BY DEF BeginAll
  <2>1. PICK d : d = texts[i] /\ d \in Seq(0..base - 1) /\ Len(d) \in 1..4
    BY <1>0 DEF Writes
  <2>2. PICK c \in 1..4 : c = Len(d)
    BY <2>1
  <2>3. c \in Nat \ {0} /\ 1 \in 1..c
    OBVIOUS
  <2>4. d[1] \in 0..base - 1
    BY <2>1, <2>2, <2>3, ElementOfSeq
  <2> QED
    BY <2>1, <2>2, <2>3, <2>4
<1> DEFINE Pos(m) == IF m = n THEN Len(s) + 1 ELSE B[m + 1]
           Good == {m \in 0..n :
                      F[m] = [words |-> [i \in 1..m |-> v[i]], pos |-> Pos(m), convert |-> TRUE]}
<1>3. 0 \in Good
  <2>1. 0 \in 0..n /\ 0 # n
    OBVIOUS
  <2>2. F[0] = [words |-> <<>>, pos |-> 1, convert |-> TRUE]
    BY <1>1, <2>1 DEF Turn
  <2>3. [i \in 1..0 |-> v[i]] = <<>> /\ B[0 + 1] = 1
    BY DEF Laid
  <2> QED
    BY <2>1, <2>2, <2>3
<1>4. ASSUME NEW m \in 1..n, m - 1 \in Good
      PROVE  m \in Good
  <2>1. PICK l \in 0..n : l = m - 1 /\ l # n /\ m = l + 1 /\ m # 0
    <3>1. m - 1 \in 0..n /\ m - 1 # n /\ m = m - 1 + 1 /\ m # 0
      OBVIOUS
    <3> QED
      BY <3>1
  <2>2. F[l] = [words |-> [i \in 1..l |-> v[i]], pos |-> B[m], convert |-> TRUE]
    BY <1>4, <2>1
  <2>3. F[m] = NextWord(s, F[l])
    <3>1. m \in 0..n
      OBVIOUS
    <3> QED
      BY <1>1, <2>1, <3>1 DEF Turn
  <2>4. PICK x \in U16 : x = v[m]
    BY <1>0
  <2>5. PICK j : ReadOne(s, n, base, most, B, m, x, j)
    <3>1. Writes(texts[m], x, base) /\ Len(texts[m]) <= most
      BY <1>0, <2>4
    <3>2. Laid(s, texts, n, B)
      BY <1>0
    <3> QED
      BY <1>2, <3>1, <3>2, OneRead
  <2>6. F[l].pos = B[m] /\ F[l].words = [i \in 1..l |-> v[i]] /\ F[l].convert
    BY <2>2
  <2> DEFINE w == Append([i \in 1..l |-> v[i]], x)
  <2>8. F[m] = After(s, j, w)
    <3>1. RunEnd(s, B[m], 16, Unbounded) = j /\ Number(s, B[m], j, 16) = x
      BY <1>0, <2>5 DEF ReadOne
    <3>a. PICK st : st = F[l]
      OBVIOUS
    <3>b. st.convert /\ RunEnd(s, st.pos, 16, Unbounded) = j /\ Number(s, st.pos, j, 16) = x
      BY <2>6, <3>1, <3>a, Zenon
    <3>2. NextWord(s, F[l]) = After(s, j, Append(F[l].words, x))
      BY <3>a, <3>b, WordTaken, SMTT(30)
    <3> QED
      BY <2>3, <2>6, <3>2
  <2>9. w = [i \in 1..m |-> v[i]]
    BY <2>1, <2>4
  <2> HIDE DEF w
  <2>10. After(s, j, w) = [words |-> w, pos |-> Pos(m), convert |-> TRUE]
    <3>1. CASE m = n
      <4>1. j = Len(s) + 1 /\ j > Len(s)
        BY <2>5, <3>1 DEF ReadOne
      <4> QED
        BY <3>1, <4>1 DEF After
    <3>2. CASE m # n
      <4>1. /\ s[j] = Sep /\ B[m + 1] = j + 1 /\ j + 1 <= Len(s)
            /\ s[j + 1] \in 0..base - 1 /\ j \in Int
        BY <2>5, <3>2 DEF ReadOne, Laid
      <4>2. PICK z \in Nat : z = Len(s)
        OBVIOUS
      <4>3. j < z /\ ~(j > z)
        <5>1. j \in Int /\ j + 1 <= z
          BY <4>1, <4>2, Zenon
        <5> QED
          BY <5>1
      <4>4. PICK c \in 0..base - 1 : c = s[j + 1]
        BY <4>1
      <4>5. c # Sep
        BY <1>0 DEF Sep
      <4> QED
        BY <3>2, <4>1, <4>2, <4>3, <4>4, <4>5 DEF After
    <3> QED
      BY <3>1, <3>2
  <2> HIDE DEF Pos
  <2>11. F[m] = [words |-> [i \in 1..m |-> v[i]], pos |-> Pos(m), convert |-> TRUE]
    BY <2>8, <2>9, <2>10
  <2>12. m \in 0..n
    OBVIOUS
  <2> QED
    BY <2>11, <2>12
<1>5. Good \in SUBSET (0..n) /\ n \in Nat
  OBVIOUS
<1> HIDE DEF Good
<1>6. Good = 0..n
  BY <1>3, <1>4, <1>5, Induction
<1>7. n \in Good
  BY <1>5, <1>6
<1>8. F[n].words = [i \in 1..n |-> v[i]]
  <2>1. F[n] = [words |-> [i \in 1..n |-> v[i]], pos |-> Pos(n), convert |-> TRUE]
    BY <1>7 DEF Good
  <2> HIDE DEF Pos
  <2> QED
    BY <2>1
<1> QED
  BY <1>0, <1>1, <1>8

LEMMA Ipv6ReadsBack ==
  ASSUME NEW v \in [1..8 -> U16], ZeroRuns(v) = {}
  PROVE  StrToIpv6(Ipv6Text(v)) = v
<1>1. PICK base \in {10, 16}, n \in Nat \ {0} : base = 16 /\ n = 8
  OBVIOUS
<1> DEFINE D == [i \in 1..n |-> Digits(v[i], base)]
           S == Int
<1>2. ASSUME NEW k \in 1..n
      PROVE  Writes(D[k], v[k], base) /\ Len(D[k]) \in 1..4 /\ D[k] \in Seq(S)
  <2>1. PICK x \in U16 : x = v[k]
    BY <1>1
  <2>2. Writes(Digits(x, base), x, base)
    BY <1>1, WordDigits
  <2>3. D[k] = Digits(x, base)
    BY <2>1
  <2> HIDE DEF D
  <2>4. PICK d : d = D[k] /\ d \in Seq(0..base - 1) /\ Len(d) \in 1..4
    BY <2>2, <2>3 DEF Writes
  <2>5. d \in Seq(S)
    <3>1. 0..base - 1 \subseteq S
      BY <1>1
    <3> QED
      BY <2>4, <3>1, SeqMonotonic
  <2> QED
    BY <2>1, <2>2, <2>3, <2>4, <2>5
<1>3. D \in Seq(Seq(S)) /\ Len(D) = n
  BY <1>2
<1> DEFINE t == Joined(D)
<1>4. Ipv6Text(v) = t
  <2> DEFINE E == [k \in 1..8 - 1 + 1 |-> Digits(v[1 + k - 1], 16)]
  <2>1. Ipv6Text(v) = Joined(E)
    BY DEF Ipv6Text
  <2>2. E = D
    <3>1. 8 - 1 + 1 = n /\ \A k \in 1..n : 1 + k - 1 = k
      BY <1>1
    <3> QED
      BY <1>1, <3>1
  <2> HIDE DEF D, E
  <2> QED
    BY <2>1, <2>2
<1> HIDE DEF D
<1>5. PICK B : t \in Seq(S) /\ Laid(t, D, n, B)
  <2>1. Sep \in S
    BY DEF Sep
  <2> QED
    BY <1>3, <2>1, JoinedLaid
<1> HIDE DEF t
<1>6. StrToIpv6(t) = v
  <2>1. Len(t) \in Nat /\ Laid(t, D, 8, B)
    BY <1>1, <1>5
  <2>2. \A k \in 1..8 : Writes(D[k], v[k], 16) /\ Len(D[k]) <= Unbounded
    <3> SUFFICES ASSUME NEW k \in 1..8 PROVE Writes(D[k], v[k], 16) /\ Len(D[k]) <= Unbounded
      OBVIOUS
    <3>1. Writes(D[k], v[k], 16)
      BY <1>1, <1>2
    <3>2. PICK c \in 1..4 : c = Len(D[k])
      BY <1>1, <1>2
    <3>3. c <= Unbounded
      BY DEF Unbounded
    <3> QED
      BY <3>1, <3>2, <3>3
  <2> QED
    BY <2>1, <2>2, WordsRead
<1> QED
  BY <1>4, <1>6

-----------------------------------------------------------------------------
(* The map of interfaces.                                                  *)

LEMMA InsertedAt ==
  ASSUME NEW s, NEW c, NEW d, NEW x, d - 1 = c
  PROVE  InsertAt(s, d, x) = SubSeq(s, 1, c) \o <<x>> \o SubSeq(s, d, Len(s))
BY Zenon DEF InsertAt

\* One entry more of the map: those it had, and this one.
LEMMA Inserted ==
  ASSUME NEW S, NEW map \in Seq(S), NEW name, NEW address,
         [name |-> name, address |-> address] \in S
  PROVE  /\ Insert(map, name, address) \in Seq(S)
         /\ Len(Insert(map, name, address)) = Len(map) + 1
         /\ Range(Insert(map, name, address)) =
              Range(map) \cup {[name |-> name, address |-> address]}
<1> DEFINE x == [name |-> name, address |-> address]
           I == {i \in 1..Len(map) : map[i].name <= name}
           l == IF I # {} THEN Max(I) ELSE 0
<1>1. PICK n \in Nat : n = Len(map) /\ \A i \in 1..n : map[i] \in S
  BY ElementOfSeq
<1>2. PICK c \in 0..n : c = l
  <2>1. I \in SUBSET (0..n)
    BY <1>1
  <2>2. CASE I # {}
    <3>1. Max(I) \in I
      BY <2>1, <2>2, GreatestOf
    <3> QED
      BY <2>1, <2>2, <3>1
  <2>3. CASE I = {}
    BY <2>3
  <2> QED
    BY <2>2, <2>3
<1> DEFINE a == SubSeq(map, 1, c)
           b == SubSeq(map, c + 1, n)
<1>3. Insert(map, name, address) = a \o <<x>> \o b
  <2>1. Insert(map, name, address) = InsertAt(map, l + 1, x)
    BY DEF Insert, SelectLastInSeq
  <2> HIDE DEF l, x
  <2>2. PICK d : d = c + 1 /\ d - 1 = c
    OBVIOUS
  <2>3. InsertAt(map, l + 1, x) = InsertAt(map, d, x)
    BY <1>2, <2>2
  <2>4. InsertAt(map, d, x) = SubSeq(map, 1, c) \o <<x>> \o SubSeq(map, d, n)
    BY <1>1, <2>2, InsertedAt
  <2> QED
    BY <2>1, <2>2, <2>3, <2>4, Zenon
<1> HIDE DEF l, I
<1>4. a \in Seq(S) /\ Len(a) = c /\ \A i \in 1..c : a[i] = map[i]
  <2>1. /\ a \in Seq(S) /\ Len(a) = IF 1 <= c THEN c - 1 + 1 ELSE 0
        /\ \A i \in 1..c - 1 + 1 : a[i] = map[1 + i - 1]
    <3>1. 1 \in Int /\ c \in Int /\ \A i \in 1..c : map[i] \in S
      BY <1>1
    <3> QED
      BY <3>1, SubSeqProperties
  <2>2. c - 1 + 1 = c /\ (IF 1 <= c THEN c - 1 + 1 ELSE 0) = c
    OBVIOUS
  <2> HIDE DEF a
  <2>3. ASSUME NEW i \in 1..c PROVE a[i] = map[i]
    <3>1. 1 + i - 1 = i
      OBVIOUS
    <3> QED
      BY <2>1, <2>2, <3>1
  <2> QED
    BY <2>1, <2>2, <2>3
<1>5. b \in Seq(S) /\ Len(b) = n - c /\ \A i \in 1..n - c : b[i] = map[c + i]
  <2>1. /\ b \in Seq(S) /\ Len(b) = IF c + 1 <= n THEN n - (c + 1) + 1 ELSE 0
        /\ \A i \in 1..n - (c + 1) + 1 : b[i] = map[c + 1 + i - 1]
    <3>1. PICK d \in Int : d = c + 1
      OBVIOUS
    <3>2. n \in Int /\ \A i \in d..n : map[i] \in S
      BY <1>1, <3>1
    <3>3. /\ SubSeq(map, d, n) \in Seq(S) /\ Len(SubSeq(map, d, n)) = IF d <= n THEN n - d + 1 ELSE 0
          /\ \A i \in 1..n - d + 1 : SubSeq(map, d, n)[i] = map[d + i - 1]
      BY <3>1, <3>2, SubSeqProperties
    <3> QED
      BY <3>1, <3>3
  <2> HIDE DEF b
  <2>2. n - (c + 1) + 1 = n - c
    OBVIOUS
  <2>3. Len(b) = n - c
    BY <2>1
  <2>4. ASSUME NEW i \in 1..n - c PROVE b[i] = map[c + i]
    <3>1. c + 1 + i - 1 = c + i
      OBVIOUS
    <3> QED
      BY <2>1, <2>2, <3>1
  <2> QED
    BY <2>1, <2>3, <2>4
<1> DEFINE r == a \o <<x>> \o b
<1> HIDE DEF a, b, x
<1>6. x \in S
  BY DEF x
<1>7. /\ a \o <<x>> \in Seq(S) /\ Len(a \o <<x>>) = c + 1
      /\ \A i \in 1..c : (a \o <<x>>)[i] = map[i]
      /\ (a \o <<x>>)[c + 1] = x
  <2>1. <<x>> \in Seq(S) /\ Len(<<x>>) = 1 /\ 1 \in 1..1 /\ <<x>>[1] = x
    BY <1>6
  <2>2. PICK y \in Seq(S) : y = <<x>> /\ Len(y) = 1 /\ y[1] = x
    BY <2>1
  <2>a. PICK g \in Seq(S) : g = a
    BY <1>4
  <2>b. /\ g \o y \in Seq(S) /\ Len(g \o y) = Len(g) + Len(y)
        /\ \A i \in 1..Len(g) : (g \o y)[i] = g[i]
        /\ \A i \in 1..Len(y) : (g \o y)[Len(g) + i] = y[i]
    BY TwoTexts
  <2>3. /\ a \o y \in Seq(S) /\ Len(a \o y) = Len(a) + Len(y)
        /\ \A i \in 1..Len(a) : (a \o y)[i] = a[i]
        /\ \A i \in 1..Len(y) : (a \o y)[Len(a) + i] = y[i]
    BY <2>a, <2>b, Zenon
  <2>4. (a \o y)[c + 1] = x
    <3>1. 1 \in 1..Len(y) /\ y[1] = x
      BY <2>2
    <3>2. (a \o y)[Len(a) + 1] = y[1]
      BY <2>3, <3>1
    <3> QED
      BY <1>4, <3>1, <3>2
  <2>5. Len(a \o y) = c + 1 /\ \A i \in 1..c : (a \o y)[i] = map[i]
    BY <1>4, <2>2, <2>3
  <2> QED
    BY <2>2, <2>3, <2>4, <2>5, Zenon
<1>8. /\ r \in Seq(S) /\ Len(r) = n + 1
      /\ \A i \in 1..c : r[i] = map[i]
      /\ r[c + 1] = x
      /\ \A i \in 1..n - c : r[c + 1 + i] = map[c + i]
  <2>1. PICK h : h = a \o <<x>>
    OBVIOUS
  <2>2. /\ r \in Seq(S) /\ Len(r) = Len(h) + Len(b)
        /\ \A i \in 1..Len(h) : r[i] = h[i]
        /\ \A i \in 1..Len(b) : r[Len(h) + i] = b[i]
    BY <1>5, <1>7, <2>1, TwoTexts
  <2>3. Len(h) = c + 1 /\ Len(b) = n - c /\ c + 1 + (n - c) = n + 1
    BY <1>5, <1>7, <2>1
  <2> HIDE DEF r
  <2>4. ASSUME NEW i \in 1..c PROVE r[i] = map[i]
    <3>1. i \in 1..Len(h)
      BY <2>3
    <3> QED
      BY <1>7, <2>1, <2>2, <3>1
  <2>5. r[c + 1] = x
    <3>1. c + 1 \in 1..Len(h)
      BY <2>3
    <3> QED
      BY <1>7, <2>1, <2>2, <3>1
  <2>6. ASSUME NEW i \in 1..n - c PROVE r[c + 1 + i] = map[c + i]
    BY <1>5, <2>2, <2>3
  <2> QED
    BY <2>2, <2>3, <2>4, <2>5, <2>6
<1> HIDE DEF r
<1>9. Range(r) = Range(map) \cup {x}
  <2>1. DOMAIN r = 1..n + 1 /\ DOMAIN map = 1..n
    BY <1>1, <1>8
  <2>2. ASSUME NEW k \in 1..n + 1 PROVE r[k] \in Range(map) \cup {x}
    <3>1. CASE k \in 1..c
      BY <1>8, <2>1, <3>1 DEF Range
    <3>2. CASE k = c + 1
      BY <1>8, <3>2
    <3>3. CASE k > c + 1
      <4>1. PICK i \in 1..n - c : k = c + 1 + i
        <5>1. PICK i \in Int : i = k - (c + 1)
          OBVIOUS
        <5>2. i \in 1..n - c /\ k = c + 1 + i
          BY <3>3, <5>1
        <5> QED
          BY <5>2
      <4>a. PICK j \in 1..n : j = c + i
        OBVIOUS
      <4>2. c + i \in 1..n /\ r[k] = map[c + i]
        BY <1>8, <4>1, <4>a
      <4> QED
        BY <2>1, <4>2 DEF Range
    <3> QED
      BY <3>1, <3>2, <3>3
  <2>3. x \in Range(r)
    BY <1>8, <2>1 DEF Range
  <2>4. ASSUME NEW j \in 1..n PROVE map[j] \in Range(r)
    <3>1. CASE j \in 1..c
      <4>1. j \in 1..n + 1 /\ r[j] = map[j]
        BY <1>8, <3>1
      <4> QED
        BY <2>1, <4>1 DEF Range
    <3>2. CASE j > c
      <4>1. PICK i \in 1..n - c : j = c + i
        <5>1. PICK i \in Int : i = j - c
          OBVIOUS
        <5>2. i \in 1..n - c /\ j = c + i
          BY <3>2, <5>1
        <5> QED
          BY <5>2
      <4>a. PICK k \in 1..n + 1 : k = c + 1 + i
        OBVIOUS
      <4>2. c + 1 + i \in 1..n + 1 /\ r[c + 1 + i] = map[j]
        BY <1>8, <4>1, <4>a
      <4> QED
        BY <2>1, <4>2 DEF Range
    <3> QED
      BY <3>1, <3>2
  <2> QED
    BY <2>1, <2>2, <2>3, <2>4 DEF Range
<1> QED
  BY <1>1, <1>3, <1>8, <1>9 DEF r, x

\* What the map has of an entry of the kernel's list, and of those kept up to k.
EntryOf(x)   == [name |-> x.name, address |-> AddressOf(x)]
Kept(e, unnamed, k) == {i \in 1..k : IsKept(e, unnamed, i)}

\* The map holds what is kept of the list, and nothing else.
LEMMA Enumerated ==
  ASSUME NEW e, Len(e) \in Nat, NEW unnamed
  PROVE  LET map == EnumerateInterfaces(e, unnamed)
             S   == {EntryOf(e[i]) : i \in 1..Len(e)}
         IN /\ map \in Seq(S) /\ Len(map) <= Len(e)
            /\ Range(map) = {EntryOf(e[i]) : i \in Kept(e, unnamed, Len(e))}
<1> DEFINE S == {EntryOf(e[i]) : i \in 1..Len(e)}
<1>1. PICK F : /\ EnumerateInterfaces(e, unnamed) = F[Len(e)]
               /\ \A k \in 0..Len(e) : F[k] = Visit(F, e, unnamed, k)
  BY VisitsLoop
<1>2. PICK n \in Nat : n = Len(e)
  OBVIOUS
<1> DEFINE Fits(m, k) == /\ m \in Seq(S) /\ Len(m) <= k
                         /\ Range(m) = {EntryOf(e[i]) : i \in Kept(e, unnamed, k)}
           Good == {k \in 0..n : Fits(F[k], k)}
<1>3. 0 \in Good
  <2>1. 0 \in 0..n
    OBVIOUS
  <2>2. F[0] = <<>>
    BY <1>1, <1>2, <2>1 DEF Visit
  <2>3. Range(<<>>) = {} /\ Kept(e, unnamed, 0) = {}
    BY DEF Range, Kept
  <2>4. {EntryOf(e[i]) : i \in Kept(e, unnamed, 0)} = {}
    BY <2>3
  <2> HIDE DEF S
  <2>5. Fits(F[0], 0)
    BY <2>2, <2>3, <2>4
  <2> QED
    BY <2>1, <2>5
<1>4. ASSUME NEW k \in 1..n, k - 1 \in Good
      PROVE  k \in Good
  <2>1. PICK l \in 0..n : l = k - 1 /\ k = l + 1 /\ k # 0
    <3>1. k - 1 \in 0..n /\ k = k - 1 + 1 /\ k # 0
      OBVIOUS
    <3> QED
      BY <3>1
  <2>2. Fits(F[l], l)
    BY <1>4, <2>1
  <2>3. F[k] = Visit(F, e, unnamed, k)
    <3>1. k \in 0..Len(e)
      BY <1>2
    <3> QED
      BY <1>1, <3>1
  <2>4. EntryOf(e[k]) \in S
    BY <1>2
  <2> HIDE DEF S
  <2>5. Kept(e, unnamed, k) = Kept(e, unnamed, l) \cup (IF IsKept(e, unnamed, k) THEN {k} ELSE {})
    <3>1. 1..k = 1..l \cup {k}
      BY <2>1
    <3> QED
      BY <3>1 DEF Kept
  <2>6. CASE IsKept(e, unnamed, k)
    <3>1. F[k] = Insert(F[l], e[k].name, AddressOf(e[k]))
      BY <2>1, <2>3, <2>6 DEF Visit
    <3>2. PICK m \in Seq(S) : m = F[l]
      BY <2>2
    <3>3. /\ F[k] \in Seq(S) /\ Len(F[k]) = Len(m) + 1
          /\ Range(F[k]) = Range(m) \cup {EntryOf(e[k])}
      <4>1. [name |-> e[k].name, address |-> AddressOf(e[k])] \in S
        BY <2>4 DEF EntryOf
      <4>2. PICK nm, ad : nm = e[k].name /\ ad = AddressOf(e[k])
        OBVIOUS
      <4> QED
        BY <3>1, <3>2, <4>1, <4>2, Inserted DEF EntryOf
    <3>4. Len(F[k]) <= k
      <4>1. PICK c \in Nat : c = Len(m)
        OBVIOUS
      <4>2. c <= l
        BY <2>2, <3>2, <4>1
      <4>3. c + 1 <= k
        BY <2>1, <4>2
      <4> QED
        BY <3>3, <4>1, <4>3
    <3>5. Range(F[k]) = {EntryOf(e[i]) : i \in Kept(e, unnamed, k)}
      BY <2>2, <2>5, <2>6, <3>2, <3>3
    <3>6. Fits(F[k], k)
      BY <3>3, <3>4, <3>5
    <3> QED
      BY <3>6
  <2>7. CASE ~IsKept(e, unnamed, k)
    <3>1. F[k] = F[l]
      BY <2>1, <2>3, <2>7 DEF Visit
    <3>2. Len(F[l]) <= k
      <4>1. PICK c \in Nat : c = Len(F[l])
        BY <2>2
      <4> QED
        BY <2>1, <2>2, <4>1
    <3>3. Kept(e, unnamed, k) = Kept(e, unnamed, l)
      BY <2>5, <2>7
    <3>4. Fits(F[k], k)
      BY <2>2, <3>1, <3>2, <3>3
    <3> QED
      BY <3>4
  <2> QED
    BY <2>6, <2>7
<1>5. Good \in SUBSET (0..n) /\ n \in Nat
  OBVIOUS
<1> HIDE DEF Good
<1>6. Good = 0..n
  BY <1>3, <1>4, <1>5, Induction
<1>7. n \in Good
  BY <1>6
<1>8. Fits(F[n], n)
  BY <1>7 DEF Good
<1> QED
  BY <1>1, <1>2, <1>8

\* Every listed address of a link has six bytes, as those of Ethernet and of
\* the loopback have.
SixBytes == \A x \in Range(listed) : x.family = "packet" => Len(x.addr) = MacByteLength

\* What the map has of one entry of the list.
LEMMA EntryAgrees ==
  ASSUME NEW x, IsListing(x), x.family \in {"inet", "inet6", "packet"},
         x.family = "packet" => Len(x.addr) = MacByteLength /\ x.data
  PROVE  /\ ReadsBack(AddressOf(x))
         /\ \/ Agrees(x, EntryOf(x))
            \/ AddressOf(x).type = "Ipv6" /\ x.family = "inet6" /\ ZeroRuns(x.addr) # {}
<1> DEFINE a == AddressOf(x)
           m == EntryOf(x)
<1>1. m.name = x.name /\ m.address = a
  BY DEF EntryOf
<1>2. CASE x.family = "inet"
  <2>1. x.addr \in Ip4
    BY <1>2 DEF IsListing
  <2>2. a = IpOf(x.addr, x.flags)
    BY <1>2 DEF AddressOf
  <2>3. a.type = "Ipv4" /\ a.value = x.addr
    BY <2>1, <2>2, IpReadsBack DEF IpOf, SockaddrToIpt
  <2> HIDE DEF a, m
  <2>4. ReadsBack(a)
    BY <2>1, <2>3, IpReadsBack DEF ReadsBack
  <2>5. Agrees(x, m)
    BY <1>1, <1>2, <2>3 DEF Agrees
  <2> QED
    BY <2>4, <2>5 DEF a, m
<1>3. CASE x.family = "inet6"
  <2>1. x.addr \in [1..8 -> U16]
    BY <1>3 DEF IsListing
  <2>2. a = Ipv6Of(x.addr)
    BY <1>3 DEF AddressOf
  <2>3. a.type = "Ipv6" /\ a.value = StrToIpv6(Ipv6Text(x.addr))
    BY <2>2 DEF Ipv6Of
  <2> HIDE DEF a, m
  <2>4. ReadsBack(a)
    BY <2>3 DEF ReadsBack
  <2>5. CASE ZeroRuns(x.addr) = {}
    <3>1. a.value = x.addr
      BY <2>1, <2>3, <2>5, Ipv6ReadsBack
    <3>2. Agrees(x, m)
      BY <1>1, <1>3, <2>3, <3>1 DEF Agrees
    <3> QED
      BY <2>4, <3>2 DEF a, m
  <2> QED
    BY <1>3, <2>3, <2>4, <2>5 DEF a
<1>4. CASE x.family = "packet"
  <2>1. x.addr \in Seq(Byte) /\ Len(x.addr) = 6
    BY <1>4 DEF IsListing, MacByteLength
  <2>2. a = MacOf(x.addr)
    BY <1>4 DEF AddressOf
  <2>3. SubSeq(x.addr, 1, 6) = x.addr
    <3>1. PICK s \in Seq(Byte) : s = x.addr /\ Len(s) = 6
      BY <2>1
    <3>2. SubSeq(s, 1, 6) = s
      BY <3>1, SubSeqFull
    <3> QED
      BY <3>1, <3>2
  <2>4. a.type = "Mac" /\ a.value = x.addr
    BY <2>2, <2>3 DEF MacOf, MacByteLength
  <2>5. x.addr \in [1..6 -> Byte]
    BY <2>1, LenProperties
  <2> HIDE DEF a, m
  <2>6. ReadsBack(a)
    BY <2>4, <2>5, MacReadsBack DEF ReadsBack
  <2>7. Agrees(x, m)
    BY <1>1, <1>4, <2>4 DEF Agrees
  <2> QED
    BY <2>6, <2>7 DEF a, m
<1> QED
  BY <1>2, <1>3, <1>4

\* What is enumerated of a list agrees with it.
LEMMA ListAgrees ==
  ASSUME listed \in Seq(Listing), \A i \in 1..Len(listed) : IsListing(listed[i]), SixBytes,
         NEW u, interfaces = EnumerateInterfaces(listed, u)
  PROVE  MapAgrees
<1> DEFINE n == Len(listed)
           S == {EntryOf(listed[i]) : i \in 1..n}
<1>1. /\ interfaces \in Seq(S)
      /\ Range(interfaces) = {EntryOf(listed[i]) : i \in Kept(listed, u, n)}
  BY Enumerated
<1>2. ASSUME NEW i \in Kept(listed, u, n)
      PROVE  /\ listed[i] \in Range(listed) /\ IsListing(listed[i])
             /\ listed[i].family \in {"inet", "inet6", "packet"}
             /\ listed[i].family = "packet" => Len(listed[i].addr) = MacByteLength
                                                /\ listed[i].data
  <2>1. i \in 1..n /\ IsKept(listed, u, i)
    BY <1>2 DEF Kept
  <2>2. listed[i] \in Range(listed)
    BY <2>1 DEF Range
  <2> QED
    BY <2>1, <2>2 DEF IsKept, SixBytes
<1>3. ASSUME NEW k \in 1..Len(interfaces)
      PROVE  \E i \in Kept(listed, u, n) : interfaces[k] = EntryOf(listed[i])
  <2>1. interfaces[k] \in Range(interfaces)
    BY <1>1 DEF Range
  <2> QED
    BY <1>1, <2>1
<1>4. ASSUME NEW k \in 1..Len(interfaces)
      PROVE  /\ ReadsBack(interfaces[k].address)
             /\ \/ \E x \in Range(listed) : Agrees(x, interfaces[k])
                \/ interfaces[k].address.type = "Ipv6"
                   /\ \E x \in Range(listed) : x.family = "inet6" /\ x.name = interfaces[k].name
                                                 /\ ZeroRuns(x.addr) # {}
  <2>1. PICK i \in Kept(listed, u, n) : interfaces[k] = EntryOf(listed[i])
    BY <1>3
  <2>2. PICK x \in Range(listed) : x = listed[i]
    BY <1>2
  <2>3. interfaces[k] = EntryOf(x) /\ interfaces[k].address = AddressOf(x) /\ interfaces[k].name = x.name
    BY <2>1, <2>2 DEF EntryOf
  <2>4. /\ ReadsBack(AddressOf(x))
        /\ \/ Agrees(x, EntryOf(x))
           \/ AddressOf(x).type = "Ipv6" /\ x.family = "inet6" /\ ZeroRuns(x.addr) # {}
    BY <1>2, <2>2, EntryAgrees
  <2> QED
    BY <2>3, <2>4
<1>5. ASSUME NEW x \in Range(listed), x.family = "packet", x.data
      PROVE  \E k \in 1..Len(interfaces) : Agrees(x, interfaces[k])
  <2>1. PICK i \in 1..n : x = listed[i]
    BY DEF Range
  <2>2. i \in Kept(listed, u, n)
    BY <1>5, <2>1 DEF Kept, IsKept
  <2>3. EntryOf(x) \in Range(interfaces)
    BY <1>1, <2>1, <2>2
  <2>4. PICK k \in 1..Len(interfaces) : interfaces[k] = EntryOf(x)
    BY <1>1, <2>3 DEF Range
  <2>5. Agrees(x, EntryOf(x))
    BY <1>2, <1>5, <2>1, <2>2, EntryAgrees
  <2> QED
    BY <2>4, <2>5
<1> QED
  BY <1>4, <1>5 DEF MapAgrees

\* The map is always that of the list enumerated last.
MapKnown ==
  /\ listed \in Enumerations \cup {<<>>}
  /\ \E u : interfaces = EnumerateInterfaces(listed, u)

LEMMA NothingListed == EnumerateInterfaces(<<>>, {}) = <<>>
<1> DEFINE e == <<>>
           map == EnumerateInterfaces(e, {})
           S == {EntryOf(e[i]) : i \in 1..Len(e)}
<1>1. Len(e) = 0
  OBVIOUS
<1> HIDE DEF e
<1>2. map \in Seq(S) /\ Len(map) <= Len(e)
  BY <1>1, Enumerated
<1> HIDE DEF map, S
<1>3. map = <<>>
  <2>1. PICK c \in Nat : c = Len(map)
    BY <1>2
  <2>2. c = 0
    BY <1>1, <1>2, <2>1
  <2> QED
    BY <1>2, <2>1, <2>2, EmptySeq
<1> QED
  BY <1>3 DEF map, e

LEMMA MapKnownKept ==
  ASSUME MapKnown, [WNext]_wvars
  PROVE  MapKnown'
<1>1. ASSUME NEW e \in Enumerations, NEW u \in Unnamed, NEW d \in Drives, NEW g \in Garbage,
             Initialize(e, u, d, g)
      PROVE  MapKnown'
  BY <1>1 DEF Initialize, MapKnown
<1>2. CASE SendHeartbeatToMcGroup
  BY <1>2 DEF SendHeartbeatToMcGroup, PrepareRegistrationPacket, links, MapKnown
<1>3. CASE ProcessOneMinuteTick
  BY <1>3 DEF ProcessOneMinuteTick, PrepareRegistrationPacket, links, MapKnown
<1>4. CASE UNCHANGED wvars
  BY <1>4 DEF wvars, links, MapKnown
<1> QED
  BY <1>1, <1>2, <1>3, <1>4 DEF WNext

\* The map of interfaces says what the kernel said, although every address
\* goes through a text, however many interfaces there are.
THEOREM MapSaysWhatIsListed == WSpec => [](SixBytes => MapAgrees)
<1>1. WInit => MapKnown
  BY NothingListed DEF WInit, MapKnown
<1>2. MapKnown /\ [WNext]_wvars => MapKnown'
  BY MapKnownKept
<1>3. MapKnown => (SixBytes => MapAgrees)
  <2> SUFFICES ASSUME MapKnown, SixBytes PROVE MapAgrees
    OBVIOUS
  <2>1. listed \in Seq(Listing) /\ \A i \in 1..Len(listed) : IsListing(listed[i])
    <3>1. CASE listed \in Enumerations
      BY <3>1, WireAssumption
    <3>2. CASE listed = <<>>
      BY <3>2
    <3> QED
      BY <3>1, <3>2 DEF MapKnown
  <2>2. PICK u : interfaces = EnumerateInterfaces(listed, u)
    BY DEF MapKnown
  <2> QED
    BY <2>1, <2>2, ListAgrees
<1> QED
  BY <1>1, <1>2, <1>3, PTL DEF WSpec

-----------------------------------------------------------------------------
(* Integers as bytes.                                                      *)

\* The byte of n of weight 256^(j - 1).
ByteOf(n, j) == (n \div Weight[j]) % 256

LEMMA Weights ==
  Weight[1] = 1 /\ Weight[2] = 256 /\ Weight[3] = 65536 /\ Weight[4] = 256 * 65536
BY SMT DEF Weight

LEMMA WeightType == \A j \in 1..4 : Weight[j] \in Nat /\ Weight[j] > 0
BY SMT DEF Weight

LEMMA ByteType ==
  ASSUME NEW n \in Nat, NEW j \in 1..4
  PROVE  ByteOf(n, j) \in Byte /\ ByteOf(n, j) \in Int
<1>1. PICK v \in Nat : v = Weight[j] /\ v > 0
  BY WeightType
<1>2. PICK q \in Int : q = n \div v
  BY <1>1, SMT
<1>3. q % 256 \in 0..255
  BY SMT
<1>4. ByteOf(n, j) = q % 256
  BY <1>1, <1>2 DEF ByteOf
<1> QED
  BY <1>3, <1>4 DEF Byte

LEMMA BytesOf ==
  ASSUME NEW n \in Nat
  PROVE  /\ ByteOf(n, 1) = n % 256 /\ ByteOf(n, 2) = (n \div 256) % 256
         /\ ByteOf(n, 3) = (n \div 65536) % 256
<1>1. n \div 1 = n
  BY SMT
<1>2. ByteOf(n, 1) = n % 256
  BY <1>1, Weights, SMT DEF ByteOf
<1>3. /\ ByteOf(n, 2) = (n \div 256) % 256
      /\ ByteOf(n, 3) = (n \div 65536) % 256
  BY Weights, SMT DEF ByteOf
<1> QED
  BY <1>2, <1>3

\* Any word is as many bytes.
LEMMA WordType ==
  ASSUME NEW n \in Nat, NEW w \in Nat
  PROVE  /\ Word(n, w) \in [1..w -> Byte]
         /\ \A i \in 1..w : Word(n, w)[i] = IF w - i > 3 THEN 0 ELSE ByteOf(n, w - i + 1)
<1>1. ASSUME NEW i \in 1..w
      PROVE  (IF w - i > 3 THEN 0 ELSE ByteOf(n, w - i + 1)) \in Byte
  <2>1. CASE w - i > 3
    BY <2>1, SMT DEF Byte
  <2>2. CASE ~(w - i > 3)
    <3>1. PICK j \in 1..4 : j = w - i + 1
      BY <2>2, SMT
    <3>2. ByteOf(n, j) \in Byte
      BY ByteType
    <3>3. ByteOf(n, w - i + 1) \in Byte
      BY <3>1, <3>2, Zenon
    <3> QED
      BY <2>2, <3>3, Zenon
  <2> QED
    BY <2>1, <2>2
<1>2. Word(n, w) = [i \in 1..w |-> IF w - i > 3 THEN 0 ELSE ByteOf(n, w - i + 1)]
  BY DEF Word, ByteOf
<1> QED
  BY <1>1, <1>2, Zenon

LEMMA WordIs ==
  ASSUME NEW n \in Nat
  PROVE  /\ Word(n, 1)[1] = ByteOf(n, 1)
         /\ Word(n, 2)[1] = ByteOf(n, 2) /\ Word(n, 2)[2] = ByteOf(n, 1)
         /\ Word(n, 4)[1] = ByteOf(n, 4) /\ Word(n, 4)[2] = ByteOf(n, 3)
         /\ Word(n, 4)[3] = ByteOf(n, 2) /\ Word(n, 4)[4] = ByteOf(n, 1)
         /\ \A i \in 1..4 : Word(n, 8)[i] = 0 /\ Word(n, 8)[4 + i] = Word(n, 4)[i]
<1>1. ASSUME NEW w \in Nat, NEW i \in 1..w, NEW j \in Int, j = w - i + 1, j <= 4
      PROVE  Word(n, w)[i] = ByteOf(n, j)
  <2>1. ~(w - i > 3)
    BY <1>1, SMT
  <2>2. Word(n, w)[i] = ByteOf(n, w - i + 1)
    BY <2>1, WordType
  <2> QED
    BY <1>1, <2>2
<1>2. /\ Word(n, 1)[1] = ByteOf(n, 1)
      /\ Word(n, 2)[1] = ByteOf(n, 2) /\ Word(n, 2)[2] = ByteOf(n, 1)
      /\ Word(n, 4)[1] = ByteOf(n, 4) /\ Word(n, 4)[2] = ByteOf(n, 3)
      /\ Word(n, 4)[3] = ByteOf(n, 2) /\ Word(n, 4)[4] = ByteOf(n, 1)
  BY <1>1, SMT
<1>3. ASSUME NEW i \in 1..4 PROVE Word(n, 8)[i] = 0 /\ Word(n, 8)[4 + i] = Word(n, 4)[i]
  <2>1. PICK w \in Nat, v \in Nat, k \in Int, j \in Int :
          w = 8 /\ v = 4 /\ k = 4 + i /\ k \in 1..w /\ i \in 1..w /\ i \in 1..v
          /\ j = w - k + 1 /\ j = v - i + 1 /\ j <= 4 /\ w - i > 3
    BY SMT
  <2>2. Word(n, w)[k] = ByteOf(n, j) /\ Word(n, v)[i] = ByteOf(n, j)
    BY <1>1, <2>1
  <2>3. Word(n, w)[i] = 0
    BY <2>1, WordType
  <2> QED
    BY <2>1, <2>2, <2>3
<1> QED
  BY <1>2, <1>3

-----------------------------------------------------------------------------
\* Leading zeros.
LEMMA EightDigits ==
  ASSUME NEW d, NEW base \in Int, DOMAIN d = 1..8, \A k \in 1..8 : d[k] \in Int,
         d[1] = 0, d[2] = 0, d[3] = 0, d[4] = 0
  PROVE  Number(d, 1, 9, base) = Then(base, Then(base, Then(base, d[5], d[6]), d[7]), d[8])
<1>0. PICK a \in Int, z \in Int : a = 1 /\ z = 9 /\ a <= z
  OBVIOUS
<1>1. PICK F : /\ Number(d, a, z, base) = F[z]
               /\ \A k \in a..z : F[k] = Digit(F, d, a, base, k)
  BY <1>0, NumberLoop
<1>2. \A k \in 1..9 : F[k] = IF k = 1 THEN 0 ELSE base * F[k - 1] + d[k - 1]
  BY <1>0, <1>1 DEF Digit
<1>3. F[1] = 0
  BY <1>2
<1>4. F[2] = 0
  <2>1. F[2] = base * F[1] + d[1]
    BY <1>2
  <2> QED
    BY <1>3, <2>1
<1>5. F[3] = 0
  <2>1. F[3] = base * F[2] + d[2]
    BY <1>2
  <2> QED
    BY <1>4, <2>1
<1>6. F[4] = 0
  <2>1. F[4] = base * F[3] + d[3]
    BY <1>2
  <2> QED
    BY <1>5, <2>1
<1>7. F[5] = 0
  <2>1. F[5] = base * F[4] + d[4]
    BY <1>2
  <2> QED
    BY <1>6, <2>1
<1>8. F[6] = d[5]
  <2>1. F[6] = base * F[5] + d[5] /\ d[5] \in Int
    BY <1>2
  <2> QED
    BY <1>7, <2>1
<1>9. F[7] = Then(base, F[6], d[6]) /\ F[8] = Then(base, F[7], d[7]) /\ F[9] = Then(base, F[8], d[8])
  BY <1>2 DEF Then
<1> QED
  BY <1>0, <1>1, <1>8, <1>9

\* What a word of enough bytes holds is the number.
LEMMA OneByte ==
  ASSUME NEW n \in Nat, n <= 255, NEW e \in Int, e = n % 256
  PROVE  e = n
BY SMT

LEMMA TwoBytes ==
  ASSUME NEW n \in Nat, n <= 65535, NEW c \in Int, c = (n \div 256) % 256, NEW e \in Int, e = n % 256
  PROVE  256 * c + e = n
<1>1. PICK q \in Int : q = n \div 256 /\ n = 256 * q + e
  BY SMT
<1>2. q >= 0 /\ q <= 255
  BY <1>1, SMT
<1>3. c = q
  BY <1>1, <1>2, OneByte, SMT
<1> QED
  BY <1>1, <1>3, SMT

LEMMA NoTopByte ==
  ASSUME NEW n \in Nat, NEW d \in Nat, n < d, NEW a \in Int, a = (n \div d) % 256
  PROVE  a = 0
<1>1. n \div d = 0
  BY SMT
<1>2. 0 % 256 = 0
  BY SMT
<1> QED
  BY <1>1, <1>2, SMT

LEMMA FourBytes ==
  ASSUME NEW n \in Nat, NEW d \in Nat, d = 256 * 65536, n < d,
         NEW a \in Int, a = (n \div d) % 256, NEW b \in Int, b = (n \div 65536) % 256,
         NEW c \in Int, c = (n \div 256) % 256, NEW e \in Int, e = n % 256
  PROVE  256 * (256 * (256 * a + b) + c) + e = n
<1>1. PICK q \in Int : q = n \div 256 /\ n = 256 * q + e
  BY SMT
<1>2. q >= 0 /\ q <= 65535
  BY <1>1, SMT
<1>3. PICK p \in Int : p = q \div 256 /\ q = 256 * p + c
  BY <1>1, SMT
<1>4. p >= 0 /\ p <= 255
  BY <1>1, <1>2, <1>3, SMT
<1>5. PICK m \in Int : m = n \div 65536
  BY SMT
<1>6. m = p
  BY <1>1, <1>3, <1>5, SMT
<1>7. b = p
  BY <1>4, <1>5, <1>6, OneByte, SMT
<1>8. a = 0
  BY NoTopByte, SMT
<1> QED
  BY <1>1, <1>3, <1>7, <1>8, SMT

LEMMA WordValue ==
  ASSUME NEW n \in Nat, n < Weight[4]
  PROVE  /\ n <= 255 => Value(Word(n, 1)) = n
         /\ n <= 65535 => Value(Word(n, 2)) = n
         /\ Value(Word(n, 4)) = n /\ Value(Word(n, 8)) = n
<1>1. PICK base \in Int : base = 256
  OBVIOUS
<1>0. \A j \in 1..4 : ByteOf(n, j) \in Int
  BY ByteType
<1>a. PICK a \in Int, b \in Int, c \in Int, e \in Int :
        e = ByteOf(n, 1) /\ c = ByteOf(n, 2) /\ b = ByteOf(n, 3) /\ a = ByteOf(n, 4)
  BY <1>0
<1>b. e = n % 256 /\ c = (n \div 256) % 256 /\ b = (n \div 65536) % 256
  BY <1>a, BytesOf
<1>c. a = (n \div Weight[4]) % 256
  BY <1>a DEF ByteOf
<1>2. /\ e = ByteOf(n, 1) /\ c = ByteOf(n, 2) /\ b = ByteOf(n, 3) /\ a = ByteOf(n, 4)
      /\ e = n % 256 /\ c = (n \div 256) % 256 /\ b = (n \div 65536) % 256
      /\ a = (n \div Weight[4]) % 256
  BY <1>a, <1>b, <1>c
<1>3. /\ n <= 255 => e = n
      /\ n <= 65535 => Then(base, c, e) = n
      /\ Then(base, Then(base, Then(base, a, b), c), e) = n
  <2>1. n <= 255 => e = n
    BY <1>2, OneByte, SMT
  <2>2. n <= 65535 => 256 * c + e = n
    BY <1>2, TwoBytes, SMT
  <2>3. 256 * (256 * (256 * a + b) + c) + e = n
    <3>1. PICK d \in Nat : d = Weight[4] /\ d = 256 * 65536
      BY Weights, SMT
    <3> QED
      BY <1>2, <3>1, FourBytes, SMT
  <2> QED
    BY <1>1, <2>1, <2>2, <2>3, SMT DEF Then
<1>4. ASSUME NEW w \in {1, 2, 4, 8}
      PROVE  DOMAIN Word(n, w) = 1..w /\ Len(Word(n, w)) = w /\ \A k \in 1..w : Word(n, w)[k] \in Int
  <2>1. Word(n, w) \in [1..w -> Byte]
    BY WordType
  <2>2. Byte \subseteq Int
    BY DEF Byte
  <2>3. PICK v \in Nat : v = w
    OBVIOUS
  <2>4. PICK d \in [1..v -> Byte] : d = Word(n, w)
    BY <2>1, <2>3
  <2>5. DOMAIN d = 1..v /\ Len(d) = v /\ \A k \in 1..v : d[k] \in Int
    <3>1. DOMAIN d = 1..v /\ \A k \in 1..v : d[k] \in Byte
      OBVIOUS
    <3>2. Len(d) = v
      BY <3>1
    <3> QED
      BY <2>2, <3>1, <3>2
  <2> QED
    BY <2>3, <2>4, <2>5
<1>5. Number(Word(n, 1), 1, 2, base) = e
  BY <1>2, <1>4, ShortNumbers, WordIs
<1>6. Number(Word(n, 2), 1, 3, base) = Then(base, c, e)
  BY <1>2, <1>4, ShortNumbers, WordIs
<1>7. Number(Word(n, 4), 1, 5, base) = Then(base, Then(base, Then(base, a, b), c), e)
  BY <1>2, <1>4, ShortNumbers, WordIs
<1>8. Number(Word(n, 8), 1, 9, base) = Then(base, Then(base, Then(base, a, b), c), e)
  <2>1. PICK d : d = Word(n, 8)
    OBVIOUS
  <2>2. DOMAIN d = 1..8 /\ \A k \in 1..8 : d[k] \in Int
    BY <1>4, <2>1
  <2>3. d[1] = 0 /\ d[2] = 0 /\ d[3] = 0 /\ d[4] = 0
    BY <2>1, WordIs
  <2>4. d[5] = a /\ d[6] = b /\ d[7] = c /\ d[8] = e
    <3>1. d[4 + 1] = a /\ d[4 + 2] = b /\ d[4 + 3] = c /\ d[4 + 4] = e
      BY <1>2, <2>1, WordIs
    <3> QED
      BY <3>1
  <2>5. Number(d, 1, 9, base) = Then(base, Then(base, Then(base, d[5], d[6]), d[7]), d[8])
    BY <2>2, <2>3, EightDigits
  <2> QED
    BY <2>1, <2>4, <2>5, Zenon
<1>9. ASSUME NEW w \in {1, 2, 4, 8}, NEW z, z = w + 1
      PROVE  Value(Word(n, w)) = Number(Word(n, w), 1, z, base)
  <2>1. Len(Word(n, w)) = w
    BY <1>4
  <2> QED
    BY <1>1, <1>9, <2>1, Zenon DEF Value
<1>10. /\ Value(Word(n, 1)) = Number(Word(n, 1), 1, 2, base)
       /\ Value(Word(n, 2)) = Number(Word(n, 2), 1, 3, base)
       /\ Value(Word(n, 4)) = Number(Word(n, 4), 1, 5, base)
       /\ Value(Word(n, 8)) = Number(Word(n, 8), 1, 9, base)
  BY <1>9
<1>11. /\ Value(Word(n, 1)) = e /\ Value(Word(n, 2)) = Then(base, c, e)
       /\ Value(Word(n, 4)) = Then(base, Then(base, Then(base, a, b), c), e)
       /\ Value(Word(n, 8)) = Then(base, Then(base, Then(base, a, b), c), e)
  BY <1>5, <1>6, <1>7, <1>8, <1>10
<1> QED
  BY <1>3, <1>11

-----------------------------------------------------------------------------
(* The layout of the packet.                                               *)

\* Where the fields begin, and where the last one ends.
Offsets == <<0, 4, 6, 7, 8, 10, 11, 12, 13, 15, 16, 20, 22, 23, 24, 28, 32, 40, 41, 44, 45,
             48, 52, 68>>

LEMMA LayoutIs ==
  /\ Len(Layout) = 23 /\ Offsets[1] = 0 /\ Offsets[24] = 68
  /\ \A i \in 1..23 : /\ Layout[i][2] \in Nat \ {0} /\ Offsets[i] \in Nat
                      /\ Offsets[i + 1] = Offsets[i] + Layout[i][2]
BY SMT DEF Layout, Offsets

LEMMA NamesDiffer ==
  ASSUME NEW i \in 1..23, NEW j \in 1..23, Layout[i][1] = Layout[j][1]
  PROVE  i = j
BY SMT DEF Layout

\* Every field has a place of its own.
Place(f) == CHOOSE i \in 1..Len(Layout) : Layout[i][1] = f

LEMMA PlaceOf ==
  ASSUME NEW i \in 1..23
  PROVE  /\ Layout[i][1] \in Fields
         /\ Place(Layout[i][1]) = i /\ SizeOf(Layout[i][1]) = Layout[i][2]
<1>1. Place(Layout[i][1]) \in 1..23 /\ Layout[Place(Layout[i][1])][1] = Layout[i][1]
  BY LayoutIs, Zenon DEF Place
<1>2. Place(Layout[i][1]) = i
  BY <1>1, NamesDiffer
<1>3. SizeOf(Layout[i][1]) = Layout[Place(Layout[i][1])][2]
  BY Zenon DEF SizeOf, Place
<1>4. Layout[i][1] \in Fields
  BY LayoutIs, Zenon DEF Fields
<1> QED
  BY <1>2, <1>3, <1>4, Zenon

OffsetStep(F, i) == IF i = 1 THEN 0 ELSE F[i - 1] + Layout[i - 1][2]

LEMMA OffsetsRun == \E F : F = [i \in 1..Len(Layout) |-> OffsetStep(F, i)]
<1> DEFINE F == [i \in 1..23 |-> Offsets[i]]
<1>1. ASSUME NEW i \in 1..23 PROVE Offsets[i] = OffsetStep(F, i)
  <2>1. CASE i = 1
    BY <2>1, LayoutIs DEF OffsetStep
  <2>2. CASE i # 1
    <3>1. PICK j \in 1..23 : j = i - 1 /\ j + 1 = i
      BY <2>2
    <3>2. F[j] = Offsets[j]
      OBVIOUS
    <3> HIDE DEF F
    <3>3. Offsets[i] = F[j] + Layout[j][2]
      BY <3>1, <3>2, LayoutIs
    <3> QED
      BY <2>2, <3>1, <3>3, Zenon DEF OffsetStep
  <2> QED
    BY <2>1, <2>2
<1>2. F = [i \in 1..23 |-> OffsetStep(F, i)]
  BY <1>1
<1> HIDE DEF F
<1> QED
  BY <1>2, LayoutIs

LEMMA FieldAt ==
  ASSUME NEW b, NEW i \in 1..23
  PROVE  FieldOf(b, Layout[i][1]) = SubSeq(b, Offsets[i] + 1, Offsets[i] + Layout[i][2])
<1> DEFINE F == CHOOSE F : F = [k \in 1..Len(Layout) |-> OffsetStep(F, k)]
           f == Layout[i][1]
<1>1. F = [k \in 1..Len(Layout) |-> OffsetStep(F, k)]
  BY OffsetsRun, Zenon
<1>2. FieldOf(b, f) = SubSeq(b, F[Place(f)] + 1, F[Place(f)] + SizeOf(f))
  BY Zenon DEF FieldOf, Place, OffsetStep
<1> HIDE DEF F
<1>3. \A k \in 1..23 : F[k] = OffsetStep(F, k)
  BY <1>1, LayoutIs, Zenon
<1> DEFINE Good == {m \in 0..22 : F[m + 1] = Offsets[m + 1]}
<1>4. 0 \in Good
  BY <1>3, LayoutIs DEF OffsetStep
<1>5. ASSUME NEW m \in 1..22, m - 1 \in Good PROVE m \in Good
  <2>1. PICK k \in 1..23 : k = m /\ k # 23
    OBVIOUS
  <2>2. PICK j \in 1..23 : j = m + 1 /\ j # 1 /\ j - 1 = k /\ j = k + 1
    BY <2>1
  <2>3. F[k] = Offsets[k]
    BY <1>5, <2>1
  <2>4. F[j] = F[k] + Layout[k][2]
    BY <1>3, <2>2, Zenon DEF OffsetStep
  <2>5. F[j] = Offsets[j]
    BY <2>2, <2>3, <2>4, LayoutIs, Zenon
  <2> QED
    BY <2>2, <2>5
<1>6. Good \in SUBSET (0..22) /\ 22 \in Nat
  OBVIOUS
<1> HIDE DEF Good
<1>7. Good = 0..22
  BY <1>4, <1>5, <1>6, Induction
<1>8. F[i] = Offsets[i]
  <2>1. PICK m \in 0..22 : m + 1 = i
    <3>1. i - 1 \in 0..22 /\ i - 1 + 1 = i
      OBVIOUS
    <3> QED
      BY <3>1
  <2>2. m \in Good
    BY <1>7
  <2> QED
    BY <2>1, <2>2 DEF Good
<1> QED
  BY <1>2, <1>8, PlaceOf, Zenon

\* Parts of the sizes of the fields stand at these places.
Sized(D) == Len(D) = 23 /\ \A i \in 1..23 : Len(D[i]) = Layout[i][2]

LEMMA PartsAt ==
  ASSUME NEW S, NEW D \in Seq(Seq(S)), Sized(D)
  PROVE  \A m \in 0..23 : End(D, m) = Offsets[m + 1]
<1> DEFINE Good == {m \in 0..23 : End(D, m) = Offsets[m + 1]}
<1>1. 0 \in Good
  <2>1. End(D, 0) = 0
    BY Parts, Zenon
  <2>2. 0 \in 0..23 /\ Offsets[0 + 1] = 0
    BY LayoutIs
  <2> QED
    BY <2>1, <2>2
<1>2. ASSUME NEW m \in 1..23, m - 1 \in Good PROVE m \in Good
  <2>1. PICK l \in 0..Len(D) - 1 : l = m - 1 /\ m = l + 1
    <3>1. m - 1 \in 0..Len(D) - 1 /\ m = m - 1 + 1
      BY DEF Sized
    <3> QED
      BY <3>1
  <2>2. End(D, l) = Offsets[m]
    BY <1>2, <2>1
  <2>3. End(D, m) = End(D, l) + Len(D[m])
    <3>1. m \in Int
      OBVIOUS
    <3> QED
      BY <2>1, <3>1, OneTextMore
  <2>4. End(D, m) = Offsets[m + 1]
    <3>1. Len(D[m]) = Layout[m][2] /\ Offsets[m + 1] = Offsets[m] + Layout[m][2]
      BY LayoutIs, Zenon DEF Sized
    <3> QED
      BY <2>2, <2>3, <3>1, Zenon
  <2>5. m \in 0..23
    OBVIOUS
  <2> QED
    BY <2>4, <2>5
<1>3. Good \in SUBSET (0..23) /\ 23 \in Nat
  OBVIOUS
<1> HIDE DEF Good
<1>4. Good = 0..23
  BY <1>1, <1>2, <1>3, Induction
<1> QED
  BY <1>4 DEF Good

LEMMA PartIs ==
  ASSUME NEW S, NEW D \in Seq(Seq(S)), Sized(D), NEW k \in 1..23
  PROVE  /\ FlattenSeq(D) \in Seq(S) /\ Len(FlattenSeq(D)) = Offsets[24]
         /\ SubSeq(FlattenSeq(D), Offsets[k] + 1, Offsets[k] + Layout[k][2]) = D[k]
<1>0. \A m \in 0..23 : End(D, m) = Offsets[m + 1]
  BY PartsAt
<1>1. PICK t \in Seq(S) : t = FlattenSeq(D) /\ Len(t) = 68
  <2>1. FlattenSeq(D) \in Seq(S) /\ Len(FlattenSeq(D)) = End(D, Len(D))
    BY Parts, Zenon
  <2>2. End(D, 23) = Offsets[23 + 1]
    BY <1>0
  <2>3. Offsets[23 + 1] = 68
    BY LayoutIs
  <2>4. Len(D) = 23
    BY DEF Sized
  <2>5. Len(FlattenSeq(D)) = End(D, 23)
    BY <2>1, <2>4, Zenon
  <2>6. End(D, 23) = 68
    BY <2>2, <2>3
  <2>7. Len(FlattenSeq(D)) = 68
    BY <2>5, <2>6, Zenon
  <2>8. FlattenSeq(D) \in Seq(S)
    BY <2>1, Zenon
  <2> QED
    BY <2>7, <2>8, Zenon
<1>2. PICK o \in Nat, w \in Nat, d \in Seq(S) :
        o = Offsets[k] /\ w = Layout[k][2] /\ d = D[k] /\ Len(d) = w
  <2>1. Offsets[k] \in Nat /\ Layout[k][2] \in Nat
    BY LayoutIs
  <2>a. Len(D) = 23
    BY DEF Sized
  <2>b. D[k] \in Seq(S)
    BY <2>a, ElementOfSeq
  <2>c. Len(D[k]) = Layout[k][2]
    BY Zenon DEF Sized
  <2>2. D[k] \in Seq(S) /\ Len(D[k]) = Layout[k][2]
    BY <2>b, <2>c
  <2> QED
    BY <2>1, <2>2, Zenon
<1>3. ASSUME NEW i \in 1..w PROVE o + i \in 1..68 /\ t[o + i] = d[i]
  <2>1. PICK l \in 0..Len(D) - 1 : l \in 0..23 /\ l + 1 = k /\ k = l + 1
    <3>1. k - 1 \in 0..Len(D) - 1 /\ k - 1 \in 0..23 /\ k = k - 1 + 1
      BY DEF Sized
    <3> QED
      BY <3>1
  <2>2. End(D, l) = o
    BY <1>0, <1>2, <2>1
  <2>3. i \in 1..Len(D[k])
    BY <1>2, Zenon
  <2>a. k \in Int
    OBVIOUS
  <2>4. End(D, l) + i <= Len(FlattenSeq(D)) /\ FlattenSeq(D)[End(D, l) + i] = D[k][i]
    BY <2>1, <2>3, <2>a, Part
  <2>5. o + i <= Len(t) /\ t[o + i] = d[i]
    BY <1>1, <1>2, <2>2, <2>4, Zenon
  <2> QED
    BY <1>1, <2>5
<1> DEFINE s == SubSeq(t, o + 1, o + w)
<1>4. s \in Seq(S) /\ Len(s) = w /\ \A i \in 1..w : s[i] = t[o + i]
  <2>1. PICK a \in Int, z \in Int : a = o + 1 /\ z = o + w
    OBVIOUS
  <2>2. \A i \in a..z : t[i] \in S
    <3> SUFFICES ASSUME NEW i \in a..z PROVE t[i] \in S
      OBVIOUS
    <3>1. PICK j \in 1..w : i = o + j
      <4>1. PICK j \in Int : j = i - o
        OBVIOUS
      <4>2. j \in 1..w /\ i = o + j
        BY <2>1, <4>1
      <4> QED
        BY <4>2
    <3>2. i \in 1..68
      BY <1>3, <3>1
    <3> QED
      BY <1>1, <3>2, ElementOfSeq
  <2>3. /\ SubSeq(t, a, z) \in Seq(S)
        /\ Len(SubSeq(t, a, z)) = IF a <= z THEN z - a + 1 ELSE 0
        /\ \A i \in 1..z - a + 1 : SubSeq(t, a, z)[i] = t[a + i - 1]
    BY <2>2, SubSeqProperties
  <2>4. s = SubSeq(t, a, z)
    BY <2>1
  <2> HIDE DEF s
  <2>5. z - a + 1 = w /\ (IF a <= z THEN z - a + 1 ELSE 0) = w
    BY <2>1
  <2>6. ASSUME NEW i \in 1..w PROVE s[i] = t[o + i]
    <3>1. a + i - 1 = o + i
      BY <2>1
    <3> QED
      BY <2>3, <2>4, <2>5, <3>1
  <2> QED
    BY <2>3, <2>4, <2>5, <2>6
<1> HIDE DEF s
<1>5. s = d
  <2>a. Len(s) = w /\ Len(d) = w /\ \A i \in 1..w : s[i] = d[i]
    BY <1>2, <1>3, <1>4
  <2>1. PICK q \in Seq(S) : q = s /\ Len(q) = Len(d) /\ \A i \in 1..Len(q) : q[i] = d[i]
    BY <1>4, <2>a, Zenon
  <2> QED
    BY <2>1, SeqEqual, Zenon
<1>e. Len(FlattenSeq(D)) = Offsets[24]
  BY <1>1, LayoutIs
<1> QED
  BY <1>1, <1>2, <1>5, <1>e, Zenon DEF s

-----------------------------------------------------------------------------
(* Memory, and the bytes of a packet.                                      *)

LEMMA ReverseTwice ==
  ASSUME NEW w \in Nat, NEW x \in [1..w -> Byte]
  PROVE  Reverse(x) \in [1..w -> Byte] /\ Reverse(Reverse(x)) = x
<1>1. Len(x) = w /\ x = [i \in 1..w |-> x[i]]
  OBVIOUS
<1>2. Reverse(x) = [i \in 1..w |-> x[w - i + 1]]
  BY <1>1, Zenon DEF Reverse
<1>3. PICK y : y = Reverse(x)
  OBVIOUS
<1>4. y \in [1..w -> Byte] /\ \A i \in 1..w : y[i] = x[w - i + 1]
  BY <1>2, <1>3
<1>5. Len(y) = w
  BY <1>4
<1>6. Reverse(y) = [i \in 1..w |-> y[w - i + 1]]
  BY <1>5, Zenon DEF Reverse
<1>7. ASSUME NEW i \in 1..w PROVE y[w - i + 1] = x[i]
  <2>1. PICK j \in 1..w : j = w - i + 1 /\ i = w - j + 1
    <3>1. w - i + 1 \in 1..w /\ i = w - (w - i + 1) + 1
      OBVIOUS
    <3> QED
      BY <3>1
  <2> QED
    BY <1>4, <2>1, Zenon
<1>8. Reverse(y) = x
  BY <1>1, <1>6, <1>7, Zenon
<1> QED
  BY <1>3, <1>4, <1>8, Zenon

\* What CheckAndSwap undoes and does.
LEMMA Swapped ==
  ASSUME NEW w \in Nat, NEW x \in [1..w -> Byte]
  PROVE  /\ Memory(x) \in [1..w -> Byte] /\ CheckAndSwap(x) \in [1..w -> Byte]
         /\ Memory(CheckAndSwap(x)) = x /\ CheckAndSwap(Memory(x)) = x
BY ReverseTwice, Zenon DEF Memory, CheckAndSwap, Swap

LEMMA PutWord ==
  ASSUME NEW n \in Nat, NEW w \in Nat
  PROVE  Put(n, w) = Word(n, w) /\ Put(n, w) \in [1..w -> Byte]
<1>1. Word(n, w) \in [1..w -> Byte]
  BY WordType, Zenon
<1> QED
  BY <1>1, Swapped, Zenon DEF Put

IsPacket(p) == \A i \in 1..23 : p[Layout[i][1]] \in [1..Layout[i][2] -> Byte]

LEMMA PacketBytes ==
  ASSUME NEW p, IsPacket(p)
  PROVE  /\ Bytes(p) \in Seq(Byte) /\ Len(Bytes(p)) = 68
         /\ \A k \in 1..23 : SubSeq(Bytes(p), Offsets[k] + 1, Offsets[k] + Layout[k][2])
                               = p[Layout[k][1]]
<1>1. PICK D : D = [i \in 1..23 |-> p[Layout[i][1]]]
  OBVIOUS
<1>2. ASSUME NEW i \in 1..23
      PROVE  D[i] = p[Layout[i][1]] /\ D[i] \in Seq(Byte) /\ Len(D[i]) = Layout[i][2]
  <2>1. D[i] = p[Layout[i][1]]
    BY <1>1
  <2>2. PICK w \in Nat : w = Layout[i][2]
    BY LayoutIs
  <2>3. PICK x \in [1..w -> Byte] : x = D[i]
    BY <2>1, <2>2, Zenon DEF IsPacket
  <2>4. x \in Seq(Byte) /\ Len(x) = w
    OBVIOUS
  <2> QED
    BY <2>1, <2>2, <2>3, <2>4, Zenon
<1>3. D \in [1..23 -> Seq(Byte)]
  BY <1>1, <1>2, Zenon
<1>4. D \in Seq(Seq(Byte)) /\ Len(D) = 23
  <2>0. PICK T : T = Seq(Byte)
    OBVIOUS
  <2>1. PICK n \in Nat : n = 23
    OBVIOUS
  <2>2. D \in [1..n -> T]
    BY <1>3, <2>0, <2>1, Zenon
  <2>3. D \in Seq(T) /\ Len(D) = n
    BY <2>2
  <2> QED
    BY <2>0, <2>1, <2>3, Zenon
<1>5. Sized(D)
  BY <1>2, <1>4, Zenon DEF Sized
<1>6. Bytes(p) = FlattenSeq(D)
  BY <1>1, LayoutIs, Zenon DEF Bytes
<1>7. ASSUME NEW k \in 1..23
      PROVE  SubSeq(Bytes(p), Offsets[k] + 1, Offsets[k] + Layout[k][2]) = p[Layout[k][1]]
  <2>1. SubSeq(FlattenSeq(D), Offsets[k] + 1, Offsets[k] + Layout[k][2]) = D[k]
    BY <1>4, <1>5, PartIs, Zenon
  <2> QED
    BY <1>2, <1>6, <2>1, Zenon
<1>8. 1 \in 1..23
  OBVIOUS
<1>9. FlattenSeq(D) \in Seq(Byte) /\ Len(FlattenSeq(D)) = 68
  <2>1. FlattenSeq(D) \in Seq(Byte) /\ Len(FlattenSeq(D)) = Offsets[24]
    BY <1>4, <1>5, <1>8, PartIs, Zenon
  <2> QED
    BY <2>1, LayoutIs
<1> QED
  BY <1>6, <1>7, <1>9, Zenon

\* What is sent of a packet of the length of one interface: its fields.
LEMMA SentIs ==
  ASSUME NEW p, IsPacket(p), p.length = Word(RegistrationSize, 2)
  PROVE  /\ Sent(p) = Bytes(p) /\ Len(Sent(p)) = RegistrationSize
         /\ \A k \in 1..23 : FieldOf(Sent(p), Layout[k][1]) = p[Layout[k][1]]
<1>1. PICK b \in Seq(Byte) :
        /\ b = Bytes(p) /\ Len(b) = 68
        /\ \A k \in 1..23 : SubSeq(b, Offsets[k] + 1, Offsets[k] + Layout[k][2])
                              = p[Layout[k][1]]
  BY PacketBytes, Zenon
<1>2. Value(CheckAndSwap(Memory(p.length))) = 68
  <2>1. PICK n \in Nat : n = RegistrationSize
    BY DEF RegistrationSize
  <2>n. n = 68 /\ n <= 65535
    BY <2>1 DEF RegistrationSize
  <2>2. n < Weight[4]
    BY <2>n, SMT DEF Weight
  <2>3. PICK x \in [1..2 -> Byte] : x = Word(n, 2)
    <3>1. 2 \in Nat
      OBVIOUS
    <3> QED
      BY <3>1, WordType, Zenon
  <2>4. Value(x) = n
    BY <2>n, <2>2, <2>3, WordValue
  <2>5. CheckAndSwap(Memory(x)) = x
    <3>1. 2 \in Nat
      OBVIOUS
    <3> QED
      BY <3>1, Swapped, Zenon
  <2>6. p.length = x
    BY <2>1, <2>3, Zenon
  <2>7. Value(CheckAndSwap(Memory(p.length))) = n
    BY <2>4, <2>5, <2>6, Zenon
  <2> QED
    BY <2>7, <2>n
<1>3. Sent(p) = b
  <2>1. PICK z \in Seq(Byte) : z = Word(0, MaxPacketSize - RegistrationSize)
    <3>1. 0 \in Nat /\ MaxPacketSize - RegistrationSize \in Nat
      BY DEF MaxPacketSize, RegistrationSize
    <3>2. PICK w \in Nat : w = MaxPacketSize - RegistrationSize
      BY <3>1
    <3>3. PICK z \in [1..w -> Byte] : z = Word(0, w)
      BY <3>1, WordType, Zenon
    <3>4. z \in Seq(Byte)
      OBVIOUS
    <3> QED
      BY <3>2, <3>3, <3>4, Zenon
  <2>b. PICK n \in Nat : n = 68
    OBVIOUS
  <2>a. n = Len(b)
    BY <1>1, <2>b
  <2>2. Sent(p) = SubSeq(b \o z, 1, n)
    <3>1. Value(CheckAndSwap(Memory(p.length))) = n
      BY <1>2, <2>b
    <3>2. b = Bytes(p)
      BY <1>1
    <3>3. Sent(p) = SubSeq(Bytes(p) \o Word(0, MaxPacketSize - RegistrationSize), 1,
                           Value(CheckAndSwap(Memory(p.length))))
      BY Zenon DEF Sent
    <3>4. z = Word(0, MaxPacketSize - RegistrationSize)
      BY <2>1
    <3>5. Sent(p) = SubSeq(b \o z, 1, Value(CheckAndSwap(Memory(p.length))))
      BY <3>2, <3>3, <3>4, Zenon
    <3> QED
      BY <3>1, <3>5, Zenon
  <2>3. 1 \in 1..Len(b) /\ n \in 1..Len(b)
    <3>1. 1 \in 1..n /\ n \in 1..n
      BY <2>b
    <3> QED
      BY <3>1, <2>a, Zenon
  <2>4. SubSeq(b \o z, 1, n) = SubSeq(b, 1, n)
    BY <2>3, SubSeqOfConcat1, Zenon
  <2>5. SubSeq(b, 1, n) = b
    BY <2>a, SubSeqFull, Zenon
  <2> QED
    BY <2>2, <2>4, <2>5, Zenon
<1>4. b = Bytes(p) /\ Len(b) = RegistrationSize
  BY <1>1 DEF RegistrationSize
<1>5. ASSUME NEW k \in 1..23 PROVE FieldOf(b, Layout[k][1]) = p[Layout[k][1]]
  <2>1. SubSeq(b, Offsets[k] + 1, Offsets[k] + Layout[k][2]) = p[Layout[k][1]]
    BY <1>1
  <2> QED
    BY <2>1, FieldAt, Zenon
<1> QED
  BY <1>3, <1>4, <1>5, Zenon

-----------------------------------------------------------------------------
(* The fields by their names.                                              *)
LEMMA Named ==
  /\ Layout[1] = <<"signature", 4>> /\ Layout[2] = <<"sequence", 2>>
  /\ Layout[3] = <<"packet_type", 1>> /\ Layout[4] = <<"retry_count", 1>>
  /\ Layout[5] = <<"length", 2>> /\ Layout[6] = <<"version", 1>>
  /\ Layout[7] = <<"packet_id", 1>> /\ Layout[8] = <<"node_type", 1>>
  /\ Layout[9] = <<"node_id", 2>> /\ Layout[10] = <<"reserved", 1>>
  /\ Layout[11] = <<"reserved2", 4>> /\ Layout[12] = <<"app_version", 2>>
  /\ Layout[13] = <<"app_type", 1>> /\ Layout[14] = <<"reserved1", 1>>
  /\ Layout[15] = <<"public_ip", 4>> /\ Layout[16] = <<"feature_bits", 4>>
  /\ Layout[17] = <<"storage_size", 8>> /\ Layout[18] = <<"total_interfaces", 1>>
  /\ Layout[19] = <<"reserved3", 3>> /\ Layout[20] = <<"type", 1>>
  /\ Layout[21] = <<"reserved4", 3>> /\ Layout[22] = <<"cap_bits", 4>>
  /\ Layout[23] = <<"address", 16>>
BY Zenon DEF Layout

\* The values of the fields that are assigned, with their places.
Assigned(p, s, a, rate, bits, ip, address) ==
  /\ p[Layout[2][1]] = Word(s, 2) /\ p[Layout[3][1]] = Word(4, 1)
  /\ p[Layout[5][1]] = Word(RegistrationSize, 2) /\ p[Layout[6][1]] = Word(100, 1)
  /\ p[Layout[9][1]] = Word(1, 2)
  /\ p[Layout[12][1]] = Word(a.version, 2) /\ p[Layout[13][1]] = Word(a.type, 1)
  /\ p[Layout[15][1]] = ip /\ p[Layout[16][1]] = Word(bits, 4)
  /\ p[Layout[17][1]] = Word(rate, 8) /\ p[Layout[18][1]] = Word(1, 1)
  /\ p[Layout[20][1]] = Word(1, 1) /\ p[Layout[22][1]] = Word(Capabilities, 4)
  /\ p[Layout[23][1]] = address

LEMMA HeaderFields ==
  /\ DOMAIN Header = {"signature", "version", "node_id", "node_type", "sequence",
                      "retry_count", "packet_id", "packet_type", "length"}
  /\ Header["version"] = Put(100, 1) /\ Header["node_id"] = Put(nodeId, 2)
  /\ Header["node_type"] = Put(0, 1) /\ Header["sequence"] = Put(GetNextSequence, 2)
  /\ Header["retry_count"] = Put(0, 1) /\ Header["packet_id"] = Put(0, 1)
  /\ Header["packet_type"] = Put(4, 1)
  /\ Header["length"] = Put(RegistrationSize + (Len(usable) - 1) * InterfaceSize, 2)
BY SMT DEF Header

LEMMA RegistrationFields ==
  /\ DOMAIN Registration = {"app_type", "app_version", "storage_size", "feature_bits",
                            "public_ip", "total_interfaces", "type", "cap_bits", "address"}
  /\ Registration["app_type"] = Put(app.type, 1)
  /\ Registration["app_version"] = Put(app.version, 2)
  /\ Registration["storage_size"] = Put(storage, 8)
  /\ Registration["feature_bits"] = Put(features, 4)
  /\ Registration["public_ip"] = publicIp'
  /\ Registration["total_interfaces"] = Put(Len(usable), 1)
  /\ Registration["type"] = Put(1, 1)
  /\ Registration["cap_bits"] = Put(Capabilities, 4)
  /\ Registration["address"] = usable[1]
BY SMT DEF Registration

\* Which record a field is taken from.
LEMMA Sources ==
  /\ DOMAIN Header \subseteq Fields /\ DOMAIN Registration \subseteq Fields
  /\ DOMAIN Header \cap DOMAIN Registration = {}
  /\ {"reserved", "reserved2", "reserved1", "reserved3", "reserved4"}
       \subseteq Fields \ (DOMAIN Header \cup DOMAIN Registration)
<1>1. /\ "signature" \in Fields
      /\ "sequence" \in Fields
      /\ "packet_type" \in Fields
      /\ "retry_count" \in Fields
      /\ "length" \in Fields
      /\ "version" \in Fields
      /\ "packet_id" \in Fields
      /\ "node_type" \in Fields
      /\ "node_id" \in Fields
      /\ "reserved" \in Fields
      /\ "reserved2" \in Fields
      /\ "app_version" \in Fields
      /\ "app_type" \in Fields
      /\ "reserved1" \in Fields
      /\ "public_ip" \in Fields
      /\ "feature_bits" \in Fields
      /\ "storage_size" \in Fields
      /\ "total_interfaces" \in Fields
      /\ "reserved3" \in Fields
      /\ "type" \in Fields
      /\ "reserved4" \in Fields
      /\ "cap_bits" \in Fields
      /\ "address" \in Fields
  BY PlaceOf, Named
<1> QED
  BY <1>1, HeaderFields, RegistrationFields

LEMMA FieldTaken ==
  ASSUME PrepareRegistrationPacket
  PROVE  /\ DOMAIN packet' = Fields
         /\ \A f \in DOMAIN Header : packet'[f] = Header[f]
         /\ \A f \in DOMAIN Registration : packet'[f] = Registration[f]
         /\ \A f \in Fields \ (DOMAIN Header \cup DOMAIN Registration) :
              packet'[f] = Word(0, SizeOf(f))
<1> DEFINE G(f) == CASE f \in DOMAIN Header       -> Header[f]
                     [] f \in DOMAIN Registration -> Registration[f]
                     [] OTHER                     -> Zeros[f]
<1>1. packet' = [f \in Fields |-> G(f)]
  BY Zenon DEF PrepareRegistrationPacket
<1>2. ASSUME NEW f \in DOMAIN Header PROVE f \in Fields /\ G(f) = Header[f]
  <2>1. f \in Fields /\ f \notin DOMAIN Registration
    BY Sources, Zenon
  <2> QED
    BY <1>2, <2>1
<1>3. ASSUME NEW f \in DOMAIN Registration PROVE f \in Fields /\ G(f) = Registration[f]
  <2>1. f \in Fields /\ f \notin DOMAIN Header
    BY Sources, Zenon
  <2> QED
    BY <1>3, <2>1
<1>4. ASSUME NEW f \in Fields \ (DOMAIN Header \cup DOMAIN Registration)
      PROVE  G(f) = Word(0, SizeOf(f))
  <2>1. G(f) = Zeros[f]
    BY <1>4
  <2> QED
    BY <2>1, Zenon DEF Zeros
<1> HIDE DEF G
<1> QED
  BY <1>1, <1>2, <1>3, <1>4, Zenon

LEMMA BytesAre ==
  ASSUME NEW w \in Nat
  PROVE  /\ \A x \in [1..w -> Byte] : x \in Seq(Byte) /\ Len(x) = w
         /\ \A x \in Seq(Byte) : Len(x) = w => x \in [1..w -> Byte]
OBVIOUS

LEMMA SignatureReady == Header["signature"] \in [1..4 -> Byte]
<1>0. 0 \in Nat /\ 2 \in Nat /\ 4 \in Nat
  OBVIOUS
<1>1. PICK n \in Nat : n = 250878250
  OBVIOUS
<1>2. PICK x \in [1..4 -> Byte] : x = Word(n, 4)
  BY <1>0, WordType, Zenon
<1>3. x \in Seq(Byte) /\ Len(x) = 4
  BY <1>0, BytesAre, Zenon
<1>4. PICK y : y = Narrow(x, 2)
  OBVIOUS
<1>5. y \in [1..2 -> Byte]
  <2>1. y = SubSeq(x, 3, 4)
    BY <1>3, <1>4 DEF Narrow
  <2>2. SubSeq(x, 3, 4) \in Seq(Byte) /\ Len(SubSeq(x, 3, 4)) = 2
    BY <1>3
  <2>3. y \in Seq(Byte) /\ Len(y) = 2
    BY <2>1, <2>2, Zenon
  <2> QED
    BY <1>0, <2>3, BytesAre, Zenon
<1>6. PICK z \in [1..2 -> Byte] : z = CheckAndSwap(y)
  BY <1>0, <1>5, Swapped, Zenon
<1>7. PICK v \in [1..4 -> Byte] : v = Widen(z, 4)
  <2>1. z \in Seq(Byte) /\ Len(z) = 2
    BY <1>0, BytesAre, Zenon
  <2>2. PICK o \in [1..2 -> Byte] : o = Word(0, 2)
    BY <1>0, WordType, Zenon
  <2>3. o \in Seq(Byte) /\ Len(o) = 2
    BY <1>0, BytesAre, Zenon
  <2>4. 4 - Len(z) = 2
    BY <2>1
  <2>5. Widen(z, 4) = o \o z
    BY <2>2, <2>4, Zenon DEF Widen
  <2>6. o \o z \in Seq(Byte) /\ Len(o \o z) = 4
    <3>1. o \o z \in Seq(Byte) /\ Len(o \o z) = Len(o) + Len(z)
      BY <2>1, <2>3, ConcatProperties, Zenon
    <3>2. Len(o) + Len(z) = 4
      BY <2>1, <2>3
    <3> QED
      BY <3>1, <3>2, Zenon
  <2>7. Widen(z, 4) \in [1..4 -> Byte]
    <3>1. PICK q \in Seq(Byte) : q = o \o z /\ Len(q) = 4
      BY <2>6, Zenon
    <3>2. q \in [1..4 -> Byte]
      BY <1>0, <3>1, BytesAre, Zenon
    <3> QED
      BY <2>5, <3>1, <3>2, Zenon
  <2> QED
    BY <2>7
<1>8. Memory(v) \in [1..4 -> Byte]
  BY <1>0, Swapped, Zenon
<1>9. v = Widen(CheckAndSwap(Narrow(Word(n, 4), 2)), 4)
  BY <1>2, <1>4, <1>6, <1>7, Zenon
<1>10. Memory(Widen(CheckAndSwap(Narrow(Word(n, 4), 2)), 4)) \in [1..4 -> Byte]
  BY <1>8, <1>9, Zenon
<1>11. Header["signature"] = Memory(Widen(CheckAndSwap(Narrow(Word(n, 4), 2)), 4))
  BY <1>1, SMT DEF Header
<1> QED
  BY <1>10, <1>11, Zenon

\* What is known when a packet is prepared.
Ready ==
  /\ nodeId = 1 /\ sequence \in Nat /\ storage \in Nat /\ features \in Nat
  /\ app.type \in Nat /\ app.version \in Nat
  /\ Len(usable) = 1 /\ usable[1] \in [1..16 -> Byte]

LEMMA HeaderReady ==
  ASSUME Ready
  PROVE  /\ Header["signature"] \in [1..4 -> Byte]
         /\ Header["version"] \in [1..1 -> Byte]
         /\ Header["version"] = Word(100, 1)
         /\ Header["node_id"] \in [1..2 -> Byte]
         /\ Header["node_id"] = Word(1, 2)
         /\ Header["node_type"] \in [1..1 -> Byte]
         /\ Header["node_type"] = Word(0, 1)
         /\ Header["sequence"] \in [1..2 -> Byte]
         /\ Header["sequence"] = Word(GetNextSequence, 2)
         /\ Header["retry_count"] \in [1..1 -> Byte]
         /\ Header["retry_count"] = Word(0, 1)
         /\ Header["packet_id"] \in [1..1 -> Byte]
         /\ Header["packet_id"] = Word(0, 1)
         /\ Header["packet_type"] \in [1..1 -> Byte]
         /\ Header["packet_type"] = Word(4, 1)
         /\ Header["length"] \in [1..2 -> Byte]
         /\ Header["length"] = Word(RegistrationSize, 2)
<1>1. /\ 0 \in Nat /\ 1 \in Nat /\ 2 \in Nat /\ 4 \in Nat /\ 8 \in Nat
  OBVIOUS
<1>a1. Header["version"] \in [1..1 -> Byte] /\ Header["version"] = Word(100, 1)
  <2>1. PICK n \in Nat : n = 100 /\ n = 100
    OBVIOUS
  <2>2. Put(n, 1) = Word(n, 1) /\ Put(n, 1) \in [1..1 -> Byte]
    BY <1>1, PutWord, Zenon
  <2>3. Header["version"] = Put(n, 1)
    BY <2>1, HeaderFields, Zenon
  <2> QED
    BY <2>1, <2>2, <2>3, Zenon
<1>a2. Header["node_id"] \in [1..2 -> Byte] /\ Header["node_id"] = Word(1, 2)
  <2>1. PICK n \in Nat : n = 1 /\ n = nodeId
    BY DEF Ready
  <2>2. Put(n, 2) = Word(n, 2) /\ Put(n, 2) \in [1..2 -> Byte]
    BY <1>1, PutWord, Zenon
  <2>3. Header["node_id"] = Put(n, 2)
    BY <2>1, HeaderFields, Zenon
  <2> QED
    BY <2>1, <2>2, <2>3, Zenon
<1>a3. Header["node_type"] \in [1..1 -> Byte] /\ Header["node_type"] = Word(0, 1)
  <2>1. PICK n \in Nat : n = 0 /\ n = 0
    OBVIOUS
  <2>2. Put(n, 1) = Word(n, 1) /\ Put(n, 1) \in [1..1 -> Byte]
    BY <1>1, PutWord, Zenon
  <2>3. Header["node_type"] = Put(n, 1)
    BY <2>1, HeaderFields, Zenon
  <2> QED
    BY <2>1, <2>2, <2>3, Zenon
<1>a4. Header["sequence"] \in [1..2 -> Byte] /\ Header["sequence"] = Word(GetNextSequence, 2)
  <2>1. PICK n \in Nat : n = GetNextSequence /\ n = GetNextSequence
    BY DEF Ready, GetNextSequence
  <2>2. Put(n, 2) = Word(n, 2) /\ Put(n, 2) \in [1..2 -> Byte]
    BY <1>1, PutWord, Zenon
  <2>3. Header["sequence"] = Put(n, 2)
    BY <2>1, HeaderFields, Zenon
  <2> QED
    BY <2>1, <2>2, <2>3, Zenon
<1>a5. Header["retry_count"] \in [1..1 -> Byte] /\ Header["retry_count"] = Word(0, 1)
  <2>1. PICK n \in Nat : n = 0 /\ n = 0
    BY DEF Ready
  <2>2. Put(n, 1) = Word(n, 1) /\ Put(n, 1) \in [1..1 -> Byte]
    BY <1>1, PutWord, Zenon
  <2>3. Header["retry_count"] = Put(n, 1)
    BY <2>1, HeaderFields, Zenon
  <2> QED
    BY <2>1, <2>2, <2>3, Zenon
<1>a6. Header["packet_id"] \in [1..1 -> Byte] /\ Header["packet_id"] = Word(0, 1)
  <2>1. PICK n \in Nat : n = 0 /\ n = 0
    BY DEF Ready
  <2>2. Put(n, 1) = Word(n, 1) /\ Put(n, 1) \in [1..1 -> Byte]
    BY <1>1, PutWord, Zenon
  <2>3. Header["packet_id"] = Put(n, 1)
    BY <2>1, HeaderFields, Zenon
  <2> QED
    BY <2>1, <2>2, <2>3, Zenon
<1>a7. Header["packet_type"] \in [1..1 -> Byte] /\ Header["packet_type"] = Word(4, 1)
  <2>1. PICK n \in Nat : n = 4 /\ n = 4
    BY DEF Ready
  <2>2. Put(n, 1) = Word(n, 1) /\ Put(n, 1) \in [1..1 -> Byte]
    BY <1>1, PutWord, Zenon
  <2>3. Header["packet_type"] = Put(n, 1)
    BY <2>1, HeaderFields, Zenon
  <2> QED
    BY <2>1, <2>2, <2>3, Zenon
<1>a8. Header["length"] \in [1..2 -> Byte] /\ Header["length"] = Word(RegistrationSize, 2)
  <2>1. PICK n \in Nat : n = RegistrationSize /\ n = RegistrationSize + (Len(usable) - 1) * InterfaceSize
    BY DEF Ready, RegistrationSize, InterfaceSize
  <2>2. Put(n, 2) = Word(n, 2) /\ Put(n, 2) \in [1..2 -> Byte]
    BY <1>1, PutWord, Zenon
  <2>3. Header["length"] = Put(n, 2)
    BY <2>1, HeaderFields, Zenon
  <2> QED
    BY <2>1, <2>2, <2>3, Zenon
<1>b. Header["signature"] \in [1..4 -> Byte]
  BY SignatureReady
<1> QED
  BY <1>a1, <1>a2, <1>a3, <1>a4, <1>a5, <1>a6, <1>a7, <1>a8, <1>b, Zenon

LEMMA RegistrationReady ==
  ASSUME Ready, publicIp' \in Ip4
  PROVE  /\ Registration["app_type"] \in [1..1 -> Byte]
         /\ Registration["app_type"] = Word(app.type, 1)
         /\ Registration["app_version"] \in [1..2 -> Byte]
         /\ Registration["app_version"] = Word(app.version, 2)
         /\ Registration["storage_size"] \in [1..8 -> Byte]
         /\ Registration["storage_size"] = Word(storage, 8)
         /\ Registration["feature_bits"] \in [1..4 -> Byte]
         /\ Registration["feature_bits"] = Word(features, 4)
         /\ Registration["public_ip"] \in [1..4 -> Byte]
         /\ Registration["total_interfaces"] \in [1..1 -> Byte]
         /\ Registration["total_interfaces"] = Word(1, 1)
         /\ Registration["type"] \in [1..1 -> Byte]
         /\ Registration["type"] = Word(1, 1)
         /\ Registration["cap_bits"] \in [1..4 -> Byte]
         /\ Registration["cap_bits"] = Word(Capabilities, 4)
         /\ Registration["address"] \in [1..16 -> Byte]
<1>1. /\ 0 \in Nat /\ 1 \in Nat /\ 2 \in Nat /\ 4 \in Nat /\ 8 \in Nat
  OBVIOUS
<1>a0. Registration["app_type"] \in [1..1 -> Byte] /\ Registration["app_type"] = Word(app.type, 1)
  <2>1. PICK n \in Nat : n = app.type /\ n = app.type
    BY DEF Ready
  <2>2. Put(n, 1) = Word(n, 1) /\ Put(n, 1) \in [1..1 -> Byte]
    BY <1>1, PutWord, Zenon
  <2>3. Registration["app_type"] = Put(n, 1)
    BY <2>1, RegistrationFields, Zenon
  <2> QED
    BY <2>1, <2>2, <2>3, Zenon
<1>a1. Registration["app_version"] \in [1..2 -> Byte] /\ Registration["app_version"] = Word(app.version, 2)
  <2>1. PICK n \in Nat : n = app.version /\ n = app.version
    BY DEF Ready
  <2>2. Put(n, 2) = Word(n, 2) /\ Put(n, 2) \in [1..2 -> Byte]
    BY <1>1, PutWord, Zenon
  <2>3. Registration["app_version"] = Put(n, 2)
    BY <2>1, RegistrationFields, Zenon
  <2> QED
    BY <2>1, <2>2, <2>3, Zenon
<1>a2. Registration["storage_size"] \in [1..8 -> Byte] /\ Registration["storage_size"] = Word(storage, 8)
  <2>1. PICK n \in Nat : n = storage /\ n = storage
    BY DEF Ready
  <2>2. Put(n, 8) = Word(n, 8) /\ Put(n, 8) \in [1..8 -> Byte]
    BY <1>1, PutWord, Zenon
  <2>3. Registration["storage_size"] = Put(n, 8)
    BY <2>1, RegistrationFields, Zenon
  <2> QED
    BY <2>1, <2>2, <2>3, Zenon
<1>a3. Registration["feature_bits"] \in [1..4 -> Byte] /\ Registration["feature_bits"] = Word(features, 4)
  <2>1. PICK n \in Nat : n = features /\ n = features
    BY DEF Ready
  <2>2. Put(n, 4) = Word(n, 4) /\ Put(n, 4) \in [1..4 -> Byte]
    BY <1>1, PutWord, Zenon
  <2>3. Registration["feature_bits"] = Put(n, 4)
    BY <2>1, RegistrationFields, Zenon
  <2> QED
    BY <2>1, <2>2, <2>3, Zenon
<1>a5. Registration["total_interfaces"] \in [1..1 -> Byte] /\ Registration["total_interfaces"] = Word(1, 1)
  <2>1. PICK n \in Nat : n = 1 /\ n = Len(usable)
    BY DEF Ready
  <2>2. Put(n, 1) = Word(n, 1) /\ Put(n, 1) \in [1..1 -> Byte]
    BY <1>1, PutWord, Zenon
  <2>3. Registration["total_interfaces"] = Put(n, 1)
    BY <2>1, RegistrationFields, Zenon
  <2> QED
    BY <2>1, <2>2, <2>3, Zenon
<1>a6. Registration["type"] \in [1..1 -> Byte] /\ Registration["type"] = Word(1, 1)
  <2>1. PICK n \in Nat : n = 1 /\ n = 1
    BY DEF Ready
  <2>2. Put(n, 1) = Word(n, 1) /\ Put(n, 1) \in [1..1 -> Byte]
    BY <1>1, PutWord, Zenon
  <2>3. Registration["type"] = Put(n, 1)
    BY <2>1, RegistrationFields, Zenon
  <2> QED
    BY <2>1, <2>2, <2>3, Zenon
<1>a7. Registration["cap_bits"] \in [1..4 -> Byte] /\ Registration["cap_bits"] = Word(Capabilities, 4)
  <2>1. PICK n \in Nat : n = Capabilities /\ n = Capabilities
    BY DEF Capabilities
  <2>2. Put(n, 4) = Word(n, 4) /\ Put(n, 4) \in [1..4 -> Byte]
    BY <1>1, PutWord, Zenon
  <2>3. Registration["cap_bits"] = Put(n, 4)
    BY <2>1, RegistrationFields, Zenon
  <2> QED
    BY <2>1, <2>2, <2>3, Zenon
<1>b. Registration["public_ip"] \in [1..4 -> Byte]
  BY RegistrationFields, Zenon DEF Ip4
<1>c. Registration["address"] \in [1..16 -> Byte]
  BY RegistrationFields, Zenon DEF Ready
<1> QED
  BY <1>a0, <1>a1, <1>a2, <1>a3, <1>a5, <1>a6, <1>a7, <1>c, <1>b, Zenon

\* The packet that is prepared has every field, and these say what is known.
LEMMA PacketPrepared ==
  ASSUME Ready, publicIp' \in Ip4, PrepareRegistrationPacket
  PROVE  /\ IsPacket(packet')
         /\ Assigned(packet', GetNextSequence, app, storage, features, publicIp', usable[1])
<1>0. 1 \in Nat /\ 3 \in Nat /\ 4 \in Nat
  OBVIOUS
<1>1. PICK p : /\ p = packet'
               /\ \A f \in DOMAIN Header : p[f] = Header[f]
               /\ \A f \in DOMAIN Registration : p[f] = Registration[f]
               /\ \A f \in Fields \ (DOMAIN Header \cup DOMAIN Registration) :
                    p[f] = Word(0, SizeOf(f))
  BY FieldTaken, Zenon
<1>a1. Layout[1][1] = "signature" /\ Layout[1][2] = 4
  BY Named
<1>b1. p["signature"] = Header["signature"]
  <2>1. "signature" \in DOMAIN Header
    BY HeaderFields, Zenon
  <2> QED
    BY <1>1, <2>1, Zenon
<1>c1. p[Layout[1][1]] \in [1..Layout[1][2] -> Byte]
  BY <1>a1, <1>b1, HeaderReady, Zenon
<1>a2. Layout[2][1] = "sequence" /\ Layout[2][2] = 2
  BY Named
<1>b2. p["sequence"] = Header["sequence"]
  <2>1. "sequence" \in DOMAIN Header
    BY HeaderFields, Zenon
  <2> QED
    BY <1>1, <2>1, Zenon
<1>c2. p[Layout[2][1]] \in [1..Layout[2][2] -> Byte]
  BY <1>a2, <1>b2, HeaderReady, Zenon
<1>d2. p[Layout[2][1]] = Word(GetNextSequence, 2)
  BY <1>a2, <1>b2, HeaderReady, Zenon
<1>a3. Layout[3][1] = "packet_type" /\ Layout[3][2] = 1
  BY Named
<1>b3. p["packet_type"] = Header["packet_type"]
  <2>1. "packet_type" \in DOMAIN Header
    BY HeaderFields, Zenon
  <2> QED
    BY <1>1, <2>1, Zenon
<1>c3. p[Layout[3][1]] \in [1..Layout[3][2] -> Byte]
  BY <1>a3, <1>b3, HeaderReady, Zenon
<1>d3. p[Layout[3][1]] = Word(4, 1)
  BY <1>a3, <1>b3, HeaderReady, Zenon
<1>a4. Layout[4][1] = "retry_count" /\ Layout[4][2] = 1
  BY Named
<1>b4. p["retry_count"] = Header["retry_count"]
  <2>1. "retry_count" \in DOMAIN Header
    BY HeaderFields, Zenon
  <2> QED
    BY <1>1, <2>1, Zenon
<1>c4. p[Layout[4][1]] \in [1..Layout[4][2] -> Byte]
  BY <1>a4, <1>b4, HeaderReady, Zenon
<1>a5. Layout[5][1] = "length" /\ Layout[5][2] = 2
  BY Named
<1>b5. p["length"] = Header["length"]
  <2>1. "length" \in DOMAIN Header
    BY HeaderFields, Zenon
  <2> QED
    BY <1>1, <2>1, Zenon
<1>c5. p[Layout[5][1]] \in [1..Layout[5][2] -> Byte]
  BY <1>a5, <1>b5, HeaderReady, Zenon
<1>d5. p[Layout[5][1]] = Word(RegistrationSize, 2)
  BY <1>a5, <1>b5, HeaderReady, Zenon
<1>a6. Layout[6][1] = "version" /\ Layout[6][2] = 1
  BY Named
<1>b6. p["version"] = Header["version"]
  <2>1. "version" \in DOMAIN Header
    BY HeaderFields, Zenon
  <2> QED
    BY <1>1, <2>1, Zenon
<1>c6. p[Layout[6][1]] \in [1..Layout[6][2] -> Byte]
  BY <1>a6, <1>b6, HeaderReady, Zenon
<1>d6. p[Layout[6][1]] = Word(100, 1)
  BY <1>a6, <1>b6, HeaderReady, Zenon
<1>a7. Layout[7][1] = "packet_id" /\ Layout[7][2] = 1
  BY Named
<1>b7. p["packet_id"] = Header["packet_id"]
  <2>1. "packet_id" \in DOMAIN Header
    BY HeaderFields, Zenon
  <2> QED
    BY <1>1, <2>1, Zenon
<1>c7. p[Layout[7][1]] \in [1..Layout[7][2] -> Byte]
  BY <1>a7, <1>b7, HeaderReady, Zenon
<1>a8. Layout[8][1] = "node_type" /\ Layout[8][2] = 1
  BY Named
<1>b8. p["node_type"] = Header["node_type"]
  <2>1. "node_type" \in DOMAIN Header
    BY HeaderFields, Zenon
  <2> QED
    BY <1>1, <2>1, Zenon
<1>c8. p[Layout[8][1]] \in [1..Layout[8][2] -> Byte]
  BY <1>a8, <1>b8, HeaderReady, Zenon
<1>a9. Layout[9][1] = "node_id" /\ Layout[9][2] = 2
  BY Named
<1>b9. p["node_id"] = Header["node_id"]
  <2>1. "node_id" \in DOMAIN Header
    BY HeaderFields, Zenon
  <2> QED
    BY <1>1, <2>1, Zenon
<1>c9. p[Layout[9][1]] \in [1..Layout[9][2] -> Byte]
  BY <1>a9, <1>b9, HeaderReady, Zenon
<1>d9. p[Layout[9][1]] = Word(1, 2)
  BY <1>a9, <1>b9, HeaderReady, Zenon
<1>a10. Layout[10][1] = "reserved" /\ Layout[10][2] = 1
  BY Named
<1>c10. p[Layout[10][1]] \in [1..Layout[10][2] -> Byte]
  <2>1. "reserved" \in Fields \ (DOMAIN Header \cup DOMAIN Registration)
    BY Sources, Zenon
  <2>2. p["reserved"] = Word(0, SizeOf("reserved"))
    BY <1>1, <2>1, Zenon
  <2>3. SizeOf("reserved") = 1
    <3>1. 10 \in 1..23
      OBVIOUS
    <3> QED
      BY <1>a10, <3>1, PlaceOf, Zenon
  <2>4. Word(0, 1) \in [1..1 -> Byte]
    <3>1. 0 \in Nat
      OBVIOUS
    <3> QED
      BY <1>0, <3>1, WordType, Zenon
  <2> QED
    BY <1>a10, <2>2, <2>3, <2>4, Zenon
<1>a11. Layout[11][1] = "reserved2" /\ Layout[11][2] = 4
  BY Named
<1>c11. p[Layout[11][1]] \in [1..Layout[11][2] -> Byte]
  <2>1. "reserved2" \in Fields \ (DOMAIN Header \cup DOMAIN Registration)
    BY Sources, Zenon
  <2>2. p["reserved2"] = Word(0, SizeOf("reserved2"))
    BY <1>1, <2>1, Zenon
  <2>3. SizeOf("reserved2") = 4
    <3>1. 11 \in 1..23
      OBVIOUS
    <3> QED
      BY <1>a11, <3>1, PlaceOf, Zenon
  <2>4. Word(0, 4) \in [1..4 -> Byte]
    <3>1. 0 \in Nat
      OBVIOUS
    <3> QED
      BY <1>0, <3>1, WordType, Zenon
  <2> QED
    BY <1>a11, <2>2, <2>3, <2>4, Zenon
<1>a12. Layout[12][1] = "app_version" /\ Layout[12][2] = 2
  BY Named
<1>b12. p["app_version"] = Registration["app_version"]
  <2>1. "app_version" \in DOMAIN Registration
    BY RegistrationFields, Zenon
  <2> QED
    BY <1>1, <2>1, Zenon
<1>c12. p[Layout[12][1]] \in [1..Layout[12][2] -> Byte]
  BY <1>a12, <1>b12, RegistrationReady, Zenon
<1>d12. p[Layout[12][1]] = Word(app.version, 2)
  BY <1>a12, <1>b12, RegistrationReady, Zenon
<1>a13. Layout[13][1] = "app_type" /\ Layout[13][2] = 1
  BY Named
<1>b13. p["app_type"] = Registration["app_type"]
  <2>1. "app_type" \in DOMAIN Registration
    BY RegistrationFields, Zenon
  <2> QED
    BY <1>1, <2>1, Zenon
<1>c13. p[Layout[13][1]] \in [1..Layout[13][2] -> Byte]
  BY <1>a13, <1>b13, RegistrationReady, Zenon
<1>d13. p[Layout[13][1]] = Word(app.type, 1)
  BY <1>a13, <1>b13, RegistrationReady, Zenon
<1>a14. Layout[14][1] = "reserved1" /\ Layout[14][2] = 1
  BY Named
<1>c14. p[Layout[14][1]] \in [1..Layout[14][2] -> Byte]
  <2>1. "reserved1" \in Fields \ (DOMAIN Header \cup DOMAIN Registration)
    BY Sources, Zenon
  <2>2. p["reserved1"] = Word(0, SizeOf("reserved1"))
    BY <1>1, <2>1, Zenon
  <2>3. SizeOf("reserved1") = 1
    <3>1. 14 \in 1..23
      OBVIOUS
    <3> QED
      BY <1>a14, <3>1, PlaceOf, Zenon
  <2>4. Word(0, 1) \in [1..1 -> Byte]
    <3>1. 0 \in Nat
      OBVIOUS
    <3> QED
      BY <1>0, <3>1, WordType, Zenon
  <2> QED
    BY <1>a14, <2>2, <2>3, <2>4, Zenon
<1>a15. Layout[15][1] = "public_ip" /\ Layout[15][2] = 4
  BY Named
<1>b15. p["public_ip"] = Registration["public_ip"]
  <2>1. "public_ip" \in DOMAIN Registration
    BY RegistrationFields, Zenon
  <2> QED
    BY <1>1, <2>1, Zenon
<1>c15. p[Layout[15][1]] \in [1..Layout[15][2] -> Byte]
  BY <1>a15, <1>b15, RegistrationReady, Zenon
<1>d15. p[Layout[15][1]] = publicIp'
  BY <1>a15, <1>b15, RegistrationFields, Zenon
<1>a16. Layout[16][1] = "feature_bits" /\ Layout[16][2] = 4
  BY Named
<1>b16. p["feature_bits"] = Registration["feature_bits"]
  <2>1. "feature_bits" \in DOMAIN Registration
    BY RegistrationFields, Zenon
  <2> QED
    BY <1>1, <2>1, Zenon
<1>c16. p[Layout[16][1]] \in [1..Layout[16][2] -> Byte]
  BY <1>a16, <1>b16, RegistrationReady, Zenon
<1>d16. p[Layout[16][1]] = Word(features, 4)
  BY <1>a16, <1>b16, RegistrationReady, Zenon
<1>a17. Layout[17][1] = "storage_size" /\ Layout[17][2] = 8
  BY Named
<1>b17. p["storage_size"] = Registration["storage_size"]
  <2>1. "storage_size" \in DOMAIN Registration
    BY RegistrationFields, Zenon
  <2> QED
    BY <1>1, <2>1, Zenon
<1>c17. p[Layout[17][1]] \in [1..Layout[17][2] -> Byte]
  BY <1>a17, <1>b17, RegistrationReady, Zenon
<1>d17. p[Layout[17][1]] = Word(storage, 8)
  BY <1>a17, <1>b17, RegistrationReady, Zenon
<1>a18. Layout[18][1] = "total_interfaces" /\ Layout[18][2] = 1
  BY Named
<1>b18. p["total_interfaces"] = Registration["total_interfaces"]
  <2>1. "total_interfaces" \in DOMAIN Registration
    BY RegistrationFields, Zenon
  <2> QED
    BY <1>1, <2>1, Zenon
<1>c18. p[Layout[18][1]] \in [1..Layout[18][2] -> Byte]
  BY <1>a18, <1>b18, RegistrationReady, Zenon
<1>d18. p[Layout[18][1]] = Word(1, 1)
  BY <1>a18, <1>b18, RegistrationReady, Zenon
<1>a19. Layout[19][1] = "reserved3" /\ Layout[19][2] = 3
  BY Named
<1>c19. p[Layout[19][1]] \in [1..Layout[19][2] -> Byte]
  <2>1. "reserved3" \in Fields \ (DOMAIN Header \cup DOMAIN Registration)
    BY Sources, Zenon
  <2>2. p["reserved3"] = Word(0, SizeOf("reserved3"))
    BY <1>1, <2>1, Zenon
  <2>3. SizeOf("reserved3") = 3
    <3>1. 19 \in 1..23
      OBVIOUS
    <3> QED
      BY <1>a19, <3>1, PlaceOf, Zenon
  <2>4. Word(0, 3) \in [1..3 -> Byte]
    <3>1. 0 \in Nat
      OBVIOUS
    <3> QED
      BY <1>0, <3>1, WordType, Zenon
  <2> QED
    BY <1>a19, <2>2, <2>3, <2>4, Zenon
<1>a20. Layout[20][1] = "type" /\ Layout[20][2] = 1
  BY Named
<1>b20. p["type"] = Registration["type"]
  <2>1. "type" \in DOMAIN Registration
    BY RegistrationFields, Zenon
  <2> QED
    BY <1>1, <2>1, Zenon
<1>c20. p[Layout[20][1]] \in [1..Layout[20][2] -> Byte]
  BY <1>a20, <1>b20, RegistrationReady, Zenon
<1>d20. p[Layout[20][1]] = Word(1, 1)
  BY <1>a20, <1>b20, RegistrationReady, Zenon
<1>a21. Layout[21][1] = "reserved4" /\ Layout[21][2] = 3
  BY Named
<1>c21. p[Layout[21][1]] \in [1..Layout[21][2] -> Byte]
  <2>1. "reserved4" \in Fields \ (DOMAIN Header \cup DOMAIN Registration)
    BY Sources, Zenon
  <2>2. p["reserved4"] = Word(0, SizeOf("reserved4"))
    BY <1>1, <2>1, Zenon
  <2>3. SizeOf("reserved4") = 3
    <3>1. 21 \in 1..23
      OBVIOUS
    <3> QED
      BY <1>a21, <3>1, PlaceOf, Zenon
  <2>4. Word(0, 3) \in [1..3 -> Byte]
    <3>1. 0 \in Nat
      OBVIOUS
    <3> QED
      BY <1>0, <3>1, WordType, Zenon
  <2> QED
    BY <1>a21, <2>2, <2>3, <2>4, Zenon
<1>a22. Layout[22][1] = "cap_bits" /\ Layout[22][2] = 4
  BY Named
<1>b22. p["cap_bits"] = Registration["cap_bits"]
  <2>1. "cap_bits" \in DOMAIN Registration
    BY RegistrationFields, Zenon
  <2> QED
    BY <1>1, <2>1, Zenon
<1>c22. p[Layout[22][1]] \in [1..Layout[22][2] -> Byte]
  BY <1>a22, <1>b22, RegistrationReady, Zenon
<1>d22. p[Layout[22][1]] = Word(Capabilities, 4)
  BY <1>a22, <1>b22, RegistrationReady, Zenon
<1>a23. Layout[23][1] = "address" /\ Layout[23][2] = 16
  BY Named
<1>b23. p["address"] = Registration["address"]
  <2>1. "address" \in DOMAIN Registration
    BY RegistrationFields, Zenon
  <2> QED
    BY <1>1, <2>1, Zenon
<1>c23. p[Layout[23][1]] \in [1..Layout[23][2] -> Byte]
  BY <1>a23, <1>b23, RegistrationReady, Zenon
<1>d23. p[Layout[23][1]] = usable[1]
  BY <1>a23, <1>b23, RegistrationFields, Zenon
<1>2. IsPacket(p)
  <2> SUFFICES ASSUME NEW i \in 1..23 PROVE p[Layout[i][1]] \in [1..Layout[i][2] -> Byte]
    BY Zenon DEF IsPacket
  <2>1. \/ i = 1 \/ i = 2 \/ i = 3 \/ i = 4 \/ i = 5 \/ i = 6 \/ i = 7 \/ i = 8 \/ i = 9 \/ i = 10 \/ i = 11 \/ i = 12
        \/ i = 13 \/ i = 14 \/ i = 15 \/ i = 16 \/ i = 17 \/ i = 18 \/ i = 19 \/ i = 20 \/ i = 21 \/ i = 22 \/ i = 23
    OBVIOUS
  <2> QED
    BY <2>1, <1>c1, <1>c2, <1>c3, <1>c4, <1>c5, <1>c6, <1>c7, <1>c8, <1>c9, <1>c10,
       <1>c11, <1>c12, <1>c13, <1>c14, <1>c15, <1>c16, <1>c17, <1>c18, <1>c19, <1>c20,
       <1>c21, <1>c22, <1>c23, Zenon
<1>3. Assigned(p, GetNextSequence, app, storage, features, publicIp', usable[1])
  BY <1>d2, <1>d3, <1>d5, <1>d6, <1>d9, <1>d12, <1>d13, <1>d15, <1>d16, <1>d17, <1>d18,
     <1>d20, <1>d22, <1>d23, Zenon DEF Assigned
<1> QED
  BY <1>1, <1>2, <1>3, Zenon

LEMMA SmallNumbers ==
  /\ 1 \in Byte /\ 4 \in Byte /\ 100 \in Byte /\ 1 \in U16 /\ RegistrationSize \in U16
  /\ \A n \in Byte : n \in U16
<1>1. 1 \in Byte /\ 4 \in Byte /\ 100 \in Byte
  BY SMT DEF Byte
<1>2. 1 \in U16
  BY InU16
<1>3. RegistrationSize \in U16
  BY InU16 DEF RegistrationSize
<1>4. \A n \in Byte : n \in U16
  BY InU16 DEF Byte
<1> QED
  BY <1>1, <1>2, <1>3, <1>4, Zenon

LEMMA SmallValues ==
  ASSUME NEW n \in U16
  PROVE  /\ Value(Word(n, 2)) = n /\ Value(Word(n, 4)) = n /\ Value(Word(n, 8)) = n
         /\ n \in Byte => Value(Word(n, 1)) = n
<1>1. n \in Nat /\ n <= 65535 /\ n < Weight[4] /\ (n \in Byte => n <= 255)
  BY InU16 DEF Byte, Weight
<1> QED
  BY <1>1, WordValue

\* What anyone reads in what is sent of such a packet.
Carries(b, s, a, rate, bits, ip, address) ==
  /\ Len(b) = RegistrationSize
  /\ Value(FieldOf(b, "length")) = RegistrationSize
  /\ Value(FieldOf(b, "version")) = 100
  /\ Value(FieldOf(b, "packet_type")) = 4
  /\ Value(FieldOf(b, "node_id")) = 1
  /\ Value(FieldOf(b, "sequence")) = s
  /\ Value(FieldOf(b, "app_type")) = a.type
  /\ Value(FieldOf(b, "app_version")) = a.version
  /\ Value(FieldOf(b, "storage_size")) = rate
  /\ Value(FieldOf(b, "feature_bits")) = bits
  /\ Value(FieldOf(b, "total_interfaces")) = 1
  /\ Value(FieldOf(b, "type")) = 1
  /\ Value(FieldOf(b, "cap_bits")) = Capabilities
  /\ FieldOf(b, "public_ip") = ip /\ FieldOf(b, "address") = address

LEMMA PacketRead ==
  ASSUME NEW p, IsPacket(p), NEW s \in U16, NEW a, a.type \in Byte, a.version \in U16,
         NEW rate \in U16, NEW bits \in U16, NEW ip, NEW address,
         Assigned(p, s, a, rate, bits, ip, address)
  PROVE  Carries(Sent(p), s, a, rate, bits, ip, address)
<1>1. p.length = Word(RegistrationSize, 2)
  <2>1. Layout[5][1] = "length"
    BY Named
  <2>2. p[Layout[5][1]] = Word(RegistrationSize, 2)
    BY Zenon DEF Assigned
  <2> QED
    BY <2>1, <2>2, Zenon
<1>2. PICK b : /\ b = Sent(p) /\ Len(b) = RegistrationSize
               /\ \A k \in 1..23 : FieldOf(b, Layout[k][1]) = p[Layout[k][1]]
  BY <1>1, SentIs, Zenon
<1>a5. FieldOf(b, "length") = Word(RegistrationSize, 2)
  <2>1. Layout[5][1] = "length" /\ 5 \in 1..23
    BY Named
  <2>2. p[Layout[5][1]] = Word(RegistrationSize, 2)
    BY Zenon DEF Assigned
  <2> QED
    BY <1>2, <2>1, <2>2, Zenon
<1>b5. Value(FieldOf(b, "length")) = RegistrationSize
  <2>1. RegistrationSize \in U16
    BY SmallNumbers
  <2> QED
    BY <1>a5, <2>1, SmallValues, Zenon
<1>a6. FieldOf(b, "version") = Word(100, 1)
  <2>1. Layout[6][1] = "version" /\ 6 \in 1..23
    BY Named
  <2>2. p[Layout[6][1]] = Word(100, 1)
    BY Zenon DEF Assigned
  <2> QED
    BY <1>2, <2>1, <2>2, Zenon
<1>b6. Value(FieldOf(b, "version")) = 100
  <2>1. 100 \in U16 /\ 100 \in Byte
    BY SmallNumbers
  <2> QED
    BY <1>a6, <2>1, SmallValues, Zenon
<1>a3. FieldOf(b, "packet_type") = Word(4, 1)
  <2>1. Layout[3][1] = "packet_type" /\ 3 \in 1..23
    BY Named
  <2>2. p[Layout[3][1]] = Word(4, 1)
    BY Zenon DEF Assigned
  <2> QED
    BY <1>2, <2>1, <2>2, Zenon
<1>b3. Value(FieldOf(b, "packet_type")) = 4
  <2>1. 4 \in U16 /\ 4 \in Byte
    BY SmallNumbers
  <2> QED
    BY <1>a3, <2>1, SmallValues, Zenon
<1>a9. FieldOf(b, "node_id") = Word(1, 2)
  <2>1. Layout[9][1] = "node_id" /\ 9 \in 1..23
    BY Named
  <2>2. p[Layout[9][1]] = Word(1, 2)
    BY Zenon DEF Assigned
  <2> QED
    BY <1>2, <2>1, <2>2, Zenon
<1>b9. Value(FieldOf(b, "node_id")) = 1
  <2>1. 1 \in U16
    BY SmallNumbers
  <2> QED
    BY <1>a9, <2>1, SmallValues, Zenon
<1>a2. FieldOf(b, "sequence") = Word(s, 2)
  <2>1. Layout[2][1] = "sequence" /\ 2 \in 1..23
    BY Named
  <2>2. p[Layout[2][1]] = Word(s, 2)
    BY Zenon DEF Assigned
  <2> QED
    BY <1>2, <2>1, <2>2, Zenon
<1>b2. Value(FieldOf(b, "sequence")) = s
  BY <1>a2, SmallValues, Zenon
<1>a13. FieldOf(b, "app_type") = Word(a.type, 1)
  <2>1. Layout[13][1] = "app_type" /\ 13 \in 1..23
    BY Named
  <2>2. p[Layout[13][1]] = Word(a.type, 1)
    BY Zenon DEF Assigned
  <2> QED
    BY <1>2, <2>1, <2>2, Zenon
<1>b13. Value(FieldOf(b, "app_type")) = a.type
  BY <1>a13, SmallValues, SmallNumbers, Zenon
<1>a12. FieldOf(b, "app_version") = Word(a.version, 2)
  <2>1. Layout[12][1] = "app_version" /\ 12 \in 1..23
    BY Named
  <2>2. p[Layout[12][1]] = Word(a.version, 2)
    BY Zenon DEF Assigned
  <2> QED
    BY <1>2, <2>1, <2>2, Zenon
<1>b12. Value(FieldOf(b, "app_version")) = a.version
  BY <1>a12, SmallValues, Zenon
<1>a17. FieldOf(b, "storage_size") = Word(rate, 8)
  <2>1. Layout[17][1] = "storage_size" /\ 17 \in 1..23
    BY Named
  <2>2. p[Layout[17][1]] = Word(rate, 8)
    BY Zenon DEF Assigned
  <2> QED
    BY <1>2, <2>1, <2>2, Zenon
<1>b17. Value(FieldOf(b, "storage_size")) = rate
  BY <1>a17, SmallValues, Zenon
<1>a16. FieldOf(b, "feature_bits") = Word(bits, 4)
  <2>1. Layout[16][1] = "feature_bits" /\ 16 \in 1..23
    BY Named
  <2>2. p[Layout[16][1]] = Word(bits, 4)
    BY Zenon DEF Assigned
  <2> QED
    BY <1>2, <2>1, <2>2, Zenon
<1>b16. Value(FieldOf(b, "feature_bits")) = bits
  BY <1>a16, SmallValues, Zenon
<1>a18. FieldOf(b, "total_interfaces") = Word(1, 1)
  <2>1. Layout[18][1] = "total_interfaces" /\ 18 \in 1..23
    BY Named
  <2>2. p[Layout[18][1]] = Word(1, 1)
    BY Zenon DEF Assigned
  <2> QED
    BY <1>2, <2>1, <2>2, Zenon
<1>b18. Value(FieldOf(b, "total_interfaces")) = 1
  <2>1. 1 \in U16 /\ 1 \in Byte
    BY SmallNumbers
  <2> QED
    BY <1>a18, <2>1, SmallValues, Zenon
<1>a20. FieldOf(b, "type") = Word(1, 1)
  <2>1. Layout[20][1] = "type" /\ 20 \in 1..23
    BY Named
  <2>2. p[Layout[20][1]] = Word(1, 1)
    BY Zenon DEF Assigned
  <2> QED
    BY <1>2, <2>1, <2>2, Zenon
<1>b20. Value(FieldOf(b, "type")) = 1
  <2>1. 1 \in U16 /\ 1 \in Byte
    BY SmallNumbers
  <2> QED
    BY <1>a20, <2>1, SmallValues, Zenon
<1>a22. FieldOf(b, "cap_bits") = Word(Capabilities, 4)
  <2>1. Layout[22][1] = "cap_bits" /\ 22 \in 1..23
    BY Named
  <2>2. p[Layout[22][1]] = Word(Capabilities, 4)
    BY Zenon DEF Assigned
  <2> QED
    BY <1>2, <2>1, <2>2, Zenon
<1>b22. Value(FieldOf(b, "cap_bits")) = Capabilities
  <2>1. PICK n \in Nat : n = Capabilities
    BY SMT DEF Capabilities
  <2>2. n < Weight[4]
    BY <2>1, SMT DEF Capabilities, Weight
  <2>3. Value(Word(n, 4)) = n
    BY <2>2, WordValue
  <2> QED
    BY <1>a22, <2>1, <2>3, Zenon
<1>a15. FieldOf(b, "public_ip") = ip
  <2>1. Layout[15][1] = "public_ip" /\ 15 \in 1..23
    BY Named
  <2>2. p[Layout[15][1]] = ip
    BY Zenon DEF Assigned
  <2> QED
    BY <1>2, <2>1, <2>2, Zenon
<1>a23. FieldOf(b, "address") = address
  <2>1. Layout[23][1] = "address" /\ 23 \in 1..23
    BY Named
  <2>2. p[Layout[23][1]] = address
    BY Zenon DEF Assigned
  <2> QED
    BY <1>2, <2>1, <2>2, Zenon
<1> QED
  BY <1>2, <1>b5, <1>b6, <1>b3, <1>b9, <1>b2, <1>b13, <1>b12, <1>b17,
     <1>b16, <1>b18, <1>b20, <1>b22, <1>a15, <1>a23, Zenon DEF Carries

-----------------------------------------------------------------------------
(* The interface that is used.                                             *)

LEMMA UsableAddress ==
  ASSUME NEW x, IsListing(x), x.family \in {"inet", "inet6", "packet"}, IsUsable(AddressOf(x))
  PROVE  /\ x.family = "inet" /\ {"UP", "RUNNING", "MULTICAST"} \subseteq x.flags
         /\ x.addr \in Ip4 /\ IsPrivate(x.addr) /\ AddressOf(x).value = x.addr
<1>1. x.family = "inet"
  <2>1. ASSUME x.family = "inet6" PROVE FALSE
    <3>1. AddressOf(x) = Ipv6Of(x.addr)
      BY <2>1 DEF AddressOf
    <3>2. AddressOf(x).type = "Ipv6"
      BY <3>1 DEF Ipv6Of
    <3> QED
      BY <3>2 DEF IsUsable
  <2>2. ASSUME x.family = "packet" PROVE FALSE
    <3>1. AddressOf(x) = MacOf(x.addr)
      BY <2>2 DEF AddressOf
    <3>2. AddressOf(x).type = "Mac"
      BY <3>1 DEF MacOf
    <3> QED
      BY <3>2 DEF IsUsable
  <2> QED
    BY <2>1, <2>2
<1>2. AddressOf(x) = IpOf(x.addr, x.flags)
  BY <1>1 DEF AddressOf
<1>3. PICK ip \in Ip4 : ip = x.addr
  BY <1>1 DEF IsListing
<1>4. AddressOf(x).value = ip /\ AddressOf(x).active = IsActive(x.flags)
  <2>1. AddressOf(x).value = SockaddrToIpt(x.addr) /\ AddressOf(x).active = IsActive(x.flags)
    BY <1>2, SMT DEF IpOf
  <2>2. SockaddrToIpt(ip) = ip
    BY IpReadsBack, Zenon DEF SockaddrToIpt
  <2> QED
    BY <1>3, <2>1, <2>2, Zenon
<1>5. {"UP", "RUNNING", "MULTICAST"} \subseteq x.flags
  BY <1>4, Zenon DEF IsUsable, IsActive
<1>6. FindIpAddressType(ip) \in {"ClassA", "ClassB", "ClassC"}
  BY <1>4, Zenon DEF IsUsable
<1>7. ip[1] \in Byte /\ ip[2] \in Byte
  BY DEF Ip4
<1>8. IsPrivate(ip)
  <2>1. \/ ip[1] = 10
        \/ ip[1] = 172 /\ ip[2] - (ip[2] % 16) = 16
        \/ ip[1] = 192 /\ ip[2] = 168
    BY <1>6, SMT DEF FindIpAddressType
  <2>2. ip[2] - (ip[2] % 16) = 16 => ip[2] \in 16..31
    BY <1>7 DEF Byte
  <2> QED
    BY <2>1, <2>2, Zenon DEF IsPrivate
<1> QED
  BY <1>1, <1>3, <1>4, <1>5, <1>8, Zenon

\* a begins with the address of an interface that the list e has as active and
\* private.
Origin(e, a) ==
  \E x \in Range(e) :
    /\ x.family = "inet" /\ {"UP", "RUNNING", "MULTICAST"} \subseteq x.flags
    /\ IsPrivate(x.addr) /\ x.addr = SubSeq(a, 1, 4)

LEMMA AddressAndRest ==
  ASSUME NEW ip \in Ip4, NEW rest \in [1..12 -> Byte]
  PROVE  ip \o rest \in [1..16 -> Byte] /\ SubSeq(ip \o rest, 1, 4) = ip
<1>1. ip \in Seq(Byte) /\ Len(ip) = 4 /\ rest \in Seq(Byte) /\ Len(rest) = 12
  <2>1. 4 \in Nat /\ 12 \in Nat
    OBVIOUS
  <2> QED
    BY <2>1, BytesAre, Zenon DEF Ip4
<1>2. PICK a \in Seq(Byte) : a = ip \o rest /\ Len(a) = 16
  <2>1. ip \o rest \in Seq(Byte) /\ Len(ip \o rest) = Len(ip) + Len(rest)
    BY <1>1, ConcatProperties, Zenon
  <2>2. Len(ip) + Len(rest) = 16
    BY <1>1
  <2> QED
    BY <2>1, <2>2, Zenon
<1>3. a \in [1..16 -> Byte]
  <2>1. 16 \in Nat
    OBVIOUS
  <2> QED
    BY <1>2, <2>1, BytesAre, Zenon
<1>4. SubSeq(ip \o rest, 1, 4) = ip
  <2>1. 1 \in 1..Len(ip) /\ 4 \in 1..Len(ip) /\ 4 = Len(ip)
    BY <1>1
  <2>2. SubSeq(ip \o rest, 1, 4) = SubSeq(ip, 1, 4)
    BY <1>1, <2>1, SubSeqOfConcat1, Zenon
  <2>3. SubSeq(ip, 1, Len(ip)) = ip
    BY <1>1, SubSeqFull, Zenon
  <2> QED
    BY <2>1, <2>2, <2>3, Zenon
<1> QED
  BY <1>2, <1>3, <1>4, Zenon

LEMMA FirstUsable ==
  ASSUME NEW e \in Seq(Listing), \A i \in 1..Len(e) : IsListing(e[i]), NEW u, NEW map,
         map = EnumerateInterfaces(e, u), NEW first \in Nat \ {0},
         first = SelectInSeq(map, LAMBDA i : IsUsable(i.address)), NEW rest \in [1..12 -> Byte]
  PROVE  /\ map[first].address.value \o rest \in [1..16 -> Byte]
         /\ Origin(e, map[first].address.value \o rest)
<1> DEFINE n == Len(e)
           S == {EntryOf(e[i]) : i \in 1..n}
           I == {i \in 1..Len(map) : IsUsable(map[i].address)}
<1>1. map \in Seq(S) /\ Range(map) = {EntryOf(e[i]) : i \in Kept(e, u, n)}
  <2>1. Len(e) \in Nat
    OBVIOUS
  <2> QED
    BY <2>1, Enumerated, Zenon
<1>2. first = IF I # {} THEN Min(I) ELSE 0
  BY Zenon DEF SelectInSeq
<1>3. first \in I
  <2>1. Len(map) \in Nat /\ I \in SUBSET (0..Len(map))
    BY <1>1
  <2>2. I # {}
    BY <1>2
  <2> HIDE DEF I
  <2>3. Min(I) \in I
    BY <2>1, <2>2, LeastOf
  <2> QED
    BY <1>2, <2>2, <2>3, Zenon
<1>4. first \in 1..Len(map) /\ IsUsable(map[first].address)
  BY <1>3
<1>5. PICK i \in Kept(e, u, n) : map[first] = EntryOf(e[i])
  <2>1. map[first] \in Range(map)
    <3>1. DOMAIN map = 1..Len(map)
      BY <1>1
    <3> QED
      BY <3>1, <1>4, Zenon DEF Range
  <2> QED
    BY <1>1, <2>1
<1>6. PICK x \in Range(e) :
        x = e[i] /\ IsListing(x) /\ x.family \in {"inet", "inet6", "packet"}
  <2>1. i \in 1..n /\ IsKept(e, u, i)
    BY DEF Kept
  <2>2. e[i] \in Range(e)
    BY <2>1 DEF Range
  <2>3. IsListing(e[i])
    BY <2>1
  <2>4. e[i].family \in {"inet", "inet6", "packet"}
    BY <2>1 DEF IsKept
  <2> QED
    BY <2>2, <2>3, <2>4
<1>7. map[first].address = AddressOf(x)
  BY <1>5, <1>6 DEF EntryOf
<1>8. /\ x.family = "inet" /\ {"UP", "RUNNING", "MULTICAST"} \subseteq x.flags
      /\ x.addr \in Ip4 /\ IsPrivate(x.addr) /\ map[first].address.value = x.addr
  <2>1. IsUsable(AddressOf(x))
    BY <1>4, <1>7, Zenon
  <2> QED
    BY <1>6, <1>7, <2>1, UsableAddress, Zenon
<1>9. x.addr \o rest \in [1..16 -> Byte] /\ SubSeq(x.addr \o rest, 1, 4) = x.addr
  BY <1>8, AddressAndRest, Zenon
<1>10. Origin(e, x.addr \o rest)
  BY <1>8, <1>9, Zenon DEF Origin
<1> QED
  BY <1>8, <1>9, <1>10, Zenon

LEMMA GroupJoined ==
  /\ AddressToSockAddr(MulticastGroup, Port).addr = <<233, 255, 14, 7>>
  /\ ~bigEndian => AddressToSockAddr(MulticastGroup, Port).port = Word(Port, 2)
  /\ AddressToSockAddr(MulticastGroup, Port) \in [addr : Ip4, port : [1..2 -> Byte]]
<1>1. PICK g : g = AddressToSockAddr(MulticastGroup, Port)
  OBVIOUS
<1>2. g = [addr |-> MulticastGroup, port |-> Memory(Swap(Word(Port, 2)))]
  BY <1>1, Zenon DEF AddressToSockAddr
<1>3. PICK w \in [1..2 -> Byte] : w = Word(Port, 2)
  <2>1. 2 \in Nat
    OBVIOUS
  <2>2. Port \in Nat
    BY SMT DEF Port
  <2> QED
    BY <2>1, <2>2, WordType, Zenon
<1>4. Memory(Swap(w)) \in [1..2 -> Byte] /\ (~bigEndian => Memory(Swap(w)) = w)
  <2>1. 2 \in Nat
    OBVIOUS
  <2> QED
    BY <2>1, ReverseTwice, Zenon DEF Memory, Swap
<1>5. MulticastGroup \in Ip4
  <2>1. PICK m : m = <<233, 255, 14, 7>>
    OBVIOUS
  <2>2. m \in Ip4
    BY <2>1 DEF Ip4, Byte
  <2> QED
    BY <2>1, <2>2, GroupAddress
<1>6. g.addr = MulticastGroup /\ g.port = Memory(Swap(w))
  BY <1>2, <1>3
<1>7. g \in [addr : Ip4, port : [1..2 -> Byte]]
  <2>1. PICK q \in [1..2 -> Byte] : q = Memory(Swap(w))
    BY <1>4
  <2>2. g = [addr |-> MulticastGroup, port |-> q]
    BY <1>2, <1>3, <2>1, Zenon
  <2> QED
    BY <1>5, <2>2
<1> QED
  BY <1>1, <1>3, <1>4, <1>6, <1>7, GroupAddress

-----------------------------------------------------------------------------
(* The node and what it sends.                                             *)

GroupKnown == group.addr = <<233, 255, 14, 7>> /\ (~bigEndian => group.port = Word(Port, 2))

\* A node that uses an interface has been initialized: it is node 1, its group
\* is that of the protocol, and the address is one that was listed.
UsableKnown == usable # <<>> => nodeId = 1 /\ GroupKnown /\ Origin(listed, usable[1])

WKnown == WTypeOK /\ UsableKnown /\ ReadableByAll /\ AdvertisesActive

LEMMA SizeType ==
  ASSUME NEW f \in Fields
  PROVE  SizeOf(f) \in Nat /\ \E i \in 1..23 : f = Layout[i][1] /\ SizeOf(f) = Layout[i][2]
<1>1. PICK i \in 1..23 : f = Layout[i][1]
  BY LayoutIs, Zenon DEF Fields
<1>2. SizeOf(f) = Layout[i][2]
  BY <1>1, PlaceOf, Zenon
<1>3. Layout[i][2] \in Nat
  BY LayoutIs
<1> QED
  BY <1>1, <1>2, <1>3, Zenon

LEMMA PacketTyped ==
  ASSUME NEW p, IsPacket(p)
  PROVE  \A f \in Fields : p[f] \in [1..SizeOf(f) -> Byte]
<1> SUFFICES ASSUME NEW f \in Fields PROVE p[f] \in [1..SizeOf(f) -> Byte]
  OBVIOUS
<1>1. PICK i \in 1..23 : f = Layout[i][1] /\ SizeOf(f) = Layout[i][2]
  BY SizeType, Zenon
<1> QED
  BY <1>1, Zenon DEF IsPacket

LEMMA WireInit ==
  ASSUME WInit
  PROVE  WKnown
<1>1. bigEndian \in BOOLEAN /\ app \in Apps /\ features \in Features /\ nodeId \in {0, 1}
  BY DEF WInit
<1>2. sequence \in U16 /\ storage \in {0} \cup Drives
  BY WireAssumption, Zenon DEF WInit
<1>3. 0 \in Nat /\ 2 \in Nat /\ 4 \in Nat
  OBVIOUS
<1>4. publicIp \in Ip4
  BY <1>3, WordType, Zenon DEF WInit, Ip4
<1>5. listed \in Enumerations \cup {<<>>} /\ Len(interfaces) <= Len(listed)
  BY DEF WInit
<1>6. group \in [addr : Ip4, port : [1..2 -> Byte]]
  <2>1. Word(0, 4) \in Ip4 /\ Word(0, 2) \in [1..2 -> Byte]
    BY <1>3, WordType, Zenon DEF Ip4
  <2> QED
    BY <2>1 DEF WInit
<1>7. Len(usable) <= 1 /\ usable \in Seq([1..16 -> Byte])
  BY DEF WInit
<1>8. DOMAIN packet = Fields /\ \A f \in Fields : packet[f] \in [1..SizeOf(f) -> Byte]
  <2>1. \A f \in Fields : Word(0, SizeOf(f)) \in [1..SizeOf(f) -> Byte]
    BY <1>3, SizeType, WordType, Zenon
  <2> QED
    BY <2>1, Zenon DEF WInit, Zeros
<1>9. datagram = <<>> /\ Len(datagram) <= MaxPacketSize
  BY DEF WInit, MaxPacketSize
<1>10. prepared \in 0..MaxPackets
  BY WireAssumption DEF WInit
<1>11. WTypeOK
  BY <1>1, <1>2, <1>4, <1>5, <1>6, <1>7, <1>8, <1>9, <1>10, Zenon DEF WTypeOK
<1>12. UsableKnown /\ ReadableByAll /\ AdvertisesActive
  BY <1>9, Zenon DEF WInit, UsableKnown, ReadableByAll, AdvertisesActive
<1> QED
  BY <1>11, <1>12 DEF WKnown

\* What is enumerated is typed.
LEMMA EnumerationType ==
  ASSUME NEW e \in Enumerations
  PROVE  e \in Seq(Listing) /\ \A i \in 1..Len(e) : IsListing(e[i])
BY WireAssumption, Zenon

LEMMA WireInitialize ==
  ASSUME WKnown, NEW e \in Enumerations, NEW u \in Unnamed, NEW d \in Drives, NEW rest \in Garbage,
         Initialize(e, u, d, rest)
  PROVE  WKnown'
<1> DEFINE map   == EnumerateInterfaces(e, u)
           first == SelectInSeq(map, LAMBDA i : IsUsable(i.address))
           a     == map[first].address.value \o rest
<1>1. /\ nodeId' = 1 /\ storage' = d /\ listed' = e /\ interfaces' = map
      /\ usable' = IF first = 0 THEN <<>> ELSE <<a>>
      /\ group' = IF first = 0 THEN group ELSE AddressToSockAddr(MulticastGroup, Port)
      /\ UNCHANGED <<node, sequence, publicIp, packet, datagram, meant, prepared>>
  BY Zenon DEF Initialize
<1> HIDE DEF a
<1>2. e \in Seq(Listing) /\ \A i \in 1..Len(e) : IsListing(e[i])
  BY EnumerationType
<1>3. rest \in [1..12 -> Byte]
  BY WireAssumption, Zenon
<1>4. map \in Seq({EntryOf(e[i]) : i \in 1..Len(e)}) /\ Len(map) <= Len(e)
  <2>1. Len(e) \in Nat
    BY <1>2
  <2> QED
    BY <2>1, Enumerated, Zenon
<1>5. first = 0 \/ first \in Nat \ {0}
  <2> DEFINE I == {i \in 1..Len(map) : IsUsable(map[i].address)}
  <2>1. first = IF I # {} THEN Min(I) ELSE 0
    BY Zenon DEF SelectInSeq
  <2>2. Len(map) \in Nat /\ I \in SUBSET (0..Len(map)) /\ 0 \notin I /\ I \subseteq Nat
    <3> HIDE DEF map
    <3> QED
      BY <1>4
  <2> HIDE DEF first, I
  <2>3. I # {} => Min(I) \in I
    BY <2>2, LeastOf
  <2> QED
    BY <2>1, <2>2, <2>3
<1>6. first # 0 => a \in [1..16 -> Byte] /\ Origin(e, a)
  <2> SUFFICES ASSUME first # 0 PROVE a \in [1..16 -> Byte] /\ Origin(e, a)
    OBVIOUS
  <2>1. first \in Nat \ {0}
    BY <1>5
  <2> QED
    BY <1>2, <1>3, <2>1, FirstUsable, Zenon DEF a
<1> HIDE DEF map, first
<1>7. bigEndian' = bigEndian /\ app' = app /\ features' = features /\ datagram' = datagram
      /\ meant' = meant /\ packet' = packet /\ prepared' = prepared /\ sequence' = sequence
      /\ publicIp' = publicIp
  BY <1>1, Zenon DEF node
<1>8. Len(usable') <= 1 /\ usable' \in Seq([1..16 -> Byte])
  <2>1. CASE first = 0
    BY <1>1, <2>1
  <2>2. CASE first # 0
    <3>1. PICK B : B = [1..16 -> Byte]
      OBVIOUS
    <3>2. a \in B
      BY <1>6, <2>2, <3>1, Zenon
    <3>3. usable' = <<a>>
      BY <1>1, <2>2, Zenon
    <3>4. <<a>> \in Seq(B) /\ Len(<<a>>) = 1
      BY <3>2
    <3>5. usable' \in Seq(B) /\ Len(usable') = 1
      BY <3>3, <3>4, Zenon
    <3> QED
      BY <3>1, <3>5
  <2> QED
    BY <2>1, <2>2
<1>9. group' \in [addr : Ip4, port : [1..2 -> Byte]]
  BY <1>1, GroupJoined, Zenon DEF WKnown, WTypeOK
<1>10. first # 0 => GroupKnown'
  <2> SUFFICES ASSUME first # 0 PROVE GroupKnown'
    OBVIOUS
  <2>1. group' = AddressToSockAddr(MulticastGroup, Port)
    BY <1>1, Zenon
  <2> QED
    BY <1>7, <2>1, GroupJoined, Zenon DEF GroupKnown
<1>11. WTypeOK'
  <2>1. /\ bigEndian' \in BOOLEAN /\ app' \in Apps /\ features' \in Features
        /\ sequence' \in U16 /\ publicIp' \in Ip4 /\ DOMAIN packet' = Fields
        /\ \A f \in Fields : packet'[f] \in [1..SizeOf(f) -> Byte]
        /\ Len(datagram') <= MaxPacketSize /\ prepared' \in 0..MaxPackets
    BY <1>7, Zenon DEF WKnown, WTypeOK
  <2>2. nodeId' \in {0, 1} /\ storage' \in {0} \cup Drives
    BY <1>1, Zenon
  <2>3. listed' \in Enumerations \cup {<<>>} /\ Len(interfaces') <= Len(listed')
    BY <1>1, <1>4, Zenon
  <2> QED
    BY <1>8, <1>9, <2>1, <2>2, <2>3, Zenon DEF WTypeOK
<1>12. UsableKnown'
  <2> SUFFICES ASSUME usable' # <<>> PROVE nodeId' = 1 /\ GroupKnown' /\ Origin(listed', usable'[1])
    BY Zenon DEF UsableKnown
  <2>1. first # 0
    BY <1>1, Zenon
  <2>2. usable'[1] = a
    <3>1. usable' = <<a>>
      BY <1>1, <2>1, Zenon
    <3> QED
      BY <3>1
  <2> QED
    BY <1>1, <1>6, <1>10, <2>1, <2>2, Zenon
<1>13. ReadableByAll'
  <2> SUFFICES ASSUME datagram # <<>> PROVE ReadableByAll'
    BY <1>7, Zenon DEF ReadableByAll
  <2>1. ReadableByAll /\ GroupKnown
    BY Zenon DEF WKnown, ReadableByAll, GroupKnown
  <2>2. GroupKnown'
    <3>1. CASE first = 0
      BY <1>1, <1>7, <2>1, <3>1, Zenon DEF GroupKnown
    <3> QED
      BY <1>10, <3>1, Zenon
  <2> QED
    BY <1>7, <2>1, <2>2, Zenon DEF ReadableByAll, GroupKnown, Read
<1>14. AdvertisesActive'
  BY <1>7, Zenon DEF WKnown, AdvertisesActive
<1> QED
  BY <1>11, <1>12, <1>13, <1>14, Zenon DEF WKnown

\* What the types say of the node that prepares a packet.
LEMMA NodeType ==
  ASSUME WTypeOK
  PROVE  /\ sequence \in U16 /\ storage \in U16 /\ features \in U16
         /\ app.type \in Byte /\ app.version \in U16
<1>1. sequence \in U16
  BY Zenon DEF WTypeOK
<1>2. features \in U16
  BY WireAssumption, Zenon DEF WTypeOK
<1>3. 0 \in U16
  BY InU16
<1>4. storage \in U16
  BY <1>3, WireAssumption, Zenon DEF WTypeOK
<1>5. PICK W : W = U16
  OBVIOUS
<1>6. app \in [type : Byte, version : W]
  BY <1>5, WireAssumption, Zenon DEF WTypeOK
<1>7. app.type \in Byte /\ app.version \in W
  BY <1>6
<1> QED
  BY <1>1, <1>2, <1>4, <1>5, <1>7, Zenon

LEMMA NodeReady ==
  ASSUME WKnown, usable # <<>>
  PROVE  Ready
<1>1. PICK B : B = [1..16 -> Byte]
  OBVIOUS
<1>2. usable \in Seq(B) /\ Len(usable) <= 1
  BY <1>1, Zenon DEF WKnown, WTypeOK
<1>3. Len(usable) = 1 /\ usable[1] \in B
  <2>1. PICK q \in Seq(B) : q = usable
    BY <1>2
  <2>2. q # <<>> /\ Len(q) <= 1
    BY <1>2, <2>1, Zenon
  <2>3. Len(q) \in Nat \ {0}
    BY <2>2, EmptySeq
  <2>4. Len(q) = 1 /\ q[1] \in B
    <3>1. Len(q) = 1
      BY <2>2, <2>3
    <3>2. 1 \in 1..Len(q)
      BY <3>1
    <3> QED
      BY <3>1, <3>2, ElementOfSeq, Zenon
  <2> QED
    BY <2>1, <2>4, Zenon
<1>4. nodeId = 1
  BY Zenon DEF WKnown, UsableKnown
<1>5. \A n \in U16 : n \in Nat
  BY InU16
<1>6. \A n \in Byte : n \in Nat
  BY DEF Byte
<1>7. WTypeOK
  BY DEF WKnown
<1> QED
  BY <1>1, <1>3, <1>4, <1>5, <1>6, <1>7, NodeType, Zenon DEF Ready

LEMMA NextOfSequence ==
  ASSUME NEW n \in Nat
  PROVE  (n + 1) % 65536 \in U16
<1>1. PICK m \in Nat \ {0} : m = 65536
  BY SMT
<1>2. PICK k \in Nat : k = n + 1
  BY SMT
<1>3. k % m \in Int /\ 0 <= k % m /\ k % m < m
  BY SMT
<1>4. PICK r : r = k % m
  OBVIOUS
<1>5. k % m \in U16
  BY <1>1, <1>3, <1>4, InU16
<1> QED
  BY <1>1, <1>2, <1>5, SMT

\* The new packet, and what stays as it was.
LEMMA Preparing ==
  ASSUME WKnown, PrepareRegistrationPacket, publicIp' \in Ip4
  PROVE  /\ IsPacket(packet') /\ DOMAIN packet' = Fields /\ sequence' \in U16
         /\ Assigned(packet', sequence', app, storage, features, publicIp', usable[1])
         /\ prepared' \in 0..MaxPackets
         /\ UNCHANGED <<node, nodeId, storage, links>>
<1>1. Ready
  BY NodeReady, Zenon DEF PrepareRegistrationPacket
<1>2. sequence' = GetNextSequence
  BY Zenon DEF PrepareRegistrationPacket
<1>3. sequence' \in U16
  <2>1. sequence \in Nat
    BY <1>1 DEF Ready
  <2> QED
    <3>1. PICK n \in Nat : n = sequence
      BY <2>1
    <3>2. PICK v \in U16 : v = (n + 1) % 65536
      BY NextOfSequence, SMT
    <3>3. GetNextSequence = v
      BY <3>1, <3>2, SMT DEF GetNextSequence
    <3> QED
      BY <1>2, <3>3, Zenon
<1>4. prepared' \in 0..MaxPackets
  <2>1. prepared' = prepared + 1 /\ prepared < MaxPackets
    BY Zenon DEF PrepareRegistrationPacket
  <2>2. prepared \in 0..MaxPackets /\ MaxPackets \in Nat
    BY WireAssumption, Zenon DEF WKnown, WTypeOK
  <2> QED
    BY <2>1, <2>2
<1>5. UNCHANGED <<node, nodeId, storage, links>>
  BY Zenon DEF PrepareRegistrationPacket
<1>6. DOMAIN packet' = Fields
  BY FieldTaken
<1> QED
  BY <1>1, <1>2, <1>3, <1>4, <1>5, <1>6, PacketPrepared, Zenon

\* The types after a step that prepares a packet.
LEMMA PreparedTypes ==
  ASSUME WKnown, PrepareRegistrationPacket, publicIp' \in Ip4, Len(datagram') <= MaxPacketSize
  PROVE  WTypeOK' /\ UsableKnown'
<1>1. /\ IsPacket(packet') /\ DOMAIN packet' = Fields /\ sequence' \in U16
      /\ prepared' \in 0..MaxPackets /\ UNCHANGED <<node, nodeId, storage, links>>
  BY Preparing, Zenon
<1>2. \A f \in Fields : packet'[f] \in [1..SizeOf(f) -> Byte]
  <2>1. PICK p : p = packet'
    OBVIOUS
  <2> QED
    BY <1>1, <2>1, PacketTyped, Zenon
<1>3. /\ bigEndian' = bigEndian /\ app' = app /\ features' = features /\ nodeId' = nodeId
      /\ storage' = storage /\ listed' = listed /\ interfaces' = interfaces
      /\ group' = group /\ usable' = usable
  BY <1>1, Zenon DEF node, links
<1>4. WTypeOK'
  BY <1>1, <1>2, <1>3, Zenon DEF WKnown, WTypeOK
<1>5. UsableKnown'
  BY <1>3, Zenon DEF WKnown, UsableKnown, GroupKnown
<1> QED
  BY <1>4, <1>5

LEMMA WireHeartbeat ==
  ASSUME WKnown, SendHeartbeatToMcGroup
  PROVE  WKnown'
<1>1. /\ publicIp' = publicIp /\ PrepareRegistrationPacket /\ datagram' = Sent(packet')
      /\ meant' = [sequence |-> sequence', app |-> app, storage |-> storage,
                   features |-> features, publicIp |-> publicIp, found |-> listed]
  BY Zenon DEF SendHeartbeatToMcGroup
<1>2. publicIp' \in Ip4 /\ usable # <<>>
  BY <1>1, Zenon DEF WKnown, WTypeOK, PrepareRegistrationPacket
<1>3. PICK p : p = packet'
  OBVIOUS
<1>4. /\ IsPacket(p) /\ sequence' \in U16
      /\ Assigned(p, sequence', app, storage, features, publicIp, usable[1])
      /\ UNCHANGED <<node, nodeId, storage, links>>
  BY <1>1, <1>2, <1>3, Preparing, Zenon
<1>5. Carries(datagram', sequence', app, storage, features, publicIp, usable[1])
  <2>a. PICK ip, ad, t : ip = publicIp /\ ad = usable[1] /\ t = app
    OBVIOUS
  <2>1. PICK s \in U16, r \in U16, f \in U16 :
          s = sequence' /\ r = storage /\ f = features
    <3>1. WTypeOK
      BY DEF WKnown
    <3> QED
      BY <1>4, <3>1, NodeType, Zenon
  <2>2. t.type \in Byte /\ t.version \in U16
    BY <2>a, NodeType, Zenon DEF WKnown
  <2>3. Assigned(p, s, t, r, f, ip, ad)
    BY <1>4, <2>a, <2>1, Zenon
  <2>4. Carries(Sent(p), s, t, r, f, ip, ad)
    BY <1>4, <2>2, <2>3, PacketRead, Zenon
  <2> QED
    BY <1>1, <1>3, <2>a, <2>1, <2>4, Zenon
<1>6. PICK b : b = datagram' /\ Carries(b, sequence', app, storage, features, publicIp, usable[1])
  BY <1>5, Zenon
<1>7. Len(datagram') <= MaxPacketSize
  <2>1. Len(datagram') = RegistrationSize
    BY <1>5, Zenon DEF Carries
  <2> QED
    BY <2>1 DEF RegistrationSize, MaxPacketSize
<1>8. WTypeOK' /\ UsableKnown'
  BY <1>1, <1>2, <1>7, PreparedTypes, Zenon
<1>9. /\ meant'.sequence = sequence' /\ meant'.app = app /\ meant'.storage = storage
      /\ meant'.features = features /\ meant'.publicIp = publicIp /\ meant'.found = listed
  BY <1>1
<1>10. GroupKnown'
  <2>1. GroupKnown
    BY <1>2, Zenon DEF WKnown, UsableKnown
  <2> QED
    BY <1>4, <2>1, Zenon DEF GroupKnown, node, links
<1>11. ReadableByAll'
  BY <1>5, <1>9, <1>10, Zenon DEF ReadableByAll, Read, Carries, GroupKnown
<1>12. AdvertisesActive'
  <2>1. Origin(listed, usable[1])
    BY <1>2, Zenon DEF WKnown, UsableKnown
  <2>2. FieldOf(datagram', "address") = usable[1]
    BY <1>5, Zenon DEF Carries
  <2> QED
    BY <1>9, <2>1, <2>2, Zenon DEF AdvertisesActive, Origin
<1> QED
  BY <1>8, <1>11, <1>12, Zenon DEF WKnown

LEMMA ReplyIsRead ==
  ASSUME NEW x \in Replies
  PROVE  StrToIpt(x) \in Ip4
<1>1. x \in Seq(Byte \cup {Sep})
  BY WireAssumption, Zenon
<1>2. Byte \cup {Sep} \subseteq Int
  BY DEF Byte, Sep
<1>3. x \in Seq(Int)
  BY <1>1, <1>2, SeqMonotonic, Zenon
<1> QED
  BY <1>3, StrToIptType, Zenon

LEMMA WireTick ==
  ASSUME WKnown, ProcessOneMinuteTick
  PROVE  WKnown'
<1>1. publicIp' \in Ip4
  <2>1. publicIp' \in {StrToIpt(x) : x \in Replies} \cup {publicIp}
    BY Zenon DEF ProcessOneMinuteTick
  <2> QED
    BY <2>1, ReplyIsRead, ZenonT(40) DEF WKnown, WTypeOK
<1>2. datagram' = datagram /\ meant' = meant
  BY Zenon DEF ProcessOneMinuteTick
<1>3. WTypeOK' /\ UsableKnown' /\ UNCHANGED <<node, links>>
  <2>1. CASE usable = <<>>
    <3>1. UNCHANGED <<node, nodeId, sequence, storage, links, packet, prepared>>
      BY <2>1, Zenon DEF ProcessOneMinuteTick
    <3>2. /\ bigEndian' = bigEndian /\ app' = app /\ features' = features /\ nodeId' = nodeId
          /\ storage' = storage /\ listed' = listed /\ interfaces' = interfaces
          /\ group' = group /\ usable' = usable /\ sequence' = sequence /\ packet' = packet
          /\ prepared' = prepared
      BY <3>1, Zenon DEF node, links
    <3>3. WTypeOK'
      BY <1>1, <1>2, <3>2, Zenon DEF WKnown, WTypeOK
    <3>4. UsableKnown'
      BY <2>1, <3>2, Zenon DEF UsableKnown
    <3> QED
      BY <3>1, <3>3, <3>4, Zenon
  <2>2. CASE usable # <<>>
    <3>1. PrepareRegistrationPacket
      BY <2>2, Zenon DEF ProcessOneMinuteTick
    <3>2. Len(datagram') <= MaxPacketSize
      BY <1>2, Zenon DEF WKnown, WTypeOK
    <3>3. UNCHANGED <<node, links>>
      BY <3>1, Zenon DEF PrepareRegistrationPacket
    <3> QED
      BY <1>1, <3>1, <3>2, <3>3, PreparedTypes, Zenon
  <2> QED
    BY <2>1, <2>2
<1>4. ReadableByAll'
  BY <1>2, <1>3, ZenonT(40) DEF WKnown, ReadableByAll, Read, node, links
<1>5. AdvertisesActive'
  BY <1>2, Zenon DEF WKnown, AdvertisesActive
<1> QED
  BY <1>3, <1>4, <1>5, Zenon DEF WKnown

LEMMA WireKept ==
  ASSUME WKnown, [WNext]_wvars
  PROVE  WKnown'
<1>1. ASSUME NEW e \in Enumerations, NEW u \in Unnamed, NEW d \in Drives, NEW g \in Garbage,
             Initialize(e, u, d, g)
      PROVE  WKnown'
  BY <1>1, WireInitialize, Zenon
<1>2. CASE SendHeartbeatToMcGroup
  BY <1>2, WireHeartbeat
<1>3. CASE ProcessOneMinuteTick
  BY <1>3, WireTick
<1>4. CASE UNCHANGED wvars
  <2>1. /\ bigEndian' = bigEndian /\ app' = app /\ features' = features /\ nodeId' = nodeId
        /\ storage' = storage /\ listed' = listed /\ interfaces' = interfaces
        /\ group' = group /\ usable' = usable /\ sequence' = sequence /\ packet' = packet
        /\ prepared' = prepared /\ publicIp' = publicIp /\ datagram' = datagram
        /\ meant' = meant
    BY <1>4, Zenon DEF wvars, node, links
  <2>2. WTypeOK'
    BY <2>1, Zenon DEF WKnown, WTypeOK
  <2>3. UsableKnown'
    BY <2>1, Zenon DEF WKnown, UsableKnown, GroupKnown
  <2>4. ReadableByAll' /\ AdvertisesActive'
    BY <2>1, Zenon DEF WKnown, ReadableByAll, AdvertisesActive, Read
  <2> QED
    BY <2>2, <2>3, <2>4, Zenon DEF WKnown
<1> QED
  BY <1>1, <1>2, <1>3, <1>4, Zenon DEF WNext

LEMMA WireAlways == WSpec => []WKnown
<1>1. WInit => WKnown
  BY WireInit
<1>2. WKnown /\ [WNext]_wvars => WKnown'
  BY WireKept
<1> QED
  BY <1>1, <1>2, PTL DEF WSpec

\* The state has its types: every field of a packet is as long as its
\* declaration says, and no datagram is longer than the buffer, for any lists of
\* interfaces, drives and replies.
THEOREM WireTypes == WSpec => []WTypeOK
<1>1. WKnown => WTypeOK
  BY DEF WKnown
<1> QED
  BY <1>1, WireAlways, PTL

\* What a node of either byte order sends is read, by a node that knows only the
\* declarations, as what the sender knew when it prepared the packet; whatever
\* the node's counter, drives, features, application and address.
THEOREM SentIsReadable == WSpec => []ReadableByAll
<1>1. WKnown => ReadableByAll
  BY DEF WKnown
<1> QED
  BY <1>1, WireAlways, PTL

\* The address in a datagram is one the kernel listed last, before the packet
\* was prepared, as up, running, capable of multicast and private, however many
\* interfaces it listed and in whatever order.
THEOREM ActiveIsAdvertised == WSpec => []AdvertisesActive
<1>1. WKnown => AdvertisesActive
  BY DEF WKnown
<1> QED
  BY <1>1, WireAlways, PTL
=============================================================================
