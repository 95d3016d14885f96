------------------------------ MODULE IniFile -------------------------------
(***************************************************************************)
(* StringUtility::InterpretIniFile (libs/utility/stringutility), by which  *)
(* ConfigurationThread::Initialize reads nodemap.conf: the loop over the   *)
(* lines, each one trimmed and taken for a comment, a section, a pair or a *)
(* part of a value of several lines.                                       *)
(***************************************************************************)
EXTENDS Integers, Sequences, SequencesExt

CONSTANTS
  Lines,     \* the lines files are made of, sequences of characters
  MaxLines,  \* bound: lines of a file
  LineSize,  \* the characters of a line getline stores at most: 126
  Says       \* what each line is for whoever wrote it

Characters == UNION {Range(l) : l \in Lines}
Text       == Seq(Characters)

ASSUME IniFileAssumption ==
  /\ MaxLines \in Nat /\ LineSize \in Nat \ {0}
  /\ \A l \in Lines : /\ l \in Seq(STRING)
                       /\ Says[l].kind \in {"comment", "section", "pair", "open", "item", "close"}
                       /\ {Says[l].name, Says[l].value} \subseteq Text

VARIABLES
  file,      \* the lines of the file
  opened,    \* whether there is a file
  read,      \* lines read
  good,      \* ifs.good()
  section, key,
  multiline, \* the value collected, when multilineStart
  multilineStart,
  added      \* history: the calls of addCommandFunction

vars == <<file, opened, read, good, section, key, multiline, multilineStart, added>>

\* Outside a list no text of one is left for the next.
TypeOK ==
  /\ file \in Seq(Lines)
  /\ opened \in BOOLEAN /\ good \in BOOLEAN
  /\ read \in 0..(IF opened THEN Len(file) ELSE 0)
  /\ {section, key, multiline} \subseteq Text
  /\ multilineStart \in BOOLEAN
  /\ multiline # <<>> => multilineStart
  /\ added \in Seq([section : Text, key : Text, value : Text])

Init ==
  /\ file \in SeqOf(Lines, MaxLines)
  /\ opened \in BOOLEAN
  /\ read = 0
  /\ good = opened
  /\ section = <<>> /\ key = <<>> /\ multiline = <<>>
  /\ multilineStart = FALSE
  /\ added = <<>>

-----------------------------------------------------------------------------
Take(l, n)  == SubSeq(l, 1, IF n < Len(l) THEN n ELSE Len(l))
\* String::substr, from the index from, of length characters at most.
Substr(l, from, length) ==
  SubSeq(l, from + 1, IF from + length < Len(l) THEN from + length ELSE Len(l))
\* find_first_of, -1 for npos.
FirstOf(l, c) == SelectInSeq(l, LAMBDA x : x = c) - 1

IsSpace(c) == c = " "
Comment(l) == {i \in 1..Len(l) : l[i] = ";" \/ Substr(l, i - 1, 2) = <<"/", "/">>}

Trim_KeepsSpace(line) == line  \* mutant: leading spaces are kept

\* A comment goes together with what follows the last space before it.
Trim(line) ==
  LET text == SubSeq(line, SelectInSeq(line, LAMBDA c : ~IsSpace(c)), Len(line))
      code == Take(text, CHOOSE n \in 0..Len(text) :
                           n + 1 \in Comment(text) /\ \A i \in 1..n : i \notin Comment(text))
      lastSpace == SelectLastInSeq(code, LAMBDA c : IsSpace(c))
  IN IF \A i \in 1..Len(line) : IsSpace(line[i]) THEN <<>>
     ELSE IF Comment(text) = {} THEN text
     ELSE Take(code, lastSpace - 1)

IsComment(l) == l # <<>> => Head(l) \in {";", "/"}

InterpretIniSection(l) ==
  LET sectionStart == FirstOf(l, "[")
      sectionEnd   == FirstOf(l, "]")
  IN IF sectionStart >= 0 /\ sectionEnd >= 1
       THEN Substr(l, sectionStart + 1, sectionEnd - 1)
       ELSE <<>>

IsPair(l)   == FirstOf(l, "=") > 1
KeyOf(l)    == Take(l, FirstOf(l, "="))
ValueOf(l)  ==
  Substr(l, FirstOf(l, "=") + 1, IF FirstOf(l, ";") > 1 THEN FirstOf(l, ";") ELSE Len(l))
OpensList(l) == ValueOf(l) # <<>> /\ Head(ValueOf(l)) = "["

-----------------------------------------------------------------------------
\* getline: a line too long for the buffer ends the reading.
GetLine ==
  /\ good /\ read < Len(file)
  /\ read' = read + 1
  /\ good' = (Len(file[read + 1]) <= LineSize)
  /\ UNCHANGED <<file, opened>>

TrimmedLine == Trim(Take(file[read + 1], LineSize))

Add(k, v) == added' = Append(added, [section |-> section, key |-> k, value |-> v])

SkipComment ==
  /\ GetLine /\ IsComment(TrimmedLine)
  /\ UNCHANGED <<section, key, multiline, multilineStart, added>>

EndList_KeepsText ==  \* mutant: multiline is not reset
  /\ GetLine /\ ~IsComment(TrimmedLine) /\ multilineStart
  /\ FirstOf(TrimmedLine, "]") >= 0
  /\ Add(key, multiline)
  /\ multilineStart' = FALSE
  /\ UNCHANGED <<section, key, multiline>>

EndList ==
  /\ GetLine /\ ~IsComment(TrimmedLine) /\ multilineStart
  /\ FirstOf(TrimmedLine, "]") >= 0
  /\ Add(key, multiline)
  /\ multilineStart' = FALSE
  /\ multiline' = <<>>
  /\ UNCHANGED <<section, key>>

ExtendList ==
  /\ GetLine /\ ~IsComment(TrimmedLine) /\ multilineStart
  /\ FirstOf(TrimmedLine, "]") < 0
  /\ multiline' = multiline \o TrimmedLine
  /\ UNCHANGED <<section, key, multilineStart, added>>

BeginSection ==
  /\ GetLine /\ ~IsComment(TrimmedLine) /\ ~multilineStart
  /\ InterpretIniSection(TrimmedLine) # <<>>
  /\ section' = InterpretIniSection(TrimmedLine)
  /\ UNCHANGED <<key, multiline, multilineStart, added>>

InterpretIniKeyValue ==
  /\ GetLine /\ ~IsComment(TrimmedLine) /\ ~multilineStart
  /\ InterpretIniSection(TrimmedLine) = <<>>
  /\ IF IsPair(TrimmedLine)
       THEN /\ key' = KeyOf(TrimmedLine)
            /\ multilineStart' = OpensList(TrimmedLine)
            /\ IF OpensList(TrimmedLine) THEN UNCHANGED added
                                         ELSE Add(KeyOf(TrimmedLine), ValueOf(TrimmedLine))
       ELSE UNCHANGED <<key, multilineStart, added>>
  /\ UNCHANGED <<section, multiline>>

Next ==
  SkipComment \/ EndList \/ ExtendList \/ BeginSection \/ InterpretIniKeyValue

Spec == Init /\ [][Next]_vars
-----------------------------------------------------------------------------
(* What a line says. Of the usual lines nothing is misread: words without  *)
(* a special character, blanks before them at most, and behind them        *)
(* nothing, or one blank and a comment.                                    *)
Plain(t) == \A i \in 1..Len(t) : t[i] \notin {" ", ";", "/", "[", "]", "="}

Body(s) ==
  CASE s.kind = "section" -> <<"[">> \o s.name \o <<"]">>
    [] s.kind = "pair"    -> s.name \o <<"=">> \o s.value
    [] s.kind = "open"    -> s.name \o <<"=", "[">>
    [] s.kind = "item"    -> s.value
    [] s.kind = "close"   -> <<"]">>
    [] s.kind = "comment" -> <<>>

AsUsual(l) ==
  /\ Len(l) <= LineSize
  /\ Plain(Says[l].name) /\ Plain(Says[l].value)
  /\ Says[l].kind \in {"pair", "open"} => Len(Says[l].name) > 1
  /\ Says[l].kind = "section" => Says[l].name # <<>>
  /\ Says[l].kind = "item" => Says[l].value # <<>>
  /\ \E i \in 0..Len(l) : \E j \in i..Len(l) :
       /\ \A k \in 1..i : IsSpace(l[k])
       /\ SubSeq(l, i + 1, j) = Body(Says[l])
       /\ \/ j = Len(l)
          \/ l[j + 1] = " " /\ j + 2 \in Comment(l)
          \/ i = j /\ j + 1 \in Comment(l)

-----------------------------------------------------------------------------
(* What a file says. A list is opened by a line of its own, has its items  *)
(* on lines of their own and is closed by another.                         *)
Kind(f, i)   == Says[f[i]].kind
Inside(f, i) == \E o \in 1..(i - 1) :
                  Kind(f, o) = "open" /\ \A j \in o..(i - 1) : Kind(f, j) # "close"

WellFormed(f) ==
  /\ \A i \in 1..Len(f) :
       Kind(f, i) # "comment" => (Inside(f, i) <=> Kind(f, i) \in {"item", "close"})
  /\ ~Inside(f, Len(f) + 1)

\* The last line before i of kind k, or 0 if there is none.
LastOf(f, i, k) == Max({0} \cup {j \in 1..(i - 1) : Kind(f, j) = k})

SectionAt(f, i) ==
  LET s == LastOf(f, i, "section")
  IN IF s = 0 THEN <<>> ELSE Says[f[s]].name

\* The items between two lines.
Item(f, i)         == IF Kind(f, i) = "item" THEN Says[f[i]].value ELSE <<>>
Items(f, from, to) == FlattenSeq([i \in 1..(to - from - 1) |-> Item(f, from + i)])

Entry(f, i) ==
  LET o == LastOf(f, i, "open")
  IN [section |-> SectionAt(f, i),
      key     |-> Says[f[IF Kind(f, i) = "pair" THEN i ELSE o]].name,
      value   |-> IF Kind(f, i) = "pair" THEN Says[f[i]].value ELSE Items(f, o, i)]

\* What the first n lines give.
Gives(f, i) == IF Kind(f, i) \in {"pair", "close"} THEN <<Entry(f, i)>> ELSE <<>>
Means(f, n) == FlattenSeq([i \in 1..n |-> Gives(f, i)])

\* When the reading ends, addCommandFunction has been called once for every
\* pair and list a well-formed file has, in their order, each with its
\* section, key and value.
ReadsWellFormed ==
  opened /\ WellFormed(file) /\ (read = Len(file) \/ ~good) => added = Means(file, Len(file))
=============================================================================
