--------------------------------- MODULE Strings ---------------------------------
(***************************************************************************)
(* The functions on texts that scripts are given and that the program      *)
(* itself reads MQTT names and modem answers with (utils/string.cpp).  A   *)
(* text is the sequence of its ASCII codes.                                *)
(***************************************************************************)
EXTENDS Integers, SequencesExt, FiniteSetsExt

IsDigit(c) == c \in 48..57
IsUpper(c) == c \in 65..90
IsLower(c) == c \in 97..122
IsSpace(c) == c = 32 \/ c \in 9..13
Underscore == 95

ToLower(c) == IF IsUpper(c) THEN c + 32 ELSE c
ToUpper(c) == IF IsLower(c) THEN c - 32 ELSE c

\* to_lower, to_upper
Lower(text) == [i \in DOMAIN text |-> ToLower(text[i])]
Upper(text) == [i \in DOMAIN text |-> ToUpper(text[i])]

\* to_snake_case: no underscore before the first character.
SnakeCase(text) ==
  LET Put(result, c) == IF ~IsUpper(c) THEN Append(result, c)
                        ELSE IF result = <<>> THEN <<ToLower(c)>>
                        ELSE result \o <<Underscore, ToLower(c)>>
  IN  FoldLeft(Put, <<>>, text)

\* to_camel_case: an underscore goes and the next character is a capital.
CamelCase(text) ==
  LET Put(s, c) == IF c = Underscore THEN [s EXCEPT !.up = TRUE]
                   ELSE [text |-> Append(s.text, IF s.up THEN ToUpper(c) ELSE c), up |-> FALSE]
  IN  FoldLeft(Put, [text |-> <<>>, up |-> FALSE], text).text

\* is_digit: also of the empty text.
AllDigits(text) == \A i \in DOMAIN text : IsDigit(text[i])

\* operator< of std::string.
LexicographicallyLess(a, b) ==
  \E i \in 1..Len(b) :
    /\ i <= Len(a) + 1 /\ SubSeq(a, 1, i - 1) = SubSeq(b, 1, i - 1)
    /\ i <= Len(a) => a[i] < b[i]

\* The digits from position i on.
Run(text, i) ==
  LET end == Min({j \in i..(Len(text) + 1) : j = Len(text) + 1 \/ ~IsDigit(text[j])})
  IN  SubSeq(text, i, end - 1)

\* natural_compare: the first place where the texts differ, end, or both have digits, decides;
\* what follows the digits does not matter.
NaturalLess(a, b) ==
  LET Decides(i) == \/ i > Len(a) \/ i > Len(b)
                    \/ IsDigit(a[i]) /\ IsDigit(b[i])
                    \/ a[i] # b[i]
      i == Min({j \in 1..(Len(a) + 1) : Decides(j)})
  IN  IF i > Len(a) \/ i > Len(b) THEN i > Len(a) /\ i <= Len(b)
      ELSE IF IsDigit(a[i]) /\ IsDigit(b[i])
      THEN LET m == Run(a, i)
               n == Run(b, i)
           IN  IF Len(m) # Len(n) THEN Len(m) < Len(n) ELSE LexicographicallyLess(m, n)
      ELSE a[i] < b[i]

\* sort_strings: std::sort, any arrangement without an inversion.
Arranged(list) == \A i, j \in DOMAIN list : i < j => ~NaturalLess(list[j], list[i])

SortStrings(list) ==
  {l \in {[i \in DOMAIN list |-> list[p[i]]] : p \in Permutations(DOMAIN list)} : Arranged(l)}

\* unique_strings sorts by operator< and drops repetitions.
UniqueStrings(list) == SetToSortSeq(ToSet(list), LexicographicallyLess)

\* trim
Trim(text) ==
  LET solid == {i \in DOMAIN text : ~IsSpace(text[i])}
  IN  IF solid = {} THEN <<>> ELSE SubSeq(text, Min(solid), Max(solid))

\* contains
ContainsText(text, needle) ==
  \E i \in 1..(Len(text) + 1) : IsPrefix(needle, SubSeq(text, i, Len(text)))

\* split with std::getline: a delimiter at the end adds no empty part.
Split(text, delimiter) ==
  LET Put(s, c) == IF c = delimiter THEN [parts |-> Append(s.parts, s.token), token |-> <<>>]
                   ELSE [s EXCEPT !.token = Append(@, c)]
      s == FoldLeft(Put, [parts |-> <<>>, token |-> <<>>], text)
  IN  IF s.token = <<>> THEN s.parts ELSE Append(s.parts, s.token)

\* replace: from left to right, and not in what was put in.  An empty needle is found for ever,
\* the loop does not end.
Replace(text, needle, replacement) ==
  LET Put(s, i) ==
        IF i < s.next THEN s
        ELSE IF IsPrefix(needle, SubSeq(text, i, Len(text)))
        THEN [text |-> s.text \o replacement, next |-> i + Len(needle)]
        ELSE [text |-> Append(s.text, text[i]), next |-> i + 1]
  IN  FoldLeft(Put, [text |-> <<>>, next |-> 1], [i \in DOMAIN text |-> i]).text

=============================================================================
