--------------------------- MODULE UucLexerProofs ---------------------------
(***************************************************************************)
(* The lexer's tokens, for every text and every alphabet.                  *)
(***************************************************************************)
EXTENDS UucLexer, FiniteSetTheorems, SequenceTheorems, WellFoundedInduction, TLAPS

-----------------------------------------------------------------------------
(***************************************************************************)
(* Where the loops of the code stop.                                       *)
(***************************************************************************)
\* A set of natural numbers has a least element: of the intervals from 0 to each of
\* its numbers, one is smallest.
LEMMA LeastNumber ==
  ASSUME NEW S \in SUBSET Nat, S # {}
  PROVE  \E m \in S : \A k \in S : m <= k
<1> DEFINE T == {0 .. n : n \in S}
           R == StrictSubsetOrdering(Nat)
<1>1. T \subseteq FiniteSubsetsOf(Nat)
  <2> SUFFICES ASSUME NEW n \in S PROVE 0 .. n \in FiniteSubsetsOf(Nat)
    OBVIOUS
  <2>1. IsFiniteSet(0 .. n)
    BY FS_Interval
  <2> QED
    BY <2>1 DEF FiniteSubsetsOf
<1>2. T # {}
  OBVIOUS
<1>3. PICK I \in T : \A J \in T : ~ (<<J, I>> \in R)
  <2>1. IsWellFoundedOn(R, FiniteSubsetsOf(Nat))
    BY FS_StrictSubsetOrderingWellFounded
  <2> HIDE DEF T, R
  <2> QED
    BY <1>1, <1>2, <2>1, WFMin, Zenon
<1>4. PICK m \in S : I = 0 .. m
  OBVIOUS
<1>5. ASSUME NEW k \in S, k < m PROVE FALSE
  <2>1. (0 .. k) \in T /\ (0 .. k) \subseteq I /\ (0 .. k) # I
    BY <1>4, <1>5
  <2>2. <<0 .. k, I>> \in R
    BY <1>1, <2>1 DEF StrictSubsetOrdering
  <2> QED
    BY <1>3, <2>1, <2>2
<1> QED
  BY <1>5

\* First finds the least number of a set.
LEMMA FirstIsLeast ==
  ASSUME NEW S \in SUBSET Nat, S # {}
  PROVE  First(S) \in S /\ \A k \in S : First(S) <= k
  BY LeastNumber DEF First

\* The characters of a text are its own up to its end, and End from there on.
LEMMA AtIs ==
  ASSUME text \in Texts, NEW i \in Nat
  PROVE  /\ text \in Seq(STRING) /\ Len(text) \in Nat
         /\ i < Len(text) => At(i) = text[i + 1] /\ At(i) # End
         /\ i >= Len(text) => At(i) = End
  BY TextsAssumption DEF At, Chars

\* Only behind a text there is End.
LEMMA TextIs ==
  ASSUME text \in Texts
  PROVE  Len(text) \in Nat /\ \A k \in Nat : At(k) = End <=> k >= Len(text)
<1>1. Len(text) \in Nat
  BY AtIs
<1>2. ASSUME NEW k \in Nat PROVE At(k) = End <=> k >= Len(text)
  BY <1>1, AtIs
<1> QED
  BY <1>1, <1>2

\* A loop over the text stops, at the latest where the text ends.
LEMMA StopIs ==
  ASSUME text \in Texts, NEW i \in 0 .. Len(text), NEW S \in SUBSET From(i),
         Len(text) \in S
  PROVE  /\ First(S) \in i .. Len(text)
         /\ First(S) \in S
         /\ \A k \in i .. First(S) - 1 : k \notin S
<1>0. Len(text) \in Nat
  BY AtIs
<1>1. S \in SUBSET Nat /\ S # {}
  BY <1>0 DEF From
<1>2. First(S) \in S /\ \A k \in S : First(S) <= k
  BY <1>1, FirstIsLeast
<1>3. First(S) \in i .. Len(text)
  BY <1>0, <1>2 DEF From
<1> QED
  BY <1>2, <1>3

\* A quote is no other character.
LEMMA QuoteApart ==
  Quote \notin {"+", "-", "=", "!", ">", "<", "&", "|", "*", "/", ":", ";", ".", ",",
                "(", ")", "{", "}", "_", " ", "\n", "\t", "\r"} /\ Quote # End
  BY Zenon DEF Quote, End

\* No character is of two kinds.
LEMMA CharactersApart ==
  /\ WordChar \cap (Blank \cup {c[1] : c \in Singles} \cup {Quote, End}) = {}
  /\ Digits \cap ({"_"} \cup Letters) = {}
  /\ End \notin Blank \cup {c[1] : c \in Singles} \cup {Quote}
  /\ "." \notin WordChar /\ "\n" \notin WordChar
<1>1. {"_", Quote} \cap {c[1] : c \in Singles} = {} /\ End \notin {c[1] : c \in Singles}
  <2>1. ASSUME NEW s \in Singles PROVE s[1] \notin {"_", Quote, End}
    <3>1. PICK c \in {"+", "-", "=", "!", ">", "<", "&", "|", "*", "/",
                      ":", ";", ".", ",", "(", ")", "{", "}"} : s = <<c>>
      BY Zenon DEF Singles
    <3> QED
      BY <3>1, QuoteApart DEF End
  <2> QED
    BY <2>1
<1>2. <<".">> \in Singles /\ <<".">>[1] = "."
  BY DEF Singles
<1>3. "." \in {c[1] : c \in Singles}
  BY <1>2, Zenon
<1>4. "_" \notin Blank \cup {Quote, End} /\ End \notin Blank \cup {Quote}
  BY QuoteApart DEF Blank, End
<1>5. "\n" \in Blank
  BY DEF Blank
<1>6. WordChar \cap (Blank \cup {c[1] : c \in Singles} \cup {Quote, End}) = {}
  <2> DEFINE F == {c[1] : c \in Singles}
  <2>1. (Letters \cup Digits) \cap (Blank \cup F \cup {"_", Quote, End}) = {}
    BY CharactersAssumption
  <2>2. "_" \notin F
    BY <1>1
  <2> HIDE DEF F
  <2>3. WordChar \cap (Blank \cup F \cup {Quote, End}) = {}
    BY <2>1, <2>2, <1>4 DEF WordChar
  <2> QED
    BY <2>3 DEF F
<1> QED
  BY <1>1, <1>3, <1>4, <1>5, <1>6, CharactersAssumption DEF WordChar

-----------------------------------------------------------------------------
(***************************************************************************)
(* Lexemes are told apart by their first characters.                       *)
(***************************************************************************)
SimpleChars == {c[1] : c \in Singles}

\* A spelling has the characters of the text from its place on.
LEMMA SpellingIs ==
  ASSUME text \in Texts, NEW i \in Nat, NEW n \in Nat, i + n <= Len(text)
  PROVE  /\ Len(Spelling(i, n)) = n /\ Spelling(i, n) \in Seq(STRING)
         /\ \A k \in 1 .. n : Spelling(i, n)[k] = At(i + k - 1)
         /\ Chars(Spelling(i, n)) = {At(k) : k \in i .. i + n - 1}
<1>1. text \in Seq(STRING) /\ Len(text) \in Nat
  BY AtIs
<1>2. \A k \in i + 1 .. i + n : text[k] \in STRING
  BY <1>1
<1>3. /\ Spelling(i, n) \in Seq(STRING)
      /\ Len(Spelling(i, n)) = n
      /\ \A k \in 1 .. n : Spelling(i, n)[k] = text[i + k]
  BY <1>2, SubSeqProperties DEF Spelling
<1>4. \A k \in 1 .. n : Spelling(i, n)[k] = At(i + k - 1)
  <2> SUFFICES ASSUME NEW k \in 1 .. n PROVE Spelling(i, n)[k] = At(i + k - 1)
    OBVIOUS
  <2>1. At(i + k - 1) = text[i + k]
    BY <1>1 DEF At
  <2> QED
    BY <1>3, <2>1
<1>5. Chars(Spelling(i, n)) = {At(k) : k \in i .. i + n - 1}
  <2> DEFINE s == Spelling(i, n)
  <2>1. ASSUME NEW k \in 1 .. n PROVE s[k] \in {At(m) : m \in i .. i + n - 1}
    BY <1>4
  <2>2. ASSUME NEW m \in i .. i + n - 1 PROVE At(m) \in {s[k] : k \in 1 .. n}
    <3>1. m - i + 1 \in 1 .. n /\ i + (m - i + 1) - 1 = m
      OBVIOUS
    <3> QED
      BY <1>4, <3>1
  <2>3. Chars(s) = {s[k] : k \in 1 .. n}
    BY <1>3 DEF Chars
  <2> HIDE DEF s
  <2> QED
    BY <2>1, <2>2, <2>3 DEF s
<1> QED
  BY <1>3, <1>4, <1>5

\* Spellings of one and two characters.
LEMMA ShortSpellings ==
  ASSUME text \in Texts, NEW i \in Nat
  PROVE  /\ i + 1 <= Len(text) => Spelling(i, 1) = <<At(i)>>
         /\ i + 2 <= Len(text) => Spelling(i, 2) = <<At(i), At(i + 1)>>
<1>1. ASSUME i + 1 <= Len(text) PROVE Spelling(i, 1) = <<At(i)>>
  <2> DEFINE s == Spelling(i, 1)
  <2>1. Len(s) = 1 /\ s \in Seq(STRING) /\ \A k \in 1 .. 1 : s[k] = At(i + k - 1)
    BY <1>1, SpellingIs
  <2>2. 1 \in 1 .. 1 /\ i + 1 - 1 = i
    OBVIOUS
  <2> HIDE DEF s
  <2>3. s = <<At(i)>>
    BY <2>1, <2>2
  <2> QED
    BY <2>3 DEF s
<1>2. ASSUME i + 2 <= Len(text) PROVE Spelling(i, 2) = <<At(i), At(i + 1)>>
  <2> DEFINE s == Spelling(i, 2)
  <2>1. Len(s) = 2 /\ s \in Seq(STRING) /\ \A k \in 1 .. 2 : s[k] = At(i + k - 1)
    BY <1>2, SpellingIs
  <2>2. 1 \in 1 .. 2 /\ 2 \in 1 .. 2 /\ i + 1 - 1 = i /\ i + 2 - 1 = i + 1
    OBVIOUS
  <2> HIDE DEF s
  <2>3. s[1] = At(i) /\ s[2] = At(i + 1)
    BY <2>1, <2>2
  <2>4. s = <<At(i), At(i + 1)>>
    BY <2>1, <2>3
  <2> QED
    BY <2>4 DEF s
<1> QED
  BY <1>1, <1>2

\* The simple tokens.
LEMMA SimpleLexemes ==
  /\ \A s \in Singles : Len(s) = 1 /\ s[1] \in SimpleChars /\ s = <<s[1]>>
  /\ \A s \in Pairs : Len(s) = 2 /\ s[1] \in SimpleChars /\ s = <<s[1], s[2]>>
  /\ \A c \in SimpleChars : <<c>> \in Singles
  /\ \A s \in Pairs : s[2] # End
<1> DEFINE one == {"+", "-", "=", "!", ">", "<", "&", "|", "*", "/",
                   ":", ";", ".", ",", "(", ")", "{", "}"}
<1>1. \A c \in one : <<c>> \in Singles
  BY Zenon DEF Singles
<1>2. ASSUME NEW s \in Singles PROVE \E c \in one : s = <<c>>
  BY Zenon DEF Singles
<1>3. ASSUME NEW s \in Pairs
      PROVE  \E c \in one, d \in one : s = <<c, d>>
  BY DEF Pairs
<1>4. SimpleChars = one
  <2>1. ASSUME NEW c \in one PROVE c \in SimpleChars
    <3>1. <<c>>[1] = c
      OBVIOUS
    <3> QED
      BY <1>1, <3>1, Zenon DEF SimpleChars
  <2>2. ASSUME NEW c \in SimpleChars PROVE c \in one
    <3>1. PICK s \in Singles : c = s[1]
      BY Zenon DEF SimpleChars
    <3>2. PICK d \in one : s = <<d>>
      BY <1>2
    <3> HIDE DEF one
    <3> QED
      BY <3>1, <3>2
  <2> HIDE DEF one
  <2> QED
    BY <2>1, <2>2
<1>5. End \notin one
  BY DEF End
<1> HIDE DEF one
<1>6. \A s \in Singles : Len(s) = 1 /\ s[1] \in SimpleChars /\ s = <<s[1]>>
  BY <1>2, <1>4
<1>7. \A s \in Pairs : Len(s) = 2 /\ s[1] \in SimpleChars /\ s = <<s[1], s[2]>> /\ s[2] # End
  BY <1>3, <1>4, <1>5
<1> QED
  BY <1>1, <1>4, <1>6, <1>7

\* The keywords are words of two letters or more, and no two of them have the
\* characters in common by which next_token tells them apart.
LEMMA KeywordsAre ==
  /\ \A w \in Keywords : Len(w) \in Nat /\ Len(w) >= 2 /\ w \in Seq(Letters)
  /\ \A w \in Keywords : \A k \in 1 .. Len(w) : w[k] \in Letters
  /\ \A v, w \in Keywords :
       v[1] = w[1] /\ (v[1] \in {"t", "f", "c"} => v[2] = w[2]) => v = w
<1>1. \A w \in Keywords : Len(w) \in Nat /\ Len(w) >= 2 /\ w \in Seq(Letters)
  <2>1. \A w \in Keywords : Len(w) \in Nat /\ Len(w) >= 2
    BY DEF Keywords
  <2>2. \A w \in Keywords : w \in Seq({w[i] : i \in 1 .. Len(w)})
    BY DEF Keywords
  <2>3. \A w \in Keywords : w \in Seq(Letters)
    <3> SUFFICES ASSUME NEW w \in Keywords PROVE w \in Seq(Letters)
      OBVIOUS
    <3> DEFINE S == {w[i] : i \in 1 .. Len(w)}
    <3>1. w \in Seq(S) /\ S \subseteq Letters
      BY <2>2, CharactersAssumption
    <3> HIDE DEF S
    <3> QED
      BY <3>1, SeqMonotonic, Zenon
  <2> QED
    BY <2>1, <2>3
<1>2. \A w \in Keywords : \A k \in 1 .. Len(w) : w[k] \in Letters
  BY CharactersAssumption
<1>3. \A v, w \in Keywords :
       v[1] = w[1] /\ (v[1] \in {"t", "f", "c"} => v[2] = w[2]) => v = w
  BY DEF Keywords
<1> QED
  BY <1>1, <1>2, <1>3

\* What a lexeme can be, by its first character.
LEMMA FirstDecides ==
  ASSUME NEW s, Len(s) \in Nat \ {0}
  PROVE  /\ s[1] \in WordChar \ Digits =>
              /\ IsLexeme(s) <=> IsWord(s)
              /\ Kind(s) = IF s \in Keywords THEN s ELSE IDENTIFIER
         /\ s[1] \in Digits =>
              /\ IsLexeme(s) <=> IsDecimal(s)
              /\ IsDecimal(s) => Kind(s) = IF "." \in Chars(s) THEN DOUBLE ELSE INTEGER
         /\ s[1] = Quote =>
              /\ IsLexeme(s) <=> IsString(s)
              /\ IsString(s) => Kind(s) = STRING_
         /\ s[1] \in SimpleChars =>
              /\ IsLexeme(s) <=> s \in Singles \cup Pairs
              /\ s \in Singles \cup Pairs => Kind(s) = s
<1>1. s \in Singles \cup Pairs => s[1] \in SimpleChars
  BY SimpleLexemes
<1>2. IsWord(s) => s[1] \in WordChar \ Digits
  BY DEF IsWord, Chars
<1>3. IsDecimal(s) => s[1] \in Digits
  BY DEF IsDecimal
<1>4. IsString(s) => s[1] = Quote
  BY DEF IsString
<1>5. s \in Keywords => s[1] \in WordChar \ Digits
  <2>1. s \in Keywords => s[1] \in Letters
    BY KeywordsAre
  <2> QED
    BY <2>1, CharactersApart DEF WordChar
<1>6. /\ WordChar \cap SimpleChars = {} /\ Digits \cap SimpleChars = {}
      /\ Quote \notin WordChar /\ Quote \notin Digits
  BY CharactersApart DEF SimpleChars, WordChar
<1>7. Quote \notin SimpleChars
  <2>1. <<Quote>> \notin Singles
    BY QuoteApart DEF Singles
  <2> QED
    BY <2>1, SimpleLexemes
<1> QED
  BY <1>1, <1>2, <1>3, <1>4, <1>5, <1>6, <1>7, Zenon DEF IsLexeme, Kind

-----------------------------------------------------------------------------
(***************************************************************************)
(* Each lex_ function finds the longest lexeme.                            *)
(***************************************************************************)
\* t is the longest lexeme at i, and of its kind.
Munch(i, t) ==
  LET s == Spelling(i, t.stop - i)
  IN  /\ IsLexeme(s)
      /\ \A n \in t.stop - i + 1 .. Len(text) - i : ~ IsLexeme(Spelling(i, n))
      /\ t.type = Kind(s)

\* lex_string ends at the first quote without a backslash, or at the end of the text.
LEMMA StringMunched ==
  ASSUME text \in Texts, NEW i \in Nat, i < Len(text), At(i) = Quote
  PROVE  /\ LexString(i).stop \in i + 1 .. Len(text)
         /\ LexString(i).type \in {STRING_, ERROR}
         /\ LexString(i).type # ERROR => Munch(i, LexString(i))
<1> DEFINE S == {k \in From(i + 1) : At(k) = End \/ (At(k) = Quote /\ At(k - 1) # Backslash)}
           j == First(S)
<1>1. Len(text) \in Nat /\ \A k \in Nat : At(k) = End <=> k >= Len(text)
  BY TextIs
<1>2. S \in SUBSET From(i + 1) /\ Len(text) \in S /\ i + 1 \in 0 .. Len(text)
  BY <1>1 DEF From
<1>3. j \in i + 1 .. Len(text) /\ j \in S /\ \A k \in i + 1 .. j - 1 : k \notin S
  <2> HIDE DEF S
  <2> QED
    BY <1>2, StopIs
<1>4. LexString(i) = IF At(j) = End THEN Lexed(ERROR, j) ELSE Lexed(STRING_, j + 1)
  BY DEF LexString
<1>5. /\ At(j) = End \/ (At(j) = Quote /\ At(j - 1) # Backslash)
      /\ \A k \in i + 1 .. j - 1 : At(k) # End /\ (At(k) = Quote => At(k - 1) = Backslash)
  <2> HIDE DEF j
  <2> QED
    BY <1>1, <1>3 DEF From
<1> HIDE DEF j, S
<1>6. CASE At(j) = End
  BY <1>1, <1>3, <1>4, <1>6 DEF Lexed
<1>7. CASE At(j) # End
  <2> DEFINE s == Spelling(i, j + 1 - i)
  <2>1. j < Len(text) /\ At(j) = Quote /\ At(j - 1) # Backslash
    BY <1>1, <1>3, <1>5, <1>7
  <2>2. LexString(i).stop = j + 1 /\ LexString(i).type = STRING_
    BY <1>4, <1>7 DEF Lexed
  <2>3. Len(s) = j + 1 - i /\ \A k \in 1 .. j + 1 - i : s[k] = At(i + k - 1)
    <3>1. j + 1 - i \in Nat /\ i + (j + 1 - i) <= Len(text)
      BY <1>1, <1>3, <2>1
    <3> QED
      BY <3>1, SpellingIs
  <2>4. IsString(s)
    <3>1. Len(s) > 1 /\ s[1] = Quote /\ s[Len(s)] = Quote /\ s[Len(s) - 1] # Backslash
      BY <1>1, <1>3, <2>1, <2>3
    <3>2. ASSUME NEW m \in 2 .. Len(s) - 1, s[m] = Quote PROVE s[m - 1] = Backslash
      <4>1. s[m] = At(i + m - 1) /\ s[m - 1] = At(i + m - 2)
        BY <1>1, <1>3, <2>3
      <4>2. i + m - 1 \in i + 1 .. j - 1 /\ (i + m - 1) - 1 = i + m - 2
        BY <1>1, <1>3, <2>3
      <4> QED
        BY <1>5, <3>2, <4>1, <4>2
    <3> QED
      BY <3>1, <3>2 DEF IsString
  <2>5. ASSUME NEW n \in j + 2 - i .. Len(text) - i PROVE ~ IsLexeme(Spelling(i, n))
    <3> DEFINE r == Spelling(i, n)
    <3>1. Len(r) = n /\ \A k \in 1 .. n : r[k] = At(i + k - 1)
      <4>1. n \in Nat /\ i + n <= Len(text)
        BY <1>1, <1>3
      <4> QED
        BY <4>1, SpellingIs
    <3> DEFINE m == j - i + 1
    <3>2. n \in Nat \ {0} /\ r[1] = Quote /\ m \in 2 .. n - 1
      BY <1>1, <1>3, <3>1
    <3>3. r[m] = Quote /\ r[m - 1] # Backslash
      <4>1. m \in 1 .. n /\ m - 1 \in 1 .. n /\ i + m - 1 = j /\ i + (m - 1) - 1 = j - 1
        BY <1>1, <1>3, <3>2
      <4>2. r[m] = At(i + m - 1) /\ r[m - 1] = At(i + (m - 1) - 1)
        BY <3>1, <4>1
      <4> QED
        BY <2>1, <4>1, <4>2
    <3> HIDE DEF r, m
    <3>4. ~ IsString(r)
      BY <3>1, <3>2, <3>3 DEF IsString
    <3> HIDE DEF r
    <3>5. ~ IsLexeme(r)
      BY <3>1, <3>2, <3>4, FirstDecides
    <3> QED
      BY <3>5 DEF r
  <2>6. IsLexeme(s) /\ Kind(s) = STRING_
    <3>1. Len(s) \in Nat \ {0} /\ s[1] = Quote
      BY <1>1, <1>3, <2>3
    <3> HIDE DEF s
    <3> QED
      BY <2>4, <3>1, FirstDecides
  <2>7. LexString(i).stop - i = j + 1 - i /\ LexString(i).stop - i + 1 = j + 2 - i
    BY <1>1, <1>3, <2>2
  <2>8. LexString(i).stop \in i + 1 .. Len(text)
    BY <1>1, <1>3, <2>1, <2>2
  <2> HIDE DEF s
  <2> QED
    BY <2>2, <2>5, <2>6, <2>7, <2>8 DEF Munch, s
<1> QED
  BY <1>6, <1>7

\* lex_simple_token takes two characters where they are a token.
LEMMA SimpleMunched ==
  ASSUME text \in Texts, NEW i \in Nat, i < Len(text), IsSimple(i)
  PROVE  /\ LexSimple(i).stop \in i + 1 .. Len(text)
         /\ LexSimple(i).type \in Singles \cup Pairs
         /\ \A k \in i .. LexSimple(i).stop - 1 : At(k) # "\n"
         /\ Munch(i, LexSimple(i))
<1> DEFINE t == LexSimple(i)
           s == Spelling(i, t.stop - i)
<1>1. Len(text) \in Nat /\ \A k \in Nat : At(k) = End <=> k >= Len(text)
  BY TextIs
<1>2. At(i) \in SimpleChars
  <2>1. <<At(i)>>[1] \in SimpleChars
    BY SimpleLexemes DEF IsSimple
  <2> QED
    BY <2>1
<1>3. ASSUME NEW n \in 1 .. Len(text) - i
      PROVE  /\ Len(Spelling(i, n)) = n
             /\ \A k \in 1 .. n : Spelling(i, n)[k] = At(i + k - 1)
             /\ IsLexeme(Spelling(i, n)) <=> Spelling(i, n) \in Singles \cup Pairs
             /\ Spelling(i, n) \in Singles \cup Pairs => Kind(Spelling(i, n)) = Spelling(i, n)
  <2> DEFINE r == Spelling(i, n)
  <2>1. n \in Nat \ {0} /\ i + n <= Len(text)
    BY <1>1
  <2>2. Len(r) = n /\ \A k \in 1 .. n : r[k] = At(i + k - 1)
    BY <2>1, SpellingIs
  <2>3. r[1] = At(i)
    BY <2>1, <2>2
  <2> HIDE DEF r
  <2>4. /\ IsLexeme(r) <=> r \in Singles \cup Pairs
        /\ r \in Singles \cup Pairs => Kind(r) = r
    BY <1>2, <2>1, <2>2, <2>3, FirstDecides
  <2> QED
    BY <2>2, <2>4 DEF r
<1>4. \A n \in 3 .. Len(text) - i : ~ IsLexeme(Spelling(i, n))
  <2> SUFFICES ASSUME NEW n \in 3 .. Len(text) - i PROVE ~ IsLexeme(Spelling(i, n))
    OBVIOUS
  <2>1. n \in 1 .. Len(text) - i /\ n # 1 /\ n # 2
    BY <1>1
  <2> QED
    BY <1>3, <2>1, SimpleLexemes
<1>5. CASE <<At(i), At(i + 1)>> \in Pairs
  <2>1. t.type = <<At(i), At(i + 1)>> /\ t.stop = i + 2
    BY <1>5 DEF LexSimple, Lexed
  <2>2. At(i + 1) # End
    <3>1. <<At(i), At(i + 1)>>[2] # End
      BY <1>5, SimpleLexemes
    <3> QED
      BY <3>1
  <2>3. i + 2 <= Len(text)
    BY <1>1, <2>2
  <2>4. t.stop - i = 2 /\ t.stop - i + 1 = 3 /\ 2 \in 1 .. Len(text) - i
    BY <1>1, <2>1, <2>3
  <2>5. s = <<At(i), At(i + 1)>>
    <3>1. Spelling(i, 2) = <<At(i), At(i + 1)>>
      BY <2>3, ShortSpellings
    <3> QED
      BY <2>4, <3>1
  <2>6. IsLexeme(s) /\ Kind(s) = t.type
    BY <1>3, <1>5, <2>1, <2>4, <2>5
  <2>7. At(i) # "\n" /\ At(i + 1) # "\n"
    <3>1. "\n" \notin {<<At(i), At(i + 1)>>[1], <<At(i), At(i + 1)>>[2]}
      BY <1>5 DEF Pairs
    <3> QED
      BY <3>1
  <2>8. \A k \in i .. t.stop - 1 : At(k) # "\n"
    <3> SUFFICES ASSUME NEW k \in i .. i + 1 PROVE At(k) # "\n"
      BY <2>1
    <3>1. k = i \/ k = i + 1
      OBVIOUS
    <3> QED
      BY <2>7, <3>1
  <2>9. t.stop \in i + 1 .. Len(text)
    BY <1>1, <2>1, <2>3
  <2> HIDE DEF t
  <2> QED
    BY <1>4, <1>5, <2>1, <2>4, <2>6, <2>8, <2>9 DEF Munch, t
<1>6. CASE <<At(i), At(i + 1)>> \notin Pairs
  <2>1. t.type = <<At(i)>> /\ t.stop = i + 1
    BY <1>6 DEF LexSimple, Lexed
  <2>2. t.stop - i = 1 /\ t.stop - i + 1 = 2 /\ 1 \in 1 .. Len(text) - i
    BY <1>1, <2>1
  <2>3. s = <<At(i)>>
    <3>1. i + 1 <= Len(text)
      BY <1>1
    <3>2. Spelling(i, 1) = <<At(i)>>
      BY <3>1, ShortSpellings
    <3> QED
      BY <2>2, <3>2
  <2>4. IsLexeme(s) /\ Kind(s) = t.type
    BY <1>3, <2>1, <2>2, <2>3 DEF IsSimple
  <2>5. \A n \in 2 .. Len(text) - i : ~ IsLexeme(Spelling(i, n))
    <3> SUFFICES ASSUME NEW n \in 2 .. Len(text) - i, n = 2 PROVE ~ IsLexeme(Spelling(i, n))
      BY <1>1, <1>4
    <3> DEFINE r == Spelling(i, 2)
    <3>1. r = <<At(i), At(i + 1)>>
      <4>1. i + 2 <= Len(text)
        BY <1>1
      <4> QED
        BY <4>1, ShortSpellings
    <3>2. r \notin Singles \cup Pairs
      <4>1. Len(r) = 2
        BY <3>1
      <4>2. r \notin Singles
        BY <4>1, SimpleLexemes
      <4> QED
        BY <1>6, <3>1, <4>2
    <3> QED
      BY <1>3, <3>2
  <2>6. At(i) # "\n"
    <3>1. "\n" # <<At(i)>>[1]
      BY DEF IsSimple, Singles
    <3> QED
      BY <3>1
  <2>7. \A k \in i .. t.stop - 1 : At(k) # "\n"
    BY <2>1, <2>6
  <2>8. t.stop \in i + 1 .. Len(text) /\ t.type \in Singles
    BY <1>1, <2>1 DEF IsSimple
  <2> HIDE DEF t
  <2> QED
    BY <2>1, <2>2, <2>4, <2>5, <2>7, <2>8 DEF Munch, t
<1> QED
  BY <1>5, <1>6

\* lex_number goes on over digits, and over dots with a digit behind them.
LEMMA NumberMunched ==
  ASSUME text \in Texts, NEW i \in Nat, i < Len(text), At(i) \in Digits
  PROVE  /\ LexNumber(i).stop \in i + 1 .. Len(text)
         /\ LexNumber(i).type \in {INTEGER, DOUBLE}
         /\ \A k \in i .. LexNumber(i).stop - 1 : At(k) # "\n"
         /\ Munch(i, LexNumber(i))
<1> DEFINE S == {k \in From(i) : At(k) \notin Digits /\ ~ (At(k) = "." /\ At(k + 1) \in Digits)}
           j == First(S)
           t == LexNumber(i)
           s == Spelling(i, j - i)
<1>1. Len(text) \in Nat /\ \A k \in Nat : At(k) = End <=> k >= Len(text)
  BY TextIs
<1>2. End \notin Digits /\ End # "." /\ "." \notin Digits /\ "\n" \notin Digits /\ "\n" # "."
  BY CharactersApart DEF WordChar, End
<1>3. S \in SUBSET From(i) /\ Len(text) \in S /\ i \in 0 .. Len(text)
  BY <1>1, <1>2 DEF From
<1>4. j \in i .. Len(text) /\ j \in S /\ \A k \in i .. j - 1 : k \notin S
  <2> HIDE DEF S
  <2> QED
    BY <1>3, StopIs
<1>5. t = Lexed(IF \E k \in i .. j - 1 : At(k) = "." THEN DOUBLE ELSE INTEGER, j)
  BY DEF LexNumber
<1>6. /\ At(j) \notin Digits /\ (At(j) = "." => At(j + 1) \notin Digits)
      /\ \A k \in i .. j - 1 : At(k) \in Digits \/ (At(k) = "." /\ At(k + 1) \in Digits)
  <2> HIDE DEF j
  <2> QED
    BY <1>1, <1>4 DEF From
<1>7. t.stop = j /\ t.type = IF \E k \in i .. j - 1 : At(k) = "." THEN DOUBLE ELSE INTEGER
  <2> HIDE DEF j, t
  <2> QED
    BY <1>5 DEF Lexed
<1> HIDE DEF S, j, t
<1>8. j \in i + 1 .. Len(text)
  BY <1>1, <1>4, <1>6
<1>9. j - i \in Nat \ {0} /\ i + (j - i) <= Len(text)
  BY <1>1, <1>8
<1>10. /\ Len(s) = j - i
       /\ \A k \in 1 .. j - i : s[k] = At(i + k - 1)
       /\ Chars(s) = {At(k) : k \in i .. j - 1}
  <2>1. i + (j - i) - 1 = j - 1
    BY <1>1, <1>8
  <2> QED
    BY <1>9, <2>1, SpellingIs
<1>11. s[1] \in Digits
  <2>1. 1 \in 1 .. j - i /\ i + 1 - 1 = i
    BY <1>9
  <2> QED
    BY <1>10, <2>1
<1>12. IsDecimal(s)
  <2>1. Chars(s) \subseteq Digits \cup {"."}
    BY <1>6, <1>10
  <2>2. ASSUME NEW k \in 1 .. Len(s), s[k] = "." PROVE k < Len(s) /\ s[k + 1] \in Digits
    <3> DEFINE m == i + k - 1
    <3>1. m \in i .. j - 1 /\ s[k] = At(m)
      BY <1>8, <1>10
    <3>2. At(m + 1) \in Digits
      BY <1>2, <1>6, <2>2, <3>1
    <3>3. m + 1 # j
      BY <1>6, <3>2
    <3>4. k < Len(s) /\ k + 1 \in 1 .. j - i /\ i + (k + 1) - 1 = m + 1
      BY <1>8, <1>10, <3>1, <3>3
    <3>5. s[k + 1] = At(m + 1)
      BY <1>10, <3>4
    <3> QED
      BY <3>2, <3>4, <3>5
  <2> HIDE DEF s
  <2> QED
    BY <1>11, <2>1, <2>2 DEF IsDecimal
<1>13. ASSUME NEW n \in j - i + 1 .. Len(text) - i PROVE ~ IsLexeme(Spelling(i, n))
  <2> DEFINE r == Spelling(i, n)
             m == j - i + 1
  <2>1. n \in Nat \ {0} /\ i + n <= Len(text) /\ m \in 1 .. n /\ i + m - 1 = j /\ 1 \in 1 .. n
    BY <1>1, <1>8
  <2>2. Len(r) = n /\ \A k \in 1 .. n : r[k] = At(i + k - 1)
    BY <2>1, SpellingIs
  <2>3. r[m] = At(j) /\ r[1] = At(i)
    <3>1. r[1] = At(i + 1 - 1) /\ r[m] = At(i + m - 1)
      BY <2>1, <2>2
    <3> QED
      BY <2>1, <3>1
  <2>4. m < n => r[m + 1] = At(j + 1)
    <3>1. m < n => m + 1 \in 1 .. n /\ i + (m + 1) - 1 = j + 1
      BY <2>1, <1>8
    <3> QED
      BY <2>2, <3>1
  <2> HIDE DEF r, m
  <2>5. ~ IsDecimal(r)
    BY <1>6, <2>1, <2>2, <2>3, <2>4 DEF IsDecimal, Chars
  <2>6. ~ IsLexeme(r)
    BY <2>1, <2>2, <2>3, <2>5, FirstDecides
  <2> QED
    BY <2>6 DEF r
<1>14. IsLexeme(s) /\ Kind(s) = t.type
  <2>1. Len(s) \in Nat \ {0} /\ ("." \in Chars(s) <=> \E k \in i .. j - 1 : At(k) = ".")
    BY <1>9, <1>10
  <2> HIDE DEF s
  <2> QED
    BY <1>7, <1>11, <1>12, <2>1, FirstDecides
<1>15. \A k \in i .. j - 1 : At(k) # "\n"
  BY <1>2, <1>6
<1> HIDE DEF s
<1> QED
  BY <1>7, <1>8, <1>13, <1>14, <1>15 DEF Munch, s, t

\* A run of word characters that does not begin with a digit is one lexeme.
LEMMA WordMunched ==
  ASSUME text \in Texts, NEW i \in Nat, NEW j \in i + 1 .. Len(text), NEW type,
         At(i) \notin Digits, \A k \in i .. j - 1 : At(k) \in WordChar, At(j) \notin WordChar,
         type = IF Spelling(i, j - i) \in Keywords THEN Spelling(i, j - i) ELSE IDENTIFIER
  PROVE  Munch(i, Lexed(type, j))
<1> DEFINE s == Spelling(i, j - i)
<1>1. Len(text) \in Nat
  BY TextIs
<1>2. j - i \in Nat \ {0} /\ i + (j - i) <= Len(text) /\ i + (j - i) - 1 = j - 1
  BY <1>1
<1>3. ASSUME NEW n \in j - i .. Len(text) - i
      PROVE  /\ Len(Spelling(i, n)) = n
             /\ Spelling(i, n)[1] = At(i)
             /\ Chars(Spelling(i, n)) = {At(k) : k \in i .. i + n - 1}
  <2>1. n \in Nat /\ i + n <= Len(text) /\ 1 \in 1 .. n /\ i + 1 - 1 = i
    BY <1>1, <1>2
  <2>2. Spelling(i, n)[1] = At(i + 1 - 1)
    BY <2>1, SpellingIs
  <2> QED
    BY <2>1, <2>2, SpellingIs
<1>4. At(i) \in WordChar \ Digits
  <2>1. i \in i .. j - 1
    BY <1>2
  <2> QED
    BY <2>1
<1>5. Len(s) = j - i /\ s[1] = At(i) /\ Chars(s) = {At(k) : k \in i .. j - 1}
  <2>1. j - i \in j - i .. Len(text) - i
    BY <1>1, <1>2
  <2> QED
    BY <1>2, <1>3, <2>1
<1>6. IsLexeme(s) /\ type = Kind(s)
  <2> HIDE DEF s
  <2>1. IsWord(s)
    BY <1>4, <1>5 DEF IsWord
  <2>2. type = IF s \in Keywords THEN s ELSE IDENTIFIER
    BY DEF s
  <2> QED
    BY <1>2, <1>4, <1>5, <2>1, <2>2, FirstDecides
<1>7. ASSUME NEW n \in j - i + 1 .. Len(text) - i PROVE ~ IsLexeme(Spelling(i, n))
  <2> DEFINE r == Spelling(i, n)
  <2>1. n \in Nat \ {0} /\ n \in j - i .. Len(text) - i /\ j \in i .. i + n - 1
    BY <1>1, <1>2
  <2>2. Len(r) = n /\ r[1] = At(i) /\ At(j) \in Chars(r)
    BY <1>3, <2>1
  <2> HIDE DEF r
  <2>3. ~ IsWord(r)
    BY <2>2 DEF IsWord
  <2>4. ~ IsLexeme(r)
    BY <1>4, <2>1, <2>2, <2>3, FirstDecides
  <2> QED
    BY <2>4 DEF r
<1> QED
  BY <1>6, <1>7 DEF Munch, Lexed

\* What cannot be a word goes on as one over word characters.
LEMMA RunEndIs ==
  ASSUME text \in Texts, NEW i \in 0 .. Len(text)
  PROVE  /\ RunEnd(i, WordChar) \in i .. Len(text)
         /\ At(RunEnd(i, WordChar)) \notin WordChar
         /\ \A k \in i .. RunEnd(i, WordChar) - 1 : At(k) \in WordChar
<1> DEFINE S == {j \in From(i) : At(j) \notin WordChar}
           j == First(S)
<1>1. Len(text) \in Nat /\ \A k \in Nat : At(k) = End <=> k >= Len(text)
  BY TextIs
<1>2. End \notin WordChar
  BY CharactersApart
<1>3. S \in SUBSET From(i) /\ Len(text) \in S
  BY <1>1, <1>2 DEF From
<1>4. j \in i .. Len(text) /\ j \in S /\ \A k \in i .. j - 1 : k \notin S
  <2> HIDE DEF S
  <2> QED
    BY <1>3, StopIs
<1>5. At(j) \notin WordChar /\ \A k \in i .. j - 1 : At(k) \in WordChar
  <2> HIDE DEF j
  <2> QED
    BY <1>1, <1>4 DEF From
<1>6. RunEnd(i, WordChar) = j
  BY DEF RunEnd
<1> HIDE DEF j
<1> QED
  BY <1>4, <1>5, <1>6

\* parse_something stops behind the word or at the first character that differs.
LEMMA ParsedIs ==
  ASSUME text \in Texts, NEW i \in Nat, NEW w \in Keywords
  PROVE  /\ Parsed(i, w) \in 0 .. Len(w)
         /\ \A m \in 0 .. Parsed(i, w) - 1 : At(i + m) = w[m + 1]
         /\ Parsed(i, w) < Len(w) => At(i + Parsed(i, w)) # w[Parsed(i, w) + 1]
<1> DEFINE S == {n \in 0 .. Len(w) : n = Len(w) \/ At(i + n) # w[n + 1]}
           n == First(S)
<1>1. Len(w) \in Nat
  BY KeywordsAre
<1>2. S \in SUBSET Nat /\ Len(w) \in S
  BY <1>1
<1>3. n \in S /\ \A k \in S : n <= k
  <2> HIDE DEF S
  <2> QED
    BY <1>2, FirstIsLeast
<1>4. Parsed(i, w) = n
  BY DEF Parsed
<1>5. n \in 0 .. Len(w) /\ (n = Len(w) \/ At(i + n) # w[n + 1])
  <2> HIDE DEF n
  <2> QED
    BY <1>3
<1>6. \A m \in 0 .. n - 1 : At(i + m) = w[m + 1]
  <2> SUFFICES ASSUME NEW m \in 0 .. n - 1 PROVE At(i + m) = w[m + 1]
    OBVIOUS
  <2> HIDE DEF n
  <2>1. m \in 0 .. Len(w) /\ m < n /\ m # Len(w)
    BY <1>1, <1>5
  <2>2. m \notin S
    <3> HIDE DEF S
    <3> QED
      BY <1>1, <1>3, <1>5, <2>1
  <2> QED
    BY <2>1, <2>2
<1> HIDE DEF n, S
<1> QED
  BY <1>1, <1>4, <1>5, <1>6

\* A keyword spelled at i is a candidate.
LEMMA SpelledIsCandidate ==
  ASSUME text \in Texts, NEW i \in Nat, NEW n \in Nat, i + n <= Len(text),
         Spelling(i, n) \in Keywords
  PROVE  Spelling(i, n) \in Candidates(i)
<1> DEFINE s == Spelling(i, n)
<1>1. Len(s) = n /\ \A k \in 1 .. n : s[k] = At(i + k - 1)
  BY SpellingIs
<1>2. n >= 2
  BY <1>1, KeywordsAre
<1>3. 1 \in 1 .. n /\ 2 \in 1 .. n /\ i + 1 - 1 = i /\ i + 2 - 1 = i + 1
  BY <1>2
<1>4. s[1] = At(i + 1 - 1) /\ s[2] = At(i + 2 - 1)
  BY <1>1, <1>3
<1>5. s[1] = At(i) /\ s[2] = At(i + 1)
  BY <1>3, <1>4
<1> HIDE DEF s
<1> QED
  BY <1>5, Zenon DEF Candidates, s

\* What is neither a string, simple, nor a number: a word, or nothing at all.
LEMMA WordLexed ==
  ASSUME text \in Texts, NEW i \in Nat, i < Len(text), At(i) \notin Digits
  PROVE  LET t == LexWord(i)
         IN  /\ t.stop \in i .. Len(text)
             /\ t.type \in Keywords \cup {IDENTIFIER}
             /\ \A k \in i .. t.stop - 1 : At(k) # "\n"
             /\ t.stop # i => Munch(i, t)
<1> DEFINE t == LexWord(i)
           s == Spelling(i, t.stop - i)
<1> SUFFICES /\ t.stop \in i .. Len(text)
             /\ t.type \in Keywords \cup {IDENTIFIER}
             /\ \A k \in i .. t.stop - 1 : At(k) # "\n"
             /\ t.stop # i => Munch(i, t)
  OBVIOUS
<1>1. Len(text) \in Nat /\ \A k \in Nat : At(k) = End <=> k >= Len(text)
  BY TextIs
<1>2. End \notin WordChar /\ "\n" \notin WordChar /\ Letters \subseteq WordChar
  BY CharactersApart DEF WordChar
<1>3. ASSUME t.stop \in i .. Len(text), t = Lexed(t.type, t.stop),
             \A k \in i .. t.stop - 1 : At(k) \in WordChar, At(t.stop) \notin WordChar,
             t.type = IF s \in Keywords THEN s ELSE IDENTIFIER
      PROVE  /\ t.stop \in i .. Len(text)
             /\ t.type \in Keywords \cup {IDENTIFIER}
             /\ \A k \in i .. t.stop - 1 : At(k) # "\n"
             /\ t.stop # i => Munch(i, t)
  <2>1. t.stop # i => t.stop \in i + 1 .. Len(text)
    BY <1>1, <1>3
  <2>2. t.stop # i => Munch(i, Lexed(t.type, t.stop))
    BY <1>3, <2>1, WordMunched
  <2> HIDE DEF t
  <2> QED
    BY <1>2, <1>3, <2>2
<1>4. CASE Candidates(i) = {}
  <2> DEFINE j == RunEnd(i, WordChar)
  <2>1. t = Lexed(IDENTIFIER, j)
    BY <1>4 DEF LexWord, LexIdentifier
  <2>2. /\ j \in i .. Len(text) /\ At(j) \notin WordChar
        /\ \A k \in i .. j - 1 : At(k) \in WordChar
    BY <1>1, RunEndIs
  <2> HIDE DEF j
  <2>3. t.type = IDENTIFIER /\ t.stop = j
    BY <2>1 DEF Lexed
  <2>4. s \notin Keywords
    <3>1. t.stop - i \in Nat /\ i + (t.stop - i) <= Len(text)
      BY <1>1, <2>2, <2>3
    <3> QED
      BY <1>4, <3>1, SpelledIsCandidate
  <2> QED
    BY <1>3, <2>1, <2>2, <2>3, <2>4
<1>5. CASE Candidates(i) # {}
  <2> DEFINE w == CHOOSE w \in Candidates(i) : TRUE
             n == Parsed(i, w)
  <2>1. w \in Candidates(i) /\ t = LexSomething(i, w)
    BY <1>5 DEF LexWord
  <2> HIDE DEF w
  <2>2. w \in Keywords /\ w[1] = At(i) /\ (At(i) \in {"t", "f", "c"} => w[2] = At(i + 1))
    BY <2>1 DEF Candidates
  <2>3. Len(w) \in Nat /\ Len(w) >= 2 /\ w \in Seq(Letters) /\ \A k \in 1 .. Len(w) : w[k] \in Letters
    BY <2>2, KeywordsAre
  <2>4. /\ n \in 0 .. Len(w)
        /\ \A m \in 0 .. n - 1 : At(i + m) = w[m + 1]
        /\ n < Len(w) => At(i + n) # w[n + 1]
    BY <2>2, ParsedIs
  <2>5. t = IF n = Len(w) /\ At(i + n) \notin WordChar THEN Lexed(w, i + n)
                                                       ELSE LexIdentifier(i + n)
    BY <2>1 DEF LexSomething
  <2> HIDE DEF n, t
  <2>6. \A k \in i .. i + n - 1 : At(k) \in WordChar
    <3> SUFFICES ASSUME NEW k \in i .. i + n - 1 PROVE At(k) \in WordChar
      OBVIOUS
    <3>1. k - i \in 0 .. n - 1 /\ i + (k - i) = k /\ (k - i) + 1 \in 1 .. Len(w)
      BY <2>3, <2>4
    <3>2. At(i + (k - i)) = w[(k - i) + 1]
      BY <2>4, <3>1
    <3> QED
      BY <1>2, <2>3, <3>1, <3>2
  <2>7. i + n \in 0 .. Len(text)
    <3>1. CASE n = 0
      BY <1>1, <3>1
    <3>2. CASE n # 0
      <4>1. i + n - 1 \in i .. i + n - 1 /\ i + n - 1 \in Nat
        BY <2>3, <2>4, <3>2
      <4>2. At(i + n - 1) # End
        BY <1>2, <2>6, <4>1
      <4> QED
        BY <1>1, <2>3, <2>4, <4>1, <4>2
    <3> QED
      BY <3>1, <3>2
  <2>8. CASE n = Len(w) /\ At(i + n) \notin WordChar
    <3>1. t = Lexed(w, i + n) /\ t.type = w /\ t.stop = i + n
      BY <2>5, <2>8 DEF Lexed
    <3>2. s = w
      <4>1. t.stop - i = n /\ n \in Nat /\ i + n <= Len(text)
        BY <1>1, <2>4, <2>3, <2>7, <3>1
      <4> DEFINE r == Spelling(i, n)
      <4>2. /\ Len(r) = Len(w) /\ r \in Seq(STRING)
            /\ \A k \in 1 .. n : r[k] = At(i + k - 1)
        BY <2>8, <4>1, SpellingIs
      <4>3. \A k \in 1 .. n : r[k] = w[k]
        <5> SUFFICES ASSUME NEW k \in 1 .. n PROVE r[k] = w[k]
          OBVIOUS
        <5>1. k - 1 \in 0 .. n - 1 /\ i + (k - 1) = i + k - 1 /\ (k - 1) + 1 = k
          BY <4>1
        <5>2. At(i + (k - 1)) = w[(k - 1) + 1]
          BY <2>4, <5>1
        <5> QED
          BY <4>2, <5>1, <5>2
      <4> HIDE DEF r
      <4>4. r \in Seq(STRING \cup Letters) /\ w \in Seq(STRING \cup Letters)
        BY <2>3, <4>2
      <4>5. r = w
        BY <2>8, <4>2, <4>3, <4>4, SeqEqual
      <4> QED
        BY <4>1, <4>5 DEF r
    <3>3. At(t.stop) \notin WordChar /\ t.stop \in i .. Len(text)
      BY <1>1, <2>3, <2>4, <2>7, <2>8, <3>1
    <3>4. t = Lexed(t.type, t.stop) /\ t.type = IF s \in Keywords THEN s ELSE IDENTIFIER
      <4> HIDE DEF s
      <4> QED
        BY <2>2, <3>1, <3>2
    <3>5. \A k \in i .. t.stop - 1 : At(k) \in WordChar
      BY <2>3, <2>4, <2>6, <3>1
    <3> QED
      BY <1>3, <3>3, <3>4, <3>5
  <2>9. CASE ~ (n = Len(w) /\ At(i + n) \notin WordChar)
    <3> DEFINE j == RunEnd(i + n, WordChar)
    <3>1. t = Lexed(IDENTIFIER, j)
      BY <2>5, <2>9 DEF LexIdentifier
    <3>2. /\ j \in i + n .. Len(text) /\ At(j) \notin WordChar
          /\ \A k \in i + n .. j - 1 : At(k) \in WordChar
      BY <2>7, RunEndIs
    <3> HIDE DEF j
    <3>3. t.type = IDENTIFIER /\ t.stop = j
      BY <3>1 DEF Lexed
    <3>4. j \in i .. Len(text) /\ \A k \in i .. j - 1 : At(k) \in WordChar
      <4>1. j \in i .. Len(text)
        BY <1>1, <2>3, <2>4, <3>2
      <4>2. ASSUME NEW k \in i .. j - 1 PROVE At(k) \in WordChar
        <5>1. k \in i .. i + n - 1 \/ k \in i + n .. j - 1
          BY <2>3, <2>4, <2>7, <3>2
        <5> QED
          BY <2>6, <3>2, <5>1
      <4> QED
        BY <4>1, <4>2
    <3>5. s \notin Keywords
      <4> SUFFICES ASSUME s \in Keywords PROVE FALSE
        OBVIOUS
      <4>1. t.stop - i = j - i /\ j - i \in Nat /\ i + (j - i) <= Len(text)
        BY <1>1, <3>3, <3>4
      <4>2. Len(s) = j - i /\ \A k \in 1 .. j - i : s[k] = At(i + k - 1)
        BY <4>1, SpellingIs
      <4>3. s \in Candidates(i)
        BY <4>1, SpelledIsCandidate
      <4>4. s = w
        <5> HIDE DEF s
        <5>1. s[1] = w[1] /\ (s[1] \in {"t", "f", "c"} => s[2] = w[2])
          BY <2>2, <4>3 DEF Candidates
        <5> QED
          BY <2>2, <5>1, KeywordsAre
      <4>5. n = Len(w)
        <5> SUFFICES ASSUME n < Len(w) PROVE FALSE
          BY <2>3, <2>4
        <5>1. n + 1 \in 1 .. j - i /\ i + (n + 1) - 1 = i + n
          BY <2>3, <2>4, <4>2, <4>4
        <5>2. s[n + 1] = At(i + n)
          BY <4>2, <5>1
        <5> QED
          BY <2>4, <4>4, <5>2
      <4>6. i + n = j
        BY <1>1, <2>3, <3>4, <4>2, <4>4, <4>5
      <4> QED
        BY <2>9, <3>2, <4>5, <4>6
    <3> QED
      BY <1>3, <3>1, <3>2, <3>3, <3>4, <3>5
  <2> QED
    BY <2>8, <2>9
<1> HIDE DEF t
<1> QED
  BY <1>4, <1>5

Types == Keywords \cup Singles \cup Pairs
           \cup {IDENTIFIER, STRING_, INTEGER, DOUBLE, ERROR}

\* Every token is the longest lexeme where it starts, unless it is an error or empty;
\* only a string has a newline in it.
LEMMA LexIs ==
  ASSUME text \in Texts, NEW i \in Nat, i < Len(text)
  PROVE  /\ Lex(i).stop \in i .. Len(text)
         /\ Lex(i).type \in Types
         /\ At(i) # Quote => \A k \in i .. Lex(i).stop - 1 : At(k) # "\n"
         /\ Lex(i).stop # i /\ Lex(i).type # ERROR => Munch(i, Lex(i))
<1>1. Len(text) \in Nat
  BY TextIs
<1>2. CASE At(i) = Quote
  <2>1. Lex(i) = LexString(i)
    BY <1>2 DEF Lex
  <2>2. /\ LexString(i).stop \in i + 1 .. Len(text)
        /\ LexString(i).type \in {STRING_, ERROR}
        /\ LexString(i).type # ERROR => Munch(i, LexString(i))
    BY <1>2, StringMunched
  <2> QED
    BY <1>1, <1>2, <2>1, <2>2 DEF Types
<1>3. CASE At(i) # Quote /\ IsSimple(i)
  <2>1. Lex(i) = LexSimple(i)
    BY <1>3 DEF Lex
  <2>2. /\ LexSimple(i).stop \in i + 1 .. Len(text)
        /\ LexSimple(i).type \in Singles \cup Pairs
        /\ \A k \in i .. LexSimple(i).stop - 1 : At(k) # "\n"
        /\ Munch(i, LexSimple(i))
    BY <1>3, SimpleMunched
  <2> QED
    BY <1>1, <2>1, <2>2 DEF Types
<1>4. CASE At(i) # Quote /\ ~ IsSimple(i) /\ At(i) \in Digits
  <2>1. Lex(i) = LexNumber(i)
    BY <1>4 DEF Lex
  <2>2. /\ LexNumber(i).stop \in i + 1 .. Len(text)
        /\ LexNumber(i).type \in {INTEGER, DOUBLE}
        /\ \A k \in i .. LexNumber(i).stop - 1 : At(k) # "\n"
        /\ Munch(i, LexNumber(i))
    BY <1>4, NumberMunched
  <2> QED
    BY <1>1, <2>1, <2>2 DEF Types
<1>5. CASE At(i) # Quote /\ ~ IsSimple(i) /\ At(i) \notin Digits
  <2>1. Lex(i) = LexWord(i)
    BY <1>5 DEF Lex
  <2>2. /\ LexWord(i).stop \in i .. Len(text)
        /\ LexWord(i).type \in Keywords \cup {IDENTIFIER}
        /\ \A k \in i .. LexWord(i).stop - 1 : At(k) # "\n"
        /\ LexWord(i).stop # i => Munch(i, LexWord(i))
    BY <1>5, WordLexed
  <2> QED
    BY <2>1, <2>2 DEF Types
<1> QED
  BY <1>2, <1>3, <1>4, <1>5

-----------------------------------------------------------------------------
(***************************************************************************)
(* What is skipped, and the lines it has.                                  *)
(***************************************************************************)
\* A token starts at the first character that is neither blank nor in a comment.
LEMMA StartIs ==
  ASSUME text \in Texts, cursor \in 0 .. Len(text)
  PROVE  /\ Start \in cursor .. Len(text)
         /\ At(Start) = End \/ ~ (InComment(Start) \/ At(Start) \in Blank)
         /\ \A k \in cursor .. Start - 1 : InComment(k) \/ At(k) \in Blank
<1> DEFINE S == {j \in From(cursor) : At(j) = End \/ ~ (InComment(j) \/ At(j) \in Blank)}
           j == First(S)
<1>1. Len(text) \in Nat /\ \A k \in Nat : At(k) = End <=> k >= Len(text)
  BY TextIs
<1>2. S \in SUBSET From(cursor) /\ Len(text) \in S
  BY <1>1 DEF From
<1>3. j \in cursor .. Len(text) /\ j \in S /\ \A k \in cursor .. j - 1 : k \notin S
  <2> HIDE DEF S
  <2> QED
    BY <1>2, StopIs
<1>4. /\ At(j) = End \/ ~ (InComment(j) \/ At(j) \in Blank)
      /\ \A k \in cursor .. j - 1 : InComment(k) \/ At(k) \in Blank
  <2> HIDE DEF j
  <2> QED
    BY <1>1, <1>3 DEF From
<1>5. Start = j
  BY DEF Start
<1> HIDE DEF j
<1> QED
  BY <1>3, <1>4, <1>5

\* The newlines before a place in the text.
Newlines(n) == Cardinality({i \in 0 .. n - 1 : At(i) = "\n"})

\* They are counted piece by piece.
LEMMA NewlinesAdd ==
  ASSUME NEW a \in Nat, NEW b \in Nat, a <= b
  PROVE  /\ Newlines(a) \in Nat
         /\ Cardinality({i \in a .. b - 1 : At(i) = "\n"}) \in Nat
         /\ Newlines(b) = Newlines(a) + Cardinality({i \in a .. b - 1 : At(i) = "\n"})
<1> DEFINE A == {i \in 0 .. a - 1 : At(i) = "\n"}
           B == {i \in a .. b - 1 : At(i) = "\n"}
           C == {i \in 0 .. b - 1 : At(i) = "\n"}
<1>1. IsFiniteSet(0 .. a - 1) /\ IsFiniteSet(a .. b - 1)
  BY FS_Interval
<1>2. IsFiniteSet(A) /\ IsFiniteSet(B)
  <2>1. A \subseteq 0 .. a - 1 /\ B \subseteq a .. b - 1
    OBVIOUS
  <2> HIDE DEF A, B
  <2> QED
    BY <1>1, <2>1, FS_Subset
<1>3. A \cup B = C /\ A \cap B = {}
  OBVIOUS
<1>4. Newlines(a) = Cardinality(A) /\ Newlines(b) = Cardinality(C)
  BY DEF Newlines
<1> HIDE DEF A, B, C
<1>5. Cardinality(A) \in Nat /\ Cardinality(B) \in Nat
  BY <1>2, FS_CardinalityType
<1>6. Cardinality(A \cup B) = Cardinality(A) + Cardinality(B) - Cardinality({})
  BY <1>2, <1>3, FS_Union
<1>7. Cardinality({}) = 0
  BY FS_EmptySet
<1>8. Newlines(b) = Newlines(a) + Cardinality(B)
  <2>1. Cardinality(C) = Cardinality(A) + Cardinality(B) - Cardinality({})
    BY <1>3, <1>6, Zenon
  <2> QED
    BY <1>4, <1>5, <1>7, <2>1
<1> QED
  BY <1>4, <1>5, <1>8, Zenon DEF B

-----------------------------------------------------------------------------
(***************************************************************************)
(* The inductive invariant: a comment is skipped right behind its token,   *)
(* nothing follows the end, and line is up to date wherever cursor stands, *)
(* as long as no string has hidden a newline.                              *)
(***************************************************************************)
NoStrings == \A i \in DOMAIN text : text[i] # Quote

LexerInv ==
  /\ text \in Texts
  /\ TypeOK
  /\ token.type = EOF => cursor = Len(text)
  /\ token.type # EOF => in_comment = (token.type = Comment)
  /\ NoStrings => line = Newlines(cursor)

\* A step of the lexer, with what the lemmas say of it.
LEMMA StepIs ==
  ASSUME LexerInv, Next
  PROVE  /\ text' = text
         /\ Start \in cursor .. Len(text) /\ cursor \in Nat /\ Len(text) \in Nat
         /\ line' = line + Cardinality({i \in cursor .. Start - 1 : At(i) = "\n"})
         /\ \/ /\ Start = Len(text) /\ cursor' = Start
               /\ in_comment' \in BOOLEAN
               /\ token' = Token(EOF, Start - 1, 1, line')
            \/ /\ Start < Len(text) /\ token.type # EOF
               /\ cursor' = Lex(Start).stop
               /\ in_comment' = (Lex(Start).type = Comment)
               /\ token' = Token(Lex(Start).type, Start, Lex(Start).stop - Start, line')
<1>1. text \in Texts /\ cursor \in 0 .. Len(text)
  BY DEF LexerInv, TypeOK
<1>2. Len(text) \in Nat /\ \A k \in Nat : At(k) = End <=> k >= Len(text)
  BY <1>1, TextIs
<1>3. Start \in cursor .. Len(text)
  BY <1>1, StartIs
<1>4. Start \in Nat /\ cursor \in Nat
  BY <1>1, <1>2, <1>3
<1>5. CASE EndOfText
  <2>1. Start = Len(text)
    BY <1>2, <1>3, <1>4, <1>5 DEF EndOfText
  <2>2. InComment(Start) \in BOOLEAN
    BY DEF LexerInv, TypeOK, InComment
  <2> QED
    BY <1>2, <1>3, <1>4, <1>5, <2>1, <2>2 DEF EndOfText, LinesTo
<1>6. CASE NextToken
  <2>1. Start < Len(text)
    BY <1>2, <1>3, <1>4, <1>6 DEF NextToken
  <2>2. token.type # EOF
    BY <1>1, <1>2, <1>3, <2>1 DEF LexerInv
  <2> QED
    BY <1>2, <1>3, <1>4, <1>6, <2>1, <2>2 DEF NextToken, LinesTo
<1> QED
  BY <1>5, <1>6 DEF Next

LEMMA TypesApart ==
  /\ EOF \notin Types /\ NONE # EOF /\ NONE # Comment /\ EOF # Comment
  /\ Types \subseteq Keywords \cup Singles \cup Pairs
       \cup {NONE, IDENTIFIER, STRING_, INTEGER, DOUBLE, ERROR, EOF}
<1>1. EOF \notin Keywords
  <2>1. Len(EOF) = 1
    BY DEF EOF
  <2> QED
    BY <2>1, KeywordsAre
<1>2. EOF \notin Singles \cup Pairs
  BY DEF EOF, Singles, Pairs
<1>3. EOF \notin {IDENTIFIER, STRING_, INTEGER, DOUBLE, ERROR}
  BY DEF EOF, IDENTIFIER, STRING_, INTEGER, DOUBLE, ERROR
<1>4. NONE # EOF /\ NONE # Comment /\ EOF # Comment
  BY DEF NONE, EOF, Comment
<1> QED
  BY <1>1, <1>2, <1>3, <1>4 DEF Types

\* What is skipped has every newline between two places, where only a string may have more.
LEMMA LexerInvStep == LexerInv /\ [Next]_vars => LexerInv'
<1> SUFFICES ASSUME LexerInv, [Next]_vars PROVE LexerInv'
  OBVIOUS
<1>1. CASE UNCHANGED vars
  BY <1>1 DEF vars, LexerInv, TypeOK, NoStrings, Newlines, At
<1>2. CASE Next
  <2> DEFINE lines == Cardinality({i \in cursor .. Start - 1 : At(i) = "\n"})
  <2>1. text \in Texts /\ cursor \in 0 .. Len(text) /\ line \in Nat
    BY DEF LexerInv, TypeOK
  <2>2. /\ text' = text
        /\ Start \in cursor .. Len(text) /\ cursor \in Nat /\ Len(text) \in Nat
        /\ line' = line + lines
        /\ \/ /\ Start = Len(text) /\ cursor' = Start
              /\ in_comment' \in BOOLEAN
              /\ token' = Token(EOF, Start - 1, 1, line')
           \/ /\ Start < Len(text) /\ token.type # EOF
              /\ cursor' = Lex(Start).stop
              /\ in_comment' = (Lex(Start).type = Comment)
              /\ token' = Token(Lex(Start).type, Start, Lex(Start).stop - Start, line')
    BY <1>2, StepIs
  <2>3. Start \in Nat /\ cursor <= Start
    BY <2>2
  <2>4. lines \in Nat /\ Newlines(cursor) \in Nat /\ Newlines(Start) = Newlines(cursor) + lines
    BY <2>2, <2>3, NewlinesAdd
  <2> HIDE DEF lines
  <2>5. NoStrings => line' = Newlines(Start)
    BY <2>2, <2>4 DEF LexerInv
  <2>6. NoStrings' <=> NoStrings
    BY <2>2 DEF NoStrings
  <2>7. Newlines(cursor)' = Newlines(cursor')
    BY <2>2 DEF Newlines, At
  <2>8. line' \in Nat
    BY <2>1, <2>2, <2>4
  <2>9. CASE /\ Start = Len(text) /\ cursor' = Start
             /\ in_comment' \in BOOLEAN
             /\ token' = Token(EOF, Start - 1, 1, line')
    <3>1. token'.type = EOF
      BY <2>9 DEF Token
    <3> QED
      BY <2>1, <2>2, <2>5, <2>6, <2>7, <2>8, <2>9, <3>1 DEF LexerInv, TypeOK
  <2>10. CASE /\ Start < Len(text) /\ token.type # EOF
              /\ cursor' = Lex(Start).stop
              /\ in_comment' = (Lex(Start).type = Comment)
              /\ token' = Token(Lex(Start).type, Start, Lex(Start).stop - Start, line')
    <3> DEFINE stop == Lex(Start).stop
               type == Lex(Start).type
    <3>1. /\ stop \in Start .. Len(text) /\ type \in Types
          /\ At(Start) # Quote => \A k \in Start .. stop - 1 : At(k) # "\n"
      BY <2>1, <2>3, <2>10, LexIs
    <3>2. token'.type = type /\ cursor' = stop /\ in_comment' = (type = Comment)
      BY <2>10 DEF Token
    <3> HIDE DEF stop, type
    <3>3. type # EOF
      BY <3>1, TypesApart
    <3>4. NoStrings => Newlines(stop) = Newlines(Start)
      <4> SUFFICES ASSUME NoStrings PROVE Newlines(stop) = Newlines(Start)
        OBVIOUS
      <4>1. At(Start) # Quote
        <5>1. At(Start) = text[Start + 1] /\ text \in Seq(STRING)
          BY <2>1, <2>3, <2>10, AtIs
        <5>2. Start + 1 \in DOMAIN text
          BY <2>2, <2>3, <2>10, <5>1
        <5> QED
          BY <5>1, <5>2 DEF NoStrings
      <4>2. {i \in Start .. stop - 1 : At(i) = "\n"} = {}
        BY <3>1, <4>1
      <4>3. stop \in Nat /\ Start <= stop
        BY <2>2, <2>3, <3>1
      <4>4. /\ Newlines(Start) \in Nat
            /\ Newlines(stop) = Newlines(Start) + Cardinality({i \in Start .. stop - 1 : At(i) = "\n"})
        BY <2>3, <4>3, NewlinesAdd
      <4> QED
        BY <4>2, <4>4, FS_EmptySet
    <3>5. /\ cursor' \in 0 .. Len(text) /\ in_comment' \in BOOLEAN
          /\ token'.type \in Types
      BY <2>2, <2>3, <3>1, <3>2
    <3>6. TypeOK'
      BY <2>2, <2>8, <3>5, TypesApart DEF TypeOK
    <3>7. NoStrings' => line' = Newlines(cursor)'
      BY <2>5, <2>6, <2>7, <3>2, <3>4
    <3> QED
      BY <2>1, <2>2, <3>2, <3>3, <3>6, <3>7 DEF LexerInv
  <2> QED
    BY <2>2, <2>9, <2>10
<1> QED
  BY <1>1, <1>2 DEF Next

LEMMA LexerInvInit == Init => LexerInv
<1> SUFFICES ASSUME Init PROVE LexerInv
  OBVIOUS
<1>1. text \in Texts /\ cursor = 0 /\ line = 0 /\ in_comment = FALSE /\ token.type = NONE
  BY DEF Init, Token
<1>2. Len(text) \in Nat
  BY <1>1, TextIs
<1>3. Newlines(cursor) = 0
  <2>1. {i \in 0 .. cursor - 1 : At(i) = "\n"} = {}
    BY <1>1
  <2> QED
    BY <2>1, FS_EmptySet DEF Newlines
<1>4. token.type # Comment /\ token.type # EOF
  BY <1>1, TypesApart
<1>5. TypeOK
  <2>1. cursor \in 0 .. Len(text) /\ line \in Nat
    BY <1>1, <1>2
  <2>2. in_comment \in BOOLEAN
    BY <1>1
  <2> QED
    BY <1>1, <2>1, <2>2 DEF TypeOK
<1>6. in_comment = (token.type = Comment)
  BY <1>1, <1>4
<1>7. NoStrings => line = Newlines(cursor)
  BY <1>1, <1>3
<1> QED
  BY <1>1, <1>4, <1>5, <1>6, <1>7 DEF LexerInv

LEMMA LexerInvariant == Spec => []LexerInv
  BY LexerInvInit, LexerInvStep, PTL DEF Spec

(***************************************************************************)
(* The fields of the lexer keep their types: cursor does not leave the     *)
(* text, however a token ends with it.                                     *)
(***************************************************************************)
THEOREM LexerTyped == Spec => []TypeOK
<1>1. LexerInv => TypeOK
  BY DEF LexerInv
<1> QED
  BY <1>1, LexerInvariant, PTL

(***************************************************************************)
(* Of every text, next_token takes the longest lexeme where a token        *)
(* starts, and a word is a keyword exactly when it is spelled like one.    *)
(***************************************************************************)
THEOREM LongestTokens == Spec => []MaximalMunch
<1>1. Init => MaximalMunch
  <2>1. Init => token.length = 0
    BY DEF Init, Token
  <2> QED
    BY <2>1 DEF MaximalMunch
<1>2. LexerInv /\ MaximalMunch /\ [Next]_vars => MaximalMunch'
  <2> SUFFICES ASSUME LexerInv, MaximalMunch, [Next]_vars PROVE MaximalMunch'
    OBVIOUS
  <2>1. CASE UNCHANGED vars
    BY <2>1 DEF vars, MaximalMunch, Spelling
  <2>2. CASE Next
    <3>1. text \in Texts /\ cursor \in 0 .. Len(text)
      BY DEF LexerInv, TypeOK
    <3>2. /\ text' = text
          /\ Start \in cursor .. Len(text) /\ cursor \in Nat /\ Len(text) \in Nat
          /\ \/ token' = Token(EOF, Start - 1, 1, line')
             \/ /\ Start < Len(text)
                /\ token' = Token(Lex(Start).type, Start, Lex(Start).stop - Start, line')
      BY <2>2, StepIs
    <3>3. CASE token' = Token(EOF, Start - 1, 1, line')
      BY <3>3 DEF MaximalMunch, Token
    <3>4. CASE /\ Start < Len(text)
               /\ token' = Token(Lex(Start).type, Start, Lex(Start).stop - Start, line')
      <4> DEFINE i == Start
                 t == Lex(Start)
      <4>1. /\ t.stop \in i .. Len(text)
            /\ t.stop # i /\ t.type # ERROR => Munch(i, t)
        BY <3>1, <3>2, <3>4, LexIs
      <4>2. token'.type = t.type /\ token'.pos = i /\ token'.length = t.stop - i
        BY <3>4 DEF Token
      <4> HIDE DEF i, t
      <4>3. token'.length > 0 => t.stop # i
        BY <3>2, <4>1, <4>2 DEF i
      <4>4. \A n : Spelling(i, n) = SubSeq(text', token'.pos + 1, token'.pos + n)
        BY <3>2, <4>2 DEF Spelling
      <4>5. ASSUME Munch(i, t)
            PROVE  LET s == SubSeq(text', token'.pos + 1, token'.pos + token'.length)
                   IN  /\ IsLexeme(s)
                       /\ \A n \in token'.length + 1 .. Len(text') - token'.pos :
                            ~ IsLexeme(SubSeq(text', token'.pos + 1, token'.pos + n))
                       /\ token'.type = Kind(s)
        BY <3>2, <4>2, <4>4, <4>5, Zenon DEF Munch
      <4> QED
        BY <4>1, <4>2, <4>3, <4>5 DEF MaximalMunch, Spelling
    <3> QED
      BY <3>2, <3>3, <3>4
  <2> QED
    BY <2>1, <2>2
<1> QED
  BY <1>1, <1>2, LexerInvariant, PTL DEF Spec

(***************************************************************************)
(* Nothing of a text is lost between two tokens but blanks and comments.   *)
(***************************************************************************)
THEOREM TextCovered == Spec => NothingLost
<1> DEFINE Covered == IF token'.type = EOF
                        THEN Skippable(cursor, Len(text)) \/ token.type = EOF
                        ELSE token'.pos + token'.length = cursor' /\ Skippable(cursor, token'.pos)
<1>1. LexerInv /\ [Next]_vars => [Covered]_vars
  <2> SUFFICES ASSUME LexerInv, Next PROVE Covered
    OBVIOUS
  <2>1. text \in Texts /\ cursor \in 0 .. Len(text)
    BY DEF LexerInv, TypeOK
  <2>2. /\ Start \in cursor .. Len(text) /\ cursor \in Nat /\ Len(text) \in Nat
        /\ \/ Start = Len(text) /\ token' = Token(EOF, Start - 1, 1, line')
           \/ /\ Start < Len(text) /\ token.type # EOF
              /\ cursor' = Lex(Start).stop
              /\ token' = Token(Lex(Start).type, Start, Lex(Start).stop - Start, line')
    BY StepIs
  <2>3. ASSUME token.type # EOF PROVE Skippable(cursor, Start)
    <3> DEFINE S == {j \in cursor .. Start : j = Start \/ ~ in_comment \/ At(j) = "\n"}
               stop == First(S)
    <3>1. in_comment \in BOOLEAN /\ (in_comment => token.type = Comment)
      BY <2>3 DEF LexerInv, TypeOK
    <3>2. \A k \in cursor .. Start - 1 : InComment(k) \/ At(k) \in Blank
      BY <2>1, StartIs
    <3>3. S \in SUBSET Nat /\ Start \in S
      BY <2>2
    <3>4. stop \in S /\ \A k \in S : stop <= k
      <4> HIDE DEF S
      <4> QED
        BY <3>3, FirstIsLeast
    <3> HIDE DEF stop
    <3>5. stop \in cursor .. Start /\ (stop = Start \/ ~ in_comment \/ At(stop) = "\n")
      BY <3>4
    <3>6. ASSUME NEW k \in cursor .. stop - 1 PROVE token.type = Comment /\ At(k) # "\n"
      <4>1. k \in cursor .. Start /\ k < stop
        BY <2>2, <3>5
      <4>2. k \notin S
        <5> HIDE DEF S
        <5> QED
          BY <2>2, <3>4, <3>5, <4>1
      <4> QED
        BY <3>1, <4>1, <4>2
    <3>7. ASSUME NEW k \in stop .. Start - 1 PROVE At(k) \in Blank
      <4>1. k \in cursor .. Start - 1 /\ stop # Start
        BY <2>2, <3>5
      <4>2. CASE ~ in_comment
        BY <3>2, <4>1, <4>2 DEF InComment
      <4>3. CASE At(stop) = "\n" /\ k = stop
        BY <4>3 DEF Blank
      <4>4. CASE At(stop) = "\n" /\ k # stop
        <5>1. stop \in cursor .. k - 1
          BY <2>2, <3>5, <4>1, <4>4
        <5>2. ~ InComment(k)
          BY <4>4, <5>1 DEF InComment
        <5> QED
          BY <3>2, <4>1, <5>2
      <4> QED
        BY <3>5, <4>1, <4>2, <4>3, <4>4
    <3> HIDE DEF S
    <3> QED
      BY <3>5, <3>6, <3>7 DEF Skippable
  <2>4. CASE Start = Len(text) /\ token' = Token(EOF, Start - 1, 1, line')
    <3>1. token'.type = EOF
      BY <2>4 DEF Token
    <3> QED
      BY <2>3, <2>4, <3>1
  <2>5. CASE /\ Start < Len(text) /\ token.type # EOF
             /\ cursor' = Lex(Start).stop
             /\ token' = Token(Lex(Start).type, Start, Lex(Start).stop - Start, line')
    <3>1. Lex(Start).stop \in Start .. Len(text) /\ Lex(Start).type \in Types
      BY <2>1, <2>2, <2>5, LexIs
    <3>2. /\ token'.type = Lex(Start).type /\ token'.pos = Start
          /\ token'.length = Lex(Start).stop - Start
      BY <2>5 DEF Token
    <3>3. token'.type # EOF
      BY <3>1, <3>2, TypesApart
    <3>4. token'.pos + token'.length = cursor'
      BY <2>2, <2>5, <3>1, <3>2
    <3> QED
      BY <2>3, <2>5, <3>2, <3>3, <3>4
  <2> QED
    BY <2>2, <2>4, <2>5
<1> HIDE DEF Covered
<1>2. Spec => [][Covered]_vars
  BY <1>1, LexerInvariant, PTL DEF Spec
<1> QED
  BY <1>2 DEF NothingLost, Covered

(***************************************************************************)
(* A token's line counts the newlines before it, those that end comments   *)
(* included, in every text without a string.                               *)
(***************************************************************************)
THEOREM LinesCounted == Spec => []Lines
<1>1. Init => Lines
  <2>1. Init => token.type = NONE
    BY DEF Init, Token
  <2> QED
    BY <2>1 DEF Lines
<1>2. LexerInv /\ Lines /\ [Next]_vars => Lines'
  <2> SUFFICES ASSUME LexerInv, Lines, [Next]_vars PROVE Lines'
    OBVIOUS
  <2>1. CASE UNCHANGED vars
    BY <2>1 DEF vars, Lines, At
  <2>2. CASE Next
    <3> DEFINE lines == Cardinality({i \in cursor .. Start - 1 : At(i) = "\n"})
    <3>1. /\ text' = text
          /\ Start \in cursor .. Len(text) /\ cursor \in Nat /\ Len(text) \in Nat
          /\ line' = line + lines
          /\ \/ token' = Token(EOF, Start - 1, 1, line')
             \/ token' = Token(Lex(Start).type, Start, Lex(Start).stop - Start, line')
      BY <2>2, StepIs
    <3>2. Start \in Nat /\ cursor <= Start
      BY <3>1
    <3>3. lines \in Nat /\ Newlines(cursor) \in Nat /\ Newlines(Start) = Newlines(cursor) + lines
      BY <3>1, <3>2, NewlinesAdd
    <3> HIDE DEF lines
    <3>4. NoStrings => line' = Newlines(Start)
      BY <3>1, <3>3 DEF LexerInv
    <3>5. CASE token' = Token(EOF, Start - 1, 1, line')
      BY <3>5 DEF Lines, Token
    <3>6. CASE token' = Token(Lex(Start).type, Start, Lex(Start).stop - Start, line')
      <4>1. token'.pos = Start /\ token'.line = line'
        BY <3>6 DEF Token
      <4>2. NoStrings' <=> NoStrings
        BY <3>1 DEF NoStrings
      <4>3. Cardinality({i \in 0 .. token.pos - 1 : At(i) = "\n"})' = Newlines(token'.pos)
        BY <3>1 DEF Newlines, At
      <4>4. NoStrings' =>
              token'.line = Cardinality({i \in 0 .. token.pos - 1 : At(i) = "\n"})'
        BY <3>4, <4>1, <4>2, <4>3
      <4> QED
        BY <4>4 DEF Lines, NoStrings
    <3> QED
      BY <3>1, <3>5, <3>6
  <2> QED
    BY <2>1, <2>2
<1> QED
  BY <1>1, <1>2, LexerInvariant, PTL DEF Spec

=============================================================================
