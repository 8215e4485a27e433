------------------------------ MODULE UucLexer ------------------------------
(***************************************************************************)
(* The lexer: next_token, called again and again on one text.  A character *)
(* is a string of length one; the text stops before the first '\0' or EOF  *)
(* of the input.  The type of a token that is spelled in one way only is   *)
(* that spelling, a sequence of characters; other types are named by one.  *)
(* The loops of the code, which move cursor over characters of some kind,  *)
(* are given by where they stop.                                           *)
(***************************************************************************)
EXTENDS Integers, Sequences, FiniteSets

CONSTANTS Texts,     \* the inputs
          Letters,   \* a-z and A-Z
          Digits     \* 0-9

VARIABLES text, cursor, line, in_comment,
          token      \* what the last next_token returned

vars == <<text, cursor, line, in_comment, token>>

Keywords ==
  { <<"v","a","r">>, <<"t","r","u","e">>, <<"t","h","i","s">>, <<"f","n">>,
    <<"f","a","l","s","e">>, <<"f","o","r">>, <<"c","l","a","s","s">>,
    <<"c","o","n","t","i","n","u","e">>, <<"b","r","e","a","k">>, <<"i","f">>,
    <<"e","l","s","e">>, <<"w","h","i","l","e">>, <<"n","u","l","l">>,
    <<"s","u","p","e","r">>, <<"r","e","t","u","r","n">> }

\* rules[].character, and rules[].character followed by pairs[].character
Singles == {<<c>> : c \in {"+", "-", "=", "!", ">", "<", "&", "|", "*", "/",
                           ":", ";", ".", ",", "(", ")", "{", "}"}}
Pairs == {<<c, "=">> : c \in {"+", "-", "=", "!", ">", "<", "&", "|", "*", "/"}}
           \cup {<<c, c>> : c \in {"+", "-", "&", "|", "/"}}

Comment == <<"/", "/">>

IDENTIFIER == <<"IDENTIFIER">>
STRING_    == <<"STRING">>
INTEGER    == <<"INTEGER">>
DOUBLE     == <<"DOUBLE">>
ERROR      == <<"ERROR">>
EOF        == <<"EOF">>
NONE       == <<"NONE">>

Blank    == {" ", "\n", "\t", "\r"}
WordChar == Letters \cup Digits \cup {"_"}

End == "end"

Quote == "\""

Backslash == "\\"

ASSUME TextsAssumption ==
  \A t \in Texts : t \in Seq(STRING) /\ End \notin {t[i] : i \in 1 .. Len(t)}

\* What tells a letter, a digit and every other character of the language apart.
ASSUME CharactersAssumption ==
  /\ \A w \in Keywords : {w[i] : i \in 1 .. Len(w)} \subseteq Letters
  /\ Letters \cap Digits = {}
  /\ (Letters \cup Digits) \cap
       (Blank \cup {c[1] : c \in Singles} \cup {"_", Quote, End}) = {}

\* input[i]
At(i) == IF i < Len(text) THEN text[i + 1] ELSE End

First(S) == CHOOSE i \in S : \A j \in S : i <= j
From(i)  == i .. Len(text)

\* Where a run of characters of C that starts at i stops.
RunEnd(i, C) == First({j \in From(i) : At(j) \notin C})

-----------------------------------------------------------------------------
(***************************************************************************)
(* What is skipped before a token: blanks, and a comment up to its line    *)
(* end.                                                                    *)
(***************************************************************************)
\* Mutant of InComment: a newline does not end a comment.
CommentForever(j) == in_comment

InComment(j) == in_comment /\ \A i \in cursor .. j - 1 : At(i) # "\n"

\* Mutant of Start: a carriage return is not skipped.
StartOnUnix ==
  First({j \in From(cursor) : At(j) = End \/ ~ (InComment(j) \/ At(j) \in Blank \ {"\r"})})

Start == First({j \in From(cursor) : At(j) = End \/ ~ (InComment(j) \/ At(j) \in Blank)})

\* Mutant of LinesTo: the newline that ends a comment is not counted.
LinesAfterComment(j) ==
  Cardinality({i \in cursor .. j - 1 : At(i) = "\n" /\ ~ InComment(i)})

LinesTo(j) == Cardinality({i \in cursor .. j - 1 : At(i) = "\n"})

-----------------------------------------------------------------------------
(***************************************************************************)
(* Each of the lex_ functions, called with cursor at i, gives the type of  *)
(* the token and where cursor is left.                                     *)
(***************************************************************************)
Lexed(type, stop) == [type |-> type, stop |-> stop]

\* Mutant of LexString: the end of the text taken for a closing quote.
LexOpenString(i) ==
  LET j == First({k \in From(i + 1) : At(k) = End \/ (At(k) = Quote /\ At(k - 1) # Backslash)})
  IN  Lexed(STRING_, j + 1)

\* A quote after a backslash does not close, whatever is before the backslash.
LexString(i) ==
  LET j == First({k \in From(i + 1) : At(k) = End \/ (At(k) = Quote /\ At(k - 1) # Backslash)})
  IN  IF At(j) = End THEN Lexed(ERROR, j) ELSE Lexed(STRING_, j + 1)

IsSimple(i) == <<At(i)>> \in Singles

LexSimple(i) ==
  IF <<At(i), At(i + 1)>> \in Pairs THEN Lexed(<<At(i), At(i + 1)>>, i + 2)
                                    ELSE Lexed(<<At(i)>>, i + 1)

\* Any number of dots, each followed by a digit.
LexNumber(i) ==
  LET j == First({k \in From(i) :
                   At(k) \notin Digits /\ ~ (At(k) = "." /\ At(k + 1) \in Digits)})
  IN  Lexed(IF \E k \in i .. j - 1 : At(k) = "." THEN DOUBLE ELSE INTEGER, j)

LexIdentifier(i) == Lexed(IDENTIFIER, RunEnd(i, WordChar))

\* How many characters of word are found at i.
Parsed(i, word) ==
  First({n \in 0 .. Len(word) : n = Len(word) \/ At(i + n) # word[n + 1]})

\* Mutant of LexSomething: what follows the keyword is not looked at.
LexPrefix(i, word) ==
  LET n == Parsed(i, word)
  IN  IF n = Len(word) THEN Lexed(word, i + n) ELSE LexIdentifier(i + n)

\* A word that turns out not to be the keyword goes on as an identifier.
LexSomething(i, word) ==
  LET n == Parsed(i, word)
  IN  IF n = Len(word) /\ At(i + n) \notin WordChar THEN Lexed(word, i + n)
                                                    ELSE LexIdentifier(i + n)

\* The switch of next_token: the first character, or the first two of them,
\* tell which keyword a word may be.
Candidates(i) ==
  {w \in Keywords : w[1] = At(i) /\ (At(i) \in {"t", "f", "c"} => w[2] = At(i + 1))}

LexWord(i) ==
  IF Candidates(i) = {} THEN LexIdentifier(i)
                        ELSE LexSomething(i, CHOOSE w \in Candidates(i) : TRUE)

\* An unknown character makes an empty identifier and stays where it is.
Lex(i) ==
  IF At(i) = Quote THEN LexString(i)
  ELSE IF IsSimple(i) THEN LexSimple(i)
  ELSE IF At(i) \in Digits THEN LexNumber(i)
  ELSE LexWord(i)

Token(type, pos, length, at) == [type |-> type, pos |-> pos, length |-> length, line |-> at]

-----------------------------------------------------------------------------
Init ==
  /\ text \in Texts
  /\ cursor = 0
  /\ line = 0
  /\ in_comment = FALSE
  /\ token = Token(NONE, 0, 0, 0)

\* The EOF token has the length 1 and starts before cursor.
EndOfText ==
  /\ At(Start) = End
  /\ cursor' = Start
  /\ line' = line + LinesTo(Start)
  /\ in_comment' = InComment(Start)
  /\ token' = Token(EOF, Start - 1, 1, line')
  /\ UNCHANGED text

NextToken ==
  /\ At(Start) # End
  /\ \E start \in {Start} : \E t \in {Lex(start)} :
       /\ cursor' = t.stop
       /\ in_comment' = (t.type = Comment)
       /\ line' = line + LinesTo(start)
       /\ token' = Token(t.type, start, t.stop - start, line')
  /\ UNCHANGED text

Next == EndOfText \/ NextToken

\* The compiler and scan ask for tokens in a loop.
Spec == Init /\ [][Next]_vars /\ WF_vars(Next)

-----------------------------------------------------------------------------
\* Type invariant.
TypeOK ==
  /\ cursor \in 0 .. Len(text)
  /\ line \in Nat /\ in_comment \in BOOLEAN
  /\ token.type \in Keywords \cup Singles \cup Pairs
       \cup {NONE, IDENTIFIER, STRING_, INTEGER, DOUBLE, ERROR, EOF}

\* The language's tokens: words, numbers, strings and the simple ones.
Chars(s) == {s[i] : i \in 1 .. Len(s)}

IsWord(s) == Chars(s) \subseteq WordChar /\ s[1] \notin Digits

IsDecimal(s) ==
  /\ Chars(s) \subseteq Digits \cup {"."}
  /\ s[1] \in Digits
  /\ \A i \in 1 .. Len(s) : s[i] = "." => i < Len(s) /\ s[i + 1] \in Digits

IsString(s) ==
  /\ Len(s) > 1 /\ s[1] = Quote /\ s[Len(s)] = Quote /\ s[Len(s) - 1] # Backslash
  /\ \A i \in 2 .. Len(s) - 1 : s[i] = Quote => s[i - 1] = Backslash

IsLexeme(s) == s \in Singles \cup Pairs \/ IsWord(s) \/ IsDecimal(s) \/ IsString(s)

Kind(s) ==
  IF s \in Singles \cup Pairs \cup Keywords THEN s
  ELSE IF IsString(s) THEN STRING_
  ELSE IF IsDecimal(s) THEN IF "." \in Chars(s) THEN DOUBLE ELSE INTEGER
  ELSE IDENTIFIER

Spelling(pos, length) == SubSeq(text, pos + 1, pos + length)

(***************************************************************************)
(* Maximal munch: a token is the longest lexeme that starts where it does, *)
(* and a word is a keyword exactly when all of it is spelled like one.     *)
(* next_token tells words apart by one or two characters, reads ahead for  *)
(* a keyword and may have to go on from the middle of it; nothing is ever  *)
(* read twice.                                                             *)
(***************************************************************************)
MaximalMunch ==
  token.length > 0 /\ token.type \notin {EOF, ERROR} =>
    /\ IsLexeme(Spelling(token.pos, token.length))
    /\ \A n \in token.length + 1 .. Len(text) - token.pos :
         ~ IsLexeme(Spelling(token.pos, n))
    /\ token.type = Kind(Spelling(token.pos, token.length))

(***************************************************************************)
(* Consecutive tokens leave out nothing of the text but blanks and what is *)
(* behind a comment's slashes on the same line; with their blanks and      *)
(* comments they are the text.                                             *)
(***************************************************************************)
Skippable(from, to) ==
  \E stop \in from .. to :
    /\ \A i \in from .. stop - 1 : token.type = Comment /\ At(i) # "\n"
    /\ \A i \in stop .. to - 1 : At(i) \in Blank

NothingLost ==
  [][IF token'.type = EOF
       THEN Skippable(cursor, Len(text)) \/ token.type = EOF
       ELSE token'.pos + token'.length = cursor' /\ Skippable(cursor, token'.pos)]_vars

(***************************************************************************)
(* The line of a token, which error messages quote, is the number of       *)
(* newlines before it, those that end comments included, unless a string   *)
(* spans lines: the newlines in it are never counted.                      *)
(***************************************************************************)
Lines ==
  (\A i \in DOMAIN text : text[i] # Quote) /\ token.type \notin {NONE, EOF} =>
    token.line = Cardinality({i \in 0 .. token.pos - 1 : At(i) = "\n"})

(***************************************************************************)
(* The text comes to its end unless the lexer stands at a character that   *)
(* can begin no token, where it stays for good.                            *)
(***************************************************************************)
Known == WordChar \cup Blank \cup {c[1] : c \in Singles} \cup {Quote, End}

Ends == <>(token.type = EOF \/ At(cursor) \notin Known)
=============================================================================
