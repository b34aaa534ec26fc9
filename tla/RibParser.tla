----------------------------- MODULE RibParser -----------------------------
(***************************************************************************)
(* The reading of a RIB file: Tokenizer, Parser and the loop of            *)
(* Render::readArchive that feeds them one character at a time and takes   *)
(* the commands.  A writer puts down lexemes and blanks and remembers the  *)
(* commands it means; the parser sees the characters only.                 *)
(*                                                                         *)
(* Characters: quote, brackets, "#", " ", "nl", digits, "." and letters.   *)
(* Signs and exponents are left out.  A float is kept in tenths.           *)
(***************************************************************************)
EXTENDS Integers, Sequences, FiniteSets

CONSTANTS
    Lexemes,    \* names and parameters: [text, words, param]; a name's param has type "name"
    Blanks,     \* what stands between lexemes: sequences of characters
    MaxLexemes  \* bound: lexemes of a file

VARIABLES
    rtok,       \* Tokenizer
    rpar,       \* Parser
    rrest,      \* characters of the file that are written and not read yet
    rlex,       \* history: lexemes so far
    rmeant,     \* history: the commands that are written: [name, params, lines]
    rline,      \* history: the line the writer is on
    rdone       \* commands given to the Translator: [name, params, line]

rvars == <<rtok, rpar, rrest, rlex, rmeant, rline, rdone>>

Quote == "quote"
Digits == [c \in {"0", "1", "2"} |-> CASE c = "0" -> 0 [] c = "1" -> 1 [] c = "2" -> 2]
White == {" ", "nl"}

RInit ==
    /\ rtok = [state |-> "UNKNOWN", comment |-> FALSE, cur |-> <<>>, atype |-> "none",
               quoted |-> FALSE, ints |-> <<>>, floats |-> <<>>, strings |-> <<>>,
               type |-> "NONE", int |-> 0, float |-> 0, string |-> <<>>, alphanum |-> <<>>,
               line |-> 1]
    /\ rpar = [cur |-> <<>>, curLine |-> 0, next |-> <<>>, nextLine |-> 0,
               params |-> <<>>, eof |-> FALSE]
    /\ rrest = <<>> /\ rlex = <<>> /\ rmeant = <<>> /\ rline = 1 /\ rdone = <<>>

----------------------------------------------------------------------------
(* Numbers.                                                                *)

IsDigit(c) == c \in DOMAIN Digits
Letter(c) == ~IsDigit(c) /\ c \notin White \cup {Quote, "[", "]", "#", "."}

\* The digits at the start of s.
Leading(s) ==
    SubSeq(s, 1, Cardinality({i \in DOMAIN s : \A j \in 1..i : IsDigit(s[j])}))

atoi(s) ==
    LET value[i \in 0..Len(s)] == IF i = 0 THEN 0 ELSE 10 * value[i - 1] + Digits[s[i]]
    IN  value[Len(Leading(s))]

\* The digits after the point beyond the first are dropped.
atof(s) ==
    LET n == Len(Leading(s))
        tenth == Len(s) >= n + 2 /\ s[n + 1] = "." /\ IsDigit(s[n + 2])
    IN  IF tenth THEN 10 * atoi(s) + Digits[s[n + 2]] ELSE 10 * atoi(s)

isIntStr(s) == \A i \in DOMAIN s : IsDigit(s[i])

(* isFloatStr: one of ".fFdDeE" somewhere, and a number in front.          *)
isFloatStr(s) ==
    /\ \E i \in DOMAIN s : s[i] \in {".", "f", "d", "e"}
    /\ IsDigit(s[1]) \/ (Len(s) >= 2 /\ s[1] = "." /\ IsDigit(s[2]))

----------------------------------------------------------------------------
(* What a writer puts down (external).                                     *)

\* In front of the character i, a comment that began at lo or later is open.
InComment(s, lo, i) == \E j \in lo..(i - 1) : s[j] = "#" /\ \A k \in j..(i - 1) : s[k] # "nl"

\* White space and whole comments.
Blank(s, lo, hi) ==
    /\ \A i \in lo..hi : s[i] \in White \cup {"#"} \/ InComment(s, lo, i)
    /\ ~InComment(s, lo, hi + 1)

\* A name or a number.
SpellsPlain(s, p) ==
    /\ s # <<>> /\ s[1] \notin {Quote, "["}
    /\ \A i \in DOMAIN s : s[i] \notin White \cup {"#"}
    /\ CASE isIntStr(s) -> p = [type |-> "INT", value |-> atoi(s)]
         [] ~isIntStr(s) /\ isFloatStr(s) -> p = [type |-> "FLOAT", value |-> atof(s)]
         [] OTHER -> Letter(s[1]) /\ p = [type |-> "name", value |-> s]

\* From one quote to the next, on one line.
IsQuoted(s, lo, hi) ==
    /\ lo < hi /\ s[lo] = Quote /\ s[hi] = Quote
    /\ \A i \in (lo + 1)..(hi - 1) : s[i] \notin {Quote, "nl"}

SpellsString(s, p) ==
    /\ s # <<>> /\ IsQuoted(s, 1, Len(s))
    /\ p = [type |-> "STRING", value |-> SubSeq(s, 2, Len(s) - 1)]

(* The words of an array are from words[k][1] to words[k][2].              *)
From(lx, k) == IF k > Len(lx.words) THEN Len(lx.text) ELSE lx.words[k][1]
To(lx, k) == IF k = 0 THEN 1 ELSE lx.words[k][2]
Word(lx, k) == IF lx.param.type = "STRING_ARRAY"
               THEN SubSeq(lx.text, From(lx, k) + 1, To(lx, k) - 1)
               ELSE SubSeq(lx.text, From(lx, k), To(lx, k))
IsBare(s, lo, hi) == lo <= hi /\ \A i \in lo..hi : s[i] \notin White \cup {"#", "]", Quote}

(* Words with blanks between them.  Not empty, since an empty array has no *)
(* type and an empty word is no element; strings are none that begin like  *)
(* a number with a point, which would be taken for one.                    *)
SpellsArray(lx) ==
    LET s == lx.text  p == lx.param  n == Len(lx.words)  words == [k \in 1..n |-> Word(lx, k)] IN
    /\ Len(s) > 2 /\ s[1] = "[" /\ s[Len(s)] = "]" /\ n > 0
    /\ \A k \in 0..n : To(lx, k) < From(lx, k + 1) /\ Blank(s, To(lx, k) + 1, From(lx, k + 1) - 1)
    /\ \A k \in 1..n : s[To(lx, k) + 1] \in White \cup (IF k = n THEN {"]"} ELSE {})
    /\ IF p.type = "STRING_ARRAY"
       THEN \A k \in 1..n : /\ IsQuoted(s, From(lx, k), To(lx, k))
                            /\ words[k] # <<>> /\ ~isFloatStr(words[k])
       ELSE \A k \in 1..n : IsBare(s, From(lx, k), To(lx, k))
    /\ CASE p.type = "STRING_ARRAY" -> p = [type |-> "STRING_ARRAY", value |-> words]
         [] p.type = "INT_ARRAY" ->
               /\ \A k \in 1..n : ~isFloatStr(words[k])
               /\ p = [type |-> "INT_ARRAY", value |-> [k \in 1..n |-> atoi(words[k])]]
         [] p.type = "FLOAT_ARRAY" ->
               /\ \E k \in 1..n : isFloatStr(words[k])
               /\ p = [type |-> "FLOAT_ARRAY", value |-> [k \in 1..n |-> atof(words[k])]]
         [] OTHER -> FALSE

ASSUME RibAssumption ==
    /\ MaxLexemes \in Nat
    /\ \A lx \in Lexemes :
          /\ lx.text \in Seq(STRING) /\ lx.words \in Seq((DOMAIN lx.text) \X (DOMAIN lx.text))
          /\ \/ SpellsPlain(lx.text, lx.param) \/ SpellsString(lx.text, lx.param)
             \/ SpellsArray(lx)
    /\ \A b \in Blanks :
          b \in Seq(STRING) /\ b # <<>> /\ b[1] \in White /\ Blank(b, 1, Len(b))

----------------------------------------------------------------------------
(* Tokenizer.  Each operator gives the tokenizer after a character and     *)
(* whether a token is complete.                                            *)

Going(t) == [t |-> t, found |-> FALSE]
Found(t) == [t |-> t, found |-> TRUE]
Line(t, ch) == IF ch = "nl" THEN [t EXCEPT !.line = @ + 1] ELSE t

NormalType(t) ==
    CASE isIntStr(t.cur) -> [t EXCEPT !.type = "INT", !.int = atoi(t.cur)]
      [] ~isIntStr(t.cur) /\ isFloatStr(t.cur) ->
            [t EXCEPT !.type = "FLOAT", !.float = atof(t.cur)]
      [] ~isIntStr(t.cur) /\ ~isFloatStr(t.cur) /\ Letter(t.cur[1]) ->
            [t EXCEPT !.type = "ALPHANUMERIC", !.alphanum = t.cur]
      [] OTHER -> [t EXCEPT !.type = "NONE"]

(* An array without elements has no type: the one of the token before      *)
(* stays.                                                                  *)
ArrayType(t) ==
    CASE t.atype = "f" -> [t EXCEPT !.type = "FLOAT_ARRAY"]
      [] t.atype = "i" -> [t EXCEPT !.type = "INT_ARRAY"]
      [] t.atype = "s" -> [t EXCEPT !.type = "STRING_ARRAY"]
      [] OTHER -> t

setDataType(t) ==
    [(CASE t.state = "NORMAL" -> NormalType(t)
        [] t.state = "ARRAY" -> ArrayType(t)
        [] t.state = "STRING" -> [t EXCEPT !.type = "STRING"]
        [] OTHER -> [t EXCEPT !.type = "NONE"]) EXCEPT !.cur = <<>>]

changeToFloatArray(t) ==
    [t EXCEPT !.atype = "f", !.floats = [i \in DOMAIN t.ints |-> 10 * t.ints[i]]]

(* An element of an array, quoted or not: its text alone decides.          *)
PushElement(t) ==
    LET float == isFloatStr(t.cur)
        u == CASE float /\ t.atype = "none" -> [t EXCEPT !.atype = "f"]
               [] float /\ t.atype \in {"i", "s"} -> changeToFloatArray(t)
               [] ~float /\ t.atype = "none" -> [t EXCEPT !.atype = "i"]
               [] OTHER -> t
        v == CASE u.atype = "f" -> [u EXCEPT !.floats = Append(@, atof(t.cur))]
               [] u.atype = "i" -> [u EXCEPT !.ints = Append(@, atoi(t.cur))]
               [] u.atype = "s" -> [u EXCEPT !.strings = Append(@, t.cur)]
    IN  IF t.cur = <<>> THEN t ELSE [v EXCEPT !.cur = <<>>]

inputHandleArray(t, ch) ==
    CASE ch = Quote /\ t.quoted -> Going([t EXCEPT !.quoted = FALSE])
      [] ch = Quote /\ ~t.quoted -> Going([t EXCEPT !.quoted = TRUE, !.atype = "s"])
      [] ch # Quote /\ t.quoted -> Going([t EXCEPT !.cur = Append(@, ch)])
      [] ~t.quoted /\ ch = "]" -> Found(setDataType(PushElement(t)))
      [] ~t.quoted /\ ch \in White -> Going(PushElement(Line(t, ch)))
      [] OTHER -> Going([t EXCEPT !.cur = Append(@, ch)])

StartToken(t, ch) ==
    CASE ch = Quote -> Going(setDataType([t EXCEPT !.state = "STRING"]))
      [] ch = "[" -> Going([t EXCEPT !.state = "ARRAY", !.atype = "none",
                                     !.ints = <<>>, !.floats = <<>>, !.strings = <<>>])
      [] ch \in White -> Going(Line(t, ch))
      [] OTHER -> Going([t EXCEPT !.state = "NORMAL", !.cur = Append(@, ch)])

StartsComment(t, ch) == ch = "#" /\ t.state # "STRING" /\ ~t.quoted /\ ~t.comment

(* Tokenizer::AddChar.  The newline that ends a comment is not white space *)
(* to a token the comment is in the middle of.                             *)
TokAddChar(t, ch) ==
    CASE StartsComment(t, ch) -> Going([t EXCEPT !.comment = TRUE])
      [] ~StartsComment(t, ch) /\ t.comment ->
            Going([Line(t, ch) EXCEPT !.comment = (ch # "nl")])
      [] OTHER ->
            CASE t.state = "UNKNOWN" -> StartToken(t, ch)
              [] t.state = "NORMAL" /\ ch \in White -> Found(setDataType(Line(t, ch)))
              [] t.state = "STRING" /\ ch = Quote ->
                    Found(setDataType([t EXCEPT !.string = t.cur]))
              [] t.state = "ARRAY" -> inputHandleArray(t, ch)
              [] OTHER -> Going([t EXCEPT !.cur = Append(@, ch)])

----------------------------------------------------------------------------
(* Parser.                                                                 *)

\* Mutant: the parameters stay for the next command.
FlushKeepsParams(p) ==
    [p EXCEPT !.cur = IF p.eof THEN p.next ELSE <<>>,
              !.curLine = IF p.eof THEN p.nextLine ELSE @,
              !.next = IF p.eof THEN <<>> ELSE @, !.nextLine = IF p.eof THEN -1 ELSE @]

FlushNewCommand(p) ==
    [p EXCEPT !.params = <<>>,
              !.cur = IF p.eof THEN p.next ELSE <<>>,
              !.curLine = IF p.eof THEN p.nextLine ELSE @,
              !.next = IF p.eof THEN <<>> ELSE @, !.nextLine = IF p.eof THEN -1 ELSE @]

\* A name starts the next command: the parameters so far are the current one's.
NewCommand(p, name, line) ==
    [p EXCEPT !.cur = p.next, !.curLine = p.nextLine, !.next = name, !.nextLine = line]

TokenValue(t) ==
    CASE t.type = "INT" -> t.int
      [] t.type = "FLOAT" -> t.float
      [] t.type = "STRING" -> t.string
      [] t.type = "INT_ARRAY" -> t.ints
      [] t.type = "FLOAT_ARRAY" -> t.floats
      [] t.type = "STRING_ARRAY" -> t.strings
      [] OTHER -> 0

TakeToken(p, t) ==
    IF t.type = "ALPHANUMERIC" THEN NewCommand(p, t.alphanum, t.line)
    ELSE [p EXCEPT !.params = Append(@, [type |-> t.type, value |-> TokenValue(t)])]

\* Mutant: the state of the token stays.
ResetKeepsState(t) == [t EXCEPT !.comment = FALSE, !.cur = <<>>, !.atype = "none", !.quoted = FALSE]

ResetState(t) ==
    [t EXCEPT !.state = "UNKNOWN", !.comment = FALSE, !.cur = <<>>, !.atype = "none",
              !.quoted = FALSE]

(* AddChar(0): the token that the end of the file completes is taken for   *)
(* a name; if it is none, the name that was read last is used again.       *)
ParserEof ==
    LET r == TokAddChar(rtok, "nl") IN
    /\ rtok' = r.t
    /\ rpar' = [IF r.found THEN NewCommand(rpar, r.t.alphanum, r.t.line)
                ELSE NewCommand(rpar, <<>>, -1) EXCEPT !.eof = TRUE]

----------------------------------------------------------------------------
(* readArchive and the writer.                                             *)

HasNewCommand == rpar.cur # <<>>

\* The commands are taken before the next character.
Flush ==
    /\ HasNewCommand
    /\ rdone' = Append(rdone, [name |-> rpar.cur, params |-> rpar.params, line |-> rpar.curLine])
    /\ rpar' = FlushNewCommand(rpar)
    /\ UNCHANGED <<rtok, rrest, rlex, rmeant, rline>>

ReadChar ==
    /\ ~HasNewCommand /\ ~rpar.eof /\ rrest # <<>>
    /\ LET r == TokAddChar(rtok, Head(rrest)) IN
       /\ rtok' = IF r.found THEN ResetState(r.t) ELSE r.t
       /\ rpar' = IF r.found THEN TakeToken(rpar, r.t) ELSE rpar
    /\ rrest' = Tail(rrest)
    /\ UNCHANGED <<rlex, rmeant, rline, rdone>>

Newlines(s) == Cardinality({i \in DOMAIN s : s[i] = "nl"})

\* The writer: a lexeme and what follows it; a file starts with a name.
Write(lx, blank) ==
    /\ rrest = <<>> /\ ~HasNewCommand /\ ~rpar.eof /\ Len(rlex) < MaxLexemes
    /\ lx.param.type = "name" \/ rlex # <<>>
    /\ rlex # <<>> => rlex[Len(rlex)].closed
    /\ rrest' = lx.text \o blank
    /\ rlex' = Append(rlex, [type |-> lx.param.type,
                             closed |-> blank # <<>> \/ lx.param.type \notin {"name", "INT", "FLOAT"}])
    /\ rline' = rline + Newlines(lx.text \o blank)
    /\ rmeant' = IF lx.param.type = "name"
                 THEN Append(rmeant, [name |-> lx.param.value, params |-> <<>>, line |-> rline])
                 ELSE [rmeant EXCEPT ![Len(rmeant)].params = Append(@, lx.param)]
    /\ UNCHANGED <<rtok, rpar, rdone>>

Eof ==
    /\ rrest = <<>> /\ ~HasNewCommand /\ ~rpar.eof
    /\ ParserEof
    /\ UNCHANGED <<rrest, rlex, rmeant, rline, rdone>>

RNext ==
    \/ Flush \/ ReadChar \/ Eof
    \/ \E lx \in Lexemes, blank \in Blanks \cup {<<>>} : Write(lx, blank)

RSpec == RInit /\ [][RNext]_rvars

----------------------------------------------------------------------------
(* Properties.                                                             *)

LastCut == rpar.eof /\ rlex # <<>> /\ ~rlex[Len(rlex)].closed
NumberCut == LastCut /\ rlex[Len(rlex)].type # "name"
NameLost == LastCut /\ rlex[Len(rlex)].type = "name" /\ Len(rmeant) = 1

(* What is given in the end.  A lexeme that only the end of the file       *)
(* completes is taken for a name: if it is the only one it is lost, and a  *)
(* number is no parameter but the last command over again, without any.    *)
Given ==
    LET n == Len(rmeant) IN
    CASE NameLost -> <<>>
      [] NumberCut -> Append([rmeant EXCEPT ![n].params = SubSeq(@, 1, Len(@) - 1)],
                             [name |-> rmeant[n].name, params |-> <<>>, line |-> rline])
      [] OTHER -> rmeant

SameCommand(c, d) ==
    /\ c.name = d.name /\ Len(c.params) = Len(d.params)
    /\ \A i \in DOMAIN c.params :
          c.params[i].type = d.params[i].type /\ c.params[i].value = d.params[i].value

(* The Translator gets the commands that the file says, in their order,    *)
(* each with its own parameters, their types and values: at most the last  *)
(* command is still open, and at the end of the file all have been given.  *)
(* The line that is shown for a command is the one its name is on, or the  *)
(* next one if the name is the last thing on its line.  A lexeme that runs *)
(* into the end of the file changes the last command and no other.         *)
CommandsAsWritten ==
    /\ Len(rdone) <= Len(Given)
    /\ \A i \in DOMAIN rdone : /\ SameCommand(rdone[i], Given[i])
                               /\ rdone[i].line - Given[i].line \in {0, 1}
    /\ rrest = <<>> /\ ~HasNewCommand => Len(rdone) >= Len(Given) - (IF rpar.eof THEN 0 ELSE 2)

(* What the end of the file completes is a name (the assertion of          *)
(* GetDataAphaNum, that Parser::AddChar calls at the end of the file       *)
(* without asking what the token is).                                      *)
EofTokenIsName == LastCut => rtok.type = "ALPHANUMERIC"

\* The state keeps to its types; between two lexemes nothing of the first one is left in the tokenizer.
RTypeOK ==
    /\ rtok.state \in {"UNKNOWN", "NORMAL", "STRING", "ARRAY"}
    /\ rtok.state = "UNKNOWN" => rtok.cur = <<>> /\ ~rtok.quoted
    /\ rtok.quoted => rtok.state = "ARRAY"
    /\ rpar.eof => rrest = <<>>
    /\ rrest = <<>> /\ ~rpar.eof /\ rlex # <<>> /\ rlex[Len(rlex)].closed =>
           rtok.state = "UNKNOWN" /\ ~rtok.comment
=============================================================================
