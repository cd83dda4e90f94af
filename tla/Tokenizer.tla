----------------------------- MODULE Tokenizer -----------------------------
(***************************************************************************)
(* NginxConfigParser::ParseToken, character by character, on files that    *)
(* somebody writes: words, plain or quoted, marks, blanks and comments.    *)
(* The file is as long as it likes; it is written as it is read, so that   *)
(* the state holds only what is still to be read and the items it stands   *)
(* for.                                                                    *)
(*                                                                         *)
(* The writer follows what config_parser_test.cc shows: in a plain word a  *)
(* backslash comes before a blank, ;, {, } or #; in quotes, before the     *)
(* quote; anywhere else it stands for itself.                              *)
(***************************************************************************)
EXTENDS Integers, SequencesExt

CONSTANT MaxWord   \* characters of a word or a comment

ASSUME TokenizerAssumption == MaxWord \in Nat \ {0}

VARIABLES
  text,      \* what is written and not read
  closed,    \* the file ends after it
  writing,   \* the word or comment being written: its style and characters
  after,     \* what the last thing written was: "blank", "plain" or "quoted"
  escaped,   \* history: a plain word that is nothing but escapes has been written
  items,     \* what has been written and not returned as a token
  state,     \* ParseToken's state, or "EOF" or "ERROR" once it has returned that
  value,     \* the token so far
  agree      \* whether each token returned so far is the item in its place

writerVars == <<closed, writing, after, escaped>>
vars == <<text, writerVars, items, state, value, agree>>

Marks == {";", "{", "}"}
Blanks == {" ", "\n"}
Special == Marks \cup {" ", "#"}          \* a backslash takes their meaning away
Quotes == {"\"", "'"}
Chars == Marks \cup Blanks \cup Quotes \cup {"#", "\\", "x"}

MarkType == [m \in Marks |->
  IF m = ";" THEN "STATEMENT_END" ELSE IF m = "{" THEN "START_BLOCK" ELSE "END_BLOCK"]

Item(type, chars) == [type |-> type, value |-> chars]
Nothing == [style |-> "none", chars |-> <<>>]

-----------------------------------------------------------------------------
(* The parser: one action for each turn of the loop.                       *)

Init ==
  /\ text = <<>>
  /\ closed = FALSE
  /\ writing = Nothing
  /\ after = "blank"
  /\ escaped = FALSE
  /\ items = <<>>
  /\ state = "INITIAL_WHITESPACE"
  /\ value = <<>>
  /\ agree = TRUE

\* A turn of the loop in state s that begins with the character c; it may look
\* at the next one.
Turn(s, c) ==
  /\ state = s
  /\ Len(text) >= 2 \/ closed
  /\ text # <<>> /\ c = Head(text)
  /\ UNCHANGED writerVars

Drop(n) == text' = SubSeq(text, n + 1, Len(text))

\* The n characters read make the token longer.
Continue(n, s, chars) ==
  /\ Drop(n)
  /\ state' = s
  /\ value' = chars
  /\ UNCHANGED <<items, agree>>

\* Seeded fault of Return: one string for all tokens.
ReturnKept(n, type, chars) ==
  /\ Drop(n)
  /\ state' = "INITIAL_WHITESPACE"
  /\ value' = chars
  /\ agree' = (agree /\ items # <<>> /\ Head(items) = Item(type, chars))
  /\ items' = SubSeq(items, 2, Len(items))

\* The token is complete; Parse calls again with an empty string.
Return(n, type, chars) ==
  /\ Drop(n)
  /\ state' = "INITIAL_WHITESPACE"
  /\ value' = <<>>
  /\ agree' = (agree /\ items # <<>> /\ Head(items) = Item(type, chars))
  /\ items' = SubSeq(items, 2, Len(items))

\* The last token of a file.
Stop(n, type) ==
  /\ Drop(n)
  /\ state' = type
  /\ value' = <<>>
  /\ UNCHANGED <<items, agree>>

\* Seeded fault of EndOfInput: an unfinished quote is an end like any other.
EndOfInputAnywhere == Stop(Len(text), "EOF")

\* get() meets the end of the file, at once or after a character of this turn.
EndOfInput ==
  Stop(Len(text), IF state \in {"SINGLE_QUOTE", "DOUBLE_QUOTE"} THEN "ERROR" ELSE "EOF")

\* Seeded fault of Escape: what follows a backslash is always taken.
EscapeAny(s, escapable) ==
  /\ Turn(s, "\\")
  /\ IF Len(text) < 2 THEN EndOfInput ELSE Continue(2, s, Append(value, text[2]))

\* A backslash takes the meaning of some characters away; before any other it
\* stands for itself, and that one is put back.
Escape(s, escapable) ==
  /\ Turn(s, "\\")
  /\ IF Len(text) < 2 THEN EndOfInput
     ELSE IF text[2] \in escapable THEN Continue(2, s, Append(value, text[2]))
     ELSE Continue(1, s, Append(value, "\\"))

\* Before a token.  An escape does not end this state, unlike other characters
\* of a word: a mark or a quote after it begins the token anew.
InitialWhitespace ==
  \/ \E c \in Marks : Turn("INITIAL_WHITESPACE", c) /\ Return(1, MarkType[c], <<c>>)
  \/ \E c \in Blanks :
       Turn("INITIAL_WHITESPACE", c) /\ Continue(1, "INITIAL_WHITESPACE", value)
  \/ Turn("INITIAL_WHITESPACE", "#") /\ Continue(1, "COMMENT", <<"#">>)
  \/ Turn("INITIAL_WHITESPACE", "\"") /\ Continue(1, "DOUBLE_QUOTE", value)
  \/ Turn("INITIAL_WHITESPACE", "'") /\ Continue(1, "SINGLE_QUOTE", <<"'">>)
  \/ Escape("INITIAL_WHITESPACE", Special)
  \/ Turn("INITIAL_WHITESPACE", "x") /\ Continue(1, "NORMAL", Append(value, "x"))

\* Seeded fault of CloseQuote: a block cannot begin right behind it.
CloseQuoteStrict(chars) ==
  IF Len(text) < 2 THEN EndOfInput
  ELSE IF text[2] \in Blanks \cup {";"} THEN Return(1, "NORMAL", chars)
  ELSE Stop(2, "ERROR")

\* A closing quote has to be followed by a blank, a ";" or a "{".
CloseQuote(chars) ==
  IF Len(text) < 2 THEN EndOfInput
  ELSE IF text[2] \in Blanks \cup {";", "{"} THEN Return(1, "NORMAL", chars)
  ELSE Stop(2, "ERROR")

\* Single quotes stay in the token, double quotes do not.
SingleQuote ==
  \/ Escape("SINGLE_QUOTE", {"'"})
  \/ Turn("SINGLE_QUOTE", "'") /\ CloseQuote(Append(value, "'"))
  \/ \E c \in Chars \ {"'", "\\"} :
       Turn("SINGLE_QUOTE", c) /\ Continue(1, "SINGLE_QUOTE", Append(value, c))

DoubleQuote ==
  \/ Escape("DOUBLE_QUOTE", {"\""})
  \/ Turn("DOUBLE_QUOTE", "\"") /\ CloseQuote(value)
  \/ \E c \in Chars \ {"\"", "\\"} :
       Turn("DOUBLE_QUOTE", c) /\ Continue(1, "DOUBLE_QUOTE", Append(value, c))

Comment ==
  \/ Turn("COMMENT", "\n") /\ Return(1, "COMMENT", value)
  \/ \E c \in Chars \ {"\n"} :
       Turn("COMMENT", c) /\ Continue(1, "COMMENT", Append(value, c))

\* What ends a plain word is put back: it is the next token, or a blank.
Normal ==
  \/ \E c \in Marks \cup Blanks : Turn("NORMAL", c) /\ Return(0, "NORMAL", value)
  \/ Escape("NORMAL", Special)
  \/ \E c \in Quotes \cup {"#", "x"} :
       Turn("NORMAL", c) /\ Continue(1, "NORMAL", Append(value, c))

EndOfFile ==
  /\ closed /\ text = <<>> /\ state \notin {"EOF", "ERROR"}
  /\ EndOfInput
  /\ UNCHANGED writerVars

ParseToken == InitialWhitespace \/ SingleQuote \/ DoubleQuote \/ Comment \/ Normal \/ EndOfFile

-----------------------------------------------------------------------------
(* The writer of the file.                                                 *)

\* Write what the parser needs for its next turn.
Write(chars) ==
  /\ ~closed /\ Len(text) < 2 /\ state # "ERROR"
  /\ text' = text \o chars
  /\ UNCHANGED <<closed, state, value, agree>>

Between == writing = Nothing

WriteMark(m) ==
  /\ Between /\ (after = "quoted" => m # "}")
  /\ Write(<<m>>)
  /\ after' = "blank"
  /\ items' = Append(items, Item(MarkType[m], <<m>>))
  /\ UNCHANGED <<writing, escaped>>

WriteBlank(b) ==
  /\ Between
  /\ Write(<<b>>)
  /\ after' = "blank"
  /\ UNCHANGED <<writing, escaped, items>>

OpeningOf == [plain |-> <<>>, double |-> <<"\"">>, single |-> <<"'">>, comment |-> <<"#">>]

\* A word or a comment comes after a blank or a mark.
Begin(style) ==
  /\ Between /\ after = "blank"
  /\ Write(OpeningOf[style])
  /\ writing' = [style |-> style, chars |-> <<>>]
  /\ UNCHANGED <<after, escaped, items>>

\* What a character may be written as after the characters of a word.  A plain
\* word is begun by an ordinary character or by escapes, and holds no newline;
\* once begun by the former it may hold quotes, and a # needs no backslash,
\* unless it would take one for itself.
Writings(style, chars, c) ==
  LET begun == Contains(chars, "x")
  IN  CASE style = "plain" /\ c = "#" /\ begun /\ Last(chars) # "\\" -> {<<"#">>, <<"\\", "#">>}
        [] style = "plain" /\ c \in Special -> {<<"\\", c>>}
        [] style = "plain" /\ c \in Quotes /\ ~begun -> {}
        [] style \in {"plain", "comment"} /\ c = "\n" -> {}
        [] <<style, c>> \in {<<"double", "\"">>, <<"single", "'">>} -> {<<"\\", c>>}
        [] OTHER -> {<<c>>}

WriteChar(c) ==
  /\ ~Between
  /\ Len(writing.chars) < MaxWord
  /\ \E w \in Writings(writing.style, writing.chars, c) : Write(w)
  /\ writing' = [writing EXCEPT !.chars = Append(@, c)]
  /\ UNCHANGED <<after, escaped, items>>

\* What the token of a word should be: single quotes belong to it.
ValueOf(style, chars) == IF style = "single" THEN <<"'">> \o chars \o <<"'">> ELSE chars

\* A word cannot end with a backslash, which would take away the meaning of
\* what ends it.  Only quotes make an empty one.
EndWord ==
  /\ writing.style \in {"plain", "double", "single"}
  /\ writing.chars # <<>> => Last(writing.chars) # "\\"
  /\ writing.style = "plain" => writing.chars # <<>>
  /\ Write(OpeningOf[writing.style])
  /\ after' = IF writing.style = "plain" THEN "plain" ELSE "quoted"
  /\ escaped' = (escaped \/ (writing.style = "plain" /\ ~Contains(writing.chars, "x")))
  /\ items' = Append(items, Item("NORMAL", ValueOf(writing.style, writing.chars)))
  /\ writing' = Nothing

EndComment ==
  /\ writing.style = "comment"
  /\ Write(<<"\n">>)
  /\ after' = "blank"
  /\ items' = Append(items, Item("COMMENT", <<"#">> \o writing.chars))
  /\ writing' = Nothing
  /\ UNCHANGED escaped

\* A quoted word with something stuck to it, which should be an error.
Stick(c) ==
  /\ Between /\ after = "quoted" /\ items # <<>>
  /\ Write(<<c>>)
  /\ after' = "blank"
  /\ items' = [items EXCEPT ![Len(items)] = Item("ERROR", <<>>)]
  /\ UNCHANGED <<writing, escaped>>

\* The file ends anywhere.
Close ==
  /\ ~closed /\ Len(text) < 2 /\ state # "ERROR"
  /\ closed' = TRUE
  /\ UNCHANGED <<text, writing, after, escaped, items, state, value, agree>>

Writer ==
  \/ \E m \in Marks : WriteMark(m)
  \/ \E b \in Blanks : WriteBlank(b)
  \/ \E style \in DOMAIN OpeningOf : Begin(style)
  \/ \E c \in Chars : WriteChar(c)
  \/ EndWord \/ EndComment
  \/ \E c \in Chars \ (Blanks \cup {";", "{"}) : Stick(c)
  \/ Close

Next == ParseToken \/ Writer

Spec == Init /\ [][Next]_vars

-----------------------------------------------------------------------------
(* Properties.                                                             *)

\* The parser and the writer are where they can be; no turn needs more than
\* three characters; and the string is as long as the word at most, with its
\* quotes or its "#", for it starts empty for each token: only a word that is
\* nothing but escapes stays in it, with the next.
TypeOK ==
  /\ state \in {"INITIAL_WHITESPACE", "SINGLE_QUOTE", "DOUBLE_QUOTE", "COMMENT", "NORMAL",
                "EOF", "ERROR"}
  /\ value \in Seq(Chars) /\ (~escaped => Len(value) <= MaxWord + 2)
  /\ text \in Seq(Chars) /\ Len(text) <= 3
  /\ after \in {"blank", "plain", "quoted"}
  /\ writing = Nothing \/ writing \in [style : DOMAIN OpeningOf, chars : Seq(Chars)]
  /\ closed \in BOOLEAN /\ escaped \in BOOLEAN /\ agree \in BOOLEAN

\* Each token is the next item of the file, with the type and the characters
\* it was written for: escapes, quotes and what stands between two items are
\* undone, nothing is swallowed, split or merged, and a word that something is
\* stuck to is not returned at all.  It is so until a plain word that is nothing
\* but escapes: the initial state, which reads it, does not return it, but adds
\* it to the next word or forgets it.
TokenIsItem == ~escaped => agree

\* What is written ends within quotes, or right behind them.
InQuotes == writing.style \in {"double", "single"} \/ after = "quoted"

\* The file ends where it does: all that may be left of it is a plain word that
\* nothing ended, or a comment.  Within quotes or right after them the end is
\* an error, as is what is stuck to them, and nothing else is.
EndIsSeen == ~escaped =>
  /\ state = "EOF" => closed /\ ~InQuotes /\ Len(items) = IF after = "plain" THEN 1 ELSE 0
  /\ state = "ERROR" =>
       \/ items # <<>> /\ Head(items).type = "ERROR"
       \/ closed /\ InQuotes /\ Len(items) = IF after = "quoted" THEN 1 ELSE 0
=============================================================================
