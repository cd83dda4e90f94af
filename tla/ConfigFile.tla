----------------------------- MODULE ConfigFile -----------------------------
(***************************************************************************)
(* A configuration file from its characters to the tree of its statements: *)
(* Parse calls ParseToken on an empty string again and again, and deals    *)
(* with each token that it returns.                                        *)
(***************************************************************************)
EXTENDS Tokenizer

CONSTANTS
  MaxTokens,   \* bounds the items of a file
  MaxEscaped   \* and those of one with a plain word that is nothing but escapes

ASSUME ConfigFileAssumption == MaxTokens \in Nat \ {0} /\ MaxEscaped \in Nat

VARIABLES
  written,  \* history: the types of the file's items so far
  tokens, lastType, configs, configStack, bracketStack, result

Parser == INSTANCE ConfigParser

parserVars == <<tokens, lastType, configs, configStack, bracketStack, result>>
fileVars == <<vars, written, parserVars>>

FileInit == Init /\ written = <<>> /\ Parser!Init

-----------------------------------------------------------------------------
\* The type of the token that ParseToken returns with this turn of its loop.
Returned ==
  IF state' \in {"EOF", "ERROR"} THEN state'
  ELSE IF state = "INITIAL_WHITESPACE"
    THEN IF text # <<>> /\ Head(text) \in Marks THEN MarkType[Head(text)] ELSE "none"
  ELSE IF state' # "INITIAL_WHITESPACE" THEN "none"
  ELSE IF state = "COMMENT" THEN "COMMENT" ELSE "NORMAL"

\* What Parse does with it.
Handle(type) ==
  \/ type = "none" /\ UNCHANGED parserVars
  \/ type = "COMMENT" /\ Parser!Comment
  \/ type = "ERROR" /\ Parser!Error
  \/ type = "NORMAL" /\ Parser!Normal
  \/ type = "STATEMENT_END" /\ Parser!StatementEnd
  \/ type = "START_BLOCK" /\ Parser!StartBlock
  \/ type = "END_BLOCK" /\ Parser!EndBlock
  \/ type = "EOF" /\ Parser!EndOfFile

Parse ==
  /\ result = "running"
  /\ ParseToken
  /\ Handle(Returned)
  /\ UNCHANGED written

\* The author writes an item, a part of one, or spoils the last.
WriteFile ==
  /\ Writer
  /\ written' = IF items' = items THEN written
                ELSE IF Len(items') > Len(items) THEN Append(written, Last(items').type)
                ELSE [written EXCEPT ![Len(written)] = Last(items').type]
  /\ Len(written') < MaxTokens /\ (escaped' => Len(written') <= MaxEscaped)
  /\ UNCHANGED parserVars

FileNext == Parse \/ WriteFile

FileSpec == FileInit /\ [][FileNext]_fileVars

-----------------------------------------------------------------------------
(* Properties.                                                             *)

\* The last word of the file is a plain one, and nothing ends it.
Unended == after = "plain" \/ (writing.style = "plain" /\ writing.chars # <<>>)

\* A file is accepted only when all of it has been read, no quote is open, and
\* its items, in the order in which they were written, are of the grammar; the
\* tree is theirs.  This leaves two kinds of files apart: those with a word that
\* is nothing but escapes, and those that AcceptedIsValid is about.
AcceptedAsWritten ==
  result = "true" /\ ~escaped =>
    /\ closed /\ ~InQuotes
    /\ ~Unended => Parser!IsConfig(written) /\ configs = Parser!TreeOf(written)

\* It is rejected only for an item that is out of place, or for how it ends:
\* within quotes, right behind them, within a word, a statement or a block.
RejectedForCause ==
  result = "false" /\ ~escaped =>
    \/ \E i \in DOMAIN written : ~Parser!PlaceOK(written, i)
    \/ closed /\ (InQuotes \/ Unended \/ ~Parser!IsConfig(written))

\* Parse "returns true iff the input config file is valid" (config_parser.h): a
\* file it accepts is of the grammar, to its last word.
AcceptedIsValid == result = "true" => Parser!IsConfig(written)

\* Parse never asks an empty stack for its top, nor an empty vector for its
\* last statement, whatever tokens ParseToken gives it.
NeverUndefined == Parser!NeverUndefined

\* Of Parse's two stacks only one is tested for being empty: they stay those of
\* the blocks that are open.
StacksAgree == Parser!StacksAgree

\* Parse accepts the tokens of the grammar and no others.
AcceptsTheGrammar == Parser!AcceptsTheGrammar

\* Parse builds the tree of the tokens it accepts, through pointers into it.
TreeIsTheFile == Parser!TreeIsTheFile

\* Parse returns false at the first token that is out of place, not later.
RejectsWhatIsOutOfPlace == Parser!RejectsWhatIsOutOfPlace
=============================================================================
