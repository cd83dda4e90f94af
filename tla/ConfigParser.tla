---------------------------- MODULE ConfigParser ----------------------------
(***************************************************************************)
(* NginxConfigParser::Parse (config_parser.cc): from the tokens of a       *)
(* configuration file to a tree of statements, with a stack of the blocks  *)
(* being filled and another of their brackets.                             *)
(*                                                                         *)
(* ParseToken is reduced to the type of each token it returns; ConfigFile  *)
(* has the two together.                                                   *)
(***************************************************************************)
EXTENDS Integers, Sequences, FiniteSetsExt

CONSTANTS MaxTokens     \* bounds the length of a file

TokenTypes == {"NORMAL", "START_BLOCK", "END_BLOCK", "COMMENT", "STATEMENT_END", "ERROR"}

VARIABLES
  tokens,       \* history: the tokens read so far
  lastType,     \* last_token_type
  configs,      \* the NginxConfig objects; the first is the caller's
  configStack,  \* config_stack: indices of the blocks being filled
  bracketStack, \* bracket_stack
  result        \* "running", "true", "false"; "undefined" if a stack or a
                \* vector that is empty is asked for an element

vars == <<tokens, lastType, configs, configStack, bracketStack, result>>

NoChild == 0
Top(stack) == stack[Len(stack)]
Pop(stack) == SubSeq(stack, 1, Len(stack) - 1)
Statements(c) == configs[c]

Init ==
  /\ tokens = <<>>
  /\ lastType = "START"
  /\ configs = <<<<>>>>
  /\ configStack = <<1>>
  /\ bracketStack = <<>>
  /\ result = "running"

-----------------------------------------------------------------------------
\* ParseToken returns a token of this type.
Read(type) ==
  /\ result = "running"
  /\ Len(tokens) < MaxTokens
  /\ tokens' = Append(tokens, type)

\* The transition is accepted and the loop goes on.
Accept(type) ==
  /\ lastType' = type
  /\ UNCHANGED result

\* "Bad transition from ... to ...": Parse returns false.
Reject ==
  /\ result' = "false"
  /\ UNCHANGED lastType

\* top() or back() of something empty.
Undefined ==
  /\ result' = "undefined"
  /\ UNCHANGED <<lastType, configs, configStack, bracketStack>>

Comment ==
  /\ Read("COMMENT")
  /\ UNCHANGED <<lastType, configs, configStack, bracketStack, result>>

Error ==
  /\ Read("ERROR")
  /\ Reject
  /\ UNCHANGED <<configs, configStack, bracketStack>>

\* Seeded fault of Continues: a word continues the statement of a block.
ContinuesBlock == lastType \in {"NORMAL", "END_BLOCK"}
Continues == lastType = "NORMAL"

\* A word begins a statement of the block on top, or continues the last one.
Normal ==
  /\ Read("NORMAL")
  /\ IF configStack = <<>> THEN Undefined
     ELSE LET c == Top(configStack)
              n == Len(Statements(c))
          IN  IF ~Continues
                THEN /\ configs' = [configs EXCEPT ![c] =
                                      Append(@, [size |-> 1, child |-> NoChild])]
                     /\ Accept("NORMAL")
                     /\ UNCHANGED <<configStack, bracketStack>>
              ELSE IF n = 0 THEN Undefined
              ELSE /\ configs' = [configs EXCEPT ![c][n].size = @ + 1]
                   /\ Accept("NORMAL")
                   /\ UNCHANGED <<configStack, bracketStack>>

StatementEnd ==
  /\ Read("STATEMENT_END")
  /\ IF lastType = "NORMAL" THEN Accept("STATEMENT_END") ELSE Reject
  /\ UNCHANGED <<configs, configStack, bracketStack>>

\* Seeded fault of Push: the new block is not pushed.
PushNothing(new) == configStack
Push(new) == Append(configStack, new)

\* The last statement gets a block, which is filled from now on.
StartBlock ==
  /\ Read("START_BLOCK")
  /\ IF lastType # "NORMAL"
       THEN Reject /\ UNCHANGED <<configs, configStack, bracketStack>>
     ELSE IF configStack = <<>> \/ Statements(Top(configStack)) = <<>> THEN Undefined
     ELSE LET c == Top(configStack)
              new == Len(configs) + 1
          IN  /\ configs' = Append([configs EXCEPT ![c][Len(Statements(c))].child = new], <<>>)
              /\ configStack' = Push(new)
              /\ bracketStack' = Append(bracketStack, "START_BLOCK")
              /\ Accept("START_BLOCK")

\* Seeded faults of BeforeEnd and Unbalanced: a block is left whatever comes
\* before its end, or without having been entered.
BeforeEndAnything == TokenTypes
BeforeEnd == {"STATEMENT_END", "START_BLOCK", "END_BLOCK"}
NeverUnbalanced == FALSE
Unbalanced == bracketStack = <<>>

\* The block is left; config_stack is popped before the brackets are checked.
EndBlock ==
  /\ Read("END_BLOCK")
  /\ IF lastType \notin BeforeEnd
       THEN Reject /\ UNCHANGED <<configStack, bracketStack, configs>>
     ELSE IF configStack = <<>> THEN Undefined
     ELSE /\ configStack' = Pop(configStack)
          /\ IF Unbalanced
               THEN Reject /\ UNCHANGED bracketStack
               ELSE bracketStack' = Pop(bracketStack) /\ Accept("END_BLOCK")
          /\ UNCHANGED configs

EndOfFile ==
  /\ result = "running"
  /\ result' = IF /\ lastType \in {"STATEMENT_END", "END_BLOCK", "START"}
                  /\ bracketStack = <<>>
               THEN "true" ELSE "false"
  /\ UNCHANGED <<tokens, lastType, configs, configStack, bracketStack>>

Next ==
  \/ Comment \/ Error \/ Normal \/ StatementEnd \/ StartBlock \/ EndBlock \/ EndOfFile

Spec == Init /\ [][Next]_vars

-----------------------------------------------------------------------------
(* What a file is, stated of its tokens alone, by their places in it.      *)

Count(file, type, i) == Cardinality({j \in 1 .. i : file[j] = type})

\* How many blocks are open after the first i tokens.
Depth(file, i) == Count(file, "START_BLOCK", i) - Count(file, "END_BLOCK", i)

\* The type of the last token before place i, comments apart.
Before(file, i) ==
  LET earlier == {j \in 1 .. i - 1 : file[j] # "COMMENT"}
  IN  IF earlier = {} THEN "START" ELSE file[Max(earlier)]

\* What comes before place i allows the token there.
PlaceOK(file, i) ==
  /\ file[i] # "ERROR"
  /\ file[i] \in {"STATEMENT_END", "START_BLOCK"} => Before(file, i) = "NORMAL"
  /\ file[i] = "END_BLOCK" => Before(file, i) # "NORMAL"
  /\ Depth(file, i) >= 0

\* config ::= (word word* (";" | "{" config "}"))*, with comments anywhere.
IsConfig(file) ==
  /\ \A i \in DOMAIN file : PlaceOK(file, i)
  /\ Before(file, Len(file) + 1) # "NORMAL"
  /\ Depth(file, Len(file)) = 0

\* The "{" before place i whose blocks are still open there.
Unclosed(file, i) ==
  {j \in 1 .. i - 1 : /\ file[j] = "START_BLOCK"
                     /\ \A k \in j .. i - 1 : Depth(file, j) <= Depth(file, k)}

\* The block that place i is in: the file is the first one, and those with
\* brackets are counted as they open.
BlockAt(file, i) == 1 + Count(file, "START_BLOCK", Max({0} \cup Unclosed(file, i)))

\* Where the statements of block c end, or their own blocks begin, up to place i.
Ends(file, c, i) ==
  {j \in 1 .. i : file[j] \in {"STATEMENT_END", "START_BLOCK"} /\ BlockAt(file, j) = c}

\* The words of a statement that ends at place i.
Words(file, i) ==
  {j \in 1 .. i - 1 : file[j] = "NORMAL" /\ \A k \in j .. i - 1 : file[k] \in {"NORMAL", "COMMENT"}}

StatementAt(file, i) ==
  [size |-> Cardinality(Words(file, i)),
   child |-> IF file[i] = "START_BLOCK" THEN 1 + Count(file, "START_BLOCK", i) ELSE NoChild]

\* The tree a file stands for.
TreeOf(file) ==
  [c \in 1 .. 1 + Count(file, "START_BLOCK", Len(file)) |->
    LET ends == Ends(file, c, Len(file))
    IN  [n \in 1 .. Cardinality(ends) |->
          StatementAt(file, CHOOSE i \in ends : Cardinality(Ends(file, c, i)) = n)]]

-----------------------------------------------------------------------------
(* Properties.                                                             *)

\* Parse never asks an empty stack, or an empty vector of statements, for an
\* element, whatever the file: two stacks of which only one is tested.
NeverUndefined == result # "undefined"

\* The stack of blocks is one deeper than that of brackets, and each block on
\* it is the block of the last statement of the one below it.
StacksAgree ==
  result = "running" =>
    /\ Len(configStack) = Len(bracketStack) + 1
    /\ configStack[1] = 1
    /\ \A i \in 1 .. Len(configStack) - 1 :
         LET below == Statements(configStack[i])
         IN  below # <<>> /\ below[Len(below)].child = configStack[i + 1]

\* Parse returns false at the first token that what came before does not allow,
\* no later, and at no other.
RejectsWhatIsOutOfPlace ==
  [][tokens' # tokens => (result' = "false" <=> ~PlaceOK(tokens', Len(tokens')))]_vars

\* Parse accepts the files of the grammar and no others.
AcceptsTheGrammar == result \in {"true", "false"} => (result = "true" <=> IsConfig(tokens))

\* The tree Parse builds has the blocks of the file, each with its statements
\* in their order and these with their words.
TreeIsTheFile == result = "true" => configs = TreeOf(tokens)
=============================================================================
