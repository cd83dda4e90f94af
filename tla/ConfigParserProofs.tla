------------------------- MODULE ConfigParserProofs -------------------------
(***************************************************************************)
(* For files of any length: Parse never asks an empty stack or an empty    *)
(* vector of statements for an element, its two stacks agree with each     *)
(* other and with the tree, it accepts the files of the grammar and no     *)
(* others, and the tree is that of the file.                               *)
(***************************************************************************)
EXTENDS ConfigParser, PathsProofs, FiniteSetTheorems

Statement == [size : Nat, child : Nat]

ParserTypeOK ==
  /\ lastType \in TokenTypes \cup {"START"}
  /\ configs \in Seq(Seq(Statement))
  /\ configStack \in Seq(1 .. Len(configs))
  /\ bracketStack \in Seq({"START_BLOCK"})
  /\ result \in {"running", "true", "false", "undefined"}

\* Of the blocks being filled, an inner one was created after an outer one: no
\* block is on the stack twice, so that filling one leaves the others alone.
StackAscends ==
  \A i, j \in 1 .. Len(configStack) : i < j => configStack[i] < configStack[j]

\* After a word there is a statement for it: the one it was put into.
WordHasStatement == lastType = "NORMAL" => Statements(Top(configStack)) # <<>>

\* What holds while Parse runs; only StackAscends and WordHasStatement are
\* needed besides the properties for the invariant to be inductive.
Running == StacksAgree /\ StackAscends /\ WordHasStatement

IInv ==
  /\ ParserTypeOK
  /\ result # "undefined"
  /\ result = "running" => Running

LEMMA InitInv == Init => IInv
  BY DEF Init, IInv, ParserTypeOK, Running, StacksAgree, StackAscends, WordHasStatement,
         TokenTypes, Statements, Top, Statement

-----------------------------------------------------------------------------
\* The top of the stack of blocks is one of the configs.
LEMMA TopIsThere ==
  ASSUME IInv, result = "running"
  PROVE  /\ configStack # <<>> /\ Len(configStack) \in Nat \ {0}
         /\ Top(configStack) \in 1 .. Len(configs)
         /\ Statements(Top(configStack)) \in Seq(Statement)
  BY DEF IInv, ParserTypeOK, Running, StacksAgree, Top, Statements

\* The blocks below the top are configs too, and others than the top.
LEMMA BelowIsOther ==
  ASSUME IInv, result = "running", NEW i \in 1 .. Len(configStack) - 1
  PROVE  configStack[i] \in 1 .. Len(configs) /\ configStack[i] # Top(configStack)
<1>1. /\ Len(configStack) \in Nat \ {0}
      /\ i \in 1 .. Len(configStack) /\ Len(configStack) \in 1 .. Len(configStack)
      /\ i < Len(configStack)
  BY TopIsThere
<1>2. /\ configStack[i] \in 1 .. Len(configs)
      /\ configStack[Len(configStack)] \in 1 .. Len(configs)
  BY <1>1, ElementOfSeq DEF IInv, ParserTypeOK
<1>3. configStack[i] < configStack[Len(configStack)]
  BY <1>1 DEF IInv, Running, StackAscends
<1>4. Len(configs) \in Nat
  BY DEF IInv, ParserTypeOK
<1> QED BY <1>2, <1>3, <1>4 DEF Top

\* Replacing an element of a sequence, adding one, taking the last away.
LEMMA OneReplaced ==
  ASSUME NEW S, NEW s \in Seq(S), NEW i \in 1 .. Len(s), NEW x \in S
  PROVE  [s EXCEPT ![i] = x] \in Seq(S) /\ Len([s EXCEPT ![i] = x]) = Len(s)
  OBVIOUS

LEMMA OneMore ==
  ASSUME NEW S, NEW s \in Seq(S), NEW x \in S
  PROVE  /\ Append(s, x) \in Seq(S) /\ Append(s, x) # <<>>
         /\ Len(Append(s, x)) = Len(s) + 1 /\ Append(s, x)[Len(s) + 1] = x
         /\ \A i \in 1 .. Len(s) : Append(s, x)[i] = s[i]
  OBVIOUS

LEMMA OneLess ==
  ASSUME NEW S, NEW s \in Seq(S), s # <<>>
  PROVE  /\ Pop(s) \in Seq(S) /\ Len(Pop(s)) = Len(s) - 1 /\ Len(s) \in Nat \ {0}
         /\ \A i \in 1 .. Len(s) - 1 : Pop(s)[i] = s[i]
<1>1. Len(s) \in Nat \ {0}
  BY EmptySeq
<1>2. \A i \in 1 .. Len(s) - 1 : s[i] \in S
  BY <1>1, ElementOfSeq
<1>3. Pop(s) = SubSeq(s, 1, Len(s) - 1)
  BY DEF Pop
<1>4. /\ SubSeq(s, 1, Len(s) - 1) \in Seq(S)
      /\ Len(SubSeq(s, 1, Len(s) - 1)) =
           IF 1 <= Len(s) - 1 THEN (Len(s) - 1) - 1 + 1 ELSE 0
      /\ \A i \in 1 .. (Len(s) - 1) - 1 + 1 : SubSeq(s, 1, Len(s) - 1)[i] = s[1 + i - 1]
  BY <1>1, <1>2, SubSeqProperties, Len(s) - 1 \in Int
<1>5. \A i \in 1 .. Len(s) - 1 : SubSeq(s, 1, Len(s) - 1)[i] = s[i]
  <2> SUFFICES ASSUME NEW i \in 1 .. Len(s) - 1
               PROVE  SubSeq(s, 1, Len(s) - 1)[i] = s[i]
    OBVIOUS
  <2>1. i \in 1 .. (Len(s) - 1) - 1 + 1 /\ 1 + i - 1 = i
    BY <1>1
  <2> QED BY <1>4, <2>1
<1>6. Len(SubSeq(s, 1, Len(s) - 1)) = Len(s) - 1
  <2> DEFINE n == Len(s)
             l == Len(SubSeq(s, 1, n - 1))
  <2>1. n \in Nat \ {0} /\ l = IF 1 <= n - 1 THEN (n - 1) - 1 + 1 ELSE 0
    BY <1>1, <1>4
  <2> HIDE DEF n, l
  <2>2. l = n - 1
    BY <2>1
  <2> QED BY <2>2 DEF n, l
<1> QED BY <1>1, <1>3, <1>4, <1>5, <1>6

\* A step that only changes the statements of the top block, and leaves it with
\* one at least, keeps everything.
LEMMA TopFilled ==
  ASSUME IInv, result = "running", NEW block \in Seq(Statement), block # <<>>,
         configs' = [configs EXCEPT ![Top(configStack)] = block],
         lastType' = "NORMAL",
         UNCHANGED <<configStack, bracketStack, result>>
  PROVE  IInv'
<1> DEFINE c == Top(configStack)
<1>1. /\ configStack # <<>> /\ Len(configStack) \in Nat \ {0}
      /\ c \in 1 .. Len(configs)
  BY TopIsThere
<1>2. /\ configs' \in Seq(Seq(Statement)) /\ Len(configs') = Len(configs)
      /\ \A d \in 1 .. Len(configs) : configs'[d] = IF d = c THEN block ELSE configs[d]
  BY <1>1 DEF IInv, ParserTypeOK
<1>3. ParserTypeOK'
  BY <1>2 DEF IInv, ParserTypeOK, TokenTypes
<1>4. \A i \in 1 .. Len(configStack) - 1 : configs'[configStack[i]] = configs[configStack[i]]
  BY <1>2, BelowIsOther
<1>5. StacksAgree'
  BY <1>4 DEF IInv, Running, StacksAgree, Statements
<1>6. StackAscends' /\ WordHasStatement'
  BY <1>1, <1>2 DEF IInv, Running, StackAscends, WordHasStatement, Statements, Top
<1> QED BY <1>3, <1>5, <1>6 DEF IInv, Running

LEMMA NormalInv ==
  ASSUME IInv, Normal
  PROVE  IInv'
<1> DEFINE c == Top(configStack)
           n == Len(Statements(c))
<1>1. result = "running"
  BY DEF Normal, Read
<1>2. /\ configStack # <<>>
      /\ c \in 1 .. Len(configs)
      /\ configs[c] \in Seq(Statement)
  BY <1>1, TopIsThere DEF Statements
<1>3. CASE ~Continues
  <2> DEFINE block == Append(configs[c], [size |-> 1, child |-> NoChild])
  <2>1. block \in Seq(Statement) /\ block # <<>>
    <3>1. [size |-> 1, child |-> NoChild] \in Statement
      BY DEF Statement, NoChild
    <3> QED BY <1>2, <3>1, OneMore
  <2>2. /\ configs' = [configs EXCEPT ![c] = block] /\ lastType' = "NORMAL"
        /\ UNCHANGED <<configStack, bracketStack, result>>
    BY <1>2, <1>3 DEF Normal, Accept
  <2> QED BY <1>1, <2>1, <2>2, TopFilled
<1>4. CASE Continues
  <2>1. n # 0 /\ n \in 1 .. Len(configs[c])
    BY <1>1, <1>2, <1>4 DEF IInv, Running, WordHasStatement, Statements, Continues
  <2> DEFINE block == [configs[c] EXCEPT ![n].size = @ + 1]
  <2>2. block \in Seq(Statement) /\ block # <<>>
    <3>1. configs[c][n] \in Statement
      BY <1>2, <2>1
    <3>2. [configs[c][n] EXCEPT !.size = @ + 1] \in Statement
      BY <3>1 DEF Statement
    <3>3. block = [configs[c] EXCEPT ![n] = [configs[c][n] EXCEPT !.size = @ + 1]]
      OBVIOUS
    <3> QED BY <1>2, <2>1, <3>2, <3>3, OneReplaced
  <2>3. /\ configs' = [configs EXCEPT ![c] = block] /\ lastType' = "NORMAL"
        /\ UNCHANGED <<configStack, bracketStack, result>>
    BY <1>2, <1>4, <2>1 DEF Normal, Accept, Statements
  <2> QED BY <1>1, <2>2, <2>3, TopFilled
<1> QED BY <1>3, <1>4

LEMMA StartBlockInv ==
  ASSUME IInv, StartBlock
  PROVE  IInv'
<1> DEFINE c == Top(configStack)
           n == Len(Statements(c))
           new == Len(configs) + 1
<1>1. result = "running"
  BY DEF StartBlock, Read
<1>2. /\ configStack # <<>> /\ Len(configStack) \in Nat \ {0}
      /\ c \in 1 .. Len(configs)
      /\ configs[c] \in Seq(Statement)
  BY <1>1, TopIsThere DEF Statements
<1>3. CASE lastType # "NORMAL"
  BY <1>1, <1>3 DEF StartBlock, Reject, IInv, ParserTypeOK
<1>4. CASE lastType = "NORMAL"
  <2>1. n # 0 /\ n \in 1 .. Len(configs[c]) /\ Statements(c) # <<>>
    BY <1>1, <1>2, <1>4 DEF IInv, Running, WordHasStatement, Statements
  <2> DEFINE block == [configs[c] EXCEPT ![n].child = new]
             filled == [configs EXCEPT ![c] = block]
  <2>2. /\ configs' = Append(filled, <<>>)
        /\ configStack' = Append(configStack, new)
        /\ bracketStack' = Append(bracketStack, "START_BLOCK")
        /\ lastType' = "START_BLOCK" /\ UNCHANGED result
    BY <1>2, <1>4, <2>1 DEF StartBlock, Accept, Push, Statements
  <2>3. block \in Seq(Statement) /\ Len(block) = n /\ block[n].child = new
    <3>1. configs[c][n] \in Statement /\ new \in Nat
      BY <1>2, <2>1 DEF IInv, ParserTypeOK
    <3>2. /\ [configs[c][n] EXCEPT !.child = new] \in Statement
          /\ [configs[c][n] EXCEPT !.child = new].child = new
      BY <3>1 DEF Statement
    <3>3. block = [configs[c] EXCEPT ![n] = [configs[c][n] EXCEPT !.child = new]]
      OBVIOUS
    <3> QED BY <1>2, <2>1, <3>2, <3>3, OneReplaced DEF Statements
  <2>4. filled \in Seq(Seq(Statement)) /\ Len(filled) = Len(configs)
    BY <1>2, <2>3, OneReplaced DEF IInv, ParserTypeOK
  <2> HIDE DEF block
  <2>5. /\ configs' \in Seq(Seq(Statement)) /\ Len(configs') = new
        /\ configs'[c] = block
        /\ \A d \in 1 .. Len(configs) : d # c => configs'[d] = configs[d]
    BY <1>2, <2>2, <2>3, <2>4 DEF IInv, ParserTypeOK
  <2>6. /\ Len(configStack') = Len(configStack) + 1
        /\ configStack'[Len(configStack) + 1] = new
        /\ \A i \in 1 .. Len(configStack) : configStack'[i] = configStack[i]
        /\ Len(bracketStack') = Len(bracketStack) + 1
    BY <2>2 DEF IInv, ParserTypeOK
  <2>7. ParserTypeOK'
    <3>1. configStack' \in Seq(1 .. Len(configs'))
      BY <2>2, <2>5 DEF IInv, ParserTypeOK
    <3> QED BY <2>2, <2>5, <3>1 DEF IInv, ParserTypeOK, TokenTypes
  <2>8. StackAscends'
    <3> SUFFICES ASSUME NEW i \in 1 .. Len(configStack'), NEW j \in 1 .. Len(configStack'), i < j
                 PROVE  configStack'[i] < configStack'[j]
      BY DEF StackAscends
    <3>1. /\ i \in 1 .. Len(configStack) /\ Len(configs) \in Nat
          /\ configStack'[i] = configStack[i] /\ configStack[i] \in 1 .. Len(configs)
      <4>1. Len(configs) \in Nat
        BY DEF IInv, ParserTypeOK
      <4>2. j \in 1 .. Len(configStack) + 1
        BY <2>6
      <4>3. i \in 1 .. Len(configStack)
        BY <1>2, <2>6, <4>2
      <4> QED BY <2>6, <4>1, <4>3, ElementOfSeq DEF IInv, ParserTypeOK
    <3>2. CASE j = Len(configStack) + 1
      BY <2>6, <3>1, <3>2
    <3>3. CASE j \in 1 .. Len(configStack)
      BY <1>1, <2>6, <3>1, <3>3 DEF IInv, Running, StackAscends
    <3> QED BY <1>2, <2>6, <3>2, <3>3
  <2>9. StacksAgree'
    <3>1. ASSUME NEW i \in 1 .. Len(configStack') - 1
          PROVE  /\ configs'[configStack'[i]] # <<>>
                 /\ LET below == configs'[configStack'[i]]
                    IN  below[Len(below)].child = configStack'[i + 1]
      <4>1. CASE i = Len(configStack)
        <5>1. configStack'[i] = c /\ configStack'[i + 1] = new
          BY <1>2, <2>6, <4>1 DEF Top
        <5> QED BY <2>1, <2>3, <2>5, <5>1
      <4>2. CASE i < Len(configStack)
        <5>1. configStack[i] \in 1 .. Len(configs) /\ configStack[i] # c
          BY <1>1, <1>2, <4>2, BelowIsOther, i \in 1 .. Len(configStack) - 1
        <5>2. configs'[configStack'[i]] = configs[configStack[i]] /\ configStack'[i + 1] = configStack[i + 1]
          BY <1>2, <2>5, <2>6, <4>2, <5>1, i \in 1 .. Len(configStack), i + 1 \in 1 .. Len(configStack)
        <5> QED BY <1>1, <1>2, <4>2, <5>2 DEF IInv, Running, StacksAgree, Statements
      <4> QED BY <1>2, <2>6, <4>1, <4>2
    <3>2. Len(configStack') = Len(bracketStack') + 1 /\ configStack'[1] = 1
      BY <1>1, <1>2, <2>6 DEF IInv, Running, StacksAgree
    <3> QED BY <3>1, <3>2 DEF StacksAgree, Statements
  <2>10. WordHasStatement'
    BY <2>2 DEF WordHasStatement
  <2> QED BY <1>1, <2>2, <2>7, <2>8, <2>9, <2>10 DEF IInv, Running
<1> QED BY <1>3, <1>4

LEMMA EndBlockInv ==
  ASSUME IInv, EndBlock
  PROVE  IInv'
<1>1. result = "running"
  BY DEF EndBlock, Read
<1>2. configStack # <<>> /\ Len(configStack) \in Nat \ {0}
  BY <1>1, TopIsThere
<1>3. CASE lastType \notin BeforeEnd
  BY <1>1, <1>3 DEF EndBlock, Reject, IInv, ParserTypeOK
<1>4. CASE lastType \in BeforeEnd
  <2>1. /\ configStack' = Pop(configStack) /\ UNCHANGED configs
        /\ \/ Unbalanced /\ Reject /\ UNCHANGED bracketStack
           \/ ~Unbalanced /\ bracketStack' = Pop(bracketStack) /\ Accept("END_BLOCK")
    BY <1>2, <1>4 DEF EndBlock
  <2>2. /\ configStack' \in Seq(1 .. Len(configs))
        /\ Len(configStack') = Len(configStack) - 1
        /\ \A i \in 1 .. Len(configStack) - 1 : configStack'[i] = configStack[i]
    BY <1>2, <2>1, OneLess DEF IInv, ParserTypeOK
  <2>3. CASE Unbalanced /\ Reject /\ UNCHANGED bracketStack
    BY <2>1, <2>2, <2>3 DEF Reject, IInv, ParserTypeOK
  <2>4. CASE ~Unbalanced /\ bracketStack' = Pop(bracketStack) /\ Accept("END_BLOCK")
    <3>1. /\ bracketStack' \in Seq({"START_BLOCK"})
          /\ Len(bracketStack') = Len(bracketStack) - 1 /\ Len(bracketStack) > 0
      BY <2>4, OneLess DEF IInv, ParserTypeOK, Unbalanced
    <3>2. ParserTypeOK'
      BY <2>1, <2>2, <2>4, <3>1 DEF IInv, ParserTypeOK, Accept, TokenTypes
    <3>3. StacksAgree'
      <4>1. Len(configStack) = Len(bracketStack) + 1 /\ configStack[1] = 1
        BY <1>1 DEF IInv, Running, StacksAgree
      <4>2. Len(configStack') = Len(bracketStack') + 1 /\ configStack'[1] = 1
        <5>1. Len(bracketStack) \in Nat /\ Len(configStack) - 1 >= 1
          BY <3>1, <4>1 DEF IInv, ParserTypeOK
        <5> QED BY <1>2, <2>2, <3>1, <4>1, <5>1
      <4>3. ASSUME NEW i \in 1 .. Len(configStack') - 1
            PROVE  /\ i \in 1 .. Len(configStack) - 1
                   /\ configStack'[i] = configStack[i] /\ configStack'[i + 1] = configStack[i + 1]
        BY <1>2, <2>2
      <4> QED BY <1>1, <2>1, <4>2, <4>3 DEF IInv, Running, StacksAgree, Statements
    <3>4. StackAscends' /\ WordHasStatement'
      BY <1>1, <2>2, <2>4 DEF IInv, Running, StackAscends, WordHasStatement, Accept
    <3> QED BY <1>1, <2>4, <3>2, <3>3, <3>4 DEF IInv, Running, Accept
  <2> QED BY <2>1, <2>3, <2>4
<1> QED BY <1>3, <1>4

\* The steps that leave both stacks and the tree alone.
LEMMA OtherInv ==
  ASSUME IInv, Comment \/ Error \/ StatementEnd \/ EndOfFile
  PROVE  IInv'
<1>1. /\ UNCHANGED <<configs, configStack, bracketStack>>
      /\ result = "running" /\ result' \in {"running", "true", "false"}
      /\ lastType' \in {lastType, "STATEMENT_END"}
  BY DEF Comment, Error, StatementEnd, EndOfFile, Read, Reject, Accept
<1>2. ParserTypeOK'
  BY <1>1 DEF IInv, ParserTypeOK, TokenTypes
<1>3. Running'
  BY <1>1 DEF IInv, Running, StacksAgree, StackAscends, WordHasStatement, Statements, Top
<1> QED BY <1>1, <1>2, <1>3 DEF IInv

LEMMA NextInv == IInv /\ [Next]_vars => IInv'
<1> SUFFICES ASSUME IInv, [Next]_vars PROVE IInv'
  OBVIOUS
<1>1. CASE Normal
  BY <1>1, NormalInv
<1>2. CASE StartBlock
  BY <1>2, StartBlockInv
<1>3. CASE EndBlock
  BY <1>3, EndBlockInv
<1>4. CASE Comment \/ Error \/ StatementEnd \/ EndOfFile
  BY <1>4, OtherInv
<1>5. CASE UNCHANGED vars
  BY <1>5 DEF vars, IInv, ParserTypeOK, Running, StacksAgree, StackAscends,
              WordHasStatement, Statements, Top
<1> QED BY <1>1, <1>2, <1>3, <1>4, <1>5 DEF Next

LEMMA Invariance == Spec => []IInv
  BY InitInv, NextInv, PTL DEF Spec

-----------------------------------------------------------------------------
\* config_parser.cc calls top() and pop() on config_stack, and back() on a
\* vector of statements, without asking whether they are empty: they never are,
\* for a file of any length.
THEOREM ParserIsDefined == Spec => []NeverUndefined
<1>1. IInv => NeverUndefined
  BY DEF IInv, NeverUndefined
<1> QED BY <1>1, Invariance, PTL

\* The two stacks and the tree agree while a file of any length is parsed.
THEOREM StacksAlwaysAgree == Spec => []StacksAgree
<1>1. IInv => StacksAgree
  BY DEF IInv, Running, StacksAgree
<1> QED BY <1>1, Invariance, PTL

-----------------------------------------------------------------------------
(* Counting tokens.                                                        *)

LEMMA CountIsNat ==
  ASSUME NEW file, NEW type, NEW i \in Nat
  PROVE  /\ Count(file, type, i) \in Nat
         /\ IsFiniteSet({j \in 1 .. i : file[j] = type})
<1>1. IsFiniteSet(1 .. i)
  BY FS_Interval, 1 \in Int, i \in Int
<1> QED BY <1>1, FS_Subset, FS_CardinalityType DEF Count

\* One place more.
LEMMA CountOneMore ==
  ASSUME NEW file, NEW type, NEW i \in Nat
  PROVE  /\ Count(file, type, 0) = 0
         /\ Count(file, type, i + 1) = Count(file, type, i) + IF file[i + 1] = type THEN 1 ELSE 0
<1> DEFINE these == {j \in 1 .. i : file[j] = type}
           more == {j \in 1 .. i + 1 : file[j] = type}
<1>1. Count(file, type, 0) = 0
  <2>1. {j \in 1 .. 0 : file[j] = type} = {}
    OBVIOUS
  <2> QED BY <2>1, FS_EmptySet DEF Count
<1>2. IsFiniteSet(these) /\ Cardinality(these) \in Nat
  BY CountIsNat, FS_CardinalityType
<1>3. i + 1 \notin these
  OBVIOUS
<1>4. more = IF file[i + 1] = type THEN these \cup {i + 1} ELSE these
  OBVIOUS
<1>5. Cardinality(more) = Cardinality(these) + IF file[i + 1] = type THEN 1 ELSE 0
  <2> HIDE DEF these, more
  <2>1. CASE file[i + 1] = type
    BY <1>2, <1>3, <1>4, <2>1, FS_AddElement
  <2>2. CASE file[i + 1] # type
    BY <1>2, <1>4, <2>2
  <2> QED BY <2>1, <2>2
<1> QED BY <1>1, <1>5 DEF Count

\* What is counted among the first tokens does not depend on those behind.
LEMMA CountOfPart ==
  ASSUME NEW file, NEW longer, NEW i \in Nat, NEW type,
         \A j \in 1 .. i : longer[j] = file[j]
  PROVE  Count(longer, type, i) = Count(file, type, i)
<1>1. {j \in 1 .. i : longer[j] = type} = {j \in 1 .. i : file[j] = type}
  OBVIOUS
<1> QED BY <1>1 DEF Count

\* The depth is that before the token, but for a bracket.
Step(type) == CASE type = "START_BLOCK" -> 1 [] type = "END_BLOCK" -> -1 [] OTHER -> 0

LEMMA DepthOneMore ==
  ASSUME NEW file, NEW i \in Nat
  PROVE  /\ Depth(file, i) \in Int /\ Depth(file, 0) = 0
         /\ Depth(file, i + 1) = Depth(file, i) + Step(file[i + 1])
<1>1. ASSUME NEW type
      PROVE  /\ Count(file, type, i) \in Nat /\ Count(file, type, 0) = 0
             /\ Count(file, type, i + 1) = Count(file, type, i) + IF file[i + 1] = type THEN 1 ELSE 0
  <2>1. Count(file, type, i) \in Nat
    BY CountIsNat
  <2> QED BY <2>1, CountOneMore
<1> QED BY <1>1 DEF Depth, Step

LEMMA DepthOfPart ==
  ASSUME NEW file, NEW longer, NEW i \in Nat, \A j \in 1 .. i : longer[j] = file[j]
  PROVE  Depth(longer, i) = Depth(file, i)
BY CountOfPart DEF Depth

LEMMA MaxIs ==
  ASSUME NEW S \in SUBSET Nat, NEW m \in S, \A n \in S : n <= m
  PROVE  Max(S) = m
<1>1. m \in S /\ \A n \in S : m >= n
  OBVIOUS
<1>2. \A x \in S : (\A n \in S : x >= n) => x = m
  OBVIOUS
<1> QED BY <1>1, <1>2 DEF Max

\* Every set of places has a last one.
LEMMA MaxIsThere ==
  ASSUME NEW n \in Nat, NEW S \in SUBSET (0 .. n), S # {}
  PROVE  Max(S) \in S /\ \A m \in S : m <= Max(S)
<1>1. PICK m \in S : \A k \in S : k <= m
  BY LargestExists
<1> QED BY <1>1, MaxIs

-----------------------------------------------------------------------------
(* Files that differ by their last token.                                  *)

LEMMA BeforeOfPart ==
  ASSUME NEW file, NEW longer, NEW i \in Nat, \A j \in 1 .. i : longer[j] = file[j]
  PROVE  Before(longer, i + 1) = Before(file, i + 1)
<1> DEFINE earlier == {j \in 1 .. i : file[j] # "COMMENT"}
<1>1. /\ {j \in 1 .. i + 1 - 1 : longer[j] # "COMMENT"} = earlier
      /\ {j \in 1 .. i + 1 - 1 : file[j] # "COMMENT"} = earlier
  OBVIOUS
<1>2. earlier # {} => longer[Max(earlier)] = file[Max(earlier)]
  <2>1. earlier # {} => Max(earlier) \in earlier
    <3> earlier \in SUBSET (0 .. i)
      OBVIOUS
    <3> HIDE DEF earlier
    <3> QED BY MaxIsThere
  <2> QED BY <2>1
<1> QED BY <1>1, <1>2 DEF Before

LEMMA BeforeOneMore ==
  ASSUME NEW file, NEW i \in Nat
  PROVE  /\ Before(file, 1) = "START"
         /\ Before(file, i + 2) =
              IF file[i + 1] = "COMMENT" THEN Before(file, i + 1) ELSE file[i + 1]
<1>1. Before(file, 1) = "START"
  <2>1. {j \in 1 .. 1 - 1 : file[j] # "COMMENT"} = {}
    OBVIOUS
  <2> QED BY <2>1 DEF Before
<1> DEFINE earlier == {j \in 1 .. i : file[j] # "COMMENT"}
           now == {j \in 1 .. i + 1 : file[j] # "COMMENT"}
<1>2. /\ {j \in 1 .. i + 1 - 1 : file[j] # "COMMENT"} = earlier
      /\ {j \in 1 .. i + 2 - 1 : file[j] # "COMMENT"} = now
  OBVIOUS
<1>3. CASE file[i + 1] = "COMMENT"
  <2>1. now = earlier
    BY <1>3
  <2> QED BY <1>1, <1>2, <1>3, <2>1 DEF Before
<1>4. CASE file[i + 1] # "COMMENT"
  <2>1. /\ now \in SUBSET Nat /\ i + 1 \in now
        /\ \A j \in now : j <= i + 1
    BY <1>4
  <2>2. Max(now) = i + 1 /\ now # {}
    <3> HIDE DEF now
    <3> QED BY <2>1, MaxIs
  <2> QED BY <1>1, <1>2, <1>4, <2>2 DEF Before
<1> QED BY <1>3, <1>4
-----------------------------------------------------------------------------
(* The grammar.                                                            *)

\* While Parse runs, all that was read is as the grammar has it so far, the last
\* type is the one that matters, and there are as many brackets as open blocks.
GrammarSoFar ==
  /\ \A i \in 1 .. Len(tokens) : PlaceOK(tokens, i)
  /\ lastType = Before(tokens, Len(tokens) + 1)
  /\ Depth(tokens, Len(tokens)) = Len(bracketStack)
  /\ lastType \notin {"COMMENT", "ERROR"}
  /\ lastType = "START" => bracketStack = <<>>
  /\ lastType = "START_BLOCK" => bracketStack # <<>>

GInv ==
  /\ tokens \in Seq(TokenTypes)
  /\ result = "running" => GrammarSoFar
  /\ AcceptsTheGrammar

\* Whether a token is in its place does not depend on those behind.
LEMMA PlaceOfPart ==
  ASSUME NEW file, NEW longer, NEW i \in Nat \ {0}, \A j \in 1 .. i : longer[j] = file[j]
  PROVE  PlaceOK(longer, i) <=> PlaceOK(file, i)
<1>1. i - 1 \in Nat /\ i \in Nat /\ (i - 1) + 1 = i /\ i \in 1 .. i
  OBVIOUS
<1>2. \A j \in 1 .. i - 1 : longer[j] = file[j]
  BY <1>1
<1>3. Depth(longer, i) = Depth(file, i)
  BY <1>1, DepthOfPart
<1>4. Before(longer, (i - 1) + 1) = Before(file, (i - 1) + 1)
  BY <1>1, <1>2, BeforeOfPart, i - 1 \in Nat
<1> QED BY <1>1, <1>3, <1>4 DEF PlaceOK

\* What a token more makes of a file.
LEMMA TokenMore ==
  ASSUME NEW file \in Seq(TokenTypes), NEW type \in TokenTypes
  PROVE  LET longer == Append(file, type)
             n == Len(file)
         IN  /\ longer \in Seq(TokenTypes) /\ Len(longer) = n + 1 /\ n \in Nat
             /\ longer[n + 1] = type /\ \A i \in 1 .. n : longer[i] = file[i]
             /\ \A i \in 1 .. n : PlaceOK(longer, i) <=> PlaceOK(file, i)
             /\ Before(longer, n + 1) = Before(file, n + 1)
             /\ Before(longer, n + 2) = IF type = "COMMENT" THEN Before(file, n + 1) ELSE type
             /\ Depth(longer, n + 1) = Depth(file, n) + Step(type)
             /\ Depth(file, n) \in Int
<1> DEFINE longer == Append(file, type)
           n == Len(file)
<1>1. /\ longer \in Seq(TokenTypes) /\ Len(longer) = n + 1 /\ n \in Nat
      /\ longer[n + 1] = type /\ \A i \in 1 .. n : longer[i] = file[i]
  BY AppendProperties
<1> HIDE DEF longer, n
<1>2. Before(longer, n + 1) = Before(file, n + 1)
  BY <1>1, BeforeOfPart
<1>3. Before(longer, n + 2) = IF type = "COMMENT" THEN Before(file, n + 1) ELSE type
  BY <1>1, <1>2, BeforeOneMore
<1>4. Depth(longer, n + 1) = Depth(file, n) + Step(type) /\ Depth(file, n) \in Int
  BY <1>1, DepthOneMore, DepthOfPart
<1>5. ASSUME NEW i \in 1 .. n PROVE PlaceOK(longer, i) <=> PlaceOK(file, i)
  <2>1. i \in Nat \ {0} /\ \A j \in 1 .. i : longer[j] = file[j]
    BY <1>1
  <2> QED BY <2>1, PlaceOfPart
<1> QED BY <1>1, <1>2, <1>3, <1>4, <1>5 DEF longer, n

\* A token that the grammar has no place for.
LEMMA NoPlace ==
  ASSUME NEW file, NEW i \in DOMAIN file, ~PlaceOK(file, i)
  PROVE  ~IsConfig(file)
BY DEF IsConfig

\* A token is rejected when it is read, if it is.
Judged == tokens' # tokens => (result' = "false" <=> ~PlaceOK(tokens', Len(tokens')))

LEMMA InitGrammar == Init => GInv
<1> SUFFICES ASSUME Init PROVE GInv
  OBVIOUS
<1>1. tokens = <<>> /\ tokens \in Seq(TokenTypes) /\ Len(tokens) = 0
  BY DEF Init
<1>2. Before(tokens, 0 + 1) = "START" /\ Depth(tokens, 0) = 0
  BY BeforeOneMore, DepthOneMore, 0 \in Nat
<1> QED BY <1>1, <1>2 DEF Init, GInv, GrammarSoFar, AcceptsTheGrammar

\* A step that reads a token: what is left to show is what it does to the rest.
LEMMA ReadGrammar ==
  ASSUME IInv, GInv, NEW type \in TokenTypes, Read(type),
         \/ /\ result' = "false"
            /\ \/ type = "ERROR"
               \/ type \in {"STATEMENT_END", "START_BLOCK"} /\ lastType # "NORMAL"
               \/ type = "END_BLOCK" /\ (lastType = "NORMAL" \/ bracketStack = <<>>)
         \/ /\ result' = "running"
            /\ type # "ERROR"
            /\ type \in {"STATEMENT_END", "START_BLOCK"} => lastType = "NORMAL"
            /\ type = "END_BLOCK" => lastType # "NORMAL"
            /\ Len(bracketStack') = Len(bracketStack) + Step(type)
            /\ lastType' = IF type = "COMMENT" THEN lastType ELSE type
            /\ bracketStack' \in Seq({"START_BLOCK"})
            /\ type = "COMMENT" => UNCHANGED bracketStack
  PROVE  GInv' /\ Judged
<1> DEFINE n == Len(tokens)
<1>1. /\ result = "running" /\ tokens' = Append(tokens, type)
      /\ tokens \in Seq(TokenTypes) /\ GrammarSoFar
      /\ bracketStack \in Seq({"START_BLOCK"})
  BY DEF Read, GInv, IInv, ParserTypeOK
<1>2. /\ tokens' \in Seq(TokenTypes) /\ Len(tokens') = n + 1 /\ n \in Nat
      /\ tokens'[n + 1] = type
      /\ \A i \in 1 .. n : PlaceOK(tokens', i) <=> PlaceOK(tokens, i)
      /\ Before(tokens', n + 1) = Before(tokens, n + 1)
      /\ Before(tokens', n + 2) = IF type = "COMMENT" THEN Before(tokens, n + 1) ELSE type
      /\ Depth(tokens', n + 1) = Depth(tokens, n) + Step(type)
      /\ Depth(tokens, n) \in Int
  BY <1>1, TokenMore
<1> HIDE DEF n
<1>3. CASE result' = "false"
  <2>1. ~PlaceOK(tokens', n + 1)
    BY <1>1, <1>2, <1>3 DEF PlaceOK, GrammarSoFar, Step, n
  <2>2. ~IsConfig(tokens')
    <3>1. n + 1 \in DOMAIN tokens'
      BY <1>2
    <3> QED BY <2>1, <3>1, NoPlace
  <2> QED BY <1>2, <1>3, <2>1, <2>2 DEF GInv, AcceptsTheGrammar, Judged
<1>4. CASE result' = "running"
  <2>1. Len(bracketStack') \in Nat /\ Len(bracketStack) \in Nat
    BY <1>1, <1>4
  <2>2. PlaceOK(tokens', n + 1)
    BY <1>1, <1>2, <1>4, <2>1 DEF PlaceOK, GrammarSoFar, n
  <2>3. \A i \in 1 .. n + 1 : PlaceOK(tokens', i)
    <3>1. \A i \in 1 .. n : PlaceOK(tokens', i)
      BY <1>1, <1>2 DEF GrammarSoFar, n
    <3> QED BY <1>2, <2>2, <3>1
  <2>4. /\ lastType' = Before(tokens', (n + 1) + 1)
        /\ Depth(tokens', n + 1) = Len(bracketStack')
        /\ lastType' \notin {"COMMENT", "ERROR"}
    BY <1>1, <1>2, <1>4 DEF GrammarSoFar, n
  <2>5. /\ lastType' = "START" => bracketStack' = <<>>
        /\ lastType' = "START_BLOCK" => bracketStack' # <<>>
    <3>1. type \in TokenTypes => type # "START"
      BY DEF TokenTypes
    <3>2. type = "START_BLOCK" => Len(bracketStack') > 0
      BY <1>4, <2>1 DEF Step
    <3> QED BY <1>1, <1>4, <3>1, <3>2 DEF GrammarSoFar
  <2>6. GrammarSoFar'
    BY <1>2, <2>3, <2>4, <2>5 DEF GrammarSoFar
  <2> QED BY <1>2, <1>4, <2>2, <2>6 DEF GInv, AcceptsTheGrammar, Judged
<1> QED BY <1>3, <1>4

LEMMA NextGrammar == IInv /\ IInv' /\ GInv /\ [Next]_vars => GInv' /\ Judged
<1> SUFFICES ASSUME IInv, IInv', GInv, [Next]_vars PROVE GInv' /\ Judged
  OBVIOUS
<1> USE DEF Step
<1>1. /\ bracketStack \in Seq({"START_BLOCK"}) /\ bracketStack' \in Seq({"START_BLOCK"})
      /\ result # "undefined" /\ result' # "undefined"
      /\ result = "running" => GrammarSoFar
  BY DEF IInv, ParserTypeOK, GInv
<1>2. /\ Len(Append(bracketStack, "START_BLOCK")) = Len(bracketStack) + 1
      /\ Len(bracketStack) \in Nat
      /\ bracketStack # <<>> => Len(Pop(bracketStack)) = Len(bracketStack) - 1
  BY <1>1, OneLess
<1>3. CASE Comment
  BY <1>1, <1>2, <1>3, ReadGrammar DEF Comment, TokenTypes, Read
<1>4. CASE Error
  BY <1>1, <1>4, ReadGrammar DEF Error, Reject, TokenTypes
<1>5. CASE Normal
  <2>1. /\ Read("NORMAL") /\ UNCHANGED bracketStack
        /\ lastType' = "NORMAL" /\ UNCHANGED result /\ result = "running"
    BY <1>1, <1>5 DEF Normal, Accept, Undefined, Read
  <2> QED BY <1>2, <1>1, <2>1, ReadGrammar DEF TokenTypes
<1>6. CASE StatementEnd
  BY <1>1, <1>2, <1>6, ReadGrammar DEF StatementEnd, Accept, Reject, TokenTypes, Read
<1>7. CASE StartBlock
  <2>1. /\ Read("START_BLOCK") /\ result = "running"
        /\ \/ lastType # "NORMAL" /\ result' = "false"
           \/ /\ lastType = "NORMAL" /\ result' = "running" /\ lastType' = "START_BLOCK"
              /\ bracketStack' = Append(bracketStack, "START_BLOCK")
    BY <1>1, <1>7 DEF StartBlock, Accept, Undefined, Reject, Read
  <2> QED BY <1>1, <1>2, <2>1, ReadGrammar DEF TokenTypes
<1>8. CASE EndBlock
  <2>1. /\ Read("END_BLOCK") /\ result = "running"
        /\ \/ lastType \notin BeforeEnd /\ result' = "false"
           \/ bracketStack = <<>> /\ result' = "false"
           \/ /\ lastType \in BeforeEnd /\ result' = "running" /\ lastType' = "END_BLOCK"
              /\ bracketStack # <<>> /\ bracketStack' = Pop(bracketStack)
    BY <1>1, <1>8 DEF EndBlock, Accept, Undefined, Reject, Read, Unbalanced
  <2>2. lastType \notin BeforeEnd => lastType \in {"NORMAL", "START"}
    BY <1>1, <2>1 DEF IInv, ParserTypeOK, BeforeEnd, TokenTypes, GrammarSoFar
  <2>3. lastType = "START" => bracketStack = <<>>
    BY <1>1, <2>1 DEF GrammarSoFar
  <2> QED BY <1>1, <1>2, <2>1, <2>2, <2>3, ReadGrammar DEF TokenTypes, BeforeEnd
<1>9. CASE EndOfFile
  <2>1. /\ tokens' = tokens /\ result = "running" /\ tokens \in Seq(TokenTypes) /\ GrammarSoFar
        /\ result' = IF lastType \in {"STATEMENT_END", "END_BLOCK", "START"} /\ bracketStack = <<>>
                     THEN "true" ELSE "false"
    BY <1>1, <1>9 DEF EndOfFile, GInv
  <2>2. IsConfig(tokens) <=> lastType # "NORMAL" /\ bracketStack = <<>>
    <3>1. DOMAIN tokens = 1 .. Len(tokens)
      BY <2>1
    <3>2. bracketStack = <<>> <=> Len(bracketStack) = 0
      BY <1>1
    <3> QED BY <2>1, <3>1, <3>2 DEF IsConfig, GrammarSoFar, PlaceOK
  <2>3. lastType \in TokenTypes \cup {"START"}
    BY DEF IInv, ParserTypeOK
  <2> QED BY <2>1, <2>2, <2>3 DEF GInv, AcceptsTheGrammar, GrammarSoFar, TokenTypes, Judged
<1>10. CASE UNCHANGED vars
  BY <1>10 DEF vars, GInv, GrammarSoFar, AcceptsTheGrammar, Judged
<1> QED BY <1>3, <1>4, <1>5, <1>6, <1>7, <1>8, <1>9, <1>10 DEF Next

\* config_parser.cc allows or refuses each token by the type before it and by
\* whether a bracket is open: so it accepts the files of the grammar and no others.
THEOREM ParseAcceptsTheGrammar == Spec => []AcceptsTheGrammar
<1>1. GInv => AcceptsTheGrammar
  BY DEF GInv
<1> QED BY <1>1, InitGrammar, NextGrammar, Invariance, PTL DEF Spec

\* And it refuses a token when it comes, whatever the rest of the file is.
THEOREM ParseRejectsAtOnce == Spec => RejectsWhatIsOutOfPlace
<1>1. IInv /\ IInv' /\ GInv /\ [Next]_vars => GInv' /\ [Judged]_vars
  BY NextGrammar
<1>2. RejectsWhatIsOutOfPlace <=> [][Judged]_vars
  BY DEF RejectsWhatIsOutOfPlace, Judged
<1> QED BY <1>1, <1>2, InitGrammar, Invariance, PTL DEF Spec

-----------------------------------------------------------------------------
(* Places in a file, and what a token more makes of them.                  *)

Agree(file, longer, i) == \A j \in 1 .. i : longer[j] = file[j]

LEMMA UnclosedOfPart ==
  ASSUME NEW file, NEW longer, NEW i \in Nat, Agree(file, longer, i)
  PROVE  Unclosed(longer, i + 1) = Unclosed(file, i + 1)
<1>1. \A k \in 1 .. i : longer[k] = file[k] /\ Depth(longer, k) = Depth(file, k)
  <2> SUFFICES ASSUME NEW k \in 1 .. i
               PROVE  longer[k] = file[k] /\ Depth(longer, k) = Depth(file, k)
    OBVIOUS
  <2>1. k \in Nat /\ \A j \in 1 .. k : longer[j] = file[j]
    BY DEF Agree
  <2> QED BY <2>1, DepthOfPart
<1>2. (i + 1) - 1 = i
  OBVIOUS
<1>3. \A j \in 1 .. i : (\A k \in j .. i : Depth(longer, j) <= Depth(longer, k))
                     <=> (\A k \in j .. i : Depth(file, j) <= Depth(file, k))
  BY <1>1
<1> QED BY <1>1, <1>2, <1>3 DEF Unclosed

\* The last of the open brackets, or 0.
LEMMA LastOpen ==
  ASSUME NEW file, NEW i \in Nat
  PROVE  /\ Max({0} \cup Unclosed(file, i + 1)) \in {0} \cup Unclosed(file, i + 1)
         /\ \A j \in {0} \cup Unclosed(file, i + 1) : j <= Max({0} \cup Unclosed(file, i + 1))
         /\ {0} \cup Unclosed(file, i + 1) \subseteq 0 .. i
<1> DEFINE S == {0} \cup Unclosed(file, i + 1)
<1>1. S \in SUBSET (0 .. i) /\ S # {}
  BY DEF Unclosed
<1> HIDE DEF S
<1>2. Max(S) \in S /\ \A m \in S : m <= Max(S)
  BY <1>1, MaxIsThere
<1> QED BY <1>1, <1>2 DEF S

LEMMA BlockOfPart ==
  ASSUME NEW file, NEW longer, NEW i \in Nat, Agree(file, longer, i)
  PROVE  BlockAt(longer, i + 1) = BlockAt(file, i + 1)
<1> DEFINE m == Max({0} \cup Unclosed(file, i + 1))
<1>1. m \in 0 .. i
  BY LastOpen
<1> HIDE DEF m
<1>2. \A j \in 1 .. m : longer[j] = file[j]
  BY <1>1 DEF Agree
<1>3. Count(longer, "START_BLOCK", m) = Count(file, "START_BLOCK", m)
  BY <1>1, <1>2, CountOfPart
<1> QED BY <1>3, UnclosedOfPart DEF BlockAt, m

\* The more places, the more tokens.
LEMMA CountGrows ==
  ASSUME NEW file, NEW type, NEW i \in Nat, NEW j \in 0 .. i
  PROVE  Count(file, type, j) <= Count(file, type, i)
<1>1. {k \in 1 .. j : file[k] = type} \in SUBSET {k \in 1 .. i : file[k] = type}
  OBVIOUS
<1>2. IsFiniteSet({k \in 1 .. i : file[k] = type})
  BY CountIsNat
<1> QED BY <1>1, <1>2, FS_Subset DEF Count

LEMMA BlockIsThere ==
  ASSUME NEW file, NEW i \in Nat
  PROVE  BlockAt(file, i + 1) \in 1 .. 1 + Count(file, "START_BLOCK", i)
<1> DEFINE m == Max({0} \cup Unclosed(file, i + 1))
<1>1. m \in 0 .. i
  BY LastOpen
<1> HIDE DEF m
<1>2. /\ Count(file, "START_BLOCK", m) <= Count(file, "START_BLOCK", i)
      /\ Count(file, "START_BLOCK", m) \in Nat
  <2>1. Count(file, "START_BLOCK", m) <= Count(file, "START_BLOCK", i)
    BY <1>1, CountGrows
  <2> QED BY <1>1, <2>1, CountIsNat, m \in Nat
<1>3. Count(file, "START_BLOCK", i) \in Nat
  BY CountIsNat
<1> QED BY <1>2, <1>3 DEF BlockAt, m

LEMMA EndsOfPart ==
  ASSUME NEW file, NEW longer, NEW i \in Nat, Agree(file, longer, i), NEW c
  PROVE  Ends(longer, c, i) = Ends(file, c, i)
<1>1. ASSUME NEW j \in 1 .. i
      PROVE  longer[j] = file[j] /\ BlockAt(longer, j) = BlockAt(file, j)
  <2>1. j - 1 \in Nat /\ Agree(file, longer, j - 1) /\ (j - 1) + 1 = j
    BY DEF Agree
  <2>2. BlockAt(longer, (j - 1) + 1) = BlockAt(file, (j - 1) + 1)
    BY <2>1, BlockOfPart
  <2> QED BY <2>1, <2>2 DEF Agree
<1> QED BY <1>1 DEF Ends

LEMMA EndsAreFinite ==
  ASSUME NEW file, NEW i \in Nat, NEW c
  PROVE  IsFiniteSet(Ends(file, c, i)) /\ Cardinality(Ends(file, c, i)) \in Nat
<1>1. IsFiniteSet(1 .. i)
  BY FS_Interval, 1 \in Int, i \in Int
<1> QED BY <1>1, FS_Subset, FS_CardinalityType DEF Ends

EndTypes == {"STATEMENT_END", "START_BLOCK"}

LEMMA EndsOneMore ==
  ASSUME NEW file, NEW i \in Nat, NEW c
  PROVE  LET more == file[i + 1] \in EndTypes /\ BlockAt(file, i + 1) = c
         IN  /\ Ends(file, c, i + 1) = IF more THEN Ends(file, c, i) \cup {i + 1} ELSE Ends(file, c, i)
             /\ Cardinality(Ends(file, c, i + 1)) =
                  Cardinality(Ends(file, c, i)) + IF more THEN 1 ELSE 0
<1> DEFINE more == file[i + 1] \in EndTypes /\ BlockAt(file, i + 1) = c
<1>1. Ends(file, c, i + 1) = IF more THEN Ends(file, c, i) \cup {i + 1} ELSE Ends(file, c, i)
  BY DEF Ends, EndTypes
<1>2. i + 1 \notin Ends(file, c, i)
  BY DEF Ends
<1>3. IsFiniteSet(Ends(file, c, i)) /\ Cardinality(Ends(file, c, i)) \in Nat
  BY EndsAreFinite
<1>4. Cardinality(Ends(file, c, i + 1)) = Cardinality(Ends(file, c, i)) + IF more THEN 1 ELSE 0
  <2>1. CASE more
    <3>1. Cardinality(Ends(file, c, i) \cup {i + 1}) = Cardinality(Ends(file, c, i)) + 1
      BY <1>2, <1>3, FS_AddElement
    <3> QED BY <1>1, <2>1, <3>1
  <2>2. CASE ~more
    BY <1>1, <1>3, <2>2
  <2> QED BY <2>1, <2>2
<1> QED BY <1>1, <1>4

LEMMA WordsOfPart ==
  ASSUME NEW file, NEW longer, NEW i \in Nat, Agree(file, longer, i)
  PROVE  Words(longer, i + 1) = Words(file, i + 1)
<1>1. (i + 1) - 1 = i
  OBVIOUS
<1> QED BY <1>1 DEF Words, Agree

LEMMA WordsOneMore ==
  ASSUME NEW file, NEW i \in Nat
  PROVE  /\ Words(file, 1) = {}
         /\ IsFiniteSet(Words(file, i + 1)) /\ Cardinality(Words(file, i + 1)) \in Nat
         /\ file[i + 1] = "COMMENT" => Words(file, i + 2) = Words(file, i + 1)
         /\ file[i + 1] = "NORMAL" =>
              Cardinality(Words(file, i + 2)) = Cardinality(Words(file, i + 1)) + 1
         /\ file[i + 1] \notin {"COMMENT", "NORMAL"} => Words(file, i + 2) = {}
<1>1. (i + 1) - 1 = i /\ (i + 2) - 1 = i + 1 /\ 1 - 1 = 0
  OBVIOUS
<1>2. Words(file, 1) = {}
  BY <1>1 DEF Words
<1>3. IsFiniteSet(Words(file, i + 1)) /\ Cardinality(Words(file, i + 1)) \in Nat
  <2>1. IsFiniteSet(1 .. i)
    BY FS_Interval, 1 \in Int, i \in Int
  <2> QED BY <1>1, <2>1, FS_Subset, FS_CardinalityType DEF Words
<1>4. ASSUME file[i + 1] = "COMMENT" PROVE Words(file, i + 2) = Words(file, i + 1)
  BY <1>1, <1>4 DEF Words
<1>5. ASSUME file[i + 1] = "NORMAL"
      PROVE  Cardinality(Words(file, i + 2)) = Cardinality(Words(file, i + 1)) + 1
  <2>1. Words(file, i + 2) = Words(file, i + 1) \cup {i + 1}
    BY <1>1, <1>5 DEF Words
  <2>2. i + 1 \notin Words(file, i + 1)
    BY <1>1 DEF Words
  <2> QED BY <1>3, <2>1, <2>2, FS_AddElement
<1>6. ASSUME file[i + 1] \notin {"COMMENT", "NORMAL"} PROVE Words(file, i + 2) = {}
  BY <1>1, <1>6 DEF Words
<1> QED BY <1>2, <1>3, <1>4, <1>5, <1>6

\* Another bracket may open; a closing one leaves those that are less deep.
LEMMA UnclosedOneMore ==
  ASSUME NEW file, NEW i \in Nat
  PROVE  /\ Unclosed(file, 1) = {}
         /\ Unclosed(file, i + 2) =
              {j \in Unclosed(file, i + 1) \cup (IF file[i + 1] = "START_BLOCK" THEN {i + 1} ELSE {}) :
                 Depth(file, j) <= Depth(file, i + 1)}
<1>1. (i + 1) - 1 = i /\ (i + 2) - 1 = i + 1 /\ 1 - 1 = 0
  OBVIOUS
<1>2. Unclosed(file, 1) = {}
  BY <1>1 DEF Unclosed
<1>3. Depth(file, i + 1) \in Int
  BY DepthOneMore
<1>4. ASSUME NEW j \in 1 .. i
      PROVE  (\A k \in j .. i + 1 : Depth(file, j) <= Depth(file, k)) <=>
             (\A k \in j .. i : Depth(file, j) <= Depth(file, k)) /\ Depth(file, j) <= Depth(file, i + 1)
  OBVIOUS
<1>5. (\A k \in i + 1 .. i + 1 : Depth(file, i + 1) <= Depth(file, k)) /\ Depth(file, i + 1) <= Depth(file, i + 1)
  BY <1>3
<1> DEFINE D(j, k) == Depth(file, j) <= Depth(file, k)
           U == {j \in 1 .. i : file[j] = "START_BLOCK" /\ \A k \in j .. i : D(j, k)}
           V == {j \in 1 .. i + 1 : file[j] = "START_BLOCK" /\ \A k \in j .. i + 1 : D(j, k)}
<1>6. U = Unclosed(file, i + 1) /\ V = Unclosed(file, i + 2)
  BY <1>1 DEF Unclosed
<1>7. V = {j \in U \cup (IF file[i + 1] = "START_BLOCK" THEN {i + 1} ELSE {}) : D(j, i + 1)}
  <2>1. \A j \in 1 .. i : (\A k \in j .. i + 1 : D(j, k)) <=> (\A k \in j .. i : D(j, k)) /\ D(j, i + 1)
    BY <1>4
  <2>2. (\A k \in i + 1 .. i + 1 : D(i + 1, k)) /\ D(i + 1, i + 1)
    BY <1>5
  <2> HIDE DEF D
  <2> QED BY <2>1, <2>2
<1> QED BY <1>2, <1>6, <1>7

\* An inner bracket is deeper than an outer one.
LEMMA InnerIsDeeper ==
  ASSUME NEW file, NEW i \in Nat, NEW j \in Unclosed(file, i), NEW k \in Unclosed(file, i), j < k
  PROVE  Depth(file, j) < Depth(file, k)
<1>1. /\ j \in 1 .. i - 1 /\ k \in 1 .. i - 1
      /\ \A m \in j .. i - 1 : Depth(file, j) <= Depth(file, m)
      /\ file[k] = "START_BLOCK"
  BY DEF Unclosed
<1>2. k - 1 \in Nat /\ k - 1 \in j .. i - 1 /\ (k - 1) + 1 = k /\ j \in Nat
  BY <1>1
<1>3. /\ Depth(file, (k - 1) + 1) = Depth(file, k - 1) + Step(file[(k - 1) + 1])
      /\ Depth(file, k - 1) \in Int
  BY <1>2, DepthOneMore
<1>4. Depth(file, j) \in Int
  BY <1>2, DepthOneMore
<1> QED BY <1>1, <1>2, <1>3, <1>4 DEF Step

-----------------------------------------------------------------------------
(* The tree.                                                               *)

\* A block has, in their order, the statements that end in it up to place i.
Holds(block, file, c, i) ==
  LET ends == Ends(file, c, i)
  IN  /\ Cardinality(ends) <= Len(block)
      /\ \A k \in 1 .. Cardinality(ends) : \E j \in ends : Cardinality(Ends(file, c, j)) = k
      /\ \A j \in ends : /\ Cardinality(Ends(file, c, j)) \in 1 .. Cardinality(ends)
                         /\ block[Cardinality(Ends(file, c, j))] = StatementAt(file, j)

\* It has them still when other statements come behind them.
LEMMA HoldsOfPart ==
  ASSUME NEW file, NEW longer, NEW i \in Nat, Agree(file, longer, i), NEW c,
         NEW block \in Seq(Statement), NEW new \in Seq(Statement), Holds(block, file, c, i),
         Cardinality(Ends(file, c, i)) <= Len(new),
         \A k \in 1 .. Cardinality(Ends(file, c, i)) : new[k] = block[k]
  PROVE  Holds(new, longer, c, i)
<1>1. Ends(longer, c, i) = Ends(file, c, i)
  BY EndsOfPart
<1>2. ASSUME NEW j \in 1 .. i
      PROVE  Ends(longer, c, j) = Ends(file, c, j) /\ StatementAt(longer, j) = StatementAt(file, j)
  <2>1. /\ j \in Nat /\ j - 1 \in Nat /\ (j - 1) + 1 = j
        /\ Agree(file, longer, j) /\ Agree(file, longer, j - 1) /\ longer[j] = file[j]
    BY DEF Agree
  <2>2. Ends(longer, c, j) = Ends(file, c, j)
    BY <2>1, EndsOfPart
  <2>3. Words(longer, (j - 1) + 1) = Words(file, (j - 1) + 1)
    BY <2>1, WordsOfPart
  <2>4. Count(longer, "START_BLOCK", j) = Count(file, "START_BLOCK", j)
    BY <2>1, CountOfPart DEF Agree
  <2> QED BY <2>1, <2>2, <2>3, <2>4 DEF StatementAt
<1>3. \A j \in Ends(file, c, i) : j \in 1 .. i
  BY DEF Ends
<1> QED BY <1>1, <1>2, <1>3 DEF Holds

LEMMA HoldsOneMore ==
  ASSUME NEW file, NEW i \in Nat, NEW c, NEW block \in Seq(Statement), Holds(block, file, c, i),
         file[i + 1] \in EndTypes /\ BlockAt(file, i + 1) = c =>
           /\ Cardinality(Ends(file, c, i)) + 1 <= Len(block)
           /\ block[Cardinality(Ends(file, c, i)) + 1] = StatementAt(file, i + 1)
  PROVE  Holds(block, file, c, i + 1)
<1> DEFINE more == file[i + 1] \in EndTypes /\ BlockAt(file, i + 1) = c
           size(j) == Cardinality(Ends(file, c, j))
           ends(j) == Ends(file, c, j)
<1>1. /\ ends(i + 1) = IF more THEN ends(i) \cup {i + 1} ELSE ends(i)
      /\ size(i + 1) = size(i) + IF more THEN 1 ELSE 0
  BY EndsOneMore
<1>2. size(i) \in Nat
  BY EndsAreFinite
<1>3. /\ size(i) <= Len(block)
      /\ \A k \in 1 .. size(i) : \E j \in ends(i) : size(j) = k
      /\ \A j \in ends(i) : size(j) \in 1 .. size(i) /\ block[size(j)] = StatementAt(file, j)
  BY DEF Holds
<1>4. more => size(i) + 1 <= Len(block) /\ block[size(i) + 1] = StatementAt(file, i + 1)
  OBVIOUS
<1>5. /\ size(i + 1) <= Len(block)
      /\ \A k \in 1 .. size(i + 1) : \E j \in ends(i + 1) : size(j) = k
      /\ \A j \in ends(i + 1) : size(j) \in 1 .. size(i + 1) /\ block[size(j)] = StatementAt(file, j)
  <2> HIDE DEF ends, size, more
  <2>1. CASE ~more
    BY <1>1, <1>2, <1>3, <2>1
  <2>2. CASE more
    <3>1. size(i + 1) = size(i) + 1 /\ ends(i + 1) = ends(i) \cup {i + 1}
      BY <1>1, <1>2, <2>2
    <3>2. \A k \in 1 .. size(i + 1) : \E j \in ends(i + 1) : size(j) = k
      <4> SUFFICES ASSUME NEW k \in 1 .. size(i + 1) PROVE \E j \in ends(i + 1) : size(j) = k
        OBVIOUS
      <4>1. CASE k = size(i) + 1
        BY <3>1, <4>1
      <4>2. CASE k \in 1 .. size(i)
        BY <1>3, <3>1, <4>2
      <4> QED BY <1>2, <3>1, <4>1, <4>2
    <3>3. \A j \in ends(i + 1) : size(j) \in 1 .. size(i + 1) /\ block[size(j)] = StatementAt(file, j)
      <4> SUFFICES ASSUME NEW j \in ends(i + 1)
                   PROVE  size(j) \in 1 .. size(i + 1) /\ block[size(j)] = StatementAt(file, j)
        OBVIOUS
      <4>1. CASE j = i + 1
        BY <1>2, <1>4, <2>2, <3>1, <4>1
      <4>2. CASE j \in ends(i)
        BY <1>2, <1>3, <3>1, <4>2
      <4> QED BY <3>1, <4>1, <4>2
    <3> QED BY <1>4, <2>2, <3>1, <3>2, <3>3
  <2> QED BY <2>1, <2>2
<1> QED BY <1>5 DEF Holds

\* A word has begun a statement of the block on top, and nothing has ended it yet.
Filling(c) == IF lastType = "NORMAL" /\ c = Top(configStack) THEN 1 ELSE 0

BlocksOK == Len(configs) = 1 + Count(tokens, "START_BLOCK", Len(tokens))

EndsOK ==
  \A c \in 1 .. Len(configs) :
    /\ Holds(configs[c], tokens, c, Len(tokens))
    /\ Len(configs[c]) = Cardinality(Ends(tokens, c, Len(tokens))) + Filling(c)

WordsOK ==
  LET words == Words(tokens, Len(tokens) + 1)
      block == configs[Top(configStack)]
  IN  IF lastType = "NORMAL"
        THEN block[Len(block)] = [size |-> Cardinality(words), child |-> NoChild]
        ELSE words = {}

\* The stack of blocks is that of the brackets that are open, by their depths.
OpenOK ==
  LET open == Unclosed(tokens, Len(tokens) + 1)
  IN  /\ \A j \in open : /\ Depth(tokens, j) \in 1 .. Len(bracketStack)
                         /\ configStack[Depth(tokens, j) + 1] = 1 + Count(tokens, "START_BLOCK", j)
      /\ \A d \in 1 .. Len(bracketStack) : \E j \in open : Depth(tokens, j) = d

TInv ==
  /\ result = "running" => BlocksOK /\ EndsOK /\ WordsOK /\ OpenOK
  /\ TreeIsTheFile

LEMMA InitTree == Init => TInv
<1> SUFFICES ASSUME Init PROVE TInv
  OBVIOUS
<1>1. tokens = <<>> /\ Len(tokens) = 0 /\ 0 + 1 = 1
  BY DEF Init
<1>2. Count(tokens, "START_BLOCK", 0) = 0
  BY CountOneMore
<1>3. ASSUME NEW c PROVE Ends(tokens, c, 0) = {} /\ Cardinality(Ends(tokens, c, 0)) = 0
  <2>1. Ends(tokens, c, 0) = {}
    BY DEF Ends
  <2> QED BY <2>1, FS_EmptySet
<1>4. configs = <<<<>>>> /\ Len(configs) = 1 /\ configs[1] = <<>> /\ Len(configs[1]) = 0
  BY DEF Init
<1>5. EndsOK
  <2>1. \A c \in 1 .. Len(configs) : Holds(configs[c], tokens, c, 0)
    BY <1>3, <1>4 DEF Holds
  <2> QED BY <1>1, <1>3, <1>4, <2>1 DEF Init, EndsOK, Filling
<1>6. WordsOK
  BY <1>1, WordsOneMore DEF Init, WordsOK
<1>7. OpenOK
  BY <1>1, UnclosedOneMore DEF Init, OpenOK
<1> QED BY <1>1, <1>2, <1>4, <1>5, <1>6, <1>7 DEF Init, TInv, BlocksOK, TreeIsTheFile

\* The block on top is the one that the next place is in.
LEMMA TopIsBlock ==
  ASSUME IInv, GInv, result = "running", OpenOK
  PROVE  BlockAt(tokens, Len(tokens) + 1) = Top(configStack)
<1> DEFINE n == Len(tokens)
           open == Unclosed(tokens, n + 1)
           m == Max({0} \cup open)
           b == Len(bracketStack)
<1>1. /\ n \in Nat /\ b \in Nat /\ Len(configStack) = b + 1 /\ configStack[1] = 1
      /\ Top(configStack) = configStack[b + 1]
  BY DEF GInv, IInv, ParserTypeOK, Running, StacksAgree, Top
<1>2. m \in {0} \cup open /\ (\A j \in {0} \cup open : j <= m) /\ {0} \cup open \subseteq 0 .. n
  BY <1>1, LastOpen
<1>3. /\ \A j \in open : /\ Depth(tokens, j) \in 1 .. b
                         /\ configStack[Depth(tokens, j) + 1] = 1 + Count(tokens, "START_BLOCK", j)
      /\ \A d \in 1 .. b : \E j \in open : Depth(tokens, j) = d
  BY DEF OpenOK
<1>4. \A j \in open, k \in open : j < k => Depth(tokens, j) < Depth(tokens, k)
  BY InnerIsDeeper
<1>5. BlockAt(tokens, n + 1) = 1 + Count(tokens, "START_BLOCK", m)
  BY DEF BlockAt
<1>6. Count(tokens, "START_BLOCK", 0) = 0
  BY CountOneMore
<1>7. 0 \notin open
  BY <1>1 DEF Unclosed
<1> HIDE DEF n, open, m, b
<1>8. CASE b = 0
  <2>1. open = {}
    BY <1>3, <1>8
  <2>2. m = 0
    BY <1>2, <2>1
  <2> QED BY <1>1, <1>5, <1>6, <1>8, <2>2 DEF n
<1>9. CASE b # 0
  <2>1. PICK j \in open : Depth(tokens, j) = b
    BY <1>1, <1>3, <1>9
  <2>2. j = m
    <3>1. j \in 0 .. n /\ m \in 0 .. n /\ j <= m
      BY <1>2
    <3>2. ~(j < m)
      <4> SUFFICES ASSUME j < m PROVE FALSE
        OBVIOUS
      <4>1. m \in open
        BY <1>1, <1>2, <3>1
      <4>2. Depth(tokens, m) \in 1 .. b /\ b < Depth(tokens, m)
        BY <1>3, <1>4, <2>1, <4>1
      <4> QED BY <1>1, <4>2
    <3> QED BY <1>1, <3>1, <3>2
  <2>3. configStack[b + 1] = 1 + Count(tokens, "START_BLOCK", m)
    BY <1>3, <2>1, <2>2
  <2> QED BY <1>1, <1>5, <2>3 DEF n
<1> QED BY <1>8, <1>9

\* What is known of the file, and of its next place, when Parse reads a token.
LEMMA ReadIs ==
  ASSUME IInv, GInv, TInv, NEW type \in TokenTypes, Read(type)
  PROVE  LET n == Len(tokens)
         IN  /\ n \in Nat /\ Len(tokens') = n + 1 /\ tokens'[n + 1] = type
             /\ Agree(tokens, tokens', n)
             /\ BlockAt(tokens', n + 1) = Top(configStack)
             /\ \A c : Ends(tokens', c, n) = Ends(tokens, c, n)
             /\ Words(tokens', n + 1) = Words(tokens, n + 1)
             /\ Count(tokens', "START_BLOCK", n) = Count(tokens, "START_BLOCK", n)
             /\ Unclosed(tokens', n + 1) = Unclosed(tokens, n + 1)
             /\ \A j \in 1 .. n : /\ Depth(tokens', j) = Depth(tokens, j)
                                  /\ Count(tokens', "START_BLOCK", j) = Count(tokens, "START_BLOCK", j)
             /\ Depth(tokens', n + 1) = Len(bracketStack) + Step(type)
<1> DEFINE n == Len(tokens)
<1>1. /\ tokens' = Append(tokens, type) /\ tokens \in Seq(TokenTypes) /\ result = "running"
      /\ GrammarSoFar /\ OpenOK
  BY DEF Read, GInv, TInv
<1>2. /\ n \in Nat /\ Len(tokens') = n + 1 /\ tokens'[n + 1] = type
      /\ Agree(tokens, tokens', n)
      /\ Depth(tokens', n + 1) = Depth(tokens, n) + Step(type)
  BY <1>1, TokenMore DEF Agree
<1>3. BlockAt(tokens', n + 1) = Top(configStack)
  BY <1>1, <1>2, BlockOfPart, TopIsBlock
<1>4. \A c : Ends(tokens', c, n) = Ends(tokens, c, n)
  BY <1>2, EndsOfPart
<1>5. Words(tokens', n + 1) = Words(tokens, n + 1)
  BY <1>2, WordsOfPart
<1>6. Count(tokens', "START_BLOCK", n) = Count(tokens, "START_BLOCK", n)
  BY <1>2, CountOfPart DEF Agree
<1>7. Unclosed(tokens', n + 1) = Unclosed(tokens, n + 1)
  BY <1>2, UnclosedOfPart
<1>8. ASSUME NEW j \in 1 .. n
      PROVE  /\ Depth(tokens', j) = Depth(tokens, j)
             /\ Count(tokens', "START_BLOCK", j) = Count(tokens, "START_BLOCK", j)
  <2>1. j \in Nat /\ \A k \in 1 .. j : tokens'[k] = tokens[k]
    BY <1>2 DEF Agree
  <2> QED BY <2>1, DepthOfPart, CountOfPart
<1>9. Depth(tokens', n + 1) = Len(bracketStack) + Step(type)
  BY <1>1, <1>2 DEF GrammarSoFar
<1> QED BY <1>2, <1>3, <1>4, <1>5, <1>6, <1>7, <1>8, <1>9

\* How many blocks there are, one more than "{"s.
LEMMA BlocksStep ==
  ASSUME IInv, GInv, TInv, NEW type \in TokenTypes, Read(type),
         Len(configs') = Len(configs) + IF type = "START_BLOCK" THEN 1 ELSE 0
  PROVE  BlocksOK'
<1> DEFINE n == Len(tokens)
<1>1. /\ n \in Nat /\ Len(tokens') = n + 1 /\ tokens'[n + 1] = type
      /\ Count(tokens', "START_BLOCK", n) = Count(tokens, "START_BLOCK", n)
  BY ReadIs
<1>2. Len(configs) = 1 + Count(tokens, "START_BLOCK", n)
  BY DEF TInv, Read, BlocksOK
<1> HIDE DEF n
<1>3. /\ Count(tokens', "START_BLOCK", n + 1) =
           Count(tokens', "START_BLOCK", n) + IF type = "START_BLOCK" THEN 1 ELSE 0
      /\ Count(tokens', "START_BLOCK", n) \in Nat
  BY <1>1, CountOneMore, CountIsNat
<1> QED BY <1>1, <1>2, <1>3 DEF BlocksOK

\* The statements in their places: of the block on top, those that had ended
\* are still there, and the one that ends now is the next.
LEMMA EndsStep ==
  ASSUME IInv, GInv, TInv, NEW type \in TokenTypes, Read(type),
         configs' \in Seq(Seq(Statement)),
         Len(configs') = Len(configs) + IF type = "START_BLOCK" THEN 1 ELSE 0,
         type = "START_BLOCK" => configs'[Len(configs) + 1] = <<>>,
         \A c \in 1 .. Len(configs) : c # Top(configStack) => configs'[c] = configs[c],
         lastType' = "NORMAL" => Top(configStack') = Top(configStack),
         LET block == configs'[Top(configStack)]
             size == Cardinality(Ends(tokens, Top(configStack), Len(tokens)))
         IN  /\ \A k \in 1 .. size : block[k] = configs[Top(configStack)][k]
             /\ type \in EndTypes =>
                  /\ Len(block) = size + 1 /\ lastType' # "NORMAL"
                  /\ block[size + 1] = StatementAt(tokens', Len(tokens) + 1)
             /\ type \notin EndTypes => Len(block) = size + IF lastType' = "NORMAL" THEN 1 ELSE 0
  PROVE  EndsOK'
<1> DEFINE n == Len(tokens)
           top == Top(configStack)
           size(c) == Cardinality(Ends(tokens, c, n))
<1>1. /\ n \in Nat /\ Len(tokens') = n + 1 /\ tokens'[n + 1] = type
      /\ Agree(tokens, tokens', n)
      /\ BlockAt(tokens', n + 1) = top
      /\ \A c : Ends(tokens', c, n) = Ends(tokens, c, n)
      /\ Count(tokens', "START_BLOCK", n) = Count(tokens, "START_BLOCK", n)
  BY ReadIs
<1>2. /\ BlocksOK /\ EndsOK /\ result = "running"
      /\ configs \in Seq(Seq(Statement)) /\ Len(configs) \in Nat
  BY DEF TInv, Read, IInv, ParserTypeOK
<1>3. top \in 1 .. Len(configs)
  BY <1>2, TopIsThere
<1>4. /\ \A k \in 1 .. size(top) : configs'[top][k] = configs[top][k]
      /\ type \in EndTypes =>
           /\ Len(configs'[top]) = size(top) + 1 /\ lastType' # "NORMAL"
           /\ configs'[top][size(top) + 1] = StatementAt(tokens', n + 1)
      /\ type \notin EndTypes => Len(configs'[top]) = size(top) + IF lastType' = "NORMAL" THEN 1 ELSE 0
  OBVIOUS
<1>5. ASSUME NEW c \in 1 .. Len(configs)
      PROVE  /\ size(c) \in Nat
             /\ Holds(configs[c], tokens, c, n)
             /\ Len(configs[c]) = size(c) + Filling(c)
             /\ configs[c] \in Seq(Statement) /\ configs'[c] \in Seq(Statement)
             /\ size(c) <= Len(configs[c])
  <2>1. size(c) \in Nat
    BY <1>1, EndsAreFinite
  <2>2. Holds(configs[c], tokens, c, n) /\ Len(configs[c]) = size(c) + Filling(c)
    BY <1>2 DEF EndsOK
  <2>3. configs[c] \in Seq(Statement)
    BY <1>2
  <2>4. configs'[c] \in Seq(Statement)
    <3>1. c \in 1 .. Len(configs')
      BY <1>2
    <3> QED BY <3>1
  <2> QED BY <2>1, <2>2, <2>3, <2>4 DEF Filling
<1>6. /\ Len(tokens)' = n + 1 /\ Len(configs)' = Len(configs) + IF type = "START_BLOCK" THEN 1 ELSE 0
      /\ \A c : Filling(c)' = IF lastType' = "NORMAL" /\ c = top THEN 1 ELSE 0
  BY <1>1 DEF Filling
<1>7. ASSUME NEW c
      PROVE  Cardinality(Ends(tokens', c, n + 1)) =
               size(c) + IF type \in EndTypes /\ c = top THEN 1 ELSE 0
  <2>1. Cardinality(Ends(tokens', c, n + 1)) = Cardinality(Ends(tokens', c, n)) +
          IF tokens'[n + 1] \in EndTypes /\ BlockAt(tokens', n + 1) = c THEN 1 ELSE 0
    BY <1>1, EndsOneMore
  <2> HIDE DEF n
  <2>2. Cardinality(Ends(tokens', c, n)) = size(c)
    BY <1>1 DEF n
  <2> HIDE DEF size
  <2> QED BY <1>1, <2>1, <2>2
<1> HIDE DEF n, size
<1>8. ASSUME NEW c \in 1 .. Len(configs), c # top
      PROVE  /\ Holds(configs'[c], tokens', c, n + 1)
             /\ Len(configs'[c]) = Cardinality(Ends(tokens', c, n + 1))
  <2>1. configs'[c] = configs[c] /\ Filling(c) = 0
    BY <1>8 DEF Filling
  <2>2. Holds(configs'[c], tokens', c, n)
    BY <1>1, <1>5, <2>1, HoldsOfPart DEF size
  <2>3. Holds(configs'[c], tokens', c, n + 1)
    BY <1>1, <1>5, <1>8, <2>2, HoldsOneMore
  <2> QED BY <1>5, <1>7, <1>8, <2>1, <2>3
<1>9. /\ Holds(configs'[top], tokens', top, n + 1)
      /\ Len(configs'[top]) = Cardinality(Ends(tokens', top, n + 1)) + Filling(top)'
  <2>1. size(top) <= Len(configs'[top]) /\ size(top) \in Nat
    BY <1>3, <1>4, <1>5
  <2>2. Holds(configs'[top], tokens', top, n)
    BY <1>1, <1>3, <1>4, <1>5, <2>1, HoldsOfPart DEF size
  <2>3. Cardinality(Ends(tokens', top, n)) = size(top)
    BY <1>1 DEF size
  <2>4. Holds(configs'[top], tokens', top, n + 1)
    BY <1>1, <1>3, <1>4, <1>5, <2>1, <2>2, <2>3, HoldsOneMore
  <2> QED BY <1>4, <1>6, <1>7, <2>1, <2>4
<1>10. ASSUME type = "START_BLOCK", NEW c, c = Len(configs) + 1
       PROVE  /\ Holds(configs'[c], tokens', c, n + 1)
              /\ Len(configs'[c]) = Cardinality(Ends(tokens', c, n + 1))
  <2>1. ASSUME NEW j \in 1 .. n + 1 PROVE BlockAt(tokens', j) # c
    <3>1. j - 1 \in Nat /\ (j - 1) + 1 = j /\ j - 1 \in 0 .. n
      BY <1>1
    <3>2. BlockAt(tokens', (j - 1) + 1) \in 1 .. 1 + Count(tokens', "START_BLOCK", j - 1)
      BY <3>1, BlockIsThere
    <3>3. Count(tokens', "START_BLOCK", j - 1) <= Count(tokens', "START_BLOCK", n)
      BY <1>1, <3>1, CountGrows
    <3>4. Count(tokens', "START_BLOCK", j - 1) \in Nat
      BY <3>1, CountIsNat
    <3>5. Len(configs) = 1 + Count(tokens', "START_BLOCK", n)
      BY <1>1, <1>2 DEF BlocksOK, n
    <3> DEFINE k == Count(tokens', "START_BLOCK", j - 1)
               m == BlockAt(tokens', j)
    <3>6. m \in 1 .. 1 + k /\ k \in Nat /\ 1 + k <= Len(configs)
      <4>1. m \in 1 .. 1 + k
        BY <3>1, <3>2
      <4>2. Count(tokens', "START_BLOCK", n) \in Nat
        BY <1>1, CountIsNat
      <4> HIDE DEF m, k
      <4> QED BY <3>3, <3>4, <3>5, <4>1, <4>2 DEF k
    <3> HIDE DEF m, k
    <3> QED BY <1>2, <1>10, <3>6 DEF m
  <2>2. Ends(tokens', c, n + 1) = {}
    BY <2>1 DEF Ends
  <2>3. Cardinality(Ends(tokens', c, n + 1)) = 0
    BY <2>2, FS_EmptySet
  <2>4. configs'[c] = <<>> /\ Len(configs'[c]) = 0
    BY <1>10
  <2> QED BY <2>2, <2>3, <2>4 DEF Holds
<1>11. ASSUME NEW c \in 1 .. Len(configs')
       PROVE  /\ Holds(configs'[c], tokens', c, n + 1)
              /\ Len(configs'[c]) = Cardinality(Ends(tokens', c, n + 1)) + Filling(c)'
  <2>1. CASE c = top
    <3>1. Filling(c)' = Filling(top)'
      BY <1>6, <2>1
    <3> HIDE DEF top
    <3> QED BY <1>9, <2>1, <3>1
  <2>2. CASE c # top /\ c \in 1 .. Len(configs)
    <3>1. Len(configs'[c]) \in Nat
      BY <1>5, <2>2
    <3> QED BY <1>6, <1>8, <2>2, <3>1
  <2>3. CASE type = "START_BLOCK" /\ c = Len(configs) + 1
    <3>1. c # top /\ Len(configs'[c]) \in Nat
      <4>1. configs'[c] = <<>>
        BY <2>3
      <4>2. Len(configs'[c]) = 0
        BY <4>1
      <4> HIDE DEF top
      <4>3. c # top
        BY <1>2, <1>3, <2>3
      <4> QED BY <4>2, <4>3
    <3> QED BY <1>6, <1>10, <2>3, <3>1
  <2> QED BY <1>2, <1>3, <2>1, <2>2, <2>3
<1> QED BY <1>6, <1>11 DEF EndsOK

LEMMA WordsStep ==
  ASSUME IInv, GInv, TInv, NEW type \in TokenTypes, Read(type),
         lastType' = IF type = "COMMENT" THEN lastType ELSE type,
         LET words == Words(tokens, Len(tokens) + 1)
             block == configs'[Top(configStack')]
         IN  /\ type = "COMMENT" /\ lastType = "NORMAL" =>
                  block[Len(block)] = [size |-> Cardinality(words), child |-> NoChild]
             /\ type = "NORMAL" =>
                  block[Len(block)] = [size |-> Cardinality(words) + 1, child |-> NoChild]
  PROVE  WordsOK'
<1> DEFINE n == Len(tokens)
           words == Words(tokens, n + 1)
           now == Words(tokens', n + 2)
<1>1. /\ n \in Nat /\ Len(tokens') = n + 1 /\ tokens'[n + 1] = type
      /\ Words(tokens', n + 1) = words
  BY ReadIs
<1>2. lastType # "NORMAL" => words = {}
  BY DEF TInv, Read, WordsOK
<1> HIDE DEF n
<1>3. /\ type = "COMMENT" => now = words
      /\ type = "NORMAL" => Cardinality(now) = Cardinality(words) + 1
      /\ type \notin {"COMMENT", "NORMAL"} => now = {}
  BY <1>1, WordsOneMore
<1>4. Len(tokens') + 1 = n + 2
  BY <1>1
<1>5. WordsOK' <=> IF lastType' = "NORMAL"
                     THEN configs'[Top(configStack')][Len(configs'[Top(configStack')])] =
                            [size |-> Cardinality(now), child |-> NoChild]
                     ELSE now = {}
  BY <1>4 DEF WordsOK, Top
<1> HIDE DEF words, now
<1> QED BY <1>2, <1>3, <1>5 DEF words, n

\* The brackets that are open after a token.
LEMMA OpenStep ==
  ASSUME IInv, GInv, TInv, NEW type \in TokenTypes, Read(type),
         LET b == Len(bracketStack)
         IN  \/ /\ type \notin {"START_BLOCK", "END_BLOCK"}
                /\ UNCHANGED <<configStack, bracketStack>>
             \/ /\ type = "START_BLOCK" /\ Len(bracketStack') = b + 1
                /\ \A d \in 1 .. b + 1 : configStack'[d] = configStack[d]
                /\ configStack'[b + 2] = Len(configs) + 1
             \/ /\ type = "END_BLOCK" /\ Len(bracketStack') = b - 1
                /\ \A d \in 1 .. b : configStack'[d] = configStack[d]
  PROVE  OpenOK'
<1> DEFINE n == Len(tokens)
           open == Unclosed(tokens, n + 1)
           now == Unclosed(tokens', n + 2)
           b == Len(bracketStack)
<1>1. /\ n \in Nat /\ Len(tokens') = n + 1 /\ tokens'[n + 1] = type
      /\ Unclosed(tokens', n + 1) = open
      /\ Count(tokens', "START_BLOCK", n) = Count(tokens, "START_BLOCK", n)
      /\ \A j \in 1 .. n : /\ Depth(tokens', j) = Depth(tokens, j)
                           /\ Count(tokens', "START_BLOCK", j) = Count(tokens, "START_BLOCK", j)
      /\ Depth(tokens', n + 1) = b + Step(type)
  BY ReadIs
<1>2. b \in Nat /\ Len(configs) = 1 + Count(tokens, "START_BLOCK", n)
  BY DEF TInv, Read, BlocksOK, IInv, ParserTypeOK
<1>3. /\ \A j \in open : /\ Depth(tokens, j) \in 1 .. b
                         /\ configStack[Depth(tokens, j) + 1] = 1 + Count(tokens, "START_BLOCK", j)
      /\ \A d \in 1 .. b : \E j \in open : Depth(tokens, j) = d
  BY DEF TInv, Read, OpenOK
<1>4. open \subseteq 1 .. n
  BY <1>1 DEF Unclosed
<1>5. now = {j \in open \cup (IF type = "START_BLOCK" THEN {n + 1} ELSE {}) :
               Depth(tokens', j) <= b + Step(type)}
  BY <1>1, UnclosedOneMore
<1>6. /\ Count(tokens', "START_BLOCK", n + 1) =
           Count(tokens, "START_BLOCK", n) + IF type = "START_BLOCK" THEN 1 ELSE 0
      /\ Count(tokens, "START_BLOCK", n) \in Nat
  <2> HIDE DEF n, open, now, b
  <2>1. n \in Nat /\ Count(tokens, "START_BLOCK", n) \in Nat
    BY <1>1, CountIsNat
  <2>2. Count(tokens', "START_BLOCK", n + 1) = Count(tokens', "START_BLOCK", n) +
          IF tokens'[n + 1] = "START_BLOCK" THEN 1 ELSE 0
    BY <2>1, CountOneMore
  <2> QED BY <1>1, <2>1, <2>2
<1>7. ASSUME NEW j \in open
      PROVE  /\ Depth(tokens', j) \in 1 .. b
             /\ configStack[Depth(tokens', j) + 1] = 1 + Count(tokens', "START_BLOCK", j)
  BY <1>1, <1>3, <1>4
<1>8. ASSUME NEW d \in 1 .. b PROVE \E j \in open : Depth(tokens', j) = d
  BY <1>1, <1>3, <1>4
<1>9. OpenOK' <=>
        /\ \A j \in now : /\ Depth(tokens', j) \in 1 .. Len(bracketStack')
                          /\ configStack'[Depth(tokens', j) + 1] = 1 + Count(tokens', "START_BLOCK", j)
        /\ \A d \in 1 .. Len(bracketStack') : \E j \in now : Depth(tokens', j) = d
  <2>1. Len(tokens') + 1 = n + 2
    BY <1>1
  <2> QED BY <2>1 DEF OpenOK
<1> HIDE DEF n, open, now
<1>10. CASE type \notin {"START_BLOCK", "END_BLOCK"} /\ UNCHANGED <<configStack, bracketStack>>
  <2>1. now = open
    BY <1>2, <1>5, <1>7, <1>10 DEF Step
  <2> QED BY <1>7, <1>8, <1>9, <1>10, <2>1
<1>11. CASE /\ type = "START_BLOCK" /\ Len(bracketStack') = b + 1
            /\ \A d \in 1 .. b + 1 : configStack'[d] = configStack[d]
            /\ configStack'[b + 2] = Len(configs) + 1
  <2>1. now = open \cup {n + 1} /\ Depth(tokens', n + 1) = b + 1
    BY <1>1, <1>2, <1>5, <1>7, <1>11 DEF Step
  <2>2. 1 + Count(tokens', "START_BLOCK", n + 1) = configStack'[Depth(tokens', n + 1) + 1]
    BY <1>2, <1>6, <1>11, <2>1
  <2>3. ASSUME NEW j \in now
        PROVE  /\ Depth(tokens', j) \in 1 .. b + 1
               /\ configStack'[Depth(tokens', j) + 1] = 1 + Count(tokens', "START_BLOCK", j)
    <3>1. CASE j = n + 1
      BY <1>2, <2>1, <2>2, <3>1
    <3>2. CASE j \in open
      BY <1>2, <1>7, <1>11, <3>2
    <3> QED BY <2>1, <3>1, <3>2
  <2>4. ASSUME NEW d \in 1 .. b + 1 PROVE \E j \in now : Depth(tokens', j) = d
    <3>1. CASE d = b + 1
      BY <2>1, <3>1
    <3>2. CASE d \in 1 .. b
      BY <1>8, <2>1, <3>2
    <3> QED BY <1>2, <3>1, <3>2
  <2> QED BY <1>9, <1>11, <2>3, <2>4
<1>12. CASE /\ type = "END_BLOCK" /\ Len(bracketStack') = b - 1
            /\ \A d \in 1 .. b : configStack'[d] = configStack[d]
  <2>1. now = {j \in open : Depth(tokens', j) <= b - 1}
    BY <1>2, <1>5, <1>12 DEF Step
  <2>2. ASSUME NEW j \in now
        PROVE  /\ Depth(tokens', j) \in 1 .. b - 1
               /\ configStack'[Depth(tokens', j) + 1] = 1 + Count(tokens', "START_BLOCK", j)
    BY <1>2, <1>7, <1>12, <2>1
  <2>3. ASSUME NEW d \in 1 .. b - 1 PROVE \E j \in now : Depth(tokens', j) = d
    BY <1>2, <1>8, <2>1
  <2> QED BY <1>9, <1>12, <2>2, <2>3
<1> QED BY <1>10, <1>11, <1>12

\* What is known of the block on top while Parse runs.
LEMMA TopHolds ==
  ASSUME IInv, GInv, TInv, result = "running"
  PROVE  LET top == Top(configStack)
             size == Cardinality(Ends(tokens, top, Len(tokens)))
         IN  /\ top \in 1 .. Len(configs) /\ configs[top] \in Seq(Statement)
             /\ size \in Nat
             /\ Len(configs[top]) = size + IF lastType = "NORMAL" THEN 1 ELSE 0
             /\ lastType = "NORMAL" =>
                  configs[top][size + 1] =
                    [size |-> Cardinality(Words(tokens, Len(tokens) + 1)), child |-> NoChild]
             /\ lastType # "NORMAL" => Words(tokens, Len(tokens) + 1) = {}
<1> DEFINE top == Top(configStack)
           size == Cardinality(Ends(tokens, top, Len(tokens)))
<1>1. top \in 1 .. Len(configs) /\ configs[top] \in Seq(Statement)
  BY TopIsThere DEF Statements
<1>2. size \in Nat
  <2>1. Len(tokens) \in Nat
    BY DEF GInv
  <2> QED BY <2>1, EndsAreFinite
<1>3. Len(configs[top]) = size + IF lastType = "NORMAL" THEN 1 ELSE 0
  BY <1>1 DEF TInv, EndsOK, Filling
<1>4. WordsOK
  BY DEF TInv
<1> QED BY <1>1, <1>2, <1>3, <1>4 DEF WordsOK

\* A token that ends nothing and adds nothing: the tree stays as it is.
LEMMA EndsKept ==
  ASSUME IInv, GInv, TInv, NEW type \in TokenTypes \ EndTypes, Read(type),
         UNCHANGED configs, lastType' = "NORMAL" <=> lastType = "NORMAL",
         lastType' = "NORMAL" => Top(configStack') = Top(configStack)
  PROVE  EndsOK'
<1> DEFINE top == Top(configStack)
           size == Cardinality(Ends(tokens, top, Len(tokens)))
<1>1. configs' \in Seq(Seq(Statement)) /\ Len(configs) \in Nat /\ result = "running"
  BY DEF IInv, ParserTypeOK, Read
<1>2. Len(configs[top]) = size + IF lastType = "NORMAL" THEN 1 ELSE 0
  BY <1>1, TopHolds
<1>3. /\ Len(configs') = Len(configs) + IF type = "START_BLOCK" THEN 1 ELSE 0
      /\ type # "START_BLOCK"
  BY <1>1 DEF EndTypes
<1>4. /\ \A k \in 1 .. size : configs'[top][k] = configs[top][k]
      /\ Len(configs'[top]) = size + IF lastType' = "NORMAL" THEN 1 ELSE 0
  BY <1>2
<1> QED BY <1>1, <1>3, <1>4, EndsStep

LEMMA CommentTree ==
  ASSUME IInv, IInv', GInv, TInv, Comment
  PROVE  TInv'
<1>1. /\ Read("COMMENT") /\ result = "running" /\ "COMMENT" \in TokenTypes
      /\ UNCHANGED <<lastType, configs, configStack, bracketStack, result>>
      /\ configs' \in Seq(Seq(Statement))
  BY DEF Comment, Read, TokenTypes, IInv, ParserTypeOK
<1>2. Len(configs) \in Nat
  BY DEF IInv, ParserTypeOK
<1>3. BlocksOK'
  BY <1>1, <1>2, BlocksStep
<1>4. EndsOK'
  BY <1>1, EndsKept DEF EndTypes
<1>5. WordsOK'
  BY <1>1, TopHolds, WordsStep DEF TInv, WordsOK
<1>6. OpenOK'
  BY <1>1, OpenStep
<1> QED BY <1>1, <1>3, <1>4, <1>5, <1>6 DEF TInv, TreeIsTheFile

LEMMA NormalTree ==
  ASSUME IInv, IInv', GInv, TInv, Normal
  PROVE  TInv'
<1> DEFINE top == Top(configStack)
           size == Cardinality(Ends(tokens, top, Len(tokens)))
           words == Cardinality(Words(tokens, Len(tokens) + 1))
           block == configs'[top]
<1>1. /\ Read("NORMAL") /\ result = "running" /\ "NORMAL" \in TokenTypes
      /\ UNCHANGED <<configStack, bracketStack, result>> /\ lastType' = "NORMAL"
      /\ configs' \in Seq(Seq(Statement)) /\ configs \in Seq(Seq(Statement))
  BY DEF Normal, Read, Accept, Undefined, TokenTypes, IInv, ParserTypeOK
<1>2. /\ top \in 1 .. Len(configs) /\ configs[top] \in Seq(Statement)
      /\ size \in Nat
      /\ Len(configs[top]) = size + IF lastType = "NORMAL" THEN 1 ELSE 0
      /\ lastType = "NORMAL" => configs[top][size + 1] = [size |-> words, child |-> NoChild]
      /\ lastType # "NORMAL" => words = 0
  BY <1>1, TopHolds, FS_EmptySet
<1> HIDE DEF size, words
<1>3. /\ Len(configs') = Len(configs) /\ Len(configs) \in Nat
      /\ \A c \in 1 .. Len(configs) : c # top => configs'[c] = configs[c]
      /\ Len(block) = size + 1 /\ block[size + 1] = [size |-> words + 1, child |-> NoChild]
      /\ \A k \in 1 .. size : block[k] = configs[top][k]
  <2>1. CASE lastType # "NORMAL"
    <3>1. configs' = [configs EXCEPT ![top] = Append(configs[top], [size |-> 1, child |-> NoChild])]
      BY <1>1, <2>1 DEF Normal, Continues, Undefined
    <3>2. block = Append(configs[top], [size |-> 1, child |-> NoChild])
      BY <1>1, <1>2, <3>1
    <3>3. [size |-> 1, child |-> NoChild] \in Statement
      BY DEF Statement, NoChild
    <3>4. /\ Len(block) = size + 1 /\ block[size + 1] = [size |-> 1, child |-> NoChild]
          /\ \A k \in 1 .. size : block[k] = configs[top][k]
      <4>1. Len(configs[top]) = size
        BY <1>2, <2>1
      <4> HIDE DEF top, block
      <4> QED BY <1>2, <3>2, <3>3, <4>1, OneMore
    <3>5. /\ Len(configs') = Len(configs) /\ Len(configs) \in Nat
          /\ \A c \in 1 .. Len(configs) : c # top => configs'[c] = configs[c]
      <4> HIDE DEF top
      <4> QED BY <1>1, <1>2, <3>1
    <3> QED BY <1>2, <2>1, <3>4, <3>5
  <2>2. CASE lastType = "NORMAL"
    <3>1. /\ Len(configs[top]) = size + 1 /\ size + 1 \in 1 .. Len(configs[top])
          /\ configs[top][size + 1] = [size |-> words, child |-> NoChild]
      BY <1>2, <2>2
    <3>2. configs' = [configs EXCEPT ![top][Len(configs[top])].size = @ + 1]
      BY <1>1, <1>2, <2>2, <3>1 DEF Normal, Continues, Undefined, Statements
    <3>3. block = [configs[top] EXCEPT ![size + 1].size = @ + 1]
      <4>1. top \in DOMAIN configs /\ Len(configs[top]) = size + 1
        BY <1>1, <1>2, <3>1
      <4> HIDE DEF top
      <4> QED BY <3>2, <4>1
    <3>4. /\ Len(block) = size + 1 /\ block[size + 1] = [size |-> words + 1, child |-> NoChild]
          /\ \A k \in 1 .. size : block[k] = configs[top][k]
      <4>1. block[size + 1] = [configs[top][size + 1] EXCEPT !.size = @ + 1]
        <5> HIDE DEF top, block
        <5> QED BY <1>2, <3>1, <3>3
      <4>2. Len(block) = size + 1 /\ \A k \in 1 .. size : block[k] = configs[top][k]
        <5> HIDE DEF top, block
        <5> QED BY <1>2, <3>1, <3>3
      <4>3. block[size + 1] = [[size |-> words, child |-> NoChild] EXCEPT !.size = @ + 1]
        BY <3>1, <4>1
      <4> QED BY <4>2, <4>3
    <3>5. /\ Len(configs') = Len(configs) /\ Len(configs) \in Nat
          /\ \A c \in 1 .. Len(configs) : c # top => configs'[c] = configs[c]
      <4> HIDE DEF top
      <4> QED BY <1>1, <1>2, <3>2
    <3> QED BY <3>4, <3>5
  <2> QED BY <2>1, <2>2
<1>4. BlocksOK'
  BY <1>1, <1>3, BlocksStep
<1>5. EndsOK'
  BY <1>1, <1>3, EndsStep DEF EndTypes, size
<1>6. WordsOK'
  <2>1. configs'[Top(configStack')] = block
    BY <1>1
  <2>2. block[Len(block)] = [size |-> words + 1, child |-> NoChild]
    BY <1>3
  <2> HIDE DEF block
  <2> QED BY <1>1, <2>1, <2>2, WordsStep DEF words
<1>7. OpenOK'
  BY <1>1, OpenStep
<1> QED BY <1>1, <1>4, <1>5, <1>6, <1>7 DEF TInv, TreeIsTheFile

\* A step that is not accepted leaves nothing to show.
LEMMA RejectedTree ==
  ASSUME result' \in {"false", "undefined"}
  PROVE  TInv'
BY DEF TInv, TreeIsTheFile

LEMMA StatementEndTree ==
  ASSUME IInv, IInv', GInv, TInv, StatementEnd
  PROVE  TInv'
<1> DEFINE top == Top(configStack)
           size == Cardinality(Ends(tokens, top, Len(tokens)))
           words == Cardinality(Words(tokens, Len(tokens) + 1))
           n == Len(tokens)
<1>1. CASE lastType # "NORMAL"
  BY <1>1, RejectedTree DEF StatementEnd, Reject
<1>2. CASE lastType = "NORMAL"
  <2>1. /\ Read("STATEMENT_END") /\ result = "running" /\ "STATEMENT_END" \in TokenTypes
        /\ UNCHANGED <<configs, configStack, bracketStack, result>> /\ lastType' = "STATEMENT_END"
        /\ configs' \in Seq(Seq(Statement)) /\ Len(configs) \in Nat
    BY <1>2 DEF StatementEnd, Read, Accept, TokenTypes, IInv, ParserTypeOK
  <2>2. /\ top \in 1 .. Len(configs) /\ configs[top] \in Seq(Statement)
        /\ size \in Nat
        /\ Len(configs[top]) = size + 1
        /\ configs[top][size + 1] = [size |-> words, child |-> NoChild]
    BY <1>2, <2>1, TopHolds
  <2>3. StatementAt(tokens', n + 1) = [size |-> words, child |-> NoChild]
    <3>1. tokens'[n + 1] = "STATEMENT_END" /\ Words(tokens', n + 1) = Words(tokens, n + 1)
      BY <2>1, ReadIs
    <3> QED BY <3>1 DEF StatementAt
  <2>4. BlocksOK'
    BY <2>1, BlocksStep
  <2>5. EndsOK'
    <3>1. configs'[top] = configs[top] /\ "STATEMENT_END" \in EndTypes
      BY <2>1 DEF EndTypes
    <3> QED BY <2>1, <2>2, <2>3, <3>1, EndsStep
  <2>6. WordsOK'
    BY <2>1, WordsStep
  <2>7. OpenOK'
    BY <2>1, OpenStep
  <2> QED BY <2>1, <2>4, <2>5, <2>6, <2>7 DEF TInv, TreeIsTheFile
<1> QED BY <1>1, <1>2

LEMMA StartBlockTree ==
  ASSUME IInv, IInv', GInv, TInv, StartBlock
  PROVE  TInv'
<1> DEFINE top == Top(configStack)
           size == Cardinality(Ends(tokens, top, Len(tokens)))
           words == Cardinality(Words(tokens, Len(tokens) + 1))
           n == Len(tokens)
           new == Len(configs) + 1
           block == configs'[top]
<1>1. CASE lastType # "NORMAL"
  BY <1>1, RejectedTree DEF StartBlock, Reject
<1>2. CASE lastType = "NORMAL"
  <2>1. /\ Read("START_BLOCK") /\ result = "running" /\ "START_BLOCK" \in TokenTypes
        /\ UNCHANGED result /\ lastType' = "START_BLOCK"
        /\ configs' = Append([configs EXCEPT ![top][Len(configs[top])].child = new], <<>>)
        /\ configStack' = Append(configStack, new)
        /\ bracketStack' = Append(bracketStack, "START_BLOCK")
        /\ configs' \in Seq(Seq(Statement)) /\ configs \in Seq(Seq(Statement)) /\ Len(configs) \in Nat
        /\ configStack \in Seq(1 .. Len(configs)) /\ bracketStack \in Seq({"START_BLOCK"})
        /\ Len(configStack) = Len(bracketStack) + 1
    <3>1. Read("START_BLOCK") /\ result = "running" /\ "START_BLOCK" \in TokenTypes
      BY DEF StartBlock, Read, TokenTypes
    <3>2. ~Undefined
      BY DEF IInv, Undefined
    <3>3. /\ UNCHANGED result /\ lastType' = "START_BLOCK"
          /\ configs' = Append([configs EXCEPT ![top][Len(configs[top])].child = new], <<>>)
          /\ configStack' = Append(configStack, new)
          /\ bracketStack' = Append(bracketStack, "START_BLOCK")
      BY <1>2, <3>2 DEF StartBlock, Accept, Push, Statements
    <3>4. /\ configs' \in Seq(Seq(Statement)) /\ configs \in Seq(Seq(Statement)) /\ Len(configs) \in Nat
          /\ configStack \in Seq(1 .. Len(configs)) /\ bracketStack \in Seq({"START_BLOCK"})
          /\ Len(configStack) = Len(bracketStack) + 1
      BY <3>1 DEF IInv, ParserTypeOK, Running, StacksAgree
    <3> QED BY <3>1, <3>3, <3>4
  <2>2. /\ top \in 1 .. Len(configs) /\ configs[top] \in Seq(Statement)
        /\ size \in Nat
        /\ Len(configs[top]) = size + 1
        /\ configs[top][size + 1] = [size |-> words, child |-> NoChild]
    BY <1>2, <2>1, TopHolds
  <2>3. StatementAt(tokens', n + 1) = [size |-> words, child |-> new]
    <3>1. /\ tokens'[n + 1] = "START_BLOCK" /\ Words(tokens', n + 1) = Words(tokens, n + 1)
          /\ Count(tokens', "START_BLOCK", n) = Count(tokens, "START_BLOCK", n) /\ n \in Nat
      BY <2>1, ReadIs
    <3>2. Len(configs) = 1 + Count(tokens, "START_BLOCK", n)
      BY <2>1 DEF TInv, BlocksOK
    <3> HIDE DEF n
    <3>3. /\ Count(tokens', "START_BLOCK", n + 1) = Count(tokens', "START_BLOCK", n) + 1
          /\ Count(tokens', "START_BLOCK", n) \in Nat
      <4>1. Count(tokens', "START_BLOCK", n) \in Nat
        BY <3>1, CountIsNat
      <4>2. Count(tokens', "START_BLOCK", n + 1) = Count(tokens', "START_BLOCK", n) +
              IF tokens'[n + 1] = "START_BLOCK" THEN 1 ELSE 0
        BY <3>1, CountOneMore
      <4> QED BY <3>1, <4>1, <4>2
    <3>4. 1 + Count(tokens', "START_BLOCK", n + 1) = new
      BY <3>1, <3>2, <3>3
    <3> HIDE DEF new
    <3> QED BY <3>1, <3>4 DEF StatementAt, n
  <2> HIDE DEF size, words
  <2>4. /\ Len(configs') = Len(configs) + 1 /\ configs'[new] = <<>>
        /\ \A c \in 1 .. Len(configs) : c # top => configs'[c] = configs[c]
        /\ Len(block) = size + 1 /\ block[size + 1] = [size |-> words, child |-> new]
        /\ \A k \in 1 .. size : block[k] = configs[top][k]
    <3> DEFINE filled == [configs[top] EXCEPT ![size + 1].child = new]
               all == [configs EXCEPT ![top] = filled]
    <3>1. configs' = Append(all, <<>>)
      BY <2>1, <2>2
    <3>2. filled[size + 1] = [[size |-> words, child |-> NoChild] EXCEPT !.child = new]
      <4>1. filled[size + 1] = [configs[top][size + 1] EXCEPT !.child = new]
        <5> HIDE DEF top, new
        <5> QED BY <2>2
      <4> QED BY <2>2, <4>1
    <3>3. /\ Len(filled) = size + 1 /\ \A k \in 1 .. size : filled[k] = configs[top][k]
          /\ filled \in Seq(Statement)
      <4>1. /\ Len(filled) = size + 1 /\ \A k \in 1 .. size : filled[k] = configs[top][k]
        <5> HIDE DEF top, new
        <5> QED BY <2>2
      <4>2. filled \in Seq(Statement)
        <5>1. filled = [configs[top] EXCEPT ![size + 1] = [configs[top][size + 1] EXCEPT !.child = new]]
          OBVIOUS
        <5>2. [configs[top][size + 1] EXCEPT !.child = new] \in Statement
          <6>1. configs[top][size + 1] \in Statement
            BY <2>2
          <6>2. new \in Nat
            BY <2>1
          <6> HIDE DEF new, top
          <6> QED BY <6>1, <6>2 DEF Statement
        <5>3. size + 1 \in 1 .. Len(configs[top])
          BY <2>2
        <5> HIDE DEF top, filled, new
        <5> QED BY <2>2, <5>1, <5>2, <5>3, OneReplaced
      <4> QED BY <4>1, <4>2
    <3> HIDE DEF filled
    <3>4. all \in Seq(Seq(Statement)) /\ Len(all) = Len(configs)
      <4> HIDE DEF top
      <4> QED BY <2>1, <2>2, <3>3, OneReplaced
    <3>5. all[top] = filled /\ \A c \in 1 .. Len(configs) : c # top => all[c] = configs[c]
      <4> HIDE DEF top
      <4> QED BY <2>1, <2>2
    <3> HIDE DEF all
    <3>6. /\ Len(configs') = Len(configs) + 1 /\ configs'[new] = <<>>
          /\ \A c \in 1 .. Len(configs) : configs'[c] = all[c]
      <4>1. <<>> \in Seq(Statement)
        OBVIOUS
      <4>2. /\ Len(Append(all, <<>>)) = Len(all) + 1 /\ Append(all, <<>>)[Len(all) + 1] = <<>>
            /\ \A c \in 1 .. Len(all) : Append(all, <<>>)[c] = all[c]
        BY <3>4, <4>1, OneMore
      <4> QED BY <2>1, <3>1, <3>4, <4>2
    <3>7. block = filled
      BY <2>2, <3>5, <3>6
    <3> QED BY <3>2, <3>3, <3>5, <3>6, <3>7
  <2>5. BlocksOK'
    BY <2>1, <2>4, BlocksStep
  <2>6. EndsOK'
    <3>1. "START_BLOCK" \in EndTypes
      BY DEF EndTypes
    <3> QED BY <2>1, <2>3, <2>4, <3>1, EndsStep DEF size
  <2>7. WordsOK'
    BY <2>1, WordsStep
  <2>8. OpenOK'
    <3>1. /\ Len(bracketStack') = Len(bracketStack) + 1
          /\ \A d \in 1 .. Len(bracketStack) + 1 : configStack'[d] = configStack[d]
          /\ configStack'[Len(bracketStack) + 2] = Len(configs) + 1
      BY <2>1
    <3> QED BY <2>1, <3>1, OpenStep
  <2> QED BY <2>1, <2>5, <2>6, <2>7, <2>8 DEF TInv, TreeIsTheFile
<1> QED BY <1>1, <1>2

LEMMA EndBlockTree ==
  ASSUME IInv, IInv', GInv, TInv, EndBlock
  PROVE  TInv'
<1>1. CASE result' # "running"
  <2>1. result' \in {"false", "undefined"}
    BY <1>1 DEF EndBlock, Read, Reject, Undefined, Accept
  <2> QED BY <2>1, RejectedTree
<1>2. CASE result' = "running"
  <2>1. /\ Read("END_BLOCK") /\ result = "running" /\ "END_BLOCK" \in TokenTypes
        /\ UNCHANGED configs /\ lastType' = "END_BLOCK" /\ lastType \in BeforeEnd
        /\ configStack' = Pop(configStack)
        /\ bracketStack # <<>> /\ bracketStack' = Pop(bracketStack)
        /\ configs' \in Seq(Seq(Statement)) /\ Len(configs) \in Nat
        /\ configStack \in Seq(1 .. Len(configs)) /\ bracketStack \in Seq({"START_BLOCK"})
        /\ Len(configStack) = Len(bracketStack) + 1
    BY <1>2 DEF EndBlock, Read, Accept, Reject, Undefined, Unbalanced, TokenTypes, IInv,
                ParserTypeOK, Running, StacksAgree
  <2>2. lastType # "NORMAL"
    BY <2>1 DEF BeforeEnd
  <2>3. BlocksOK'
    BY <2>1, BlocksStep
  <2>4. EndsOK'
    <3>1. "END_BLOCK" \in TokenTypes \ EndTypes
      BY DEF EndTypes, TokenTypes
    <3> QED BY <2>1, <2>2, <3>1, EndsKept
  <2>5. WordsOK'
    BY <2>1, WordsStep
  <2>6. OpenOK'
    <3>1. /\ Len(bracketStack') = Len(bracketStack) - 1 /\ Len(bracketStack) \in Nat
      BY <2>1, OneLess
    <3>2. \A d \in 1 .. Len(configStack) - 1 : configStack'[d] = configStack[d]
      <4>1. configStack # <<>>
        BY <2>1
      <4> QED BY <2>1, <4>1, OneLess
    <3>3. \A d \in 1 .. Len(bracketStack) : configStack'[d] = configStack[d]
      BY <2>1, <3>1, <3>2
    <3> QED BY <2>1, <3>1, <3>3, OpenStep
  <2> QED BY <1>2, <2>3, <2>4, <2>5, <2>6 DEF TInv, TreeIsTheFile
<1> QED BY <1>1, <1>2

\* At the end of a file that is accepted nothing is left open, and what has
\* ended is all there is.
LEMMA EndOfFileTree ==
  ASSUME IInv, IInv', GInv, TInv, EndOfFile
  PROVE  TInv'
<1>1. CASE result' # "true"
  BY <1>1, RejectedTree DEF EndOfFile
<1>2. CASE result' = "true"
  <2> DEFINE n == Len(tokens)
             ends(c) == Ends(tokens, c, n)
             tree == TreeOf(tokens)
  <2>1. /\ lastType # "NORMAL" /\ result = "running" /\ UNCHANGED <<tokens, configs>>
        /\ configs \in Seq(Seq(Statement)) /\ n \in Nat /\ BlocksOK /\ EndsOK
    BY <1>2 DEF EndOfFile, IInv, ParserTypeOK, GInv, TInv
  <2>2. Len(configs) = 1 + Count(tokens, "START_BLOCK", n)
    BY <2>1 DEF BlocksOK
  <2>3. ASSUME NEW c \in 1 .. Len(configs)
        PROVE  configs[c] = [k \in 1 .. Cardinality(ends(c)) |->
                 StatementAt(tokens, CHOOSE i \in ends(c) : Cardinality(Ends(tokens, c, i)) = k)]
    <3>1. Holds(configs[c], tokens, c, n) /\ Len(configs[c]) = Cardinality(ends(c)) /\ Cardinality(ends(c)) \in Nat
      <4>1. Cardinality(ends(c)) \in Nat
        BY <2>1, EndsAreFinite
      <4> QED BY <2>1, <4>1 DEF EndsOK, Filling
    <3>2. configs[c] \in Seq(Statement)
      BY <2>1
    <3>3. ASSUME NEW k \in 1 .. Cardinality(ends(c))
          PROVE  configs[c][k] =
                   StatementAt(tokens, CHOOSE i \in ends(c) : Cardinality(Ends(tokens, c, i)) = k)
      <4> DEFINE i == CHOOSE i \in ends(c) : Cardinality(Ends(tokens, c, i)) = k
      <4>1. \E j \in ends(c) : Cardinality(Ends(tokens, c, j)) = k
        BY <3>1 DEF Holds
      <4>2. i \in ends(c) /\ Cardinality(Ends(tokens, c, i)) = k
        BY <4>1
      <4> HIDE DEF i
      <4>3. configs[c][k] = StatementAt(tokens, i)
        BY <3>1, <4>2 DEF Holds
      <4> QED BY <4>3 DEF i
    <3>4. configs[c] = [k \in 1 .. Cardinality(ends(c)) |-> configs[c][k]]
      <4> HIDE DEF ends
      <4> QED BY <3>1, <3>2
    <3> QED BY <3>3, <3>4
  <2>4. configs = [c \in 1 .. Len(configs) |-> configs[c]]
    BY <2>1
  <2>5. configs = tree
    BY <2>2, <2>3, <2>4 DEF TreeOf
  <2> QED BY <1>2, <2>1, <2>5 DEF TInv, TreeIsTheFile
<1> QED BY <1>1, <1>2

LEMMA NextTree == IInv /\ IInv' /\ GInv /\ TInv /\ [Next]_vars => TInv'
<1> SUFFICES ASSUME IInv, IInv', GInv, TInv, [Next]_vars PROVE TInv'
  OBVIOUS
<1>1. CASE Comment
  BY <1>1, CommentTree
<1>2. CASE Error
  BY <1>2, RejectedTree DEF Error, Reject
<1>3. CASE Normal
  BY <1>3, NormalTree
<1>4. CASE StatementEnd
  BY <1>4, StatementEndTree
<1>5. CASE StartBlock
  BY <1>5, StartBlockTree
<1>6. CASE EndBlock
  BY <1>6, EndBlockTree
<1>7. CASE EndOfFile
  BY <1>7, EndOfFileTree
<1>8. CASE UNCHANGED vars
  BY <1>8 DEF vars, TInv, BlocksOK, EndsOK, WordsOK, OpenOK, Filling, TreeIsTheFile
<1> QED BY <1>1, <1>2, <1>3, <1>4, <1>5, <1>6, <1>7, <1>8 DEF Next

\* config_parser.cc fills whatever block is on top of config_stack: the tree that
\* it builds of a file of any length is the one the file stands for.
THEOREM ParseBuildsTheFile == Spec => []TreeIsTheFile
<1>1. TInv => TreeIsTheFile
  BY DEF TInv
<1>2. Init /\ [][Next]_vars /\ []IInv => []GInv
  BY InitGrammar, NextGrammar, PTL
<1> QED BY <1>1, <1>2, InitTree, NextTree, Invariance, PTL DEF Spec
=============================================================================
