-------------------------- MODULE ConfigFileProofs --------------------------
(***************************************************************************)
(* For a file of any length, and words of any length: ParseToken returns   *)
(* the items that were written, and sees the end where it is; and Parse,   *)
(* that is given them, accepts the file for what was written, and rejects  *)
(* it for what is wrong with that.                                         *)
(*                                                                         *)
(* The parser and the writer interleave, and the parser looks ahead, so    *)
(* that it may be some characters behind.  The proof is about where it     *)
(* gets to: for what has been written there is one configuration in which  *)
(* the parser has done all it can and returned what it should (Goal), and  *)
(* at any time the turns that it can still make lead to it (Leads).        *)
(*                                                                         *)
(* A step of the two together is one of the tokenizer and one of Parse, so *)
(* that what is proved of each holds here (PartsHold); what is left to     *)
(* show is that the items written are the tokens read and the items to     *)
(* come (InStep), and why Parse has returned (Reason).                     *)
(***************************************************************************)
EXTENDS ConfigFile, SequenceTheorems, TLAPS

-----------------------------------------------------------------------------
(* Short sequences.                                                        *)

\* A character and what follows it.
LEMMA FirstAndRest ==
  ASSUME NEW S, NEW a \in S, NEW w \in Seq(S)
  PROVE  /\ <<a>> \o w \in Seq(S) /\ <<a>> \o w # <<>> /\ Len(<<a>> \o w) = Len(w) + 1
         /\ (<<a>> \o w)[1] = a /\ Head(<<a>> \o w) = a
         /\ SubSeq(<<a>> \o w, 1, Len(<<a>> \o w)) = <<a>> \o w
         /\ SubSeq(<<a>> \o w, 2, Len(<<a>> \o w)) = w
  OBVIOUS

LEMMA HeadOfLonger ==
  ASSUME NEW S, NEW s \in Seq(S), NEW w \in Seq(S), s # <<>>
  PROVE  /\ s \o w # <<>> /\ Head(s \o w) = Head(s)
         /\ SubSeq(s \o w, 2, Len(s \o w)) = SubSeq(s, 2, Len(s)) \o w
<1>1. /\ Head(s) \in S /\ Tail(s) \in Seq(S) /\ SubSeq(s, 2, Len(s)) = Tail(s)
      /\ s = <<Head(s)>> \o Tail(s)
  BY HeadTailProperties, TailIsSubSeq
<1>2. Tail(s) \o w \in Seq(S) /\ <<Head(s)>> \in Seq(S)
  BY <1>1, ConcatProperties
<1>3. s \o w = <<Head(s)>> \o (Tail(s) \o w)
  BY <1>1, <1>2, ConcatAssociative
<1>4. PICK a \in S, u \in Seq(S) : a = Head(s) /\ u = Tail(s) \o w
  BY <1>1, <1>2
<1>5. /\ <<a>> \o u # <<>> /\ Head(<<a>> \o u) = a
      /\ SubSeq(<<a>> \o u, 2, Len(<<a>> \o u)) = u
  BY FirstAndRest
<1>6. s \o w = <<a>> \o u
  BY <1>3, <1>4
<1> QED BY <1>1, <1>4, <1>5, <1>6, Zenon

LEMMA EmptyOrOne ==
  ASSUME NEW S, NEW s \in Seq(S), Len(s) < 2
  PROVE  s = <<>> \/ \E a \in S : s = <<a>>
<1>1. CASE Len(s) = 0
  BY <1>1
<1>2. CASE Len(s) = 1
  <2>1. s[1] \in S /\ <<s[1]>> \in Seq(S)
    BY <1>2
  <2>2. s = <<s[1]>>
    BY <1>2, <2>1, SeqEqual
  <2> QED BY <2>1, <2>2
<1>3. PICK n \in Nat : Len(s) = n
  BY LenProperties
<1>4. n < 2
  BY <1>3
<1>5. n = 0 \/ n = 1
  BY <1>4
<1> QED BY <1>1, <1>2, <1>3, <1>5, Zenon

\* Nothing, the first and the rest of a sequence whose length is known.
LEMMA PartsOfSeq ==
  ASSUME NEW S, NEW s \in Seq(S), NEW n \in Nat, Len(s) = n
  PROVE  SubSeq(s, 1, n) = s /\ SubSeq(s, n + 1, n) = <<>>
  BY SubSeqFull, SubSeqEmpty, n \in Int, n + 1 \in Int, n < n + 1

LEMMA OneSeq ==
  ASSUME NEW S, NEW a \in S
  PROVE  /\ <<a>> \in Seq(S) /\ Len(<<a>>) = 1 /\ <<a>>[1] = a /\ Head(<<a>>) = a
         /\ SubSeq(<<a>>, 2, 1) = <<>> /\ SubSeq(<<a>>, 1, 1) = <<a>>
         /\ SubSeq(<<a>>, 2, Len(<<a>>)) = <<>>
         /\ <<>> \o <<a>> = <<a>> /\ <<a>> \o <<>> = <<a>>
<1>1. <<a>> \in Seq(S) /\ Len(<<a>>) = 1 /\ <<a>>[1] = a /\ Head(<<a>>) = a
  OBVIOUS
<1>2. SubSeq(<<a>>, 2, 1) = <<>> /\ SubSeq(<<a>>, 1, 1) = <<a>>
  <2>1. 1 \in Nat /\ 1 + 1 = 2
    OBVIOUS
  <2>2. SubSeq(<<a>>, 1, 1) = <<a>> /\ SubSeq(<<a>>, 1 + 1, 1) = <<>>
    BY <1>1, <2>1, PartsOfSeq, Zenon
  <2> QED BY <2>1, <2>2, Zenon
<1> QED BY <1>1, <1>2, ConcatEmptySeq

LEMMA TwoSeq ==
  ASSUME NEW S, NEW a \in S, NEW b \in S
  PROVE  /\ <<a, b>> = <<a>> \o <<b>> /\ <<a, b>> \in Seq(S) /\ Len(<<a, b>>) = 2
         /\ <<a, b>>[1] = a /\ <<a, b>>[2] = b /\ Head(<<a, b>>) = a
         /\ SubSeq(<<a, b>>, 2, 2) = <<b>> /\ SubSeq(<<a, b>>, 3, 2) = <<>>
         /\ SubSeq(<<a, b>>, 1, 2) = <<a, b>>
<1>1. <<a, b>> \in Seq(S) /\ Len(<<a, b>>) = 2 /\ <<a, b>>[1] = a /\ <<a, b>>[2] = b /\ Head(<<a, b>>) = a
  OBVIOUS
<1>2. <<a, b>> = <<a>> \o <<b>>
  <2>1. /\ <<a>> \o <<b>> \in Seq(S) /\ Len(<<a>> \o <<b>>) = 2
        /\ (<<a>> \o <<b>>)[1] = a /\ (<<a>> \o <<b>>)[2] = b
    OBVIOUS
  <2>2. PICK s \in Seq(S), t \in Seq(S) : s = <<a, b>> /\ t = <<a>> \o <<b>>
    BY <1>1, <2>1
  <2>3. Len(s) = 2 /\ Len(t) = 2 /\ s[1] = t[1] /\ s[2] = t[2]
    BY <1>1, <2>1, <2>2
  <2>4. \A i \in 1 .. Len(s) : s[i] = t[i]
    BY <2>3
  <2> QED BY <2>2, <2>3, <2>4, SeqEqual, Zenon
<1>3. SubSeq(<<a, b>>, 2, 2) = <<b>>
  <2>1. PICK t \in Seq(S) : t = <<b>>
    BY OneSeq, Zenon
  <2>2. SubSeq(<<a>> \o t, 2, Len(<<a>> \o t)) = t
    BY FirstAndRest
  <2> QED BY <1>1, <1>2, <2>1, <2>2, Zenon
<1>4. SubSeq(<<a, b>>, 3, 2) = <<>> /\ SubSeq(<<a, b>>, 1, 2) = <<a, b>>
  <2>1. 2 \in Nat /\ 2 + 1 = 3
    OBVIOUS
  <2>2. SubSeq(<<a, b>>, 1, 2) = <<a, b>> /\ SubSeq(<<a, b>>, 2 + 1, 2) = <<>>
    BY <1>1, <2>1, PartsOfSeq, Zenon
  <2> QED BY <2>1, <2>2, Zenon
<1> QED BY <1>1, <1>2, <1>3, <1>4

LEMMA FrontAndLast ==
  ASSUME NEW S, NEW s \in Seq(S), s # <<>>
  PROVE  /\ Front(s) \in Seq(S) /\ Len(Front(s)) = Len(s) - 1
         /\ Last(s) \in S /\ Append(Front(s), Last(s)) = s
<1> DEFINE n == Len(s)
<1>1. n \in Nat /\ n # 0 /\ \A i \in 1 .. n : s[i] \in S
  BY EmptySeq, ElementOfSeq, LenProperties
<1>2. /\ SubSeq(s, 1, n - 1) \in Seq(S) /\ Len(SubSeq(s, 1, n - 1)) = n - 1
      /\ \A i \in 1 .. n - 1 : SubSeq(s, 1, n - 1)[i] = s[i]
  <2>1. PICK m \in Nat : m = n - 1
    BY <1>1
  <2>2. 1 \in Int /\ m \in Int /\ \A i \in 1 .. m : s[i] \in S
    BY <1>1, <2>1
  <2>3. /\ SubSeq(s, 1, m) \in Seq(S)
        /\ Len(SubSeq(s, 1, m)) = IF 1 <= m THEN m - 1 + 1 ELSE 0
        /\ \A i \in 1 .. m - 1 + 1 : SubSeq(s, 1, m)[i] = s[1 + i - 1]
    BY <2>2, SubSeqProperties
  <2>4. Len(SubSeq(s, 1, m)) = m /\ \A i \in 1 .. m : SubSeq(s, 1, m)[i] = s[i]
    BY <2>2, <2>3
  <2> QED BY <2>1, <2>3, <2>4
<1>3. Append(Front(s), Last(s)) = s
  <2> DEFINE t == SubSeq(s, 1, n - 1)
             u == Append(t, s[n])
  <2>1. u \in Seq(S) /\ Len(u) = n /\ \A i \in 1 .. n : u[i] = IF i <= n - 1 THEN t[i] ELSE s[n]
    BY <1>1, <1>2, AppendProperties
  <2>2. u = s
    BY <1>1, <1>2, <2>1, SeqEqual
  <2> QED BY <2>2 DEF Front, Last
<1> QED BY <1>1, <1>2, <1>3 DEF Front, Last

LEMMA LastAppended ==
  ASSUME NEW S, NEW s \in Seq(S), NEW a \in S
  PROVE  /\ Append(s, a) \in Seq(S) /\ Append(s, a) # <<>> /\ Len(Append(s, a)) = Len(s) + 1
         /\ Last(Append(s, a)) = a /\ Front(Append(s, a)) = s
         /\ Append(s, a) = s \o <<a>>
<1>1. /\ Append(s, a) \in Seq(S) /\ Append(s, a) # <<>> /\ Len(Append(s, a)) = Len(s) + 1
      /\ Len(s) \in Nat /\ Append(s, a)[Len(s) + 1] = a
      /\ \A i \in 1 .. Len(s) : Append(s, a)[i] = s[i]
  BY AppendProperties, LenProperties
<1>2. Last(Append(s, a)) = a
  BY <1>1 DEF Last
<1>3. Front(Append(s, a)) \in Seq(S) /\ Len(Front(Append(s, a))) = Len(s)
  <2>1. PICK u : u = Append(s, a)
    OBVIOUS
  <2>2. Len(u) - 1 = Len(s) /\ u \in Seq(S) /\ u # <<>>
    BY <1>1, <2>1
  <2> QED BY <2>1, <2>2, FrontAndLast
<1>4. \A i \in 1 .. Len(s) : Front(Append(s, a))[i] = s[i]
  <2> DEFINE u == Append(s, a)
             n == Len(s)
  <2>1. \A i \in 1 .. n : u[i] \in S
    BY <1>1, ElementOfSeq
  <2>2. \A i \in 1 .. n : SubSeq(u, 1, n)[i] = u[i]
    <3> HIDE DEF u, n
    <3> QED BY <1>1, <2>1, SubSeqProperties DEF n
  <2>3. Front(u) = SubSeq(u, 1, n)
    BY <1>1 DEF Front
  <2> QED BY <1>1, <2>2, <2>3
<1>5. Front(Append(s, a)) = s
  BY <1>3, <1>4, SeqEqual
<1>6. Append(s, a) = s \o <<a>>
  OBVIOUS
<1> QED BY <1>1, <1>2, <1>5, <1>6

-----------------------------------------------------------------------------
(* Configurations of the parser, and its turns.                            *)

States == {"INITIAL_WHITESPACE", "SINGLE_QUOTE", "DOUBLE_QUOTE", "COMMENT", "NORMAL"}
Types == {"STATEMENT_END", "START_BLOCK", "END_BLOCK", "NORMAL", "COMMENT", "ERROR"}
Items == [type : Types, value : Seq(Chars)]
Values == {v \in Seq(Chars) : Len(v) <= MaxWord + 2}

\* What is to be read, what it stands for, and how far the parser is.
Config(t, its, s, v) == [text |-> t, items |-> its, state |-> s, value |-> v]
Configs == [text : Seq(Chars), items : Seq(Items), state : States, value : Values]
Current == Config(text, items, state, value)

\* What a turn does: the characters it reads, the next state, the string, and
\* the token it returns, if it does.
Reads(n, s, v) == [read |-> n, state |-> s, value |-> v, tokens |-> <<>>]
Gives(n, type, v) ==
  [read |-> n, state |-> "INITIAL_WHITESPACE", value |-> <<>>, tokens |-> <<Item(type, v)>>]

\* A turn that begins with a backslash before d.
Escaped(s, v, d, escapable) ==
  IF d \in escapable THEN Reads(2, s, Append(v, d)) ELSE Reads(1, s, Append(v, "\\"))

\* The turn in state s, with the string v, before the characters c and d.
TurnInitial(v, c, d) ==
  CASE c \in Marks -> Gives(1, MarkType[c], <<c>>)
    [] c \in Blanks -> Reads(1, "INITIAL_WHITESPACE", v)
    [] c = "#" -> Reads(1, "COMMENT", <<"#">>)
    [] c = "\"" -> Reads(1, "DOUBLE_QUOTE", v)
    [] c = "'" -> Reads(1, "SINGLE_QUOTE", <<"'">>)
    [] c = "\\" -> Escaped("INITIAL_WHITESPACE", v, d, Special)
    [] c = "x" -> Reads(1, "NORMAL", Append(v, "x"))

TurnNormal(v, c, d) ==
  CASE c \in Marks \cup Blanks -> Gives(0, "NORMAL", v)
    [] c = "\\" -> Escaped("NORMAL", v, d, Special)
    [] OTHER -> Reads(1, "NORMAL", Append(v, c))

TurnSingle(v, c, d) ==
  CASE c = "'" -> Gives(1, "NORMAL", Append(v, "'"))
    [] c = "\\" -> Escaped("SINGLE_QUOTE", v, d, {"'"})
    [] OTHER -> Reads(1, "SINGLE_QUOTE", Append(v, c))

TurnDouble(v, c, d) ==
  CASE c = "\"" -> Gives(1, "NORMAL", v)
    [] c = "\\" -> Escaped("DOUBLE_QUOTE", v, d, {"\""})
    [] OTHER -> Reads(1, "DOUBLE_QUOTE", Append(v, c))

TurnComment(v, c) ==
  IF c = "\n" THEN Gives(1, "COMMENT", v) ELSE Reads(1, "COMMENT", Append(v, c))

TurnOf(s, v, c, d) ==
  CASE s = "INITIAL_WHITESPACE" -> TurnInitial(v, c, d)
    [] s = "NORMAL" -> TurnNormal(v, c, d)
    [] s = "SINGLE_QUOTE" -> TurnSingle(v, c, d)
    [] s = "DOUBLE_QUOTE" -> TurnDouble(v, c, d)
    [] s = "COMMENT" -> TurnComment(v, c)

\* Whether c ends a quoted word in state s, and whether the turn looks at the
\* character after it.
Closes(s, c) == \/ s = "SINGLE_QUOTE" /\ c = "'"
                \/ s = "DOUBLE_QUOTE" /\ c = "\""
LooksAhead(s, c) == (c = "\\" /\ s # "COMMENT") \/ Closes(s, c)

EndsQuoted == Blanks \cup {";", "{"}

\* The turn that follows q, where it can be made without the end of the file
\* or an error.
NextTurn(q) == TurnOf(q.state, q.value, q.text[1], q.text[2])
CanTurn(q) ==
  /\ q.text # <<>>
  /\ LooksAhead(q.state, q.text[1]) => Len(q.text) >= 2
  /\ Closes(q.state, q.text[1]) => q.text[2] \in EndsQuoted

\* It returns no token but the item that is next.
IsRight(q) ==
  NextTurn(q).tokens # <<>> => q.items # <<>> /\ NextTurn(q).tokens = <<Head(q.items)>>

Turned(q) ==
  Config(SubSeq(q.text, NextTurn(q).read + 1, Len(q.text)),
         IF NextTurn(q).tokens = <<>> THEN q.items ELSE SubSeq(q.items, 2, Len(q.items)),
         NextTurn(q).state, NextTurn(q).value)

\* A set that holds a configuration if it holds the next one.
Backwards(S) == \A q \in Configs : CanTurn(q) /\ IsRight(q) /\ Turned(q) \in S => q \in S

\* The configurations from which right turns lead into T.
Leads(T) == {q \in Configs : \A S \in SUBSET Configs : T \subseteq S /\ Backwards(S) => q \in S}

LEMMA LeadsHere ==
  ASSUME NEW T \in SUBSET Configs
  PROVE  T \subseteq Leads(T)
  BY DEF Leads

LEMMA LeadsBack ==
  ASSUME NEW T
  PROVE  Backwards(Leads(T))
<1> SUFFICES ASSUME NEW q \in Configs, CanTurn(q), IsRight(q), Turned(q) \in Leads(T)
             PROVE  q \in Leads(T)
  BY Zenon DEF Backwards
<1>1. ASSUME NEW S \in SUBSET Configs, T \subseteq S, Backwards(S) PROVE q \in S
  <2>1. Turned(q) \in S
    BY <1>1, Zenon DEF Leads
  <2> QED BY <1>1, <2>1, Zenon DEF Backwards
<1> QED BY <1>1, Zenon DEF Leads

LEMMA LeadsOn ==
  ASSUME NEW T \in SUBSET Configs, NEW q \in Leads(T)
  PROVE  q \in T \/ (CanTurn(q) /\ IsRight(q) /\ Turned(q) \in Leads(T))
<1> DEFINE On(r) == r \in T \/ (CanTurn(r) /\ IsRight(r) /\ Turned(r) \in Leads(T))
           S == {r \in Leads(T) : On(r)}
<1>1. S \in SUBSET Configs
  BY DEF Leads
<1>2. T \subseteq S
  BY LeadsHere
<1>3. Backwards(S)
  <2>1. ASSUME NEW r \in Configs, CanTurn(r), IsRight(r), Turned(r) \in S PROVE r \in S
    BY <2>1, LeadsBack, Zenon DEF Backwards
  <2> QED BY <2>1, Zenon DEF Backwards
<1> QED BY <1>1, <1>2, <1>3, Zenon DEF Leads

-----------------------------------------------------------------------------
(* The parser takes these turns.                                           *)

LEMMA CharsAre ==
  Chars = {";", "{", "}", " ", "\n", "\"", "'", "#", "\\", "x"}
  BY DEF Chars, Marks, Blanks, Quotes

LEMMA ConfigIs ==
  ASSUME NEW q, NEW t, NEW its, NEW s, NEW v, q = Config(t, its, s, v)
  PROVE  q.text = t /\ q.items = its /\ q.state = s /\ q.value = v
  BY DEF Config

\* What a turn that reads does to the variables, and one that returns.
LEMMA CurrentIs ==
  /\ Current.text = text /\ Current.items = items
  /\ Current.state = state /\ Current.value = value
  BY DEF Current, Config

LEMMA ContinueIs ==
  ASSUME NEW n, NEW s, NEW v, Continue(n, s, v), NextTurn(Current) = Reads(n, s, v)
  PROVE  Current' = Turned(Current) /\ agree' = agree
<1>1. /\ NextTurn(Current).read = n /\ NextTurn(Current).state = s
      /\ NextTurn(Current).value = v /\ NextTurn(Current).tokens = <<>>
  BY DEF Reads
<1>2. Turned(Current) = Config(SubSeq(text, n + 1, Len(text)), items, s, v)
  BY <1>1, CurrentIs, Zenon DEF Turned
<1>3. Current' = Config(text', items', state', value')
  BY DEF Current
<1> QED BY <1>2, <1>3, Zenon DEF Continue, Drop

LEMMA ReturnIs ==
  ASSUME NEW n, NEW type, NEW v, Return(n, type, v), NextTurn(Current) = Gives(n, type, v),
         IsRight(Current), agree = TRUE
  PROVE  Current' = Turned(Current) /\ agree' = TRUE
<1>1. items # <<>> /\ Head(items) = Item(type, v)
  BY CurrentIs DEF IsRight, Gives
<1>2. /\ NextTurn(Current).read = n /\ NextTurn(Current).state = "INITIAL_WHITESPACE"
      /\ NextTurn(Current).value = <<>> /\ NextTurn(Current).tokens # <<>>
  BY DEF Gives
<1>3. Turned(Current) = Config(SubSeq(text, n + 1, Len(text)), SubSeq(items, 2, Len(items)),
                               "INITIAL_WHITESPACE", <<>>)
  BY <1>2, CurrentIs, Zenon DEF Turned
<1>4. Current' = Config(text', items', state', value')
  BY DEF Current
<1> QED BY <1>1, <1>3, <1>4 DEF Return, Drop

LEMMA EscapeIs ==
  ASSUME NEW s, NEW escapable, Escape(s, escapable), CanTurn(Current), s \in States \ {"COMMENT"},
         NextTurn(Current) = Escaped(s, value, text[2], escapable)
  PROVE  Current' = Turned(Current) /\ agree' = agree
<1>1. text # <<>> /\ text[1] = "\\" /\ state = s
  BY DEF Escape, Turn
<1>2. Len(text) >= 2 /\ ~(Len(text) < 2)
  BY <1>1 DEF CanTurn, Current, Config, LooksAhead, States
<1>3. CASE text[2] \in escapable
  BY <1>2, <1>3, ContinueIs DEF Escape, Escaped
<1>4. CASE text[2] \notin escapable
  BY <1>2, <1>4, ContinueIs DEF Escape, Escaped
<1> QED BY <1>3, <1>4

LEMMA TurnIs ==
  ASSUME ParseToken, Current \in Configs, CanTurn(Current), IsRight(Current), agree = TRUE
  PROVE  Current' = Turned(Current) /\ agree' = TRUE /\ UNCHANGED writerVars
<1>1. text # <<>> /\ text \in Seq(Chars) /\ state \in States
  BY CurrentIs DEF CanTurn, Configs
<1>2. text[1] = Head(text) /\ Head(text) \in Chars
  BY <1>1
<1>3. NextTurn(Current) = TurnOf(state, value, Head(text), text[2])
  BY <1>2, CurrentIs, Zenon DEF NextTurn
<1>4. Closes(state, Head(text)) => ~(Len(text) < 2) /\ text[2] \in EndsQuoted
  <2>1. Len(text) \in Nat /\ (Len(text) >= 2 => ~(Len(text) < 2))
    BY <1>1, LenProperties
  <2> QED BY <1>2, <2>1, CurrentIs DEF CanTurn, LooksAhead
<1>5. CASE InitialWhitespace
  <2>1. state = "INITIAL_WHITESPACE" /\ UNCHANGED writerVars
    BY <1>5 DEF InitialWhitespace, Turn, Escape
  <2>2. NextTurn(Current) = TurnInitial(value, Head(text), text[2])
    BY <1>3, <2>1 DEF TurnOf
  <2>3. CASE \E c \in Marks : Turn("INITIAL_WHITESPACE", c) /\ Return(1, MarkType[c], <<c>>)
    <3>1. PICK c \in Marks : c = Head(text) /\ Return(1, MarkType[c], <<c>>)
      BY <2>3 DEF Turn
    <3>2. NextTurn(Current) = Gives(1, MarkType[c], <<c>>)
      BY <2>2, <3>1 DEF TurnInitial, Marks, Blanks
    <3> QED BY <2>1, <3>1, <3>2, ReturnIs
  <2>4. CASE \E c \in Blanks :
               Turn("INITIAL_WHITESPACE", c) /\ Continue(1, "INITIAL_WHITESPACE", value)
    <3>1. Head(text) \in Blanks /\ Continue(1, "INITIAL_WHITESPACE", value)
      BY <2>4 DEF Turn
    <3>2. NextTurn(Current) = Reads(1, "INITIAL_WHITESPACE", value)
      BY <2>2, <3>1 DEF TurnInitial, Marks, Blanks
    <3> QED BY <2>1, <3>1, <3>2, ContinueIs
  <2>5. CASE Turn("INITIAL_WHITESPACE", "#") /\ Continue(1, "COMMENT", <<"#">>)
    <3>1. NextTurn(Current) = Reads(1, "COMMENT", <<"#">>)
      BY <2>2, <2>5 DEF TurnInitial, Marks, Blanks, Turn
    <3> QED BY <2>1, <2>5, <3>1, ContinueIs
  <2>6. CASE Turn("INITIAL_WHITESPACE", "\"") /\ Continue(1, "DOUBLE_QUOTE", value)
    <3>1. NextTurn(Current) = Reads(1, "DOUBLE_QUOTE", value)
      BY <2>2, <2>6 DEF TurnInitial, Marks, Blanks, Turn
    <3> QED BY <2>1, <2>6, <3>1, ContinueIs
  <2>7. CASE Turn("INITIAL_WHITESPACE", "'") /\ Continue(1, "SINGLE_QUOTE", <<"'">>)
    <3>1. NextTurn(Current) = Reads(1, "SINGLE_QUOTE", <<"'">>)
      BY <2>2, <2>7 DEF TurnInitial, Marks, Blanks, Turn
    <3> QED BY <2>1, <2>7, <3>1, ContinueIs
  <2>8. CASE Escape("INITIAL_WHITESPACE", Special)
    <3>1. NextTurn(Current) = Escaped("INITIAL_WHITESPACE", value, text[2], Special)
      BY <2>2, <2>8 DEF TurnInitial, Marks, Blanks, Turn, Escape
    <3> QED BY <2>1, <2>8, <3>1, EscapeIs DEF States
  <2>9. CASE Turn("INITIAL_WHITESPACE", "x") /\ Continue(1, "NORMAL", Append(value, "x"))
    <3>1. NextTurn(Current) = Reads(1, "NORMAL", Append(value, "x"))
      BY <2>2, <2>9 DEF TurnInitial, Marks, Blanks, Turn
    <3> QED BY <2>1, <2>9, <3>1, ContinueIs
  <2> QED BY <1>5, <2>3, <2>4, <2>5, <2>6, <2>7, <2>8, <2>9 DEF InitialWhitespace
<1>6. CASE Normal
  <2>1. state = "NORMAL" /\ UNCHANGED writerVars
    BY <1>6 DEF Normal, Turn, Escape
  <2>2. NextTurn(Current) = TurnNormal(value, Head(text), text[2])
    BY <1>3, <2>1 DEF TurnOf
  <2>3. CASE \E c \in Marks \cup Blanks : Turn("NORMAL", c) /\ Return(0, "NORMAL", value)
    <3>1. Head(text) \in Marks \cup Blanks /\ Return(0, "NORMAL", value)
      BY <2>3 DEF Turn
    <3>2. NextTurn(Current) = Gives(0, "NORMAL", value)
      BY <2>2, <3>1 DEF TurnNormal, Marks, Blanks
    <3> QED BY <2>1, <3>1, <3>2, ReturnIs
  <2>4. CASE Escape("NORMAL", Special)
    <3>1. NextTurn(Current) = Escaped("NORMAL", value, text[2], Special)
      BY <2>2, <2>4 DEF TurnNormal, Marks, Blanks, Turn, Escape
    <3> QED BY <2>1, <2>4, <3>1, EscapeIs DEF States
  <2>5. CASE \E c \in Quotes \cup {"#", "x"} :
               Turn("NORMAL", c) /\ Continue(1, "NORMAL", Append(value, c))
    <3>1. PICK c \in Quotes \cup {"#", "x"} :
                 c = Head(text) /\ Continue(1, "NORMAL", Append(value, c))
      BY <2>5 DEF Turn
    <3>2. NextTurn(Current) = Reads(1, "NORMAL", Append(value, c))
      BY <2>2, <3>1 DEF TurnNormal, Marks, Blanks, Quotes
    <3> QED BY <2>1, <3>1, <3>2, ContinueIs
  <2> QED BY <1>6, <2>3, <2>4, <2>5 DEF Normal
<1>7. CASE SingleQuote
  <2>1. state = "SINGLE_QUOTE" /\ UNCHANGED writerVars
    BY <1>7 DEF SingleQuote, Turn, Escape
  <2>2. NextTurn(Current) = TurnSingle(value, Head(text), text[2])
    BY <1>3, <2>1 DEF TurnOf
  <2>3. CASE Escape("SINGLE_QUOTE", {"'"})
    <3>1. NextTurn(Current) = Escaped("SINGLE_QUOTE", value, text[2], {"'"})
      BY <2>2, <2>3 DEF TurnSingle, Turn, Escape
    <3> QED BY <2>1, <2>3, <3>1, EscapeIs DEF States
  <2>4. CASE Turn("SINGLE_QUOTE", "'") /\ CloseQuote(Append(value, "'"))
    <3>1. Head(text) = "'"
      BY <2>4 DEF Turn
    <3>2. NextTurn(Current) = Gives(1, "NORMAL", Append(value, "'"))
      BY <2>2, <3>1 DEF TurnSingle
    <3>3. ~(Len(text) < 2) /\ text[2] \in EndsQuoted
      BY <1>1, <1>4, <2>1, <3>1 DEF Closes
    <3>4. Return(1, "NORMAL", Append(value, "'"))
      BY <2>4, <3>3, Zenon DEF CloseQuote, EndsQuoted
    <3> QED BY <2>1, <3>2, <3>4, ReturnIs
  <2>5. CASE \E c \in Chars \ {"'", "\\"} :
               Turn("SINGLE_QUOTE", c) /\ Continue(1, "SINGLE_QUOTE", Append(value, c))
    <3>1. PICK c \in Chars \ {"'", "\\"} :
                 c = Head(text) /\ Continue(1, "SINGLE_QUOTE", Append(value, c))
      BY <2>5 DEF Turn
    <3>2. NextTurn(Current) = Reads(1, "SINGLE_QUOTE", Append(value, c))
      BY <2>2, <3>1 DEF TurnSingle
    <3> QED BY <2>1, <3>1, <3>2, ContinueIs
  <2> QED BY <1>7, <2>3, <2>4, <2>5 DEF SingleQuote
<1>8. CASE DoubleQuote
  <2>1. state = "DOUBLE_QUOTE" /\ UNCHANGED writerVars
    BY <1>8 DEF DoubleQuote, Turn, Escape
  <2>2. NextTurn(Current) = TurnDouble(value, Head(text), text[2])
    BY <1>3, <2>1 DEF TurnOf
  <2>3. CASE Escape("DOUBLE_QUOTE", {"\""})
    <3>1. NextTurn(Current) = Escaped("DOUBLE_QUOTE", value, text[2], {"\""})
      BY <2>2, <2>3 DEF TurnDouble, Turn, Escape
    <3> QED BY <2>1, <2>3, <3>1, EscapeIs DEF States
  <2>4. CASE Turn("DOUBLE_QUOTE", "\"") /\ CloseQuote(value)
    <3>1. Head(text) = "\""
      BY <2>4 DEF Turn
    <3>2. NextTurn(Current) = Gives(1, "NORMAL", value)
      BY <2>2, <3>1 DEF TurnDouble
    <3>3. ~(Len(text) < 2) /\ text[2] \in EndsQuoted
      BY <1>1, <1>4, <2>1, <3>1 DEF Closes
    <3>4. Return(1, "NORMAL", value)
      BY <2>4, <3>3, Zenon DEF CloseQuote, EndsQuoted
    <3> QED BY <2>1, <3>2, <3>4, ReturnIs
  <2>5. CASE \E c \in Chars \ {"\"", "\\"} :
               Turn("DOUBLE_QUOTE", c) /\ Continue(1, "DOUBLE_QUOTE", Append(value, c))
    <3>1. PICK c \in Chars \ {"\"", "\\"} :
                 c = Head(text) /\ Continue(1, "DOUBLE_QUOTE", Append(value, c))
      BY <2>5 DEF Turn
    <3>2. NextTurn(Current) = Reads(1, "DOUBLE_QUOTE", Append(value, c))
      BY <2>2, <3>1 DEF TurnDouble
    <3> QED BY <2>1, <3>1, <3>2, ContinueIs
  <2> QED BY <1>8, <2>3, <2>4, <2>5 DEF DoubleQuote
<1>9. CASE Comment
  <2>1. state = "COMMENT" /\ UNCHANGED writerVars
    BY <1>9 DEF Comment, Turn
  <2>2. NextTurn(Current) = TurnComment(value, Head(text))
    BY <1>3, <2>1 DEF TurnOf
  <2>3. CASE Turn("COMMENT", "\n") /\ Return(1, "COMMENT", value)
    <3>1. NextTurn(Current) = Gives(1, "COMMENT", value)
      BY <2>2, <2>3 DEF TurnComment, Turn
    <3> QED BY <2>1, <2>3, <3>1, ReturnIs
  <2>4. CASE \E c \in Chars \ {"\n"} :
               Turn("COMMENT", c) /\ Continue(1, "COMMENT", Append(value, c))
    <3>1. PICK c \in Chars \ {"\n"} :
                 c = Head(text) /\ Continue(1, "COMMENT", Append(value, c))
      BY <2>4 DEF Turn
    <3>2. NextTurn(Current) = Reads(1, "COMMENT", Append(value, c))
      BY <2>2, <3>1 DEF TurnComment
    <3> QED BY <2>1, <3>1, <3>2, ContinueIs
  <2> QED BY <1>9, <2>3, <2>4 DEF Comment
<1>10. ~EndOfFile
  BY <1>1 DEF EndOfFile
<1> QED BY <1>5, <1>6, <1>7, <1>8, <1>9, <1>10 DEF ParseToken

-----------------------------------------------------------------------------
(* What is written behind a character that is still to be read does not    *)
(* matter to the turns that the parser can already make.                   *)

\* With t written, and its items.
Longer(q, t, its) == Config(q.text \o t, q.items \o its, q.state, q.value)

LEMMA TurnOfFirst ==
  ASSUME NEW s \in States, NEW c \in Chars, ~LooksAhead(s, c), NEW v, NEW d, NEW e
  PROVE  TurnOf(s, v, c, d) = TurnOf(s, v, c, e) /\ TurnOf(s, v, c, d).read \in {0, 1}
<1>1. CASE s = "INITIAL_WHITESPACE"
  <2>1. c # "\\"
    BY <1>1 DEF LooksAhead
  <2>2. TurnInitial(v, c, d) = TurnInitial(v, c, e)
    BY <2>1, CharsAre DEF TurnInitial, Marks, Blanks
  <2>3. TurnInitial(v, c, d).read \in {0, 1}
    BY <2>1, CharsAre DEF TurnInitial, Marks, Blanks, Gives, Reads
  <2> QED BY <1>1, <2>2, <2>3 DEF TurnOf
<1>2. CASE s = "NORMAL"
  BY <1>2, CharsAre DEF LooksAhead, TurnOf, TurnNormal, Gives, Reads
<1>3. CASE s = "SINGLE_QUOTE"
  BY <1>3, CharsAre DEF LooksAhead, Closes, TurnOf, TurnSingle, Gives, Reads
<1>4. CASE s = "DOUBLE_QUOTE"
  BY <1>4, CharsAre DEF LooksAhead, Closes, TurnOf, TurnDouble, Gives, Reads
<1>5. CASE s = "COMMENT"
  BY <1>5, CharsAre DEF TurnOf, TurnComment, Gives, Reads
<1> QED BY <1>1, <1>2, <1>3, <1>4, <1>5 DEF States

LEMMA ShortTurn ==
  ASSUME NEW q \in Configs, Len(q.text) < 2, CanTurn(q), NEW t \in Seq(Chars), NEW its,
         NEW r, r = Config(q.text \o t, its, q.state, q.value)
  PROVE  /\ NextTurn(r) = NextTurn(q) /\ CanTurn(r)
         /\ Turned(r).text = Turned(q).text \o t
         /\ Len(Turned(q).text) < 2
<1>1. q.text # <<>> /\ q.text \in Seq(Chars) /\ q.state \in States
  BY DEF CanTurn, Configs
<1>2. PICK a \in Chars : q.text = <<a>>
  BY <1>1, EmptyOrOne
<1>3. /\ r.text = <<a>> \o t /\ r.state = q.state /\ r.value = q.value
      /\ r.text # <<>> /\ r.text[1] = a /\ q.text[1] = a
      /\ SubSeq(r.text, 1, Len(r.text)) = r.text /\ SubSeq(r.text, 2, Len(r.text)) = t
  <2>1. /\ r.text = q.text \o t /\ r.state = q.state /\ r.value = q.value
    BY DEF Config
  <2>2. <<a>>[1] = a
    OBVIOUS
  <2>3. /\ <<a>> \o t # <<>> /\ (<<a>> \o t)[1] = a
        /\ SubSeq(<<a>> \o t, 1, Len(<<a>> \o t)) = <<a>> \o t
        /\ SubSeq(<<a>> \o t, 2, Len(<<a>> \o t)) = t
    BY FirstAndRest
  <2>4. r.text = <<a>> \o t /\ q.text[1] = a
    BY <1>2, <2>1, <2>2
  <2> QED BY <2>1, <2>3, <2>4, Zenon
<1>4. ~LooksAhead(q.state, a) /\ ~Closes(q.state, a)
  <2>1. ~(Len(q.text) >= 2)
    BY <1>2
  <2> QED BY <1>3, <2>1 DEF CanTurn, LooksAhead
<1>5. NextTurn(r) = NextTurn(q) /\ NextTurn(q).read \in {0, 1}
  <2>1. \A d, e : TurnOf(q.state, q.value, a, d) = TurnOf(q.state, q.value, a, e)
    BY <1>1, <1>4, TurnOfFirst
  <2>2. \A d : TurnOf(q.state, q.value, a, d).read \in {0, 1}
    BY <1>1, <1>4, TurnOfFirst, Zenon
  <2> QED BY <1>3, <2>1, <2>2 DEF NextTurn
<1>6. CanTurn(r)
  BY <1>3, <1>4, Zenon DEF CanTurn
<1>7. /\ Turned(r).text = SubSeq(r.text, NextTurn(q).read + 1, Len(r.text))
      /\ Turned(q).text = SubSeq(q.text, NextTurn(q).read + 1, Len(q.text))
  BY <1>5 DEF Turned, Config
<1>8. Turned(r).text = Turned(q).text \o t /\ Len(Turned(q).text) < 2
  <2>1. CASE NextTurn(q).read = 0
    <3>1. NextTurn(q).read + 1 = 1
      BY <2>1
    <3>2. Turned(q).text = <<a>> /\ Turned(r).text = <<a>> \o t
      BY <1>2, <1>3, <1>7, <3>1, OneSeq, Zenon
    <3> QED BY <3>2
  <2>2. CASE NextTurn(q).read = 1
    <3>1. NextTurn(q).read + 1 = 2
      BY <2>2
    <3>2. Turned(q).text = <<>> /\ Turned(r).text = t
      BY <1>2, <1>3, <1>7, <3>1, OneSeq, Zenon
    <3> QED BY <3>2, ConcatEmptySeq
  <2> QED BY <1>5, <2>1, <2>2
<1> QED BY <1>5, <1>6, <1>8, Zenon

\* Where the turns lead to before something is written, and from there with
\* it, they lead to with it at once.
LEMMA WritingLater ==
  ASSUME NEW T \in SUBSET Configs, NEW U \in SUBSET Configs,
         NEW t \in Seq(Chars), NEW its \in Seq(Items),
         \A q \in T : Longer(q, t, its) \in Leads(U),
         NEW p \in Leads(T), Len(p.text) < 2
  PROVE  Longer(p, t, its) \in Leads(U)
<1> DEFINE S == {q \in Configs : Len(q.text) < 2 => Longer(q, t, its) \in Leads(U)}
<1>1. S \in SUBSET Configs /\ T \subseteq S
  OBVIOUS
<1>2. Backwards(S)
  <2> SUFFICES ASSUME NEW q \in Configs, CanTurn(q), IsRight(q), Turned(q) \in S, Len(q.text) < 2
               PROVE  Longer(q, t, its) \in Leads(U)
    BY Zenon DEF Backwards
  <2>0. PICK r : r = Longer(q, t, its)
    OBVIOUS
  <2>1. q.text \in Seq(Chars) /\ q.items \in Seq(Items) /\ q.state \in States /\ q.value \in Values
    BY DEF Configs
  <2>2. r \in Configs
    <3>1. q.text \o t \in Seq(Chars) /\ q.items \o its \in Seq(Items)
      BY <2>1, ConcatProperties
    <3> QED BY <2>0, <2>1, <3>1 DEF Longer, Config, Configs
  <2>3. /\ NextTurn(r) = NextTurn(q) /\ CanTurn(r)
        /\ Turned(r).text = Turned(q).text \o t
        /\ Len(Turned(q).text) < 2
    <3>1. r = Config(q.text \o t, q.items \o its, q.state, q.value)
      BY <2>0 DEF Longer
    <3>2. PICK i : i = q.items \o its
      OBVIOUS
    <3>3. r = Config(q.text \o t, i, q.state, q.value)
      BY <3>1, <3>2
    <3> QED BY <3>3, ShortTurn
  <2>4. Longer(Turned(q), t, its) \in Leads(U)
    BY <2>3
  <2>5. r.items = q.items \o its
    BY <2>0 DEF Longer, Config
  <2>6. q.items # <<>> => /\ r.items # <<>> /\ Head(r.items) = Head(q.items)
                          /\ SubSeq(r.items, 2, Len(r.items)) = SubSeq(q.items, 2, Len(q.items)) \o its
    BY <2>1, <2>5, HeadOfLonger
  <2>7. IsRight(r)
    BY <2>3, <2>6, Zenon DEF IsRight
  <2>8. Turned(r) = Longer(Turned(q), t, its)
    <3>1. /\ Turned(q).state = NextTurn(q).state /\ Turned(q).value = NextTurn(q).value
          /\ Turned(q).items = IF NextTurn(q).tokens = <<>> THEN q.items
                               ELSE SubSeq(q.items, 2, Len(q.items))
      BY DEF Turned, Config
    <3>2. /\ Turned(r).state = NextTurn(q).state /\ Turned(r).value = NextTurn(q).value
          /\ Turned(r).items = IF NextTurn(q).tokens = <<>> THEN r.items
                               ELSE SubSeq(r.items, 2, Len(r.items))
      BY <2>3 DEF Turned, Config
    <3>3. Turned(r).items = Turned(q).items \o its
      BY <2>5, <2>6, <3>1, <3>2, Zenon DEF IsRight
    <3>4. Turned(r) = Config(Turned(r).text, Turned(r).items, Turned(r).state, Turned(r).value)
      BY DEF Turned, Config
    <3> QED BY <2>3, <3>1, <3>2, <3>3, <3>4, Zenon DEF Longer
  <2> QED BY <2>0, <2>2, <2>3, <2>4, <2>7, <2>8, LeadsBack, Zenon DEF Backwards
<1> QED BY <1>1, <1>2, Zenon DEF Leads

-----------------------------------------------------------------------------
(* Where the turns lead to.                                                *)

Styles == {"plain", "double", "single", "comment"}
Quoting == {"double", "single"}
Words == {w \in Seq(Chars) : Len(w) <= MaxWord}

\* The state within a word or comment of which the characters w were read,
\* and the string.
StateIn(style, w) ==
  CASE style = "plain" -> IF Contains(w, "x") THEN "NORMAL" ELSE "INITIAL_WHITESPACE"
    [] style = "double" -> "DOUBLE_QUOTE"
    [] style = "single" -> "SINGLE_QUOTE"
    [] style = "comment" -> "COMMENT"

ValueIn(style, w) == IF style \in {"single", "comment"} THEN OpeningOf[style] \o w ELSE w

\* The characters w were read, and t is written behind them.
Within(style, w, t) == Config(t, <<>>, StateIn(style, w), ValueIn(style, w))

\* A backslash waits for the character after it.
Waits(style, w) == style # "comment" /\ w # <<>> /\ Last(w) = "\\"
Inside(style, w) ==
  IF Waits(style, w) THEN Within(style, Front(w), <<"\\">>) ELSE Within(style, w, <<>>)

\* A word is written to its end.
Word(style, w) == Item("NORMAL", ValueOf(style, w))
Behind(style, w) == Longer(Within(style, w, <<>>), OpeningOf[style], <<Word(style, w)>>)

\* All is read and returned.
Rest == Config(<<>>, <<>>, "INITIAL_WHITESPACE", <<>>)

\* How far the parser comes, where nothing is written any more.
Goal(wr, af) ==
  CASE wr # Nothing -> {Inside(wr.style, wr.chars)}
    [] wr = Nothing /\ af = "blank" -> {Rest}
    [] wr = Nothing /\ af = "plain" -> {Behind("plain", w) : w \in {u \in Words : Contains(u, "x")}}
    [] wr = Nothing /\ af = "quoted" ->
         {q \in Configs : \E style \in Quoting, w \in Words : q = Behind(style, w)}

\* And where something is stuck to a quoted word.
Doomed(style, w, c) ==
  Config(OpeningOf[style] \o <<c>>, <<Item("ERROR", <<>>)>>, StateIn(style, w), ValueIn(style, w))
Doom ==
  {q \in Configs : \E style \in Quoting, w \in Words, c \in Chars \ EndsQuoted :
                     q = Doomed(style, w, c)}

\* The file ends where it does, or it is wrong where it is.
EndsRight ==
  /\ state = "EOF" => closed /\ ~InQuotes /\ Len(items) = IF after = "plain" THEN 1 ELSE 0
  /\ state = "ERROR" =>
       \/ items # <<>> /\ Head(items).type = "ERROR"
       \/ closed /\ InQuotes /\ Len(items) = IF after = "quoted" THEN 1 ELSE 0

Ended ==
  /\ state \in {"EOF", "ERROR"} /\ value = <<>> /\ text = <<>>
  /\ EndsRight

Writable(wr, af) ==
  /\ af \in {"blank", "plain", "quoted"}
  /\ wr # Nothing => af = "blank" /\ wr \in [style : Styles, chars : Words]

IInv ==
  /\ agree = TRUE
  /\ Len(text) <= 3
  /\ closed \in BOOLEAN /\ Writable(writing, after)
  /\ \/ Current \in Leads(Goal(writing, after))
     \/ ~closed /\ writing = Nothing /\ Current \in Leads(Doom)
     \/ Ended

-----------------------------------------------------------------------------
(* Types of these.                                                         *)

LEMMA ConfigType ==
  ASSUME NEW t \in Seq(Chars), NEW its \in Seq(Items), NEW s \in States, NEW v \in Values
  PROVE  Config(t, its, s, v) \in Configs
  BY DEF Config, Configs

LEMMA ItemType ==
  ASSUME NEW type \in Types, NEW v \in Seq(Chars)
  PROVE  Item(type, v) \in Items
  BY DEF Item, Items

LEMMA CharSeq ==
  /\ <<>> \in Seq(Chars) /\ Len(<<>>) <= 1
  /\ \A c \in Chars : <<c>> \in Seq(Chars) /\ Len(<<c>>) <= 1
  /\ "\"" \in Chars /\ "'" \in Chars /\ "#" \in Chars /\ "\\" \in Chars /\ "x" \in Chars
<1>1. <<>> \in Seq(Chars) /\ Len(<<>>) <= 1
  OBVIOUS
<1>2. ASSUME NEW c \in Chars PROVE <<c>> \in Seq(Chars) /\ Len(<<c>>) <= 1
  OBVIOUS
<1>3. "\"" \in Chars /\ "'" \in Chars /\ "#" \in Chars /\ "\\" \in Chars /\ "x" \in Chars
  BY CharsAre
<1> QED BY <1>1, <1>2, <1>3, Zenon

LEMMA OpeningIs ==
  /\ OpeningOf["plain"] = <<>> /\ OpeningOf["double"] = <<"\"">>
  /\ OpeningOf["single"] = <<"'">> /\ OpeningOf["comment"] = <<"#">>
  /\ \A style \in Styles : OpeningOf[style] \in Seq(Chars) /\ Len(OpeningOf[style]) <= 1
<1>1. /\ OpeningOf["plain"] = <<>> /\ OpeningOf["double"] = <<"\"">>
      /\ OpeningOf["single"] = <<"'">> /\ OpeningOf["comment"] = <<"#">>
  BY DEF OpeningOf
<1>2. /\ <<>> \in Seq(Chars) /\ <<"\"">> \in Seq(Chars) /\ <<"'">> \in Seq(Chars) /\ <<"#">> \in Seq(Chars)
      /\ Len(<<>>) <= 1 /\ Len(<<"\"">>) <= 1 /\ Len(<<"'">>) <= 1 /\ Len(<<"#">>) <= 1
  BY CharSeq, Zenon
<1> QED BY <1>1, <1>2 DEF Styles

LEMMA WithinType ==
  ASSUME NEW style \in Styles, NEW w \in Words
  PROVE  /\ StateIn(style, w) \in States /\ ValueIn(style, w) \in Values
         /\ \A t \in Seq(Chars) : Within(style, w, t) \in Configs
         /\ Word(style, w) \in Items
<1>1. w \in Seq(Chars) /\ Len(w) <= MaxWord /\ Len(w) \in Nat /\ MaxWord \in Nat
  BY TokenizerAssumption, LenProperties DEF Words
<1>2. StateIn(style, w) \in States
  BY DEF Styles, StateIn, States
<1>3. ValueIn(style, w) \in Values
  <2>1. w \in Values
    BY <1>1 DEF Values
  <2>2. \A c \in Chars : <<c>> \o w \in Values
    BY <1>1, FirstAndRest DEF Values
  <2> QED BY <2>1, <2>2, OpeningIs, CharsAre DEF ValueIn, Styles
<1>4. ASSUME NEW t \in Seq(Chars) PROVE Within(style, w, t) \in Configs
  BY <1>2, <1>3, ConfigType, EmptySeq DEF Within
<1>5. Word(style, w) \in Items
  <2>1. <<"'">> \in Seq(Chars) /\ <<"'">> \o w \in Seq(Chars)
    BY <1>1, CharsAre, FirstAndRest, OneSeq
  <2>2. <<"'">> \o w \o <<"'">> \in Seq(Chars)
    BY <2>1, ConcatProperties
  <2>3. ValueOf(style, w) \in Seq(Chars)
    BY <1>1, <2>2 DEF ValueOf
  <2> QED BY <2>3, ItemType DEF Word, Types
<1> QED BY <1>2, <1>3, <1>4, <1>5

LEMMA InsideType ==
  ASSUME NEW style \in Styles, NEW w \in Words
  PROVE  Inside(style, w) \in Configs
<1>1. w # <<>> => Front(w) \in Words
  <2>1. w \in Seq(Chars) /\ Len(w) <= MaxWord /\ Len(w) \in Nat /\ MaxWord \in Nat
    BY TokenizerAssumption, LenProperties DEF Words
  <2> QED BY <2>1, FrontAndLast DEF Words
<1>2. <<>> \in Seq(Chars) /\ <<"\\">> \in Seq(Chars)
  BY CharSeq, Zenon
<1> QED BY <1>1, <1>2, WithinType DEF Inside, Waits

LEMMA BehindType ==
  ASSUME NEW style \in Styles, NEW w \in Words
  PROVE  /\ Behind(style, w) = Config(OpeningOf[style], <<Word(style, w)>>,
                                      StateIn(style, w), ValueIn(style, w))
         /\ Behind(style, w) \in Configs
<1>1. OpeningOf[style] \in Seq(Chars) /\ <<Word(style, w)>> \in Seq(Items)
  BY OpeningIs, WithinType, OneSeq, Zenon
<1>2. /\ Within(style, w, <<>>).text = <<>> /\ Within(style, w, <<>>).items = <<>>
      /\ Within(style, w, <<>>).state = StateIn(style, w)
      /\ Within(style, w, <<>>).value = ValueIn(style, w)
  BY DEF Within, Config
<1>3. <<>> \o OpeningOf[style] = OpeningOf[style] /\ <<>> \o <<Word(style, w)>> = <<Word(style, w)>>
  BY <1>1, ConcatEmptySeq
<1>4. Behind(style, w) = Config(OpeningOf[style], <<Word(style, w)>>,
                                StateIn(style, w), ValueIn(style, w))
  BY <1>2, <1>3 DEF Behind, Longer
<1> QED BY <1>1, <1>4, WithinType, ConfigType

LEMMA RestType == Rest \in Configs
<1>1. <<>> \in Seq(Chars) /\ <<>> \in Seq(Items) /\ <<>> \in Values
  BY TokenizerAssumption DEF Values
<1> QED BY <1>1, ConfigType DEF Rest, States

LEMMA GoalType ==
  ASSUME NEW wr, NEW af, Writable(wr, af)
  PROVE  Goal(wr, af) \in SUBSET Configs
<1>1. CASE wr # Nothing
  <2>1. wr.style \in Styles /\ wr.chars \in Words
    BY <1>1 DEF Writable
  <2> QED BY <1>1, <2>1, InsideType DEF Goal
<1>2. CASE wr = Nothing
  <2>1. \A style \in Styles, w \in Words : Behind(style, w) \in Configs
    BY BehindType
  <2> QED BY <1>2, <2>1, RestType DEF Goal, Writable, Styles, Quoting
<1> QED BY <1>1, <1>2

LEMMA DoomedType ==
  ASSUME NEW style \in Quoting, NEW w \in Words, NEW c \in Chars
  PROVE  Doomed(style, w, c) \in Configs
<1>1. style \in Styles /\ OpeningOf[style] \in Seq(Chars) /\ <<c>> \in Seq(Chars)
  BY OpeningIs, CharSeq DEF Quoting, Styles
<1>2. OpeningOf[style] \o <<c>> \in Seq(Chars)
  BY <1>1, ConcatProperties
<1>3. <<Item("ERROR", <<>>)>> \in Seq(Items)
  <2>1. <<>> \in Seq(Chars) /\ "ERROR" \in Types
    BY DEF Types
  <2> QED BY <2>1, ItemType, OneSeq, Zenon
<1> QED BY <1>1, <1>2, <1>3, WithinType, ConfigType DEF Doomed

-----------------------------------------------------------------------------
(* Turns before what leads on.                                             *)

LEMMA TurnBack ==
  ASSUME NEW T, NEW q \in Configs, CanTurn(q), IsRight(q), Turned(q) \in Leads(T)
  PROVE  q \in Leads(T)
  BY LeadsBack, Zenon DEF Backwards

\* One character is read.
LEMMA ReadOne ==
  ASSUME NEW T, NEW c \in Chars, NEW u \in Seq(Chars), NEW its, NEW s, NEW v, NEW to, NEW w,
         Config(<<c>> \o u, its, s, v) \in Configs,
         LooksAhead(s, c) => u # <<>>, ~Closes(s, c),
         \A d : (u # <<>> => d = u[1]) => TurnOf(s, v, c, d) = Reads(1, to, w),
         Config(u, its, to, w) \in Leads(T)
  PROVE  Config(<<c>> \o u, its, s, v) \in Leads(T)
<1>1. PICK q : q = Config(<<c>> \o u, its, s, v)
  OBVIOUS
<1>2. q.text = <<c>> \o u /\ q.items = its /\ q.state = s /\ q.value = v
  BY <1>1 DEF Config
<1>3. /\ q.text # <<>> /\ q.text[1] = c /\ SubSeq(q.text, 2, Len(q.text)) = u
      /\ u # <<>> => Len(q.text) >= 2 /\ q.text[2] = u[1]
  BY <1>2, FirstAndRest
<1>4. NextTurn(q) = Reads(1, to, w)
  BY <1>2, <1>3, Zenon DEF NextTurn
<1>5. CanTurn(q)
  BY <1>2, <1>3, Zenon DEF CanTurn
<1>6. NextTurn(q).read + 1 = 2 /\ NextTurn(q).tokens = <<>> /\ NextTurn(q).state = to /\ NextTurn(q).value = w
  BY <1>4 DEF Reads
<1>7. Turned(q) = Config(u, its, to, w) /\ IsRight(q)
  BY <1>2, <1>3, <1>6, Zenon DEF Turned, IsRight
<1> QED BY <1>1, <1>5, <1>7, TurnBack, Zenon

\* A backslash and what it stands before are.
LEMMA ReadTwo ==
  ASSUME NEW T, NEW c \in Chars, NEW its, NEW s, NEW v, NEW to, NEW w,
         Config(<<"\\", c>>, its, s, v) \in Configs,
         TurnOf(s, v, "\\", c) = Reads(2, to, w),
         Config(<<>>, its, to, w) \in Leads(T)
  PROVE  Config(<<"\\", c>>, its, s, v) \in Leads(T)
<1>1. PICK q : q = Config(<<"\\", c>>, its, s, v)
  OBVIOUS
<1>2. q.text = <<"\\", c>> /\ q.items = its /\ q.state = s /\ q.value = v
  BY <1>1 DEF Config
<1>3. /\ q.text # <<>> /\ q.text[1] = "\\" /\ q.text[2] = c /\ Len(q.text) = 2
      /\ SubSeq(q.text, 3, Len(q.text)) = <<>>
  <2>1. "\\" \in Chars
    BY CharSeq
  <2>2. /\ <<"\\", c>>[1] = "\\" /\ <<"\\", c>>[2] = c /\ Len(<<"\\", c>>) = 2
        /\ SubSeq(<<"\\", c>>, 3, 2) = <<>>
    BY <2>1, TwoSeq, Zenon
  <2>3. <<"\\", c>> # <<>>
    OBVIOUS
  <2> QED BY <1>2, <2>2, <2>3, Zenon
<1>4. NextTurn(q) = Reads(2, to, w)
  BY <1>2, <1>3, Zenon DEF NextTurn
<1>5. CanTurn(q)
  BY <1>2, <1>3 DEF CanTurn, Closes
<1>6. NextTurn(q).read + 1 = 3 /\ NextTurn(q).tokens = <<>> /\ NextTurn(q).state = to /\ NextTurn(q).value = w
  BY <1>4 DEF Reads
<1>7. Turned(q) = Config(<<>>, its, to, w) /\ IsRight(q)
  BY <1>2, <1>3, <1>6, Zenon DEF Turned, IsRight
<1> QED BY <1>1, <1>5, <1>7, TurnBack, Zenon

\* A token is returned, and what ends it is read or not.
LEMMA GiveOne ==
  ASSUME NEW T, NEW c \in Chars, NEW u \in Seq(Chars), NEW its \in Seq(Items),
         NEW s, NEW v, NEW n \in {0, 1}, NEW type \in Types, NEW w \in Seq(Chars),
         Config(<<c>> \o u, <<Item(type, w)>> \o its, s, v) \in Configs,
         LooksAhead(s, c) => u # <<>>, Closes(s, c) => u[1] \in EndsQuoted,
         \A d : TurnOf(s, v, c, d) = Gives(n, type, w),
         Config(IF n = 0 THEN <<c>> \o u ELSE u, its, "INITIAL_WHITESPACE", <<>>) \in Leads(T)
  PROVE  Config(<<c>> \o u, <<Item(type, w)>> \o its, s, v) \in Leads(T)
<1>1. PICK q : q = Config(<<c>> \o u, <<Item(type, w)>> \o its, s, v)
  OBVIOUS
<1>2. q.text = <<c>> \o u /\ q.items = <<Item(type, w)>> \o its /\ q.state = s /\ q.value = v
  BY <1>1 DEF Config
<1>3. /\ q.text # <<>> /\ q.text[1] = c /\ SubSeq(q.text, 2, Len(q.text)) = u
      /\ SubSeq(q.text, 1, Len(q.text)) = <<c>> \o u
      /\ u # <<>> => Len(q.text) >= 2 /\ q.text[2] = u[1]
  BY <1>2, FirstAndRest
<1>4. /\ q.items # <<>> /\ Head(q.items) = Item(type, w)
      /\ SubSeq(q.items, 2, Len(q.items)) = its
  <2>1. PICK i \in Items : i = Item(type, w)
    BY ItemType
  <2>2. /\ <<i>> \o its # <<>> /\ Head(<<i>> \o its) = i
        /\ SubSeq(<<i>> \o its, 2, Len(<<i>> \o its)) = its
    BY FirstAndRest
  <2> QED BY <1>2, <2>1, <2>2, Zenon
<1>5. NextTurn(q) = Gives(n, type, w)
  BY <1>2, <1>3, Zenon DEF NextTurn
<1>6. CanTurn(q)
  BY <1>2, <1>3, Zenon DEF CanTurn, LooksAhead
<1>7. /\ NextTurn(q).read = n /\ NextTurn(q).tokens = <<Item(type, w)>> /\ NextTurn(q).tokens # <<>>
      /\ NextTurn(q).state = "INITIAL_WHITESPACE" /\ NextTurn(q).value = <<>>
  BY <1>5 DEF Gives
<1>8. SubSeq(q.text, NextTurn(q).read + 1, Len(q.text)) = IF n = 0 THEN <<c>> \o u ELSE u
  <2>1. CASE n = 0
    <3>1. NextTurn(q).read + 1 = 1
      BY <1>7, <2>1
    <3> QED BY <1>3, <2>1, <3>1, Zenon
  <2>2. CASE n = 1
    <3>1. NextTurn(q).read + 1 = 2 /\ n # 0
      BY <1>7, <2>2
    <3> QED BY <1>3, <3>1, Zenon
  <2> QED BY <2>1, <2>2
<1>9. Turned(q) = Config(IF n = 0 THEN <<c>> \o u ELSE u, its, "INITIAL_WHITESPACE", <<>>)
  BY <1>4, <1>7, <1>8, Zenon DEF Turned
<1>10. IsRight(q)
  BY <1>4, <1>7, Zenon DEF IsRight
<1> QED BY <1>1, <1>6, <1>9, <1>10, TurnBack, Zenon

LEMMA GiveBefore ==
  ASSUME NEW T, NEW c \in Chars, NEW u \in Seq(Chars), NEW its \in Seq(Items),
         NEW s, NEW v, NEW type \in Types, NEW w \in Seq(Chars),
         Config(<<c>> \o u, <<Item(type, w)>> \o its, s, v) \in Configs, ~LooksAhead(s, c),
         \A d : TurnOf(s, v, c, d) = Gives(0, type, w),
         Config(<<c>> \o u, its, "INITIAL_WHITESPACE", <<>>) \in Leads(T)
  PROVE  Config(<<c>> \o u, <<Item(type, w)>> \o its, s, v) \in Leads(T)
<1>1. PICK n \in {0, 1} : n = 0
  OBVIOUS
<1>2. \A d : TurnOf(s, v, c, d) = Gives(n, type, w)
  BY <1>1
<1>3. Config(IF n = 0 THEN <<c>> \o u ELSE u, its, "INITIAL_WHITESPACE", <<>>) \in Leads(T)
  BY <1>1
<1>4. ~Closes(s, c)
  BY DEF LooksAhead
<1> QED BY <1>2, <1>3, <1>4, GiveOne, Zenon

LEMMA GiveBehind ==
  ASSUME NEW T, NEW c \in Chars, NEW u \in Seq(Chars), NEW its \in Seq(Items),
         NEW s, NEW v, NEW type \in Types, NEW w \in Seq(Chars),
         Config(<<c>> \o u, <<Item(type, w)>> \o its, s, v) \in Configs,
         LooksAhead(s, c) => u # <<>>, Closes(s, c) => u[1] \in EndsQuoted,
         \A d : TurnOf(s, v, c, d) = Gives(1, type, w),
         Config(u, its, "INITIAL_WHITESPACE", <<>>) \in Leads(T)
  PROVE  Config(<<c>> \o u, <<Item(type, w)>> \o its, s, v) \in Leads(T)
<1>1. PICK n \in {0, 1} : n = 1
  OBVIOUS
<1>2. \A d : TurnOf(s, v, c, d) = Gives(n, type, w)
  BY <1>1
<1>3. Config(IF n = 0 THEN <<c>> \o u ELSE u, its, "INITIAL_WHITESPACE", <<>>) \in Leads(T)
  BY <1>1
<1> QED BY <1>2, <1>3, GiveOne, Zenon

-----------------------------------------------------------------------------
(* A character of a word is written.                                       *)

Escapable(style) ==
  IF style = "plain" THEN Special ELSE IF style = "double" THEN {"\""} ELSE {"'"}

LEMMA WordAppended ==
  ASSUME NEW style \in Styles, NEW w \in Seq(Chars), NEW c \in Chars
  PROVE  /\ ValueIn(style, Append(w, c)) = Append(ValueIn(style, w), c)
         /\ StateIn(style, Append(w, c)) =
              IF style = "plain" /\ c = "x" THEN "NORMAL" ELSE StateIn(style, w)
<1>1. \A a \in Chars : <<a>> \o Append(w, c) = Append(<<a>> \o w, c)
  <2> TAKE a \in Chars
  <2>1. <<a>> \in Seq(Chars) /\ <<c>> \in Seq(Chars) /\ <<a>> \o w \in Seq(Chars)
    BY CharSeq, FirstAndRest
  <2>2. Append(w, c) = w \o <<c>> /\ Append(<<a>> \o w, c) = (<<a>> \o w) \o <<c>>
    BY <2>1, AppendIsConcat, Zenon
  <2>3. (<<a>> \o w) \o <<c>> = <<a>> \o (w \o <<c>>)
    BY <2>1, ConcatAssociative
  <2> QED BY <2>2, <2>3, Zenon
<1>2. ValueIn(style, Append(w, c)) = Append(ValueIn(style, w), c)
  BY <1>1, OpeningIs, CharSeq, Zenon DEF ValueIn
<1>3. Contains(Append(w, c), "x") <=> Contains(w, "x") \/ c = "x"
  BY DEF Contains
<1>4. StateIn(style, Append(w, c)) =
        IF style = "plain" /\ c = "x" THEN "NORMAL" ELSE StateIn(style, w)
  BY <1>3 DEF StateIn, Styles
<1> QED BY <1>2, <1>4

\* A backslash in a word takes the meaning of some characters away.
LEMMA Backslash ==
  ASSUME NEW style \in Styles \ {"comment"}, NEW w, NEW v, NEW d
  PROVE  /\ TurnOf(StateIn(style, w), v, "\\", d) =
              Escaped(StateIn(style, w), v, d, Escapable(style))
         /\ ~Closes(StateIn(style, w), "\\")
         /\ "\\" \notin Escapable(style) /\ "x" \notin Escapable(style)
<1>1. "\\" \notin Escapable(style) /\ "x" \notin Escapable(style)
  BY DEF Escapable, Special, Marks
<1>2. ~Closes(StateIn(style, w), "\\")
  BY DEF Closes
<1>3. CASE style = "plain" /\ Contains(w, "x")
  <2>1. StateIn(style, w) = "NORMAL"
    BY <1>3 DEF StateIn
  <2>2. TurnNormal(v, "\\", d) = Escaped("NORMAL", v, d, Special)
    BY DEF TurnNormal, Marks, Blanks
  <2> QED BY <1>1, <1>2, <1>3, <2>1, <2>2 DEF TurnOf, Escapable
<1>4. CASE style = "plain" /\ ~Contains(w, "x")
  <2>1. StateIn(style, w) = "INITIAL_WHITESPACE"
    BY <1>4 DEF StateIn
  <2>2. TurnInitial(v, "\\", d) = Escaped("INITIAL_WHITESPACE", v, d, Special)
    BY DEF TurnInitial, Marks, Blanks
  <2> QED BY <1>1, <1>2, <1>4, <2>1, <2>2 DEF TurnOf, Escapable
<1>5. CASE style = "double"
  <2>1. StateIn(style, w) = "DOUBLE_QUOTE"
    BY <1>5 DEF StateIn
  <2>2. TurnDouble(v, "\\", d) = Escaped("DOUBLE_QUOTE", v, d, {"\""})
    BY DEF TurnDouble
  <2> QED BY <1>1, <1>2, <1>5, <2>1, <2>2 DEF TurnOf, Escapable
<1>6. CASE style = "single"
  <2>1. StateIn(style, w) = "SINGLE_QUOTE"
    BY <1>6 DEF StateIn
  <2>2. TurnSingle(v, "\\", d) = Escaped("SINGLE_QUOTE", v, d, {"'"})
    BY DEF TurnSingle
  <2> QED BY <1>1, <1>2, <1>6, <2>1, <2>2 DEF TurnOf, Escapable
<1> QED BY <1>3, <1>4, <1>5, <1>6 DEF Styles

\* What the writer may put for a character.
LEMMA WrittenAs ==
  ASSUME NEW style \in Styles, NEW w \in Seq(Chars), NEW c \in Chars,
         NEW t \in Writings(style, w, c)
  PROVE  \/ style # "comment" /\ c \in Escapable(style) /\ t = <<"\\", c>>
         \/ /\ t = <<c>>
            /\ style = "comment" => c # "\n"
            /\ style \in Quoting => c \notin Escapable(style)
            /\ style = "plain" => /\ c \notin Special \cup {"\n"} \/ (c = "#" /\ Last(w) # "\\")
                                  /\ c \in Quotes \cup {"#"} => Contains(w, "x")
<1>1. CASE style = "plain"
  BY <1>1, CharsAre DEF Writings, Escapable, Special, Marks, Quotes, Quoting
<1>2. CASE style = "double"
  BY <1>2, CharsAre DEF Writings, Escapable, Quoting
<1>3. CASE style = "single"
  BY <1>3, CharsAre DEF Writings, Escapable, Quoting
<1>4. CASE style = "comment"
  BY <1>4, CharsAre DEF Writings, Quoting
<1> QED BY <1>1, <1>2, <1>3, <1>4 DEF Styles

\* The turn before a character that stands for itself.
LEMMA PlainTurn ==
  ASSUME NEW style \in Styles, NEW w \in Seq(Chars), NEW c \in Chars,
         <<c>> \in Writings(style, w, c), style = "comment" \/ c # "\\", NEW v, NEW d
  PROVE  /\ TurnOf(StateIn(style, w), v, c, d) = Reads(1, StateIn(style, Append(w, c)), Append(v, c))
         /\ ~LooksAhead(StateIn(style, w), c) /\ ~Closes(StateIn(style, w), c)
<1>1. /\ style = "comment" => c # "\n"
      /\ style \in Quoting => c \notin Escapable(style)
      /\ style = "plain" => /\ c \notin Special \cup {"\n"} \/ c = "#"
                            /\ c \in Quotes \cup {"#"} => Contains(w, "x")
  <2>1. <<c>> # <<"\\", c>>
    OBVIOUS
  <2> QED BY <2>1, WrittenAs, Zenon
<1>2. StateIn(style, Append(w, c)) =
        IF style = "plain" /\ c = "x" THEN "NORMAL" ELSE StateIn(style, w)
  BY WordAppended
<1>3. CASE style = "plain" /\ Contains(w, "x")
  <2>1. StateIn(style, w) = "NORMAL"
    BY <1>3 DEF StateIn
  <2>2. c \notin Marks \cup Blanks /\ c # "\\"
    BY <1>1, <1>3 DEF Special, Blanks, Marks
  <2> QED BY <1>2, <1>3, <2>1, <2>2 DEF TurnOf, TurnNormal, LooksAhead, Closes
<1>4. CASE style = "plain" /\ ~Contains(w, "x")
  <2>1. StateIn(style, w) = "INITIAL_WHITESPACE"
    BY <1>4 DEF StateIn
  <2>2. c = "x"
    BY <1>1, <1>4, CharsAre DEF Special, Marks, Quotes
  <2>3. TurnInitial(v, c, d) = Reads(1, "NORMAL", Append(v, "x"))
    BY <2>2 DEF TurnInitial, Marks, Blanks
  <2> QED BY <1>2, <1>4, <2>1, <2>2, <2>3 DEF TurnOf, LooksAhead, Closes
<1>5. CASE style = "double"
  BY <1>1, <1>2, <1>5 DEF StateIn, TurnOf, TurnDouble, LooksAhead, Closes, Quoting, Escapable
<1>6. CASE style = "single"
  BY <1>1, <1>2, <1>6 DEF StateIn, TurnOf, TurnSingle, LooksAhead, Closes, Quoting, Escapable
<1>7. CASE style = "comment"
  BY <1>1, <1>2, <1>7 DEF StateIn, TurnOf, TurnComment, LooksAhead, Closes
<1> QED BY <1>3, <1>4, <1>5, <1>6, <1>7 DEF Styles

LEMMA LongerWithin ==
  ASSUME NEW style, NEW w, NEW u \in Seq(Chars), NEW t \in Seq(Chars)
  PROVE  Longer(Within(style, w, u), t, <<>>) = Within(style, w, u \o t)
<1>1. /\ Within(style, w, u).text = u /\ Within(style, w, u).items = <<>>
      /\ Within(style, w, u).state = StateIn(style, w) /\ Within(style, w, u).value = ValueIn(style, w)
  BY DEF Within, Config
<1>2. <<>> \o <<>> = <<>>
  BY ConcatEmptySeq
<1> QED BY <1>1, <1>2, Zenon DEF Longer, Within

LEMMA WordsGrow ==
  ASSUME NEW w \in Words, Len(w) < MaxWord, NEW c \in Chars
  PROVE  /\ Append(w, c) \in Words /\ w \in Seq(Chars)
         /\ Append(w, c) # <<>> /\ Last(Append(w, c)) = c /\ Front(Append(w, c)) = w
<1>1. w \in Seq(Chars) /\ Len(w) \in Nat /\ MaxWord \in Nat
  BY TokenizerAssumption, LenProperties DEF Words
<1>2. /\ Append(w, c) \in Seq(Chars) /\ Len(Append(w, c)) = Len(w) + 1
      /\ Append(w, c) # <<>> /\ Last(Append(w, c)) = c /\ Front(Append(w, c)) = w
  BY <1>1, LastAppended, Zenon
<1>3. Len(Append(w, c)) <= MaxWord
  BY <1>1, <1>2
<1> QED BY <1>1, <1>2, <1>3 DEF Words

\* The word so far was read: then so will the character be.
LEMMA CharIsRead ==
  ASSUME NEW style \in Styles, NEW w \in Words, Len(w) < MaxWord, NEW c \in Chars,
         NEW t \in Writings(style, w, c)
  PROVE  t \in Seq(Chars) /\ Within(style, w, t) \in Leads({Inside(style, Append(w, c))})
<1>0. PICK T, longer : longer = Append(w, c) /\ T = {Inside(style, longer)}
  OBVIOUS
<1>1. /\ longer \in Words /\ w \in Seq(Chars)
      /\ longer # <<>> /\ Last(longer) = c /\ Front(longer) = w
  BY <1>0, WordsGrow
<1>2. Inside(style, longer) \in Leads(T)
  <2>1. Inside(style, longer) \in Configs
    BY <1>1, InsideType
  <2> QED BY <1>0, <2>1, LeadsHere
<1>3. /\ ValueIn(style, longer) = Append(ValueIn(style, w), c)
      /\ StateIn(style, longer) = IF style = "plain" /\ c = "x" THEN "NORMAL" ELSE StateIn(style, w)
  BY <1>0, <1>1, WordAppended
<1>4. (style # "comment" /\ c \in Escapable(style) /\ t = <<"\\", c>>) \/ t = <<c>>
  BY <1>1, WrittenAs, Zenon
<1>5. t \in Seq(Chars)
  <2>1. <<c>> \in Seq(Chars) /\ <<"\\", c>> \in Seq(Chars)
    BY CharSeq, TwoSeq, Zenon
  <2> QED BY <1>4, <2>1, Zenon
<1>6. Within(style, w, t) \in Configs
  BY <1>5, WithinType
<1>7. CASE style # "comment" /\ c \in Escapable(style) /\ t = <<"\\", c>>
  <2>1. c # "\\" /\ c # "x"
    BY <1>7, Backslash
  <2>2. Inside(style, longer) = Config(<<>>, <<>>, StateIn(style, w), Append(ValueIn(style, w), c))
    BY <1>1, <1>3, <2>1, Zenon DEF Inside, Waits, Within
  <2>3. TurnOf(StateIn(style, w), ValueIn(style, w), "\\", c) =
          Reads(2, StateIn(style, w), Append(ValueIn(style, w), c))
    BY <1>7, Backslash DEF Escaped
  <2>4. Within(style, w, t) = Config(<<"\\", c>>, <<>>, StateIn(style, w), ValueIn(style, w))
    BY <1>7, Zenon DEF Within
  <2>5. Config(<<"\\", c>>, <<>>, StateIn(style, w), ValueIn(style, w)) \in Leads(T)
    BY <1>2, <1>6, <2>2, <2>3, <2>4, ReadTwo
  <2> QED BY <1>0, <1>5, <2>4, <2>5, Zenon
<1>8. CASE t = <<c>> /\ c = "\\" /\ style # "comment"
  <2>1. Inside(style, longer) = Within(style, w, t)
    BY <1>1, <1>8, Zenon DEF Inside, Waits
  <2> QED BY <1>0, <1>2, <1>5, <2>1
<1>9. CASE t = <<c>> /\ (style = "comment" \/ c # "\\")
  <2>1. Inside(style, longer) = Config(<<>>, <<>>, StateIn(style, longer), Append(ValueIn(style, w), c))
    BY <1>1, <1>3, <1>9, Zenon DEF Inside, Waits, Within
  <2>2. \A d : TurnOf(StateIn(style, w), ValueIn(style, w), c, d) =
                 Reads(1, StateIn(style, longer), Append(ValueIn(style, w), c))
    BY <1>0, <1>1, <1>9, PlainTurn
  <2>3. ~LooksAhead(StateIn(style, w), c) /\ ~Closes(StateIn(style, w), c)
    BY <1>0, <1>1, <1>9, PlainTurn
  <2>4. <<c>> \o <<>> = <<c>> /\ <<>> \in Seq(Chars)
    BY OneSeq, CharSeq, Zenon
  <2>5. Within(style, w, t) = Config(<<c>> \o <<>>, <<>>, StateIn(style, w), ValueIn(style, w))
    BY <1>9, <2>4, Zenon DEF Within
  <2>6. Config(<<c>> \o <<>>, <<>>, StateIn(style, w), ValueIn(style, w)) \in Leads(T)
    BY <1>2, <1>6, <2>1, <2>2, <2>3, <2>4, <2>5, ReadOne
  <2> QED BY <1>0, <1>5, <2>5, <2>6, Zenon
<1> QED BY <1>4, <1>7, <1>8, <1>9

\* A backslash that waits stands for itself, whatever is written next.
LEMMA BackslashIsRead ==
  ASSUME NEW style \in Styles, NEW w \in Words, Waits(style, w), NEW c \in Chars,
         NEW t \in Writings(style, w, c), t \in Seq(Chars), NEW T,
         Within(style, w, t) \in Leads(T)
  PROVE  Within(style, Front(w), <<"\\">> \o t) \in Leads(T)
<1>1. /\ w \in Seq(Chars) /\ w # <<>> /\ Last(w) = "\\" /\ style \in Styles \ {"comment"}
      /\ "\\" \in Chars
  BY CharSeq DEF Words, Waits
<1>2. Front(w) \in Words /\ Front(w) \in Seq(Chars) /\ Append(Front(w), "\\") = w
  <2>1. Len(w) <= MaxWord /\ Len(w) \in Nat /\ MaxWord \in Nat
    BY <1>1, TokenizerAssumption, LenProperties DEF Words
  <2> QED BY <1>1, <2>1, FrontAndLast DEF Words
<1>3. ValueIn(style, w) = Append(ValueIn(style, Front(w)), "\\") /\ StateIn(style, w) = StateIn(style, Front(w))
  <2>1. "\\" # "x"
    OBVIOUS
  <2>2. /\ ValueIn(style, Append(Front(w), "\\")) = Append(ValueIn(style, Front(w)), "\\")
        /\ StateIn(style, Append(Front(w), "\\")) =
             IF style = "plain" /\ "\\" = "x" THEN "NORMAL" ELSE StateIn(style, Front(w))
    BY <1>1, <1>2, WordAppended, Zenon
  <2> QED BY <1>2, <2>1, <2>2, Zenon
<1>4. t # <<>> /\ t[1] \notin Escapable(style)
  <2>1. CASE t = <<"\\", c>>
    <3>1. t # <<>> /\ t[1] = "\\"
      BY <2>1
    <3> QED BY <1>1, <3>1, Backslash, Zenon
  <2>2. CASE t # <<"\\", c>>
    <3>1. /\ t = <<c>>
          /\ style \in Quoting => c \notin Escapable(style)
          /\ style = "plain" => c \notin Special \cup {"\n"}
      BY <1>1, <2>2, WrittenAs, Zenon
    <3>2. c \notin Escapable(style)
      BY <1>1, <3>1 DEF Styles, Quoting, Escapable
    <3> QED BY <3>1, <3>2
  <2> QED BY <2>1, <2>2
<1>5. ASSUME NEW d, d = t[1]
      PROVE  TurnOf(StateIn(style, Front(w)), ValueIn(style, Front(w)), "\\", d) =
               Reads(1, StateIn(style, w), ValueIn(style, w))
  BY <1>1, <1>3, <1>4, <1>5, Backslash DEF Escaped
<1>6. <<"\\">> \o t \in Seq(Chars)
  BY <1>1, FirstAndRest
<1>7. Within(style, Front(w), <<"\\">> \o t) \in Configs
  BY <1>2, <1>6, WithinType
<1>8. ~Closes(StateIn(style, Front(w)), "\\")
  BY <1>1, Backslash
<1> QED BY <1>1, <1>4, <1>5, <1>7, <1>8, ReadOne DEF Within

LEMMA CharWritten ==
  ASSUME NEW style \in Styles, NEW w \in Words, Len(w) < MaxWord, NEW c \in Chars,
         NEW t \in Writings(style, w, c)
  PROVE  t \in Seq(Chars) /\ Longer(Inside(style, w), t, <<>>) \in Leads({Inside(style, Append(w, c))})
<1>1. t \in Seq(Chars) /\ Within(style, w, t) \in Leads({Inside(style, Append(w, c))})
  BY CharIsRead, Zenon
<1>2. CASE Waits(style, w)
  <2>1. <<"\\">> \in Seq(Chars)
    BY CharSeq, Zenon
  <2>2. Longer(Inside(style, w), t, <<>>) = Within(style, Front(w), <<"\\">> \o t)
    BY <1>1, <1>2, <2>1, LongerWithin DEF Inside
  <2> QED BY <1>1, <1>2, <2>2, BackslashIsRead, Zenon
<1>3. CASE ~Waits(style, w)
  <2>1. <<>> \in Seq(Chars) /\ <<>> \o t = t
    BY <1>1, ConcatEmptySeq
  <2>2. Longer(Inside(style, w), t, <<>>) = Within(style, w, t)
    BY <1>1, <1>3, <2>1, LongerWithin DEF Inside
  <2> QED BY <1>1, <2>2, Zenon
<1> QED BY <1>2, <1>3

-----------------------------------------------------------------------------
(* What stands between words is written, and where they begin and end.     *)

LEMMA RestIsReached == Rest \in Leads({Rest})
  BY RestType, LeadsHere

LEMMA InitialType ==
  ASSUME NEW t \in Seq(Chars), NEW its \in Seq(Items)
  PROVE  Config(t, its, "INITIAL_WHITESPACE", <<>>) \in Configs
<1>1. <<>> \in Values /\ "INITIAL_WHITESPACE" \in States
  BY TokenizerAssumption DEF Values, States
<1> QED BY <1>1, ConfigType

LEMMA MarkIsRead ==
  ASSUME NEW m \in Marks
  PROVE  /\ Item(MarkType[m], <<m>>) \in Items
         /\ Config(<<m>>, <<Item(MarkType[m], <<m>>)>>, "INITIAL_WHITESPACE", <<>>) \in Leads({Rest})
<1>1. m \in Chars /\ MarkType[m] \in Types /\ ~LooksAhead("INITIAL_WHITESPACE", m)
      /\ ~Closes("INITIAL_WHITESPACE", m)
  BY CharsAre DEF Marks, MarkType, Types, LooksAhead, Closes
<1>2. <<m>> \in Seq(Chars) /\ <<m>> \o <<>> = <<m>> /\ <<>> \in Seq(Chars)
  BY <1>1, OneSeq, CharSeq, Zenon
<1>3. PICK i : i = Item(MarkType[m], <<m>>)
  OBVIOUS
<1>4. i \in Items
  BY <1>1, <1>2, <1>3, ItemType, Zenon
<1>5. <<i>> \in Seq(Items) /\ <<i>> \o <<>> = <<i>> /\ <<>> \in Seq(Items)
  <2>1. <<>> \in Seq(Items)
    OBVIOUS
  <2> QED BY <1>4, <2>1, OneSeq, Zenon
<1>6. Config(<<m>>, <<i>>, "INITIAL_WHITESPACE", <<>>) \in Configs
  BY <1>2, <1>5, InitialType
<1>7. \A d : TurnOf("INITIAL_WHITESPACE", <<>>, m, d) = Gives(1, MarkType[m], <<m>>)
  <2>1. \A d : TurnInitial(<<>>, m, d) = Gives(1, MarkType[m], <<m>>)
    BY DEF TurnInitial, Marks, Blanks
  <2> QED BY <2>1 DEF TurnOf
<1>8. Config(<<>>, <<>>, "INITIAL_WHITESPACE", <<>>) \in Leads({Rest})
  BY RestIsReached DEF Rest
<1>9. Config(<<m>> \o <<>>, <<i>> \o <<>>, "INITIAL_WHITESPACE", <<>>) \in Leads({Rest})
  <2>1. Config(<<m>> \o <<>>, <<i>> \o <<>>, "INITIAL_WHITESPACE", <<>>) \in Configs
    BY <1>2, <1>5, <1>6, Zenon
  <2> QED BY <1>1, <1>2, <1>3, <1>5, <1>7, <1>8, <2>1, GiveBehind
<1> QED BY <1>2, <1>3, <1>4, <1>5, <1>9, Zenon

LEMMA BlankIsRead ==
  ASSUME NEW b \in Blanks
  PROVE  Config(<<b>>, <<>>, "INITIAL_WHITESPACE", <<>>) \in Leads({Rest})
<1>1. b \in Chars /\ ~LooksAhead("INITIAL_WHITESPACE", b) /\ ~Closes("INITIAL_WHITESPACE", b)
  BY CharsAre DEF Blanks, LooksAhead, Closes
<1>2. <<b>> \in Seq(Chars) /\ <<b>> \o <<>> = <<b>> /\ <<>> \in Seq(Chars)
  BY <1>1, OneSeq, CharSeq, Zenon
<1>3. Config(<<b>> \o <<>>, <<>>, "INITIAL_WHITESPACE", <<>>) \in Configs
  <2>1. <<>> \in Seq(Items)
    OBVIOUS
  <2> QED BY <1>2, <2>1, InitialType
<1>4. \A d : TurnOf("INITIAL_WHITESPACE", <<>>, b, d) = Reads(1, "INITIAL_WHITESPACE", <<>>)
  <2>1. \A d : TurnInitial(<<>>, b, d) = Reads(1, "INITIAL_WHITESPACE", <<>>)
    BY DEF TurnInitial, Marks, Blanks
  <2> QED BY <2>1 DEF TurnOf
<1>5. Config(<<>>, <<>>, "INITIAL_WHITESPACE", <<>>) \in Leads({Rest})
  BY RestIsReached DEF Rest
<1>6. Config(<<b>> \o <<>>, <<>>, "INITIAL_WHITESPACE", <<>>) \in Leads({Rest})
  BY <1>1, <1>2, <1>3, <1>4, <1>5, ReadOne
<1> QED BY <1>2, <1>6

\* What follows a word ends it, and is then the first to be read.
LEMMA WordIsReturned ==
  ASSUME NEW style \in Styles \ {"comment"}, NEW w \in Words,
         style = "plain" => Contains(w, "x"),
         NEW c \in Marks \cup Blanks, style # "plain" => c # "}",
         NEW its \in Seq(Items), NEW T,
         Config(<<c>>, its, "INITIAL_WHITESPACE", <<>>) \in Leads(T)
  PROVE  Longer(Behind(style, w), <<c>>, its) \in Leads(T)
<1>0. PICK s, v : s = StateIn(style, w) /\ v = ValueIn(style, w)
  OBVIOUS
<1>1. c \in Chars /\ <<c>> \in Seq(Chars) /\ <<c>> # <<>> /\ <<c>>[1] = c
  <2>1. c \in Chars
    BY CharsAre DEF Marks, Blanks
  <2>2. <<c>> # <<>>
    OBVIOUS
  <2> QED BY <2>1, <2>2, OneSeq, Zenon
<1>2. /\ w \in Seq(Chars) /\ s \in States /\ v \in Values /\ v \in Seq(Chars)
      /\ OpeningOf[style] \in Seq(Chars) /\ <<Word(style, w)>> \in Seq(Items)
      /\ ValueOf(style, w) \in Seq(Chars)
  <2>1. /\ s \in States /\ v \in Values /\ Word(style, w) \in Items /\ OpeningOf[style] \in Seq(Chars)
    BY <1>0, WithinType, OpeningIs
  <2>2. ValueOf(style, w) \in Seq(Chars)
    BY <2>1 DEF Word, Item, Items
  <2>3. w \in Seq(Chars) /\ v \in Seq(Chars)
    BY <2>1 DEF Words, Values
  <2>4. <<Word(style, w)>> \in Seq(Items)
    BY <2>1, OneSeq, Zenon
  <2> QED BY <2>1, <2>2, <2>3, <2>4
<1>3. Longer(Behind(style, w), <<c>>, its) =
        Config(OpeningOf[style] \o <<c>>, <<Word(style, w)>> \o its, s, v)
  <2>1. Behind(style, w) = Config(OpeningOf[style], <<Word(style, w)>>, s, v)
    BY <1>0, BehindType
  <2>2. PICK q : q = Behind(style, w)
    OBVIOUS
  <2>3. q = Config(OpeningOf[style], <<Word(style, w)>>, s, v)
    BY <2>1, <2>2, Zenon
  <2>4. q.text = OpeningOf[style] /\ q.items = <<Word(style, w)>> /\ q.state = s /\ q.value = v
    BY <2>3 DEF Config
  <2> QED BY <2>2, <2>4, Zenon DEF Longer
<1>4. OpeningOf[style] \o <<c>> \in Seq(Chars) /\ <<Word(style, w)>> \o its \in Seq(Items)
  BY <1>1, <1>2, ConcatProperties
<1>5. Config(OpeningOf[style] \o <<c>>, <<Word(style, w)>> \o its, s, v) \in Configs
  BY <1>2, <1>4, ConfigType
<1>6. "NORMAL" \in Types
  BY DEF Types
<1>7. CASE style = "plain"
  <2>1. s = "NORMAL" /\ v = w /\ ValueOf(style, w) = w /\ OpeningOf[style] = <<>>
    BY <1>0, <1>7, OpeningIs DEF StateIn, ValueIn, ValueOf
  <2>2. <<c>> \o <<>> = <<c>> /\ <<>> \o <<c>> = <<c>> /\ <<>> \in Seq(Chars)
    BY <1>1, OneSeq, CharSeq, Zenon
  <2>3. ~LooksAhead("NORMAL", c) /\ ~Closes("NORMAL", c)
    BY DEF LooksAhead, Closes, Marks, Blanks
  <2>4. \A d : TurnOf("NORMAL", w, c, d) = Gives(0, "NORMAL", w)
    <3>1. \A d : TurnNormal(w, c, d) = Gives(0, "NORMAL", w)
      BY DEF TurnNormal, Marks, Blanks
    <3> QED BY <3>1 DEF TurnOf
  <2>5. Config(<<c>> \o <<>>, <<Item("NORMAL", w)>> \o its, "NORMAL", w) \in Configs
    BY <1>5, <2>1, <2>2, Zenon DEF Word
  <2>6. Config(<<c>> \o <<>>, its, "INITIAL_WHITESPACE", <<>>) \in Leads(T)
    BY <2>2
  <2>7. Config(<<c>> \o <<>>, <<Item("NORMAL", w)>> \o its, "NORMAL", w) \in Leads(T)
    BY <1>1, <1>2, <1>6, <2>2, <2>3, <2>4, <2>5, <2>6, GiveBefore
  <2> QED BY <1>3, <2>1, <2>2, <2>7, Zenon DEF Word
<1>8. CASE style \in Quoting
  <2>1. PICK e \in Chars : /\ OpeningOf[style] = <<e>> /\ Closes(s, e)
                           /\ \A d : TurnOf(s, v, e, d) = Gives(1, "NORMAL", ValueOf(style, w))
    <3>1. CASE style = "double"
      <4>1. s = "DOUBLE_QUOTE" /\ v = w /\ ValueOf(style, w) = w
        BY <1>0, <3>1 DEF StateIn, ValueIn, ValueOf
      <4>2. \A d : TurnOf("DOUBLE_QUOTE", w, "\"", d) = Gives(1, "NORMAL", w)
        BY DEF TurnOf, TurnDouble
      <4>3. Closes("DOUBLE_QUOTE", "\"")
        BY DEF Closes
      <4> QED BY <3>1, <4>1, <4>2, <4>3, OpeningIs, CharSeq, Zenon
    <3>2. CASE style = "single"
      <4>1. s = "SINGLE_QUOTE" /\ v = <<"'">> \o w /\ ValueOf(style, w) = (<<"'">> \o w) \o <<"'">>
        BY <1>0, <3>2, OpeningIs DEF StateIn, ValueIn, ValueOf
      <4>2. Append(v, "'") = ValueOf(style, w)
        BY <1>2, <4>1, AppendIsConcat, CharSeq, Zenon
      <4>3. \A d : TurnOf("SINGLE_QUOTE", v, "'", d) = Gives(1, "NORMAL", Append(v, "'"))
        BY DEF TurnOf, TurnSingle
      <4>4. Closes("SINGLE_QUOTE", "'")
        BY DEF Closes
      <4> QED BY <3>2, <4>1, <4>2, <4>3, <4>4, OpeningIs, CharSeq, Zenon
    <3> QED BY <1>8, <3>1, <3>2 DEF Quoting
  <2>2. c \in EndsQuoted
    BY <1>8 DEF Quoting, EndsQuoted, Marks
  <2>3. Config(<<e>> \o <<c>>, <<Item("NORMAL", ValueOf(style, w))>> \o its, s, v) \in Configs
    BY <1>5, <2>1, Zenon DEF Word
  <2>4. Config(<<e>> \o <<c>>, <<Item("NORMAL", ValueOf(style, w))>> \o its, s, v) \in Leads(T)
    BY <1>1, <1>2, <1>6, <2>1, <2>2, <2>3, GiveBehind
  <2> QED BY <1>3, <2>1, <2>4, Zenon DEF Word
<1> QED BY <1>7, <1>8 DEF Styles, Quoting

\* A mark or a blank between words, whatever comes before it.
LEMMA BetweenWritten ==
  ASSUME NEW af, NEW c \in Marks \cup Blanks, af = "quoted" => c # "}",
         Writable(Nothing, af), NEW its \in Seq(Items),
         Config(<<c>>, its, "INITIAL_WHITESPACE", <<>>) \in Leads({Rest}),
         NEW q \in Goal(Nothing, af)
  PROVE  Longer(q, <<c>>, its) \in Leads({Rest})
<1>1. c \in Chars
  BY CharsAre DEF Marks, Blanks
<1>2. CASE af = "blank"
  <2>1. q = Rest
    BY <1>2 DEF Goal
  <2>2. q.text = <<>> /\ q.items = <<>> /\ q.state = "INITIAL_WHITESPACE" /\ q.value = <<>>
    BY <2>1 DEF Rest, Config
  <2>3. <<>> \o <<c>> = <<c>> /\ <<>> \o its = its
    BY <1>1, OneSeq, ConcatEmptySeq, Zenon
  <2> QED BY <2>2, <2>3, Zenon DEF Longer
<1>3. CASE af = "plain"
  <2>1. PICK w \in Words : Contains(w, "x") /\ q = Behind("plain", w)
    BY <1>3 DEF Goal
  <2>2. "plain" \in Styles \ {"comment"}
    BY DEF Styles
  <2> QED BY <2>1, <2>2, WordIsReturned, Zenon
<1>4. CASE af = "quoted"
  <2>1. PICK style \in Quoting, w \in Words : q = Behind(style, w)
    BY <1>4 DEF Goal
  <2>2. style \in Styles \ {"comment"} /\ style # "plain"
    BY DEF Styles, Quoting
  <2> QED BY <1>4, <2>1, <2>2, WordIsReturned, Zenon
<1> QED BY <1>2, <1>3, <1>4 DEF Writable

LEMMA Begun ==
  ASSUME NEW style \in Styles
  PROVE  /\ <<>> \in Words
         /\ Longer(Rest, OpeningOf[style], <<>>) \in Leads({Inside(style, <<>>)})
<1>1. <<>> \in Words /\ <<>> \in Seq(Chars) /\ <<>> \in Seq(Items)
  BY TokenizerAssumption DEF Words
<1>2. PICK T : T = {Inside(style, <<>>)}
  OBVIOUS
<1>3. /\ Inside(style, <<>>) = Config(<<>>, <<>>, StateIn(style, <<>>), ValueIn(style, <<>>))
      /\ Inside(style, <<>>) \in Leads(T)
  <2>1. Inside(style, <<>>) \in Configs
    BY <1>1, InsideType
  <2>2. Inside(style, <<>>) \in Leads(T)
    BY <1>2, <2>1, LeadsHere
  <2> QED BY <2>2, Zenon DEF Inside, Waits, Within
<1>4. Longer(Rest, OpeningOf[style], <<>>) = Config(OpeningOf[style], <<>>, "INITIAL_WHITESPACE", <<>>)
  <2>1. /\ Rest.text = <<>> /\ Rest.items = <<>>
        /\ Rest.state = "INITIAL_WHITESPACE" /\ Rest.value = <<>>
    BY DEF Rest, Config
  <2>2. <<>> \o OpeningOf[style] = OpeningOf[style] /\ <<>> \o <<>> = <<>>
    BY <1>1, OpeningIs, ConcatEmptySeq
  <2> QED BY <2>1, <2>2, Zenon DEF Longer
<1>5. CASE style = "plain"
  <2>1. ~Contains(<<>>, "x")
    BY DEF Contains
  <2>2. StateIn(style, <<>>) = "INITIAL_WHITESPACE" /\ ValueIn(style, <<>>) = <<>>
    BY <1>5, <2>1 DEF StateIn, ValueIn
  <2> QED BY <1>1, <1>2, <1>3, <1>4, <1>5, <2>2, OpeningIs, Zenon
<1>6. CASE style # "plain"
  <2>1. PICK c \in Chars :
          /\ OpeningOf[style] = <<c>> /\ c # "\\"
          /\ \A d : TurnOf("INITIAL_WHITESPACE", <<>>, c, d) =
                     Reads(1, StateIn(style, <<>>), ValueIn(style, <<>>))
    <3>1. \A c \in Chars : <<c>> \o <<>> = <<c>>
      BY OneSeq, Zenon
    <3>2. CASE style = "double"
      <4>1. StateIn(style, <<>>) = "DOUBLE_QUOTE" /\ ValueIn(style, <<>>) = <<>>
        BY <3>2 DEF StateIn, ValueIn
      <4>2. \A d : TurnInitial(<<>>, "\"", d) = Reads(1, "DOUBLE_QUOTE", <<>>)
        BY DEF TurnInitial, Marks, Blanks
      <4>3. \A d : TurnOf("INITIAL_WHITESPACE", <<>>, "\"", d) = Reads(1, "DOUBLE_QUOTE", <<>>)
        BY <4>2 DEF TurnOf
      <4>4. "\"" # "\\"
        OBVIOUS
      <4> QED BY <3>2, <4>1, <4>3, <4>4, OpeningIs, CharSeq, Zenon
    <3>3. CASE style = "single"
      <4>1. StateIn(style, <<>>) = "SINGLE_QUOTE" /\ ValueIn(style, <<>>) = <<"'">>
        BY <3>1, <3>3, OpeningIs, CharSeq DEF StateIn, ValueIn
      <4>2. \A d : TurnInitial(<<>>, "'", d) = Reads(1, "SINGLE_QUOTE", <<"'">>)
        BY DEF TurnInitial, Marks, Blanks
      <4>3. \A d : TurnOf("INITIAL_WHITESPACE", <<>>, "'", d) = Reads(1, "SINGLE_QUOTE", <<"'">>)
        BY <4>2 DEF TurnOf
      <4>4. "'" # "\\"
        OBVIOUS
      <4> QED BY <3>3, <4>1, <4>3, <4>4, OpeningIs, CharSeq, Zenon
    <3>4. CASE style = "comment"
      <4>1. StateIn(style, <<>>) = "COMMENT" /\ ValueIn(style, <<>>) = <<"#">>
        BY <3>1, <3>4, OpeningIs, CharSeq DEF StateIn, ValueIn
      <4>2. \A d : TurnInitial(<<>>, "#", d) = Reads(1, "COMMENT", <<"#">>)
        BY DEF TurnInitial, Marks, Blanks
      <4>3. \A d : TurnOf("INITIAL_WHITESPACE", <<>>, "#", d) = Reads(1, "COMMENT", <<"#">>)
        BY <4>2 DEF TurnOf
      <4>4. "#" # "\\"
        OBVIOUS
      <4> QED BY <3>4, <4>1, <4>3, <4>4, OpeningIs, CharSeq, Zenon
    <3> QED BY <1>6, <3>2, <3>3, <3>4 DEF Styles
  <2>2. ~LooksAhead("INITIAL_WHITESPACE", c) /\ ~Closes("INITIAL_WHITESPACE", c)
    BY <2>1 DEF LooksAhead, Closes
  <2>3. <<c>> \o <<>> = <<c>> /\ <<c>> \in Seq(Chars)
    BY OneSeq, Zenon
  <2>4. Config(<<c>> \o <<>>, <<>>, "INITIAL_WHITESPACE", <<>>) \in Configs
    BY <1>1, <2>3, InitialType
  <2>5. Config(<<c>> \o <<>>, <<>>, "INITIAL_WHITESPACE", <<>>) \in Leads(T)
    BY <1>1, <1>3, <2>1, <2>2, <2>4, ReadOne
  <2> QED BY <1>1, <1>2, <1>4, <2>1, <2>3, <2>5, Zenon
<1> QED BY <1>5, <1>6

LEMMA CommentEnded ==
  ASSUME NEW w \in Words
  PROVE  /\ Item("COMMENT", <<"#">> \o w) \in Items
         /\ Longer(Inside("comment", w), <<"\n">>, <<Item("COMMENT", <<"#">> \o w)>>) \in Leads({Rest})
<1>1. PICK v, i : v = <<"#">> \o w /\ i = Item("COMMENT", v)
  OBVIOUS
<1>2. "comment" \in Styles /\ "COMMENT" \in Types /\ "\n" \in Chars
  BY CharsAre DEF Styles, Types
<1>3. StateIn("comment", w) = "COMMENT" /\ ValueIn("comment", w) = v
  BY <1>1, OpeningIs DEF StateIn, ValueIn
<1>4. v \in Values /\ v \in Seq(Chars) /\ i \in Items
  <2>1. v \in Values
    BY <1>2, <1>3, WithinType
  <2>2. v \in Seq(Chars)
    BY <2>1 DEF Values
  <2> QED BY <1>1, <1>2, <2>1, <2>2, ItemType
<1>5. /\ <<"\n">> \in Seq(Chars) /\ <<>> \in Seq(Chars) /\ <<>> \in Seq(Items) /\ <<i>> \in Seq(Items)
      /\ <<"\n">> \o <<>> = <<"\n">> /\ <<>> \o <<"\n">> = <<"\n">>
      /\ <<i>> \o <<>> = <<i>> /\ <<>> \o <<i>> = <<i>>
  <2>1. <<>> \in Seq(Items)
    OBVIOUS
  <2> QED BY <1>2, <1>4, <2>1, OneSeq, CharSeq, Zenon
<1>6. Longer(Inside("comment", w), <<"\n">>, <<i>>) = Config(<<"\n">>, <<i>>, "COMMENT", v)
  <2>1. Inside("comment", w) = Config(<<>>, <<>>, "COMMENT", v)
    BY <1>3, Zenon DEF Inside, Waits, Within
  <2>2. /\ Inside("comment", w).text = <<>> /\ Inside("comment", w).items = <<>>
        /\ Inside("comment", w).state = "COMMENT" /\ Inside("comment", w).value = v
    BY <2>1, ConfigIs, Zenon
  <2> QED BY <1>5, <2>2, Zenon DEF Longer
<1>7. Config(<<"\n">> \o <<>>, <<i>> \o <<>>, "COMMENT", v) \in Configs
  BY <1>4, <1>5, ConfigType DEF States
<1>8. \A d : TurnOf("COMMENT", v, "\n", d) = Gives(1, "COMMENT", v)
  BY DEF TurnOf, TurnComment
<1>9. ~LooksAhead("COMMENT", "\n") /\ ~Closes("COMMENT", "\n")
  BY DEF LooksAhead, Closes
<1>10. Config(<<>>, <<>>, "INITIAL_WHITESPACE", <<>>) \in Leads({Rest})
  BY RestIsReached DEF Rest
<1>11. Config(<<"\n">> \o <<>>, <<i>> \o <<>>, "COMMENT", v) \in Leads({Rest})
  BY <1>1, <1>2, <1>4, <1>5, <1>7, <1>8, <1>9, <1>10, GiveBehind
<1> QED BY <1>1, <1>4, <1>5, <1>6, <1>11, Zenon

-----------------------------------------------------------------------------
(* How short the text can be.                                              *)

LEMMA TurnThatKeeps ==
  ASSUME NEW s \in States, NEW c \in Chars, ~LooksAhead(s, c), NEW v, NEW d
  PROVE  TurnOf(s, v, c, d).read = 1 \/ TurnOf(s, v, c, d).state = "INITIAL_WHITESPACE"
<1>1. \A to, u : Reads(1, to, u).read = 1
  BY DEF Reads
<1>2. \A n, type, u : Gives(n, type, u).state = "INITIAL_WHITESPACE"
  BY DEF Gives
<1>3. CASE s = "INITIAL_WHITESPACE"
  <2>1. TurnInitial(v, c, d).read = 1
    BY <1>3, CharsAre DEF LooksAhead, TurnInitial, Marks, Blanks, Gives, Reads
  <2> QED BY <1>3, <2>1 DEF TurnOf
<1>4. CASE s = "NORMAL"
  <2>1. TurnNormal(v, c, d) \in {Gives(0, "NORMAL", v), Reads(1, "NORMAL", Append(v, c))}
    BY <1>4 DEF LooksAhead, TurnNormal
  <2> QED BY <1>1, <1>2, <1>4, <2>1 DEF TurnOf
<1>5. CASE s = "SINGLE_QUOTE"
  <2>1. TurnSingle(v, c, d) = Reads(1, "SINGLE_QUOTE", Append(v, c))
    BY <1>5 DEF LooksAhead, Closes, TurnSingle
  <2> QED BY <1>1, <1>5, <2>1 DEF TurnOf
<1>6. CASE s = "DOUBLE_QUOTE"
  <2>1. TurnDouble(v, c, d) = Reads(1, "DOUBLE_QUOTE", Append(v, c))
    BY <1>6 DEF LooksAhead, Closes, TurnDouble
  <2> QED BY <1>1, <1>6, <2>1 DEF TurnOf
<1>7. CASE s = "COMMENT"
  <2>1. TurnComment(v, c) \in {Gives(1, "COMMENT", v), Reads(1, "COMMENT", Append(v, c))}
    BY DEF TurnComment
  <2> QED BY <1>1, <1>2, <1>7, <2>1 DEF TurnOf
<1> QED BY <1>3, <1>4, <1>5, <1>6, <1>7 DEF States

\* A short text does not become longer.
LEMMA ShortStays ==
  ASSUME NEW q \in Configs, Len(q.text) < 2, CanTurn(q)
  PROVE  /\ Len(Turned(q).text) < 2
         /\ Turned(q).text = <<>> \/ Turned(q).state = "INITIAL_WHITESPACE"
<1>1. Len(Turned(q).text) < 2
  <2>1. PICK t \in Seq(Chars), its \in {<<>>} : t = <<>> /\ its = <<>>
    BY CharSeq
  <2>2. PICK r : r = Config(q.text \o t, its, q.state, q.value)
    OBVIOUS
  <2> QED BY <2>2, ShortTurn
<1>2. q.text # <<>> /\ q.text \in Seq(Chars) /\ q.state \in States
  BY DEF CanTurn, Configs
<1>3. PICK a \in Chars : q.text = <<a>>
  BY <1>2, EmptyOrOne
<1>4. q.text[1] = a /\ ~(Len(q.text) >= 2)
  BY <1>3
<1>5. ~LooksAhead(q.state, a)
  BY <1>4, Zenon DEF CanTurn
<1>6. NextTurn(q).read = 1 \/ NextTurn(q).state = "INITIAL_WHITESPACE"
  <2>1. \A d : \/ TurnOf(q.state, q.value, a, d).read = 1
               \/ TurnOf(q.state, q.value, a, d).state = "INITIAL_WHITESPACE"
    BY <1>2, <1>5, TurnThatKeeps
  <2> QED BY <1>4, <2>1, Zenon DEF NextTurn
<1>7. Turned(q).text = SubSeq(q.text, NextTurn(q).read + 1, Len(q.text)) /\ Turned(q).state = NextTurn(q).state
  BY DEF Turned, Config
<1>8. CASE NextTurn(q).read = 1
  <2>1. NextTurn(q).read + 1 = 2
    BY <1>8
  <2>2. Turned(q).text = <<>>
    BY <1>3, <1>7, <2>1, OneSeq, Zenon
  <2> QED BY <1>1, <2>2
<1> QED BY <1>1, <1>6, <1>7, <1>8

LEMMA DoomIsLong ==
  ASSUME NEW q \in Leads(Doom)
  PROVE  Len(q.text) >= 2
<1> DEFINE S == {r \in Configs : Len(r.text) >= 2}
<1>1. ASSUME NEW r \in Doom PROVE Len(r.text) >= 2
  <2>1. PICK style \in Quoting, w \in Words, c \in Chars \ EndsQuoted : r = Doomed(style, w, c)
    BY <1>1 DEF Doom
  <2>2. r.text = OpeningOf[style] \o <<c>>
    BY <2>1 DEF Doomed, Config
  <2>3. PICK e \in Chars : OpeningOf[style] = <<e>>
    BY OpeningIs, CharSeq DEF Quoting
  <2>4. Len(<<e>> \o <<c>>) = 2
    OBVIOUS
  <2> QED BY <2>2, <2>3, <2>4
<1>2. Doom \subseteq S
  BY <1>1 DEF Doom
<1>3. Backwards(S)
  <2> SUFFICES ASSUME NEW r \in Configs, CanTurn(r), IsRight(r), Turned(r) \in S
               PROVE  Len(r.text) >= 2
    BY Zenon DEF Backwards
  <2>1. r.text \in Seq(Chars) /\ Len(r.text) \in Nat /\ Turned(r).text \in Seq(Chars)
    BY LenProperties DEF Configs
  <2>2. Len(Turned(r).text) \in Nat /\ ~(Len(Turned(r).text) < 2)
    BY <2>1, LenProperties
  <2>3. ~(Len(r.text) < 2)
    BY <2>2, ShortStays
  <2> QED BY <2>1, <2>3
<1>4. S \in SUBSET Configs
  OBVIOUS
<1> HIDE DEF S
<1>5. q \in S
  BY <1>2, <1>3, <1>4, Zenon DEF Leads
<1> QED BY <1>5 DEF S

\* With nothing behind it, the quote that ends a word is still to be read.
LEMMA QuoteIsLast ==
  ASSUME NEW q \in Leads(Goal(Nothing, "quoted")), Len(q.text) < 2
  PROVE  q \in Goal(Nothing, "quoted")
<1> DEFINE T == Goal(Nothing, "quoted")
           S == {r \in Configs : r.text # <<>> /\ (Len(r.text) < 2 => r \in T)}
<1>1. ASSUME NEW r \in T PROVE r \in Configs /\ r.text # <<>> /\ r.state # "INITIAL_WHITESPACE"
  <2>1. PICK style \in Quoting, w \in Words : r \in Configs /\ r = Behind(style, w)
    BY <1>1 DEF Goal
  <2>2. r = Config(OpeningOf[style], <<Word(style, w)>>, StateIn(style, w), ValueIn(style, w))
    BY <2>1, BehindType DEF Quoting, Styles
  <2>3. r.text = OpeningOf[style] /\ r.state = StateIn(style, w)
    BY <2>2 DEF Config
  <2>4. <<"\"">> # <<>> /\ <<"'">> # <<>>
    OBVIOUS
  <2>5. OpeningOf[style] # <<>>
    BY <2>4, OpeningIs, Zenon DEF Quoting
  <2>6. StateIn(style, w) # "INITIAL_WHITESPACE"
    BY DEF Quoting, StateIn
  <2> QED BY <2>1, <2>3, <2>5, <2>6, Zenon
<1> HIDE DEF T
<1>2. T \subseteq S /\ S \in SUBSET Configs
  BY <1>1
<1>3. Backwards(S)
  <2> SUFFICES ASSUME NEW r \in Configs, CanTurn(r), IsRight(r), Turned(r) \in S
               PROVE  r.text # <<>> /\ ~(Len(r.text) < 2)
    BY Zenon DEF Backwards
  <2>1. r.text # <<>>
    BY DEF CanTurn
  <2>2. ASSUME Len(r.text) < 2 PROVE FALSE
    <3>1. Turned(r).text = <<>> \/ Turned(r).state = "INITIAL_WHITESPACE"
      BY <2>2, ShortStays
    <3>2. Len(Turned(r).text) < 2
      BY <2>2, ShortStays
    <3> QED BY <1>1, <3>1, <3>2
  <2> QED BY <2>1, <2>2
<1> HIDE DEF S
<1>4. q \in S
  BY <1>2, <1>3, Zenon DEF Leads, T
<1> QED BY <1>4 DEF S, T

\* What is left where the parser has done all it can.
LEMMA GoalIs ==
  ASSUME NEW wr, NEW af, Writable(wr, af), NEW q \in Goal(wr, af)
  PROVE  /\ Len(q.text) < 2
         /\ q.text # <<>> => LooksAhead(q.state, q.text[1])
         /\ Len(q.items) = IF af = "blank" THEN 0 ELSE 1
         /\ q.state \in {"SINGLE_QUOTE", "DOUBLE_QUOTE"} <=> wr.style \in Quoting \/ af = "quoted"
<1>1. CASE wr # Nothing
  <2>1. PICK style \in Styles, w \in Words : style = wr.style /\ w = wr.chars
    BY <1>1 DEF Writable
  <2>2. q = Inside(style, w) /\ af = "blank"
    BY <1>1, <2>1 DEF Goal, Writable
  <2>3. \A u : StateIn(style, u) \in {"SINGLE_QUOTE", "DOUBLE_QUOTE"} <=> style \in Quoting
    BY DEF StateIn, Styles, Quoting
  <2>4. CASE Waits(style, w)
    <3>1. q = Config(<<"\\">>, <<>>, StateIn(style, Front(w)), ValueIn(style, Front(w)))
      BY <2>2, <2>4, Zenon DEF Inside, Within
    <3>2. q.text = <<"\\">> /\ q.items = <<>> /\ q.state = StateIn(style, Front(w))
      BY <3>1 DEF Config
    <3>3. Len(<<"\\">>) < 2 /\ <<"\\">>[1] = "\\"
      OBVIOUS
    <3>4. StateIn(style, Front(w)) # "COMMENT"
      BY <2>4 DEF Waits, StateIn, Styles
    <3>5. LooksAhead(q.state, q.text[1])
      BY <3>2, <3>3, <3>4 DEF LooksAhead
    <3>6. Len(q.text) < 2 /\ Len(q.items) = 0
      BY <3>2, <3>3
    <3>7. af = "blank"
      BY <2>2
    <3> QED BY <2>1, <2>3, <3>2, <3>5, <3>6, <3>7
  <2>5. CASE ~Waits(style, w)
    <3>1. q = Config(<<>>, <<>>, StateIn(style, w), ValueIn(style, w))
      BY <2>2, <2>5, Zenon DEF Inside, Within
    <3>2. q.text = <<>> /\ q.items = <<>> /\ q.state = StateIn(style, w)
      BY <3>1 DEF Config
    <3>3. Len(q.text) < 2 /\ Len(q.items) = 0
      BY <3>2
    <3>4. af = "blank"
      BY <2>2
    <3> QED BY <2>1, <2>3, <3>2, <3>3, <3>4
  <2> QED BY <2>4, <2>5
<1>2. wr = Nothing => wr.style \notin Quoting
  BY DEF Nothing, Quoting
<1>3. CASE wr = Nothing /\ af = "blank"
  <2>1. q = Rest
    BY <1>3 DEF Goal
  <2>2. q.text = <<>> /\ q.items = <<>> /\ q.state = "INITIAL_WHITESPACE"
    BY <2>1 DEF Rest, Config
  <2>3. Len(q.text) < 2 /\ Len(q.items) = 0
    BY <2>2
  <2> QED BY <1>2, <1>3, <2>2, <2>3
<1>4. CASE wr = Nothing /\ af \in {"plain", "quoted"}
  <2>1. PICK style \in Styles, w \in Words :
          q = Behind(style, w) /\ IF af = "plain" THEN style = "plain" ELSE style \in Quoting
    BY <1>4 DEF Goal, Styles, Quoting
  <2>2. q = Config(OpeningOf[style], <<Word(style, w)>>, StateIn(style, w), ValueIn(style, w))
    BY <2>1, BehindType
  <2>3. q.text = OpeningOf[style] /\ q.items = <<Word(style, w)>> /\ q.state = StateIn(style, w)
    BY <2>2 DEF Config
  <2>4. Len(q.items) = 1
    BY <2>3
  <2>5. CASE af = "plain"
    <3>1. q.text = <<>> /\ q.state \notin {"SINGLE_QUOTE", "DOUBLE_QUOTE"}
      BY <2>1, <2>3, <2>5, OpeningIs DEF StateIn
    <3>2. Len(q.text) < 2
      BY <3>1
    <3> QED BY <1>2, <1>4, <2>4, <2>5, <3>1, <3>2
  <2>6. CASE af = "quoted"
    <3>1. style \in Quoting
      BY <2>1, <2>6
    <3>2. q.state \in {"SINGLE_QUOTE", "DOUBLE_QUOTE"}
      BY <2>3, <3>1 DEF StateIn, Quoting
    <3>3. PICK e \in Chars : q.text = <<e>> /\ Closes(q.state, e)
      BY <2>3, <3>1, OpeningIs, CharSeq DEF Quoting, StateIn, Closes
    <3>4. Len(q.text) < 2 /\ q.text[1] = e
      BY <3>3
    <3>5. LooksAhead(q.state, q.text[1])
      BY <3>3, <3>4 DEF LooksAhead
    <3> QED BY <2>4, <2>6, <3>2, <3>4, <3>5
  <2> QED BY <1>4, <2>5, <2>6
<1> QED BY <1>1, <1>3, <1>4 DEF Writable

-----------------------------------------------------------------------------
(* The invariant holds at first, and with each step of the parser.         *)

LEMMA InitInv ==
  ASSUME Init
  PROVE  IInv
<1>1. agree = TRUE /\ closed \in BOOLEAN /\ Writable(writing, after)
  BY DEF Init, Writable
<1>2. Len(text) <= 3
  <2>1. Len(<<>>) <= 3
    OBVIOUS
  <2> QED BY <2>1 DEF Init
<1>3. Current = Rest /\ Goal(writing, after) = {Rest}
  BY DEF Init, Current, Rest, Goal
<1> QED BY <1>1, <1>2, <1>3, RestIsReached, Zenon DEF IInv

\* The parser comes to where only the end of the file can follow.
LEMMA EndIs ==
  ASSUME ParseToken, Current \in Configs, Len(text) < 2,
         text # <<>> => LooksAhead(state, text[1])
  PROVE  EndOfInput /\ UNCHANGED writerVars /\ closed
<1>1. CASE text = <<>>
  <2>1. EndOfFile
    BY <1>1 DEF ParseToken, InitialWhitespace, SingleQuote, DoubleQuote, Comment, Normal, Escape, Turn
  <2> QED BY <2>1 DEF EndOfFile
<1>2. CASE text # <<>>
  <2>1. /\ text[1] = Head(text) /\ LooksAhead(state, Head(text)) /\ state \in States
        /\ ~(Len(text) >= 2)
    <3>1. text \in Seq(Chars) /\ state \in States
      BY CurrentIs DEF Configs
    <3>2. Len(text) \in Nat /\ text[1] = Head(text)
      BY <1>2, <3>1
    <3> QED BY <1>2, <3>1, <3>2
  <2>2. \A s, c : Turn(s, c) => c = Head(text) /\ s = state /\ closed /\ UNCHANGED writerVars
    BY <2>1 DEF Turn
  <2>3. \A s, escapable : Escape(s, escapable) => EndOfInput /\ UNCHANGED writerVars /\ closed
    BY <2>2 DEF Escape
  <2>4. \A chars : CloseQuote(chars) => EndOfInput
    BY DEF CloseQuote
  <2>5. CASE InitialWhitespace
    <3>1. CASE Escape("INITIAL_WHITESPACE", Special)
      BY <2>3, <3>1
    <3>2. CASE \E c \in Chars \ {"\\"} : Turn("INITIAL_WHITESPACE", c)
      BY <2>1, <2>2, <3>2 DEF LooksAhead, Closes
    <3> QED BY <2>5, <3>1, <3>2 DEF InitialWhitespace, Chars, Marks, Blanks, Quotes
  <2>6. CASE Normal
    <3>1. CASE Escape("NORMAL", Special)
      BY <2>3, <3>1
    <3>2. CASE \E c \in Chars \ {"\\"} : Turn("NORMAL", c)
      BY <2>1, <2>2, <3>2 DEF LooksAhead, Closes
    <3> QED BY <2>6, <3>1, <3>2 DEF Normal, Chars, Marks, Blanks, Quotes
  <2>7. CASE SingleQuote
    <3>1. CASE Escape("SINGLE_QUOTE", {"'"})
      BY <2>3, <3>1
    <3>2. CASE Turn("SINGLE_QUOTE", "'") /\ CloseQuote(Append(value, "'"))
      BY <2>2, <2>4, <3>2
    <3>3. CASE \E c \in Chars \ {"'", "\\"} : Turn("SINGLE_QUOTE", c)
      BY <2>1, <2>2, <3>3 DEF LooksAhead, Closes
    <3> QED BY <2>7, <3>1, <3>2, <3>3 DEF SingleQuote
  <2>8. CASE DoubleQuote
    <3>1. CASE Escape("DOUBLE_QUOTE", {"\""})
      BY <2>3, <3>1
    <3>2. CASE Turn("DOUBLE_QUOTE", "\"") /\ CloseQuote(value)
      BY <2>2, <2>4, <3>2
    <3>3. CASE \E c \in Chars \ {"\"", "\\"} : Turn("DOUBLE_QUOTE", c)
      BY <2>1, <2>2, <3>3 DEF LooksAhead, Closes
    <3> QED BY <2>8, <3>1, <3>2, <3>3 DEF DoubleQuote
  <2>9. ~Comment
    <3>1. Comment => state = "COMMENT"
      BY <2>2 DEF Comment
    <3> QED BY <2>1, <3>1 DEF LooksAhead, Closes
  <2>10. ~EndOfFile
    BY <1>2 DEF EndOfFile
  <2> QED BY <2>5, <2>6, <2>7, <2>8, <2>9, <2>10 DEF ParseToken
<1> QED BY <1>1, <1>2

\* What is stuck to a quoted word makes it an error.
LEMMA StuckIsSeen ==
  ASSUME ParseToken, Current \in Doom
  PROVE  /\ Drop(2) /\ Len(text) = 2 /\ text \in Seq(Chars)
         /\ state' = "ERROR" /\ value' = <<>> /\ items' = <<Item("ERROR", <<>>)>>
         /\ agree' = agree /\ UNCHANGED writerVars
<1>1. PICK style \in Quoting, w \in Words, c \in Chars \ EndsQuoted : Current = Doomed(style, w, c)
  BY DEF Doom
<1>2. /\ text = OpeningOf[style] \o <<c>> /\ items = <<Item("ERROR", <<>>)>>
      /\ state = StateIn(style, w)
  BY <1>1 DEF Current, Doomed, Config
<1>3. PICK e \in Chars : OpeningOf[style] = <<e>> /\ Closes(state, e)
  BY <1>2, OpeningIs, CharSeq DEF Quoting, StateIn, Closes
<1>4. text \in Seq(Chars) /\ Len(text) = 2 /\ Head(text) = e /\ text[2] = c /\ text # <<>>
  <2>1. /\ <<e>> \o <<c>> \in Seq(Chars) /\ Len(<<e>> \o <<c>>) = 2 /\ Head(<<e>> \o <<c>>) = e
        /\ (<<e>> \o <<c>>)[2] = c /\ <<e>> \o <<c>> # <<>>
    OBVIOUS
  <2> QED BY <1>2, <1>3, <2>1, Zenon
<1>5. ~(Len(text) < 2) /\ text[2] \notin Blanks \cup {";", "{"}
  <2>1. ~(Len(text) < 2)
    BY <1>4
  <2> QED BY <1>4, <2>1, Zenon DEF EndsQuoted
<1>6. \A chars : CloseQuote(chars) => Stop(2, "ERROR")
  BY <1>5, Zenon DEF CloseQuote
<1>7. Stop(2, "ERROR") /\ UNCHANGED writerVars
  <2>1. CASE state = "SINGLE_QUOTE" /\ Head(text) = "'"
    <3>1. SingleQuote
      BY <1>4, <2>1 DEF ParseToken, InitialWhitespace, DoubleQuote, Comment, Normal, Escape, Turn, EndOfFile
    <3>2. UNCHANGED writerVars /\ CloseQuote(Append(value, "'"))
      BY <2>1, <3>1 DEF SingleQuote, Escape, Turn
    <3> QED BY <1>6, <3>2
  <2>2. CASE state = "DOUBLE_QUOTE" /\ Head(text) = "\""
    <3>1. DoubleQuote
      BY <1>4, <2>2 DEF ParseToken, InitialWhitespace, SingleQuote, Comment, Normal, Escape, Turn, EndOfFile
    <3>2. UNCHANGED writerVars /\ CloseQuote(value)
      BY <2>2, <3>1 DEF DoubleQuote, Escape, Turn
    <3> QED BY <1>6, <3>2
  <2> QED BY <1>3, <1>4, <2>1, <2>2 DEF Closes
<1> QED BY <1>2, <1>4, <1>7 DEF Stop
LEMMA Drops ==
  ASSUME ParseToken, text \in Seq(Chars)
  PROVE  \E n \in Nat : Drop(n)
<1>1. Len(text) \in Nat /\ 0 \in Nat /\ 1 \in Nat /\ 2 \in Nat
  OBVIOUS
<1>2. /\ \A n, s, chars : Continue(n, s, chars) => Drop(n)
      /\ \A n, type, chars : Return(n, type, chars) => Drop(n)
      /\ \A n, type : Stop(n, type) => Drop(n)
  BY DEF Continue, Return, Stop
<1>3. EndOfInput => \E n \in Nat : Drop(n)
  BY <1>1, <1>2, Zenon DEF EndOfInput
<1>4. \A s, escapable : Escape(s, escapable) => \E n \in Nat : Drop(n)
  BY <1>1, <1>2, <1>3, Zenon DEF Escape
<1>5. \A chars : CloseQuote(chars) => \E n \in Nat : Drop(n)
  BY <1>1, <1>2, <1>3, Zenon DEF CloseQuote
<1>6. InitialWhitespace => \E n \in Nat : Drop(n)
  BY <1>1, <1>2, <1>4, Zenon DEF InitialWhitespace
<1>7. Normal => \E n \in Nat : Drop(n)
  BY <1>1, <1>2, <1>4, Zenon DEF Normal
<1>8. SingleQuote \/ DoubleQuote => \E n \in Nat : Drop(n)
  BY <1>1, <1>2, <1>4, <1>5, Zenon DEF SingleQuote, DoubleQuote
<1>9. Comment => \E n \in Nat : Drop(n)
  BY <1>1, <1>2, Zenon DEF Comment
<1>10. EndOfFile => \E n \in Nat : Drop(n)
  BY <1>3, Zenon DEF EndOfFile
<1> QED BY <1>6, <1>7, <1>8, <1>9, <1>10, Zenon DEF ParseToken

LEMMA TextShrinks ==
  ASSUME ParseToken, text \in Seq(Chars), Len(text) <= 3
  PROVE  Len(text') <= 3
<1>1. PICK n \in Nat : text' = SubSeq(text, n + 1, Len(text))
  BY Drops, Zenon DEF Drop
<1>2. PICK m \in Nat : m = Len(text) /\ \A k \in 1 .. m : text[k] \in Chars
  BY ElementOfSeq, LenProperties
<1>3. \A k \in n + 1 .. m : text[k] \in Chars
  BY <1>2
<1>4. n + 1 \in Int /\ m \in Int
  BY <1>2
<1>5. Len(SubSeq(text, n + 1, m)) = IF n + 1 <= m THEN m - (n + 1) + 1 ELSE 0
  BY <1>3, <1>4, SubSeqProperties
<1>6. m <= 3
  BY <1>2
<1>7. Len(SubSeq(text, n + 1, m)) <= 3
  BY <1>4, <1>5, <1>6
<1> QED BY <1>1, <1>2, <1>7

LEMMA ParserInv ==
  ASSUME IInv, ParseToken
  PROVE  IInv'
<1>1. /\ agree = TRUE /\ Len(text) <= 3 /\ closed \in BOOLEAN /\ Writable(writing, after)
      /\ \/ Current \in Leads(Goal(writing, after))
         \/ ~closed /\ writing = Nothing /\ Current \in Leads(Doom)
         \/ Ended
  BY Zenon DEF IInv
<1>2. \A T : Current \in Leads(T) => Current \in Configs /\ text \in Seq(Chars)
  BY CurrentIs DEF Leads, Configs
<1>3. CASE Current \in Leads(Goal(writing, after))
  <2>1. PICK T \in SUBSET Configs : T = Goal(writing, after)
    BY <1>1, GoalType
  <2>2. Current \in Configs /\ text \in Seq(Chars) /\ Current \in Leads(T)
    BY <1>2, <1>3, <2>1
  <2>3. Len(text') <= 3
    BY <1>1, <2>2, TextShrinks
  <2>4. CASE Current \in T
    <3>1. /\ Len(text) < 2
          /\ text # <<>> => LooksAhead(state, text[1])
          /\ Len(items) = IF after = "blank" THEN 0 ELSE 1
          /\ state \in {"SINGLE_QUOTE", "DOUBLE_QUOTE"} <=>
               writing.style \in Quoting \/ after = "quoted"
      <4>1. PICK q \in Goal(writing, after) : q = Current
        BY <2>1, <2>4
      <4>2. /\ Len(q.text) < 2
            /\ q.text # <<>> => LooksAhead(q.state, q.text[1])
            /\ Len(q.items) = IF after = "blank" THEN 0 ELSE 1
            /\ q.state \in {"SINGLE_QUOTE", "DOUBLE_QUOTE"} <=>
                 writing.style \in Quoting \/ after = "quoted"
        BY <1>1, GoalIs
      <4>3. q.text = text /\ q.items = items /\ q.state = state
        BY <4>1, CurrentIs
      <4> QED BY <4>2, <4>3
    <3>2. EndOfInput /\ UNCHANGED writerVars /\ closed
      BY <2>2, <3>1, EndIs
    <3>3. text' = <<>>
      <4>1. PICK n \in Nat : n = Len(text)
        BY <2>2, LenProperties
      <4>2. SubSeq(text, n + 1, n) = <<>>
        BY <2>2, <4>1, PartsOfSeq
      <4> QED BY <3>2, <4>1, <4>2 DEF EndOfInput, Stop, Drop
    <3>4. /\ value' = <<>> /\ items' = items /\ agree' = agree
          /\ state' = IF state \in {"SINGLE_QUOTE", "DOUBLE_QUOTE"} THEN "ERROR" ELSE "EOF"
      BY <3>2 DEF EndOfInput, Stop
    <3>5. closed' = closed /\ writing' = writing /\ after' = after
      BY <3>2 DEF writerVars
    <3>6. EndsRight'
      <4>1. after \in {"blank", "plain", "quoted"}
        BY <1>1 DEF Writable
      <4>2. InQuotes <=> state \in {"SINGLE_QUOTE", "DOUBLE_QUOTE"}
        BY <3>1 DEF InQuotes, Quoting
      <4>3. writing.style \in Quoting => after = "blank"
        BY <1>1 DEF Writable, Nothing, Quoting
      <4>4. closed' /\ (InQuotes' <=> InQuotes)
        BY <3>2, <3>5 DEF InQuotes
      <4>5. /\ Len(items) = IF after = "plain" \/ after = "quoted" THEN 1 ELSE 0
            /\ after = "plain" => ~InQuotes
        BY <3>1, <4>1, <4>3 DEF InQuotes, Quoting
      <4> QED BY <3>4, <3>5, <4>2, <4>4, <4>5 DEF EndsRight, InQuotes, Quoting
    <3>7. Ended'
      BY <3>2, <3>3, <3>4, <3>5, <3>6 DEF Ended
    <3> QED BY <1>1, <2>3, <3>4, <3>5, <3>7, Zenon DEF IInv
  <2>5. CASE CanTurn(Current) /\ IsRight(Current) /\ Turned(Current) \in Leads(T)
    <3>1. Current' = Turned(Current) /\ agree' = TRUE /\ UNCHANGED writerVars
      BY <1>1, <2>2, <2>5, TurnIs
    <3>2. closed' = closed /\ writing' = writing /\ after' = after
      BY <3>1 DEF writerVars
    <3> QED BY <1>1, <2>1, <2>3, <2>5, <3>1, <3>2, Zenon DEF IInv
  <2> QED BY <2>2, <2>4, <2>5, LeadsOn, Zenon
<1>4. CASE ~closed /\ writing = Nothing /\ Current \in Leads(Doom)
  <2>1. Doom \in SUBSET Configs
    BY DEF Doom
  <2>2. Current \in Configs /\ text \in Seq(Chars)
    BY <1>2, <1>4
  <2>3. Len(text') <= 3
    BY <1>1, <2>2, TextShrinks
  <2>4. CASE Current \in Doom
    <3>1. /\ Drop(2) /\ Len(text) = 2 /\ state' = "ERROR" /\ value' = <<>>
          /\ items' = <<Item("ERROR", <<>>)>> /\ agree' = agree /\ UNCHANGED writerVars
      BY <2>4, StuckIsSeen
    <3>2. text' = <<>>
      <4>1. PICK n \in Nat : n = Len(text) /\ n = 2
        BY <3>1
      <4>2. SubSeq(text, n + 1, n) = <<>>
        BY <2>2, <4>1, PartsOfSeq
      <4> QED BY <3>1, <4>1, <4>2 DEF Drop
    <3>3. closed' = closed /\ writing' = writing /\ after' = after
      BY <3>1 DEF writerVars
    <3>4. items' # <<>> /\ Head(items').type = "ERROR"
      BY <3>1 DEF Item
    <3>5. Ended'
      BY <3>1, <3>2, <3>4 DEF Ended, EndsRight
    <3> QED BY <1>1, <2>3, <3>1, <3>3, <3>5, Zenon DEF IInv
  <2>5. CASE CanTurn(Current) /\ IsRight(Current) /\ Turned(Current) \in Leads(Doom)
    <3>1. Current' = Turned(Current) /\ agree' = TRUE /\ UNCHANGED writerVars
      BY <1>1, <2>2, <2>5, TurnIs
    <3>2. closed' = closed /\ writing' = writing /\ after' = after
      BY <3>1 DEF writerVars
    <3> QED BY <1>1, <1>4, <2>3, <2>5, <3>1, <3>2, Zenon DEF IInv
  <2> QED BY <1>4, <2>1, <2>4, <2>5, LeadsOn, Zenon
<1>5. ~Ended
  BY DEF Ended, ParseToken, InitialWhitespace, SingleQuote, DoubleQuote, Comment, Normal,
         Escape, Turn, EndOfFile
<1> QED BY <1>1, <1>3, <1>4, <1>5
-----------------------------------------------------------------------------
(* And with each step of the writer.                                       *)

\* When something is written, or the file is closed, the turns lead to the goal.
LEMMA BeforeWriting ==
  ASSUME IInv, ~closed, Len(text) < 2, state # "ERROR"
  PROVE  Current \in Leads(Goal(writing, after)) /\ Current \in Configs /\ Goal(writing, after) \in SUBSET Configs
<1>1. Writable(writing, after)
  BY Zenon DEF IInv
<1>2. Current \notin Leads(Doom)
  <2>1. ASSUME Current \in Leads(Doom) PROVE FALSE
    <3>1. Len(text) >= 2 /\ text \in Seq(Chars)
      BY <2>1, DoomIsLong, CurrentIs DEF Leads, Configs
    <3>2. Len(text) \in Nat
      BY <3>1, LenProperties
    <3> QED BY <3>1, <3>2
  <2> QED BY <2>1
<1>3. ~Ended
  BY DEF Ended, EndsRight
<1>4. Current \in Leads(Goal(writing, after))
  BY <1>2, <1>3, Zenon DEF IInv
<1>5. Current \in Configs
  BY <1>4 DEF Leads
<1> QED BY <1>1, <1>4, <1>5, GoalType

LEMMA WrittenIs ==
  ASSUME IInv, NEW chars \in Seq(Chars), Len(chars) <= 2, Write(chars),
         NEW its \in Seq(Items), items' = items \o its, Writable(writing', after'),
         \A q \in Goal(writing, after) : Longer(q, chars, its) \in Leads(Goal(writing', after'))
  PROVE  IInv'
<1>1. /\ ~closed /\ Len(text) < 2 /\ state # "ERROR" /\ text' = text \o chars
      /\ closed' = closed /\ state' = state /\ value' = value /\ agree' = agree
  BY DEF Write
<1>2. PICK T \in SUBSET Configs, U \in SUBSET Configs :
        T = Goal(writing, after) /\ U = Goal(writing', after')
  BY <1>1, BeforeWriting, GoalType
<1>3. Current \in Leads(T) /\ Current \in Configs
  BY <1>1, <1>2, BeforeWriting
<1>4. Longer(Current, chars, its) \in Leads(U)
  <2>1. Len(Current.text) < 2
    BY <1>1, CurrentIs
  <2> QED BY <1>2, <1>3, <2>1, WritingLater
<1>5. Current' = Longer(Current, chars, its)
  <2>1. Current' = Config(text', items', state', value')
    BY DEF Current
  <2> QED BY <1>1, <2>1, CurrentIs, Zenon DEF Longer
<1>6. Len(text') <= 3
  <2>1. text \in Seq(Chars)
    BY <1>3, CurrentIs DEF Configs
  <2>2. Len(text') = Len(text) + Len(chars) /\ Len(text) \in Nat /\ Len(chars) \in Nat
    BY <1>1, <2>1, ConcatProperties, LenProperties
  <2> QED BY <1>1, <2>2
<1>7. agree = TRUE /\ closed \in BOOLEAN
  BY Zenon DEF IInv
<1> QED BY <1>1, <1>2, <1>4, <1>5, <1>6, <1>7, Zenon DEF IInv

\* One thing is written, and only it.
LEMMA OneIsShort ==
  ASSUME NEW c \in Chars
  PROVE  <<c>> \in Seq(Chars) /\ Len(<<c>>) <= 2
  OBVIOUS

LEMMA MarkInv ==
  ASSUME IInv, NEW m \in Marks, WriteMark(m)
  PROVE  IInv'
<1>1. /\ writing = Nothing /\ (after = "quoted" => m # "}") /\ Write(<<m>>)
      /\ writing' = Nothing /\ after' = "blank" /\ items' = Append(items, Item(MarkType[m], <<m>>))
      /\ Writable(writing, after)
  BY Zenon DEF WriteMark, Between, IInv
<1>2. PICK i \in Items : i = Item(MarkType[m], <<m>>)
  BY MarkIsRead
<1>3. Config(<<m>>, <<i>>, "INITIAL_WHITESPACE", <<>>) \in Leads({Rest}) /\ <<i>> \in Seq(Items)
  BY <1>2, MarkIsRead, OneSeq, Zenon
<1>4. Writable(writing', after') /\ Goal(writing', after') = {Rest}
  BY <1>1 DEF Writable, Goal
<1>5. \A q \in Goal(writing, after) : Longer(q, <<m>>, <<i>>) \in Leads({Rest})
  <2>1. m \in Marks \cup Blanks
    OBVIOUS
  <2> QED BY <1>1, <1>3, <2>1, BetweenWritten, Zenon
<1>6. <<m>> \in Seq(Chars) /\ Len(<<m>>) <= 2
  <2>1. m \in Chars
    BY DEF Chars
  <2> QED BY <2>1, OneIsShort, Zenon
<1>7. items' = items \o <<i>>
  <2>1. items \in Seq(Items)
    BY <1>1, BeforeWriting, CurrentIs DEF Write, Configs
  <2> QED BY <1>1, <1>2, <2>1, AppendIsConcat
<1> QED BY <1>1, <1>3, <1>4, <1>5, <1>6, <1>7, WrittenIs, Zenon

\* Nothing else than characters is written.
LEMMA NoItems ==
  ASSUME IInv, NEW chars, Write(chars), items' = items
  PROVE  items' = items \o <<>> /\ <<>> \in Seq(Items)
<1>1. items \in Seq(Items)
  BY BeforeWriting, CurrentIs DEF Write, Configs
<1> QED BY <1>1, ConcatEmptySeq, EmptySeq

LEMMA BlankInv ==
  ASSUME IInv, NEW b \in Blanks, WriteBlank(b)
  PROVE  IInv'
<1>1. /\ writing = Nothing /\ Write(<<b>>) /\ writing' = Nothing /\ after' = "blank" /\ items' = items
      /\ Writable(writing, after)
  BY Zenon DEF WriteBlank, Between, IInv
<1>2. items' = items \o <<>> /\ <<>> \in Seq(Items)
  BY <1>1, NoItems, Zenon
<1>3. Writable(writing', after') /\ Goal(writing', after') = {Rest}
  BY <1>1 DEF Writable, Goal
<1>4. \A q \in Goal(writing, after) : Longer(q, <<b>>, <<>>) \in Leads({Rest})
  <2>1. b \in Marks \cup Blanks /\ b # "}"
    BY DEF Blanks
  <2> QED BY <1>1, <1>2, <2>1, BlankIsRead, BetweenWritten, Zenon
<1>5. <<b>> \in Seq(Chars) /\ Len(<<b>>) <= 2
  <2>1. b \in Chars
    BY DEF Chars
  <2> QED BY <2>1, OneIsShort, Zenon
<1> QED BY <1>1, <1>2, <1>3, <1>4, <1>5, WrittenIs, Zenon

LEMMA BeginInv ==
  ASSUME IInv, NEW style \in DOMAIN OpeningOf, Begin(style)
  PROVE  IInv'
<1>1. /\ writing = Nothing /\ after = "blank" /\ Write(OpeningOf[style])
      /\ writing' = [style |-> style, chars |-> <<>>] /\ after' = after /\ items' = items
  BY DEF Begin, Between
<1>2. style \in Styles /\ style # "none"
  BY DEF OpeningOf, Styles
<1>3. items' = items \o <<>> /\ <<>> \in Seq(Items)
  BY <1>1, NoItems, Zenon
<1>4. writing'.style = style /\ writing'.chars = <<>> /\ writing' # Nothing
  BY <1>1, <1>2 DEF Nothing
<1>5. Writable(writing', after')
  BY <1>1, <1>2, Begun DEF Writable
<1>6. Goal(writing', after') = {Inside(style, <<>>)} /\ Goal(writing, after) = {Rest}
  BY <1>1, <1>4 DEF Goal
<1>7. \A q \in Goal(writing, after) : Longer(q, OpeningOf[style], <<>>) \in Leads(Goal(writing', after'))
  BY <1>2, <1>6, Begun
<1>8. OpeningOf[style] \in Seq(Chars) /\ Len(OpeningOf[style]) <= 2
  <2>1. OpeningOf[style] \in Seq(Chars) /\ Len(OpeningOf[style]) <= 1
    BY <1>2, OpeningIs
  <2>2. Len(OpeningOf[style]) \in Nat
    BY <2>1, LenProperties
  <2> QED BY <2>1, <2>2
<1> QED BY <1>1, <1>3, <1>5, <1>7, <1>8, WrittenIs, Zenon

LEMMA CharInv ==
  ASSUME IInv, NEW c \in Chars, WriteChar(c)
  PROVE  IInv'
<1>1. PICK style, w, t :
        /\ style = writing.style /\ w = writing.chars /\ t \in Writings(style, w, c) /\ Write(t)
        /\ writing # Nothing /\ Len(w) < MaxWord
        /\ writing' = [writing EXCEPT !.chars = Append(@, c)] /\ after' = after /\ items' = items
  BY DEF WriteChar, Between
<1>2. /\ after = "blank" /\ writing \in [style : Styles, chars : Words]
      /\ style \in Styles /\ w \in Words
  BY <1>1 DEF IInv, Writable
<1>3. items' = items \o <<>> /\ <<>> \in Seq(Items)
  BY <1>1, NoItems, Zenon
<1>4. Append(w, c) \in Words /\ w \in Seq(Chars)
  BY <1>1, <1>2, WordsGrow
<1>5. /\ writing' \in [style : Styles, chars : Words] /\ writing' # Nothing
      /\ writing'.style = style /\ writing'.chars = Append(w, c)
  BY <1>1, <1>2, <1>4 DEF Nothing, Styles
<1>6. Writable(writing', after')
  BY <1>1, <1>2, <1>5 DEF Writable
<1>7. /\ Goal(writing, after) = {Inside(style, w)}
      /\ Goal(writing', after') = {Inside(style, Append(w, c))}
  BY <1>1, <1>5 DEF Goal
<1>8. /\ t \in Seq(Chars)
      /\ Longer(Inside(style, w), t, <<>>) \in Leads({Inside(style, Append(w, c))})
  BY <1>1, <1>2, CharWritten, Zenon
<1>9. \A q \in Goal(writing, after) : Longer(q, t, <<>>) \in Leads(Goal(writing', after'))
  BY <1>7, <1>8
<1>10. Len(t) <= 2
  <2>1. t = <<c>> \/ t = <<"\\", c>>
    <3>1. t \in Writings(style, w, c) /\ style \in Styles /\ w \in Seq(Chars)
      BY <1>1, <1>2, <1>4
    <3> QED BY <3>1, WrittenAs
  <2>2. Len(<<c>>) <= 2 /\ Len(<<"\\", c>>) <= 2
    OBVIOUS
  <2> QED BY <2>1, <2>2, Zenon
<1> QED BY <1>1, <1>3, <1>6, <1>8, <1>9, <1>10, WrittenIs, Zenon
LEMMA EndWordInv ==
  ASSUME IInv, EndWord, ~escaped'
  PROVE  IInv'
<1>1. PICK style, w :
        /\ style = writing.style /\ w = writing.chars /\ style \in {"plain", "double", "single"}
        /\ w # <<>> => Last(w) # "\\"
        /\ style = "plain" => Contains(w, "x")
        /\ Write(OpeningOf[style])
        /\ after' = IF style = "plain" THEN "plain" ELSE "quoted"
        /\ items' = Append(items, Word(style, w)) /\ writing' = Nothing
  BY DEF EndWord, Word
<1>2. writing # Nothing /\ style \in Styles /\ w \in Words
  <2>1. writing # Nothing
    BY <1>1 DEF Nothing
  <2> QED BY <1>1, <2>1 DEF IInv, Writable
<1>3. /\ Writable(writing', after') /\ Goal(writing, after) = {Inside(style, w)}
      /\ Behind(style, w) \in Goal(writing', after')
  <2>1. Behind(style, w) \in Configs
    BY <1>2, BehindType
  <2>2. Writable(writing', after')
    BY <1>1 DEF Writable
  <2>3. Goal(writing, after) = {Inside(style, w)}
    BY <1>1, <1>2 DEF Goal
  <2>4. CASE style = "plain"
    BY <1>1, <1>2, <2>2, <2>3, <2>4 DEF Goal
  <2>5. CASE style # "plain"
    <3>1. style \in Quoting /\ after' = "quoted" /\ writing' = Nothing
      BY <1>1, <2>5 DEF Quoting
    <3>2. Behind(style, w) \in Goal(writing', after')
      BY <1>2, <2>1, <3>1 DEF Goal
    <3> QED BY <2>2, <2>3, <3>2
  <2> QED BY <2>4, <2>5
<1>4. Longer(Inside(style, w), OpeningOf[style], <<Word(style, w)>>) = Behind(style, w)
  <2>1. ~Waits(style, w)
    BY <1>1 DEF Waits
  <2> QED BY <2>1, Zenon DEF Inside, Behind
<1>5. \A q \in Goal(writing, after) :
        Longer(q, OpeningOf[style], <<Word(style, w)>>) \in Leads(Goal(writing', after'))
  <2>1. Behind(style, w) \in Leads(Goal(writing', after'))
    BY <1>3, GoalType, LeadsHere
  <2> QED BY <1>3, <1>4, <2>1
<1>6. items' = items \o <<Word(style, w)>> /\ <<Word(style, w)>> \in Seq(Items)
  <2>1. items \in Seq(Items) /\ Word(style, w) \in Items
    BY <1>1, <1>2, BeforeWriting, CurrentIs, WithinType DEF Write, Configs
  <2> QED BY <1>1, <2>1, AppendIsConcat, OneSeq
<1>7. OpeningOf[style] \in Seq(Chars) /\ Len(OpeningOf[style]) <= 2
  <2>1. OpeningOf[style] \in Seq(Chars) /\ Len(OpeningOf[style]) <= 1
    BY <1>2, OpeningIs
  <2>2. Len(OpeningOf[style]) \in Nat
    BY <2>1, LenProperties
  <2> QED BY <2>1, <2>2
<1> QED BY <1>1, <1>3, <1>5, <1>6, <1>7, WrittenIs, Zenon

LEMMA EndCommentInv ==
  ASSUME IInv, EndComment
  PROVE  IInv'
<1>1. PICK w, i :
        /\ w = writing.chars /\ i = Item("COMMENT", <<"#">> \o w) /\ writing.style = "comment"
        /\ Write(<<"\n">>) /\ after' = "blank" /\ items' = Append(items, i) /\ writing' = Nothing
  BY DEF EndComment
<1>2. writing # Nothing /\ w \in Words
  <2>1. writing # Nothing
    BY <1>1 DEF Nothing
  <2> QED BY <1>1, <2>1 DEF IInv, Writable
<1>3. /\ Writable(writing', after') /\ Goal(writing, after) = {Inside("comment", w)}
      /\ Goal(writing', after') = {Rest}
  BY <1>1, <1>2 DEF Goal, Writable
<1>4. i \in Items /\ Longer(Inside("comment", w), <<"\n">>, <<i>>) \in Leads({Rest})
  BY <1>1, <1>2, CommentEnded, Zenon
<1>5. \A q \in Goal(writing, after) : Longer(q, <<"\n">>, <<i>>) \in Leads(Goal(writing', after'))
  BY <1>3, <1>4
<1>6. items' = items \o <<i>> /\ <<i>> \in Seq(Items)
  <2>1. items \in Seq(Items)
    BY <1>1, BeforeWriting, CurrentIs DEF Write, Configs
  <2> QED BY <1>1, <1>4, <2>1, AppendIsConcat, OneSeq
<1>7. <<"\n">> \in Seq(Chars) /\ Len(<<"\n">>) <= 2
  <2>1. "\n" \in Chars
    BY CharsAre
  <2> QED BY <2>1, OneIsShort, Zenon
<1> QED BY <1>1, <1>3, <1>5, <1>6, <1>7, WrittenIs, Zenon

LEMMA ShortAndOne ==
  ASSUME NEW t \in Seq(Chars), Len(t) < 2, NEW c \in Chars
  PROVE  Len(t \o <<c>>) <= 3
  OBVIOUS

LEMMA OneReplaced ==
  ASSUME NEW a, NEW b
  PROVE  [<<a>> EXCEPT ![Len(<<a>>)] = b] = <<b>>
  OBVIOUS

LEMMA StickInv ==
  ASSUME IInv, NEW c \in Chars \ (Blanks \cup {";", "{"}), Stick(c)
  PROVE  IInv'
<1>1. /\ ~closed /\ Len(text) < 2 /\ state # "ERROR" /\ text' = text \o <<c>>
      /\ closed' = closed /\ state' = state /\ value' = value /\ agree' = agree
      /\ writing = Nothing /\ after = "quoted" /\ items # <<>> /\ after' = "blank"
      /\ items' = [items EXCEPT ![Len(items)] = Item("ERROR", <<>>)] /\ writing' = writing
  BY DEF Stick, Write, Between
<1>2. Current \in Goal(Nothing, "quoted")
  <2>1. Current \in Leads(Goal(Nothing, "quoted")) /\ Len(Current.text) < 2
    BY <1>1, BeforeWriting, CurrentIs
  <2> QED BY <2>1, QuoteIsLast
<1>3. PICK style \in Quoting, w \in Words : Current = Behind(style, w)
  BY <1>2 DEF Goal
<1>4. /\ text = OpeningOf[style] /\ items = <<Word(style, w)>>
      /\ state = StateIn(style, w) /\ value = ValueIn(style, w)
  <2>1. Current = Config(OpeningOf[style], <<Word(style, w)>>, StateIn(style, w), ValueIn(style, w))
    BY <1>3, BehindType DEF Quoting, Styles
  <2> QED BY <2>1 DEF Current, Config
<1>5. items' = <<Item("ERROR", <<>>)>>
  BY <1>1, <1>4, OneReplaced, Zenon
<1>6. Current' = Doomed(style, w, c)
  <2>1. Current' = Config(text', items', state', value')
    BY DEF Current
  <2> QED BY <1>1, <1>4, <1>5, <2>1, Zenon DEF Doomed
<1>7. Current' \in Leads(Doom)
  <2>1. c \in Chars \ EndsQuoted /\ c \in Chars
    BY DEF EndsQuoted
  <2>2. Doomed(style, w, c) \in Doom
    BY <2>1, DoomedType DEF Doom
  <2>3. Doom \in SUBSET Configs
    BY DEF Doom
  <2> QED BY <1>6, <2>2, <2>3, LeadsHere
<1>8. Len(text') <= 3
  <2>1. text \in Seq(Chars)
    <3>1. style \in Styles
      BY DEF Quoting, Styles
    <3> QED BY <1>4, <3>1, OpeningIs, Zenon
  <2>2. c \in Chars
    OBVIOUS
  <2> QED BY <1>1, <2>1, <2>2, ShortAndOne, Zenon
<1>9. Writable(writing', after')
  BY <1>1 DEF Writable
<1>10. agree = TRUE /\ closed \in BOOLEAN
  BY Zenon DEF IInv
<1> QED BY <1>1, <1>7, <1>8, <1>9, <1>10, Zenon DEF IInv

LEMMA CloseInv ==
  ASSUME IInv, Close
  PROVE  IInv'
<1>1. /\ ~closed /\ Len(text) < 2 /\ state # "ERROR" /\ closed' = TRUE
      /\ text' = text /\ writing' = writing /\ after' = after /\ agree' = agree
      /\ items' = items /\ state' = state /\ value' = value
  BY DEF Close
<1>2. Current \in Leads(Goal(writing, after))
  BY <1>1, BeforeWriting
<1>3. Current' = Current
  BY <1>1 DEF Current
<1>4. closed' \in BOOLEAN
  BY <1>1
<1>5. agree = TRUE /\ Len(text) <= 3 /\ Writable(writing, after)
  BY Zenon DEF IInv
<1> QED BY <1>1, <1>2, <1>3, <1>4, <1>5, Zenon DEF IInv

\* As long as no plain word is nothing but escapes.
LEMMA NextInv ==
  ASSUME IInv, [Next]_vars, ~escaped'
  PROVE  IInv'
<1>1. CASE ParseToken
  BY <1>1, ParserInv
<1>2. CASE Writer
  BY <1>2, MarkInv, BlankInv, BeginInv, CharInv, EndWordInv, EndCommentInv, StickInv, CloseInv, Zenon
     DEF Writer
<1>3. CASE UNCHANGED vars
  <2>1. /\ text' = text /\ closed' = closed /\ writing' = writing /\ after' = after
        /\ items' = items /\ state' = state /\ value' = value /\ agree' = agree
    BY <1>3 DEF vars, writerVars
  <2>2. Current' = Current /\ EndsRight' = EndsRight /\ Ended' = Ended
    BY <2>1 DEF Current, EndsRight, InQuotes, Ended
  <2> QED BY <2>1, <2>2, Zenon DEF IInv
<1> QED BY <1>1, <1>2, <1>3 DEF Next

-----------------------------------------------------------------------------
(* Types, whatever has been written.                                       *)

Strings == Seq(Chars)

WriterTyped ==
  /\ after \in {"blank", "plain", "quoted"}
  /\ writing = Nothing \/ writing \in [style : DOMAIN OpeningOf, chars : Strings]
  /\ closed \in BOOLEAN /\ escaped \in BOOLEAN

ParserTyped ==
  /\ state \in States \cup {"EOF", "ERROR"}
  /\ value \in Strings
  /\ text \in Strings /\ Len(text) <= 3
  /\ agree \in BOOLEAN

Typed == WriterTyped /\ ParserTyped

\* The parser leaves the writer alone.
LEMMA ParserIsAlone ==
  ASSUME ParseToken
  PROVE  UNCHANGED writerVars
  BY Zenon DEF ParseToken, InitialWhitespace, SingleQuote, DoubleQuote, Comment, Normal, Escape, Turn,
               EndOfFile

\* What a turn leaves in text, state, value and agree.
LEMMA ContinueTyped ==
  ASSUME ParserTyped, NEW n \in Nat, NEW s \in States, NEW chars \in Strings, Continue(n, s, chars)
  PROVE  state' \in States \cup {"EOF", "ERROR"} /\ value' \in Strings /\ agree' \in BOOLEAN
  BY DEF Continue, ParserTyped

LEMMA ReturnTyped ==
  ASSUME ParserTyped, NEW n, NEW type, NEW chars, Return(n, type, chars)
  PROVE  state' \in States \cup {"EOF", "ERROR"} /\ value' \in Strings /\ agree' \in BOOLEAN
<1>1. <<>> \in Strings
  BY DEF Strings
<1> QED BY <1>1 DEF Return, States

LEMMA StopTyped ==
  ASSUME ParserTyped, NEW n, NEW type \in {"EOF", "ERROR"}, Stop(n, type)
  PROVE  state' \in States \cup {"EOF", "ERROR"} /\ value' \in Strings /\ agree' \in BOOLEAN
<1>1. <<>> \in Strings
  BY DEF Strings
<1> QED BY <1>1 DEF Stop, ParserTyped

LEMMA TurnTyped ==
  ASSUME ParserTyped, ParseToken
  PROVE  ParserTyped'
<1> DEFINE Good == state' \in States \cup {"EOF", "ERROR"} /\ value' \in Strings /\ agree' \in BOOLEAN
<1>1. \A c \in Chars : Append(value, c) \in Strings /\ <<c>> \in Strings
  BY DEF ParserTyped, Strings
<1>2. value \in Strings /\ text \in Seq(Chars) /\ Len(text) \in Nat
  BY DEF ParserTyped, Strings
<1>3. EndOfInput => Good
  BY StopTyped DEF EndOfInput
<1>4. ASSUME NEW s \in States, NEW escapable, Escape(s, escapable) PROVE Good
  <2>1. CASE Len(text) < 2
    BY <1>3, <1>4, <2>1 DEF Escape
  <2>2. CASE ~(Len(text) < 2)
    <3>1. text[2] \in Chars
      BY <1>2, <2>2
    <3>2. "\\" \in Chars
      BY CharSeq
    <3>3. \/ Continue(2, s, Append(value, text[2]))
          \/ Continue(1, s, Append(value, "\\"))
      BY <1>4, <2>2 DEF Escape
    <3> QED BY <1>1, <3>1, <3>2, <3>3, ContinueTyped
  <2> QED BY <2>1, <2>2
<1>5. ASSUME NEW chars, CloseQuote(chars) PROVE Good
  BY <1>3, <1>5, ReturnTyped, StopTyped DEF CloseQuote
<1> HIDE DEF Good
<1>6. ASSUME NEW n \in Nat, NEW s \in States, NEW chars \in Strings, Continue(n, s, chars) PROVE Good
  BY <1>6, ContinueTyped DEF Good
<1>7. ASSUME NEW n, NEW type, NEW chars, Return(n, type, chars) PROVE Good
  BY <1>7, ReturnTyped DEF Good
<1>8. Good
  <2>1. CASE InitialWhitespace
    <3>1. ASSUME NEW c \in Blanks, Continue(1, "INITIAL_WHITESPACE", value) PROVE Good
      BY <1>2, <1>6, <3>1 DEF States
    <3>2. Continue(1, "COMMENT", <<"#">>) => Good
      BY <1>1, <1>6, CharSeq DEF States
    <3>3. Continue(1, "DOUBLE_QUOTE", value) => Good
      BY <1>2, <1>6 DEF States
    <3>4. Continue(1, "SINGLE_QUOTE", <<"'">>) => Good
      BY <1>1, <1>6, CharSeq DEF States
    <3>5. Continue(1, "NORMAL", Append(value, "x")) => Good
      BY <1>1, <1>6, CharSeq DEF States
    <3>6. Escape("INITIAL_WHITESPACE", Special) => Good
      BY <1>4 DEF States
    <3> QED BY <1>7, <2>1, <3>1, <3>2, <3>3, <3>4, <3>5, <3>6, Zenon DEF InitialWhitespace
  <2>2. CASE SingleQuote
    <3>1. Escape("SINGLE_QUOTE", {"'"}) => Good
      BY <1>4 DEF States
    <3>2. ASSUME NEW c \in Chars, Continue(1, "SINGLE_QUOTE", Append(value, c)) PROVE Good
      BY <1>1, <1>6, <3>2 DEF States
    <3> QED BY <1>5, <2>2, <3>1, <3>2, Zenon DEF SingleQuote
  <2>3. CASE DoubleQuote
    <3>1. Escape("DOUBLE_QUOTE", {"\""}) => Good
      BY <1>4 DEF States
    <3>2. ASSUME NEW c \in Chars, Continue(1, "DOUBLE_QUOTE", Append(value, c)) PROVE Good
      BY <1>1, <1>6, <3>2 DEF States
    <3> QED BY <1>5, <2>3, <3>1, <3>2, Zenon DEF DoubleQuote
  <2>4. CASE Comment
    <3>1. ASSUME NEW c \in Chars, Continue(1, "COMMENT", Append(value, c)) PROVE Good
      BY <1>1, <1>6, <3>1 DEF States
    <3> QED BY <1>7, <2>4, <3>1, Zenon DEF Comment
  <2>5. CASE Normal
    <3>1. Escape("NORMAL", Special) => Good
      BY <1>4 DEF States
    <3>2. ASSUME NEW c \in Quotes \cup {"#", "x"}, Continue(1, "NORMAL", Append(value, c)) PROVE Good
      <4>1. c \in Chars
        BY CharSeq DEF Chars
      <4> QED BY <1>1, <1>6, <3>2, <4>1 DEF States
    <3> QED BY <1>7, <2>5, <3>1, <3>2, Zenon DEF Normal
  <2>6. CASE EndOfFile
    BY <1>3, <2>6 DEF EndOfFile
  <2> QED BY <2>1, <2>2, <2>3, <2>4, <2>5, <2>6 DEF ParseToken
<1>9. Len(text') <= 3
  BY <1>2, TextShrinks DEF ParserTyped
<1>10. text' \in Strings
  <2>1. PICK n \in Nat : text' = SubSeq(text, n + 1, Len(text))
    BY <1>2, Drops, Zenon DEF Drop
  <2>2. PICK m \in Nat : m = Len(text) /\ \A k \in 1 .. m : text[k] \in Chars
    BY <1>2, ElementOfSeq
  <2>3. \A k \in n + 1 .. m : text[k] \in Chars
    BY <2>2
  <2>4. n + 1 \in Int /\ m \in Int
    BY <2>2
  <2>5. SubSeq(text, n + 1, m) \in Seq(Chars)
    BY <2>3, <2>4, SubSeqProperties
  <2> QED BY <2>1, <2>2, <2>5 DEF Strings
<1> QED BY <1>8, <1>9, <1>10 DEF ParserTyped, Good

\* What is written is one character, or an escape.
LEMMA WriteTyped ==
  ASSUME ParserTyped, NEW chars \in Strings, Len(chars) <= 2, Write(chars)
  PROVE  ParserTyped'
<1>1. text' = text \o chars /\ Len(text) < 2 /\ state' = state /\ value' = value /\ agree' = agree
  BY DEF Write
<1>2. text' \in Seq(Chars) /\ Len(text') = Len(text) + Len(chars)
  BY <1>1 DEF ParserTyped, Strings
<1>3. Len(text) \in Nat /\ Len(chars) \in Nat
  BY DEF ParserTyped, Strings
<1> QED BY <1>1, <1>2, <1>3 DEF ParserTyped, Strings

LEMMA StylesAre == DOMAIN OpeningOf = Styles
  BY DEF OpeningOf, Styles

LEMMA WriterIsTyped ==
  ASSUME Typed, Writer
  PROVE  Typed'
<1>1. ASSUME NEW c \in Chars, NEW chars, chars \in {<<>>, <<c>>, <<"\\", c>>}
      PROVE  chars \in Strings /\ Len(chars) <= 2
  <2>1. "\\" \in Chars
    BY CharSeq
  <2>2. <<>> \in Seq(Chars) /\ Len(<<>>) <= 2
    OBVIOUS
  <2>3. <<c>> \in Seq(Chars) /\ Len(<<c>>) <= 2
    BY OneIsShort
  <2>4. <<"\\", c>> \in Seq(Chars) /\ Len(<<"\\", c>>) <= 2
    BY <2>1, TwoSeq
  <2> QED BY <1>1, <2>2, <2>3, <2>4 DEF Strings
<1>2. ASSUME NEW c \in Chars, NEW chars, chars \in {<<>>, <<c>>, <<"\\", c>>}, Write(chars)
      PROVE  ParserTyped' /\ closed' = closed
  <2>1. chars \in Strings /\ Len(chars) <= 2
    BY <1>1, <1>2
  <2>2. ParserTyped'
    BY <1>2, <2>1, WriteTyped DEF Typed
  <2> QED BY <1>2, <2>2 DEF Write
<1>3. WriterTyped /\ ParserTyped
  BY DEF Typed
<1>4. ASSUME NEW m \in Marks, WriteMark(m) PROVE Typed'
  <2>1. m \in Chars /\ Write(<<m>>)
    BY <1>4 DEF WriteMark, Chars
  <2>2. ParserTyped' /\ closed' = closed
    BY <1>2, <2>1
  <2>3. after' = "blank" /\ writing' = writing /\ escaped' = escaped
    BY <1>4 DEF WriteMark
  <2> QED BY <1>3, <2>2, <2>3 DEF Typed, WriterTyped
<1>5. ASSUME NEW b \in Blanks, WriteBlank(b) PROVE Typed'
  <2>1. b \in Chars /\ Write(<<b>>)
    BY <1>5 DEF WriteBlank, Chars
  <2>2. ParserTyped' /\ closed' = closed
    BY <1>2, <2>1
  <2>3. after' = "blank" /\ writing' = writing /\ escaped' = escaped
    BY <1>5 DEF WriteBlank
  <2> QED BY <1>3, <2>2, <2>3 DEF Typed, WriterTyped
<1>6. ASSUME NEW style \in DOMAIN OpeningOf
      PROVE  OpeningOf[style] \in Strings /\ Len(OpeningOf[style]) <= 2
  <2>1. style \in Styles
    BY StylesAre
  <2>2. OpeningOf[style] \in Seq(Chars) /\ Len(OpeningOf[style]) <= 1
    BY <2>1, OpeningIs
  <2>3. Len(OpeningOf[style]) \in Nat
    BY <2>2, LenProperties
  <2> QED BY <2>2, <2>3 DEF Strings
<1>7. ASSUME NEW style \in DOMAIN OpeningOf, Write(OpeningOf[style])
      PROVE  ParserTyped' /\ closed' = closed
  <2>1. ParserTyped'
    BY <1>3, <1>6, <1>7, WriteTyped
  <2> QED BY <1>7, <2>1 DEF Write
<1>8. ASSUME NEW style \in DOMAIN OpeningOf, Begin(style) PROVE Typed'
  <2>1. ParserTyped' /\ closed' = closed
    BY <1>7, <1>8 DEF Begin
  <2>2. /\ writing' = [style |-> style, chars |-> <<>>] /\ after' = after /\ escaped' = escaped
    BY <1>8 DEF Begin
  <2>3. writing' \in [style : DOMAIN OpeningOf, chars : Strings]
    BY <2>2 DEF Strings
  <2> QED BY <1>3, <2>1, <2>2, <2>3 DEF Typed, WriterTyped
<1>9. ASSUME NEW c \in Chars, WriteChar(c) PROVE Typed'
  <2>1. PICK w : w \in Writings(writing.style, writing.chars, c) /\ Write(w)
    BY <1>9 DEF WriteChar
  <2>2. w \in {<<c>>, <<"\\", c>>}
    BY <2>1 DEF Writings
  <2>3. ParserTyped' /\ closed' = closed
    BY <1>2, <2>1, <2>2
  <2>4. /\ writing # Nothing /\ writing' = [writing EXCEPT !.chars = Append(@, c)]
        /\ after' = after /\ escaped' = escaped
    BY <1>9 DEF WriteChar, Between
  <2>5. writing \in [style : DOMAIN OpeningOf, chars : Strings]
    BY <1>3, <2>4 DEF WriterTyped
  <2>6. Append(writing.chars, c) \in Strings
    BY <2>5, AppendProperties DEF Strings
  <2>7. writing' \in [style : DOMAIN OpeningOf, chars : Strings]
    BY <2>4, <2>5, <2>6
  <2> QED BY <1>3, <2>3, <2>4, <2>7 DEF Typed, WriterTyped
<1>10. ASSUME EndWord PROVE Typed'
  <2>1. writing.style \in DOMAIN OpeningOf /\ Write(OpeningOf[writing.style])
    BY <1>10, StylesAre DEF EndWord, Styles
  <2>2. ParserTyped' /\ closed' = closed
    BY <1>7, <2>1
  <2>3. after' \in {"plain", "quoted"} /\ writing' = Nothing
    BY <1>10 DEF EndWord
  <2>4. escaped' \in BOOLEAN
    BY <1>10, Zenon DEF EndWord
  <2> QED BY <1>3, <2>2, <2>3, <2>4 DEF Typed, WriterTyped
<1>11. ASSUME EndComment PROVE Typed'
  <2>1. Write(<<"\n">>) /\ "\n" \in Chars
    BY <1>11 DEF EndComment, Chars, Blanks
  <2>2. ParserTyped' /\ closed' = closed
    BY <1>2, <2>1
  <2>3. after' = "blank" /\ writing' = Nothing /\ escaped' = escaped
    BY <1>11 DEF EndComment
  <2> QED BY <1>3, <2>2, <2>3 DEF Typed, WriterTyped
<1>12. ASSUME NEW c \in Chars, Stick(c) PROVE Typed'
  <2>1. ParserTyped' /\ closed' = closed
    BY <1>2, <1>12 DEF Stick
  <2>2. after' = "blank" /\ writing' = writing /\ escaped' = escaped
    BY <1>12 DEF Stick
  <2> QED BY <1>3, <2>1, <2>2 DEF Typed, WriterTyped
<1>13. ASSUME Close PROVE Typed'
  BY <1>3, <1>13 DEF Close, Typed, WriterTyped, ParserTyped
<1> QED BY <1>4, <1>5, <1>8, <1>9, <1>10, <1>11, <1>12, <1>13, Zenon DEF Writer

\* A word that is nothing but escapes is never forgotten.
LEMMA EscapedStays ==
  ASSUME [Next]_vars, escaped
  PROVE  escaped'
<1>1. CASE ParseToken
  BY <1>1, ParserIsAlone DEF writerVars
<1>2. CASE Writer
  BY <1>2, Zenon DEF Writer, WriteMark, WriteBlank, Begin, WriteChar, EndWord, EndComment, Stick, Close
<1>3. CASE UNCHANGED vars
  BY <1>3 DEF vars, writerVars
<1> QED BY <1>1, <1>2, <1>3 DEF Next

LEMMA InvHolds == Spec => [](Typed /\ (~escaped => IInv))
<1>1. Init => Typed /\ IInv
  <2>1. Init => WriterTyped
    BY DEF Init, WriterTyped
  <2>2. Init => ParserTyped
    <3>1. <<>> \in Strings /\ Len(<<>>) <= 3
      BY DEF Strings
    <3> QED BY <3>1 DEF Init, ParserTyped, States
  <2> QED BY <2>1, <2>2, InitInv DEF Typed
<1>2. ASSUME Typed, ~escaped => IInv, [Next]_vars
      PROVE  Typed' /\ (~escaped' => IInv')
  <2>1. CASE ParseToken
    <3>1. ParserTyped'
      BY <1>2, <2>1, TurnTyped DEF Typed
    <3>2. WriterTyped'
      BY <1>2, <2>1, ParserIsAlone DEF Typed, WriterTyped, writerVars
    <3> QED BY <1>2, <3>1, <3>2, NextInv, EscapedStays DEF Typed
  <2>2. CASE Writer
    BY <1>2, <2>2, WriterIsTyped, NextInv, EscapedStays
  <2>3. CASE UNCHANGED vars
    <3>1. Typed'
      BY <1>2, <2>3 DEF vars, writerVars, Typed, WriterTyped, ParserTyped
    <3> QED BY <1>2, <3>1, NextInv, EscapedStays
  <2> QED BY <1>2, <2>1, <2>2, <2>3 DEF Next
<1> QED BY <1>1, <1>2, PTL DEF Spec

-----------------------------------------------------------------------------
(* The theorems.                                                           *)

\* The parser and the writer are where they can be, no turn needs more than
\* three characters, and the string never holds more than a word with its
\* quotes, but for words that are nothing but escapes.
THEOREM TypeCorrect == Spec => []TypeOK
<1>1. Typed /\ (~escaped => IInv) => TypeOK
  <2> SUFFICES ASSUME Typed, ~escaped => IInv PROVE TypeOK
    OBVIOUS
  <2>1. ASSUME ~escaped PROVE Len(value) <= MaxWord + 2
    <3>1. CASE Ended
      <4>1. Len(<<>>) <= MaxWord + 2
        BY TokenizerAssumption
      <4> QED BY <3>1, <4>1 DEF Ended
    <3>2. CASE ~Ended
      <4>1. Current \in Configs
        BY <2>1, <3>2 DEF IInv, Leads
      <4> QED BY <4>1, CurrentIs DEF Configs, Values
    <3> QED BY <3>1, <3>2
  <2> QED BY <2>1 DEF Typed, WriterTyped, ParserTyped, TypeOK, Strings, States
<1> QED BY <1>1, InvHolds, PTL

\* Each token is the next item of the file, of the same type and characters,
\* until a plain word that is nothing but escapes.
THEOREM TokensAreItems == Spec => []TokenIsItem
<1>1. Typed /\ (~escaped => IInv) => TokenIsItem
  BY Zenon DEF IInv, TokenIsItem
<1> QED BY <1>1, InvHolds, PTL

LEMMA EndSeen ==
  ASSUME ~escaped => IInv
  PROVE  EndIsSeen
<1>1. CASE escaped
  BY <1>1 DEF EndIsSeen
<1>2. CASE ~escaped /\ Ended
  BY <1>2 DEF Ended, EndsRight, EndIsSeen
<1>3. CASE ~escaped /\ ~Ended
  <2>1. state \in States
    BY <1>3, CurrentIs DEF IInv, Leads, Configs
  <2> QED BY <2>1 DEF EndIsSeen, States
<1> QED BY <1>1, <1>2, <1>3

\* ParseToken says that the file ends, or that it is wrong, only where it is.
THEOREM EndIsFound == Spec => []EndIsSeen
<1>1. Typed /\ (~escaped => IInv) => EndIsSeen
  BY EndSeen
<1> QED BY <1>1, InvHolds, PTL

-----------------------------------------------------------------------------
(* Parse and ParseToken together: each is what its own proofs are about.   *)

ParserProofs == INSTANCE ConfigParserProofs

\* ConfigFile and the proofs of ConfigParser name the same definitions.
LEMMA SameInit == Parser!Init <=> ParserProofs!Init
  BY DEF Parser!Init, ParserProofs!Init

LEMMA SameNext == Parser!Next <=> ParserProofs!Next
  BY DEF Parser!Next, Parser!Comment, Parser!Error, Parser!Normal, Parser!StatementEnd,
    Parser!StartBlock, Parser!EndBlock, Parser!EndOfFile, Parser!Read, Parser!Accept, Parser!Reject,
    Parser!Undefined, Parser!Continues, Parser!Top, Parser!Statements, Parser!Pop, Parser!BeforeEnd,
    Parser!Push, Parser!Unbalanced, Parser!NoChild,
    ParserProofs!Next, ParserProofs!Comment, ParserProofs!Error, ParserProofs!Normal,
    ParserProofs!StatementEnd, ParserProofs!StartBlock, ParserProofs!EndBlock,
    ParserProofs!EndOfFile, ParserProofs!Read, ParserProofs!Accept, ParserProofs!Reject,
    ParserProofs!Undefined, ParserProofs!Continues, ParserProofs!Top, ParserProofs!Statements,
    ParserProofs!Pop, ParserProofs!BeforeEnd, ParserProofs!Push, ParserProofs!Unbalanced,
    ParserProofs!NoChild

LEMMA SamePlace ==
  ASSUME NEW file, NEW i
  PROVE  Parser!PlaceOK(file, i) <=> ParserProofs!PlaceOK(file, i)
  BY DEF Parser!PlaceOK, Parser!Before, Parser!Depth, Parser!Count, Parser!Cardinality, Parser!Max,
    ParserProofs!PlaceOK, ParserProofs!Before, ParserProofs!Depth, ParserProofs!Count,
    ParserProofs!Cardinality, ParserProofs!Max

LEMMA SameGrammar ==
  ASSUME NEW file
  PROVE  Parser!IsConfig(file) <=> ParserProofs!IsConfig(file)
  BY DEF Parser!IsConfig, Parser!PlaceOK, Parser!Before, Parser!Depth, Parser!Count,
    Parser!Cardinality, Parser!Max,
    ParserProofs!IsConfig, ParserProofs!PlaceOK, ParserProofs!Before, ParserProofs!Depth,
    ParserProofs!Count, ParserProofs!Cardinality, ParserProofs!Max

LEMMA SameTree ==
  ASSUME NEW file
  PROVE  Parser!TreeOf(file) = ParserProofs!TreeOf(file)
  BY DEF Parser!TreeOf, Parser!Ends, Parser!StatementAt, Parser!Words, Parser!BlockAt,
    Parser!Unclosed, Parser!Depth, Parser!Count, Parser!NoChild, Parser!Cardinality, Parser!Max,
    ParserProofs!TreeOf, ParserProofs!Ends, ParserProofs!StatementAt, ParserProofs!Words,
    ParserProofs!BlockAt, ParserProofs!Unclosed, ParserProofs!Depth, ParserProofs!Count,
    ParserProofs!NoChild, ParserProofs!Cardinality, ParserProofs!Max

\* Each step is one of Parse or leaves Parse alone, and one of ParseToken or of
\* the author, or leaves these alone.
LEMMA FileStep ==
  ASSUME [FileNext]_fileVars
  PROVE  [Next]_vars /\ [ParserProofs!Next]_(ParserProofs!vars)
<1>1. UNCHANGED parserVars => UNCHANGED ParserProofs!vars
  BY DEF ParserProofs!vars, parserVars
<1>2. CASE Parse
  <2>1. \A type : Handle(type) => Parser!Next \/ UNCHANGED parserVars
    BY DEF Handle, Parser!Next
  <2>2. ParseToken /\ (Parser!Next \/ UNCHANGED parserVars)
    BY <1>2, <2>1, Zenon DEF Parse
  <2> QED BY <1>1, <2>2, SameNext DEF Next
<1>3. CASE WriteFile
  BY <1>1, <1>3 DEF WriteFile, Next
<1>4. CASE UNCHANGED fileVars
  <2>1. vars' = vars /\ parserVars' = parserVars
    BY <1>4 DEF fileVars
  <2> QED BY <1>1, <2>1
<1> QED BY <1>2, <1>3, <1>4 DEF FileNext

LEMMA PartsRun == FileSpec => Spec /\ ParserProofs!Spec
<1>1. FileInit => Init /\ ParserProofs!Init
  BY SameInit DEF FileInit
<1>2. [FileNext]_fileVars => [Next]_vars /\ [ParserProofs!Next]_(ParserProofs!vars)
  BY FileStep
<1> QED BY <1>1, <1>2, PTL DEF FileSpec, Spec, ParserProofs!Spec

\* What is known of the two, each for itself.
PartsOK == (~escaped => IInv) /\ ParserProofs!IInv /\ ParserProofs!GInv /\ ParserProofs!TreeIsTheFile

LEMMA PartsHold ==
  FileSpec => /\ []PartsOK
              /\ [][ParserProofs!Judged]_(ParserProofs!vars)
<1>1. Spec => [](~escaped => IInv)
  BY InvHolds, PTL
<1>2. ParserProofs!Spec => []ParserProofs!IInv
  BY ParserProofs!Invariance
<1>3. ParserProofs!Spec => []ParserProofs!TreeIsTheFile
  BY ParserProofs!ParseBuildsTheFile
<1>4. ParserProofs!Init => ParserProofs!GInv
  BY ParserProofs!InitGrammar
<1>5. /\ ParserProofs!IInv /\ ParserProofs!IInv' /\ ParserProofs!GInv
      /\ [ParserProofs!Next]_(ParserProofs!vars)
      => ParserProofs!GInv' /\ ParserProofs!Judged
  BY ParserProofs!NextGrammar
<1> QED BY <1>1, <1>2, <1>3, <1>4, <1>5, PartsRun, PTL DEF PartsOK, ParserProofs!Spec
-----------------------------------------------------------------------------
(* What ParseToken returns, what Parse does, what the author writes.       *)

\* A turn goes on, or it is the last of all, or it returns the first item.
LEMMA TurnReturns ==
  ASSUME ParseToken, state \in States
  PROVE  \/ Returned = "none" /\ items' = items /\ state' \in States
         \/ Returned \in {"EOF", "ERROR"} /\ state' = Returned /\ items' = items
         \/ /\ Returned \in Types \ {"ERROR"} /\ state' \in States
            /\ items' = SubSeq(items, 2, Len(items))
            /\ agree' = TRUE => items # <<>> /\ Head(items).type = Returned
<1> DEFINE Returns ==
             \/ Returned = "none" /\ items' = items /\ state' \in States
             \/ Returned \in {"EOF", "ERROR"} /\ state' = Returned /\ items' = items
             \/ /\ Returned \in Types \ {"ERROR"} /\ state' \in States
                /\ items' = SubSeq(items, 2, Len(items))
                /\ agree' = TRUE => items # <<>> /\ Head(items).type = Returned
           Mark == state = "INITIAL_WHITESPACE" /\ text # <<>> /\ Head(text) \in Marks
<1> SUFFICES Returns
  BY DEF Returns
<1>1. ASSUME NEW n, NEW s \in States, NEW chars, Continue(n, s, chars), ~Mark,
             s = "INITIAL_WHITESPACE" => state = "INITIAL_WHITESPACE"
      PROVE  Returns
  <2>1. state' = s /\ items' = items
    BY <1>1 DEF Continue
  <2>2. Returned = "none"
    BY <1>1, <2>1 DEF Returned, States
  <2> QED BY <2>1, <2>2
<1>2. ASSUME NEW n, NEW type \in Types \ {"ERROR"}, NEW chars, Return(n, type, chars),
             \/ Mark /\ type = MarkType[Head(text)]
             \/ state = "COMMENT" /\ type = "COMMENT"
             \/ state \in {"SINGLE_QUOTE", "DOUBLE_QUOTE", "NORMAL"} /\ type = "NORMAL"
      PROVE  Returns
  <2>1. /\ state' = "INITIAL_WHITESPACE" /\ items' = SubSeq(items, 2, Len(items))
        /\ agree' = (agree /\ items # <<>> /\ Head(items) = Item(type, chars))
    BY <1>2 DEF Return
  <2>2. Returned = type
    BY <1>2, <2>1 DEF Returned
  <2>3. Item(type, chars).type = type
    BY DEF Item
  <2> QED BY <2>1, <2>2, <2>3 DEF States
<1>3. ASSUME NEW n, NEW type \in {"EOF", "ERROR"}, Stop(n, type) PROVE Returns
  BY <1>3 DEF Stop, Returned
<1> HIDE DEF Returns
<1>4. EndOfInput => Returns
  BY <1>3 DEF EndOfInput
<1>5. ASSUME NEW s \in States, NEW escapable, Escape(s, escapable) PROVE Returns
  <2>1. state = s /\ Head(text) = "\\" /\ "\\" \notin Marks
    BY <1>5 DEF Escape, Turn, Marks
  <2> QED BY <1>1, <1>4, <1>5, <2>1 DEF Escape
<1>6. ASSUME state \in {"SINGLE_QUOTE", "DOUBLE_QUOTE"}, NEW chars, CloseQuote(chars) PROVE Returns
  BY <1>2, <1>3, <1>4, <1>6 DEF CloseQuote, Types
<1>7. \A c \in Marks : MarkType[c] \in Types \ {"ERROR"}
  BY DEF MarkType, Marks, Types
<1>8. CASE InitialWhitespace
  <2>1. ASSUME NEW c \in Marks, Turn("INITIAL_WHITESPACE", c), Return(1, MarkType[c], <<c>>) PROVE Returns
    BY <1>2, <1>7, <2>1 DEF Turn
  <2>2. ASSUME NEW c \in Chars \ Marks, NEW s \in States, NEW chars,
               Turn("INITIAL_WHITESPACE", c), Continue(1, s, chars)
        PROVE  Returns
    BY <1>1, <2>2 DEF Turn
  <2>3. Blanks \cup {"#", "\"", "'", "x"} \subseteq Chars \ Marks
    BY DEF Chars, Blanks, Quotes, Marks
  <2> QED BY <1>5, <1>8, <2>1, <2>2, <2>3 DEF InitialWhitespace, States
<1>9. CASE SingleQuote \/ DoubleQuote
  <2>1. ASSUME NEW s \in {"SINGLE_QUOTE", "DOUBLE_QUOTE"}, NEW c, NEW chars, Turn(s, c), Continue(1, s, chars)
        PROVE  Returns
    BY <1>1, <2>1 DEF Turn, States
  <2>2. ASSUME NEW s \in {"SINGLE_QUOTE", "DOUBLE_QUOTE"}, NEW c, NEW chars, Turn(s, c), CloseQuote(chars)
        PROVE  Returns
    BY <1>6, <2>2 DEF Turn
  <2> QED BY <1>5, <1>9, <2>1, <2>2 DEF SingleQuote, DoubleQuote, States
<1>10. CASE Comment
  <2>1. ASSUME Turn("COMMENT", "\n"), Return(1, "COMMENT", value) PROVE Returns
    BY <1>2, <2>1 DEF Turn, Types
  <2>2. ASSUME NEW c, NEW chars, Turn("COMMENT", c), Continue(1, "COMMENT", chars) PROVE Returns
    BY <1>1, <2>2 DEF Turn, States
  <2> QED BY <1>10, <2>1, <2>2 DEF Comment
<1>11. CASE Normal
  <2>1. ASSUME NEW c, Turn("NORMAL", c), Return(0, "NORMAL", value) PROVE Returns
    BY <1>2, <2>1 DEF Turn, Types
  <2>2. ASSUME NEW c, NEW chars, Turn("NORMAL", c), Continue(1, "NORMAL", chars) PROVE Returns
    BY <1>1, <2>2 DEF Turn, States
  <2> QED BY <1>5, <1>11, <2>1, <2>2 DEF Normal, States
<1>12. CASE EndOfFile
  BY <1>4, <1>12 DEF EndOfFile
<1> QED BY <1>8, <1>9, <1>10, <1>11, <1>12 DEF ParseToken

LEMMA TypesAre == ParserProofs!TokenTypes = Types
  BY DEF ParserProofs!TokenTypes, Types

\* Of a token Parse reads its type, and of the end nothing.
LEMMA HandleIs ==
  ASSUME NEW type, Handle(type), result = "running", PartsOK'
  PROVE  \/ type = "none" /\ UNCHANGED parserVars
         \/ type = "EOF" /\ tokens' = tokens /\ result' \in {"true", "false"}
         \/ /\ type \in Types /\ tokens' = Append(tokens, type)
            /\ result' \in {"running", "false"}
            /\ type = "ERROR" => result' = "false"
<1>1. result' # "undefined"
  BY DEF PartsOK, ParserProofs!IInv
<1> QED BY <1>1 DEF Handle, Types, Parser!Comment, Parser!Error, Parser!Normal, Parser!StatementEnd,
    Parser!StartBlock, Parser!EndBlock, Parser!EndOfFile, Parser!Read, Parser!Accept, Parser!Reject,
    Parser!Undefined

\* While the parser has not seen the end, its configuration is one of these.
LEMMA RunningConfig ==
  ASSUME IInv, state \notin {"EOF", "ERROR"}
  PROVE  state \in States /\ items \in Seq(Items) /\ text \in Seq(Chars)
<1>1. Current \in Configs
  BY DEF IInv, Leads, Ended
<1> QED BY <1>1, CurrentIs DEF Configs

\* The author adds an item, spoils the last one or does neither.
LEMMA FileWritten ==
  ASSUME IInv, IInv', WriteFile
  PROVE  /\ state' = state /\ UNCHANGED parserVars
         /\ \/ items' = items /\ written' = written
            \/ /\ items \in Seq(Items) /\ items' \in Seq(Items)
               /\ Len(items') = Len(items) + 1
               /\ \A i \in 1 .. Len(items) : items'[i] = items[i]
               /\ written' = Append(written, items'[Len(items')].type)
            \/ /\ items \in Seq(Items) /\ items' \in Seq(Items)
               /\ Len(items') = Len(items) /\ Len(items) # 0
               /\ \A i \in 1 .. Len(items) - 1 : items'[i] = items[i]
               /\ written' = [written EXCEPT ![Len(written)] = items'[Len(items')].type]
<1>1. state' = state /\ state # "ERROR" /\ ~closed
  BY DEF WriteFile, Writer, Write, Close, WriteMark, WriteBlank, Begin, WriteChar, EndWord,
         EndComment, Stick
<1>2. state # "EOF"
  BY <1>1 DEF IInv, Leads, Configs, Current, Config, Ended, EndsRight, States
<1>3. items \in Seq(Items) /\ items' \in Seq(Items)
  <2>1. items \in Seq(Items)
    BY <1>1, <1>2, RunningConfig
  <2>2. Current' \in Configs
    BY <1>1, <1>2 DEF IInv, Leads, Ended
  <2>3. items' \in Seq(Items)
    BY <2>2 DEF Current, Config, Configs
  <2> QED BY <2>1, <2>3
<1>4. \/ items' = items
      \/ \E it : items' = Append(items, it)
      \/ \E it : items # <<>> /\ items' = [items EXCEPT ![Len(items)] = it]
  BY DEF WriteFile, Writer, Write, Close, WriteMark, WriteBlank, Begin, WriteChar, EndWord,
         EndComment, Stick
<1>5. Last(items') = items'[Len(items')]
  BY DEF Last
<1>6. written' = IF items' = items THEN written
                 ELSE IF Len(items') > Len(items) THEN Append(written, items'[Len(items')].type)
                 ELSE [written EXCEPT ![Len(written)] = items'[Len(items')].type]
  BY <1>5 DEF WriteFile
<1>7. UNCHANGED parserVars
  BY DEF WriteFile
<1>8. CASE items' = items
  BY <1>1, <1>6, <1>7, <1>8
<1>9. ASSUME NEW it, items' = Append(items, it)
      PROVE  /\ Len(items') = Len(items) + 1 /\ Len(items') > Len(items) /\ items' # items
             /\ \A i \in 1 .. Len(items) : items'[i] = items[i]
  BY <1>3, <1>9
<1>10. ASSUME NEW it, items # <<>>, items' = [items EXCEPT ![Len(items)] = it]
       PROVE  /\ Len(items') = Len(items) /\ ~(Len(items') > Len(items)) /\ Len(items) # 0
              /\ \A i \in 1 .. Len(items) - 1 : items'[i] = items[i]
  BY <1>3, <1>10
<1> QED BY <1>1, <1>3, <1>4, <1>6, <1>7, <1>8, <1>9, <1>10

-----------------------------------------------------------------------------
(* What has been written is what Parse has read and what is to come.       *)

\* How many items Parse has read; an error is no item, or one that stays.
Taken == IF state = "ERROR" THEN Len(tokens) - 1 ELSE Len(tokens)

InStep ==
  /\ written \in Seq(Types) /\ items \in Seq(Items) /\ Taken \in Nat
  /\ Len(written) = Taken + Len(items)
  /\ \A i \in 1 .. Taken : written[i] = tokens[i]
  /\ \A i \in 1 .. Len(items) : written[Taken + i] = items[i].type

\* When Parse has returned, and why.
Reason ==
  /\ result = "running" => state \notin {"EOF", "ERROR"}
  /\ result = "true" => state = "EOF"
  /\ result = "false" =>
       \/ state \in {"EOF", "ERROR"}
       \/ Len(tokens) # 0 /\ ~ParserProofs!PlaceOK(tokens, Len(tokens))

FInv == InStep /\ Reason

LEMMA InitFile == FileInit => FInv
  BY DEF FileInit, Init, Parser!Init, FInv, InStep, Taken, Reason

LEMMA WriteFileInv ==
  ASSUME FInv, IInv, IInv', WriteFile
  PROVE  FInv'
<1>1. /\ state' = state /\ tokens' = tokens /\ result' = result /\ Taken' = Taken /\ Reason'
  BY FileWritten DEF parserVars, Taken, FInv, Reason
<1>2. /\ written \in Seq(Types) /\ items \in Seq(Items) /\ Taken \in Nat
      /\ Len(written) = Taken + Len(items)
      /\ \A i \in 1 .. Taken : written[i] = tokens[i]
      /\ \A i \in 1 .. Len(items) : written[Taken + i] = items[i].type
      /\ Len(items) \in Nat /\ Len(written) \in Nat
  BY DEF FInv, InStep
<1>3. \A it \in Items : it.type \in Types
  BY DEF Items
<1>4. PICK t \in Nat : t = Taken /\ t = Taken'
  BY <1>1, <1>2
<1>5. CASE items' = items /\ written' = written
  BY <1>1, <1>2, <1>5 DEF FInv, InStep
<1>4a. /\ Len(written) = t + Len(items)
      /\ \A i \in 1 .. t : written[i] = tokens[i]
  BY <1>2, <1>4
<1>4b. ASSUME NEW i \in 1 .. Len(items) PROVE written[t + i] = items[i].type
  BY <1>2, <1>4
<1>6. ASSUME items' \in Seq(Items), Len(items') = Len(items) + 1,
             \A i \in 1 .. Len(items) : items'[i] = items[i],
             written' = Append(written, items'[Len(items')].type)
      PROVE  InStep'
  <2>1. PICK type \in Types : type = items'[Len(items')].type
    BY <1>2, <1>3, <1>6
  <2>2. /\ written' \in Seq(Types) /\ Len(written') = Len(written) + 1
        /\ \A i \in 1 .. Len(written) : written'[i] = written[i]
        /\ written'[Len(written) + 1] = type
    <3>1. written' = Append(written, type) /\ written \in Seq(Types) /\ type \in Types
      BY <1>2, <1>6, <2>1
    <3> QED BY <3>1, AppendProperties, Zenon
  <2>3. \A i \in 1 .. t : written'[i] = tokens'[i]
    BY <1>1, <1>2, <1>4, <2>2
  <2>4. ASSUME NEW i \in 1 .. Len(items) + 1 PROVE written'[t + i] = items'[i].type
    <3>1. CASE i = Len(items) + 1
      BY <1>2, <1>4, <1>6, <2>1, <2>2, <3>1
    <3>2. CASE i \in 1 .. Len(items)
      <4>1. t + i \in 1 .. Len(written)
        BY <1>2, <1>4a, <3>2
      <4>2. written'[t + i] = written[t + i]
        BY <2>2, <4>1
      <4>3. items'[i] = items[i]
        BY <1>6, <3>2
      <4>4. written[t + i] = items[i].type
        BY <1>4b, <3>2
      <4> QED BY <4>2, <4>3, <4>4
    <3>3. i = Len(items) + 1 \/ i \in 1 .. Len(items)
      BY <1>2
    <3> QED BY <3>1, <3>2, <3>3
  <2>5. Len(written') = t + Len(items')
    BY <1>2, <1>4a, <1>6, <2>2
  <2>6. \A i \in 1 .. Len(items') : written'[t + i] = items'[i].type
    <3>1. 1 .. Len(items') = 1 .. Len(items) + 1
      BY <1>6
    <3> QED BY <2>4, <3>1
  <2>7. /\ Taken' \in Nat /\ Len(written') = Taken' + Len(items')
        /\ \A i \in 1 .. Taken' : written'[i] = tokens'[i]
        /\ \A i \in 1 .. Len(items') : written'[Taken' + i] = items'[i].type
    BY <1>4, <2>3, <2>5, <2>6
  <2> QED BY <1>6, <2>2, <2>7, Zenon DEF InStep
<1>7. ASSUME items' \in Seq(Items), Len(items') = Len(items), Len(items) # 0,
             \A i \in 1 .. Len(items) - 1 : items'[i] = items[i],
             written' = [written EXCEPT ![Len(written)] = items'[Len(items')].type]
      PROVE  InStep'
  <2>1. PICK type \in Types : type = items'[Len(items')].type
    BY <1>2, <1>3, <1>7
  <2>2. /\ written' \in Seq(Types) /\ Len(written') = Len(written)
        /\ \A i \in 1 .. Len(written) - 1 : written'[i] = written[i]
        /\ written'[Len(written)] = type
    BY <1>2, <1>7, <2>1
  <2>3. \A i \in 1 .. t : written'[i] = tokens'[i]
    BY <1>1, <1>2, <1>4, <1>7, <2>2
  <2>4. ASSUME NEW i \in 1 .. Len(items) PROVE written'[t + i] = items'[i].type
    <3>1. CASE i = Len(items)
      BY <1>2, <1>4, <1>7, <2>1, <2>2, <3>1
    <3>2. CASE i \in 1 .. Len(items) - 1
      <4>1. t + i \in 1 .. Len(written) - 1
        BY <1>2, <1>4a, <3>2
      <4>2. written'[t + i] = written[t + i]
        BY <2>2, <4>1
      <4>3. items'[i] = items[i]
        BY <1>7, <3>2
      <4>4. i \in 1 .. Len(items)
        BY <1>2, <3>2
      <4>5. written[t + i] = items[i].type
        BY <1>4b, <4>4
      <4> QED BY <4>2, <4>3, <4>5
    <3> QED BY <1>2, <3>1, <3>2
  <2> QED BY <1>2, <1>4, <1>7, <2>2, <2>3, <2>4 DEF InStep
<1> QED BY <1>1, <1>5, <1>6, <1>7, FileWritten DEF FInv

\* A token that Parse is given has been written where it is read.
LEMMA ParseFileInv ==
  ASSUME FInv, IInv, IInv', PartsOK, PartsOK', Parse,
         tokens' # tokens => (result' = "false" <=> ~ParserProofs!PlaceOK(tokens', Len(tokens')))
  PROVE  FInv'
<1>1. result = "running" /\ ParseToken /\ Handle(Returned) /\ written' = written
  BY DEF Parse
<1>2. state \notin {"EOF", "ERROR"} /\ state \in States
  BY <1>1, RunningConfig DEF FInv, Reason
<1>3. agree' = TRUE
  BY DEF IInv
<1>4. tokens \in Seq(Types) /\ Len(tokens) \in Nat
  BY TypesAre DEF PartsOK, ParserProofs!GInv
<1>5. PICK t \in Nat : t = Len(tokens) /\ t = Taken
  BY <1>2, <1>4 DEF Taken
<1>6. /\ written \in Seq(Types) /\ items \in Seq(Items) /\ Len(items) \in Nat
      /\ Len(written) = t + Len(items)
  BY <1>5 DEF FInv, InStep
<1>7. \A i \in 1 .. t : written[i] = tokens[i]
  BY <1>5 DEF FInv, InStep
<1>8. ASSUME NEW i \in 1 .. Len(items) PROVE written[t + i] = items[i].type
  BY <1>5 DEF FInv, InStep
<1>9. "none" \notin Types /\ "EOF" \notin Types /\ "EOF" \notin States /\ "ERROR" \notin States
  BY DEF Types, States
<1>10. \/ Returned = "none" /\ UNCHANGED parserVars
       \/ Returned = "EOF" /\ tokens' = tokens /\ result' \in {"true", "false"}
       \/ /\ Returned \in Types /\ tokens' = Append(tokens, Returned)
          /\ result' \in {"running", "false"}
          /\ Returned = "ERROR" => result' = "false"
  BY <1>1, HandleIs
<1>11. ASSUME items' = items, Taken' = t, \A i \in 1 .. t : tokens'[i] = tokens[i]
       PROVE  InStep'
  <2>1. \A i \in 1 .. Taken' : written'[i] = tokens'[i]
    BY <1>1, <1>7, <1>11
  <2>2. \A i \in 1 .. Len(items') : written'[Taken' + i] = items'[i].type
    BY <1>1, <1>8, <1>11
  <2>3. Taken' \in Nat /\ Len(written') = Taken' + Len(items')
    BY <1>1, <1>6, <1>11
  <2> QED BY <1>1, <1>6, <1>11, <2>1, <2>2, <2>3, Zenon DEF InStep
<1>12. CASE Returned = "none" /\ items' = items /\ state' \in States
  <2>1. tokens' = tokens /\ result' = result
    BY <1>9, <1>10, <1>12 DEF parserVars
  <2>2. Taken' = t
    BY <1>5, <1>9, <1>12, <2>1 DEF Taken
  <2>3. InStep'
    BY <1>11, <1>12, <2>1, <2>2
  <2>4. Reason'
    BY <1>1, <1>9, <1>12, <2>1 DEF Reason
  <2> QED BY <2>3, <2>4 DEF FInv
<1>13. CASE Returned = "EOF" /\ state' = "EOF" /\ items' = items
  <2>1. tokens' = tokens /\ result' \in {"true", "false"}
    BY <1>9, <1>10, <1>13
  <2>2. Taken' = t
    BY <1>5, <1>13, <2>1 DEF Taken
  <2>3. InStep'
    BY <1>11, <1>13, <2>1, <2>2
  <2>4. Reason'
    BY <1>13, <2>1 DEF Reason
  <2> QED BY <2>3, <2>4 DEF FInv
<1>14. CASE Returned = "ERROR" /\ state' = "ERROR" /\ items' = items
  <2>1. tokens' = Append(tokens, "ERROR") /\ result' = "false"
    BY <1>10, <1>14
  <2>2. Len(tokens') = t + 1 /\ \A i \in 1 .. t : tokens'[i] = tokens[i]
    <3>1. "ERROR" \in Types
      BY DEF Types
    <3>2. /\ Len(tokens') = Len(tokens) + 1
          /\ \A i \in 1 .. Len(tokens) : tokens'[i] = tokens[i]
      BY <1>4, <2>1, <3>1, AppendProperties, Zenon
    <3> QED BY <1>5, <3>2
  <2>3. Taken' = t
    BY <1>14, <2>2 DEF Taken
  <2>4. InStep'
    BY <1>11, <1>14, <2>2, <2>3
  <2>5. Reason'
    BY <1>14, <2>1 DEF Reason
  <2> QED BY <2>4, <2>5 DEF FInv
<1>15. CASE /\ Returned \in Types \ {"ERROR"} /\ state' \in States
            /\ items' = SubSeq(items, 2, Len(items))
            /\ items # <<>> /\ Head(items).type = Returned
  <2>1. tokens' = Append(tokens, Returned) /\ result' \in {"running", "false"}
    BY <1>9, <1>10, <1>15
  <2>2. /\ Len(tokens') = t + 1 /\ tokens'[t + 1] = Returned
        /\ \A i \in 1 .. t : tokens'[i] = tokens[i]
    <3>1. PICK type \in Types : type = Returned /\ tokens' = Append(tokens, type)
      BY <1>15, <2>1
    <3>2. /\ Len(tokens') = Len(tokens) + 1 /\ tokens'[Len(tokens) + 1] = type
          /\ \A i \in 1 .. Len(tokens) : tokens'[i] = tokens[i]
      <4>1. /\ Len(Append(tokens, type)) = Len(tokens) + 1
            /\ \A i \in 1 .. Len(tokens) : Append(tokens, type)[i] = tokens[i]
            /\ Append(tokens, type)[Len(tokens) + 1] = type
        BY <1>4, AppendProperties
      <4>2. tokens' = Append(tokens, type)
        BY <3>1
      <4> QED BY <4>1, <4>2
    <3>3. Len(tokens) = t
      BY <1>5
    <3>4. /\ Len(tokens') = t + 1 /\ tokens'[t + 1] = type
          /\ \A i \in 1 .. t : tokens'[i] = tokens[i]
      BY <3>2, <3>3, Zenon
    <3> QED BY <3>1, <3>4, Zenon
  <2>3. Taken' = t + 1
    BY <1>9, <1>15, <2>2 DEF Taken
  <2>4. Len(items) \in Nat \ {0} /\ Head(items) = items[1]
    BY <1>6, <1>15
  <2>5. /\ items' \in Seq(Items) /\ Len(items') = Len(items) - 1
        /\ \A i \in 1 .. Len(items) - 1 : items'[i] = items[i + 1]
    <3>1. PICK n \in Nat \ {0} : n = Len(items)
      BY <2>4
    <3>2. \A i \in 2 .. n : items[i] \in Items
      BY <1>6, <3>1
    <3>3. /\ SubSeq(items, 2, n) \in Seq(Items)
          /\ Len(SubSeq(items, 2, n)) = IF 2 <= n THEN n - 2 + 1 ELSE 0
          /\ \A i \in 1 .. n - 2 + 1 : SubSeq(items, 2, n)[i] = items[2 + i - 1]
      BY <3>2, SubSeqProperties
    <3>4. Len(SubSeq(items, 2, n)) = n - 1 /\ n - 2 + 1 = n - 1
      BY <3>3
    <3>5. ASSUME NEW i \in 1 .. n - 1 PROVE SubSeq(items, 2, n)[i] = items[i + 1]
      <4>1. 2 + i - 1 = i + 1
        OBVIOUS
      <4> QED BY <3>3, <3>4, <4>1
    <3>6. items' = SubSeq(items, 2, n)
      BY <1>15, <3>1
    <3> QED BY <3>1, <3>3, <3>4, <3>5, <3>6
  <2>6. written[t + 1] = tokens'[t + 1]
    <3>1. 1 \in 1 .. Len(items)
      BY <2>4
    <3> QED BY <1>8, <1>15, <2>2, <2>4, <3>1
  <2>7. \A i \in 1 .. Taken' : written'[i] = tokens'[i]
    <3>1. ASSUME NEW i \in 1 .. Taken' PROVE i \in 1 .. t \/ i = t + 1
      BY <2>3
    <3>2. \A i \in 1 .. t : written[i] = tokens'[i]
      BY <1>7, <2>2
    <3> QED BY <1>1, <2>6, <3>1, <3>2
  <2>8. ASSUME NEW i \in 1 .. Len(items') PROVE written'[Taken' + i] = items'[i].type
    <3>1. i \in Nat /\ i + 1 \in 1 .. Len(items) /\ i \in 1 .. Len(items) - 1
      BY <2>4, <2>5
    <3>2. written[t + (i + 1)] = items[i + 1].type
      BY <1>8, <3>1
    <3>3. Taken' + i = t + (i + 1)
      BY <2>3, <3>1
    <3>4. items'[i] = items[i + 1]
      BY <2>5, <3>1
    <3> QED BY <1>1, <3>2, <3>3, <3>4
  <2>9. written' \in Seq(Types) /\ Taken' \in Nat /\ Len(written') = Taken' + Len(items')
    BY <1>1, <1>6, <2>3, <2>4, <2>5
  <2>10. InStep'
    BY <2>5, <2>7, <2>8, <2>9, Zenon DEF InStep
  <2>11. tokens' # tokens /\ Len(tokens') # 0
    <3>1. Len(tokens') # Len(tokens) /\ Len(tokens') # 0
      BY <1>5, <2>2
    <3> QED BY <3>1, Zenon
  <2>12. Reason'
    BY <1>9, <1>15, <2>1, <2>11 DEF Reason
  <2> QED BY <2>10, <2>12 DEF FInv
<1>16. \/ Returned = "none" /\ items' = items /\ state' \in States
       \/ Returned \in {"EOF", "ERROR"} /\ state' = Returned /\ items' = items
       \/ /\ Returned \in Types \ {"ERROR"} /\ state' \in States
          /\ items' = SubSeq(items, 2, Len(items))
          /\ agree' = TRUE => items # <<>> /\ Head(items).type = Returned
  BY <1>1, <1>2, TurnReturns
<1> QED BY <1>3, <1>12, <1>13, <1>14, <1>15, <1>16

LEMMA FileInvariance == FileSpec => [](PartsOK /\ (~escaped => FInv))
<1>1. FileInit => FInv
  BY InitFile
<1>2. /\ ~escaped => FInv
      /\ PartsOK /\ PartsOK' /\ [FileNext]_fileVars
      /\ [ParserProofs!Judged]_(ParserProofs!vars)
      => (~escaped' => FInv')
  <2> SUFFICES ASSUME ~escaped => FInv, PartsOK, PartsOK', [FileNext]_fileVars,
                      [ParserProofs!Judged]_(ParserProofs!vars), ~escaped'
               PROVE  FInv'
    OBVIOUS
  <2>1. ~escaped /\ FInv
    <3>1. ~escaped
      BY FileStep, EscapedStays
    <3> QED BY <3>1
  <2>2. IInv /\ IInv'
    BY <2>1 DEF PartsOK
  <2>3. CASE Parse
    <3>1. tokens' # tokens => (result' = "false" <=> ~ParserProofs!PlaceOK(tokens', Len(tokens')))
      BY DEF ParserProofs!Judged, ParserProofs!vars
    <3> QED BY <2>1, <2>2, <2>3, <3>1, ParseFileInv
  <2>4. CASE WriteFile
    BY <2>1, <2>2, <2>4, WriteFileInv
  <2>5. CASE UNCHANGED fileVars
    BY <2>1, <2>5 DEF fileVars, vars, parserVars, FInv, InStep, Reason, Taken
  <2> QED BY <2>3, <2>4, <2>5 DEF FileNext
<1> QED BY <1>1, <1>2, PartsHold, PTL DEF FileSpec

-----------------------------------------------------------------------------
\* At the end of the file Parse has read all of it, but for a last plain word
\* that nothing ends.
LEMMA AllIsRead ==
  ASSUME PartsOK, FInv, ~escaped, state = "EOF"
  PROVE  closed /\ ~InQuotes /\ (~Unended => written = tokens)
<1>1. EndIsSeen
  BY EndSeen DEF PartsOK
<1>2. closed /\ ~InQuotes /\ (after # "plain" => Len(items) = 0)
  BY <1>1 DEF EndIsSeen
<1>3. tokens \in Seq(Types) /\ Len(tokens) \in Nat
  BY TypesAre DEF PartsOK, ParserProofs!GInv
<1>4. PICK t \in Nat : t = Len(tokens) /\ t = Taken
  BY <1>3 DEF Taken
<1>5. written \in Seq(Types) /\ Len(written) = t + Len(items) /\ \A i \in 1 .. t : written[i] = tokens[i]
  BY <1>4 DEF FInv, InStep
<1>6. ASSUME ~Unended PROVE written = tokens
  <2>1. Len(written) = t
    BY <1>2, <1>5, <1>6 DEF Unended
  <2> QED BY <1>3, <1>4, <1>5, <2>1, SeqEqual
<1> QED BY <1>2, <1>6

\* A file is accepted only when all of it is read, no quote is open, and its
\* items, if no word is left unended, are of the grammar; the tree that Parse
\* leaves is theirs: ParseToken and Parse together, for files of every length and
\* words of every length, none of them nothing but escapes.
THEOREM FilesAreAccepted == FileSpec => []AcceptedAsWritten
<1>1. PartsOK /\ (~escaped => FInv) => AcceptedAsWritten
  <2> SUFFICES ASSUME PartsOK, FInv, ~escaped, result = "true"
               PROVE  /\ closed /\ ~InQuotes
                      /\ ~Unended => Parser!IsConfig(written) /\ configs = Parser!TreeOf(written)
    BY DEF AcceptedAsWritten
  <2>1. state = "EOF"
    BY DEF FInv, Reason
  <2>2. closed /\ ~InQuotes /\ (~Unended => written = tokens)
    BY <2>1, AllIsRead
  <2>3. ParserProofs!IsConfig(tokens)
    BY DEF PartsOK, ParserProofs!GInv, ParserProofs!AcceptsTheGrammar
  <2>4. configs = ParserProofs!TreeOf(tokens)
    BY DEF PartsOK, ParserProofs!TreeIsTheFile
  <2>5. Parser!IsConfig(tokens)
    BY <2>3, SameGrammar
  <2>6. configs = Parser!TreeOf(tokens)
    BY <2>4, SameTree
  <2> QED BY <2>2, <2>5, <2>6
<1> QED BY <1>1, FileInvariance, PTL

\* A file is rejected only for an item that is out of place, or for its end:
\* no escape, quote or comment makes Parse give up on a good one.
THEOREM FilesAreRejected == FileSpec => []RejectedForCause
<1>1. PartsOK /\ (~escaped => FInv) => RejectedForCause
  <2> SUFFICES ASSUME PartsOK, FInv, ~escaped, result = "false"
               PROVE  \/ \E i \in DOMAIN written : ~Parser!PlaceOK(written, i)
                      \/ closed /\ (InQuotes \/ Unended \/ ~Parser!IsConfig(written))
    BY DEF RejectedForCause
  <2>1. tokens \in Seq(Types) /\ Len(tokens) \in Nat
    BY TypesAre DEF PartsOK, ParserProofs!GInv
  <2>2. /\ written \in Seq(Types) /\ items \in Seq(Items) /\ Taken \in Nat
        /\ Len(written) = Taken + Len(items) /\ DOMAIN written = 1 .. Len(written)
        /\ \A i \in 1 .. Taken : written[i] = tokens[i]
    BY DEF FInv, InStep
  <2>3. \A i \in 1 .. Len(items) : written[Taken + i] = items[i].type
    BY DEF FInv, InStep
  <2>4. CASE state = "EOF"
    <3>1. closed /\ (~Unended => written = tokens)
      BY <2>4, AllIsRead
    <3>2. ~ParserProofs!IsConfig(tokens)
      BY DEF PartsOK, ParserProofs!GInv, ParserProofs!AcceptsTheGrammar
    <3>3. ~Parser!IsConfig(tokens)
      BY <3>2, SameGrammar
    <3> QED BY <3>1, <3>3
  <2>5. CASE state = "ERROR"
    <3>1. EndIsSeen
      BY EndSeen DEF PartsOK
    <3>2. CASE items # <<>> /\ Head(items).type = "ERROR"
      <4>1. 1 \in 1 .. Len(items) /\ Head(items) = items[1]
        BY <2>2, <3>2
      <4>2. written[Taken + 1] = "ERROR"
        BY <2>3, <3>2, <4>1
      <4>3. Taken + 1 \in DOMAIN written
        BY <2>2, <4>1
      <4>4. ~Parser!PlaceOK(written, Taken + 1)
        BY <4>2 DEF Parser!PlaceOK
      <4> QED BY <4>3, <4>4
    <3> QED BY <2>5, <3>1, <3>2 DEF EndIsSeen
  <2>6. CASE state \notin {"EOF", "ERROR"}
    <3>1. Len(tokens) # 0 /\ ~ParserProofs!PlaceOK(tokens, Len(tokens))
      BY <2>6 DEF FInv, Reason
    <3>2. Taken = Len(tokens)
      BY <2>6 DEF Taken
    <3>3. PICK t \in Nat \ {0} : t = Len(tokens)
      BY <2>1, <3>1
    <3>4. \A i \in 1 .. t : written[i] = tokens[i]
      BY <2>2, <3>2, <3>3
    <3>5. ~ParserProofs!PlaceOK(tokens, t)
      BY <3>1, <3>3
    <3>6. ParserProofs!PlaceOK(written, t) <=> ParserProofs!PlaceOK(tokens, t)
      BY <3>4, ParserProofs!PlaceOfPart
    <3>7. ~Parser!PlaceOK(written, t)
      BY <3>5, <3>6, SamePlace
    <3>8. t \in DOMAIN written
      BY <2>2, <3>2, <3>3
    <3> QED BY <3>7, <3>8
  <2> QED BY <2>4, <2>5, <2>6
<1> QED BY <1>1, FileInvariance, PTL

-----------------------------------------------------------------------------
(* What is proved of Parse for any tokens holds of those of a file.        *)

\* However a file is written, Parse asks neither an empty stack for its top nor
\* an empty vector for its last statement.
THEOREM ParseIsDefined == FileSpec => []NeverUndefined
<1>1. ParserProofs!Spec => []ParserProofs!NeverUndefined
  BY ParserProofs!ParserIsDefined
<1>2. ParserProofs!NeverUndefined => NeverUndefined
  BY DEF ParserProofs!NeverUndefined, NeverUndefined, Parser!NeverUndefined
<1> QED BY <1>1, <1>2, PartsRun, PTL

\* However a file is written, the two stacks are those of its open blocks.
THEOREM StacksAgreeAlways == FileSpec => []StacksAgree
<1>1. ParserProofs!Spec => []ParserProofs!StacksAgree
  BY ParserProofs!StacksAlwaysAgree
<1>2. ParserProofs!StacksAgree => StacksAgree
  BY DEF ParserProofs!StacksAgree, ParserProofs!Statements, StacksAgree, Parser!StacksAgree,
    Parser!Statements
<1> QED BY <1>1, <1>2, PartsRun, PTL

\* Parse returns true of the tokens of the grammar, and false of all others.
THEOREM GrammarIsAccepted == FileSpec => []AcceptsTheGrammar
<1>1. ParserProofs!Spec => []ParserProofs!AcceptsTheGrammar
  BY ParserProofs!ParseAcceptsTheGrammar
<1>2. ParserProofs!AcceptsTheGrammar => AcceptsTheGrammar
  BY SameGrammar DEF ParserProofs!AcceptsTheGrammar, AcceptsTheGrammar, Parser!AcceptsTheGrammar
<1> QED BY <1>1, <1>2, PartsRun, PTL

\* The tree of an accepted file is that of the tokens ParseToken has returned.
THEOREM TreeIsBuilt == FileSpec => []TreeIsTheFile
<1>1. ParserProofs!Spec => []ParserProofs!TreeIsTheFile
  BY ParserProofs!ParseBuildsTheFile
<1>2. ParserProofs!TreeIsTheFile => TreeIsTheFile
  BY SameTree DEF ParserProofs!TreeIsTheFile, TreeIsTheFile, Parser!TreeIsTheFile
<1> QED BY <1>1, <1>2, PartsRun, PTL

\* Parse stops at the first token that is out of place, and at no other.
THEOREM RejectsAtOnce == FileSpec => RejectsWhatIsOutOfPlace
<1>1. FileSpec => [][ParserProofs!Judged]_(ParserProofs!vars)
  BY PartsHold
<1>2. [ParserProofs!Judged]_(ParserProofs!vars) =>
      [tokens' # tokens => (result' = "false" <=> ~Parser!PlaceOK(tokens', Len(tokens')))]_(Parser!vars)
  BY SamePlace DEF ParserProofs!Judged, ParserProofs!vars, Parser!vars
<1> QED BY <1>1, <1>2, PTL DEF RejectsWhatIsOutOfPlace, Parser!RejectsWhatIsOutOfPlace
=============================================================================
