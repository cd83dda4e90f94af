--------------------------- MODULE HandlersProofs ---------------------------
(***************************************************************************)
(* For any locations, targets, files and web: what a handler relies on the *)
(* dispatcher for, and what its answers are worth.                         *)
(***************************************************************************)
EXTENDS Handlers, PathsProofs

\* The handler was chosen by a prefix that the stripped target begins with.
CallOK ==
  /\ call.target \in Targets
  /\ call.prefix \in DOMAIN Locations
  /\ Matches(call.prefix, Strip(call.target))

\* Only the file handler opens, and only the proxy issues requests.
PlaceOK ==
  /\ at \in {"opened", "reading"} => IsFileCall /\ HasFile(call.target)
  /\ at = "issue" => Handler.type = "ProxyHandler"

FilesOK == files \in [FilePaths -> Contents \cup {"directory", "nothing"}]

\* What is at the path of the call has been noticed, and what was read of it, and
\* an opened path was one where there was something.
SeenOK ==
  /\ IsFileCall /\ HasFile(call.target) => AtPath(PathOfCall) \in seen
  /\ at \in {"opened", "reading"} => seen # {"nothing"}
  /\ at = "reading" => opened \in seen
  /\ \A k \in DOMAIN payload : payload[k] \in seen

\* What is open, and what was read of it.
OpenedOK ==
  /\ opened \in Contents \cup {"directory", "nothing", "none"} /\ linked \in BOOLEAN
  /\ payload \in Seq(Contents) /\ Len(payload) <= Pieces

\* The web has answered in one of the ways there are.
WebOK == \A r \in DOMAIN web : web[r] \in Answers

IInv ==
  /\ CallOK /\ PlaceOK /\ FilesOK /\ SeenOK /\ OpenedOK /\ WebOK
  /\ ThrowsOnDirectoriesOnly /\ AnswerWasTrue
  /\ NoFollowableRedirect /\ ResponseIsLastAnswer

-----------------------------------------------------------------------------
\* The dispatcher finds a prefix for every target that begins with a slash.
LEMMA PrefixIsFound ==
  ASSUME NEW target \in Targets
  PROVE  PrefixFor(target) \in Matching(target)
<1> DEFINE M == Matching(target)
           path == Strip(target)
           lengths == {Len(p) : p \in M}
<1>1. path \in Seq(STRING) /\ path # <<>> /\ path[1] = "/" /\ Len(path) \in Nat \ {0}
  BY TargetsAssumption, StripIsPrefix, EmptySeq
<1>2. Root \in M
  BY <1>1, RootMatches, LocationsAssumption DEF Matching
<1>3. lengths \in SUBSET (0 .. Len(path)) /\ lengths # {}
  <2>1. ASSUME NEW p \in M PROVE Len(p) \in 0 .. Len(path)
    <3>1. p \in Seq(STRING) /\ Len(p) <= Len(path)
      BY LocationsAssumption DEF Matching, Matches
    <3> QED BY <1>1, <3>1
  <2> QED BY <1>2, <2>1
<1>4. PICK n \in lengths : \A m \in lengths : m <= n
  <2> HIDE DEF lengths
  <2> QED BY <1>1, <1>3, LargestExists
<1>5. PICK p \in M : \A q \in M : Len(q) <= Len(p)
  BY <1>4
<1> QED BY <1>5 DEF PrefixFor

\* A prefix that matches the stripped target is no longer than the target.
LEMMA PrefixFits ==
  ASSUME CallOK
  PROVE  Len(call.prefix) <= Len(call.target)
<1>1. /\ Len(call.prefix) \in Nat /\ Len(call.target) \in Nat
      /\ Len(Strip(call.target)) \in Nat
      /\ Len(Strip(call.target)) <= Len(call.target)
  BY TargetsAssumption, LocationsAssumption, StripIsPrefix DEF CallOK
<1>2. Len(call.prefix) <= Len(Strip(call.target))
  BY MatchIsNoLonger DEF CallOK
<1> QED BY <1>1, <1>2

LEMMA InitInv == Init => IInv
<1> SUFFICES ASSUME Init PROVE IInv
  OBVIOUS
<1>1. CallOK
  BY PrefixIsFound DEF Init, CallInit, CallOK, Matching
<1>2. FilesOK
  BY DEF Init, FileInit, FilesOK
<1>3. SeenOK /\ OpenedOK
  <2>1. payload = <<>> /\ DOMAIN payload = {} /\ payload \in Seq(Contents) /\ Len(payload) = 0
    BY DEF Init, FileInit
  <2>2. 0 <= Pieces
    BY PiecesAssumption
  <2> QED BY <2>1, <2>2 DEF Init, FileInit, SeenOK, OpenedOK, CallInit
<1>4. /\ PlaceOK /\ ThrowsOnDirectoriesOnly /\ AnswerWasTrue
      /\ NoFollowableRedirect /\ ResponseIsLastAnswer
  BY DEF Init, CallInit, PlaceOK, ThrowsOnDirectoriesOnly, AnswerWasTrue,
         NoFollowableRedirect, ResponseIsLastAnswer, Answered
<1>5. WebOK
  BY DEF Init, ProxyInit, WebOK
<1> QED BY <1>1, <1>2, <1>3, <1>4, <1>5 DEF IInv

-----------------------------------------------------------------------------
\* The handlers without any state of their own.
LEMMA AnswerInv ==
  ASSUME IInv, Answer, UNCHANGED <<fileVars, proxyVars>>
  PROVE  IInv'
<1>1. /\ UNCHANGED <<call, files, opened, linked, payload, seen, web>>
      /\ at' \in {"asleep", "returned"}
      /\ Handler.type \in {"EchoHandler", "HealthHandler", "404Handler", "SleepHandler"}
  BY DEF Answer, Echo, Health, Handle404, SleepFirst, WakeUp, Step, Return, fileVars, proxyVars
<1>2. CallOK' /\ PlaceOK' /\ FilesOK' /\ SeenOK' /\ OpenedOK' /\ WebOK'
  BY <1>1 DEF IInv, CallOK, PlaceOK, FilesOK, SeenOK, OpenedOK, WebOK, AtPath, PathOfCall,
              IsFileCall, Handler
<1>3. /\ ThrowsOnDirectoriesOnly' /\ AnswerWasTrue'
      /\ NoFollowableRedirect' /\ ResponseIsLastAnswer'
  BY <1>1 DEF ThrowsOnDirectoriesOnly, AnswerWasTrue, NoFollowableRedirect, ResponseIsLastAnswer,
              Answered, IsCallOf, Handler
<1> QED BY <1>2, <1>3 DEF IInv

\* What may be found at a path.
LEMMA FoundAtPath ==
  ASSUME FilesOK, NEW path
  PROVE  AtPath(path) \in Contents \cup {"directory", "nothing"}
  BY DEF FilesOK, AtPath

LEMMA HandleFileInv ==
  ASSUME IInv, HandleFile, UNCHANGED proxyVars
  PROVE  IInv'
<1>1. /\ UNCHANGED <<call, files, seen, web>>
      /\ Handler.type = "FileHandler"
      /\ at' \in {"opened", "reading", "returned", "threw"}
  BY DEF HandleFile, NotGet, NeedFilePath, OpenFile, OpenAgain, ReadDirectory, ReadPiece, ReadEnd,
         Step, Return, Throw, fileVars, callVars, proxyVars
<1>2. CallOK' /\ FilesOK' /\ WebOK'
  BY <1>1 DEF IInv, CallOK, FilesOK, WebOK
<1>3. NoFollowableRedirect' /\ ResponseIsLastAnswer'
  BY <1>1 DEF NoFollowableRedirect, ResponseIsLastAnswer, Answered, IsCallOf, Handler
<1> DEFINE found == AtPath(PathOfCall)
<1>4. found \in Contents \cup {"directory", "nothing"}
  BY FoundAtPath DEF IInv
<1>5. UNCHANGED <<found, Handler>>
  BY <1>1 DEF AtPath, PathOfCall, Handler
<1> HIDE DEF found
<1>6. HasFile(call.target) => found \in seen
  BY <1>1 DEF IInv, SeenOK, IsFileCall, found
<1>7. at \in {"opened", "reading"} => HasFile(call.target) /\ seen # {"nothing"}
  BY DEF IInv, PlaceOK, SeenOK
<1>8. \A k \in DOMAIN payload : payload[k] \in seen
  BY DEF IInv, SeenOK
<1>9. CASE NotGet \/ NeedFilePath
  <2>1. /\ at' = "returned" /\ (call.method # "GET" \/ ~HasFile(call.target))
        /\ UNCHANGED <<opened, linked, payload>>
    BY <1>9 DEF NotGet, NeedFilePath, Return, fileVars
  <2>2. SeenOK' /\ OpenedOK'
    BY <1>1, <1>5, <1>6, <1>8, <2>1 DEF IInv, SeenOK, OpenedOK, found
  <2> QED BY <1>1, <1>2, <1>3, <2>1, <2>2 DEF IInv, PlaceOK,
             ThrowsOnDirectoriesOnly, AnswerWasTrue
<1>10. CASE OpenFile
  <2>1. HasFile(call.target) /\ UNCHANGED <<opened, linked, payload>>
    BY <1>10 DEF OpenFile, fileVars
  <2>2. CASE found = "nothing"
    <3>1. at' = "returned" /\ response' = NotFound
      BY <1>10, <2>2 DEF OpenFile, Return, found
    <3>2. AnswerWasTrue'
      BY <1>1, <1>6, <2>1, <2>2, <3>1 DEF AnswerWasTrue, NotFound
    <3>3. SeenOK' /\ OpenedOK'
      BY <1>1, <1>5, <1>6, <1>8, <2>1, <3>1 DEF IInv, SeenOK, OpenedOK, found
    <3> QED BY <1>1, <1>2, <1>3, <3>1, <3>2, <3>3 DEF IInv, PlaceOK, ThrowsOnDirectoriesOnly
  <2>3. CASE found # "nothing"
    <3>1. at' = "opened"
      BY <1>10, <2>3 DEF OpenFile, found
    <3>2. SeenOK' /\ OpenedOK'
      BY <1>1, <1>5, <1>6, <1>8, <2>1, <2>3, <3>1 DEF IInv, SeenOK, OpenedOK, found
    <3>3. PlaceOK'
      BY <1>1, <1>5, <2>1, <3>1 DEF PlaceOK, IsFileCall
    <3> QED BY <1>2, <1>3, <3>1, <3>2, <3>3 DEF IInv, ThrowsOnDirectoriesOnly, AnswerWasTrue, Answered
  <2> QED BY <2>2, <2>3
<1>11. CASE OpenAgain
  <2>1. /\ at = "opened" /\ at' = "reading" /\ opened' = found /\ linked' = TRUE
        /\ UNCHANGED payload
    BY <1>11 DEF OpenAgain, Step, found
  <2>2. SeenOK'
    BY <1>1, <1>5, <1>6, <1>7, <1>8, <2>1 DEF SeenOK, found
  <2>3. OpenedOK'
    BY <1>4, <2>1 DEF IInv, OpenedOK
  <2>4. PlaceOK'
    BY <1>1, <1>5, <1>7, <2>1 DEF PlaceOK, IsFileCall
  <2> QED BY <1>2, <1>3, <2>1, <2>2, <2>3, <2>4 DEF IInv, ThrowsOnDirectoriesOnly, AnswerWasTrue, Answered
<1>12. CASE ReadDirectory
  <2>1. /\ at = "reading" /\ at' = "threw" /\ opened = "directory"
        /\ UNCHANGED <<opened, linked, payload>>
    BY <1>12 DEF ReadDirectory, Step, Throw, fileVars
  <2>2. "directory" \in seen
    BY <2>1 DEF IInv, SeenOK
  <2>3. SeenOK' /\ OpenedOK'
    BY <1>1, <1>5, <1>6, <1>8, <2>1 DEF IInv, SeenOK, OpenedOK, found
  <2> QED BY <1>1, <1>2, <1>3, <1>5, <2>1, <2>2, <2>3 DEF IInv, PlaceOK, ThrowsOnDirectoriesOnly,
             AnswerWasTrue, Answered, IsCallOf
<1>13. CASE ReadPiece
  <2>1. /\ at = "reading" /\ at' = "reading" /\ opened \in Contents /\ Len(payload) < Pieces
        /\ payload' = Append(payload, opened) /\ UNCHANGED <<opened, linked>>
    BY <1>13 DEF ReadPiece, Step, callVars
  <2>2. payload \in Seq(Contents) /\ Len(payload) \in Nat /\ Pieces \in Nat
    BY PiecesAssumption DEF IInv, OpenedOK
  <2>3. /\ payload' \in Seq(Contents) /\ Len(payload') = Len(payload) + 1
        /\ DOMAIN payload' = 1 .. Len(payload) + 1
        /\ \A k \in DOMAIN payload' : payload'[k] = IF k \in DOMAIN payload THEN payload[k] ELSE opened
    BY <2>1, <2>2
  <2>4. opened \in seen
    BY <2>1 DEF IInv, SeenOK
  <2>5. SeenOK'
    BY <1>1, <1>5, <1>6, <1>7, <1>8, <2>1, <2>3, <2>4 DEF SeenOK, found
  <2>6. OpenedOK'
    BY <2>1, <2>2, <2>3 DEF IInv, OpenedOK
  <2>7. PlaceOK'
    BY <1>1, <1>5, <1>7, <2>1 DEF PlaceOK, IsFileCall
  <2> QED BY <1>2, <1>3, <2>1, <2>5, <2>6, <2>7 DEF IInv, ThrowsOnDirectoriesOnly, AnswerWasTrue, Answered
<1>14. CASE ReadEnd
  <2>1. /\ at = "reading" /\ at' = "returned" /\ UNCHANGED <<opened, linked, payload>>
        /\ opened = "nothing" \/ payload # <<>>
        /\ response'.status = 200
        /\ response'.body = IF payload = <<>> THEN "empty" ELSE "payload"
    BY <1>14 DEF ReadEnd, Step, Return, fileVars
  <2>2. opened \in seen /\ seen # {"nothing"}
    BY <1>7, <2>1 DEF IInv, SeenOK
  <2>3. AnswerWasTrue'
    BY <1>1, <1>8, <2>1, <2>2 DEF AnswerWasTrue
  <2>4. SeenOK' /\ OpenedOK'
    BY <1>1, <1>5, <1>6, <1>8, <2>1 DEF IInv, SeenOK, OpenedOK, found
  <2> QED BY <1>1, <1>2, <1>3, <2>1, <2>3, <2>4 DEF IInv, PlaceOK, ThrowsOnDirectoriesOnly
<1> QED BY <1>9, <1>10, <1>11, <1>12, <1>13, <1>14 DEF HandleFile

\* Others change the files while the handler opens and reads.
LEMMA FilesChangeInv ==
  ASSUME IInv, FilesChange, UNCHANGED proxyVars
  PROVE  IInv'
<1>1. /\ UNCHANGED <<call, at, response, payload, web, hop>>
      /\ at \in {"called", "opened", "reading"}
      /\ seen' = Look({AtPath(PathOfCall)'})
      /\ UNCHANGED Handler
  BY DEF FilesChange, Replace, Rewrite, callVars, proxyVars, Handler
<1>2. /\ FilesOK'
      /\ opened' = opened \/ (opened' \in Contents /\ opened' = AtPath(PathOfCall)')
      /\ linked \in BOOLEAN => linked' \in BOOLEAN
  <2>1. CASE Replace
    BY <2>1 DEF IInv, FilesOK, Replace
  <2>2. CASE Rewrite
    <3>1. PICK p \in FilePaths, c \in Contents :
            /\ files' = [files EXCEPT ![p] = c]
            /\ opened' = IF linked /\ p = PathOfCall THEN c ELSE opened
      BY <2>2 DEF Rewrite
    <3>2. UNCHANGED <<linked, PathOfCall>>
      BY <1>1, <2>2 DEF Rewrite, PathOfCall
    <3>3. FilesOK'
      BY <3>1 DEF IInv, FilesOK
    <3>4. ASSUME opened' # opened PROVE opened' \in Contents /\ opened' = AtPath(PathOfCall)'
      <4>1. p = PathOfCall /\ opened' = c
        BY <3>1, <3>4
      <4> QED BY <3>1, <3>2, <4>1 DEF IInv, FilesOK, AtPath
    <3> QED BY <3>2, <3>3, <3>4
  <2> QED BY <2>1, <2>2 DEF FilesChange
<1>3. SeenOK'
  <2>1. seen # {} => AtPath(PathOfCall)' \in seen' /\ seen \subseteq seen'
    BY <1>1 DEF Look
  <2>2. seen \subseteq seen'
    BY <1>1 DEF Look
  <2>3. IsFileCall' /\ HasFile(call'.target) => AtPath(PathOfCall)' \in seen'
    BY <1>1, <2>1 DEF IInv, SeenOK, IsFileCall
  <2>4. at' \in {"opened", "reading"} => seen # {"nothing"} /\ seen # {}
    BY <1>1 DEF IInv, SeenOK, PlaceOK
  <2>5. at' = "reading" => opened' \in seen'
    BY <1>1, <1>2, <2>1, <2>2, <2>4 DEF IInv, SeenOK
  <2>6. \A k \in DOMAIN payload' : payload'[k] \in seen'
    BY <1>1, <2>2 DEF IInv, SeenOK
  <2> QED BY <2>2, <2>3, <2>4, <2>5, <2>6 DEF SeenOK
<1>4. CallOK' /\ PlaceOK' /\ OpenedOK' /\ WebOK'
  BY <1>1, <1>2 DEF IInv, CallOK, PlaceOK, OpenedOK, WebOK, IsFileCall
<1>5. /\ ThrowsOnDirectoriesOnly' /\ AnswerWasTrue'
      /\ NoFollowableRedirect' /\ ResponseIsLastAnswer'
  BY <1>1 DEF ThrowsOnDirectoriesOnly, AnswerWasTrue, NoFollowableRedirect, ResponseIsLastAnswer,
              Answered
<1> QED BY <1>2, <1>3, <1>4, <1>5 DEF IInv

\* Only the first of a content type's parts is left, in any answer.
LEMMA HoldingType ==
  ASSUME NEW answer \in Answers
  PROVE  /\ answer.status \in {200, 301, 404}
         /\ TypeOnly(answer.type) \in {<<>>, <<"text/html">>}
         /\ (TypeOnly(answer.type) = <<>>) = (answer.type = <<>>)
<1>1. answer.type \in {<<>>, <<"text/html">>, <<"text/html", "charset">>}
  BY DEF Answers, Page, Redirect
<1>2. /\ TypeOnly(<<>>) = <<>>
      /\ TypeOnly(<<"text/html">>) = <<"text/html">>
      /\ TypeOnly(<<"text/html", "charset">>) = <<"text/html">>
  <2> DEFINE bare == <<"text/html">>
             full == <<"text/html", "charset">>
             words == {"text/html", "charset"}
  <2>1. bare \in Seq(words) /\ bare # <<>> /\ bare[1] = "text/html"
    <3>1. bare \in Seq(words) /\ Len(bare) = 1
      OBVIOUS
    <3>2. bare[1] = "text/html"
      OBVIOUS
    <3> QED BY <3>1, <3>2, EmptySeq
  <2>5. full \in Seq(words) /\ full # <<>> /\ full[1] = "text/html"
    <3>1. full \in Seq(words) /\ Len(full) = 2
      OBVIOUS
    <3>2. full[1] = "text/html"
      OBVIOUS
    <3> QED BY <3>1, <3>2, EmptySeq
  <2>2. SubSeq(<<>>, 1, 0) = <<>>
    BY SubSeqEmpty
  <2>3. SubSeq(<<"text/html">>, 1, 1) = <<"text/html">>
    BY <2>1, FirstAlone
  <2>4. SubSeq(<<"text/html", "charset">>, 1, 1) = <<"text/html">>
    BY <2>5, FirstAlone
  <2> QED BY <2>1, <2>2, <2>3, <2>4, <2>5 DEF TypeOnly
<1>3. answer.status \in {200, 301, 404}
  BY DEF Answers, Page, Redirect
<1> QED BY <1>1, <1>2, <1>3

LEMMA HandleProxyInv ==
  ASSUME IInv, HandleProxy, UNCHANGED fileVars
  PROVE  IInv'
<1>1. /\ UNCHANGED <<call, files, opened, linked, payload, seen>>
      /\ Handler.type = "ProxyHandler"
  BY DEF HandleProxy, ProxyRequest, OtherPort, ExchangeFails, GetPage, Follow, Overflow, Step,
         Return, Throw, fileVars, callVars
<1>2. UNCHANGED Handler
  BY <1>1 DEF Handler
<1>3. at' \in {"issue", "returned", "overflow"}
  <2>1. ~(Len(call.prefix) > Len(call.target))
    <3>1. Len(call.prefix) <= Len(call.target) /\ Len(call.prefix) \in Nat /\ Len(call.target) \in Nat
      BY PrefixFits, TargetsAssumption, LocationsAssumption DEF IInv, CallOK
    <3> QED BY <3>1
  <2> QED BY <2>1 DEF HandleProxy, ProxyRequest, OtherPort, ExchangeFails, GetPage, Follow,
                      Overflow, Step, Return, callVars
<1>4. /\ CallOK' /\ PlaceOK' /\ FilesOK' /\ SeenOK' /\ OpenedOK'
      /\ ThrowsOnDirectoriesOnly' /\ AnswerWasTrue'
  BY <1>1, <1>2, <1>3 DEF IInv, CallOK, PlaceOK, FilesOK, SeenOK, OpenedOK, AtPath, PathOfCall,
         ThrowsOnDirectoriesOnly, AnswerWasTrue, Answered, IsCallOf, IsFileCall
<1>5. ASSUME NEW answer \in AnswersTo(hop) PROVE answer \in Answers
  BY DEF AnswersTo, IInv, WebOK
<1>6. ASSUME NEW answer \in Answers, Learn(hop, answer)
      PROVE  WebOK' /\ hop \in DOMAIN web' /\ web'[hop] = answer
  BY <1>6 DEF Learn, IInv, WebOK
<1>7. CASE ProxyRequest \/ OtherPort \/ ExchangeFails \/ Overflow
  <2>1. UNCHANGED web /\ (at' = "returned" => response' = Default)
    BY <1>3, <1>7 DEF ProxyRequest, OtherPort, ExchangeFails, Overflow, Return, Throw, proxyVars
  <2> QED BY <1>4, <2>1 DEF IInv, WebOK, NoFollowableRedirect, ResponseIsLastAnswer,
                             Answered, Default
<1>8. CASE Follow
  <2>1. WebOK' /\ at' = "issue"
    BY <1>5, <1>6, <1>8 DEF Follow, Step, callVars
  <2> QED BY <1>4, <2>1 DEF IInv, NoFollowableRedirect, ResponseIsLastAnswer, Answered
<1>9. CASE GetPage
  <2>1. PICK answer \in AnswersTo(hop) :
          ~Followed(answer) /\ Learn(hop, answer) /\ Return(Holding(answer)) /\ UNCHANGED hop
    BY <1>9 DEF GetPage
  <2>2. answer \in Answers /\ WebOK' /\ hop \in DOMAIN web' /\ web'[hop] = answer
    BY <1>5, <1>6, <2>1
  <2>3. ASSUME answer.status = 301 PROVE answer.location.protocol \notin Protocols
    BY <2>1, <2>2, <2>3 DEF Answers, Page, Redirect, Followed, Followable
  <2>4. response'.status = answer.status /\ response'.type = TypeOnly(answer.type)
    BY <2>1 DEF Return, Holding
  <2>5. NoFollowableRedirect'
    BY <2>1, <2>2, <2>3, <2>4 DEF NoFollowableRedirect
  <2>6. /\ TypeOnly(answer.type) \in {<<>>, <<"text/html">>}
        /\ (TypeOnly(answer.type) = <<>>) = (answer.type = <<>>)
    BY <2>2, HoldingType
  <2>7. ResponseIsLastAnswer'
    BY <2>1, <2>2, <2>4, <2>6 DEF ResponseIsLastAnswer
  <2> QED BY <1>4, <2>2, <2>5, <2>7 DEF IInv
<1> QED BY <1>7, <1>8, <1>9 DEF HandleProxy

LEMMA NextInv == IInv /\ [Next]_vars => IInv'
<1> SUFFICES ASSUME IInv, [Next]_vars PROVE IInv'
  OBVIOUS
<1>1. CASE Answer /\ UNCHANGED <<fileVars, proxyVars>>
  BY <1>1, AnswerInv
<1>2. CASE HandleFile /\ UNCHANGED proxyVars
  BY <1>2, HandleFileInv
<1>3. CASE FilesChange /\ UNCHANGED proxyVars
  BY <1>3, FilesChangeInv
<1>4. CASE HandleProxy /\ UNCHANGED fileVars
  BY <1>4, HandleProxyInv
<1>5. CASE UNCHANGED vars
  BY <1>5 DEF vars, callVars, fileVars, proxyVars, IInv, CallOK, PlaceOK, FilesOK, SeenOK,
              OpenedOK, WebOK, ThrowsOnDirectoriesOnly, AnswerWasTrue, NoFollowableRedirect, ResponseIsLastAnswer,
              Answered, IsCallOf, IsFileCall, AtPath, PathOfCall, Handler
<1> QED BY <1>1, <1>2, <1>3, <1>4, <1>5 DEF Next

LEMMA Invariance == Spec => []IInv
  BY InitInv, NextInv, PTL DEF Spec

-----------------------------------------------------------------------------
\* ProxyHandler's substr(prefix.length()) never throws, whatever the locations
\* and the target: only directories make a handler throw.
THEOREM OnlyDirectoriesThrow == Spec => []ThrowsOnDirectoriesOnly
<1>1. IInv => ThrowsOnDirectoriesOnly
  BY DEF IInv
<1> QED BY <1>1, Invariance, PTL

\* FileHandler opens a file twice and reads it piece by piece: however others
\* replace, remove or rewrite it meanwhile, no answer is made up.
THEOREM AnswersWereTrue == Spec => []AnswerWasTrue
<1>1. IInv => AnswerWasTrue
  BY DEF IInv
<1> QED BY <1>1, Invariance, PTL

\* issue_outside_request never gives its caller a redirection it could follow,
\* however the web answers.
THEOREM RedirectionsAreFollowed == Spec => []NoFollowableRedirect
<1>1. IInv => NoFollowableRedirect
  BY DEF IInv
<1> QED BY <1>1, Invariance, PTL

\* What a proxy's client gets is the answer to the last request of the chain,
\* or the empty response, however many redirections and whatever fails.
THEOREM LastAnswerIsReturned == Spec => []ResponseIsLastAnswer
<1>1. IInv => ResponseIsLastAnswer
  BY DEF IInv
<1> QED BY <1>1, Invariance, PTL

-----------------------------------------------------------------------------
(* The file a target names, and its type.                                  *)

LEMMA KnownTypesAre ==
  /\ KnownTypes[1][1] = ".html" /\ KnownTypes[1][2] = "text/html"
  /\ KnownTypes[2][1] = ".txt" /\ KnownTypes[2][2] = "text/plain"
  /\ KnownTypes[3][1] = ".jpg" /\ KnownTypes[3][2] = "image/jpeg"
  /\ KnownTypes[4][1] = ".zip" /\ KnownTypes[4][2] = "application/zip"
  BY DEF KnownTypes

\* The type that is found is the empty one, a known one or "unsupported".
LEMMA MimeTypeIsOne ==
  ASSUME NEW target
  PROVE  MimeType(target) \in
           {"", "text/html", "text/plain", "image/jpeg", "application/zip", "unsupported"}
<1> DEFINE occurs == {target[n] : n \in 1 .. Len(target)} \cap Extensions
           known == {k \in 1 .. 4 : KnownTypes[k][1] \in occurs}
           first == CHOOSE k \in known : \A l \in known : k <= l
<1>1. ASSUME known # {} PROVE first \in 1 .. 4
  <2>1. known \subseteq 1 .. 4
    OBVIOUS
  <2> HIDE DEF known
  <2>2. \E k \in known : \A l \in known : k <= l
    <3>1. CASE 1 \in known
      BY <2>1, <3>1
    <3>2. CASE 1 \notin known /\ 2 \in known
      BY <2>1, <3>2
    <3>3. CASE 1 \notin known /\ 2 \notin known /\ 3 \in known
      BY <2>1, <3>3
    <3>4. CASE 1 \notin known /\ 2 \notin known /\ 3 \notin known
      <4>1. \A k \in known : k = 4
        BY <2>1, <3>4
      <4>2. \E k \in known : TRUE
        BY <1>1
      <4> QED BY <4>1, <4>2
    <3> QED BY <3>1, <3>2, <3>3, <3>4
  <2>3. first \in known
    BY <2>2
  <2> QED BY <2>1, <2>3
<1>2. MimeType(target) = CASE occurs = {} -> ""
                           [] known # {} -> KnownTypes[first][2]
                           [] OTHER -> "unsupported"
  BY DEF MimeType
<1>3. known # {} => occurs # {}
  OBVIOUS
<1> HIDE DEF known, occurs, first
<1>4. CASE known # {}
  <2>1. MimeType(target) = KnownTypes[first][2]
    BY <1>2, <1>3, <1>4
  <2>2. first \in 1 .. 4
    BY <1>1, <1>4
  <2>3. first = 1 \/ first = 2 \/ first = 3 \/ first = 4
    BY <2>2
  <2> QED BY <2>1, <2>3, KnownTypesAre
<1>5. CASE known = {}
  BY <1>2, <1>5
<1> QED BY <1>4, <1>5

ExtensionsIn(target) == {target[i] : i \in 1 .. Len(target)} \cap Extensions

\* Of one extension only, the type is the one that is known for it.
LEMMA MimeTypeOfOne ==
  ASSUME NEW target, NEW k \in 1 .. 4, ExtensionsIn(target) = {KnownTypes[k][1]}
  PROVE  MimeType(target) = KnownTypes[k][2]
<1> DEFINE occurs == {target[n] : n \in 1 .. Len(target)} \cap Extensions
           known == {l \in 1 .. 4 : KnownTypes[l][1] \in occurs}
           first == CHOOSE l \in known : \A m \in known : l <= m
<1>1. MimeType(target) = CASE occurs = {} -> ""
                           [] known # {} -> KnownTypes[first][2]
                           [] OTHER -> "unsupported"
  BY DEF MimeType
<1>2. occurs = {KnownTypes[k][1]}
  BY DEF ExtensionsIn
<1> HIDE DEF occurs
<1>3. \A l \in 1 .. 4 : KnownTypes[l][1] = KnownTypes[k][1] => l = k
  <2>1. \A l \in 1 .. 4 : l = 1 \/ l = 2 \/ l = 3 \/ l = 4
    OBVIOUS
  <2> QED BY <2>1, KnownTypesAre
<1>4. known = {k}
  BY <1>2, <1>3
<1> HIDE DEF known
<1>5. first = k
  BY <1>4
<1> QED BY <1>1, <1>2, <1>4, <1>5

\* The target of a call is the location's prefix and what follows it.
LEMMA CallSplits ==
  ASSUME CallOK
  PROVE  LET target == call.target
             key == call.prefix
             rest == SubSeq(target, Len(key) + 1, Len(target))
         IN  /\ target \in Seq(STRING) /\ key \in Seq(STRING) /\ key # <<>>
             /\ Len(key) <= Len(target) /\ \A i \in 1 .. Len(key) : target[i] = key[i]
             /\ target = key \o rest /\ Len(rest) = Len(target) - Len(key)
             /\ \A i \in 1 .. Len(target) - Len(key) : rest[i] = target[Len(key) + i]
<1> DEFINE target == call.target
           key == call.prefix
           S == STRING
<1>1. target \in Seq(S) /\ key \in Seq(S) /\ key # <<>>
  BY TargetsAssumption, LocationsAssumption DEF CallOK
<1>2. Matches(key, Strip(target))
  BY DEF CallOK
<1> HIDE DEF target, key, S
<1>3. Len(key) <= Len(target) /\ \A i \in 1 .. Len(key) : target[i] = key[i]
  BY <1>1, <1>2, MatchIsPrefix
<1>4. /\ target = key \o SubSeq(target, Len(key) + 1, Len(target))
      /\ Len(SubSeq(target, Len(key) + 1, Len(target))) = Len(target) - Len(key)
      /\ \A i \in 1 .. Len(target) - Len(key) :
           SubSeq(target, Len(key) + 1, Len(target))[i] = target[Len(key) + i]
  BY <1>1, <1>3, PrefixAndRest
<1> QED BY <1>1, <1>3, <1>4, Zenon DEF target, key, S

\* Below a location without a second slash, the file's name starts where the
\* location's prefix ends.
LEMMA FileAfterPrefix ==
  ASSUME CallOK,
         \A i \in 2 .. Len(call.prefix) : call.prefix[i] # "/",
         Len(SubSeq(call.target, Len(call.prefix) + 1, Len(call.target))) > 1,
         SubSeq(call.target, Len(call.prefix) + 1, Len(call.target))[1] = "/"
  PROVE  /\ HasFile(call.target)
         /\ FileStart(call.target) = Len(call.prefix) + 1
<1> DEFINE target == call.target
           key == call.prefix
           k == Len(key)
           n == Len(target)
           rest == SubSeq(target, k + 1, n)
<1>1. target \in Seq(STRING) /\ key \in Seq(STRING) /\ key # <<>>
  BY CallSplits, Zenon
<1>2. k <= n /\ \A i \in 1 .. k : target[i] = key[i]
  BY CallSplits, Zenon
<1>3. Len(rest) = n - k /\ \A i \in 1 .. n - k : rest[i] = target[k + i]
  BY CallSplits, Zenon
<1>4. k \in Nat \ {0} /\ n \in Nat
  BY <1>1, EmptySeq
<1>5. Len(rest) > 1 /\ rest[1] = "/" /\ \A i \in 2 .. k : key[i] # "/"
  BY Zenon
<1> HIDE DEF rest, k, n, target, key
<1>6. n > k + 1 /\ target[k + 1] = "/"
  BY <1>3, <1>4, <1>5
<1> DEFINE slashes == {m \in 2 .. n : target[m] = "/"}
<1>7. k + 1 \in slashes /\ \A m \in slashes : m \in Nat /\ k + 1 <= m
  <2>1. k + 1 \in slashes
    BY <1>4, <1>6
  <2>2. ASSUME NEW m \in slashes PROVE m \in Nat /\ k + 1 <= m
    <3>1. m \in 2 .. n /\ target[m] = "/"
      OBVIOUS
    <3>2. m <= k => m \in 1 .. k /\ m \in 2 .. k
      BY <1>4, <3>1
    <3>3. ~(m <= k)
      BY <1>2, <1>5, <3>1, <3>2
    <3> QED BY <1>4, <3>1, <3>3
  <2> QED BY <2>1, <2>2
<1>8. FileStart(target) = IF slashes = {} THEN 0
                          ELSE CHOOSE m \in slashes : \A l \in slashes : m <= l
  BY DEF FileStart, n
<1> HIDE DEF slashes
<1>9. FileStart(target) = k + 1
  BY <1>4, <1>7, <1>8
<1>10. HasFile(target)
  BY <1>4, <1>6, <1>9 DEF HasFile, n
<1> QED BY <1>9, <1>10 DEF target, k, key

-----------------------------------------------------------------------------
(* Types, and the target that is asked for first.                          *)

\* A file's response carries the type of its target.
TypedOK ==
  Answered("FileHandler") /\ response.status = 200 /\ call.method = "GET" =>
    response.type = <<MimeType(call.target)>>

JInv == IInv /\ TypeOK /\ TypedOK /\ OutgoingTargetIsRest

\* What the handlers answer with.
Types ==
  {<<>>} \cup {<<t>> : t \in
     {"", "text/html", "text/plain", "image/jpeg", "application/zip", "unsupported"}}

Bodies ==
  {"empty", "404 Not Found", "payload", "page", "redirect", "OK",
   "the request", "the request and more", "I slept for 5 seconds!"}

IsResponse(r) == r.status \in {200, 301, 404} /\ r.type \in Types /\ r.body \in Bodies

\* What TypeOK says beyond the other parts of the invariant.
TypesOK ==
  /\ call.method \in Methods
  /\ at \in {"called", "asleep", "opened", "reading", "issue", "returned", "threw", "overflow"}
  /\ IsResponse(response)
  /\ seen \subseteq Contents \cup {"directory", "nothing"}
  /\ DOMAIN hop = {"host", "port", "target"} /\ depth \in 0 .. Stack

LEMMA TypesTogether == IInv => (TypeOK <=> TypesOK)
  BY Zenon DEF IInv, CallOK, FilesOK, OpenedOK, WebOK, TypeOK, TypesOK, IsResponse, Types, Bodies

\* The responses that depend on nothing.
LEMMA FixedResponses ==
  /\ IsResponse(Default)
  /\ NotFound.status = 404 /\ IsResponse(NotFound) /\ IsResponse([NotFound EXCEPT !.type = <<>>])
  /\ \A body \in Bodies : IsResponse(Plain(body))
<1>1. <<>> \in Types /\ <<"text/html">> \in Types /\ <<"text/plain">> \in Types
  BY DEF Types
<1>2. "empty" \in Bodies /\ "404 Not Found" \in Bodies
  BY DEF Bodies
<1> HIDE DEF Types, Bodies
<1>3. IsResponse(Default)
  BY <1>1, <1>2 DEF Default, IsResponse
<1>4. NotFound.status = 404 /\ IsResponse(NotFound)
  BY <1>1, <1>2 DEF NotFound, IsResponse
<1>5. IsResponse([NotFound EXCEPT !.type = <<>>])
  <2> DEFINE r == [NotFound EXCEPT !.type = <<>>]
  <2>1. r.status = 404
    BY DEF NotFound
  <2>2. r.type = <<>>
    BY DEF NotFound
  <2>4. r.body = "404 Not Found"
    BY DEF NotFound
  <2> HIDE DEF r
  <2>3. IsResponse(r)
    BY <1>1, <1>2, <2>1, <2>2, <2>4 DEF IsResponse
  <2> QED BY <2>3 DEF r
<1>6. ASSUME NEW body \in Bodies PROVE IsResponse(Plain(body))
  BY <1>1 DEF Plain, IsResponse
<1> QED BY <1>3, <1>4, <1>5, <1>6

LEMMA TypesNext ==
  ASSUME IInv, TypeOK, [Next]_vars
  PROVE  TypeOK'
<1>1. TypesOK
  BY TypesTogether
<1>2. Stack \in Nat
  BY ProxyAssumption
<1>3. /\ <<>> \in Types /\ <<"text/html">> \in Types /\ <<"text/plain">> \in Types
      /\ \A target : <<MimeType(target)>> \in Types
  BY MimeTypeIsOne DEF Types
<1>4. /\ {"OK", "the request", "the request and more", "I slept for 5 seconds!"} \subseteq Bodies
      /\ {"empty", "payload", "page", "redirect"} \subseteq Bodies
  BY DEF Bodies
<1> SUFFICES TypesOK'
  <2>1. IInv'
    BY NextInv
  <2> QED BY <2>1, Zenon DEF IInv, CallOK, FilesOK, OpenedOK, WebOK, TypeOK, TypesOK, IsResponse,
             Types, Bodies
<1> HIDE DEF Types, Bodies
<1>5. IsResponse(response)
  BY <1>1 DEF TypesOK
<1>6. UNCHANGED call
  BY DEF Next, Answer, Echo, Health, Handle404, SleepFirst, WakeUp, HandleFile, NotGet, NeedFilePath,
         OpenFile, OpenAgain, ReadDirectory, ReadPiece, ReadEnd, FilesChange, Replace, Rewrite,
         HandleProxy, ProxyRequest, OtherPort, ExchangeFails, GetPage, Follow, Overflow, Return,
         Throw, vars, callVars
<1>7. CASE Answer /\ UNCHANGED <<fileVars, proxyVars>>
  <2>1. at' \in {"asleep", "returned"} /\ UNCHANGED <<seen, hop, depth>>
    BY <1>7 DEF Answer, Echo, Health, Handle404, SleepFirst, WakeUp, Return, fileVars, proxyVars
  <2>2. CASE Handle404
    BY <2>2, FixedResponses, <1>1, <1>6, <2>1 DEF Handle404, Return, TypesOK
  <2>3. CASE SleepFirst
    BY <2>3, <1>1, <1>6, <2>1 DEF SleepFirst, TypesOK
  <2>4. CASE Echo \/ Health \/ WakeUp
    <3>1. \E body \in Bodies : response' = Plain(body)
      BY <1>4, <2>4 DEF Echo, Health, WakeUp, Return
    <3> QED BY <1>1, <1>6, <2>1, <3>1, FixedResponses DEF TypesOK
  <2> QED BY <1>7, <2>2, <2>3, <2>4 DEF Answer
<1>8. CASE HandleFile /\ UNCHANGED proxyVars
  <2>1. at' \in {"opened", "reading", "returned", "threw"} /\ UNCHANGED <<seen, hop, depth>>
    BY <1>8 DEF HandleFile, NotGet, NeedFilePath, OpenFile, OpenAgain, ReadDirectory, ReadPiece,
                ReadEnd, Step, Return, Throw, fileVars, callVars, proxyVars
  <2>2. IsResponse(response')
    <3>1. CASE NotGet \/ NeedFilePath \/ OpenFile
      BY <1>5, <3>1, FixedResponses DEF NotGet, NeedFilePath, OpenFile, Return
    <3>2. CASE OpenAgain \/ ReadDirectory \/ ReadPiece
      BY <1>5, <3>2 DEF OpenAgain, ReadDirectory, ReadPiece, Throw, callVars
    <3>3. CASE ReadEnd
      BY <1>3, <1>4, <3>3 DEF ReadEnd, Return, IsResponse
    <3> QED BY <1>8, <3>1, <3>2, <3>3 DEF HandleFile
  <2> QED BY <1>1, <1>6, <2>1, <2>2 DEF TypesOK
<1>9. CASE FilesChange /\ UNCHANGED proxyVars
  <2>1. UNCHANGED <<at, response, hop, depth>> /\ seen' = Look({AtPath(PathOfCall)'})
    BY <1>9 DEF FilesChange, Replace, Rewrite, callVars, proxyVars
  <2>2. AtPath(PathOfCall)' \in Contents \cup {"directory", "nothing"}
    <3>1. FilesOK'
      BY NextInv DEF IInv
    <3> QED BY <3>1 DEF FilesOK, AtPath
  <2>3. seen' \subseteq Contents \cup {"directory", "nothing"}
    BY <1>1, <2>1, <2>2 DEF TypesOK, Look
  <2> QED BY <1>1, <1>6, <2>1, <2>3 DEF TypesOK, IsResponse
<1>10. CASE HandleProxy /\ UNCHANGED fileVars
  <2>1. at' \in {"issue", "returned", "threw", "overflow"} /\ UNCHANGED seen
    BY <1>10 DEF HandleProxy, ProxyRequest, OtherPort, ExchangeFails, GetPage, Follow, Overflow, Step,
                Return, Throw, fileVars, callVars
  <2>2. IsResponse(response') /\ DOMAIN hop' = {"host", "port", "target"} /\ depth' \in 0 .. Stack
    <3>1. CASE ProxyRequest
      BY <1>1, <3>1 DEF ProxyRequest, Throw, TypesOK
    <3>2. CASE OtherPort \/ ExchangeFails \/ Overflow
      BY <1>1, <3>2, FixedResponses DEF OtherPort, ExchangeFails, Overflow, Return, proxyVars, TypesOK
    <3>3. CASE Follow
      BY <1>1, <1>2, <3>3 DEF Follow, callVars, HopTo, TypesOK
    <3>4. CASE GetPage
      <4>1. PICK answer \in AnswersTo(hop) : Return(Holding(answer)) /\ UNCHANGED <<hop, depth>>
        BY <3>4 DEF GetPage
      <4>2. answer \in Answers
        BY <4>1 DEF AnswersTo, IInv, WebOK
      <4>3. answer.status \in {200, 301, 404} /\ TypeOnly(answer.type) \in Types
        BY <1>3, <4>2, HoldingType
      <4>4. answer.kind \in Bodies
        <5>1. answer.kind \in {"page", "redirect"}
          BY <4>2 DEF Answers, Page, Redirect
        <5> QED BY <1>4, <5>1
      <4> QED BY <1>1, <4>1, <4>3, <4>4 DEF Return, Holding, IsResponse, TypesOK
    <3> QED BY <1>10, <3>1, <3>2, <3>3, <3>4 DEF HandleProxy
  <2> QED BY <1>1, <1>6, <2>1, <2>2 DEF TypesOK
<1>11. CASE UNCHANGED vars
  BY <1>1, <1>11 DEF vars, callVars, fileVars, proxyVars, TypesOK, IsResponse
<1> QED BY <1>7, <1>8, <1>9, <1>10, <1>11 DEF Next

LEMMA TypedNext ==
  ASSUME IInv, TypedOK, [Next]_vars
  PROVE  TypedOK'
<1>1. CASE Answer /\ UNCHANGED <<fileVars, proxyVars>>
  <2>1. UNCHANGED call /\ Handler.type # "FileHandler"
    BY <1>1 DEF Answer, Echo, Health, Handle404, SleepFirst, WakeUp, Step, Return
  <2> QED BY <2>1 DEF TypedOK, Answered, IsCallOf, Handler
<1>2. CASE HandleFile /\ UNCHANGED proxyVars
  <2>1. CASE NotGet
    BY <2>1 DEF NotGet, Return, TypedOK
  <2>2. CASE NeedFilePath \/ (OpenFile /\ at' = "returned")
    <3>1. response'.status = 404
      BY <2>2, FixedResponses DEF NeedFilePath, OpenFile, Return
    <3> QED BY <3>1 DEF TypedOK
  <2>3. CASE (OpenFile /\ at' # "returned") \/ OpenAgain \/ ReadDirectory \/ ReadPiece
    BY <2>3 DEF OpenAgain, ReadDirectory, ReadPiece, Step, Throw, callVars, TypedOK, Answered
  <2>4. CASE ReadEnd
    BY <2>4 DEF ReadEnd, Return, TypedOK
  <2> QED BY <1>2, <2>1, <2>2, <2>3, <2>4 DEF HandleFile
<1>3. CASE FilesChange /\ UNCHANGED proxyVars
  BY <1>3 DEF FilesChange, Replace, Rewrite, callVars, TypedOK, Answered, IsCallOf, Handler
<1>4. CASE HandleProxy /\ UNCHANGED fileVars
  <2>1. UNCHANGED call /\ Handler.type # "FileHandler"
    BY <1>4 DEF HandleProxy, ProxyRequest, OtherPort, ExchangeFails, GetPage, Follow, Overflow,
                Step, Return, Throw, callVars
  <2> QED BY <2>1 DEF TypedOK, Answered, IsCallOf, Handler
<1>5. CASE UNCHANGED vars
  BY <1>5 DEF vars, callVars, TypedOK, Answered, IsCallOf, Handler
<1> QED BY <1>1, <1>2, <1>3, <1>4, <1>5 DEF Next

\* The target that a proxy asks for first, whatever the location.
LEMMA RestIsAskedFor ==
  ASSUME CallOK
  PROVE  LET rest == TargetFor(call.target, call.prefix)
         IN  rest # <<>> /\ call.target \in {call.prefix, call.prefix \o rest}
<1> DEFINE target == call.target
           key == call.prefix
           rest == SubSeq(target, Len(key) + 1, Len(target))
<1>1. /\ Len(key) <= Len(target) /\ target = key \o rest /\ Len(rest) = Len(target) - Len(key)
      /\ target \in Seq(STRING) /\ key \in Seq(STRING)
  BY CallSplits, Zenon
<1>2. Len(key) \in Nat /\ Len(target) \in Nat
  BY <1>1
<1>3. TargetFor(target, key) = IF Len(target) = Len(key) THEN <<"/">> ELSE rest
  BY Zenon DEF TargetFor, Root
<1>4. CASE Len(target) = Len(key)
  <2>1. \A i \in 1 .. Len(key) : target[i] = key[i]
    BY CallSplits, Zenon
  <2>2. target = key
    <3> DEFINE S == STRING
    <3>1. target \in Seq(S) /\ key \in Seq(S)
      BY <1>1
    <3> HIDE DEF S, target, key, rest
    <3> QED BY <1>4, <2>1, <3>1, SeqEqual
  <2>3. TargetFor(target, key) # <<>>
    BY <1>3, <1>4
  <2> QED BY <2>2, <2>3, Zenon
<1>5. CASE Len(target) # Len(key)
  <2>1. Len(rest) # 0
    <3> HIDE DEF target, key, rest
    <3> QED BY <1>1, <1>2, <1>5
  <2>2. rest # <<>>
    <3> HIDE DEF rest
    <3> QED BY <2>1
  <2> QED BY <1>1, <1>3, <1>5, <2>2, Zenon
<1> QED BY <1>4, <1>5

LEMMA InitJInv == Init => JInv
<1> SUFFICES ASSUME Init PROVE JInv
  OBVIOUS
<1>1. IInv
  BY InitInv
<1>2. TypesOK
  <2>1. /\ at = "called" /\ response = Default /\ depth = 0 /\ hop = NoHop
    BY DEF Init, CallInit, ProxyInit
  <2>2. depth \in 0 .. Stack
    BY <2>1, ProxyAssumption
  <2>6. DOMAIN hop = {"host", "port", "target"}
    BY <2>1 DEF NoHop
  <2>3. IsResponse(response)
    BY <2>1, FixedResponses
  <2>4. call.method \in Methods
    BY DEF Init, CallInit
  <2>5. seen \subseteq Contents \cup {"directory", "nothing"}
    <3>1. AtPath(PathOfCall) \in Contents \cup {"directory", "nothing"}
      BY <1>1, FoundAtPath DEF IInv
    <3> QED BY <3>1 DEF Init, FileInit
  <2> QED BY <2>1, <2>2, <2>3, <2>4, <2>5, <2>6 DEF TypesOK
<1>3. TypedOK /\ OutgoingTargetIsRest
  BY DEF Init, CallInit, ProxyInit, TypedOK, Answered, OutgoingTargetIsRest
<1> QED BY <1>1, <1>2, <1>3, TypesTogether DEF JInv

LEMMA ProxyJInv ==
  ASSUME JInv, HandleProxy, UNCHANGED fileVars
  PROVE  OutgoingTargetIsRest'
<1>1. CASE ProxyRequest
  <2>1. /\ UNCHANGED <<call, web>>
        /\ at' \in {"issue", "threw"}
        /\ at' = "issue" => hop'.target = TargetFor(call.target, call.prefix)
    BY <1>1 DEF ProxyRequest, Throw
  <2> QED BY <2>1, RestIsAskedFor DEF JInv, IInv, OutgoingTargetIsRest
<1>2. CASE OtherPort \/ ExchangeFails \/ GetPage \/ Overflow
  <2>1. at' # "issue"
    BY <1>2 DEF OtherPort, ExchangeFails, GetPage, Overflow, Return
  <2> QED BY <2>1 DEF OutgoingTargetIsRest
<1>3. CASE Follow
  <2>1. PICK answer \in AnswersTo(hop) : Learn(hop, answer)
    BY <1>3 DEF Follow
  <2>2. hop \in DOMAIN web'
    BY <2>1 DEF Learn
  <2>3. web' # <<>>
    BY <2>2
  <2> QED BY <2>3 DEF OutgoingTargetIsRest
<1> QED BY <1>1, <1>2, <1>3 DEF HandleProxy

LEMMA NextJInv == JInv /\ [Next]_vars => JInv'
<1> SUFFICES ASSUME JInv, [Next]_vars PROVE JInv'
  OBVIOUS
<1>1. IInv' /\ TypeOK' /\ TypedOK'
  BY NextInv, TypesNext, TypedNext DEF JInv
<1>2. CASE HandleProxy /\ UNCHANGED fileVars
  BY <1>1, <1>2, ProxyJInv DEF JInv
<1>3. CASE ~(HandleProxy /\ UNCHANGED fileVars)
  <2>1. UNCHANGED <<call, web, hop>>
    BY <1>3 DEF Next, Answer, Echo, Health, Handle404, SleepFirst, WakeUp, Return, HandleFile,
                NotGet, NeedFilePath, OpenFile, OpenAgain, ReadDirectory, ReadPiece, ReadEnd, Throw,
                FilesChange, Replace, Rewrite, vars, callVars, proxyVars
  <2>2. at' = "issue" => at = "issue"
    BY <1>3 DEF Next, Answer, Echo, Health, Handle404, SleepFirst, WakeUp, Return, HandleFile,
                NotGet, NeedFilePath, OpenFile, OpenAgain, ReadDirectory, ReadPiece, ReadEnd, Throw,
                FilesChange, Replace, Rewrite, vars, callVars
  <2>3. OutgoingTargetIsRest'
    BY <2>1, <2>2 DEF JInv, OutgoingTargetIsRest
  <2> QED BY <1>1, <2>3 DEF JInv
<1> QED BY <1>2, <1>3

LEMMA JInvariance == Spec => []JInv
  BY InitJInv, NextJInv, PTL DEF Spec

-----------------------------------------------------------------------------
\* Every variable keeps its type, whatever the handlers, targets, files and the
\* web: the places handle_request goes through, the responses it builds, what it
\* reads and what it asks for.
THEOREM TypeCorrect == Spec => []TypeOK
<1>1. JInv => TypeOK
  BY DEF JInv
<1> QED BY <1>1, JInvariance, PTL

\* ProxyHandler's substr leaves what follows the location's prefix, and "/" of
\* nothing, for every location the dispatcher can find for the target.
THEOREM RestIsAsked == Spec => []OutgoingTargetIsRest
<1>1. JInv => OutgoingTargetIsRest
  BY DEF JInv
<1> QED BY <1>1, JInvariance, PTL

\* FileHandler's find("/", 1) ends the location's prefix where that has one
\* component, and get_mime_type tells the type of a target's one extension.
THEOREM TargetsAreMapped == Spec => []TargetIsMapped
<1>1. JInv => TargetIsMapped
  <2> DEFINE n == Len(call.prefix)
             rest == SubSeq(call.target, n + 1, Len(call.target))
             extensions == {call.target[i] : i \in 1 .. Len(call.target)} \cap Extensions
  <2> SUFFICES ASSUME JInv PROVE TargetIsMapped
    OBVIOUS
  <2>1. ASSUME \A i \in 2 .. n : call.prefix[i] # "/", Len(rest) > 1, rest[1] = "/"
        PROVE  HasFile(call.target) /\ PathOfCall = Handler.root \o rest
    <3>1. HasFile(call.target) /\ FileStart(call.target) = n + 1
      BY <2>1, FileAfterPrefix, Zenon DEF JInv, IInv
    <3> QED BY <3>1, Zenon DEF PathOfCall, FilePath
  <2>2. ASSUME Answered("FileHandler"), response.status = 200, call.method = "GET",
               NEW k \in 1 .. 4, extensions = {KnownTypes[k][1]}
        PROVE  response.type = <<KnownTypes[k][2]>>
    <3>1. MimeType(call.target) = KnownTypes[k][2]
      <4>1. ExtensionsIn(call.target) = {KnownTypes[k][1]}
        BY <2>2, Zenon DEF ExtensionsIn
      <4> QED BY <2>2, <4>1, MimeTypeOfOne
    <3>2. response.type = <<MimeType(call.target)>>
      BY <2>2, Zenon DEF JInv, TypedOK
    <3> QED BY <3>1, <3>2, Zenon
  <2> QED BY <2>1, <2>2, Zenon DEF TargetIsMapped
<1> QED BY <1>1, JInvariance, PTL
=============================================================================
