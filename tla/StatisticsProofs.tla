-------------------------- MODULE StatisticsProofs --------------------------
(***************************************************************************)
(* For any number of threads, requests and codes: increments that are not  *)
(* locked may be lost, but none is counted that did not take place; and    *)
(* while requests are sent one at a time, the status pages are exact.      *)
(***************************************************************************)
EXTENDS Statistics, FiniteSetTheorems, SequenceTheorems, TLAPS

\* The workers whose handler has returned and whose increment is to come.
Pending == {w \in Workers : pc[w] \in {"counting", "loaded"}}

Typed ==
  /\ requestCount \in Nat /\ returned \in Nat
  /\ register \in [Workers -> Nat] /\ total \in [Workers -> Nat]
  /\ DOMAIN pc = Workers /\ pc = [w \in Workers |-> pc[w]]
  /\ DOMAIN uri = Workers /\ uri = [w \in Workers |-> uri[w]]
  /\ \A w \in Workers : pc[w] = "handling" => uri[w] # StatusUri

\* Neither the count nor what a worker is about to add one to exceeds the
\* number of increments that are over.
CountsOK ==
  /\ requestCount + Cardinality(Pending) <= returned
  /\ \A w \in Workers : pc[w] = "loaded" => register[w] + Cardinality(Pending) <= returned

PagesOK == \A w \in Workers : HasPage(w) => total[w] < returned

IInv == Typed /\ CountsOK /\ PagesOK

-----------------------------------------------------------------------------
LEMMA PendingIsFinite ==
  /\ IsFiniteSet(Pending) /\ Cardinality(Pending) \in Nat
  /\ IsFiniteSet(Pending') /\ Cardinality(Pending') \in Nat
<1>1. Pending \subseteq Workers /\ Pending' \subseteq Workers
  BY DEF Pending
<1> QED BY <1>1, StatisticsAssumption, FS_Subset, FS_CardinalityType

LEMMA InitInv == Init => IInv
<1> SUFFICES ASSUME Init PROVE IInv
  OBVIOUS
<1>1. Pending = {}
  BY DEF Init, Pending
<1>2. Cardinality(Pending) = 0
  BY <1>1, FS_EmptySet
<1> QED BY <1>2 DEF Init, IInv, Typed, CountsOK, PagesOK, HasPage

\* A step that moves a worker between places that have nothing to do with the
\* count, and does not show it a page.
LEMMA QuietStep ==
  ASSUME IInv, NEW w \in Workers, NEW label,
         GoTo(w, label), label \notin {"counting", "loaded"}, pc[w] \notin {"counting", "loaded"},
         UNCHANGED <<requestCount, register, total, returned>>,
         Typed',
         \A v \in Workers : HasPage(v)' => HasPage(v)
  PROVE  IInv'
<1>1. \A v \in Workers : v # w => pc'[v] = pc[v]
  BY DEF GoTo, IInv, Typed
<1>2. pc'[w] = label
  BY DEF GoTo, IInv, Typed
<1>3. Pending' = Pending
  BY <1>1, <1>2 DEF Pending
<1>4. CountsOK'
  BY <1>1, <1>2, <1>3 DEF IInv, CountsOK
<1>5. PagesOK'
  BY DEF IInv, PagesOK
<1> QED BY <1>4, <1>5 DEF IInv

\* A handler returns: its worker has an increment before it.
LEMMA ReturnStep ==
  ASSUME IInv, NEW w \in Workers, GoTo(w, "counting"), pc[w] \notin {"counting", "loaded"},
         returned' = returned + 1, UNCHANGED <<requestCount, register, uri>>, Typed',
         \A v \in Workers \ {w} : total'[v] = total[v],
         HasPage(w)' => total'[w] <= requestCount
  PROVE  IInv'
<1>1. \A v \in Workers : v # w => pc'[v] = pc[v]
  BY DEF GoTo, IInv, Typed
<1>2. pc'[w] = "counting"
  BY DEF GoTo, IInv, Typed
<1>3. Pending' = Pending \cup {w} /\ w \notin Pending
  BY <1>1, <1>2 DEF Pending
<1>4. Cardinality(Pending') = Cardinality(Pending) + 1 /\ Cardinality(Pending) \in Nat
  BY <1>3, PendingIsFinite, FS_AddElement
<1>5. /\ requestCount \in Nat /\ returned \in Nat /\ \A v \in Workers : register[v] \in Nat
      /\ \A v \in Workers : total'[v] \in Nat
  BY DEF IInv, Typed
<1>6. CountsOK'
  BY <1>1, <1>2, <1>4, <1>5 DEF IInv, CountsOK
<1>7. PagesOK'
  <2>1. ASSUME NEW v \in Workers, HasPage(v)' PROVE total'[v] < returned'
    <3>1. CASE v = w
      BY <1>4, <1>5, <2>1, <3>1 DEF IInv, CountsOK
    <3>2. CASE v # w
      <4>1. HasPage(v)
        BY <1>1, <2>1, <3>2 DEF HasPage
      <4>2. total[v] < returned /\ total'[v] = total[v]
        BY <3>2, <4>1 DEF IInv, PagesOK
      <4> QED BY <1>5, <4>2
    <3> QED BY <3>1, <3>2
  <2> QED BY <2>1 DEF PagesOK
<1> QED BY <1>6, <1>7 DEF IInv

LEMMA LoadInv ==
  ASSUME IInv, NEW w \in Workers, LoadCount(w)
  PROVE  IInv'
<1>1. /\ pc[w] = "counting" /\ pc' = [pc EXCEPT ![w] = "loaded"]
      /\ register' = [register EXCEPT ![w] = requestCount]
      /\ UNCHANGED <<requestCount, uri, total, returned>>
  BY DEF LoadCount, GoTo, pageVars, historyVars
<1>2. /\ pc'[w] = "loaded" /\ register'[w] = requestCount
      /\ \A v \in Workers : v # w => pc'[v] = pc[v] /\ register'[v] = register[v]
  BY <1>1 DEF IInv, Typed
<1>3. Pending' = Pending
  BY <1>1, <1>2 DEF Pending
<1>4. CountsOK'
  BY <1>1, <1>2, <1>3 DEF IInv, CountsOK
<1>5. PagesOK'
  BY <1>1, <1>2 DEF IInv, PagesOK, HasPage
<1>6. Typed'
  BY <1>1 DEF IInv, Typed
<1> QED BY <1>4, <1>5, <1>6 DEF IInv

\* The store may undo others' increments, never add to them.
LEMMA StoreInv ==
  ASSUME IInv, NEW w \in Workers, StoreCount(w)
  PROVE  IInv'
<1>1. /\ pc[w] = "loaded" /\ pc' = [pc EXCEPT ![w] = "counted"]
      /\ requestCount' = register[w] + 1
      /\ UNCHANGED <<register, uri, total, returned>>
  BY DEF StoreCount, GoTo, pageVars, historyVars
<1>2. /\ pc'[w] = "counted"
      /\ \A v \in Workers : v # w => pc'[v] = pc[v]
  BY <1>1 DEF IInv, Typed
<1>3. Pending' = Pending \ {w} /\ w \in Pending
  BY <1>1, <1>2 DEF Pending
<1>4. Cardinality(Pending') = Cardinality(Pending) - 1 /\ Cardinality(Pending) \in Nat
  BY <1>3, PendingIsFinite, FS_RemoveElement
<1>5. returned \in Nat /\ \A v \in Workers : register[v] \in Nat
  BY DEF IInv, Typed
<1>6. CountsOK'
  BY <1>1, <1>2, <1>4, <1>5 DEF IInv, CountsOK
<1>7. PagesOK'
  BY <1>1, <1>2 DEF IInv, PagesOK, HasPage
<1>8. Typed'
  BY <1>1, <1>5 DEF IInv, Typed
<1> QED BY <1>6, <1>7, <1>8 DEF IInv

LEMMA NextInv == IInv /\ [Next]_vars => IInv'
<1> SUFFICES ASSUME IInv, [Next]_vars PROVE IInv'
  OBVIOUS
<1> USE DEF pageVars, historyVars
<1>1. ASSUME NEW w \in Workers, NEW u \in Uris, Start(w, u) PROVE IInv'
  <2> DEFINE label == IF u = StatusUri THEN "condensing" ELSE "handling"
  <2>1. /\ pc[w] = "idle" /\ GoTo(w, label) /\ label \notin {"counting", "loaded"}
        /\ uri' = [uri EXCEPT ![w] = u]
        /\ UNCHANGED <<requestCount, register, total, returned>>
    BY <1>1 DEF Start, Begin, AtStart
  <2>2. Typed'
    BY <2>1 DEF IInv, Typed, GoTo
  <2>3. \A v \in Workers : HasPage(v)' => HasPage(v)
    BY <2>1 DEF IInv, Typed, HasPage, GoTo
  <2> HIDE DEF label
  <2> QED BY <2>1, <2>2, <2>3, QuietStep
<1>2. ASSUME NEW w \in Workers, NEW u \in Uris, Condense(w, u) PROVE IInv'
  BY <1>2 DEF Condense, IInv, Typed, CountsOK, PagesOK, HasPage, Pending
<1>3. ASSUME NEW w \in Workers, ReadTotal(w) PROVE IInv'
  <2>1. /\ pc[w] = "condensing" /\ GoTo(w, "counting") /\ returned' = returned + 1
        /\ total' = [total EXCEPT ![w] = requestCount]
        /\ UNCHANGED <<requestCount, register, uri>>
    BY <1>3 DEF ReadTotal, Total
  <2>2. Typed'
    BY <2>1 DEF IInv, Typed, GoTo
  <2>3. /\ \A v \in Workers \ {w} : total'[v] = total[v]
        /\ total'[w] <= requestCount
    BY <2>1 DEF IInv, Typed
  <2> QED BY <2>1, <2>2, <2>3, ReturnStep
<1>4. ASSUME NEW w \in Workers, NEW c \in Codes, Handle(w, c) PROVE IInv'
  <2>1. /\ pc[w] = "handling" /\ GoTo(w, "counting") /\ returned' = returned + 1
        /\ UNCHANGED <<requestCount, register, uri, total>>
    BY <1>4 DEF Handle
  <2>2. Typed'
    BY <2>1 DEF IInv, Typed, GoTo
  <2>3. ~HasPage(w)'
    BY <2>1 DEF IInv, Typed, HasPage
  <2> QED BY <2>1, <2>2, <2>3, ReturnStep
<1>5. ASSUME NEW w \in Workers, LoadCount(w) \/ StoreCount(w) PROVE IInv'
  BY <1>5, LoadInv, StoreInv
<1>6. ASSUME NEW w \in Workers, Refuse(w) \/ BeginPush(w) \/ Respond(w) PROVE IInv'
  <2>1. PICK label \in {"refusing", "pushing", "idle"} :
          /\ GoTo(w, label) /\ pc[w] \in {"idle", "refusing", "counted", "responding"}
          /\ label = "pushing" => pc[w] = "counted"
          /\ UNCHANGED <<requestCount, register, total, returned, uri>>
    BY <1>6 DEF Refuse, Begin, BeginPush, Respond
  <2>2. Typed'
    BY <2>1 DEF IInv, Typed, GoTo
  <2>3. \A v \in Workers : HasPage(v)' => HasPage(v)
    BY <2>1 DEF IInv, Typed, HasPage, GoTo
  <2> QED BY <2>1, <2>2, <2>3, QuietStep
<1>7. ASSUME NEW w \in Workers, EndPush(w) PROVE IInv'
  <2>1. CASE GoTo(w, "responding")
    <3>1. pc[w] = "pushing" /\ UNCHANGED <<requestCount, register, total, returned, uri>>
      BY <1>7 DEF EndPush
    <3>2. Typed'
      BY <2>1, <3>1 DEF IInv, Typed, GoTo
    <3>3. \A v \in Workers : HasPage(v)' => HasPage(v)
      BY <2>1, <3>1 DEF IInv, Typed, HasPage, GoTo
    <3> QED BY <2>1, <3>1, <3>2, <3>3, QuietStep
  <2>2. CASE UNCHANGED pc
    BY <1>7, <2>2 DEF EndPush, IInv, Typed, CountsOK, PagesOK, HasPage, Pending
  <2> QED BY <1>7, <2>1, <2>2 DEF EndPush
<1>8. CASE UNCHANGED vars
  BY <1>8 DEF vars, IInv, Typed, CountsOK, PagesOK, HasPage, Pending
<1> QED BY <1>1, <1>2, <1>3, <1>4, <1>5, <1>6, <1>7, <1>8 DEF Next

LEMMA Invariance == Spec => []IInv
  BY InitInv, NextInv, PTL DEF Spec

-----------------------------------------------------------------------------
\* request_count++ and the status page's total, whatever updates overlap: never
\* more than the requests that have been handled.
THEOREM NothingIsInvented == Spec => []NeverOvercounts
<1>1. IInv => NeverOvercounts
  <2> SUFFICES ASSUME IInv PROVE NeverOvercounts
    OBVIOUS
  <2>1. requestCount <= returned
    BY PendingIsFinite DEF IInv, Typed, CountsOK
  <2> QED BY <2>1 DEF IInv, PagesOK, NeverOvercounts
<1> QED BY <1>1, Invariance, PTL
-----------------------------------------------------------------------------
(* The types.                                                              *)

\* The workers whose handler has not returned.
Open == {w \in Workers : pc[w] \in {"condensing", "handling"}}

\* There is a request for each handler that runs or has run.
BoundOK ==
  /\ started \in 0 .. MaxRequests
  /\ returned + Cardinality(Open) <= started
  /\ \A w \in Workers : register[w] <= returned

\* What TypeOK says of the session's own variables.
CoreOK ==
  /\ alive \in BOOLEAN
  /\ requestCount \in 0 .. MaxRequests
  /\ handledRequests \in [Uris -> Seq(Codes)]
  /\ pc \in [Workers -> {"idle", "refusing", "condensing", "handling", "counting", "loaded",
                         "counted", "pushing", "responding"}]
  /\ uri \in [Workers -> Uris] /\ code \in [Workers -> Codes]
  /\ register \in [Workers -> 0 .. MaxRequests]

TInv == CoreOK /\ BoundOK

LEMMA OpenIsFinite ==
  /\ IsFiniteSet(Open) /\ Cardinality(Open) \in Nat
  /\ IsFiniteSet(Open') /\ Cardinality(Open') \in Nat
<1>1. Open \subseteq Workers /\ Open' \subseteq Workers
  BY DEF Open
<1> QED BY <1>1, StatisticsAssumption, FS_Subset, FS_CardinalityType

LEMMA TInit == Init => TInv
<1> SUFFICES ASSUME Init PROVE TInv
  OBVIOUS
<1>1. Cardinality(Open) = 0
  <2>1. Open = {}
    BY DEF Init, Open
  <2> QED BY <2>1, FS_EmptySet
<1>2. MaxRequests \in Nat /\ StatusUri \in Uris
  BY StatisticsAssumption
<1>3. handledRequests \in [Uris -> Seq(Codes)] /\ 200 \in Codes
  <2>1. <<>> \in Seq(Codes) /\ 200 \in Codes
    BY StatisticsAssumption
  <2> QED BY <2>1 DEF Init
<1> QED BY <1>1, <1>2, <1>3 DEF Init, TInv, CoreOK, BoundOK

\* A step that does not change how many handlers run.
LEMMA SameOpen ==
  ASSUME CoreOK, NEW w \in Workers, NEW label, GoTo(w, label),
         pc[w] \in {"condensing", "handling"} <=> label \in {"condensing", "handling"}
  PROVE  Open' = Open
<1>1. \A v \in Workers : pc'[v] = IF v = w THEN label ELSE pc[v]
  BY DEF GoTo, CoreOK
<1> QED BY <1>1 DEF Open

LEMMA TNext == TInv /\ IInv /\ [Next]_vars => TInv'
<1> SUFFICES ASSUME TInv, IInv, [Next]_vars PROVE TInv'
  OBVIOUS
<1> USE DEF TInv, pageVars, historyVars
<1>1. /\ MaxRequests \in Nat /\ started \in Nat /\ returned \in Nat /\ requestCount \in Nat
      /\ requestCount <= returned /\ returned <= started /\ started <= MaxRequests
      /\ \A w \in Workers : register[w] \in Nat /\ register[w] <= returned
  BY StatisticsAssumption, PendingIsFinite, OpenIsFinite
     DEF IInv, Typed, CountsOK, BoundOK, CoreOK
<1>2. ASSUME NEW w \in Workers, NEW u \in Uris, Start(w, u) PROVE TInv'
  <2> DEFINE label == IF u = StatusUri THEN "condensing" ELSE "handling"
  <2>1. /\ started' = started + 1 /\ started < MaxRequests /\ pc[w] = "idle"
        /\ pc' = [pc EXCEPT ![w] = label] /\ uri' = [uri EXCEPT ![w] = u]
        /\ UNCHANGED <<alive, requestCount, handledRequests, code, register, returned>>
    BY <1>2 DEF Start, Begin, GoTo, AtStart
  <2>2. CoreOK'
    BY <2>1 DEF CoreOK
  <2>3. \A v \in Workers : pc'[v] = IF v = w THEN label ELSE pc[v]
    BY <2>1 DEF CoreOK
  <2>4. Open' = Open \cup {w} /\ w \notin Open
    BY <2>1, <2>3 DEF Open
  <2>5. Cardinality(Open') = Cardinality(Open) + 1 /\ Cardinality(Open) \in Nat
    BY <2>4, OpenIsFinite, FS_AddElement
  <2>6. BoundOK'
    BY <1>1, <2>1, <2>5 DEF BoundOK
  <2> QED BY <2>2, <2>6
<1>3. ASSUME NEW w \in Workers, NEW u \in Uris, Condense(w, u) PROVE TInv'
  <2>1. /\ UNCHANGED <<requestCount, handledRequests, pc, uri, code, register, started, returned>>
        /\ alive' \in BOOLEAN
    BY <1>3 DEF Condense, CoreOK
  <2> QED BY <2>1 DEF CoreOK, BoundOK, Open
<1>4. ASSUME NEW w \in Workers, NEW c \in Codes, ReadTotal(w) \/ Handle(w, c) PROVE TInv'
  <2>1. /\ pc[w] \in {"condensing", "handling"} /\ returned' = returned + 1
        /\ pc' = [pc EXCEPT ![w] = "counting"]
        /\ \E d \in Codes : code' = [code EXCEPT ![w] = d]
        /\ UNCHANGED <<alive, requestCount, handledRequests, uri, register, started>>
    BY <1>4, StatisticsAssumption DEF ReadTotal, Handle, GoTo
  <2>2. CoreOK'
    BY <2>1 DEF CoreOK
  <2>3. \A v \in Workers : pc'[v] = IF v = w THEN "counting" ELSE pc[v]
    BY <2>1 DEF CoreOK
  <2>4. Open' = Open \ {w} /\ w \in Open
    BY <2>1, <2>3 DEF Open
  <2>5. Cardinality(Open') = Cardinality(Open) - 1 /\ Cardinality(Open) \in Nat
    BY <2>4, OpenIsFinite, FS_RemoveElement
  <2>6. BoundOK'
    BY <1>1, <2>1, <2>5 DEF BoundOK
  <2> QED BY <2>2, <2>6
<1>5. ASSUME NEW w \in Workers, LoadCount(w) PROVE TInv'
  <2>1. /\ pc[w] = "counting" /\ GoTo(w, "loaded")
        /\ register' = [register EXCEPT ![w] = requestCount]
        /\ UNCHANGED <<alive, requestCount, handledRequests, uri, code, started, returned>>
    BY <1>5 DEF LoadCount
  <2>2. Open' = Open
    BY <2>1, SameOpen
  <2>3. CoreOK'
    BY <2>1 DEF CoreOK, GoTo
  <2>4. BoundOK'
    BY <1>1, <2>1, <2>2 DEF BoundOK, CoreOK
  <2> QED BY <2>3, <2>4
<1>6. ASSUME NEW w \in Workers, StoreCount(w) PROVE TInv'
  <2>1. /\ pc[w] = "loaded" /\ GoTo(w, "counted")
        /\ requestCount' = register[w] + 1
        /\ UNCHANGED <<alive, handledRequests, uri, code, register, started, returned>>
    BY <1>6 DEF StoreCount
  <2>2. Open' = Open
    BY <2>1, SameOpen
  <2>3. requestCount' \in 0 .. MaxRequests
    <3>1. IInv' /\ returned' = returned
      BY NextInv, <2>1
    <3>2. requestCount' <= returned' /\ requestCount' \in Nat
      BY <3>1, PendingIsFinite DEF IInv, Typed, CountsOK
    <3> QED BY <1>1, <3>1, <3>2
  <2>4. CoreOK'
    BY <2>1, <2>3 DEF CoreOK, GoTo
  <2>5. BoundOK'
    BY <2>1, <2>2 DEF BoundOK
  <2> QED BY <2>4, <2>5
<1>7. ASSUME NEW w \in Workers, BeginPush(w) \/ Respond(w) PROVE TInv'
  <2>1. PICK label \in {"pushing", "idle"} :
          /\ GoTo(w, label) /\ pc[w] \in {"counted", "responding", "refusing"}
          /\ UNCHANGED <<alive, requestCount, handledRequests, uri, code, register, started, returned>>
    BY <1>7 DEF BeginPush, Respond
  <2>2. Open' = Open
    BY <2>1, SameOpen
  <2>3. CoreOK'
    BY <2>1 DEF CoreOK, GoTo
  <2> QED BY <2>1, <2>2, <2>3 DEF BoundOK
<1>8. ASSUME NEW w \in Workers, EndPush(w) PROVE TInv'
  <2>1. /\ pc[w] = "pushing" /\ alive' \in BOOLEAN
        /\ GoTo(w, "responding") \/ UNCHANGED pc
        /\ UNCHANGED <<requestCount, uri, code, register, started, returned>>
    BY <1>8 DEF EndPush, CoreOK
  <2>2. Open' = Open
    BY <2>1, SameOpen DEF Open
  <2>3. handledRequests' \in [Uris -> Seq(Codes)]
    <3> DEFINE Lists == Seq(Codes)
               longer == Append(handledRequests[uri[w]], code[w])
    <3>1. handledRequests \in [Uris -> Lists] /\ uri[w] \in Uris /\ code[w] \in Codes
      BY DEF CoreOK
    <3>2. longer \in Lists
      BY <3>1, AppendProperties
    <3>3. \/ handledRequests' = [handledRequests EXCEPT ![uri[w]] = longer]
          \/ handledRequests' = handledRequests
      BY <1>8 DEF EndPush
    <3> HIDE DEF Lists, longer
    <3>4. handledRequests' \in [Uris -> Lists]
      BY <3>1, <3>2, <3>3
    <3> QED BY <3>4 DEF Lists
  <2>4. CoreOK'
    BY <2>1, <2>3 DEF CoreOK, GoTo
  <2> QED BY <2>1, <2>2, <2>4 DEF BoundOK
<1>9. ASSUME NEW w \in Workers, Refuse(w) PROVE TInv'
  <2>1. /\ started' = started + 1 /\ started < MaxRequests /\ pc[w] = "idle"
        /\ GoTo(w, "refusing")
        /\ UNCHANGED <<alive, requestCount, handledRequests, uri, code, register, returned>>
    BY <1>9 DEF Refuse, Begin
  <2>2. Open' = Open
    BY <2>1, SameOpen
  <2>3. CoreOK'
    BY <2>1 DEF CoreOK, GoTo
  <2>4. BoundOK'
    BY <1>1, <2>1, <2>2, OpenIsFinite DEF BoundOK
  <2> QED BY <2>3, <2>4
<1>10. CASE UNCHANGED vars
  BY <1>10 DEF vars, CoreOK, BoundOK, Open
<1> QED BY <1>2, <1>3, <1>4, <1>5, <1>6, <1>7, <1>8, <1>9, <1>10, StatisticsAssumption DEF Next

-----------------------------------------------------------------------------
(* The pages, while the clients take turns.                                *)

Counted == {"counted", "pushing", "responding"}

\* How often a target has been answered with a code.
Answers(u, c) == CountOf(answered, <<u, c>>)

\* Of each target and code the map has the answers, and that of the worker that is
\* about to give one; request_count counts that one a little earlier.
TalliesOK ==
  /\ \A u \in Uris, c \in Codes : CountOf(handledRequests[u], c) =
       Answers(u, c) + IF \E w \in Workers : pc[w] = "responding" /\ uri[w] = u /\ code[w] = c
                       THEN 1 ELSE 0
  /\ requestCount = Len(answered) + IF \E w \in Workers : pc[w] \in Counted THEN 1 ELSE 0
  /\ \A w \in Workers : pc[w] = "loaded" => register[w] = Len(answered)

\* What the worker has read is what it would still read.
RowsOf(u) == [c \in Codes |-> Answers(u, c)]
PageOK(w) ==
  /\ pc[w] # "refusing" => before[w] = answered
  /\ pc[w] = "condensing" => \A u \in Uris \ unread[w] : rows[w][u] = RowsOf(u)
  /\ HasPage(w) => rows[w] = [u \in Uris |-> RowsOf(u)] /\ total[w] = Len(answered)

\* While requests are sent one at a time, one worker is busy at most.
SerialOK ==
  serial =>
    /\ alive /\ ~torn
    /\ \A v, w \in Busy : v = w
    /\ TalliesOK
    /\ \A w \in Busy : PageOK(w)

HistoryOK ==
  /\ answered \in Seq(Uris \X Codes) /\ before \in [Workers -> Seq(Uris \X Codes)]
  /\ serial \in BOOLEAN /\ torn \in BOOLEAN
  /\ unread \in [Workers -> SUBSET Uris] /\ rows \in [Workers -> [Uris -> [Codes -> Nat]]]
  /\ total \in [Workers -> 0 .. MaxRequests]
  /\ \A w \in Workers : pc[w] = "condensing" => uri[w] = StatusUri
  /\ \A w \in Workers : pc[w] = "handling" => uri[w] # StatusUri

SInv == HistoryOK /\ SerialOK

\* One more code in the list is one more in one row.
LEMMA CountAppend ==
  ASSUME NEW S, NEW s \in Seq(S), NEW x \in S, NEW y
  PROVE  /\ CountOf(s, y) \in Nat
         /\ CountOf(Append(s, x), y) = CountOf(s, y) + IF x = y THEN 1 ELSE 0
<1> DEFINE n == Len(s)
           longer == Append(s, x)
           Is(t) == {i \in DOMAIN t : t[i] = y}
<1>1. /\ n \in Nat /\ DOMAIN s = 1 .. n /\ DOMAIN longer = 1 .. n + 1
      /\ \A i \in 1 .. n : longer[i] = s[i]
      /\ longer[n + 1] = x
  BY AppendProperties
<1>2. IsFiniteSet(Is(s)) /\ Cardinality(Is(s)) \in Nat
  <2>1. IsFiniteSet(1 .. n)
    BY <1>1, FS_Interval, 1 \in Int, n \in Int
  <2> QED BY <1>1, <2>1, FS_Subset, FS_CardinalityType
<1>3. Is(longer) = IF x = y THEN Is(s) \cup {n + 1} ELSE Is(s)
  <2> HIDE DEF n, longer
  <2> QED BY <1>1
<1>4. n + 1 \notin Is(s)
  BY <1>1
<1>5. CountOf(s, y) = Cardinality(Is(s)) /\ CountOf(longer, y) = Cardinality(Is(longer))
  BY DEF CountOf
<1>6. /\ CountOf(s, y) \in Nat
      /\ CountOf(longer, y) = CountOf(s, y) + IF x = y THEN 1 ELSE 0
  <2> HIDE DEF Is, longer, n
  <2>1. CASE x = y
    <3>1. Cardinality(Is(s) \cup {n + 1}) = Cardinality(Is(s)) + 1
      BY <1>2, <1>4, FS_AddElement
    <3> QED BY <1>2, <1>3, <1>5, <2>1, <3>1
  <2>2. CASE x # y
    BY <1>2, <1>3, <1>5, <2>2
  <2> QED BY <2>1, <2>2
<1> QED BY <1>6

\* What the map and the history hold are lists, each of which has its counts.
LEMMA ListsCounted ==
  ASSUME CoreOK, HistoryOK
  PROVE  /\ \A u \in Uris : handledRequests[u] \in Seq(Codes)
         /\ \A u \in Uris, c \in Codes : CountOf(handledRequests[u], c) \in Nat
         /\ answered \in Seq(Uris \X Codes) /\ Len(answered) \in Nat
         /\ \A u \in Uris, c \in Codes : CountOf(answered, <<u, c>>) \in Nat
<1>1. \A u \in Uris : handledRequests[u] \in Seq(Codes)
  BY DEF CoreOK
<1>2. ASSUME NEW u \in Uris, NEW c \in Codes PROVE CountOf(handledRequests[u], c) \in Nat
  <2> DEFINE s == handledRequests[u]
  <2>1. s \in Seq(Codes)
    BY <1>1
  <2> HIDE DEF s
  <2>2. CountOf(s, c) \in Nat
    BY <2>1, CountAppend
  <2> QED BY <2>2 DEF s
<1> DEFINE Entries == Uris \X Codes
<1>3. answered \in Seq(Entries) /\ Len(answered) \in Nat
  BY DEF HistoryOK
<1>4. ASSUME NEW u \in Uris, NEW c \in Codes PROVE CountOf(answered, <<u, c>>) \in Nat
  <2>1. <<u, c>> \in Entries
    OBVIOUS
  <2> HIDE DEF Entries
  <2> QED BY <1>3, <2>1, CountAppend
<1> QED BY <1>1, <1>2, <1>3, <1>4

LEMMA SInit == Init => SInv
<1> SUFFICES ASSUME Init PROVE SInv
  OBVIOUS
<1> DEFINE Entries == Uris \X Codes
<1>1. <<>> \in Seq(Entries) /\ Len(<<>>) = 0 /\ StatusUri \in Uris /\ MaxRequests \in Nat
  BY StatisticsAssumption
<1>2. HistoryOK
  <2>1. answered \in Seq(Entries) /\ before \in [Workers -> Seq(Entries)]
    <3> DEFINE Lists == Seq(Entries)
    <3>1. <<>> \in Lists
      BY <1>1
    <3> HIDE DEF Lists
    <3>2. answered \in Lists /\ before \in [Workers -> Lists]
      BY <3>1 DEF Init
    <3> QED BY <3>2 DEF Lists
  <2>2. rows \in [Workers -> [Uris -> [Codes -> Nat]]]
    BY DEF Init, NoRows
  <2>3. total \in [Workers -> 0 .. MaxRequests]
    <3>1. 0 \in 0 .. MaxRequests
      BY <1>1
    <3> QED BY <3>1, Zenon DEF Init
  <2>4. /\ serial \in BOOLEAN /\ torn \in BOOLEAN /\ unread \in [Workers -> SUBSET Uris]
        /\ \A w \in Workers : pc[w] = "idle"
    BY DEF Init
  <2> QED BY <2>1, <2>2, <2>3, <2>4 DEF HistoryOK
<1>3. \A x : CountOf(<<>>, x) = 0
  <2>1. \A x : {i \in DOMAIN <<>> : <<>>[i] = x} = {}
    OBVIOUS
  <2> QED BY <2>1, FS_EmptySet DEF CountOf
<1>4. TalliesOK
  BY <1>1, <1>3 DEF Init, TalliesOK, Answers, Counted
<1>5. Busy = {}
  BY DEF Init, Busy
<1>6. SerialOK
  BY <1>4, <1>5 DEF Init, SerialOK
<1> QED BY <1>2, <1>6 DEF SInv

\* Where all others are idle, the tallies are those of one worker.
LEMMA SerialNow ==
  ASSUME CoreOK, SerialOK, serial, NEW w \in Workers, pc[w] # "idle"
  PROVE  /\ alive /\ ~torn /\ \A v \in Workers \ {w} : pc[v] = "idle"
         /\ \A u \in Uris, c \in Codes : CountOf(handledRequests[u], c) =
              CountOf(answered, <<u, c>>) +
                IF pc[w] = "responding" /\ uri[w] = u /\ code[w] = c THEN 1 ELSE 0
         /\ requestCount = Len(answered) + IF pc[w] \in Counted THEN 1 ELSE 0
         /\ pc[w] = "loaded" => register[w] = Len(answered)
         /\ PageOK(w)
<1>1. w \in Busy /\ \A v \in Workers \ {w} : pc[v] = "idle"
  BY DEF SerialOK, Busy
<1>2. TalliesOK /\ PageOK(w) /\ alive /\ ~torn
  BY <1>1 DEF SerialOK
<1>3. \A u \in Uris, c \in Codes :
        (\E v \in Workers : pc[v] = "responding" /\ uri[v] = u /\ code[v] = c) <=>
          pc[w] = "responding" /\ uri[w] = u /\ code[w] = c
  BY <1>1
<1>4. (\E v \in Workers : pc[v] \in Counted) <=> pc[w] \in Counted
  BY <1>1 DEF Counted
<1> QED BY <1>1, <1>2, <1>3, <1>4 DEF TalliesOK, Answers

LEMMA SerialThen ==
  ASSUME NEW w \in Workers, \A v \in Workers \ {w} : pc'[v] = "idle",
         alive', ~torn',
         \A u \in Uris, c \in Codes : CountOf(handledRequests'[u], c) =
           CountOf(answered', <<u, c>>) +
             IF pc'[w] = "responding" /\ uri'[w] = u /\ code'[w] = c THEN 1 ELSE 0,
         requestCount' = Len(answered') + IF pc'[w] \in Counted THEN 1 ELSE 0,
         pc'[w] = "loaded" => register'[w] = Len(answered'),
         pc'[w] # "idle" => PageOK(w)'
  PROVE  SerialOK'
<1>1. \A u \in Uris, c \in Codes :
        (\E v \in Workers : pc'[v] = "responding" /\ uri'[v] = u /\ code'[v] = c) <=>
          pc'[w] = "responding" /\ uri'[w] = u /\ code'[w] = c
  OBVIOUS
<1>2. (\E v \in Workers : pc'[v] \in Counted) <=> pc'[w] \in Counted
  BY DEF Counted
<1>3. \A v \in Workers : pc'[v] = "loaded" => v = w
  OBVIOUS
<1>4. TalliesOK'
  BY <1>1, <1>2, <1>3 DEF TalliesOK, Answers
<1>5. Busy' \subseteq {w} /\ (w \in Busy' => pc'[w] # "idle")
  BY DEF Busy
<1> QED BY <1>4, <1>5 DEF SerialOK

\* Where all workers are idle, or the only other one is not about to answer, the
\* tallies are the answers.
LEMMA IdleTallies ==
  ASSUME CoreOK, HistoryOK, TalliesOK, \A v \in Workers : pc[v] = "idle"
  PROVE  /\ \A u \in Uris, c \in Codes : CountOf(handledRequests[u], c) = CountOf(answered, <<u, c>>)
         /\ requestCount = Len(answered)
<1>1. /\ Len(answered) \in Nat
      /\ \A u \in Uris, c \in Codes : CountOf(answered, <<u, c>>) \in Nat
  BY ListsCounted
<1>2. ASSUME NEW u \in Uris, NEW c \in Codes
      PROVE  CountOf(handledRequests[u], c) = CountOf(answered, <<u, c>>)
  <2> DEFINE n == CountOf(answered, <<u, c>>)
  <2>1. n \in Nat
    BY <1>1
  <2>2. CountOf(handledRequests[u], c) = n + 0
    BY DEF TalliesOK, Answers
  <2> HIDE DEF n
  <2>3. CountOf(handledRequests[u], c) = n
    BY <2>1, <2>2
  <2> QED BY <2>3 DEF n
<1>3. requestCount = Len(answered)
  <2>1. requestCount = Len(answered) + 0
    BY DEF TalliesOK, Counted
  <2> QED BY <1>1, <2>1
<1> QED BY <1>2, <1>3

LEMMA QuietNow ==
  ASSUME CoreOK, HistoryOK, SerialOK, serial, NEW w \in Workers, pc[w] \notin {"idle", "responding"}
  PROVE  /\ \A u \in Uris, c \in Codes : CountOf(handledRequests[u], c) = CountOf(answered, <<u, c>>)
         /\ pc[w] \notin Counted => requestCount = Len(answered)
<1>1. /\ Len(answered) \in Nat
      /\ \A u \in Uris, c \in Codes : CountOf(answered, <<u, c>>) \in Nat
  BY ListsCounted
<1>2. ASSUME NEW u \in Uris, NEW c \in Codes
      PROVE  CountOf(handledRequests[u], c) = CountOf(answered, <<u, c>>)
  <2> DEFINE n == CountOf(answered, <<u, c>>)
  <2>1. n \in Nat
    BY <1>1
  <2>2. CountOf(handledRequests[u], c) = n + 0
    BY SerialNow
  <2> HIDE DEF n
  <2>3. CountOf(handledRequests[u], c) = n
    BY <2>1, <2>2
  <2> QED BY <2>3 DEF n
<1>3. ASSUME pc[w] \notin Counted PROVE requestCount = Len(answered)
  <2>1. requestCount = Len(answered) + 0
    BY <1>3, SerialNow
  <2> QED BY <1>1, <2>1
<1> QED BY <1>2, <1>3

LEMMA QuietThen ==
  ASSUME NEW w \in Workers, \A v \in Workers \ {w} : pc'[v] = "idle", pc'[w] # "responding",
         alive', ~torn',
         \A u \in Uris, c \in Codes : CountOf(answered', <<u, c>>) \in Nat,
         \A u \in Uris, c \in Codes : CountOf(handledRequests'[u], c) = CountOf(answered', <<u, c>>),
         Len(answered') \in Nat,
         requestCount' = IF pc'[w] \in Counted THEN Len(answered') + 1 ELSE Len(answered'),
         pc'[w] = "loaded" => register'[w] = Len(answered'),
         pc'[w] # "idle" => PageOK(w)'
  PROVE  SerialOK'
<1>1. ASSUME NEW u \in Uris, NEW c \in Codes
      PROVE  CountOf(handledRequests'[u], c) = CountOf(answered', <<u, c>>) +
               IF pc'[w] = "responding" /\ uri'[w] = u /\ code'[w] = c THEN 1 ELSE 0
  <2> DEFINE n == CountOf(answered', <<u, c>>)
  <2>1. n \in Nat /\ CountOf(handledRequests'[u], c) = n
    OBVIOUS
  <2> HIDE DEF n
  <2>2. CountOf(handledRequests'[u], c) = n + 0
    BY <2>1
  <2> QED BY <2>2 DEF n
<1>2. requestCount' = Len(answered') + IF pc'[w] \in Counted THEN 1 ELSE 0
  OBVIOUS
<1> QED BY <1>1, <1>2, SerialThen

\* Who may have a page, and what it says, as far as one step can tell.
LEMMA PageThen ==
  ASSUME NEW w \in Workers, PageOK(w), UNCHANGED <<answered, before, rows, total, unread, uri>>,
         pc'[w] = "condensing" => pc[w] = "condensing", HasPage(w)' => HasPage(w),
         pc[w] # "refusing"
  PROVE  PageOK(w)'
  BY DEF PageOK, RowsOf, Answers

LEMMA HistoryNext == CoreOK /\ HistoryOK /\ [Next]_vars => HistoryOK'
<1> SUFFICES ASSUME CoreOK, HistoryOK, [Next]_vars PROVE HistoryOK'
  OBVIOUS
<1> USE DEF pageVars, historyVars
<1>1. MaxRequests \in Nat /\ StatusUri \in Uris
  BY StatisticsAssumption
<1>2. \A u \in Uris : [c \in Codes |-> CountOf(handledRequests[u], c)] \in [Codes -> Nat]
  BY ListsCounted
<1> DEFINE Lists == Seq(Uris \X Codes)
<1>3. /\ answered \in Lists /\ before \in [Workers -> Lists]
      /\ \A w \in Workers : Append(answered, <<uri[w], code[w]>>) \in Lists
  <2>1. \A w \in Workers : <<uri[w], code[w]>> \in Uris \X Codes
    BY DEF CoreOK
  <2> QED BY <2>1, AppendProperties DEF HistoryOK
<1> HIDE DEF Lists
<1>4. ASSUME NEW w \in Workers, NEW u \in Uris, Start(w, u) PROVE HistoryOK'
  <2>1. before' \in [Workers -> Lists] /\ answered' \in Lists
    BY <1>3, <1>4 DEF Start
  <2>2. unread' \in [Workers -> SUBSET Uris] /\ rows' \in [Workers -> [Uris -> [Codes -> Nat]]]
    <3>1. NoRows \in [Uris -> [Codes -> Nat]]
      BY DEF NoRows
    <3> QED BY <1>4, <3>1 DEF Start, HistoryOK
  <2>3. /\ serial' \in BOOLEAN /\ UNCHANGED <<torn, total>>
        /\ \A v \in Workers : pc'[v] = "condensing" => uri'[v] = StatusUri
        /\ \A v \in Workers : pc'[v] = "handling" => uri'[v] # StatusUri
    BY <1>4 DEF Start, Begin, HistoryOK, CoreOK, GoTo
  <2> QED BY <2>1, <2>2, <2>3 DEF HistoryOK, Lists
<1>5. ASSUME NEW w \in Workers, NEW u \in Uris, Condense(w, u) PROVE HistoryOK'
  <2>1. PICK row \in [Codes -> Nat] : rows' = [rows EXCEPT ![w][u] = row]
    <3>1. CASE rows' = [rows EXCEPT ![w][u] = [c \in Codes |-> CountOf(handledRequests[u], c)]]
      BY <1>2, <3>1
    <3>2. CASE \E n \in {0, MaxRequests} : rows' = [rows EXCEPT ![w][u] = [c \in Codes |-> n]]
      <4>1. PICK n \in {0, MaxRequests} : rows' = [rows EXCEPT ![w][u] = [c \in Codes |-> n]]
        BY <3>2
      <4>2. n \in Nat
        BY <1>1
      <4>3. [c \in Codes |-> n] \in [Codes -> Nat]
        BY <4>2
      <4> QED BY <4>1, <4>3
    <3> QED BY <1>5, <3>1, <3>2 DEF Condense
  <2>2. rows' \in [Workers -> [Uris -> [Codes -> Nat]]]
    BY <2>1 DEF HistoryOK
  <2>3. unread' \in [Workers -> SUBSET Uris]
    BY <1>5 DEF Condense, HistoryOK
  <2> QED BY <1>5, <2>2, <2>3 DEF Condense, HistoryOK
<1>6. ASSUME NEW w \in Workers, NEW c \in Codes,
             Refuse(w) \/ ReadTotal(w) \/ Handle(w, c) \/ LoadCount(w) \/ StoreCount(w)
               \/ BeginPush(w) \/ EndPush(w)
      PROVE  HistoryOK'
  <2>1. total' \in [Workers -> 0 .. MaxRequests]
    <3>1. total' = total \/ total' = [total EXCEPT ![w] = requestCount]
      BY <1>6 DEF Refuse, ReadTotal, Handle, LoadCount, StoreCount, BeginPush, EndPush, Total
    <3>2. requestCount \in 0 .. MaxRequests
      BY DEF CoreOK
    <3> QED BY <3>1, <3>2 DEF HistoryOK
  <2>2. UNCHANGED <<answered, before, unread, rows, uri>>
    BY <1>6 DEF Refuse, ReadTotal, Handle, LoadCount, StoreCount, BeginPush, EndPush
  <2>3. serial' \in BOOLEAN /\ torn' \in BOOLEAN
    BY <1>6 DEF Refuse, Begin, ReadTotal, Handle, LoadCount, StoreCount, BeginPush, EndPush, HistoryOK
  <2>4. \A v \in Workers : pc'[v] \in {"condensing", "handling"} => pc'[v] = pc[v]
    BY <1>6 DEF Refuse, ReadTotal, Handle, LoadCount, StoreCount, BeginPush, EndPush, GoTo, CoreOK
  <2> QED BY <2>1, <2>2, <2>3, <2>4 DEF HistoryOK
<1>7. ASSUME NEW w \in Workers, Respond(w) PROVE HistoryOK'
  <2>1. answered' \in Lists
    BY <1>3, <1>7 DEF Respond
  <2>2. /\ UNCHANGED <<torn, before, serial, total, unread, rows, uri>>
        /\ \A v \in Workers : pc'[v] \in {"condensing", "handling"} => pc'[v] = pc[v]
    BY <1>7 DEF Respond, GoTo, CoreOK
  <2> QED BY <2>1, <2>2 DEF HistoryOK, Lists
<1>8. CASE UNCHANGED vars
  BY <1>8 DEF vars, HistoryOK
<1> QED BY <1>4, <1>5, <1>6, <1>7, <1>8, StatisticsAssumption DEF Next

LEMMA SerialNext ==
  ASSUME CoreOK, HistoryOK, SerialOK, [Next]_vars
  PROVE  SerialOK'
<1> SUFFICES ASSUME serial' PROVE SerialOK'
  BY DEF SerialOK
<1> USE DEF Counted, pageVars, historyVars
<1>1. /\ Len(answered) \in Nat /\ answered \in Seq(Uris \X Codes)
      /\ \A u \in Uris, c \in Codes : CountOf(answered, <<u, c>>) \in Nat
      /\ \A u \in Uris, c \in Codes : CountOf(handledRequests[u], c) \in Nat
      /\ \A u \in Uris : handledRequests[u] \in Seq(Codes)
  BY ListsCounted
<1>2. ASSUME NEW w \in Workers, NEW u \in Uris, Start(w, u) PROVE SerialOK'
  <2>1. serial /\ Busy = {} /\ alive /\ alive'
    BY <1>2 DEF Start, Begin, HistoryOK
  <2>2. \A v \in Workers : pc[v] = "idle"
    BY <2>1 DEF Busy
  <2>3. TalliesOK /\ ~torn
    BY <2>1 DEF SerialOK
  <2>4. /\ pc' = [pc EXCEPT ![w] = IF u = StatusUri THEN "condensing" ELSE "handling"]
        /\ unread' = [unread EXCEPT ![w] = IF u = StatusUri THEN Uris ELSE {}]
        /\ before' = [before EXCEPT ![w] = answered]
        /\ UNCHANGED <<requestCount, handledRequests, torn, answered>>
    BY <1>2 DEF Start, GoTo, AtStart
  <2>5. /\ \A v \in Workers \ {w} : pc'[v] = "idle"
        /\ pc'[w] = IF u = StatusUri THEN "condensing" ELSE "handling"
        /\ pc'[w] = "condensing" => unread'[w] = Uris
        /\ before'[w] = answered
    BY <2>2, <2>4 DEF CoreOK, HistoryOK
  <2>6. PageOK(w)'
    BY <2>4, <2>5 DEF PageOK, HasPage
  <2>7. /\ \A t \in Uris, c \in Codes : CountOf(handledRequests[t], c) = CountOf(answered, <<t, c>>)
        /\ requestCount = Len(answered)
    BY <2>2, <2>3, IdleTallies
  <2>8. pc'[w] \notin {"loaded", "responding"} \cup Counted
    BY <2>5
  <2>9. /\ Len(answered') \in Nat /\ requestCount' = Len(answered')
        /\ \A t \in Uris, c \in Codes : CountOf(answered', <<t, c>>) \in Nat
        /\ \A t \in Uris, c \in Codes :
              CountOf(handledRequests'[t], c) = CountOf(answered', <<t, c>>)
    BY <1>1, <2>4, <2>7
  <2> QED BY <2>1, <2>3, <2>4, <2>5, <2>6, <2>8, <2>9, QuietThen
<1>3. ASSUME NEW w \in Workers, pc[w] # "idle", serial
      PROVE  /\ alive /\ ~torn /\ \A v \in Workers \ {w} : pc[v] = "idle"
             /\ \A u \in Uris, c \in Codes : CountOf(handledRequests[u], c) =
                  CountOf(answered, <<u, c>>) +
                    IF pc[w] = "responding" /\ uri[w] = u /\ code[w] = c THEN 1 ELSE 0
             /\ requestCount = Len(answered) + IF pc[w] \in Counted THEN 1 ELSE 0
             /\ pc[w] = "loaded" => register[w] = Len(answered)
             /\ PageOK(w)
  BY <1>3, SerialNow
<1>3a. ASSUME NEW w \in Workers, pc[w] \notin {"idle", "responding"}, serial
      PROVE  /\ \A u \in Uris, c \in Codes :
                  CountOf(handledRequests[u], c) = CountOf(answered, <<u, c>>)
             /\ pc[w] \notin Counted => requestCount = Len(answered)
  BY <1>3a, QuietNow
<1>4. ASSUME NEW w \in Workers, NEW u \in Uris, Condense(w, u) PROVE SerialOK'
  <2>1. /\ pc[w] = "condensing" /\ serial /\ uri[w] = StatusUri
        /\ unread' = [unread EXCEPT ![w] = unread[w] \ {u}]
        /\ UNCHANGED <<requestCount, handledRequests, pc, uri, code, register, torn, total,
                       answered, before>>
    BY <1>4 DEF Condense, HistoryOK
  <2>2. Updating = {} /\ ~torn
    BY <1>3, <2>1 DEF Updating
  <2>3. /\ alive' = alive
        /\ rows' = [rows EXCEPT ![w][u] = [c \in Codes |-> CountOf(handledRequests[u], c)]]
    BY <1>4, <2>2 DEF Condense
  <2>4. [c \in Codes |-> CountOf(handledRequests[u], c)] = RowsOf(u)
    BY <1>3a, <2>1 DEF RowsOf, Answers
  <2>5. /\ unread'[w] = unread[w] \ {u}
        /\ \A t \in Uris : rows'[w][t] = IF t = u THEN RowsOf(u) ELSE rows[w][t]
    BY <2>1, <2>3, <2>4 DEF HistoryOK
  <2>6. \A t \in Uris : RowsOf(t)' = RowsOf(t)
    BY <2>1 DEF RowsOf, Answers
  <2>7. PageOK(w)'
    BY <1>3, <2>1, <2>5, <2>6 DEF PageOK, HasPage
  <2> QED BY <1>3, <2>1, <2>3, <2>7, SerialThen
<1>5. ASSUME NEW w \in Workers, ReadTotal(w) PROVE SerialOK'
  <2>1. /\ pc[w] = "condensing" /\ serial /\ unread[w] = {}
        /\ pc' = [pc EXCEPT ![w] = "counting"] /\ total' = [total EXCEPT ![w] = requestCount]
        /\ UNCHANGED <<alive, requestCount, handledRequests, uri, register, torn, rows,
                       answered, before>>
    BY <1>5 DEF ReadTotal, GoTo, Total
  <2>2. /\ pc'[w] = "counting" /\ \A v \in Workers \ {w} : pc'[v] = pc[v]
        /\ total'[w] = requestCount
    BY <2>1 DEF CoreOK, HistoryOK
  <2>3. rows[w] = [u \in Uris |-> RowsOf(u)]
    <3>1. \A u \in Uris : rows[w][u] = RowsOf(u)
      BY <1>3, <2>1 DEF PageOK
    <3> QED BY <3>1 DEF HistoryOK
  <2>4. requestCount = Len(answered)
    BY <1>3a, <2>1
  <2>5. PageOK(w)'
    BY <1>3, <2>1, <2>2, <2>3, <2>4 DEF PageOK, RowsOf, Answers
  <2> QED BY <1>3, <2>1, <2>2, <2>5, SerialThen
<1>6. ASSUME NEW w \in Workers, NEW c \in Codes, Handle(w, c) PROVE SerialOK'
  <2>1. /\ pc[w] = "handling" /\ serial /\ pc' = [pc EXCEPT ![w] = "counting"]
        /\ UNCHANGED <<alive, requestCount, handledRequests, uri, register, torn, rows,
                       total, unread, answered, before>>
    BY <1>6 DEF Handle, GoTo
  <2>2. pc'[w] = "counting" /\ \A v \in Workers \ {w} : pc'[v] = pc[v]
    BY <2>1 DEF CoreOK
  <2>3. uri[w] # StatusUri
    BY <2>1 DEF HistoryOK
  <2>4. PageOK(w)'
    BY <1>3, <2>1, <2>2, <2>3 DEF PageOK, HasPage
  <2> QED BY <1>3, <2>1, <2>2, <2>4, SerialThen
<1>7. ASSUME NEW w \in Workers, LoadCount(w) PROVE SerialOK'
  <2>1. /\ pc[w] = "counting" /\ serial /\ pc' = [pc EXCEPT ![w] = "loaded"]
        /\ register' = [register EXCEPT ![w] = requestCount]
        /\ UNCHANGED <<alive, requestCount, handledRequests, uri, code, torn, rows,
                       total, unread, answered, before>>
    BY <1>7 DEF LoadCount, GoTo
  <2>2. /\ pc'[w] = "loaded" /\ \A v \in Workers \ {w} : pc'[v] = pc[v]
        /\ register'[w] = requestCount
    BY <2>1 DEF CoreOK
  <2>3. PageOK(w)'
    BY <1>3, <2>1, <2>2, PageThen DEF HasPage
  <2>4. requestCount = Len(answered)
    BY <1>3a, <2>1
  <2> QED BY <1>3, <2>1, <2>2, <2>3, <2>4, SerialThen
<1>8. ASSUME NEW w \in Workers, StoreCount(w) PROVE SerialOK'
  <2>1. /\ pc[w] = "loaded" /\ serial /\ pc' = [pc EXCEPT ![w] = "counted"]
        /\ requestCount' = register[w] + 1
        /\ UNCHANGED <<alive, register, handledRequests, uri, code, torn, rows,
                       total, unread, answered, before>>
    BY <1>8 DEF StoreCount, GoTo
  <2>2. pc'[w] = "counted" /\ \A v \in Workers \ {w} : pc'[v] = pc[v]
    BY <2>1 DEF CoreOK
  <2>3. PageOK(w)'
    BY <1>3, <2>1, <2>2, PageThen DEF HasPage
  <2> QED BY <1>1, <1>3, <2>1, <2>2, <2>3, SerialThen
<1>9. ASSUME NEW w \in Workers, BeginPush(w) PROVE SerialOK'
  <2>1. /\ pc[w] = "counted" /\ serial /\ pc' = [pc EXCEPT ![w] = "pushing"]
        /\ torn' = (torn \/ Updating # {})
        /\ UNCHANGED <<alive, requestCount, register, handledRequests, uri, code, rows,
                       total, unread, answered, before>>
    BY <1>9 DEF BeginPush, GoTo
  <2>2. pc'[w] = "pushing" /\ \A v \in Workers \ {w} : pc'[v] = pc[v]
    BY <2>1 DEF CoreOK
  <2>3. Updating = {}
    BY <1>3, <2>1 DEF Updating
  <2>4. ~torn'
    BY <1>3, <2>1, <2>3
  <2>5. PageOK(w)'
    BY <1>3, <2>1, <2>2, PageThen DEF HasPage
  <2> QED BY <1>1, <1>3, <2>1, <2>2, <2>4, <2>5, SerialThen
<1>10. ASSUME NEW w \in Workers, EndPush(w) PROVE SerialOK'
  <2>1. pc[w] = "pushing" /\ serial /\ ~torn
    BY <1>3, <1>10 DEF EndPush
  <2> DEFINE u0 == uri[w]
             c0 == code[w]
             longer == Append(handledRequests[u0], c0)
  <2>2. /\ handledRequests' = [handledRequests EXCEPT ![u0] = longer]
        /\ pc' = [pc EXCEPT ![w] = "responding"]
        /\ UNCHANGED <<alive, requestCount, register, uri, code, torn, rows, total, unread, answered,
                       before>>
    BY <1>10, <2>1 DEF EndPush, GoTo
  <2>3. pc'[w] = "responding" /\ \A v \in Workers \ {w} : pc'[v] = pc[v]
    BY <2>2 DEF CoreOK
  <2>4. u0 \in Uris /\ c0 \in Codes
    BY DEF CoreOK
  <2>5. ASSUME NEW c \in Codes
        PROVE  CountOf(longer, c) = CountOf(handledRequests[u0], c) + IF c0 = c THEN 1 ELSE 0
    <3> DEFINE s == handledRequests[u0]
    <3>1. s \in Seq(Codes)
      BY <1>1, <2>4
    <3> HIDE DEF s, c0
    <3>2. CountOf(Append(s, c0), c) = CountOf(s, c) + IF c0 = c THEN 1 ELSE 0
      BY <2>4, <3>1, CountAppend
    <3> QED BY <3>2 DEF s
  <2>6. \A u \in Uris : handledRequests'[u] = IF u0 = u THEN longer ELSE handledRequests[u]
    BY <2>2 DEF CoreOK
  <2> HIDE DEF longer
  <2>7. ASSUME NEW u \in Uris, NEW c \in Codes
        PROVE  CountOf(handledRequests'[u], c) =
                 CountOf(answered, <<u, c>>) + IF u0 = u /\ c0 = c THEN 1 ELSE 0
    <3>1. CountOf(handledRequests[u], c) = CountOf(answered, <<u, c>>)
      BY <1>1, <1>3, <2>1
    <3>2. CASE u0 = u
      BY <1>1, <2>5, <2>6, <3>1, <3>2
    <3>3. CASE u0 # u
      BY <1>1, <2>6, <3>1, <3>3
    <3> QED BY <3>2, <3>3
  <2>8. PageOK(w)'
    BY <1>3, <2>1, <2>2, <2>3, PageThen DEF HasPage
  <2> QED BY <1>3, <2>1, <2>2, <2>3, <2>7, <2>8, SerialThen
<1>11. ASSUME NEW w \in Workers, Respond(w), pc[w] = "responding" PROVE SerialOK'
  <2> DEFINE entry == <<uri[w], code[w]>>
             Entries == Uris \X Codes
  <2>1. /\ serial /\ answered' = Append(answered, entry)
        /\ pc' = [pc EXCEPT ![w] = "idle"]
        /\ UNCHANGED <<alive, requestCount, register, handledRequests, uri, code, torn>>
    BY <1>11 DEF Respond, GoTo
  <2>2. pc'[w] = "idle" /\ \A v \in Workers \ {w} : pc'[v] = pc[v]
    BY <2>1 DEF CoreOK
  <2>3. /\ entry \in Entries /\ answered \in Seq(Entries)
        /\ \A u \in Uris, c \in Codes : <<u, c>> \in Entries
        /\ \A u \in Uris, c \in Codes : entry = <<u, c>> <=> uri[w] = u /\ code[w] = c
    BY <1>1 DEF CoreOK
  <2> HIDE DEF entry, Entries
  <2>4. Len(answered') = Len(answered) + 1
    BY <2>1, <2>3, AppendProperties
  <2>5. \A u \in Uris, c \in Codes :
          CountOf(answered', <<u, c>>) =
            CountOf(answered, <<u, c>>) + IF entry = <<u, c>> THEN 1 ELSE 0
    BY <2>1, <2>3, CountAppend
  <2>6. \A u \in Uris, c \in Codes : CountOf(handledRequests'[u], c) = CountOf(answered', <<u, c>>)
    <3> SUFFICES ASSUME NEW u \in Uris, NEW c \in Codes
                 PROVE  CountOf(handledRequests'[u], c) = CountOf(answered', <<u, c>>)
      OBVIOUS
    <3>1. CountOf(handledRequests[u], c) =
            CountOf(answered, <<u, c>>) + IF uri[w] = u /\ code[w] = c THEN 1 ELSE 0
      BY <1>3, <1>11, <2>1
    <3>2. entry = <<u, c>> <=> uri[w] = u /\ code[w] = c
      BY <2>3
    <3>3. CountOf(answered', <<u, c>>) =
            CountOf(answered, <<u, c>>) + IF entry = <<u, c>> THEN 1 ELSE 0
      BY <2>5
    <3> QED BY <2>1, <3>1, <3>2, <3>3
  <2>7. requestCount' = Len(answered') + 0
    BY <1>1, <1>3, <1>11, <2>1, <2>4
  <2>8. /\ Len(answered') \in Nat
        /\ \A u \in Uris, c \in Codes : CountOf(answered', <<u, c>>) \in Nat
    BY <1>1, <2>4, <2>5
  <2> QED BY <1>3, <1>11, <2>1, <2>2, <2>6, <2>7, <2>8, QuietThen
<1>12. ASSUME NEW w \in Workers, Respond(w), pc[w] = "refusing" PROVE SerialOK'
  <2>1. /\ serial /\ pc' = [pc EXCEPT ![w] = "idle"]
        /\ UNCHANGED <<alive, requestCount, register, handledRequests, uri, code, torn, answered>>
    BY <1>12 DEF Respond, GoTo
  <2>2. pc'[w] = "idle" /\ \A v \in Workers \ {w} : pc'[v] = pc[v]
    BY <2>1 DEF CoreOK
  <2>3. \A u \in Uris, c \in Codes : CountOf(handledRequests'[u], c) = CountOf(answered', <<u, c>>)
    BY <1>3a, <1>12, <2>1
  <2>4. requestCount' = Len(answered')
    BY <1>3a, <1>12, <2>1
  <2> QED BY <1>1, <1>3, <1>12, <2>1, <2>2, <2>3, <2>4, QuietThen
<1>13. ASSUME NEW w \in Workers, Refuse(w) PROVE SerialOK'
  <2>1. /\ serial /\ Busy = {} /\ alive /\ alive' /\ pc' = [pc EXCEPT ![w] = "refusing"]
        /\ UNCHANGED <<requestCount, register, handledRequests, uri, code, torn, answered>>
    BY <1>13 DEF Refuse, Begin, GoTo, HistoryOK
  <2>2. /\ \A v \in Workers : pc[v] = "idle"
        /\ pc'[w] = "refusing" /\ \A v \in Workers \ {w} : pc'[v] = "idle"
    BY <2>1 DEF Busy, CoreOK
  <2>3. TalliesOK /\ ~torn
    BY <2>1 DEF SerialOK
  <2>4. /\ \A u \in Uris, c \in Codes : CountOf(handledRequests[u], c) = CountOf(answered, <<u, c>>)
        /\ requestCount = Len(answered)
    BY <2>2, <2>3, IdleTallies
  <2>5. PageOK(w)'
    BY <2>2 DEF PageOK, HasPage
  <2> QED BY <1>1, <2>1, <2>2, <2>3, <2>4, <2>5, QuietThen
<1>14. ASSUME NEW w \in Workers, Respond(w) PROVE SerialOK'
  BY <1>11, <1>12, <1>14 DEF Respond
<1>15. CASE UNCHANGED vars
  BY <1>15 DEF vars, SerialOK, TalliesOK, PageOK, RowsOf, Answers, HasPage, Busy
<1> QED BY <1>2, <1>4, <1>5, <1>6, <1>7, <1>8, <1>9, <1>10, <1>13, <1>14, <1>15 DEF Next

LEMMA SInvariance == Spec => [](TInv /\ SInv /\ IInv)
<1>1. Init => TInv /\ SInv /\ IInv
  BY TInit, SInit, InitInv
<1>2. TInv /\ SInv /\ IInv /\ [Next]_vars => (TInv /\ SInv /\ IInv)'
  BY TNext, NextInv, HistoryNext, SerialNext DEF TInv, SInv
<1> QED BY <1>1, <1>2, PTL DEF Spec

\* Every variable keeps its type; request_count never exceeds the number of
\* requests, although an increment may store what was true long before.
THEOREM TypeCorrect == Spec => []TypeOK
<1>1. TInv /\ SInv /\ IInv => TypeOK
  <2> SUFFICES ASSUME TInv, SInv, IInv PROVE TypeOK
    OBVIOUS
  <2>1. {requestCount, started, returned} \subseteq 0 .. MaxRequests
    <3>1. MaxRequests \in Nat /\ Cardinality(Open) \in Nat /\ returned \in Nat
      BY StatisticsAssumption, OpenIsFinite DEF IInv, Typed
    <3> QED BY <3>1 DEF TInv, CoreOK, BoundOK
  <2> QED BY <2>1, Zenon DEF TInv, SInv, CoreOK, HistoryOK, TypeOK
<1> QED BY <1>1, SInvariance, PTL

\* While each client waits for its response before the next request is sent,
\* what StatusHandler shows of request_count and handled_requests is exact, by
\* target and code, with any number of threads, targets, codes and requests, and
\* with malformed requests among them.
THEOREM PagesAreExact == Spec => []PageIsExact
<1>1. SInv => PageIsExact
  <2> SUFFICES ASSUME SInv, serial, NEW w \in Workers, HasPage(w)
               PROVE  /\ rows[w] = [u \in Uris |-> [c \in Codes |-> CountOf(before[w], <<u, c>>)]]
                      /\ total[w] = Len(before[w])
    BY DEF PageIsExact
  <2>1. w \in Busy /\ pc[w] # "refusing"
    BY DEF HasPage, Busy
  <2> QED BY <2>1 DEF SInv, SerialOK, PageOK, RowsOf, Answers
<1> QED BY <1>1, SInvariance, PTL
=============================================================================
