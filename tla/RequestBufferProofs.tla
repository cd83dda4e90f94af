------------------------ MODULE RequestBufferProofs ------------------------
(***************************************************************************)
(* For buffers of any length, requests of any bytes that fit, and any way  *)
(* of cutting them into pieces: what data_ holds.                          *)
(***************************************************************************)
EXTENDS RequestBuffer, PathsProofs

\* What has arrived, and NULs after it.
DataOK ==
  data = [i \in 1 .. MaxLength |-> IF i <= received THEN request[i] ELSE "0"]

\* The text that the request begins with stays where it went.
TextKept ==
  \A n \in 0 .. received : IsText(n) => \A i \in 1 .. n : data[i] = request[i]

IInv ==
  /\ request \in Requests
  /\ received \in 0 .. Len(request)
  /\ data \in [1 .. MaxLength -> Byte]
  /\ behind \in Behind
  /\ status \in {"reading", "handling", "responding", "new", "closed"}
  /\ status = "new" => received = 0
  /\ Active => TextKept
  /\ Active /\ IsText(received) => DataOK
  /\ DetectionIgnoresPieces

\* What the assumption says of the request at hand.
LEMMA RequestFits ==
  ASSUME IInv
  PROVE  /\ request \in Seq(Byte) /\ Len(request) \in Nat
         /\ Len(request) <= MaxLength /\ MaxLength \in Nat \ {0}
         /\ received \in Nat /\ received <= Len(request) /\ received <= MaxLength
         /\ \A i \in 1 .. Len(request) : request[i] \in Byte
<1>1. request \in Seq(Byte) /\ Len(request) \in 1 .. MaxLength /\ MaxLength \in Nat \ {0}
  BY RequestBufferAssumption DEF IInv
<1>2. \A i \in 1 .. Len(request) : request[i] \in Byte
  BY <1>1, ElementOfSeq
<1> QED BY <1>1, <1>2 DEF IInv

\* strlen(data_) is where the first NUL is, or beyond the end of data_.
LEMMA StringEnds ==
  ASSUME IInv
  PROVE  \E end \in 0 .. MaxLength :
           /\ \A j \in 1 .. end : data[j] # "0"
           /\ end < MaxLength => data[end + 1] = "0"
           /\ CString \in Seq(Byte) /\ end <= Len(CString)
           /\ end < MaxLength => Len(CString) = end
           /\ \A i \in 1 .. end : CString[i] = data[i]
<1> DEFINE ends == {i \in 0 .. MaxLength : \A j \in 1 .. i : data[j] # "0"}
           end == CHOOSE i \in ends : \A j \in ends : j <= i
<1>1. MaxLength \in Nat \ {0} /\ data \in [1 .. MaxLength -> Byte]
  BY RequestFits DEF IInv
<1>2. ends \in SUBSET (0 .. MaxLength) /\ 0 \in ends
  BY <1>1
<1>3. end \in ends /\ \A j \in ends : j <= end
  <2>1. \E i \in ends : \A j \in ends : j <= i
    <3> HIDE DEF ends
    <3> QED BY <1>1, <1>2, LargestExists
  <2> HIDE DEF ends
  <2> QED BY <2>1
<1>4. end \in 0 .. MaxLength /\ \A j \in 1 .. end : data[j] # "0"
  BY <1>3
<1>5. CString = IF end = MaxLength THEN data \o behind ELSE SubSeq(data, 1, end)
  BY DEF CString
<1>6. ASSUME end < MaxLength PROVE data[end + 1] = "0"
  <2> SUFFICES ASSUME data[end + 1] # "0" PROVE FALSE
    OBVIOUS
  <2>1. end + 1 \in 0 .. MaxLength /\ ~(end + 1 <= end)
    <3> HIDE DEF end
    <3> QED BY <1>1, <1>4, <1>6
  <2>2. \A j \in 1 .. end + 1 : j \in 1 .. end \/ j = end + 1
    <3> HIDE DEF end
    <3> QED BY <1>4
  <2>3. \A j \in 1 .. end + 1 : data[j] # "0"
    <3> HIDE DEF end
    <3> QED BY <1>4, <2>2
  <2>4. end + 1 \in ends
    <3> HIDE DEF end
    <3> QED BY <2>1, <2>3
  <2> QED BY <1>3, <2>1, <2>4
<1> HIDE DEF end, ends
<1>7. /\ data \in Seq(Byte) /\ Len(data) = MaxLength
      /\ behind \in Seq(Byte) /\ Len(behind) \in Nat
  <2>1. behind \in Seq(Text)
    BY RequestBufferAssumption DEF IInv
  <2>2. \A i \in 1 .. Len(behind) : behind[i] \in Byte
    BY <2>1, ElementOfSeq DEF Text
  <2>3. behind \in Seq(Byte) /\ Len(behind) \in Nat
    BY <2>1, <2>2
  <2> QED BY <1>1, <2>3
<1>8. CASE end = MaxLength
  <2>1. CString = data \o behind
    BY <1>5, <1>8
  <2>2. /\ data \o behind \in Seq(Byte) /\ Len(data \o behind) = MaxLength + Len(behind)
        /\ \A i \in 1 .. Len(data) + Len(behind) :
             (data \o behind)[i] = IF i <= Len(data) THEN data[i] ELSE behind[i - Len(data)]
    BY <1>7, ConcatProperties
  <2>3. \A i \in 1 .. MaxLength : i \in 1 .. Len(data) + Len(behind) /\ i <= Len(data)
    BY <1>1, <1>7
  <2> QED BY <1>1, <1>4, <1>7, <1>8, <2>1, <2>2, <2>3
<1>9. CASE end # MaxLength
  <2>1. CString = SubSeq(data, 1, end) /\ end < MaxLength /\ end \in Nat /\ end <= Len(data)
    BY <1>1, <1>4, <1>5, <1>7, <1>9
  <2>2. /\ CString \in Seq(Byte) /\ Len(CString) = end
        /\ \A i \in 1 .. end : CString[i] = data[i]
    BY <1>7, <2>1
  <2> QED BY <1>4, <1>6, <2>1, <2>2
<1> QED BY <1>8, <1>9

\* The text that the request begins with is what the string begins with.
LEMMA TextIsHeld ==
  ASSUME IInv, Active, NEW n \in 0 .. received, IsText(n)
  PROVE  /\ n <= Len(CString) /\ CString \in Seq(Byte)
         /\ \A i \in 1 .. n : CString[i] = request[i]
<1>1. received \in Nat /\ received <= MaxLength /\ MaxLength \in Nat /\ n \in Nat /\ n <= received
  BY RequestFits
<1>2. PICK end \in 0 .. MaxLength :
        /\ end < MaxLength => data[end + 1] = "0"
        /\ CString \in Seq(Byte) /\ end <= Len(CString)
        /\ \A i \in 1 .. end : CString[i] = data[i]
  BY StringEnds
<1>3. \A i \in 1 .. n : data[i] = request[i] /\ request[i] # "0"
  BY DEF IInv, TextKept, IsText
<1>4. n <= end
  <2> SUFFICES ASSUME end < n PROVE FALSE
    BY <1>1
  <2>1. end + 1 \in 1 .. n /\ end < MaxLength
    BY <1>1
  <2> QED BY <1>2, <1>3, <2>1
<1>5. \A i \in 1 .. n : i \in 1 .. end
  BY <1>1, <1>4
<1> QED BY <1>1, <1>2, <1>3, <1>4, <1>5

\* Without NULs, and with room for one, the string is what has arrived.
LEMMA StringIsArrived ==
  ASSUME IInv, Active, IsText(received), received < MaxLength
  PROVE  CString = Arrived /\ Len(CString) = received
<1>1. received \in Nat /\ MaxLength \in Nat /\ received <= Len(request) /\ request \in Seq(Byte)
  BY RequestFits
<1>2. PICK end \in 0 .. MaxLength :
        /\ \A j \in 1 .. end : data[j] # "0"
        /\ end < MaxLength => Len(CString) = end
  BY StringEnds
<1>3. data[received + 1] = "0"
  <2>1. received + 1 \in 1 .. MaxLength /\ ~(received + 1 <= received)
    BY <1>1
  <2> QED BY <2>1 DEF IInv, DataOK
<1>4. /\ received <= Len(CString) /\ CString \in Seq(Byte)
      /\ \A i \in 1 .. received : CString[i] = request[i]
  BY <1>1, TextIsHeld
<1>5. Len(CString) = received
  <2>1. end <= received
    <3> SUFFICES ASSUME received < end PROVE FALSE
      BY <1>1
    <3>1. received + 1 \in 1 .. end
      BY <1>1
    <3> QED BY <1>2, <1>3, <3>1
  <2>2. end < MaxLength
    BY <1>1, <2>1
  <2> QED BY <1>1, <1>2, <1>4, <2>1, <2>2
<1>6. Arrived \in Seq(Byte) /\ Len(Arrived) = received /\ \A i \in 1 .. received : Arrived[i] = request[i]
  BY <1>1 DEF Arrived
<1>7. CString = Arrived
  <2> DEFINE a == CString
             b == Arrived
  <2>1. /\ a \in Seq(Byte) /\ b \in Seq(Byte) /\ Len(a) = Len(b)
        /\ \A i \in 1 .. Len(a) : a[i] = b[i]
    BY <1>4, <1>5, <1>6
  <2> HIDE DEF a, b
  <2>2. a = b
    BY <2>1, SeqEqual
  <2> QED BY <2>2 DEF a, b
<1> QED BY <1>5, <1>7

Markers == {<<"r", "n", "r", "n">>, <<"n", "n">>}

LEMMA MarkerLength == \A marker \in Markers : Len(marker) \in {2, 4}
  BY DEF Markers

\* A marker occurs in a string where it ends at a byte that is there.
LEMMA OccursWhereItEnds ==
  ASSUME NEW s \in Seq(Byte), NEW marker \in Markers
  PROVE  Occurs(marker, s) <=>
           \E last \in 1 .. Len(s) :
             Len(marker) <= last /\ SubSeq(s, last - Len(marker) + 1, last) = marker
<1> DEFINE m == Len(marker)
           size == Len(s)
<1>1. m \in {2, 4} /\ size \in Nat
  BY MarkerLength
<1>2. Occurs(marker, s) <=> \E i \in 0 .. size - m : SubSeq(s, i + 1, i + m) = marker
  BY DEF Occurs
<1> HIDE DEF m, size
<1>3. ASSUME NEW i \in 0 .. size - m, SubSeq(s, i + 1, i + m) = marker
      PROVE  \E last \in 1 .. size : m <= last /\ SubSeq(s, last - m + 1, last) = marker
  <2>1. i + m \in 1 .. size /\ m <= i + m /\ (i + m) - m + 1 = i + 1
    BY <1>1
  <2> QED BY <1>3, <2>1
<1>4. ASSUME NEW last \in 1 .. size, m <= last, SubSeq(s, last - m + 1, last) = marker
      PROVE  \E i \in 0 .. size - m : SubSeq(s, i + 1, i + m) = marker
  <2>1. last - m \in 0 .. size - m /\ (last - m) + m = last
    BY <1>1, <1>4
  <2> QED BY <1>4, <2>1
<1> QED BY <1>2, <1>3, <1>4 DEF m, size

\* The parts of sequences that agree are the same.
LEMMA SamePart ==
  ASSUME NEW s \in Seq(Byte), NEW t \in Seq(Byte), NEW n \in Nat, n <= Len(s), n <= Len(t),
         \A i \in 1 .. n : s[i] = t[i], NEW last \in 1 .. n, NEW k \in 1 .. last
  PROVE  SubSeq(s, k, last) = SubSeq(t, k, last)
<1> DEFINE a == SubSeq(s, k, last)
           b == SubSeq(t, k, last)
<1>1. /\ a \in Seq(Byte) /\ b \in Seq(Byte) /\ Len(a) = last - k + 1 /\ Len(b) = last - k + 1
      /\ \A i \in 1 .. last - k + 1 : a[i] = s[k + i - 1] /\ b[i] = t[k + i - 1]
  <2>1. k \in Nat /\ last \in Nat /\ 1 <= k /\ k <= last /\ last <= Len(s) /\ last <= Len(t)
    OBVIOUS
  <2> QED BY <2>1
<1>2. \A i \in 1 .. last - k + 1 : k + i - 1 \in 1 .. n
  OBVIOUS
<1>3. \A i \in 1 .. Len(a) : a[i] = b[i]
  BY <1>1, <1>2
<1> HIDE DEF a, b
<1>4. a = b
  BY <1>1, <1>3, SeqEqual
<1> QED BY <1>4 DEF a, b

LEMMA EndOfRequestIs ==
  ASSUME NEW s
  PROVE  EndOfRequest(s) <=> \E marker \in Markers : Occurs(marker, s)
  BY DEF EndOfRequest, Markers

LEMMA BlankLineIs ==
  ASSUME NEW last
  PROVE  BlankLineAt(last) <=>
           \E marker \in Markers :
             Len(marker) <= last /\ SubSeq(request, last - Len(marker) + 1, last) = marker
  BY DEF BlankLineAt, Markers

\* A blank line before any NUL is found.
LEMMA EndIsFound ==
  ASSUME IInv, Active, NEW last \in 1 .. received, IsText(last), BlankLineAt(last)
  PROVE  EndOfRequest(CString)
<1>1. received \in Nat /\ received <= Len(request) /\ request \in Seq(Byte) /\ last \in 0 .. received
  BY RequestFits
<1>2. /\ last <= Len(CString) /\ CString \in Seq(Byte)
      /\ \A i \in 1 .. last : CString[i] = request[i]
  BY <1>1, TextIsHeld
<1>3. PICK marker \in Markers :
        Len(marker) <= last /\ SubSeq(request, last - Len(marker) + 1, last) = marker
  BY BlankLineIs
<1>4. last - Len(marker) + 1 \in 1 .. last /\ last \in Nat /\ last <= Len(request) /\ last \in 1 .. last
  <2> DEFINE m == Len(marker)
  <2>1. m \in {2, 4} /\ m <= last
    BY <1>3, MarkerLength
  <2> HIDE DEF m
  <2>2. last - m + 1 \in 1 .. last /\ last \in Nat /\ last <= Len(request) /\ last \in 1 .. last
    BY <1>1, <2>1
  <2> QED BY <2>2 DEF m
<1>5. SubSeq(CString, last - Len(marker) + 1, last) = SubSeq(request, last - Len(marker) + 1, last)
  BY <1>1, <1>2, <1>4, SamePart
<1>6. last \in 1 .. Len(CString)
  BY <1>2, <1>4
<1>7. Occurs(marker, CString)
  BY <1>2, <1>3, <1>5, <1>6, OccursWhereItEnds
<1> QED BY <1>7, EndOfRequestIs

\* What is found in what has arrived is a blank line of the request.
LEMMA FoundIsEnd ==
  ASSUME IInv, EndOfRequest(Arrived)
  PROVE  \E last \in 1 .. received : BlankLineAt(last)
<1>1. received \in Nat /\ received <= Len(request) /\ request \in Seq(Byte)
  BY RequestFits
<1>2. Arrived \in Seq(Byte) /\ Len(Arrived) = received /\ \A i \in 1 .. received : Arrived[i] = request[i]
  BY <1>1 DEF Arrived
<1>3. PICK marker \in Markers : Occurs(marker, Arrived)
  BY EndOfRequestIs
<1>4. PICK last \in 1 .. received :
        Len(marker) <= last /\ SubSeq(Arrived, last - Len(marker) + 1, last) = marker
  BY <1>2, <1>3, OccursWhereItEnds
<1>5. last - Len(marker) + 1 \in 1 .. last
  <2> DEFINE m == Len(marker)
  <2>1. m \in {2, 4} /\ m <= last
    BY <1>4, MarkerLength
  <2> HIDE DEF m
  <2>2. last - m + 1 \in 1 .. last
    BY <1>1, <2>1
  <2> QED BY <2>2 DEF m
<1>6. SubSeq(Arrived, last - Len(marker) + 1, last) = SubSeq(request, last - Len(marker) + 1, last)
  BY <1>1, <1>2, <1>5, SamePart
<1> QED BY <1>4, <1>6, BlankLineIs

-----------------------------------------------------------------------------
LEMMA InitInv == Init => IInv
<1> SUFFICES ASSUME Init PROVE IInv
  OBVIOUS
<1>1. request \in Requests /\ received = 0 /\ status = "new" /\ Len(request) \in Nat
  BY RequestBufferAssumption DEF Init
<1>2. data \in [1 .. MaxLength -> Byte] /\ behind \in Behind
  BY DEF Init
<1> QED BY <1>1, <1>2 DEF IInv, Active, DetectionIgnoresPieces

LEMMA StartInv == IInv /\ Start => IInv'
<1> SUFFICES ASSUME IInv, Start PROVE IInv'
  OBVIOUS
<1>1. /\ received = 0 /\ received' = 0 /\ request' = request /\ behind' = behind
      /\ status' = "reading" /\ data' = Cleared
  BY DEF IInv, Start
<1>2. DataOK' /\ TextKept'
  BY <1>1 DEF DataOK, TextKept, Cleared
<1>3. data' \in [1 .. MaxLength -> Byte]
  BY <1>1 DEF Cleared, Byte
<1>4. DetectionIgnoresPieces'
  BY <1>1 DEF DetectionIgnoresPieces
<1> QED BY <1>1, <1>2, <1>3, <1>4 DEF IInv, Active

LEMMA ReadSomeInv ==
  ASSUME IInv, NEW n \in 1 .. MaxLength, ReadSome(n)
  PROVE  IInv'
<1>1. /\ status = "reading" /\ n <= Len(request) - received /\ received' = received + n
      /\ status' = "handling" /\ request' = request /\ behind' = behind /\ Fill(Place, n)
  BY DEF ReadSome
<1>2. Active /\ TextKept
  BY <1>1 DEF IInv, Active
<1>3. /\ received \in Nat /\ Len(request) \in Nat /\ n \in Nat /\ n # 0 /\ MaxLength \in Nat
      /\ received' \in 0 .. Len(request) /\ received < MaxLength
      /\ \A i \in 1 .. Len(request) : request[i] \in Byte
  BY <1>1, RequestFits
<1>4. Place \in Nat
  <2>1. CString \in Seq(Byte)
    BY StringEnds
  <2> QED BY <2>1 DEF Place
<1>5. data' = [i \in 1 .. MaxLength |->
                 IF i \in Place + 1 .. Place + n THEN request[received + i - Place] ELSE data[i]]
  BY <1>1 DEF Fill
<1>6. data' \in [1 .. MaxLength -> Byte]
  <2>1. ASSUME NEW i \in Place + 1 .. Place + n PROVE received + i - Place \in 1 .. Len(request)
    BY <1>1, <1>3, <1>4
  <2> QED BY <1>3, <1>5, <2>1 DEF IInv
<1>7. ASSUME NEW k \in 0 .. received, IsText(k) PROVE k <= Place
  BY <1>2, <1>7, TextIsHeld DEF Place
<1>8. ASSUME IsText(received) PROVE Place = received /\ DataOK
  BY <1>2, <1>3, <1>8, StringIsArrived DEF IInv, Place
<1>9. ASSUME IsText(received) PROVE DataOK'
  <2>1. data' = [i \in 1 .. MaxLength |->
                   IF i \in received + 1 .. received + n THEN request[i] ELSE data[i]]
    <3>1. data' = [i \in 1 .. MaxLength |->
                     IF i \in received + 1 .. received + n
                       THEN request[received + i - received] ELSE data[i]]
      BY <1>5, <1>8, <1>9
    <3>2. \A i \in 1 .. MaxLength : received + i - received = i
      BY <1>3
    <3> QED BY <3>1, <3>2
  <2>2. \A i \in 1 .. MaxLength : data[i] = IF i <= received THEN request[i] ELSE "0"
    BY <1>8, <1>9 DEF DataOK
  <2>3. \A i \in 1 .. MaxLength :
          i <= received + n <=> i \in received + 1 .. received + n \/ i <= received
    BY <1>3
  <2> QED BY <1>1, <1>3, <2>1, <2>2, <2>3 DEF DataOK
<1>10. IsText(received)' => IsText(received)
  BY <1>1, <1>3 DEF IsText
<1>11. TextKept'
  <2> SUFFICES ASSUME NEW k \in 0 .. received', IsText(k)', NEW i \in 1 .. k
               PROVE  data'[i] = request[i]
    BY <1>1 DEF TextKept
  <2>1. IsText(k)
    BY <1>1 DEF IsText
  <2>2. i \in 1 .. MaxLength
    BY <1>1, <1>3, RequestFits
  <2>3. CASE k <= received
    <3>1. k \in 0 .. received
      BY <1>3, <2>3
    <3>2. data[i] = request[i] /\ k <= Place
      BY <1>2, <1>7, <2>1, <3>1 DEF TextKept
    <3>3. ~(i \in Place + 1 .. Place + n)
      BY <1>4, <3>1, <3>2
    <3> QED BY <1>5, <2>2, <3>2, <3>3
  <2>4. CASE received < k
    <3>1. \A j \in 1 .. received : j \in 1 .. k
      BY <1>3, <2>4
    <3>2. IsText(received)
      BY <2>1, <3>1 DEF IsText
    <3>3. i <= received'
      BY <1>1, <1>3
    <3> QED BY <1>1, <1>9, <2>2, <3>2, <3>3 DEF DataOK
  <2> QED BY <1>1, <1>3, <2>3, <2>4
<1>12. DetectionIgnoresPieces'
  BY <1>1 DEF DetectionIgnoresPieces
<1> QED BY <1>1, <1>3, <1>6, <1>9, <1>10, <1>11, <1>12 DEF IInv, Active

LEMMA HandleReadInv == IInv /\ HandleRead => IInv'
<1> SUFFICES ASSUME IInv, HandleRead PROVE IInv'
  OBVIOUS
<1>1. /\ status = "handling" /\ UNCHANGED <<request, received, data, behind>>
      /\ status' = IF EndOfRequest(CString) THEN "responding" ELSE "reading"
  BY DEF HandleRead
<1>2. Active /\ Active'
  BY <1>1 DEF Active
<1>3. ASSUME status' = "reading", NEW last \in 1 .. received, IsText(last)
      PROVE  ~BlankLineAt(last)
  BY <1>1, <1>2, <1>3, EndIsFound
<1>4. ASSUME status' = "responding", IsText(received), received < MaxLength
      PROVE  \E last \in 1 .. received : BlankLineAt(last)
  <2>1. EndOfRequest(CString) /\ CString = Arrived
    BY <1>1, <1>2, <1>4, StringIsArrived
  <2> QED BY <2>1, FoundIsEnd
<1>5. \A last : (IsText(last)' <=> IsText(last)) /\ (BlankLineAt(last)' <=> BlankLineAt(last))
  BY <1>1 DEF IsText, BlankLineAt
<1>6. DetectionIgnoresPieces'
  BY <1>1, <1>3, <1>4, <1>5 DEF DetectionIgnoresPieces
<1>7. (TextKept' <=> TextKept) /\ (DataOK' <=> DataOK)
  BY <1>1 DEF TextKept, DataOK, IsText
<1> QED BY <1>1, <1>2, <1>5, <1>6, <1>7 DEF IInv

LEMMA HandleWriteInv == IInv /\ HandleWrite => IInv'
<1> SUFFICES ASSUME IInv, HandleWrite PROVE IInv'
  OBVIOUS
<1>1. /\ UNCHANGED <<request, received, behind>> /\ status' = "closed" /\ data' = Cleared
  BY DEF HandleWrite
<1>2. data' \in [1 .. MaxLength -> Byte]
  BY <1>1 DEF Cleared, Byte
<1> QED BY <1>1, <1>2 DEF IInv, Active, DetectionIgnoresPieces

LEMMA Invariance == Spec => []IInv
<1>1. IInv /\ UNCHANGED vars => IInv'
  <2> SUFFICES ASSUME IInv, UNCHANGED vars PROVE IInv'
    OBVIOUS
  <2>1. UNCHANGED <<request, received, data, behind, status>>
    BY DEF vars
  <2>2. \A last : (IsText(last)' <=> IsText(last)) /\ (BlankLineAt(last)' <=> BlankLineAt(last))
    BY <2>1 DEF IsText, BlankLineAt
  <2>3. (TextKept' <=> TextKept) /\ (DataOK' <=> DataOK)
    BY <2>1 DEF TextKept, DataOK, IsText
  <2>4. DetectionIgnoresPieces'
    BY <2>1, <2>2 DEF IInv, DetectionIgnoresPieces
  <2> QED BY <2>1, <2>2, <2>3, <2>4 DEF IInv, Active
<1>2. IInv /\ [Next]_vars => IInv'
  BY <1>1, StartInv, ReadSomeInv, HandleReadInv, HandleWriteInv DEF Next
<1> QED BY <1>2, InitInv, PTL DEF Spec

\* strlen(data_) is as good as a count of the bytes read, while there is no NUL
\* and room for one: what append_data reads next goes where it should, and what
\* is searched and parsed is what has arrived, however it was cut.  And for any
\* request of up to max_length bytes, what comes before a NUL stays.
THEOREM BufferIsRequest == Spec => []BufferHoldsRequest
<1>1. IInv => BufferHoldsRequest
  <2> SUFFICES ASSUME IInv, Active PROVE
        /\ \A n \in 0 .. received : IsText(n) =>
             n <= Len(CString) /\ SubSeq(CString, 1, n) = SubSeq(request, 1, n)
        /\ IsText(received) /\ received < MaxLength => CString = Arrived
    BY DEF BufferHoldsRequest
  <2>1. ASSUME NEW n \in 0 .. received, IsText(n)
        PROVE  n <= Len(CString) /\ SubSeq(CString, 1, n) = SubSeq(request, 1, n)
    <3>1. /\ n <= Len(CString) /\ CString \in Seq(Byte)
          /\ \A i \in 1 .. n : CString[i] = request[i]
      BY <2>1, TextIsHeld
    <3>2. request \in Seq(Byte) /\ n <= Len(request) /\ n \in Nat
      BY RequestFits
    <3>3. CASE n = 0
      BY <3>1, <3>2, <3>3
    <3>4. CASE n # 0
      <4>1. n \in 1 .. n /\ 1 \in 1 .. n
        BY <3>2, <3>4
      <4> QED BY <3>1, <3>2, <4>1, SamePart
    <3> QED BY <3>1, <3>3, <3>4
  <2> QED BY <2>1, StringIsArrived
<1> QED BY <1>1, Invariance, PTL

\* handle_read never waits for more of a request that has ended before any NUL,
\* and answers none that has not ended, unless there was a NUL or data_ is full,
\* wherever the pieces are cut.
THEOREM EndIsSeenInTime == Spec => []DetectionIgnoresPieces
<1>1. IInv => DetectionIgnoresPieces
  BY DEF IInv
<1> QED BY <1>1, Invariance, PTL
=============================================================================
