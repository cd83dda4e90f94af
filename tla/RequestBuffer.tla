---------------------------- MODULE RequestBuffer ---------------------------
(***************************************************************************)
(* data_, the buffer of a session (session.h), and the reads that fill it  *)
(* until end_of_request finds a double newline (session.cc).  The bytes of *)
(* a request arrive in pieces of any size.  No length is kept: where the   *)
(* next piece goes, and what is searched and parsed, is decided by the     *)
(* first NUL in data_, or behind it where data_ has none.                  *)
(*                                                                         *)
(* A byte is "r" (CR), "n" (LF), "0" (NUL) or "x" (anything else).         *)
(***************************************************************************)
EXTENDS Integers, Sequences

CONSTANTS
  MaxLength,   \* max_length, 1024000 in session.h
  Requests,    \* what clients send
  Behind       \* what may lie behind data_, up to the next NUL

Byte == {"r", "n", "0", "x"}
Text == Byte \ {"0"}

\* session.cc:88: "Assumes the request is at most `max_length' bytes."
ASSUME RequestBufferAssumption ==
  /\ MaxLength \in Nat \ {0}
  /\ \A q \in Requests : q \in Seq(Byte) /\ Len(q) \in 1 .. MaxLength
  /\ Behind \subseteq Seq(Text)

VARIABLES
  request,   \* what the client sends
  received,  \* how many of its bytes have been read
  data,      \* data_
  behind,    \* data_len_, which nothing ever sets, and the memory that follows
  status     \* "new", "reading", "handling", "responding", "closed"

vars == <<request, received, data, behind, status>>

Cleared == [i \in 1 .. MaxLength |-> "0"]

\* std::string(data_), and strlen(data_): up to the first NUL.
CString ==
  LET ends == {i \in 0 .. MaxLength : \A j \in 1 .. i : data[j] # "0"}
      end == CHOOSE i \in ends : \A j \in ends : j <= i
  IN  IF end = MaxLength THEN data \o behind ELSE SubSeq(data, 1, end)

Occurs(marker, s) ==
  \E i \in 0 .. Len(s) - Len(marker) : SubSeq(s, i + 1, i + Len(marker)) = marker

\* Seeded fault of EndOfRequest: the marker is looked for at the end only.
EndsWithMarker(s) ==
  \E marker \in {<<"r", "n", "r", "n">>, <<"n", "n">>} :
    Len(s) >= Len(marker) /\ SubSeq(s, Len(s) - Len(marker) + 1, Len(s)) = marker

\* session::end_of_request.
EndOfRequest(s) == Occurs(<<"r", "n", "r", "n">>, s) \/ Occurs(<<"n", "n">>, s)

\* n more bytes of the request are read to data_[from + 1], data_[from + 2]...
Fill(from, n) ==
  data' = [i \in 1 .. MaxLength |->
             IF i \in from + 1 .. from + n THEN request[received + i - from] ELSE data[i]]

-----------------------------------------------------------------------------
\* data_ is not initialised by the constructor.
Init ==
  /\ request \in Requests
  /\ received = 0
  /\ \E junk \in Byte : data = [i \in 1 .. MaxLength |-> junk]
  /\ behind \in Behind
  /\ status = "new"

\* session::start, or handle_handshake: data_ is cleared for the first read.
Start ==
  /\ status = "new"
  /\ data' = Cleared
  /\ status' = "reading"
  /\ UNCHANGED <<request, received, behind>>

\* Seeded fault of Place: every piece goes to the start of data_.
PlaceAtStart == 0
Place == Len(CString)

\* async_read_some to &data_[strlen(data_)] delivers n bytes.
ReadSome(n) ==
  /\ status = "reading"
  /\ n <= Len(request) - received
  /\ Fill(Place, n)
  /\ received' = received + n
  /\ status' = "handling"
  /\ UNCHANGED <<request, behind>>

\* session::handle_read: append_data, or send_response.
HandleRead ==
  /\ status = "handling"
  /\ status' = IF EndOfRequest(CString) THEN "responding" ELSE "reading"
  /\ UNCHANGED <<request, received, data, behind>>

\* session::handle_write after the response.
HandleWrite ==
  /\ status = "responding"
  /\ data' = Cleared
  /\ status' = "closed"
  /\ UNCHANGED <<request, received, behind>>

Next ==
  \/ Start
  \/ \E n \in 1 .. MaxLength : ReadSome(n)
  \/ HandleRead
  \/ HandleWrite

Spec == Init /\ [][Next]_vars

-----------------------------------------------------------------------------
(* Properties.                                                             *)

Active == status \in {"reading", "handling", "responding"}
Arrived == SubSeq(request, 1, received)

\* The first n bytes of the request have no NUL.
IsText(n) == \A i \in 1 .. n : request[i] # "0"

\* However the request is cut into pieces: the text it begins with is never
\* overwritten and never ends before it should, whatever follows a NUL.  And
\* while no NUL has come, and data_ is not full, what is searched and parsed is
\* exactly what has arrived.
BufferHoldsRequest ==
  Active =>
    /\ \A n \in 0 .. received : IsText(n) =>
         n <= Len(CString) /\ SubSeq(CString, 1, n) = SubSeq(request, 1, n)
    /\ IsText(received) /\ received < MaxLength => CString = Arrived

\* A blank line ends with this byte of the request.
BlankLineAt(last) ==
  \E blankLine \in {<<"r", "n", "r", "n">>, <<"n", "n">>} :
    /\ Len(blankLine) <= last
    /\ SubSeq(request, last - Len(blankLine) + 1, last) = blankLine

\* However the request is cut into pieces, even within the blank line or beyond
\* it: the session never waits for more of a request that has ended before any
\* NUL, and never answers one that has not ended, unless there was a NUL or
\* data_ is full.
DetectionIgnoresPieces ==
  /\ status = "reading" => \A last \in 1 .. received : IsText(last) => ~BlankLineAt(last)
  /\ status = "responding" /\ IsText(received) /\ received < MaxLength =>
       \E last \in 1 .. received : BlankLineAt(last)
=============================================================================
