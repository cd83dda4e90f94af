---------------------------- MODULE ServerProofs ----------------------------
(***************************************************************************)
(* Proofs of the safety invariants of Server, for any number of sessions,  *)
(* and that it implements Exchange.                                        *)
(***************************************************************************)
EXTENDS Server, TLAPS, FiniteSetTheorems

\* A thread inside a handler has a completion to handle, of the matching kind.
CallOK ==
  \A t \in Threads : at[t] \in SessionLabels =>
    /\ call[t] \in Completion
    /\ at[t] = "handle_accept" <=> call[t].op = "accept"

\* The thread of a session is spawned when, and only when, its accept has been
\* handled; the first thread of the pool is always there.
SpawnOK ==
  /\ at[Main] # "unborn"
  /\ \A a \in armed : a.op = "accept" <=> at[a.sess] = "unborn"
  /\ \A c \in ready : c.op = "accept" <=> at[c.sess] = "unborn"
  /\ \A t \in Threads, s \in Sessions :
       Uses(t, s) => (at[t] = "handle_accept" <=> at[s] = "unborn")
  /\ \A s \in Sessions : object[s] = "raw" => at[s] = "unborn"

\* The inductive invariant: the properties themselves support one another once
\* each session's thread is tied to what its operations are.
IInv ==
  /\ TypeOK
  /\ CallOK
  /\ SpawnOK
  /\ NoDanglingSession
  /\ SingleActivity
  /\ AcceptorNeverLost
  /\ NoAbandonedConnection

-----------------------------------------------------------------------------
(* How the four kinds of activity change, whatever the action.             *)

LEMMA ArmEffect ==
  ASSUME NEW op \in Ops, NEW s \in Sessions, Arm(op, s)
  PROVE  \A x \in Sessions : Armed(x)' <=> Armed(x) \/ x = s
<1> DEFINE new == [op |-> op, sess |-> s]
<1>1. armed' = armed \cup {new} /\ new.sess = s
  BY DEF Arm
<1> HIDE DEF new
<1> QED BY <1>1 DEF Armed

LEMMA CompleteEffect ==
  ASSUME TypeOK, SingleActivity, NEW a \in armed, NEW ok \in BOOLEAN, Complete(a, ok)
  PROVE  /\ a \in Operation
         /\ \A x \in Sessions : Armed(x)' <=> Armed(x) /\ x # a.sess
         /\ \A x \in Sessions : Queued(x)' <=> Queued(x) \/ x = a.sess
         /\ Armed(a.sess)
<1>1. a \in Operation /\ Armed(a.sess)
  BY DEF TypeOK, Armed
<1>2. ASSUME NEW x \in Sessions PROVE Armed(x)' <=> Armed(x) /\ x # a.sess
  BY DEF Armed, Complete, SingleActivity
<1>3. ASSUME NEW x \in Sessions PROVE Queued(x)' <=> Queued(x) \/ x = a.sess
  <2> DEFINE new == [op |-> a.op, sess |-> a.sess, ok |-> ok]
  <2>1. ready' = ready \cup {new} /\ new.sess = a.sess
    BY DEF Complete
  <2> HIDE DEF new
  <2> QED BY <2>1 DEF Queued
<1> QED BY <1>1, <1>2, <1>3

LEMMA TakeEffect ==
  ASSUME TypeOK, SingleActivity, NEW c \in ready, ready' = ready \ {c}
  PROVE  /\ c \in Completion
         /\ \A x \in Sessions : Queued(x)' <=> Queued(x) /\ x # c.sess
         /\ Queued(c.sess)
BY DEF TypeOK, Queued, SingleActivity

\* A thread leaves its handler, or enters a part of it that uses no session.
LEMMA LeaveEffect ==
  ASSUME TypeOK, CallOK, SingleActivity,
         NEW t \in Threads, at[t] \in SessionLabels, at'[t] \notin SessionLabels,
         \A u \in Threads \ {t} : at'[u] = at[u] /\ call'[u] = call[u]
  PROVE  /\ call[t] \in Completion
         /\ Used(call[t].sess)
         /\ \A u \in Threads, x \in Sessions : Uses(u, x)' <=> Uses(u, x) /\ u # t
         /\ \A x \in Sessions : Used(x)' <=> Used(x) /\ x # call[t].sess
<1>1. call[t] \in Completion /\ Uses(t, call[t].sess) /\ Used(call[t].sess)
  BY DEF CallOK, Uses, Used
<1>2. \A u \in Threads, x \in Sessions : Uses(u, x)' <=> Uses(u, x) /\ u # t
  BY DEF Uses
<1>3. call[t].sess \in Sessions
  BY <1>1 DEF Completion
<1>4. \A u \in Threads : Uses(u, call[t].sess) => u = t
  BY <1>1, <1>3 DEF SingleActivity
<1>5. \A x \in Sessions : Uses(t, x) => x = call[t].sess
  BY DEF Uses
<1> HIDE DEF Uses
<1> QED BY <1>1, <1>2, <1>4, <1>5 DEF Used

\* An action moves the activity of one session s and leaves the other sessions
\* alone.  Afterwards s has one activity and is allocated, or it has none and
\* nobody waits for it.
Elsewhere(s) ==
  \A x \in Sessions \ {s} :
    /\ Armed(x)' <=> Armed(x)
    /\ Queued(x)' <=> Queued(x)
    /\ Used(x)' <=> Used(x)
    /\ Starting(x)' <=> Starting(x)
    /\ object'[x] = object[x]
    /\ socket'[x] = socket[x]

Exclusive(s) ==
  /\ Armed(s) => ~Queued(s) /\ ~Used(s) /\ ~Starting(s)
  /\ Queued(s) => ~Used(s) /\ ~Starting(s)
  /\ Used(s) => ~Starting(s)

Busy(s) == Armed(s) \/ Queued(s) \/ Used(s) \/ Starting(s)

LEMMA OneSessionMoves ==
  ASSUME NoDanglingSession, NoAbandonedConnection, SingleActivity,
         NEW s \in Sessions, Elsewhere(s), Exclusive(s)',
         \/ Busy(s)' /\ object'[s] = "allocated"
         \/ ~Busy(s)' /\ (object'[s] = "deleted" \/ socket'[s] = "closed")
  PROVE  /\ NoDanglingSession'
         /\ NoAbandonedConnection'
         /\ \A x \in Sessions : Exclusive(x)'
<1> SUFFICES ASSUME NEW x \in Sessions
             PROVE  /\ Busy(x)' => object'[x] = "allocated"
                    /\ socket'[x] = "open" /\ object'[x] = "allocated" => Busy(x)'
                    /\ Exclusive(x)'
  BY DEF NoDanglingSession, NoAbandonedConnection, Busy
<1>1. CASE x = s
  BY <1>1
<1>2. CASE x # s
  BY <1>2 DEF NoDanglingSession, NoAbandonedConnection, SingleActivity,
              Elsewhere, Exclusive, Busy
<1> QED BY <1>1, <1>2

-----------------------------------------------------------------------------
(* One lemma per kind of action.                                           *)

\* SpawnOK survives as long as no thread is spawned.
LEMMA SpawnKept ==
  ASSUME TypeOK, SpawnOK,
         \A u \in Threads : at'[u] = "unborn" <=> at[u] = "unborn",
         \A a \in armed' :
           a \in armed \/ (a.sess \in Sessions /\ (a.op = "accept" <=> at[a.sess] = "unborn")),
         \A c \in ready' :
           c \in ready \/ (c.sess \in Sessions /\ (c.op = "accept" <=> at[c.sess] = "unborn")),
         \A u \in Threads, x \in Sessions : Uses(u, x)' =>
           \/ Uses(u, x) /\ (at'[u] = "handle_accept" <=> at[u] = "handle_accept")
           \/ at'[u] = "handle_accept" <=> at[x] = "unborn",
         \A x \in Sessions : object'[x] = "raw" => object[x] = "raw"
  PROVE  SpawnOK'
<1>1. Main \in Threads /\ \A x \in Sessions : x \in Threads
  BY DEF Threads
<1>2. \A a \in armed' : a.sess \in Sessions /\ (a.op = "accept" <=> at[a.sess] = "unborn")
  BY DEF TypeOK, Operation, SpawnOK
<1>3. \A c \in ready' : c.sess \in Sessions /\ (c.op = "accept" <=> at[c.sess] = "unborn")
  BY DEF TypeOK, Completion, SpawnOK
<1>4. \A u \in Threads, x \in Sessions :
        Uses(u, x)' => (at'[u] = "handle_accept" <=> at[x] = "unborn")
  BY DEF SpawnOK
<1>5. at'[Main] # "unborn" /\ \A x \in Sessions : object'[x] = "raw" => at'[x] = "unborn"
  BY <1>1 DEF SpawnOK
<1> QED BY <1>1, <1>2, <1>3, <1>4, <1>5 DEF SpawnOK

LEMMA RunHandlerInv ==
  ASSUME IInv, NEW t \in Threads, NEW s \in Sessions, RunHandler(t, s)
  PROVE  IInv'
<1> USE ServerAssumption DEF IInv
<1>1. PICK c \in ready : /\ c.sess = s /\ ready' = ready \ {c}
                         /\ call' = [call EXCEPT ![t] = c]
                         /\ at' = [at EXCEPT ![t] = HandlerOf[c.op]]
  BY DEF RunHandler, GoTo
<1>2. /\ c \in Completion /\ Queued(s)
      /\ \A x \in Sessions : Queued(x)' <=> Queued(x) /\ x # s
  BY <1>1, TakeEffect
<1>3. /\ at[t] = "run"
      /\ at'[t] \in SessionLabels /\ at'[t] # "unborn"
      /\ at'[t] = "handle_accept" <=> c.op = "accept"
      /\ call'[t] = c
      /\ \A u \in Threads \ {t} : at'[u] = at[u] /\ call'[u] = call[u]
      /\ UNCHANGED <<alive, torn, object, socket, data, armed, peer, inflight>>
  BY <1>1, <1>2 DEF RunHandler, TypeOK, Completion, Ops, HandlerOf, SessionLabels
<1>4. \A u \in Threads, x \in Sessions : Uses(u, x)' <=> Uses(u, x) \/ (u = t /\ x = s)
  BY <1>1, <1>3 DEF Uses, SessionLabels
<1>5. /\ \A x \in Sessions : Used(x)' <=> Used(x) \/ x = s
      /\ \A x \in Sessions : Armed(x)' <=> Armed(x)
      /\ \A x \in Sessions : Starting(x)' <=> Starting(x)
  BY <1>3, <1>4 DEF Used, Armed, Starting, SessionLabels, Threads
<1>6. /\ NoDanglingSession' /\ NoAbandonedConnection'
      /\ \A x \in Sessions : Exclusive(x)'
  <2>1. Elsewhere(s) /\ Exclusive(s)' /\ Busy(s)' /\ object'[s] = "allocated"
    BY <1>2, <1>3, <1>5 DEF Elsewhere, Exclusive, Busy, SingleActivity, NoDanglingSession
  <2> QED BY <2>1, OneSessionMoves
<1>7. SingleActivity'
  <2>1. \A x \in Sessions, u, v \in Threads : Uses(u, x)' /\ Uses(v, x)' => u = v
    BY <1>2, <1>4 DEF SingleActivity, Used
  <2> QED BY <1>1, <1>3, <1>6, <2>1 DEF SingleActivity, Exclusive
<1>8. TypeOK'
  BY <1>1, <1>2, <1>3 DEF TypeOK, Labels, SessionLabels
<1>9. CallOK'
  BY <1>2, <1>3 DEF CallOK
<1>10. SpawnOK'
  <2>1. \A u \in Threads : at'[u] = "unborn" <=> at[u] = "unborn"
    BY <1>3
  <2>2. at'[t] = "handle_accept" <=> at[s] = "unborn"
    BY <1>1, <1>3 DEF SpawnOK
  <2>3. ASSUME NEW u \in Threads, NEW x \in Sessions, Uses(u, x)'
        PROVE  \/ Uses(u, x) /\ at'[u] = at[u]
               \/ at'[u] = "handle_accept" <=> at[x] = "unborn"
    <3>1. CASE u = t
      BY <1>3, <1>4, <2>2, <2>3, <3>1 DEF Uses, SessionLabels
    <3>2. CASE u # t
      BY <1>3, <1>4, <2>3, <3>2
    <3> QED BY <3>1, <3>2
  <2> HIDE DEF Uses
  <2> QED BY <1>1, <1>3, <2>1, <2>3, SpawnKept
<1>11. AcceptorNeverLost'
  <2>1. ready' \subseteq ready /\ c \in ready /\ c \notin ready'
    BY <1>1
  <2>2. \A u \in Threads : Accepting(u)' <=> Accepting(u) \/ (u = t /\ c.op = "accept")
    BY <1>3 DEF Accepting, SessionLabels
  <2>3. CASE c.op = "accept"
    <3>1. \A u \in Threads : ~Accepting(u)
      BY <2>1, <2>3 DEF AcceptorNeverLost
    <3>2. \A d \in ready' : d.op # "accept"
      BY <1>1, <2>3 DEF AcceptorNeverLost
    <3>3. \A a \in armed : a.op # "accept"
      BY <2>1, <2>3 DEF AcceptorNeverLost
    <3>4. {u \in Threads : Accepting(u)'} = {t}
      BY <2>2, <2>3, <3>1
    <3> HIDE DEF Accepting
    <3> QED BY <1>3, <3>2, <3>3, <3>4 DEF AcceptorNeverLost
  <2>4. CASE c.op # "accept"
    <3>1. \A u \in Threads : Accepting(u)' <=> Accepting(u)
      BY <2>2, <2>4
    <3>2. {u \in Threads : Accepting(u)'} = {u \in Threads : Accepting(u)}
      BY <3>1
    <3>3. {d \in ready' : d.op = "accept"} = {d \in ready : d.op = "accept"}
      BY <1>1, <2>4
    <3> HIDE DEF Accepting
    <3> QED BY <1>3, <3>2, <3>3 DEF AcceptorNeverLost
  <2> QED BY <2>3, <2>4
<1> QED BY <1>6, <1>7, <1>8, <1>9, <1>10, <1>11

LEMMA StartSessionInv ==
  ASSUME IInv, NEW s \in Sessions, StartSession(s)
  PROVE  IInv'
<1> USE ServerAssumption DEF IInv
<1>1. PICK op \in {"handshake", "read"} : Arm(op, s)
  BY DEF StartSession, AfterStart
<1>2. /\ Starting(s) /\ at[s] = "start_session" /\ at'[s] = "run"
      /\ \A u \in Threads \ {s} : at'[u] = at[u]
      /\ UNCHANGED <<alive, torn, object, socket, ready, call, peer, inflight>>
      /\ data' \in [Sessions -> {"empty", "partial"} \cup Requests]
  BY DEF StartSession, AfterStart, Starting, GoTo, TypeOK, Threads
<1>3. \A x \in Sessions : Armed(x)' <=> Armed(x) \/ x = s
  BY <1>1, ArmEffect DEF Ops
<1>4. \A u \in Threads, x \in Sessions : Uses(u, x)' <=> Uses(u, x)
  BY <1>2 DEF Uses, SessionLabels
<1>5. /\ \A x \in Sessions : Used(x)' <=> Used(x)
      /\ \A x \in Sessions : Queued(x)' <=> Queued(x)
      /\ \A x \in Sessions : Starting(x)' <=> Starting(x) /\ x # s
  BY <1>2, <1>4 DEF Used, Queued, Starting, Threads
<1>6. /\ NoDanglingSession' /\ NoAbandonedConnection'
      /\ \A x \in Sessions : Exclusive(x)'
  <2>1. Elsewhere(s) /\ Exclusive(s)' /\ Busy(s)' /\ object'[s] = "allocated"
    BY <1>2, <1>3, <1>5 DEF Elsewhere, Exclusive, Busy, SingleActivity, NoDanglingSession
  <2> QED BY <2>1, OneSessionMoves
<1>7. SingleActivity'
  <2>1. ~Armed(s)
    BY <1>2 DEF SingleActivity
  <2>2. \A a, b \in armed' : a.sess = b.sess => a = b
    BY <1>1, <2>1 DEF SingleActivity, Arm, Armed
  <2> QED BY <1>2, <1>4, <1>6, <2>2 DEF SingleActivity, Exclusive
<1>8. TypeOK'
  BY <1>1, <1>2 DEF TypeOK, Arm, Operation, Ops, Labels, StartSession, AfterStart, GoTo
<1>9. CallOK'
  BY <1>2 DEF CallOK, SessionLabels
<1>10. SpawnOK'
  <2>1. \A u \in Threads : at'[u] = "unborn" <=> at[u] = "unborn"
    BY <1>2
  <2>2. \A a \in armed' : a \in armed \/ (a.sess = s /\ a.op # "accept")
    BY <1>1 DEF Arm
  <2>3. \A u \in Threads, x \in Sessions : Uses(u, x)' => Uses(u, x) /\ at'[u] = at[u]
    BY <1>2, <1>4 DEF Uses, SessionLabels
  <2> HIDE DEF Uses
  <2> QED BY <1>2, <2>1, <2>2, <2>3, SpawnKept
<1>11. AcceptorNeverLost'
  BY <1>1, <1>2 DEF AcceptorNeverLost, Accepting, Arm, Threads
<1> QED BY <1>6, <1>7, <1>8, <1>9, <1>10, <1>11

\* The session handlers: each of them arms the next operation of its session,
\* or deletes the session, or closes its socket, and returns.
LEMMA HandlerReturnsInv ==
  ASSUME IInv, NEW t \in Threads, NEW s \in Sessions,
         at[t] \in SessionLabels \ {"handle_accept"}, call[t].sess = s,
         Return(t), UNCHANGED <<alive, torn, ready, peer, inflight>>,
         data' \in [Sessions -> {"empty", "partial"} \cup Requests],
         \/ /\ \E op \in {"read", "write"} : Arm(op, s)
            /\ UNCHANGED <<object, socket>>
         \/ /\ object' = [object EXCEPT ![s] = "deleted"]
            /\ UNCHANGED <<armed, socket>>
         \/ /\ socket' = [socket EXCEPT ![s] = "closed"]
            /\ UNCHANGED <<armed, object>>
  PROVE  IInv'
<1> USE ServerAssumption DEF IInv
<1>1. /\ at'[t] = "run" /\ at'[t] \notin SessionLabels
      /\ \A u \in Threads \ {t} : at'[u] = at[u] /\ call'[u] = call[u]
      /\ at' \in [Threads -> Labels] /\ call' \in [Threads -> Completion \cup {NoCall}]
  BY DEF Return, GoTo, TypeOK, SessionLabels, Labels
<1>2. /\ Used(s)
      /\ \A u \in Threads, x \in Sessions : Uses(u, x)' <=> Uses(u, x) /\ u # t
      /\ \A x \in Sessions : Used(x)' <=> Used(x) /\ x # s
  BY <1>1, LeaveEffect
<1>3. /\ ~Armed(s) /\ ~Queued(s) /\ ~Starting(s) /\ object[s] = "allocated"
      /\ \A x \in Sessions : Queued(x)' <=> Queued(x)
      /\ \A x \in Sessions : Starting(x)' <=> Starting(x)
      /\ at[s] # "unborn"
  <2>1. ~Armed(s) /\ ~Queued(s) /\ ~Starting(s) /\ object[s] = "allocated"
    BY <1>2 DEF SingleActivity, NoDanglingSession
  <2>2. \A x \in Sessions : (Queued(x)' <=> Queued(x)) /\ (Starting(x)' <=> Starting(x))
    BY <1>1 DEF Queued, Starting, Threads, SessionLabels
  <2>3. at[s] # "unborn"
    BY DEF SpawnOK, Uses
  <2> QED BY <2>1, <2>2, <2>3
<1>4. \/ /\ object'[s] = "allocated"
         /\ \A x \in Sessions : Armed(x)' <=> Armed(x) \/ x = s
      \/ /\ object'[s] = "deleted" \/ socket'[s] = "closed"
         /\ \A x \in Sessions : Armed(x)' <=> Armed(x)
  <2>1. CASE \E op \in {"read", "write"} : Arm(op, s)
    <3>1. PICK op \in Ops : Arm(op, s)
      BY <2>1 DEF Ops
    <3>2. \A x \in Sessions : Armed(x)' <=> Armed(x) \/ x = s
      BY <3>1, ArmEffect
    <3> QED BY <1>3, <2>1, <3>2 DEF Armed, TypeOK
  <2>2. CASE UNCHANGED armed /\ (object'[s] = "deleted" \/ socket'[s] = "closed")
    BY <2>2 DEF Armed
  <2> QED BY <2>1, <2>2 DEF TypeOK
<1>5. /\ \A x \in Sessions \ {s} : object'[x] = object[x] /\ socket'[x] = socket[x]
      /\ \A x \in Sessions : object'[x] = "raw" => object[x] = "raw"
      /\ object' \in [Sessions -> {"raw", "allocated", "deleted"}]
      /\ socket' \in [Sessions -> {"idle", "open", "closed"}]
  BY DEF TypeOK
<1>6. \A a \in armed' : a \in armed \/ (a \in Operation /\ a.sess = s /\ a.op # "accept")
  BY DEF Arm, Operation, Ops
<1>7. /\ NoDanglingSession' /\ NoAbandonedConnection'
      /\ \A x \in Sessions : Exclusive(x)'
  <2>1. Elsewhere(s)
    BY <1>2, <1>3, <1>4, <1>5 DEF Elsewhere
  <2>2. Exclusive(s)'
    BY <1>2, <1>3 DEF Exclusive
  <2>3. \/ Busy(s)' /\ object'[s] = "allocated"
        \/ ~Busy(s)' /\ (object'[s] = "deleted" \/ socket'[s] = "closed")
    BY <1>2, <1>3, <1>4 DEF Busy
  <2> QED BY <2>1, <2>2, <2>3, OneSessionMoves
<1>8. SingleActivity'
  <2>1. \A a, b \in armed' : a.sess = b.sess => a = b
    BY <1>3 DEF SingleActivity, Arm, Armed
  <2> QED BY <1>2, <1>7, <2>1 DEF SingleActivity, Exclusive
<1>9. TypeOK'
  BY <1>1, <1>5, <1>6 DEF TypeOK
<1>10. CallOK'
  BY <1>1 DEF CallOK, SessionLabels
<1>11. SpawnOK'
  <2>1. \A u \in Threads : at'[u] = "unborn" <=> at[u] = "unborn"
    BY <1>1 DEF SessionLabels
  <2>2. \A u \in Threads, x \in Sessions : Uses(u, x)' => Uses(u, x) /\ at'[u] = at[u]
    BY <1>1, <1>2
  <2> HIDE DEF Uses
  <2> QED BY <1>3, <1>5, <1>6, <2>1, <2>2, SpawnKept
<1>12. AcceptorNeverLost'
  <2>1. {a \in armed' : a.op = "accept"} = {a \in armed : a.op = "accept"}
    BY DEF Arm
  <2>2. {u \in Threads : Accepting(u)'} = {u \in Threads : Accepting(u)}
    BY <1>1 DEF Accepting, SessionLabels
  <2> HIDE DEF Accepting
  <2> QED BY <2>1, <2>2 DEF AcceptorNeverLost
<1> QED BY <1>7, <1>8, <1>9, <1>10, <1>11, <1>12

\* An operation completes.  Only that of an accept opens a socket.
LEMMA CompleteInv ==
  ASSUME IInv, NEW a \in armed, NEW ok \in BOOLEAN, Complete(a, ok),
         UNCHANGED <<alive, torn, object, at, call>>,
         data' \in [Sessions -> {"empty", "partial"} \cup Requests],
         peer' \in [Sessions -> {"absent", "connected", "finished", "reset"}],
         inflight' \in [Sessions -> {"nothing", "partial"} \cup Requests],
         UNCHANGED socket \/ socket' = [socket EXCEPT ![a.sess] = "open"]
  PROVE  IInv'
<1> USE ServerAssumption DEF IInv
<1> DEFINE s == a.sess
           c == [op |-> a.op, sess |-> a.sess, ok |-> ok]
<1>1. /\ a \in Operation /\ s \in Sessions /\ Armed(s)
      /\ \A x \in Sessions : Armed(x)' <=> Armed(x) /\ x # s
      /\ \A x \in Sessions : Queued(x)' <=> Queued(x) \/ x = s
  BY CompleteEffect DEF Operation
<1>2. /\ c \in Completion /\ c.sess = s /\ c.op = a.op
      /\ armed' = armed \ {a} /\ ready' = ready \cup {c}
  BY <1>1 DEF Complete, Completion, Operation
<1> HIDE DEF c
<1>3. /\ \A u \in Threads, x \in Sessions : Uses(u, x)' <=> Uses(u, x)
      /\ \A x \in Sessions : (Used(x)' <=> Used(x)) /\ (Starting(x)' <=> Starting(x))
      /\ \A u \in Threads : Accepting(u)' <=> Accepting(u)
  BY DEF Uses, Used, Starting, Accepting
<1>4. /\ \A x \in Sessions \ {s} : socket'[x] = socket[x]
      /\ socket' \in [Sessions -> {"idle", "open", "closed"}]
  BY <1>1 DEF TypeOK
<1>5. /\ NoDanglingSession' /\ NoAbandonedConnection'
      /\ \A x \in Sessions : Exclusive(x)'
  <2>1. Elsewhere(s)
    BY <1>1, <1>3, <1>4 DEF Elsewhere
  <2>2. Exclusive(s)' /\ Busy(s)' /\ object'[s] = "allocated"
    BY <1>1, <1>3 DEF Exclusive, Busy, SingleActivity, NoDanglingSession
  <2> QED BY <1>1, <2>1, <2>2, OneSessionMoves
<1>6. SingleActivity'
  <2>1. \A d, e \in ready' : d.sess = e.sess => d = e
    <3>1. \A d \in ready : d.sess # s
      BY <1>1 DEF SingleActivity, Queued
    <3> QED BY <1>2, <3>1 DEF SingleActivity
  <2>2. \A b, d \in armed' : b.sess = d.sess => b = d
    BY <1>2 DEF SingleActivity
  <2>3. \A x \in Sessions, u, v \in Threads : Uses(u, x)' /\ Uses(v, x)' => u = v
    BY <1>3 DEF SingleActivity
  <2> QED BY <1>5, <2>1, <2>2, <2>3 DEF SingleActivity, Exclusive
<1>7. TypeOK'
  BY <1>2, <1>4 DEF TypeOK
<1>8. CallOK'
  BY DEF CallOK
<1>9. SpawnOK'
  <2>1. c.op = "accept" <=> at[c.sess] = "unborn"
    BY <1>2 DEF SpawnOK
  <2> HIDE DEF Uses
  <2> QED BY <1>1, <1>2, <1>3, <2>1, SpawnKept
<1>10. AcceptorNeverLost'
  <2> DEFINE threads == {u \in Threads : Accepting(u)}
             waiting == {b \in armed : b.op = "accept"}
             queued == {d \in ready : d.op = "accept"}
  <2>1. threads' = threads
    BY <1>3
  <2>2. CASE a.op = "accept"
    <3>1. waiting = {a} /\ queued = {} /\ threads = {}
      BY <2>2 DEF AcceptorNeverLost
    <3>2. waiting' = {} /\ queued' = {c}
      BY <1>2, <2>2, <3>1
    <3> HIDE DEF threads, waiting, queued
    <3> QED BY <2>1, <3>1, <3>2 DEF AcceptorNeverLost, threads, waiting, queued
  <2>3. CASE a.op # "accept"
    <3>1. waiting' = waiting /\ queued' = queued
      BY <1>2, <2>3
    <3> QED BY <2>1, <3>1 DEF AcceptorNeverLost
  <2> QED BY <2>2, <2>3
<1> QED BY <1>5, <1>6, <1>7, <1>8, <1>9, <1>10

\* A step within a handler that keeps its session, or a step of a client.
LEMMA QuietInv ==
  ASSUME IInv, TypeOK',
         UNCHANGED <<object, socket, armed, ready, call>>,
         \A u \in Threads : \/ at'[u] = at[u]
                            \/ /\ at[u] \in SessionLabels \ {"handle_accept"}
                               /\ at'[u] \in SessionLabels \ {"handle_accept"}
  PROVE  IInv'
<1> USE DEF IInv
<1>1. \A u \in Threads :
        /\ at'[u] = "unborn" <=> at[u] = "unborn"
        /\ at'[u] = "start_session" <=> at[u] = "start_session"
        /\ at'[u] = "handle_accept" <=> at[u] = "handle_accept"
        /\ at'[u] \in SessionLabels <=> at[u] \in SessionLabels
        /\ at'[u] = "start_accept" <=> at[u] = "start_accept"
  BY DEF SessionLabels
<1>2. /\ \A u \in Threads, x \in Sessions : Uses(u, x)' <=> Uses(u, x)
      /\ \A u \in Threads : Accepting(u)' <=> Accepting(u)
  BY <1>1 DEF Uses, Accepting
<1>3. \A x \in Sessions : /\ Armed(x)' <=> Armed(x)
                          /\ Queued(x)' <=> Queued(x)
                          /\ Used(x)' <=> Used(x)
                          /\ Starting(x)' <=> Starting(x)
  BY <1>1, <1>2 DEF Armed, Queued, Used, Starting, Threads
<1>4. NoDanglingSession' /\ NoAbandonedConnection' /\ SingleActivity'
  BY <1>2, <1>3 DEF NoDanglingSession, NoAbandonedConnection, SingleActivity
<1>5. CallOK'
  BY <1>1 DEF CallOK
<1>6. SpawnOK'
  <2> HIDE DEF Uses
  <2> QED BY <1>1, <1>2, SpawnKept
<1>7. AcceptorNeverLost'
  <2>1. {u \in Threads : Accepting(u)'} = {u \in Threads : Accepting(u)}
    BY <1>2
  <2> HIDE DEF Accepting
  <2> QED BY <2>1 DEF AcceptorNeverLost
<1> QED BY <1>4, <1>5, <1>6, <1>7

\* handle_accept hands its session to the new thread, or deletes it, and goes
\* on to start_accept.
LEMMA HandleAcceptInv ==
  ASSUME IInv, NEW t \in Threads, SpawnThread(t) \/ HandleAcceptError(t)
  PROVE  IInv'
<1> USE ServerAssumption DEF IInv
<1> DEFINE s == call[t].sess
<1>1. /\ at[t] = "handle_accept" /\ at[t] \in SessionLabels
      /\ call[t] \in Completion /\ s \in Sessions /\ s \in Threads
      /\ Uses(t, s) /\ at[s] = "unborn" /\ t # s /\ s # Main
      /\ UNCHANGED <<alive, torn, socket, data, armed, ready, call, peer, inflight>>
  BY DEF SpawnThread, HandleAcceptError, AfterAcceptError, CallOK, SessionLabels, Completion,
         Uses, SpawnOK, Threads
<1>2. /\ at'[t] = "start_accept" /\ at'[t] \notin SessionLabels
      /\ \A u \in Threads \ {t, s} : at'[u] = at[u]
      /\ at' \in [Threads -> Labels]
      /\ object' \in [Sessions -> {"raw", "allocated", "deleted"}]
      /\ \A x \in Sessions \ {s} : object'[x] = object[x]
      /\ \A x \in Sessions : object'[x] = "raw" => object[x] = "raw"
  BY <1>1 DEF SpawnThread, HandleAcceptError, AfterAcceptError, GoTo, TypeOK, Labels, SessionLabels
<1>3. \/ at'[s] = "start_session" /\ object'[s] = object[s]
      \/ at'[s] = "unborn" /\ object'[s] = "deleted"
  BY <1>1 DEF SpawnThread, HandleAcceptError, AfterAcceptError, GoTo, TypeOK
<1>4. at'[s] \notin SessionLabels
  BY <1>3 DEF SessionLabels
<1>5. /\ \A u \in Threads, x \in Sessions : Uses(u, x)' <=> Uses(u, x) /\ u # t
      /\ \A x \in Sessions : Used(x)' <=> Used(x) /\ x # s
  <2>1. \A u \in Threads, x \in Sessions : Uses(u, x)' <=> Uses(u, x) /\ u # t
    BY <1>1, <1>2, <1>4 DEF Uses, SessionLabels
  <2>2. \A u \in Threads : Uses(u, s) => u = t
    BY <1>1 DEF SingleActivity
  <2>3. \A x \in Sessions : Uses(t, x) => x = s
    BY DEF Uses
  <2> HIDE DEF Uses
  <2> QED BY <1>1, <2>1, <2>2, <2>3 DEF Used
<1>6. /\ \A x \in Sessions : (Armed(x)' <=> Armed(x)) /\ (Queued(x)' <=> Queued(x))
      /\ \A x \in Sessions \ {s} : Starting(x)' <=> Starting(x)
      /\ ~Armed(s) /\ ~Queued(s) /\ object[s] = "allocated"
  <2>1. ~Armed(s) /\ ~Queued(s) /\ object[s] = "allocated"
    BY <1>1 DEF SingleActivity, NoDanglingSession, Used
  <2>2. \A x \in Sessions : (Armed(x)' <=> Armed(x)) /\ (Queued(x)' <=> Queued(x))
    BY <1>1 DEF Armed, Queued
  <2>3. \A x \in Sessions \ {s} : Starting(x)' <=> Starting(x)
    BY <1>1, <1>2 DEF Starting, Threads
  <2> QED BY <2>1, <2>2, <2>3
<1>7. /\ NoDanglingSession' /\ NoAbandonedConnection'
      /\ \A x \in Sessions : Exclusive(x)'
  <2>1. Elsewhere(s)
    BY <1>1, <1>2, <1>5, <1>6 DEF Elsewhere
  <2>2. Exclusive(s)'
    BY <1>1, <1>5, <1>6 DEF Exclusive
  <2>3. \/ Busy(s)' /\ object'[s] = "allocated"
        \/ ~Busy(s)' /\ object'[s] = "deleted"
    BY <1>1, <1>3, <1>5, <1>6 DEF Busy, Starting
  <2> QED BY <1>1, <2>1, <2>2, <2>3, OneSessionMoves
<1>8. SingleActivity'
  <2>1. \A x \in Sessions, u, v \in Threads : Uses(u, x)' /\ Uses(v, x)' => u = v
    BY <1>5 DEF SingleActivity
  <2> QED BY <1>1, <1>7, <2>1 DEF SingleActivity, Exclusive
<1>9. TypeOK'
  BY <1>1, <1>2 DEF TypeOK
<1>10. CallOK'
  BY <1>1, <1>2, <1>4 DEF CallOK
<1>11. SpawnOK'
  <2>1. /\ \A a \in armed : a.sess \in Sessions /\ a.sess # s
        /\ \A c \in ready : c.sess \in Sessions /\ c.sess # s
    BY <1>6 DEF TypeOK, Operation, Completion, Armed, Queued
  <2>2. \A x \in Threads \ {s} : at'[x] = "unborn" <=> at[x] = "unborn"
    BY <1>1, <1>2
  <2>3. Main \in Threads /\ \A x \in Sessions : x \in Threads
    BY DEF Threads
  <2>4. \A u \in Threads, x \in Sessions :
          Uses(u, x)' => (at'[u] = "handle_accept" <=> at'[x] = "unborn")
    <3> SUFFICES ASSUME NEW u \in Threads, NEW x \in Sessions, Uses(u, x)'
                 PROVE  at'[u] = "handle_accept" <=> at'[x] = "unborn"
      OBVIOUS
    <3>1. Uses(u, x) /\ u # t /\ at'[u] = at[u]
      BY <1>2, <1>4, <1>5 DEF Uses
    <3>2. x # s
      BY <1>1, <3>1 DEF SingleActivity
    <3> QED BY <2>2, <2>3, <3>1, <3>2 DEF SpawnOK
  <2>5. \A x \in Sessions : object'[x] = "raw" => at'[x] = "unborn"
    BY <1>2, <1>3, <1>6, <2>2, <2>3 DEF SpawnOK
  <2> HIDE DEF Uses
  <2> QED BY <1>1, <2>1, <2>2, <2>3, <2>4, <2>5 DEF SpawnOK
<1>12. AcceptorNeverLost'
  <2>1. \A u \in Threads : Accepting(u)' <=> Accepting(u)
    BY <1>1, <1>2, <1>3 DEF Accepting
  <2>2. {u \in Threads : Accepting(u)'} = {u \in Threads : Accepting(u)}
    BY <2>1
  <2> HIDE DEF Accepting
  <2> QED BY <1>1, <2>2 DEF AcceptorNeverLost
<1> QED BY <1>7, <1>8, <1>9, <1>10, <1>11, <1>12

\* The object that is allocated is one of those that are left.
LEMMA NewIsRaw ==
  /\ NewSession(Sessions) \in Sessions
  /\ Raw # {} => NewSession(Raw) \in Sessions /\ object[NewSession(Raw)] = "raw"
<1>1. ASSUME NEW raw, raw # {} PROVE NewSession(raw) \in raw
  BY <1>1 DEF NewSession
<1> QED BY <1>1, ServerAssumption DEF Raw

LEMMA StartAcceptInv ==
  ASSUME IInv, NEW t \in Threads, StartAccept(t)
  PROVE  IInv'
<1> USE ServerAssumption DEF IInv
<1>1. PICK s \in Sessions : /\ object[s] = "raw"
                            /\ object' = [object EXCEPT ![s] = "allocated"]
                            /\ Arm("accept", s)
  BY NewIsRaw DEF StartAccept
<1>2. /\ at[t] = "start_accept" /\ at'[t] = "run"
      /\ \A u \in Threads \ {t} : at'[u] = at[u] /\ call'[u] = call[u]
      /\ at' \in [Threads -> Labels] /\ call' \in [Threads -> Completion \cup {NoCall}]
      /\ UNCHANGED <<alive, torn, socket, data, ready, peer, inflight>>
  BY DEF StartAccept, Return, GoTo, TypeOK, Labels
<1>3. /\ object' \in [Sessions -> {"raw", "allocated", "deleted"}]
      /\ object'[s] = "allocated"
      /\ \A x \in Sessions \ {s} : object'[x] = object[x]
  BY <1>1 DEF TypeOK
<1>4. ~Armed(s) /\ ~Queued(s) /\ ~Used(s) /\ ~Starting(s) /\ at[s] = "unborn"
  BY <1>1 DEF NoDanglingSession, SpawnOK
<1>5. \A x \in Sessions : Armed(x)' <=> Armed(x) \/ x = s
  BY <1>1, ArmEffect DEF Ops
<1>6. \A u \in Threads, x \in Sessions : Uses(u, x)' <=> Uses(u, x)
  BY <1>2 DEF Uses, SessionLabels
<1>7. \A x \in Sessions : /\ Queued(x)' <=> Queued(x)
                          /\ Used(x)' <=> Used(x)
                          /\ Starting(x)' <=> Starting(x)
  BY <1>2, <1>6 DEF Queued, Used, Starting, Threads
<1>8. /\ NoDanglingSession' /\ NoAbandonedConnection'
      /\ \A x \in Sessions : Exclusive(x)'
  <2>1. Elsewhere(s) /\ Exclusive(s)' /\ Busy(s)'
    BY <1>2, <1>3, <1>4, <1>5, <1>7 DEF Elsewhere, Exclusive, Busy
  <2> QED BY <1>3, <2>1, OneSessionMoves
<1>9. SingleActivity'
  <2>1. \A a, b \in armed' : a.sess = b.sess => a = b
    BY <1>1, <1>4 DEF SingleActivity, Arm, Armed
  <2> QED BY <1>2, <1>6, <1>8, <2>1 DEF SingleActivity, Exclusive
<1>10. TypeOK'
  BY <1>1, <1>2, <1>3 DEF TypeOK, Arm, Operation, Ops
<1>11. CallOK'
  BY <1>2 DEF CallOK, SessionLabels
<1>12. SpawnOK'
  <2>1. \A u \in Threads : at'[u] = "unborn" <=> at[u] = "unborn"
    BY <1>2
  <2>2. \A a \in armed' : a \in armed \/ (a.sess = s /\ a.op = "accept")
    BY <1>1 DEF Arm
  <2>3. \A u \in Threads, x \in Sessions : Uses(u, x)' => Uses(u, x) /\ at'[u] = at[u]
    BY <1>2, <1>6 DEF Uses, SessionLabels
  <2> HIDE DEF Uses
  <2> QED BY <1>2, <1>3, <1>4, <2>1, <2>2, <2>3, SpawnKept
<1>13. AcceptorNeverLost'
  <2>1. /\ \A a \in armed : a.op # "accept"
        /\ \A c \in ready : c.op # "accept"
        /\ \A u \in Threads : Accepting(u) => u = t
    BY <1>2 DEF AcceptorNeverLost, Accepting
  <2>2. \A u \in Threads : ~Accepting(u)'
    BY <1>2, <2>1 DEF Accepting
  <2>3. {a \in armed' : a.op = "accept"} = {[op |-> "accept", sess |-> s]}
    BY <1>1, <2>1 DEF Arm
  <2> HIDE DEF Accepting
  <2> QED BY <1>2, <2>1, <2>2, <2>3 DEF AcceptorNeverLost
<1> QED BY <1>8, <1>9, <1>10, <1>11, <1>12, <1>13

-----------------------------------------------------------------------------
LEMMA InitInv == Init => IInv
<1> SUFFICES ASSUME Init PROVE IInv
  OBVIOUS
<1>0. Main \notin Sessions
  BY ServerAssumption
<1>1. PICK first \in Sessions :
        /\ object = [s \in Sessions |-> IF s = first THEN "allocated" ELSE "raw"]
        /\ armed = {[op |-> "accept", sess |-> first]}
  BY NewIsRaw DEF Init
<1>2. /\ ready = {} /\ socket = [s \in Sessions |-> "idle"]
      /\ at = [t \in Threads |-> IF t = Main THEN "run" ELSE "unborn"]
      /\ alive = TRUE /\ torn = FALSE /\ data = [s \in Sessions |-> "empty"]
      /\ call = [t \in Threads |-> NoCall]
      /\ peer = [s \in Sessions |-> "absent"] /\ inflight = [s \in Sessions |-> "nothing"]
  BY DEF Init
<1>3. \A t \in Threads : at[t] \notin SessionLabels /\ at[t] \notin {"start_session", "start_accept"}
  BY <1>2 DEF SessionLabels
<1>4. TypeOK
  <2>1. armed \subseteq Operation
    BY <1>1 DEF Operation, Ops
  <2>2. at \in [Threads -> Labels]
    BY <1>2 DEF Labels
  <2> QED BY <1>1, <1>2, <2>1, <2>2 DEF TypeOK
<1>5. CallOK /\ SpawnOK
  <2>1. CallOK
    BY <1>3 DEF CallOK
  <2>2. at[Main] # "unborn" /\ \A s \in Sessions : at[s] = "unborn"
    BY <1>0, <1>2 DEF Threads
  <2>3. \A t \in Threads, s \in Sessions : ~Uses(t, s)
    BY <1>3 DEF Uses
  <2>4. SpawnOK
    BY <1>1, <1>2, <2>2, <2>3 DEF SpawnOK
  <2> QED BY <2>1, <2>4
<1>6. NoDanglingSession /\ SingleActivity /\ NoAbandonedConnection
  <2>1. \A s \in Sessions : ~Queued(s) /\ ~Used(s) /\ ~Starting(s) /\ socket[s] = "idle"
    BY <1>2, <1>3 DEF Queued, Used, Uses, Starting, Threads
  <2>2. NoDanglingSession
    BY <1>1, <2>1 DEF NoDanglingSession, Armed
  <2>3. SingleActivity
    BY <1>1, <1>2, <1>3, <2>1 DEF SingleActivity, Uses
  <2>4. NoAbandonedConnection
    BY <2>1 DEF NoAbandonedConnection
  <2> QED BY <2>2, <2>3, <2>4
<1>7. AcceptorNeverLost
  <2>1. {t \in Threads : Accepting(t)} = {}
    BY <1>3 DEF Accepting, SessionLabels
  <2>2. {a \in armed : a.op = "accept"} = armed
    BY <1>1
  <2> HIDE DEF Accepting
  <2> QED BY <1>1, <1>2, <2>1, <2>2 DEF AcceptorNeverLost
<1> QED BY <1>4, <1>5, <1>6, <1>7 DEF IInv

LEMMA NextInv == IInv /\ [Next]_vars => IInv'
<1> SUFFICES ASSUME IInv, [Next]_vars PROVE IInv'
  OBVIOUS
<1>1. ASSUME NEW t \in Threads, ThreadStep(t) PROVE IInv'
  <2>1. CASE SpawnThread(t) \/ HandleAcceptError(t)
    BY <2>1, HandleAcceptInv
  <2>2. CASE SpawnFails(t) \/ CallNullHandler(t) \/ RemoteEndpointThrows(t)
    BY <2>2, QuietInv DEF SpawnFails, CallNullHandler, RemoteEndpointThrows,
                          Terminate, IInv, TypeOK
  <2>3. CASE StartAccept(t)
    BY <2>3, StartAcceptInv
  <2>4. CASE CallHandler(t) \/ CountRequest(t)
    BY <2>4, QuietInv DEF CallHandler, CountRequest, GoTo, IInv, TypeOK, SessionLabels, Labels
  <2>5. CASE \/ HandleHandshake(t) \/ HandleReadError(t) \/ AppendData(t)
             \/ SendBadRequest(t) \/ SendResponse(t) \/ HandleWrite(t)
    <3>1. /\ at[t] \in SessionLabels \ {"handle_accept"}
          /\ Return(t) /\ UNCHANGED <<alive, torn, ready, peer, inflight>>
      BY <2>5 DEF HandleHandshake, HandleReadError, AppendData, SendBadRequest,
                  SendResponse, HandleWrite, AfterWrite, SessionLabels
    <3>2. call[t].sess \in Sessions
      BY <3>1 DEF IInv, CallOK, Completion
    <3>3. data' \in [Sessions -> {"empty", "partial"} \cup Requests]
      BY <2>5 DEF HandleHandshake, HandleReadError, AppendData, SendBadRequest,
                  SendResponse, HandleWrite, AfterWrite, IInv, TypeOK
    <3>4. \/ /\ \E op \in {"read", "write"} : Arm(op, call[t].sess)
             /\ UNCHANGED <<object, socket>>
          \/ /\ object' = [object EXCEPT ![call[t].sess] = "deleted"]
             /\ UNCHANGED <<armed, socket>>
          \/ /\ socket' = [socket EXCEPT ![call[t].sess] = "closed"]
             /\ UNCHANGED <<armed, object>>
      BY <2>5 DEF HandleHandshake, HandleReadError, AppendData, SendBadRequest,
                  SendResponse, HandleWrite, AfterWrite
    <3> QED BY <3>1, <3>2, <3>3, <3>4, HandlerReturnsInv
  <2> QED BY <1>1, <2>1, <2>2, <2>3, <2>4, <2>5 DEF ThreadStep
<1>2. ASSUME NEW t \in Threads, HandleRequest(t) \/ StackEnds(t) \/ RaceEnds(t) PROVE IInv'
  BY <1>2, QuietInv DEF HandleRequest, StackEnds, RaceEnds, Terminate, GoTo, IInv, TypeOK,
                        SessionLabels, Labels
<1>3. ASSUME NEW t \in Threads, NEW s \in Sessions, RunHandler(t, s) PROVE IInv'
  BY <1>3, RunHandlerInv
<1>4. ASSUME NEW s \in Sessions, StartSession(s) PROVE IInv'
  BY <1>4, StartSessionInv
<1>5. ASSUME NEW s \in Sessions, Client(s) PROVE IInv'
  <2>1. ASSUME NEW d \in Sends(s), ClientSends(s, d) PROVE TypeOK'
    BY <2>1, ServerAssumption DEF ClientSends, IInv, TypeOK
  <2>2. TypeOK'
    BY <1>5, <2>1 DEF Client, ClientFinishes, ClientResets, IInv, TypeOK
  <2> QED BY <1>5, <2>2, QuietInv DEF Client, ClientSends, ClientFinishes, ClientResets
<1>6. ASSUME NEW a \in armed, Kernel(a) PROVE IInv'
  <2>1. PICK ok \in BOOLEAN : Complete(a, ok)
    BY <1>6 DEF Kernel, Connect, AcceptFails, ReadDone, ReadFails, HandshakeDone, WriteDone
  <2>2. /\ UNCHANGED <<alive, torn, object, at, call>>
        /\ UNCHANGED socket \/ socket' = [socket EXCEPT ![a.sess] = "open"]
    BY <1>6 DEF Kernel, Connect, AcceptFails, ReadDone, ReadFails, HandshakeDone, WriteDone
  <2>3. a.sess \in Sessions
    BY DEF IInv, TypeOK, Operation
  <2>4. data' \in [Sessions -> {"empty", "partial"} \cup Requests]
    <3>1. CASE ReadDone(a)
      BY <2>3, <3>1 DEF ReadDone, Arrived, IInv, TypeOK
    <3>2. CASE UNCHANGED data
      BY <3>2 DEF IInv, TypeOK
    <3> QED BY <1>6, <3>1, <3>2 DEF Kernel, Connect, AcceptFails, ReadFails,
                                    HandshakeDone, WriteDone
  <2>5. /\ peer' \in [Sessions -> {"absent", "connected", "finished", "reset"}]
        /\ inflight' \in [Sessions -> {"nothing", "partial"} \cup Requests]
    BY <1>6 DEF Kernel, Connect, AcceptFails, ReadDone, ReadFails, HandshakeDone,
                WriteDone, IInv, TypeOK
  <2> QED BY <2>1, <2>2, <2>4, <2>5, CompleteInv
<1>7. CASE UNCHANGED vars
  BY <1>7, QuietInv DEF vars, IInv, TypeOK
<1> QED BY <1>1, <1>2, <1>3, <1>4, <1>5, <1>6, <1>7 DEF Next

LEMMA Inductive == Spec => []IInv
BY InitInv, NextInv, PTL DEF Spec

\* Every variable keeps to its type, for any number of sessions and threads.
THEOREM TypeCorrect == Spec => []TypeOK
<1>1. IInv => TypeOK
  BY DEF IInv
<1> QED BY Inductive, <1>1, PTL

\* However many sessions there are, nothing in flight refers to a session that
\* "delete this" or handle_accept has deleted.
THEOREM DeletionIsSafe == Spec => []NoDanglingSession
<1>1. IInv => NoDanglingSession
  BY DEF IInv
<1> QED BY Inductive, <1>1, PTL

\* The implicit strand: no two operations, completions, handlers or starting
\* threads ever refer to the same session.
THEOREM SessionsAreSequential == Spec => []SingleActivity
<1>1. IInv => SingleActivity
  BY DEF IInv
<1> QED BY Inductive, <1>1, PTL

\* The chain handle_accept - start_accept - async_accept never breaks.
THEOREM AcceptorIsKept == Spec => []AcceptorNeverLost
<1>1. IInv => AcceptorNeverLost
  BY DEF IInv
<1> QED BY Inductive, <1>1, PTL

\* An open connection is always waited upon, or being served.
THEOREM ConnectionsAreServed == Spec => []NoAbandonedConnection
<1>1. IInv => NoAbandonedConnection
  BY DEF IInv
<1> QED BY Inductive, <1>1, PTL

-----------------------------------------------------------------------------
(* The pool.  A busy thread is charged to the thread of the session whose  *)
(* handler it runs, and the accepting thread to Main: an injection of the  *)
(* busy threads into the pool.  A queued completion is charged to a thread *)
(* of the pool as well, which no busy thread is charged to.  So the busy   *)
(* threads cannot be the whole pool.                                       *)

ChargedTo(t) ==
  IF at[t] \in SessionLabels \ {"handle_accept"} THEN call[t].sess ELSE Main

LEMMA PoolSuffices ==
  ASSUME IInv, ready # {}
  PROVE  \E t \in Threads : at[t] \in {"run", "start_session"}
<1> USE ServerAssumption DEF IInv
<1> SUFFICES ASSUME \A t \in Threads : at[t] \notin {"run", "start_session"}
             PROVE  FALSE
  OBVIOUS
<1>1. PICK c \in ready : TRUE
  OBVIOUS
<1> DEFINE x == IF c.op = "accept" THEN Main ELSE c.sess
           f == [t \in Pool |-> ChargedTo(t)]
<1>2. x \in Pool
  <2>1. c.sess \in Sessions /\ Main \in Threads /\ \A s \in Sessions : s \in Threads
    BY DEF TypeOK, Completion, Threads
  <2> QED BY <2>1 DEF SpawnOK, Pool
<1>3. ASSUME NEW t \in Pool
      PROVE  \/ Accepting(t) /\ ChargedTo(t) = Main
             \/ /\ at[t] \in SessionLabels \ {"handle_accept"}
                /\ ChargedTo(t) = call[t].sess
                /\ call[t].sess \in Sessions /\ Uses(t, call[t].sess)
                /\ ChargedTo(t) \in Pool
  <2>1. t \in Threads /\ at[t] \in SessionLabels \cup {"start_accept"}
    BY DEF Pool, TypeOK, Labels
  <2>2. CASE at[t] \in {"start_accept", "handle_accept"}
    BY <2>2 DEF Accepting, ChargedTo, SessionLabels
  <2>3. CASE at[t] \in SessionLabels \ {"handle_accept"}
    <3>1. call[t].sess \in Sessions /\ Uses(t, call[t].sess)
      BY <2>1, <2>3 DEF CallOK, Completion, Uses
    <3>2. at[call[t].sess] # "unborn"
      BY <2>1, <2>3, <3>1 DEF SpawnOK
    <3> QED BY <2>3, <3>1, <3>2 DEF ChargedTo, Pool, Threads
  <2> QED BY <2>1, <2>2, <2>3
<1>4. ASSUME NEW t \in Pool PROVE ChargedTo(t) \in Pool \ {x}
  <2>1. t \in Threads /\ Main \in Pool
    BY DEF Pool, SpawnOK, Threads
  <2>2. CASE Accepting(t) /\ ChargedTo(t) = Main
    <3>1. c.op # "accept"
      BY <2>1, <2>2 DEF AcceptorNeverLost
    <3> QED BY <2>1, <2>2, <3>1 DEF TypeOK, Completion
  <2>3. CASE /\ ChargedTo(t) = call[t].sess /\ call[t].sess \in Sessions
             /\ Uses(t, call[t].sess) /\ ChargedTo(t) \in Pool
    <3>1. Used(call[t].sess)
      BY <2>1, <2>3 DEF Used
    <3>2. ~Queued(call[t].sess)
      BY <2>3, <3>1 DEF SingleActivity
    <3> QED BY <2>3, <3>2 DEF Queued
  <2> QED BY <1>3, <2>2, <2>3
<1>5. \A t, u \in Pool : ChargedTo(t) = ChargedTo(u) => t = u
  <2> SUFFICES ASSUME NEW t \in Pool, NEW u \in Pool, ChargedTo(t) = ChargedTo(u)
               PROVE  t = u
    OBVIOUS
  <2>1. t \in Threads /\ u \in Threads
    BY DEF Pool
  <2>2. CASE Accepting(t) /\ Accepting(u)
    BY <2>1, <2>2 DEF AcceptorNeverLost
  <2>3. CASE Uses(t, ChargedTo(t)) /\ Uses(u, ChargedTo(t)) /\ ChargedTo(t) \in Sessions
    BY <2>1, <2>3 DEF SingleActivity
  <2> HIDE DEF Uses, Accepting, ChargedTo
  <2> QED BY <1>3, <2>2, <2>3
<1>6. IsFiniteSet(Pool)
  <2>1. IsFiniteSet(Threads)
    BY FS_AddElement DEF Threads
  <2> QED BY <2>1, FS_Subset DEF Pool
<1>7. /\ IsFiniteSet(Pool \ {x}) /\ Cardinality(Pool \ {x}) = Cardinality(Pool) - 1
      /\ Cardinality(Pool) \in Nat
  BY <1>2, <1>6, FS_RemoveElement, FS_CardinalityType
<1>8. f \in [Pool -> Pool \ {x}]
  BY <1>4
<1>9. PICK t, u \in Pool : t # u /\ f[t] = f[u]
  <2>1. Cardinality(Pool \ {x}) < Cardinality(Pool)
    BY <1>7
  <2> HIDE DEF f, x
  <2> QED BY <1>6, <1>7, <1>8, <2>1, FS_PigeonHole
<1> QED BY <1>5, <1>9

\* With a thread per session, blocked request handlers never exhaust the pool:
\* a queued handler always finds a thread in run(), or on its way to it.
THEOREM PoolNeverStarves == Spec => []NoStarvation
<1>1. IInv => NoStarvation
  BY PoolSuffices DEF NoStarvation
<1> QED BY Inductive, <1>1, PTL

-----------------------------------------------------------------------------
(* Server implements Exchange, for any number of sessions and whatever the *)
(* clients do: every step of the threads, of the kernel and of the clients *)
(* is a step of one exchange, the end of a process that may end, or        *)
(* nothing an exchange shows.                                              *)

\* What is known of a session while something is under way for it.
Live(s) == peer[s] # "absent" /\ socket[s] = "open"
Fresh(s) == peer[s] = "absent" /\ data[s] \notin Requests
Listening(s) == Live(s) /\ data[s] \notin Requests
Answering(s) == Live(s) /\ data[s] \in Requests

\* The completion of an operation of session s, before its handler has done
\* anything about it.
DueOK(c, s) ==
  /\ c.op = "accept" => IF c.ok THEN Listening(s) ELSE Fresh(s)
  /\ c.op = "handshake" => Listening(s)
  /\ c.op = "read" => Live(s) /\ (~c.ok => data[s] \notin Requests)
  /\ c.op = "write" => Answering(s)

SessionOK(s) ==
  /\ \A a \in armed : a.sess = s =>
       /\ a.op = "accept" => Fresh(s)
       /\ a.op \in {"handshake", "read"} => Listening(s)
       /\ a.op = "write" => Answering(s)
  /\ \A c \in ready : c.sess = s => DueOK(c, s)
  /\ \A t \in Threads : Uses(t, s) =>
       IF at[t] \in Responding THEN Answering(s)
       ELSE DueOK(call[t], s) /\ HandlerOf[call[t].op] = at[t]
  /\ Starting(s) => Listening(s)
  /\ object[s] = "raw" => Fresh(s)

\* A session that has got its thread has got a client.
PeersOK == \A s \in Sessions : at[s] # "unborn" => peer[s] # "absent"

RInv ==
  /\ IInv
  /\ \A s \in Sessions : SessionOK(s)
  /\ PeersOK

-----------------------------------------------------------------------------
(* The status of a session, by what is under way for it.                   *)

StatusOfArmed(s) ==
  \A a \in armed : a.sess = s =>
    statusOf(s) = CASE a.op = "accept" -> "none"
                    [] a.op = "write" -> "answering"
                    [] OTHER -> "listening"

\* The status while a completion waits or is handled.
StatusDue(c, s) ==
  CASE c.op = "accept" -> IF c.ok THEN "accepted" ELSE "none"
    [] c.op = "handshake" -> "listening"
    [] c.op = "read" -> IF data[s] \in Requests THEN "asked" ELSE "listening"
    [] OTHER -> "answering"

StatusOfReady(s) == \A c \in ready : c.sess = s => statusOf(s) = StatusDue(c, s)

StatusOfUsed(s) ==
  \A t \in Threads : Uses(t, s) =>
    statusOf(s) = IF at[t] \in Responding THEN "asked"
                  ELSE StatusDue(call[t], s)

StatusOfStarting(s) == Starting(s) => statusOf(s) = "accepted"

StatusTable(s) ==
  StatusOfArmed(s) /\ StatusOfReady(s) /\ StatusOfUsed(s) /\ StatusOfStarting(s)

LEMMA Statuses == \A s \in Sessions : IInv /\ SessionOK(s) => StatusTable(s)
<1> SUFFICES ASSUME IInv, NEW s \in Sessions, SessionOK(s) PROVE StatusTable(s)
  OBVIOUS
<1>1. /\ SingleActivity /\ SessionOK(s)
      /\ Busy(s) => object[s] = "allocated"
  BY DEF IInv, NoDanglingSession, Busy
<1>2. "allocated" # "deleted" /\ "open" # "closed"
  OBVIOUS
<1>3. StatusOfArmed(s)
  <2>1. SUFFICES ASSUME NEW a \in armed, a.sess = s
                 PROVE  statusOf(s) = CASE a.op = "accept" -> "none"
                                        [] a.op = "write" -> "answering"
                                        [] OTHER -> "listening"
    BY DEF StatusOfArmed
  <2>2. Armed(s) /\ a.op \in Ops
    BY <2>1 DEF Armed, IInv, TypeOK, Operation
  <2>3. ~Queued(s) /\ ~Used(s) /\ ~Starting(s) /\ object[s] = "allocated"
    BY <1>1, <2>2 DEF SingleActivity, Busy
  <2>4. ~Accepted(s) /\ ~Asked(s)
    BY <2>3 DEF Accepted, Asked, Queued, Used, Uses, SessionLabels
  <2> QED BY <1>1, <2>1, <2>2, <2>3, <2>4
          DEF statusOf, SessionOK, Fresh, Listening, Answering, Live, Ops
<1>4. StatusOfReady(s)
  <2>1. SUFFICES ASSUME NEW c \in ready, c.sess = s
                 PROVE  statusOf(s) = StatusDue(c, s)
    BY DEF StatusOfReady
  <2>2. Queued(s) /\ c.op \in Ops
    BY <2>1 DEF Queued, IInv, TypeOK, Completion
  <2>3. ~Used(s) /\ ~Starting(s) /\ object[s] = "allocated"
    BY <1>1, <2>2 DEF SingleActivity, Busy
  <2>4. \A d \in ready : d.sess = s => d = c
    BY <1>1, <2>1 DEF SingleActivity
  <2>5. /\ Accepted(s) <=> socket[s] = "open" /\ c.op = "accept"
        /\ Asked(s) <=> data[s] \in Requests /\ c.op = "read"
    BY <2>1, <2>3, <2>4 DEF Accepted, Asked, Used, Uses, SessionLabels
  <2>6. DueOK(c, s)
    BY <1>1, <2>1 DEF SessionOK
  <2> QED BY <2>2, <2>3, <2>5, <2>6
          DEF statusOf, StatusDue, DueOK, Fresh, Listening, Answering, Live, Ops
<1>5. StatusOfUsed(s)
  <2>1. SUFFICES ASSUME NEW t \in Threads, Uses(t, s)
                 PROVE  statusOf(s) = IF at[t] \in Responding THEN "asked"
                                      ELSE StatusDue(call[t], s)
    BY DEF StatusOfUsed
  <2>2. Used(s) /\ call[t].op \in Ops
    BY <2>1 DEF Used, Uses, IInv, CallOK, Completion
  <2>3. ~Queued(s) /\ ~Starting(s) /\ object[s] = "allocated"
    BY <1>1, <2>2 DEF SingleActivity, Busy
  <2>4. \A u \in Threads : Uses(u, s) => u = t
    BY <1>1, <2>1 DEF SingleActivity
  <2>5. /\ Accepted(s) <=> socket[s] = "open" /\ at[t] = "handle_accept"
        /\ Asked(s) <=> data[s] \in Requests /\ at[t] # "handle_write"
    BY <2>1, <2>3, <2>4 DEF Accepted, Asked, Queued, Uses, SessionLabels
  <2>6. CASE at[t] \in Responding
    BY <1>1, <2>1, <2>3, <2>5, <2>6 DEF statusOf, SessionOK, Answering, Live, Responding
  <2>7. CASE at[t] \notin Responding
    <3>1. DueOK(call[t], s) /\ HandlerOf[call[t].op] = at[t]
      BY <1>1, <2>1, <2>7 DEF SessionOK
    <3>2. /\ at[t] = "handle_accept" <=> call[t].op = "accept"
          /\ at[t] = "handle_write" <=> call[t].op = "write"
      BY <2>2, <3>1 DEF HandlerOf, Ops
    <3> QED BY <2>2, <2>3, <2>5, <2>7, <3>1, <3>2
            DEF statusOf, StatusDue, DueOK, Fresh, Listening, Answering, Live, Ops
  <2> QED BY <2>6, <2>7
<1>6. StatusOfStarting(s)
  <2> SUFFICES ASSUME Starting(s) PROVE statusOf(s) = "accepted"
    BY DEF StatusOfStarting
  <2>1. object[s] = "allocated"
    BY <1>1 DEF Busy
  <2> QED BY <1>1, <2>1 DEF statusOf, SessionOK, Listening, Live, Accepted
<1> QED BY <1>3, <1>4, <1>5, <1>6 DEF StatusTable

LEMMA NextStatuses == (\A s \in Sessions : IInv /\ SessionOK(s) => StatusTable(s))'
  BY Statuses, PTL

-----------------------------------------------------------------------------
(* What is under way for a session makes it SessionOK: there is only one.   *)

ArmedOK(a) ==
  /\ a.op = "accept" => Fresh(a.sess)
  /\ a.op \in {"handshake", "read"} => Listening(a.sess)
  /\ a.op = "write" => Answering(a.sess)

UsedOK(t, s) ==
  IF at[t] \in Responding THEN Answering(s)
  ELSE DueOK(call[t], s) /\ HandlerOf[call[t].op] = at[t]

OneActivity ==
  /\ \A a \in armed : ArmedOK(a) => SessionOK(a.sess)
  /\ \A c \in ready : DueOK(c, c.sess) => SessionOK(c.sess)
  /\ \A t \in Threads, s \in Sessions : Uses(t, s) /\ UsedOK(t, s) => SessionOK(s)
  /\ \A s \in Sessions : Starting(s) /\ Listening(s) => SessionOK(s)
  /\ \A s \in Sessions : ~Busy(s) /\ object[s] # "raw" => SessionOK(s)

LEMMA ActivityDecides == IInv => OneActivity
<1> SUFFICES ASSUME IInv PROVE OneActivity
  OBVIOUS
<1>1. SingleActivity /\ NoDanglingSession /\ "raw" # "allocated"
  BY DEF IInv
<1>2. ASSUME NEW a \in armed, ArmedOK(a) PROVE SessionOK(a.sess)
  <2>1. a.sess \in Sessions /\ Armed(a.sess)
    BY DEF IInv, TypeOK, Operation, Armed
  <2>2. ~Queued(a.sess) /\ ~Used(a.sess) /\ ~Starting(a.sess) /\ object[a.sess] # "raw"
    BY <1>1, <2>1 DEF SingleActivity, NoDanglingSession
  <2>3. \A b \in armed : b.sess = a.sess => b = a
    BY <1>1 DEF SingleActivity
  <2> QED BY <1>2, <2>2, <2>3 DEF SessionOK, ArmedOK, Queued, Used
<1>3. ASSUME NEW c \in ready, DueOK(c, c.sess) PROVE SessionOK(c.sess)
  <2>1. c.sess \in Sessions /\ Queued(c.sess)
    BY DEF IInv, TypeOK, Completion, Queued
  <2>2. ~Armed(c.sess) /\ ~Used(c.sess) /\ ~Starting(c.sess) /\ object[c.sess] # "raw"
    BY <1>1, <2>1 DEF SingleActivity, NoDanglingSession
  <2>3. \A d \in ready : d.sess = c.sess => d = c
    BY <1>1 DEF SingleActivity
  <2> QED BY <1>3, <2>2, <2>3 DEF SessionOK, Armed, Used
<1>4. ASSUME NEW t \in Threads, NEW s \in Sessions, Uses(t, s), UsedOK(t, s)
      PROVE  SessionOK(s)
  <2>1. Used(s)
    BY <1>4 DEF Used
  <2>2. ~Armed(s) /\ ~Queued(s) /\ ~Starting(s) /\ object[s] # "raw"
    BY <1>1, <2>1 DEF SingleActivity, NoDanglingSession
  <2>3. \A u \in Threads : Uses(u, s) => u = t
    BY <1>1, <1>4 DEF SingleActivity
  <2> HIDE DEF Uses
  <2> QED BY <1>4, <2>2, <2>3 DEF SessionOK, UsedOK, Armed, Queued
<1>5. ASSUME NEW s \in Sessions, Starting(s), Listening(s) PROVE SessionOK(s)
  <2>1. ~Armed(s) /\ ~Queued(s) /\ ~Used(s) /\ object[s] # "raw"
    BY <1>1, <1>5 DEF SingleActivity, NoDanglingSession
  <2> QED BY <1>5, <2>1 DEF SessionOK, Armed, Queued, Used
<1>6. ASSUME NEW s \in Sessions, ~Busy(s), object[s] # "raw" PROVE SessionOK(s)
  BY <1>6 DEF SessionOK, Busy, Armed, Queued, Used
<1> QED BY <1>2, <1>3, <1>4, <1>5, <1>6 DEF OneActivity

LEMMA NextActivityDecides == (IInv => OneActivity)'
  BY ActivityDecides, PTL

-----------------------------------------------------------------------------
(* Steps.  An action moves at most one session and is quiet for the others. *)

Quiet(x) ==
  /\ data'[x] = data[x] /\ object'[x] = object[x] /\ socket'[x] = socket[x]
  /\ peer'[x] = "absent" <=> peer[x] = "absent"
  /\ Starting(x)' <=> Starting(x)
  /\ \A a \in armed \cup armed' : a.sess = x => a \in armed /\ a \in armed'
  /\ \A c \in ready \cup ready' : c.sess = x => c \in ready /\ c \in ready'
  /\ \A t \in Threads : Uses(t, x) \/ Uses(t, x)' =>
       Uses(t, x) /\ Uses(t, x)' /\ at'[t] = at[t] /\ call'[t] = call[t]

LEMMA QuietKept ==
  ASSUME NEW x \in Sessions, Quiet(x), SessionOK(x)
  PROVE  SessionOK(x)' /\ statusOf(x)' = statusOf(x)
<1>1. /\ Fresh(x)' <=> Fresh(x)
      /\ Live(x)' <=> Live(x)
      /\ Listening(x)' <=> Listening(x)
      /\ Answering(x)' <=> Answering(x)
  BY DEF Quiet, Fresh, Live, Listening, Answering
<1>2. \A c : DueOK(c, x)' <=> DueOK(c, x)
  BY <1>1 DEF DueOK, Quiet
<1>3. SessionOK(x)'
  <2> HIDE DEF Uses
  <2> QED BY <1>1, <1>2 DEF SessionOK, Quiet
<1>4. Accepted(x)' <=> Accepted(x)
  <2>1. (\E t \in Threads : at[t] = "handle_accept" /\ call[t].sess = x)'
           <=> \E t \in Threads : at[t] = "handle_accept" /\ call[t].sess = x
    BY DEF Quiet, Uses, SessionLabels
  <2> QED BY <2>1 DEF Accepted, Quiet
<1>5. Asked(x)' <=> Asked(x)
  <2> HIDE DEF Uses
  <2> QED BY DEF Asked, Quiet
<1> QED BY <1>3, <1>4, <1>5 DEF statusOf, Quiet

\* What a step may do to the status of the session it moves.
Onward(from, to) ==
  \/ from = to
  \/ from = "none" /\ to = "accepted"
  \/ from = "accepted" /\ to = "listening"
  \/ from = "listening" /\ to \in {"asked", "dropped"}
  \/ from = "asked" /\ to = "answering"
  \/ from = "answering" /\ to \in {"closed", "dropped"}

Advances(s) ==
  /\ \A x \in Sessions \ {s} : Quiet(x)
  /\ SessionOK(s)'
  /\ Onward(statusOf(s), statusOf(s)')

\* A thread leaves the handler of its session.
LEMMA LeaveQuiet ==
  ASSUME NEW t \in Threads, at[t] \in SessionLabels, at'[t] \in {"run", "start_accept"},
         \A u \in Threads \ {t} : at'[u] = at[u] /\ call'[u] = call[u],
         UNCHANGED <<ready, peer>>,
         \A x \in Sessions \ {call[t].sess} :
           /\ data'[x] = data[x] /\ object'[x] = object[x] /\ socket'[x] = socket[x]
           /\ \A a \in armed \cup armed' : a.sess = x => a \in armed /\ a \in armed'
  PROVE  \A x \in Sessions \ {call[t].sess} : Quiet(x)
<1> SUFFICES ASSUME NEW x \in Sessions \ {call[t].sess} PROVE Quiet(x)
  OBVIOUS
<1>1. \A u \in Threads : Uses(u, x) \/ Uses(u, x)' =>
        Uses(u, x) /\ Uses(u, x)' /\ at'[u] = at[u] /\ call'[u] = call[u]
  BY DEF Uses, SessionLabels
<1>2. Starting(x)' <=> Starting(x)
  BY DEF Starting, SessionLabels, Threads
<1> HIDE DEF Uses
<1> QED BY <1>1, <1>2 DEF Quiet

LEMMA RunHandlerStep ==
  ASSUME RInv, IInv', NEW t \in Threads, NEW s \in Sessions, RunHandler(t, s)
  PROVE  Advances(s)
<1> USE DEF RInv
<1>1. PICK c \in ready : /\ c.sess = s /\ ready' = ready \ {c}
                         /\ call' = [call EXCEPT ![t] = c]
                         /\ at' = [at EXCEPT ![t] = HandlerOf[c.op]]
  BY DEF RunHandler, GoTo
<1>2. /\ at[t] = "run" /\ at'[t] = HandlerOf[c.op] /\ call'[t] = c
      /\ \A u \in Threads \ {t} : at'[u] = at[u] /\ call'[u] = call[u]
      /\ UNCHANGED <<alive, torn, object, socket, data, armed, peer, inflight>>
      /\ c.op \in Ops
  BY <1>1 DEF RunHandler, IInv, TypeOK, Completion
<1>3. at'[t] \in SessionLabels /\ at'[t] \notin Responding
  BY <1>2 DEF HandlerOf, Ops, SessionLabels, Responding
<1>4. ASSUME NEW x \in Sessions \ {s} PROVE Quiet(x)
  <2>1. \A u \in Threads : Uses(u, x) \/ Uses(u, x)' =>
          Uses(u, x) /\ Uses(u, x)' /\ at'[u] = at[u] /\ call'[u] = call[u]
    BY <1>1, <1>2, <1>4 DEF Uses, SessionLabels
  <2>2. Starting(x)' <=> Starting(x)
    BY <1>2, <1>3 DEF Starting, SessionLabels, Threads
  <2> HIDE DEF Uses
  <2> QED BY <1>1, <1>2, <1>4, <2>1, <2>2 DEF Quiet
<1>5. Uses(t, s)' /\ DueOK(c, s)
  BY <1>1, <1>2, <1>3 DEF Uses, SessionOK
<1>6. UsedOK(t, s)'
  BY <1>2, <1>3, <1>5 DEF UsedOK, DueOK, Fresh, Listening, Answering, Live
<1>7. SessionOK(s)'
  BY <1>5, <1>6, NextActivityDecides DEF OneActivity
<1>8. statusOf(s) = StatusDue(c, s)
  BY <1>1, Statuses DEF StatusTable, StatusOfReady
<1>9. statusOf(s)' = StatusDue(c, s)
  <2>1. StatusOfUsed(s)'
    BY <1>7, NextStatuses DEF StatusTable
  <2> QED BY <1>2, <1>3, <1>5, <2>1 DEF StatusOfUsed, StatusDue
<1> QED BY <1>4, <1>7, <1>8, <1>9 DEF Advances, Onward

LEMMA StartSessionStep ==
  ASSUME RInv, IInv', NEW s \in Sessions, StartSession(s)
  PROVE  Advances(s)
<1> USE DEF RInv
<1>1. /\ at[s] = "start_session" /\ at'[s] = "run" /\ s \in Threads
      /\ \A u \in Threads \ {s} : at'[u] = at[u]
      /\ UNCHANGED <<alive, torn, object, socket, ready, call, peer, inflight>>
  BY DEF StartSession, GoTo, AfterStart, IInv, TypeOK, Threads
<1>2. PICK op \in {"handshake", "read"} :
        /\ Arm(op, s)
        /\ UNCHANGED data \/ data' = [data EXCEPT ![s] = "empty"]
  BY DEF StartSession
<1>3. /\ \A x \in Sessions \ {s} : data'[x] = data[x]
      /\ data[s] \notin Requests => data'[s] \notin Requests
  BY <1>2 DEF IInv, TypeOK, Requests
<1> DEFINE new == [op |-> op, sess |-> s]
<1>4. armed' = armed \cup {new} /\ new.sess = s /\ new.op = op
  BY <1>2 DEF Arm
<1> HIDE DEF new
<1>5. ASSUME NEW x \in Sessions \ {s} PROVE Quiet(x)
  <2>1. \A u \in Threads : Uses(u, x) \/ Uses(u, x)' =>
          Uses(u, x) /\ Uses(u, x)' /\ at'[u] = at[u] /\ call'[u] = call[u]
    BY <1>1 DEF Uses, SessionLabels
  <2>2. Starting(x)' <=> Starting(x)
    BY <1>1 DEF Starting, Threads
  <2> HIDE DEF Uses
  <2> QED BY <1>1, <1>3, <1>4, <2>1, <2>2 DEF Quiet
<1>6. Starting(s) /\ Listening(s)
  BY <1>1 DEF Starting, SessionOK
<1>7. new \in armed' /\ ArmedOK(new)'
  BY <1>1, <1>3, <1>4, <1>6 DEF ArmedOK, Listening, Live
<1>8. SessionOK(s)'
  BY <1>4, <1>7, NextActivityDecides DEF OneActivity
<1>9. statusOf(s) = "accepted"
  BY <1>6, Statuses DEF StatusTable, StatusOfStarting
<1>10. statusOf(s)' = "listening"
  <2>1. StatusOfArmed(s)'
    BY <1>8, NextStatuses DEF StatusTable
  <2> QED BY <1>4, <1>7, <2>1 DEF StatusOfArmed
<1> QED BY <1>5, <1>8, <1>9, <1>10 DEF Advances, Onward

LEMMA SpawnThreadStep ==
  ASSUME RInv, IInv', NEW t \in Threads, NEW s \in Sessions, s = call[t].sess, SpawnThread(t)
  PROVE  Advances(s)
<1> USE DEF RInv
<1>1. /\ at[t] = "handle_accept" /\ call[t].ok /\ call[t].op = "accept"
      /\ s \in Threads /\ Uses(t, s)
      /\ UNCHANGED <<alive, torn, object, socket, data, armed, ready, call, peer, inflight>>
  BY DEF SpawnThread, IInv, CallOK, Completion, SessionLabels, Threads, Uses
<1>2. at[s] = "unborn" /\ s # t
  BY <1>1 DEF IInv, SpawnOK
<1>3. /\ at'[t] = "start_accept" /\ at'[s] = "start_session"
      /\ \A u \in Threads \ {s, t} : at'[u] = at[u]
  BY <1>1, <1>2 DEF SpawnThread, IInv, TypeOK
<1>4. ASSUME NEW x \in Sessions \ {s} PROVE Quiet(x)
  <2>1. \A u \in Threads : Uses(u, x) \/ Uses(u, x)' =>
          Uses(u, x) /\ Uses(u, x)' /\ at'[u] = at[u] /\ call'[u] = call[u]
    BY <1>1, <1>2, <1>3 DEF Uses, SessionLabels
  <2>2. Starting(x)' <=> Starting(x)
    BY <1>1, <1>3 DEF Starting, Threads
  <2> HIDE DEF Uses
  <2> QED BY <1>1, <2>1, <2>2 DEF Quiet
<1>5. Listening(s)
  BY <1>1 DEF SessionOK, DueOK, Responding
<1>6. Starting(s)' /\ Listening(s)'
  BY <1>1, <1>3, <1>5 DEF Starting, Listening, Live
<1>7. SessionOK(s)'
  BY <1>1, <1>6, NextActivityDecides DEF OneActivity
<1>8. statusOf(s) = "accepted"
  <2>1. StatusOfUsed(s)
    BY <1>1, Statuses DEF StatusTable
  <2> QED BY <1>1, <2>1 DEF StatusOfUsed, StatusDue, Responding
<1>9. statusOf(s)' = "accepted"
  BY <1>1, <1>6, <1>7, NextStatuses DEF StatusTable, StatusOfStarting
<1> QED BY <1>1, <1>4, <1>7, <1>8, <1>9 DEF Advances, Onward

LEMMA HandleAcceptErrorStep ==
  ASSUME RInv, IInv', NEW t \in Threads, NEW s \in Sessions, s = call[t].sess, HandleAcceptError(t)
  PROVE  Advances(s)
<1> USE DEF RInv
<1>1. /\ at[t] = "handle_accept" /\ ~call[t].ok /\ call[t].op = "accept"
      /\ Uses(t, s)
      /\ UNCHANGED <<alive, torn, socket, data, armed, ready, call, peer, inflight>>
  BY DEF HandleAcceptError, IInv, CallOK, Completion, SessionLabels, Uses
<1>2. /\ at'[t] = "start_accept" /\ \A u \in Threads \ {t} : at'[u] = at[u]
      /\ object'[s] = "deleted" /\ \A x \in Sessions \ {s} : object'[x] = object[x]
  BY <1>1 DEF HandleAcceptError, GoTo, AfterAcceptError, IInv, TypeOK
<1>3. \A x \in Sessions \ {s} : Quiet(x)
  <2>1. at[t] \in SessionLabels
    BY <1>1 DEF SessionLabels
  <2> QED BY <1>1, <1>2, <2>1, LeaveQuiet
<1>4. ~Busy(s)' /\ object'[s] # "raw"
  BY <1>1, <1>2 DEF IInv, NoDanglingSession, Busy
<1>5. SessionOK(s)'
  BY <1>1, <1>4, NextActivityDecides DEF OneActivity
<1>6. peer[s] = "absent"
  BY <1>1 DEF SessionOK, DueOK, Fresh, Responding
<1>7. statusOf(s) = "none" /\ statusOf(s)' = "none"
  BY <1>1, <1>6 DEF statusOf
<1> QED BY <1>1, <1>3, <1>5, <1>7 DEF Advances, Onward

LEMMA StartAcceptStep ==
  ASSUME RInv, IInv', NEW t \in Threads, StartAccept(t)
  PROVE  \E s \in Sessions : Advances(s)
<1> USE DEF RInv
<1>1. PICK s \in Sessions : /\ object[s] = "raw"
                            /\ object' = [object EXCEPT ![s] = "allocated"]
                            /\ Arm("accept", s)
  BY NewIsRaw DEF StartAccept
<1>2. /\ at[t] = "start_accept" /\ at'[t] = "run"
      /\ \A u \in Threads \ {t} : at'[u] = at[u] /\ call'[u] = call[u]
      /\ \A x \in Sessions \ {s} : object'[x] = object[x]
      /\ UNCHANGED <<alive, torn, socket, data, ready, peer, inflight>>
  BY <1>1 DEF StartAccept, Return, GoTo, IInv, TypeOK
<1> DEFINE new == [op |-> "accept", sess |-> s]
<1>3. armed' = armed \cup {new} /\ new.sess = s /\ new.op = "accept"
  BY <1>1 DEF Arm
<1> HIDE DEF new
<1>4. ASSUME NEW x \in Sessions \ {s} PROVE Quiet(x)
  <2>1. \A u \in Threads : Uses(u, x) \/ Uses(u, x)' =>
          Uses(u, x) /\ Uses(u, x)' /\ at'[u] = at[u] /\ call'[u] = call[u]
    BY <1>2 DEF Uses, SessionLabels
  <2>2. Starting(x)' <=> Starting(x)
    BY <1>2 DEF Starting, Threads
  <2> HIDE DEF Uses
  <2> QED BY <1>2, <1>3, <2>1, <2>2 DEF Quiet
<1>5. Fresh(s)
  BY <1>1 DEF SessionOK
<1>6. new \in armed' /\ ArmedOK(new)'
  BY <1>2, <1>3, <1>5 DEF ArmedOK, Fresh
<1>7. SessionOK(s)'
  BY <1>3, <1>6, NextActivityDecides DEF OneActivity
<1>8. statusOf(s) = "none" /\ statusOf(s)' = "none"
  BY <1>2, <1>5 DEF statusOf, Fresh
<1> QED BY <1>4, <1>7, <1>8 DEF Advances, Onward

\* What a thread inside one of the session's own handlers knows.
LEMMA InHandler ==
  ASSUME RInv, NEW t \in Threads, at[t] \in {"handle_handshake", "handle_read", "handle_write"}
  PROVE  /\ call[t].sess \in Sessions /\ Uses(t, call[t].sess)
         /\ DueOK(call[t], call[t].sess)
         /\ call[t].op = CASE at[t] = "handle_handshake" -> "handshake"
                           [] at[t] = "handle_read" -> "read"
                           [] OTHER -> "write"
         /\ statusOf(call[t].sess) = StatusDue(call[t], call[t].sess)
<1> USE DEF RInv
<1>1. /\ call[t].sess \in Sessions /\ Uses(t, call[t].sess) /\ call[t].op \in Ops
  BY DEF IInv, CallOK, Completion, SessionLabels, Uses
<1>2. DueOK(call[t], call[t].sess) /\ HandlerOf[call[t].op] = at[t]
  BY <1>1 DEF SessionOK, Responding
<1>3. statusOf(call[t].sess) = StatusDue(call[t], call[t].sess)
  BY <1>1, Statuses DEF StatusTable, StatusOfUsed, Responding
<1> QED BY <1>1, <1>2, <1>3 DEF HandlerOf, Ops

\* A handler returns after it has started the session's next operation.
LEMMA RearmStep ==
  ASSUME RInv, IInv', NEW t \in Threads, NEW s \in Sessions, s = call[t].sess, Uses(t, s),
         NEW op \in {"read", "write"}, Arm(op, s), Return(t),
         UNCHANGED <<object, socket, ready, peer>>,
         UNCHANGED data \/ (op = "read" /\ data' = [data EXCEPT ![s] = "empty"]),
         \/ op = "read" /\ Listening(s) /\ statusOf(s) = "listening"
         \/ op = "write" /\ Answering(s) /\ statusOf(s) = "asked"
  PROVE  Advances(s)
<1> USE DEF RInv
<1> DEFINE new == [op |-> op, sess |-> s]
<1>1. armed' = armed \cup {new} /\ new.sess = s /\ new.op = op
  BY DEF Arm
<1> HIDE DEF new
<1>2. /\ at[t] \in SessionLabels /\ at'[t] = "run"
      /\ \A u \in Threads \ {t} : at'[u] = at[u] /\ call'[u] = call[u]
  BY DEF Uses, Return, GoTo, IInv, TypeOK
<1>3. /\ \A x \in Sessions \ {s} : data'[x] = data[x]
      /\ data[s] \notin Requests => data'[s] \notin Requests
      /\ op = "write" => data'[s] = data[s]
  BY DEF IInv, TypeOK, Requests
<1>4. \A x \in Sessions \ {s} : Quiet(x)
  BY <1>1, <1>2, <1>3, LeaveQuiet
<1>5. new \in armed' /\ ArmedOK(new)'
  BY <1>1, <1>3 DEF ArmedOK, Listening, Answering, Live
<1>6. SessionOK(s)'
  BY <1>1, <1>5, NextActivityDecides DEF OneActivity
<1>7. statusOf(s)' = IF op = "write" THEN "answering" ELSE "listening"
  <2>1. StatusOfArmed(s)'
    BY <1>6, NextStatuses DEF StatusTable
  <2> QED BY <1>1, <1>5, <2>1 DEF StatusOfArmed
<1> QED BY <1>4, <1>6, <1>7 DEF Advances, Onward

\* A handler returns after it has deleted its session.
LEMMA DeleteStep ==
  ASSUME RInv, IInv', NEW t \in Threads, NEW s \in Sessions, s = call[t].sess, Uses(t, s),
         object' = [object EXCEPT ![s] = "deleted"], Return(t),
         UNCHANGED <<socket, data, armed, ready, peer>>,
         Live(s), statusOf(s) \in {"listening", "answering"}
  PROVE  Advances(s)
<1> USE DEF RInv
<1>1. /\ at[t] \in SessionLabels /\ at'[t] = "run"
      /\ \A u \in Threads \ {t} : at'[u] = at[u] /\ call'[u] = call[u]
      /\ object'[s] = "deleted" /\ \A x \in Sessions \ {s} : object'[x] = object[x]
  BY DEF Uses, Return, GoTo, IInv, TypeOK
<1>2. \A x \in Sessions \ {s} : Quiet(x)
  BY <1>1, LeaveQuiet
<1>3. ~Busy(s)' /\ object'[s] # "raw"
  BY <1>1 DEF IInv, NoDanglingSession, Busy
<1>4. SessionOK(s)'
  BY <1>3, NextActivityDecides DEF OneActivity
<1>5. statusOf(s)' = "dropped"
  BY <1>1 DEF statusOf, Live
<1> QED BY <1>2, <1>4, <1>5 DEF Advances, Onward

LEMMA HandleWriteStep ==
  ASSUME RInv, IInv', NEW t \in Threads, NEW s \in Sessions, s = call[t].sess, HandleWrite(t)
  PROVE  Advances(s)
<1> USE DEF RInv
<1>1. /\ at[t] = "handle_write" /\ Return(t)
      /\ UNCHANGED <<alive, torn, armed, ready, peer, inflight>>
  BY DEF HandleWrite
<1>2. Uses(t, s) /\ Answering(s) /\ statusOf(s) = "answering"
  BY <1>1, InHandler DEF DueOK, StatusDue
<1>3. CASE call[t].ok
  <2>1. /\ socket'[s] = "closed" /\ UNCHANGED object
        /\ \A x \in Sessions \ {s} : data'[x] = data[x] /\ socket'[x] = socket[x]
    BY <1>3 DEF HandleWrite, AfterWrite, IInv, TypeOK
  <2>2. /\ at[t] \in SessionLabels /\ at'[t] = "run"
        /\ \A u \in Threads \ {t} : at'[u] = at[u] /\ call'[u] = call[u]
    BY <1>1, <1>2 DEF Uses, Return, GoTo, IInv, TypeOK
  <2>3. \A x \in Sessions \ {s} : Quiet(x)
    BY <1>1, <2>1, <2>2, LeaveQuiet
  <2>4. object[s] = "allocated" /\ ~Armed(s) /\ ~Queued(s) /\ ~Starting(s)
    <3>1. Used(s)
      BY <1>2 DEF Used
    <3> QED BY <3>1 DEF IInv, NoDanglingSession, SingleActivity
  <2>5. ~Used(s)'
    <3>1. \A u \in Threads : Uses(u, s) => u = t
      BY <1>2 DEF IInv, SingleActivity
    <3> QED BY <2>2, <3>1 DEF Used, Uses, SessionLabels
  <2>6. ~Busy(s)' /\ object'[s] = "allocated"
    BY <1>1, <2>1, <2>2, <2>4, <2>5 DEF Busy, Armed, Queued, Starting, Threads, SessionLabels
  <2>7. SessionOK(s)'
    BY <2>6, NextActivityDecides DEF OneActivity
  <2>8. statusOf(s)' = "closed"
    BY <1>1, <1>2, <2>1, <2>6 DEF statusOf, Answering, Live
  <2> QED BY <1>2, <2>3, <2>7, <2>8 DEF Advances, Onward
<1>4. CASE ~call[t].ok
  <2>1. object' = [object EXCEPT ![s] = "deleted"] /\ UNCHANGED <<data, socket>>
    BY <1>4 DEF HandleWrite
  <2>2. Live(s)
    BY <1>2 DEF Answering
  <2> QED BY <1>1, <1>2, <2>1, <2>2, DeleteStep
<1> QED BY <1>3, <1>4

LEMMA HandlerReturnsStep ==
  ASSUME RInv, IInv', NEW t \in Threads, NEW s \in Sessions, s = call[t].sess,
         \/ HandleHandshake(t) \/ HandleReadError(t) \/ AppendData(t)
         \/ SendBadRequest(t) \/ SendResponse(t)
  PROVE  Advances(s)
<1> USE DEF RInv
<1>1. CASE HandleHandshake(t)
  <2>1. at[t] = "handle_handshake" /\ Return(t) /\ UNCHANGED <<socket, ready, peer>>
    BY <1>1 DEF HandleHandshake
  <2>2. Uses(t, s) /\ Listening(s) /\ statusOf(s) = "listening" /\ Live(s)
    BY <2>1, InHandler DEF DueOK, StatusDue, Listening
  <2>3. CASE call[t].ok
    <3>1. data' = [data EXCEPT ![s] = "empty"] /\ Arm("read", s) /\ UNCHANGED object
      BY <1>1, <2>3 DEF HandleHandshake
    <3> QED BY <2>1, <2>2, <3>1, RearmStep
  <2>4. CASE ~call[t].ok
    <3>1. object' = [object EXCEPT ![s] = "deleted"] /\ UNCHANGED <<data, armed>>
      BY <1>1, <2>4 DEF HandleHandshake
    <3> QED BY <2>1, <2>2, <3>1, DeleteStep
  <2> QED BY <2>3, <2>4
<1>2. CASE HandleReadError(t) \/ AppendData(t) \/ SendBadRequest(t)
  <2>1. at[t] = "handle_read" /\ Return(t) /\ UNCHANGED <<socket, data, ready, peer>>
    BY <1>2 DEF HandleReadError, AppendData, SendBadRequest
  <2>2. /\ Uses(t, s) /\ Live(s) /\ (~call[t].ok => data[s] \notin Requests)
        /\ statusOf(s) = IF data[s] \in Requests THEN "asked" ELSE "listening"
    BY <2>1, InHandler DEF DueOK, StatusDue
  <2>3. CASE HandleReadError(t)
    BY <2>1, <2>2, <2>3, DeleteStep DEF HandleReadError
  <2>4. CASE AppendData(t)
    BY <2>1, <2>2, <2>4, RearmStep DEF AppendData, Listening
  <2>5. CASE SendBadRequest(t)
    <3>1. data[s] \in Requests
      BY <2>5 DEF SendBadRequest, Requests
    <3> QED BY <2>1, <2>2, <2>5, <3>1, RearmStep DEF SendBadRequest, Answering
  <2> QED BY <1>2, <2>3, <2>4, <2>5
<1>3. CASE SendResponse(t)
  <2>1. /\ at[t] = "remote_endpoint" /\ Return(t) /\ Arm("write", s)
        /\ UNCHANGED <<object, socket, data, ready, peer>>
    BY <1>3 DEF SendResponse
  <2>2. Uses(t, s)
    BY <2>1 DEF Uses, SessionLabels
  <2>3. Answering(s)
    BY <2>1, <2>2 DEF SessionOK, Responding
  <2>4. statusOf(s) = "asked"
    BY <2>1, <2>2, Statuses DEF StatusTable, StatusOfUsed, Responding
  <2> QED BY <2>1, <2>2, <2>3, <2>4, RearmStep
<1> QED BY <1>1, <1>2, <1>3

\* Between its request and its response a session is asked.
LEMMA RespondingIsAsked ==
  ASSUME RInv, NEW t \in Threads, at[t] \in Responding
  PROVE  /\ call[t].sess \in Sessions /\ Uses(t, call[t].sess)
         /\ Answering(call[t].sess) /\ statusOf(call[t].sess) = "asked"
<1> USE DEF RInv
<1>1. call[t].sess \in Sessions /\ Uses(t, call[t].sess)
  BY DEF IInv, CallOK, Completion, SessionLabels, Uses, Responding
<1>2. Answering(call[t].sess)
  BY <1>1 DEF SessionOK
<1>3. statusOf(call[t].sess) = "asked"
  BY <1>1, Statuses DEF StatusTable, StatusOfUsed
<1> QED BY <1>1, <1>2, <1>3

\* The steps inside send_response that leave the session as it is.
LEMMA InsideStep ==
  ASSUME RInv, IInv', NEW t \in Threads, NEW s \in Sessions, s = call[t].sess,
         CallHandler(t) \/ HandleRequest(t) \/ CountRequest(t)
  PROVE  Advances(s) /\ statusOf(s)' = statusOf(s)
<1> USE DEF RInv
<1>1. /\ at'[t] \in Responding
      /\ at[t] \in {"handle_read", "handle_request", "count_request"}
      /\ \A u \in Threads \ {t} : at'[u] = at[u]
      /\ UNCHANGED <<object, socket, data, armed, ready, call, peer>>
  BY DEF CallHandler, HandleRequest, CountRequest, GoTo, IInv, TypeOK, Responding
<1>2. Uses(t, s) /\ Uses(t, s)'
  BY <1>1 DEF Uses, SessionLabels, Responding
<1>3. ASSUME NEW x \in Sessions \ {s} PROVE Quiet(x)
  <2>1. \A u \in Threads : Uses(u, x) \/ Uses(u, x)' =>
          Uses(u, x) /\ Uses(u, x)' /\ at'[u] = at[u] /\ call'[u] = call[u]
    BY <1>1, <1>3 DEF Uses
  <2>2. Starting(x)' <=> Starting(x)
    BY <1>1 DEF Starting, Threads, Responding
  <2> HIDE DEF Uses
  <2> QED BY <1>1, <2>1, <2>2 DEF Quiet
<1>4. Answering(s) /\ statusOf(s) = "asked"
  <2>1. CASE CallHandler(t)
    <3>1. at[t] = "handle_read" /\ data[s] \in Requests
      BY <2>1 DEF CallHandler, Requests
    <3> QED BY <3>1, InHandler DEF DueOK, StatusDue, Answering
  <2>2. CASE HandleRequest(t) \/ CountRequest(t)
    <3>1. at[t] \in Responding
      BY <2>2 DEF HandleRequest, CountRequest, Responding
    <3> QED BY <3>1, RespondingIsAsked
  <2> QED BY <2>1, <2>2
<1>5. UsedOK(t, s)'
  BY <1>1, <1>4 DEF UsedOK, Answering, Live
<1>6. SessionOK(s)'
  BY <1>2, <1>5, NextActivityDecides DEF OneActivity
<1>7. statusOf(s)' = "asked"
  <2>1. StatusOfUsed(s)'
    BY <1>6, NextStatuses DEF StatusTable
  <2> QED BY <1>1, <1>2, <2>1 DEF StatusOfUsed
<1> QED BY <1>3, <1>4, <1>6, <1>7 DEF Advances, Onward

LEMMA KernelStep ==
  ASSUME RInv, IInv', NEW a \in armed, NEW s \in Sessions, s = a.sess, Kernel(a)
  PROVE  Advances(s)
<1> USE DEF RInv
<1>1. PICK ok \in BOOLEAN :
        /\ Complete(a, ok)
        /\ \/ Connect(a) /\ ok
           \/ AcceptFails(a) /\ ~ok
           \/ ReadDone(a) /\ ok
           \/ ReadFails(a) /\ ~ok
           \/ HandshakeDone(a, ok)
           \/ WriteDone(a, ok)
  BY DEF Kernel, Connect, AcceptFails, ReadDone, ReadFails, HandshakeDone, WriteDone
<1> DEFINE new == [op |-> a.op, sess |-> s, ok |-> ok]
<1>2. /\ armed' = armed \ {a} /\ ready' = ready \cup {new}
      /\ new.op = a.op /\ new.sess = s /\ new.ok = ok
  BY <1>1 DEF Complete
<1> HIDE DEF new
<1>3. UNCHANGED <<object, at, call>>
  BY <1>1 DEF Connect, AcceptFails, ReadDone, ReadFails, HandshakeDone, WriteDone
<1>4. \A x \in Sessions \ {s} :
        data'[x] = data[x] /\ socket'[x] = socket[x] /\ peer'[x] = peer[x]
  BY <1>1 DEF Connect, AcceptFails, ReadDone, ReadFails, HandshakeDone, WriteDone,
              IInv, TypeOK
<1>5. ASSUME NEW x \in Sessions \ {s} PROVE Quiet(x)
  <2>1. \A u \in Threads : Uses(u, x)' <=> Uses(u, x)
    BY <1>3 DEF Uses
  <2>2. Starting(x)' <=> Starting(x)
    BY <1>3 DEF Starting
  <2> HIDE DEF Uses
  <2> QED BY <1>2, <1>3, <1>4, <2>1, <2>2 DEF Quiet
<1>6. /\ DueOK(new, s)'
      /\ StatusOfArmed(s) => Onward(statusOf(s), StatusDue(new, s)')
  <2>1. CASE Connect(a) /\ ok
    <3>1. a.op = "accept" /\ UNCHANGED data /\ socket'[s] = "open" /\ peer'[s] = "connected"
      BY <2>1 DEF Connect, IInv, TypeOK
    <3>2. Fresh(s)
      BY <3>1 DEF SessionOK
    <3> QED BY <1>2, <2>1, <3>1, <3>2
            DEF DueOK, StatusDue, StatusOfArmed, Onward, Fresh, Listening, Live
  <2>2. CASE AcceptFails(a) /\ ~ok
    <3>1. a.op = "accept" /\ UNCHANGED <<data, socket, peer>>
      BY <2>2 DEF AcceptFails
    <3>2. Fresh(s)
      BY <3>1 DEF SessionOK
    <3> QED BY <1>2, <2>2, <3>1, <3>2
            DEF DueOK, StatusDue, StatusOfArmed, Onward, Fresh
  <2>3. CASE (ReadDone(a) /\ ok) \/ (ReadFails(a) /\ ~ok)
    <3>1. a.op = "read" /\ UNCHANGED <<socket, peer>> /\ (~ok => UNCHANGED data)
      BY <2>3 DEF ReadDone, ReadFails
    <3>2. Listening(s)
      BY <3>1 DEF SessionOK
    <3> QED BY <1>2, <3>1, <3>2
            DEF DueOK, StatusDue, StatusOfArmed, Onward, Listening, Live
  <2>4. CASE HandshakeDone(a, ok)
    <3>1. a.op = "handshake" /\ UNCHANGED <<data, socket, peer>>
      BY <2>4 DEF HandshakeDone
    <3>2. Listening(s)
      BY <3>1 DEF SessionOK
    <3> QED BY <1>2, <3>1, <3>2
            DEF DueOK, StatusDue, StatusOfArmed, Onward, Listening, Live
  <2>5. CASE WriteDone(a, ok)
    <3>1. a.op = "write" /\ UNCHANGED <<data, socket, peer>>
      BY <2>5 DEF WriteDone
    <3>2. Answering(s)
      BY <3>1 DEF SessionOK
    <3> QED BY <1>2, <3>1, <3>2
            DEF DueOK, StatusDue, StatusOfArmed, Onward, Answering, Live
  <2> QED BY <1>1, <2>1, <2>2, <2>3, <2>4, <2>5
<1>7. SessionOK(s)'
  BY <1>2, <1>6, NextActivityDecides DEF OneActivity
<1>8. StatusOfArmed(s) /\ StatusOfReady(s)'
  BY <1>7, Statuses, NextStatuses DEF StatusTable
<1>9. statusOf(s)' = StatusDue(new, s)'
  BY <1>2, <1>8 DEF StatusOfReady
<1> QED BY <1>5, <1>6, <1>7, <1>8, <1>9 DEF Advances

LEMMA ClientStep ==
  ASSUME RInv, NEW s \in Sessions, Client(s)
  PROVE  \A x \in Sessions : Quiet(x)
<1> USE DEF RInv
<1>1. UNCHANGED <<object, socket, data, armed, ready, at, call>>
  BY DEF Client, ClientSends, ClientFinishes, ClientResets
<1>2. \A x \in Sessions : peer'[x] = "absent" <=> peer[x] = "absent"
  BY DEF Client, ClientSends, ClientFinishes, ClientResets, IInv, TypeOK
<1>3. \A u \in Threads, x \in Sessions : Uses(u, x)' <=> Uses(u, x)
  BY <1>1 DEF Uses
<1> HIDE DEF Uses
<1> QED BY <1>1, <1>2, <1>3 DEF Quiet, Starting

-----------------------------------------------------------------------------
(* The end of the process.                                                  *)

\* Why the process may end, in the words of Exchange.
Reason ==
  \E s \in Sessions :
    \/ /\ statusOf(s) = "asked"
       /\ Provokes(s) \/ torn \/ (\E x \in Sessions \ {s} : statusOf(x) = "asked")
    \/ /\ statusOf(s) = "accepted"
       /\ Cardinality({x \in Sessions : statusOf(x) # "none"}) >= SureThreads

\* A thread is refused only when there are as many connections as sure threads:
\* Main and the connection to be started are one more, and one less, than those
\* that have their thread.
LEMMA RefusalNeedsConnections ==
  ASSUME RInv, NEW t \in Threads, SpawnFails(t)
  PROVE  Reason
<1> USE ServerAssumption DEF RInv
<1> DEFINE s == call[t].sess
           Known == {x \in Sessions : statusOf(x) # "none"}
           Spawned == {x \in Sessions : at[x] # "unborn"}
<1>1. /\ at[t] = "handle_accept" /\ call[t].ok /\ Cardinality(Pool) >= SureThreads
      /\ s \in Sessions /\ Uses(t, s)
  BY DEF SpawnFails, IInv, CallOK, Completion, SessionLabels, Uses
<1>2. at[s] = "unborn" /\ call[t].op = "accept"
  BY <1>1 DEF IInv, SpawnOK, CallOK, SessionLabels
<1>3. statusOf(s) = "accepted"
  <2>1. statusOf(s) = StatusDue(call[t], s)
    BY <1>1, Statuses DEF StatusTable, StatusOfUsed, Responding
  <2> QED BY <1>1, <1>2, <2>1 DEF StatusDue
<1>4. \A x \in Sessions : statusOf(x) = "none" <=> peer[x] = "absent"
  BY DEF statusOf
<1>5. Spawned \subseteq Known \ {s} /\ s \in Known
  BY <1>1, <1>2, <1>3, <1>4 DEF PeersOK
<1>6. Pool = Spawned \cup {Main} /\ Main \notin Spawned
  BY DEF Pool, Threads, IInv, SpawnOK
<1>7. IsFiniteSet(Known) /\ Cardinality(Known) \in Nat
  BY FS_Subset, FS_CardinalityType
<1> HIDE DEF Known, Spawned, s
<1>8. /\ IsFiniteSet(Known \ {s}) /\ Cardinality(Known \ {s}) = Cardinality(Known) - 1
  BY <1>5, <1>7, FS_RemoveElement
<1>9. /\ IsFiniteSet(Spawned) /\ Cardinality(Spawned) <= Cardinality(Known \ {s})
      /\ Cardinality(Spawned) \in Nat
  BY <1>5, <1>8, FS_Subset, FS_CardinalityType
<1>10. Cardinality(Pool) = Cardinality(Spawned) + 1
  BY <1>6, <1>9, FS_AddElement
<1>11. Cardinality(Known) >= SureThreads
  BY <1>1, <1>7, <1>8, <1>9, <1>10
<1> QED BY <1>1, <1>3, <1>11 DEF Reason, Known

Ends ==
  /\ alive /\ ~alive'
  /\ Reason
  /\ UNCHANGED <<torn, object, socket, data, armed, ready, at, call, peer, inflight>>

LEMMA EndStep ==
  ASSUME RInv, NEW t \in Threads,
         \/ SpawnFails(t) \/ CallNullHandler(t) \/ RemoteEndpointThrows(t)
         \/ StackEnds(t) \/ RaceEnds(t)
  PROVE  Ends
<1>1. /\ alive /\ ~alive'
      /\ UNCHANGED <<torn, object, socket, data, armed, ready, at, call, peer, inflight>>
  BY DEF SpawnFails, CallNullHandler, RemoteEndpointThrows, StackEnds, RaceEnds, Terminate
<1>2. CASE SpawnFails(t)
  BY <1>1, <1>2, RefusalNeedsConnections DEF Ends
<1>3. CASE CallNullHandler(t)
  <2>1. at[t] = "handle_read" /\ data[call[t].sess] = "unroutable"
    BY <1>3 DEF CallNullHandler
  <2>2. call[t].sess \in Sessions /\ statusOf(call[t].sess) = "asked"
    BY <2>1, InHandler DEF StatusDue, Requests
  <2> QED BY <1>1, <2>1, <2>2 DEF Ends, Reason, Provokes
<1>4. CASE RemoteEndpointThrows(t) \/ StackEnds(t)
  <2>1. at[t] \in Responding /\ Provokes(call[t].sess)
    BY <1>4 DEF RemoteEndpointThrows, StackEnds, Responding, Provokes
  <2> QED BY <1>1, <2>1, RespondingIsAsked DEF Ends, Reason
<1>5. CASE RaceEnds(t)
  <2>1. at[t] \in Responding
    BY <1>5 DEF RaceEnds, Responding
  <2>2. CASE torn
    BY <1>1, <2>1, <2>2, RespondingIsAsked DEF Ends, Reason
  <2>3. CASE ~torn
    <3>1. PICK u \in Threads : at[u] = "count_request" /\ u # t
      BY <1>5, <2>3 DEF RaceEnds, Updating
    <3>2. at[u] \in Responding
      BY <3>1 DEF Responding
    <3>3. call[u].sess # call[t].sess
      <4>1. /\ call[t].sess \in Sessions /\ Uses(t, call[t].sess)
            /\ call[u].sess \in Sessions /\ Uses(u, call[u].sess)
        BY <2>1, <3>2, RespondingIsAsked
      <4> HIDE DEF Uses
      <4> QED BY <3>1, <4>1 DEF RInv, IInv, SingleActivity
    <3> QED BY <1>1, <2>1, <3>2, <3>3, RespondingIsAsked DEF Ends, Reason
  <2> QED BY <2>2, <2>3
<1> QED BY <1>2, <1>3, <1>4, <1>5

\* Two sessions' updates meet.
Tears ==
  /\ alive /\ UNCHANGED alive /\ torn' = TRUE
  /\ \E s, x \in Sessions : s # x /\ statusOf(s) = "asked" /\ statusOf(x) = "asked"
  /\ \A s \in Sessions : SessionOK(s)' /\ statusOf(s)' = statusOf(s)

LEMMA TearStep ==
  ASSUME RInv, IInv', NEW t \in Threads, HandleRequest(t), torn' # torn
  PROVE  Tears
<1>1. alive /\ UNCHANGED alive /\ torn' = TRUE /\ at[t] = "handle_request"
  BY DEF HandleRequest, RInv, IInv, TypeOK
<1>2. PICK u \in Threads : at[u] = "count_request"
  <2>1. torn' = (torn \/ Updating # {}) /\ torn \in BOOLEAN
    BY DEF HandleRequest, RInv, IInv, TypeOK
  <2>2. Updating # {}
    BY <2>1
  <2> QED BY <2>2 DEF Updating
<1>3. at[t] \in Responding /\ at[u] \in Responding /\ u # t
  BY <1>1, <1>2 DEF Responding
<1>4. call[u].sess # call[t].sess
  <2>1. /\ call[t].sess \in Sessions /\ Uses(t, call[t].sess)
        /\ call[u].sess \in Sessions /\ Uses(u, call[u].sess)
    BY <1>3, RespondingIsAsked
  <2> HIDE DEF Uses
  <2> QED BY <1>3, <2>1 DEF RInv, IInv, SingleActivity
<1>5. PICK s \in Sessions : s = call[t].sess
  BY <1>3, RespondingIsAsked
<1>6. Advances(s) /\ statusOf(s)' = statusOf(s)
  BY <1>5, InsideStep
<1>7. ASSUME NEW x \in Sessions PROVE SessionOK(x)' /\ statusOf(x)' = statusOf(x)
  BY <1>6, QuietKept DEF Advances, RInv
<1>8. /\ s \in Sessions /\ call[u].sess \in Sessions /\ s # call[u].sess
      /\ statusOf(s) = "asked" /\ statusOf(call[u].sess) = "asked"
  BY <1>3, <1>4, <1>5, RespondingIsAsked
<1> HIDE DEF statusOf, SessionOK
<1> QED BY <1>1, <1>7, <1>8 DEF Tears

-----------------------------------------------------------------------------
(* Every step is one of these.                                              *)

LEMMA EveryStep ==
  ASSUME RInv, IInv', [Next]_vars
  PROVE  \/ Ends
         \/ Tears
         \/ UNCHANGED <<alive, torn>> /\ \A x \in Sessions : Quiet(x)
         \/ alive /\ UNCHANGED <<alive, torn>> /\ \E s \in Sessions : Advances(s)
<1>1. ASSUME NEW t \in Threads,
             ThreadStep(t) \/ HandleRequest(t) \/ StackEnds(t) \/ RaceEnds(t)
      PROVE  \/ Ends
             \/ Tears
             \/ alive /\ UNCHANGED <<alive, torn>> /\ \E s \in Sessions : Advances(s)
  <2>1. CASE \/ SpawnFails(t) \/ CallNullHandler(t) \/ RemoteEndpointThrows(t)
             \/ StackEnds(t) \/ RaceEnds(t)
    BY <2>1, EndStep
  <2>2. CASE StartAccept(t)
    BY <2>2, StartAcceptStep DEF StartAccept
  <2>3. CASE HandleRequest(t) /\ torn' # torn
    BY <2>3, TearStep
  <2>4. CASE \/ SpawnThread(t) \/ HandleAcceptError(t) \/ HandleHandshake(t)
             \/ HandleReadError(t) \/ AppendData(t) \/ SendBadRequest(t)
             \/ CallHandler(t) \/ (HandleRequest(t) /\ torn' = torn) \/ CountRequest(t)
             \/ SendResponse(t) \/ HandleWrite(t)
    <3>1. alive /\ UNCHANGED <<alive, torn>> /\ at[t] \in SessionLabels
      BY <2>4 DEF SpawnThread, HandleAcceptError, HandleHandshake, HandleReadError,
                  AppendData, SendBadRequest, CallHandler, HandleRequest, CountRequest,
                  SendResponse, HandleWrite, SessionLabels
    <3>2. PICK s \in Sessions : s = call[t].sess
      BY <3>1 DEF RInv, IInv, CallOK, Completion
    <3>3. Advances(s)
      BY <2>4, <3>2, SpawnThreadStep, HandleAcceptErrorStep, HandlerReturnsStep,
         InsideStep, HandleWriteStep
    <3> QED BY <3>1, <3>3
  <2> QED BY <1>1, <2>1, <2>2, <2>3, <2>4 DEF ThreadStep
<1>2. ASSUME NEW t \in Threads, NEW s \in Sessions, RunHandler(t, s)
      PROVE  alive /\ UNCHANGED <<alive, torn>> /\ Advances(s)
  BY <1>2, RunHandlerStep DEF RunHandler
<1>3. ASSUME NEW s \in Sessions, StartSession(s)
      PROVE  alive /\ UNCHANGED <<alive, torn>> /\ Advances(s)
  BY <1>3, StartSessionStep DEF StartSession
<1>4. ASSUME NEW s \in Sessions, Client(s)
      PROVE  UNCHANGED <<alive, torn>> /\ \A x \in Sessions : Quiet(x)
  BY <1>4, ClientStep DEF Client, ClientSends, ClientFinishes, ClientResets
<1>5. ASSUME NEW a \in armed, Kernel(a)
      PROVE  alive /\ UNCHANGED <<alive, torn>> /\ \E s \in Sessions : Advances(s)
  <2>1. alive /\ UNCHANGED <<alive, torn>>
    BY <1>5 DEF Kernel, Connect, AcceptFails, ReadDone, ReadFails, HandshakeDone, WriteDone
  <2>2. PICK s \in Sessions : s = a.sess
    BY DEF RInv, IInv, TypeOK, Operation
  <2> QED BY <1>5, <2>1, <2>2, KernelStep
<1>6. CASE UNCHANGED vars
  <2>1. UNCHANGED <<alive, torn, object, socket, data, armed, ready, at, call, peer>>
    BY <1>6 DEF vars
  <2>2. \A u \in Threads, x \in Sessions : Uses(u, x)' <=> Uses(u, x)
    BY <2>1 DEF Uses
  <2> HIDE DEF Uses
  <2> QED BY <2>1, <2>2 DEF Quiet, Starting
<1> QED BY <1>1, <1>2, <1>3, <1>4, <1>5, <1>6 DEF Next

\* A thread is spawned for a session that has been connected to, and none of its
\* clients is ever forgotten.
LEMMA PeersKept ==
  ASSUME RInv, [Next]_vars
  PROVE  PeersOK'
<1> USE DEF RInv
<1>1. ASSUME \A x \in Sessions : at'[x] # "unborn" => at[x] # "unborn" \/ peer[x] # "absent",
             \A x \in Sessions : peer'[x] = "absent" => peer[x] = "absent"
      PROVE  PeersOK'
  BY <1>1 DEF PeersOK
<1>2. ASSUME NEW t \in Threads, at[t] # "unborn", UNCHANGED peer,
             \A u \in Threads \ {t} : at'[u] = at[u]
      PROVE  PeersOK'
  BY <1>1, <1>2 DEF Threads
<1>3. ASSUME NEW t \in Threads,
             ThreadStep(t) \/ HandleRequest(t) \/ StackEnds(t) \/ RaceEnds(t)
      PROVE  PeersOK'
  <2>1. CASE SpawnThread(t)
    <3>1. /\ call[t].sess \in Sessions /\ Uses(t, call[t].sess) /\ call[t].ok
          /\ at[t] = "handle_accept" /\ call[t].op = "accept"
      BY <2>1 DEF SpawnThread, IInv, CallOK, Completion, SessionLabels, Uses
    <3>2. peer[call[t].sess] # "absent"
      BY <3>1 DEF SessionOK, DueOK, Listening, Live, Responding
    <3> QED BY <1>1, <2>1, <3>1, <3>2 DEF SpawnThread, IInv, TypeOK, Threads
  <2>2. CASE ~SpawnThread(t)
    <3>1. /\ at[t] # "unborn" /\ UNCHANGED peer
          /\ \A u \in Threads \ {t} : at'[u] = at[u]
      BY <1>3, <2>2
         DEF ThreadStep, SpawnFails, HandleAcceptError, StartAccept, HandleHandshake,
             HandleReadError, AppendData, SendBadRequest, CallNullHandler, CallHandler,
             HandleRequest, StackEnds, RaceEnds, CountRequest, SendResponse,
             RemoteEndpointThrows, HandleWrite, Terminate, Return, GoTo, IInv, TypeOK
    <3> QED BY <1>2, <3>1
  <2> QED BY <2>1, <2>2
<1>4. ASSUME NEW t \in Threads, NEW s \in Sessions, RunHandler(t, s) PROVE PeersOK'
  <2>1. /\ at[t] # "unborn" /\ UNCHANGED peer
        /\ \A u \in Threads \ {t} : at'[u] = at[u]
    BY <1>4 DEF RunHandler, GoTo, IInv, TypeOK
  <2> QED BY <1>2, <2>1
<1>5. ASSUME NEW s \in Sessions, StartSession(s) PROVE PeersOK'
  <2>1. /\ s \in Threads /\ at[s] # "unborn" /\ UNCHANGED peer
        /\ \A u \in Threads \ {s} : at'[u] = at[u]
    BY <1>5 DEF StartSession, GoTo, IInv, TypeOK, Threads
  <2> QED BY <1>2, <2>1
<1>6. ASSUME NEW s \in Sessions, Client(s) PROVE PeersOK'
  <2>1. UNCHANGED at /\ \A x \in Sessions : peer'[x] = "absent" => peer[x] = "absent"
    BY <1>6 DEF Client, ClientSends, ClientFinishes, ClientResets, IInv, TypeOK
  <2> QED BY <1>1, <2>1
<1>7. ASSUME NEW a \in armed, Kernel(a) PROVE PeersOK'
  <2>1. UNCHANGED at /\ \A x \in Sessions : peer'[x] = "absent" => peer[x] = "absent"
    BY <1>7 DEF Kernel, Connect, AcceptFails, ReadDone, ReadFails, HandshakeDone,
                WriteDone, IInv, TypeOK
  <2> QED BY <1>1, <2>1
<1>8. CASE UNCHANGED vars
  BY <1>1, <1>8 DEF vars
<1> QED BY <1>3, <1>4, <1>5, <1>6, <1>7, <1>8 DEF Next

-----------------------------------------------------------------------------
LEMMA InitRefines == Init => RInv
<1> USE ServerAssumption
<1> SUFFICES ASSUME Init PROVE RInv
  OBVIOUS
<1>1. IInv
  BY InitInv
<1>2. /\ ready = {} /\ \A a \in armed : a.op = "accept"
      /\ \A s \in Sessions : Fresh(s)
      /\ \A t \in Threads : at[t] \notin SessionLabels /\ at[t] # "start_session"
                              /\ at[t] # "start_accept"
  BY DEF Init, Fresh, Requests, SessionLabels
<1>3. ASSUME NEW s \in Sessions PROVE SessionOK(s)
  BY <1>2 DEF SessionOK, Uses, Starting, Threads
<1>4. PeersOK
  BY DEF Init, PeersOK, Threads
<1> QED BY <1>1, <1>3, <1>4 DEF RInv

LEMMA NextRefines == RInv /\ [Next]_vars => RInv'
<1> SUFFICES ASSUME RInv, [Next]_vars PROVE RInv'
  OBVIOUS
<1>1. IInv'
  BY NextInv DEF RInv
<1>2. ASSUME NEW x \in Sessions PROVE SessionOK(x)'
  <2>1. CASE Quiet(x)
    BY <2>1, QuietKept DEF RInv
  <2>2. CASE Ends
    <3>1. \A t \in Threads : Uses(t, x)' <=> Uses(t, x)
      BY <2>2 DEF Ends, Uses
    <3>2. Quiet(x)
      <4> HIDE DEF Uses
      <4> QED BY <2>2, <3>1 DEF Ends, Quiet, Starting
    <3> QED BY <2>1, <3>2
  <2>3. CASE \E s \in Sessions : Advances(s)
    BY <2>1, <2>3 DEF Advances
  <2>4. CASE Tears
    BY <2>4 DEF Tears
  <2> QED BY <1>1, <2>1, <2>2, <2>3, <2>4, EveryStep
<1> QED BY <1>1, <1>2, PeersKept DEF RInv

LEMMA InitExchange == Init => Abstract!Init
<1> SUFFICES ASSUME Init PROVE Abstract!Init
  OBVIOUS
<1>1. alive = TRUE /\ torn = FALSE /\ \A s \in Sessions : statusOf(s) = "none"
  BY DEF Init, statusOf
<1> QED BY <1>1 DEF Abstract!Init

\* Each step of the server is a step of the exchange of one client, the end of
\* the process, or a step that no exchange shows.
LEMMA NextExchange == RInv /\ [Next]_vars => [Abstract!Next]_Abstract!exchangeVars
<1> SUFFICES ASSUME RInv, [Next]_vars PROVE [Abstract!Next]_Abstract!exchangeVars
  OBVIOUS
<1>1. IInv'
  BY NextInv DEF RInv
<1>2. \A x \in Sessions : Quiet(x) => statusOf(x)' = statusOf(x)
  BY QuietKept DEF RInv
<1>3. CASE UNCHANGED <<alive, torn>> /\ \A x \in Sessions : Quiet(x)
  BY <1>2, <1>3 DEF Abstract!exchangeVars
<1>4. CASE Ends
  <2>1. \A x \in Sessions, t \in Threads : Uses(t, x)' <=> Uses(t, x)
    BY <1>4 DEF Ends, Uses
  <2>2. \A x \in Sessions : Quiet(x)
    <3> HIDE DEF Uses
    <3> QED BY <1>4, <2>1 DEF Ends, Quiet, Starting
  <2>3. alive /\ alive' = FALSE /\ UNCHANGED torn
    BY <1>4, <1>1 DEF Ends, RInv, IInv, TypeOK
  <2>4. PICK s \in Sessions :
          \/ /\ statusOf(s) = "asked"
             /\ Provokes(s) \/ torn \/ (\E x \in Sessions \ {s} : statusOf(x) = "asked")
          \/ /\ statusOf(s) = "accepted"
             /\ Cardinality({x \in Sessions : statusOf(x) # "none"}) >= SureThreads
    BY <1>4 DEF Ends, Reason
  <2>5. {x \in Sessions : statusOf(x) # "none"} =
          {d \in Sessions : [x \in Sessions |-> statusOf(x)][d] # "none"}
    OBVIOUS
  <2>6. Abstract!Stop
    <3> DEFINE before == [x \in Sessions |-> statusOf(x)]
               provoked == {x \in Sessions : Provokes(x)}
    <3>1. UNCHANGED before
      BY <1>2, <2>2
    <3>2. \A x \in Sessions : before[x] = statusOf(x) /\ (x \in provoked <=> Provokes(x))
      OBVIOUS
    <3>3. s \in Sessions /\
          (\/ /\ before[s] = "asked"
              /\ s \in provoked \/ torn \/ (\E x \in Sessions \ {s} : before[x] = "asked")
           \/ /\ before[s] = "accepted"
              /\ Cardinality({d \in Sessions : before[d] # "none"}) >= SureThreads)
      BY <2>4, <2>5, <3>2
    <3>4. Abstract!Stop <=>
            /\ alive
            /\ \E c \in Sessions :
                 \/ /\ before[c] = "asked"
                    /\ c \in provoked \/ torn \/ (\E x \in Sessions \ {c} : before[x] = "asked")
                 \/ /\ before[c] = "accepted"
                    /\ Cardinality({d \in Sessions : before[d] # "none"}) >= SureThreads
            /\ alive' = FALSE
            /\ UNCHANGED torn /\ UNCHANGED before
      <4>1. \A S : Abstract!Cardinality(S) = Cardinality(S)
        BY Zenon DEF Abstract!Cardinality, Cardinality
      <4> QED BY <4>1, Zenon DEF Abstract!Stop, Abstract!Accompanied
    <3> HIDE DEF before, provoked
    <3> QED BY <2>3, <3>1, <3>3, <3>4
  <2> QED BY <2>6 DEF Abstract!Next
<1>6. CASE Tears
  <2> HIDE DEF statusOf
  <2>1. Abstract!Tear
    BY <1>6 DEF Tears, Abstract!Tear, Abstract!Accompanied
  <2> QED BY <2>1 DEF Abstract!Next
<1>5. ASSUME alive, UNCHANGED <<alive, torn>>, NEW s \in Sessions, Advances(s)
      PROVE  [Abstract!Next]_Abstract!exchangeVars
  <2> DEFINE before == [x \in Sessions |-> statusOf(x)]
             after == [x \in Sessions |-> statusOf(x)']
  <2>1. after = [before EXCEPT ![s] = statusOf(s)']
    BY <1>2, <1>5 DEF Advances
  <2>2. before[s] = statusOf(s)
    OBVIOUS
  <2>3. CASE statusOf(s)' = statusOf(s)
    BY <1>2, <1>5, <2>3 DEF Advances, Abstract!exchangeVars
  <2>4. CASE statusOf(s)' # statusOf(s)
    <3>1. \/ statusOf(s) = "none" /\ statusOf(s)' = "accepted"
          \/ statusOf(s) = "accepted" /\ statusOf(s)' = "listening"
          \/ statusOf(s) = "listening" /\ statusOf(s)' = "asked"
          \/ statusOf(s) \in {"listening", "answering"} /\ statusOf(s)' = "dropped"
          \/ statusOf(s) = "asked" /\ statusOf(s)' = "answering"
          \/ statusOf(s) = "answering" /\ statusOf(s)' = "closed"
      BY <1>5, <2>4 DEF Advances, Onward
    <3> QED BY <1>5, <2>1, <2>2, <3>1
            DEF Abstract!Next, Abstract!Move, Abstract!Accept, Abstract!Listen,
                Abstract!Ask, Abstract!Answer, Abstract!Close, Abstract!Drop
  <2> QED BY <2>3, <2>4
<1> QED BY <1>1, <1>3, <1>4, <1>5, <1>6, EveryStep

\* Whatever the clients, the network and the scheduler do, each connection is
\* accepted, listened to, asked at most once, answered once and closed; it is
\* dropped only while the server reads or writes.  The process ends only over a
\* request under way: one whose client has reset the connection, one without a
\* good handler, one that a proxy follows, one beside another, or any once two
\* have met; and over a new connection when all sure threads are taken.
THEOREM ExchangeIsKept == Spec => ImplementsExchange
<1>1. Spec => []RInv
  BY InitRefines, NextRefines, PTL DEF Spec
<1> QED BY <1>1, InitExchange, NextExchange, PTL DEF Spec, ImplementsExchange, Abstract!Spec
=============================================================================
