---------------------------- MODULE StratumProofs ----------------------------
(***************************************************************************)
(* Theorems about the session task, for every set of jobs and events and   *)
(* every capacity: type correctness, the safety invariants and the action  *)
(* property that Stratum_safety.cfg checks on a small instance, and that   *)
(* the task implements PoolSession.                                        *)
(***************************************************************************)
EXTENDS Stratum, TLAPS

(***************************************************************************)
(* The channels.                                                           *)
(***************************************************************************)

(* A broadcast keeps the channel within its capacity and the new event is  *)
(* the last one in it.                                                     *)
LEMMA BroadcastSendType ==
  ASSUME NEW S, NEW q \in Seq(S), NEW cap \in Nat \ {0}, NEW e \in S, Len(q) <= cap
  PROVE  /\ BroadcastSend(q, cap, e) \in Seq(S)
         /\ Len(BroadcastSend(q, cap, e)) <= cap
<1>1. CASE IsFull(q, cap)
  <2>1. q # <<>> BY <1>1 DEF IsFull
  <2>2. Tail(q) \in Seq(S) /\ Len(Tail(q)) = Len(q) - 1 BY <2>1
  <2> QED BY <1>1, <2>2 DEF BroadcastSend
<1>2. CASE ~IsFull(q, cap)
  BY <1>2 DEF BroadcastSend, IsFull
<1> QED BY <1>1, <1>2

(* try_send never exceeds the capacity. *)
LEMMA TrySendType ==
  ASSUME NEW S, NEW q \in Seq(S), NEW cap \in Nat \ {0}, NEW s \in S, Len(q) <= cap
  PROVE  /\ TrySend(q, cap, s) \in Seq(S)
         /\ Len(TrySend(q, cap, s)) <= cap
BY DEF TrySend, IsFull

LEMMA TailType ==
  ASSUME NEW S, NEW q \in Seq(S), q # <<>>
  PROVE  /\ Tail(q) \in Seq(S)
         /\ Len(Tail(q)) = Len(q) - 1
         /\ Head(q) \in S
         /\ Head(q) = q[1]
         /\ \A i \in 1..Len(Tail(q)) : Tail(q)[i] = q[i + 1]
OBVIOUS

LEMMA HandshakeMethods ==
  /\ Len(Handshake) \in {1, 2}
  /\ \A i \in 1..Len(Handshake) : Handshake[i] \in Methods
BY DEF Handshake, Methods

(***************************************************************************)
(* Type correctness.  The step of the handshake must stay inside it, or    *)
(* there would be no request to send; it is the id of that request, which  *)
(* the refinement below needs.                                             *)
(***************************************************************************)
HandshakeStep == pc = "handshake" => step <= Len(Handshake) /\ next_id = step

TypeInv == TypeOK /\ HandshakeStep

(* What a session leaves behind is well typed. *)
LEMMA HangUpType ==
  ASSUME TypeInv, HangUp, UNCHANGED chanVars,
         phase' \in Phases, expired' \in BOOLEAN, backoff' \in 1..MaxBackoff,
         pc' \in {"connecting", "sleeping", "ended", "panicked"}
  PROVE  TypeInv'
BY DEF TypeInv, TypeOK, HandshakeStep, HangUp, sessVars, chanVars, Lines, Requests

LEMMA SendRequestType ==
  ASSUME TypeInv, NEW m \in Methods, NEW round \in Phases, NEW job \in JobIds \cup {NoJob},
         SendRequest(m, round, job)
  PROVE  /\ next_id' \in 1..MaxId + 1
         /\ pending' \in [Ids -> Methods \cup {NoMethod}]
         /\ link' = link /\ wire' = wire /\ poolJob' = poolJob
         /\ unanswered' \subseteq Requests
<1>1. next_id \in Ids /\ next_id' = next_id + 1 BY DEF SendRequest
<1>2. Request(m, round, job) \in Requests
  BY <1>1 DEF Request, Requests, TypeInv, TypeOK
<1>3. unanswered' \subseteq Requests
  BY <1>2 DEF SendRequest, Deliver, TypeInv, TypeOK
<1>4. pending' \in [Ids -> Methods \cup {NoMethod}]
  BY DEF SendRequest, TypeInv, TypeOK
<1>5. next_id' \in 1..MaxId + 1
  BY <1>1, ConstantsAssumption DEF Ids
<1> QED BY <1>3, <1>4, <1>5 DEF SendRequest, Deliver

(* Every step of the session task and of its environment keeps the types.  *)
LEMMA TypeInvNext == TypeInv /\ [Next]_vars => TypeInv'
<1> SUFFICES ASSUME TypeInv, [Next]_vars PROVE TypeInv'
  OBVIOUS
<1> USE ConstantsAssumption
<1>1. CASE Wake
  BY <1>1 DEF Wake, TypeInv, TypeOK, HandshakeStep, sessVars, chanVars, netVars
<1>2. CASE Expire
  BY <1>2 DEF Expire, TypeInv, TypeOK, HandshakeStep, sessVars, chanVars, netVars
<1>3. ASSUME StartSession, link' = "up" \/ UNCHANGED link, UNCHANGED <<wire, unanswered, poolJob>>
      PROVE  TypeInv'
  <2>1. step' \in 1..Len(Handshake) + 1 /\ next_id' \in 1..MaxId + 1 /\ step' <= Len(Handshake)
    BY <1>3, HandshakeMethods DEF StartSession
  <2>2. pending' \in [Ids -> Methods \cup {NoMethod}]
    BY <1>3 DEF StartSession
  <2>3. /\ submit_rx' \in Seq(Shares) /\ Len(submit_rx') <= SubmitCap
        /\ queued_in' \in Seq(Phases) /\ Len(queued_in') = Len(submit_rx')
    BY <1>3 DEF StartSession
  <2> QED
    BY <1>3, <2>1, <2>2, <2>3 DEF StartSession, TypeInv, TypeOK, HandshakeStep, runVars
<1>4. CASE ConnectTcp
  BY <1>4, <1>3 DEF ConnectTcp
<1>5. CASE ConnectWss
  BY <1>5 DEF ConnectWss, TypeInv, TypeOK, HandshakeStep, runVars, sessVars, chanVars
<1>6. CASE Upgraded
  BY <1>6, <1>3 DEF Upgraded, netVars
<1>7. ASSUME EndWithError, UNCHANGED chanVars PROVE TypeInv'
  BY <1>7, HangUpType DEF EndWithError, runVars, TypeInv, TypeOK
<1>8. CASE ConnectFails \/ HandshakeFails \/ ReadFails \/ BlockedWriteFails
  BY <1>8, <1>7 DEF ConnectFails, HandshakeFails, ReadFails, BlockedWriteFails
<1>9. CASE ReadEof
  BY <1>9, HangUpType DEF ReadEof, EndDisconnected, TypeInv, TypeOK
<1>10. CASE RotateRound
  <2>1. HangUp /\ UNCHANGED chanVars /\ pc' = "connecting"
    BY <1>10 DEF RotateRound, EndRotate
  <2>2. phase' \in Phases
    BY <1>10 DEF RotateRound, EndRotate, Phases
  <2>3. backoff' \in 1..MaxBackoff
    BY <1>10 DEF RotateRound, EndRotate
  <2>4. expired' \in BOOLEAN
    BY <1>10 DEF RotateRound, EndRotate
  <2> QED BY <2>1, <2>2, <2>3, <2>4, HangUpType
<1>11. CASE Shutdown \/ NotificationPanics
  BY <1>11, HangUpType DEF Shutdown, NotificationPanics, runVars, TypeInv, TypeOK
<1>12. CASE SendHandshake
  <2>1. step \in 1..Len(Handshake) /\ Handshake[step] \in Methods
    BY <1>12, HandshakeMethods DEF SendHandshake, TypeInv, TypeOK, HandshakeStep
  <2>2. SendRequest(Handshake[step], phase, NoJob) /\ phase \in Phases
    BY <1>12 DEF SendHandshake, TypeInv, TypeOK
  <2>3. step' \in 1..Len(Handshake) + 1 /\ (pc' = "handshake" => step' <= Len(Handshake))
    BY <1>12, <2>1, HandshakeMethods DEF SendHandshake
  <2>5. next_id' = step'
    BY <1>12, <2>2 DEF SendHandshake, SendRequest, TypeInv, HandshakeStep
  <2>4. pc' \in {"handshake", "live"} BY <1>12 DEF SendHandshake
  <2> QED
    BY <1>12, <2>1, <2>2, <2>3, <2>4, <2>5, SendRequestType
       DEF SendHandshake, TypeInv, TypeOK, HandshakeStep, runVars, chanVars
<1>13. CASE ReadLine
  <2>1. /\ wire' \in Seq(Lines) /\ Head(wire) \in Lines
    BY <1>13, TailType DEF ReadLine, TypeInv, TypeOK
  <2>2. ASSUME Head(wire).kind = "event", HandleNotification(Head(wire).ev)
        PROVE  /\ job_tx' \in Seq(Events) /\ Len(job_tx') <= JobCap /\ lagged' \in BOOLEAN
               /\ current_job_id' \in JobIds \cup {NoJob}
               /\ pending' \in [Ids -> Methods \cup {NoMethod}]
    <3>1. Head(wire).ev \in Events
      BY <2>1, <2>2 DEF Lines, EventLine, ResponseLine, IgnoredLine, GarbageLine, PanicLine
    <3>2. job_tx' \in Seq(Events) /\ Len(job_tx') <= JobCap
      BY <2>2, <3>1, BroadcastSendType DEF HandleNotification, TypeInv, TypeOK
    <3>3. lagged' \in BOOLEAN
      BY <2>2 DEF HandleNotification, IsFull, TypeInv, TypeOK
    <3> QED
      BY <2>2, <3>1, <3>2, <3>3 DEF HandleNotification, TypeInv, TypeOK
  <2>3. ASSUME HandleResponse(Head(wire).req)
        PROVE  /\ UNCHANGED <<job_tx, lagged, current_job_id>>
               /\ pending' \in [Ids -> Methods \cup {NoMethod}]
    BY <2>3 DEF HandleResponse, TypeInv, TypeOK
  <2> QED
    BY <1>13, <2>1, <2>2, <2>3 DEF ReadLine, TypeInv, TypeOK, HandshakeStep, runVars
<1>14. ASSUME TakeShare
       PROVE  /\ submit_rx' \in Seq(Shares) /\ Len(submit_rx') <= SubmitCap
              /\ Head(submit_rx) \in Shares /\ Head(submit_rx).job_id \in JobIds
              /\ queued_in' \in Seq(Phases) /\ Len(queued_in') = Len(submit_rx')
              /\ Head(queued_in) \in Phases
  <2>1. submit_rx \in Seq(Shares) /\ submit_rx # <<>> /\ submit_rx' = Tail(submit_rx)
    BY <1>14 DEF TakeShare, TypeInv, TypeOK
  <2>2. queued_in \in Seq(Phases) /\ queued_in # <<>> /\ queued_in' = Tail(queued_in)
    <3>1. queued_in \in Seq(Phases) /\ Len(queued_in) = Len(submit_rx) /\ queued_in' = Tail(queued_in)
      BY <1>14 DEF TakeShare, TypeInv, TypeOK
    <3>2. Len(submit_rx) # 0 BY <2>1
    <3> QED BY <3>1, <3>2
  <2>3. /\ submit_rx' \in Seq(Shares) /\ Len(submit_rx') = Len(submit_rx) - 1 /\ Head(submit_rx) \in Shares
    BY <2>1, TailType
  <2>4. /\ queued_in' \in Seq(Phases) /\ Len(queued_in') = Len(queued_in) - 1 /\ Head(queued_in) \in Phases
    BY <2>2, TailType
  <2> QED BY <2>1, <2>3, <2>4 DEF TypeInv, TypeOK
<1>15. CASE DropStale
  BY <1>15, <1>14 DEF DropStale, TakeShare, TypeInv, TypeOK, HandshakeStep, runVars, sessVars, netVars
<1>16. CASE SubmitShare
  <2>1. /\ Head(submit_rx).job_id \in JobIds \cup {NoJob} /\ Head(queued_in) \in Phases
        /\ SendRequest("mining.submit", Head(queued_in), Head(submit_rx).job_id)
    BY <1>16, <1>14 DEF SubmitShare
  <2>2. "mining.submit" \in Methods BY DEF Methods
  <2> QED
    BY <1>16, <1>14, <2>1, <2>2, SendRequestType
       DEF SubmitShare, TakeShare, TypeInv, TypeOK, HandshakeStep, runVars
<1>17. CASE SubmitFails
  BY <1>17, <1>14 DEF SubmitFails, TakeShare, EndWithError, HangUp, TypeInv, TypeOK, HandshakeStep,
                      runVars, sessVars, Lines, Requests
<1>27. CASE SubmitBlocks
  BY <1>27, <1>14 DEF SubmitBlocks, TakeShare, TypeInv, TypeOK, HandshakeStep, runVars, sessVars, netVars
<1>18. ASSUME NEW e \in Events, PoolNotifies(e) PROVE TypeInv'
  <2>1. EventLine(e) \in Lines BY DEF Lines
  <2>2. wire' \in Seq(Lines) BY <1>18, <2>1 DEF PoolNotifies, PoolSends, TypeInv, TypeOK
  <2>3. poolJob' \in JobIds \cup {NoJob} BY <1>18 DEF PoolNotifies, TypeInv, TypeOK
  <2> QED
    BY <1>18, <2>2, <2>3 DEF PoolNotifies, TypeInv, TypeOK, HandshakeStep, envKeeps, runVars, sessVars, chanVars
<1>19. ASSUME NEW r \in unanswered, PoolAnswers(r) PROVE TypeInv'
  <2>1. ResponseLine(r) \in Lines BY DEF Lines, TypeInv, TypeOK
  <2>2. wire' \in Seq(Lines) BY <1>19, <2>1 DEF PoolAnswers, PoolSends, TypeInv, TypeOK
  <2> QED
    BY <1>19, <2>2 DEF PoolAnswers, TypeInv, TypeOK, HandshakeStep, envKeeps, runVars, sessVars, chanVars
<1>20. CASE PoolMisspeaks
  <2>1. wire' \in Seq(Lines)
    <3>1. PICK line \in {IgnoredLine, GarbageLine, PanicLine} : PoolSends(line) BY <1>20 DEF PoolMisspeaks
    <3>2. line \in Lines BY DEF Lines
    <3> QED BY <3>1, <3>2 DEF PoolSends, TypeInv, TypeOK
  <2> QED
    BY <1>20, <2>1 DEF PoolMisspeaks, TypeInv, TypeOK, HandshakeStep, envKeeps, runVars, sessVars, chanVars
<1>21. CASE LinkBreaks
  <2>1. wire' \in Seq(Lines)
    <3>1. wire' = wire \/ wire' = <<>> BY <1>21 DEF LinkBreaks
    <3>2. wire \in Seq(Lines) BY DEF TypeInv, TypeOK
    <3>3. CASE wire' = wire BY <3>2, <3>3 DEF Lines, Requests
    <3>4. CASE wire' = <<>> BY <3>4
    <3> QED BY <3>1, <3>3, <3>4
  <2>2. link' \in {"none", "up", "fin", "reset", "silent"} BY <1>21 DEF LinkBreaks
  <2> QED
    BY <1>21, <2>1, <2>2 DEF LinkBreaks, TypeInv, TypeOK, HandshakeStep, envKeeps, runVars, sessVars, chanVars
<1>22. CASE MinerReceives
  <2>1. job_tx' \in Seq(Events) /\ Len(job_tx') <= JobCap /\ Head(job_tx) \in Events
    BY <1>22, TailType DEF MinerReceives, TypeInv, TypeOK
  <2>2. known' \subseteq JobIds BY <1>22, <2>1 DEF MinerReceives, TypeInv, TypeOK
  <2> QED
    BY <1>22, <2>1, <2>2 DEF MinerReceives, TypeInv, TypeOK, HandshakeStep, envKeeps, runVars, sessVars, netVars
<1>23. ASSUME NEW share \in Shares, MinerFinds(share) PROVE TypeInv'
  <2>1. submit_rx' \in Seq(Shares) /\ Len(submit_rx') <= SubmitCap
    BY <1>23, TrySendType DEF MinerFinds, TypeInv, TypeOK
  <2>2. queued_in' \in Seq(Phases) /\ Len(queued_in') = Len(submit_rx')
    <3>1. /\ queued_in \in Seq(Phases) /\ phase \in Phases /\ Len(queued_in) = Len(submit_rx)
          /\ submit_rx \in Seq(Shares)
      BY DEF TypeInv, TypeOK
    <3>2. /\ Len(Append(queued_in, phase)) = Len(queued_in) + 1 /\ Append(queued_in, phase) \in Seq(Phases)
          /\ Len(Append(submit_rx, share)) = Len(submit_rx) + 1
      BY <3>1
    <3> QED BY <1>23, <3>1, <3>2 DEF MinerFinds, TrySend, IsFull
  <2> QED
    BY <1>23, <2>1, <2>2 DEF MinerFinds, TypeInv, TypeOK, HandshakeStep, envKeeps, runVars, sessVars, netVars
<1>24. CASE SendersDropped
  BY <1>24 DEF SendersDropped, TypeInv, TypeOK, HandshakeStep, envKeeps, runVars, sessVars, netVars
<1>26. CASE MinerNotesLag
  BY <1>26 DEF MinerNotesLag, TypeInv, TypeOK, HandshakeStep, envKeeps, runVars, sessVars, netVars
<1>25. CASE UNCHANGED vars
  BY <1>25 DEF vars, TypeInv, TypeOK, HandshakeStep, runVars, sessVars, chanVars, netVars
<1> QED
  BY <1>1, <1>2, <1>4, <1>5, <1>6, <1>8, <1>9, <1>10, <1>11, <1>12, <1>13, <1>15, <1>16, <1>17,
     <1>18, <1>19, <1>20, <1>21, <1>22, <1>23, <1>24, <1>25, <1>26, <1>27
     DEF Next, Session, Environment, Returned

LEMMA TypeInvInit == Init => TypeInv
<1> SUFFICES ASSUME Init PROVE TypeInv
  OBVIOUS
<1>1. /\ job_tx \in Seq(Events) /\ submit_rx \in Seq(Shares) /\ wire \in Seq(Lines)
      /\ Len(job_tx) = 0 /\ Len(submit_rx) = 0
      /\ queued_in \in Seq(Phases) /\ Len(queued_in) = 0
  BY DEF Init
<1>2. step \in 1..Len(Handshake) + 1 /\ next_id \in 1..MaxId + 1 /\ backoff \in 1..MaxBackoff
  BY ConstantsAssumption, HandshakeMethods DEF Init
<1>3. pending \in [Ids -> Methods \cup {NoMethod}]
  BY DEF Init
<1>4. Len(job_tx) <= JobCap /\ Len(submit_rx) <= SubmitCap
  BY <1>1, ConstantsAssumption
<1>5. expired \in BOOLEAN /\ lagged \in BOOLEAN /\ senders \in BOOLEAN
  BY DEF Init
<1>6. unanswered \subseteq Requests /\ known \subseteq JobIds
  BY DEF Init
<1> QED
  BY <1>1, <1>2, <1>3, <1>4, <1>5, <1>6 DEF Init, TypeInv, TypeOK, HandshakeStep, Phases

(* The session task's state stays well typed, its queues within their      *)
(* capacities and the delay within its cap.                                *)
THEOREM StratumTypeCorrect == Spec => []TypeOK
<1>1. TypeInv => TypeOK BY DEF TypeInv
<1> QED BY TypeInvInit, TypeInvNext, <1>1, PTL DEF Spec

(***************************************************************************)
(* Correlation of requests and responses, one wallet per connection, and   *)
(* the job the stale check compares with.  None of the three is inductive: *)
(* they need that a request is never answered twice, that a session begins *)
(* with nothing under way, which job the announcements under way will      *)
(* leave in current_job_id once they are read, and in which round the      *)
(* shares were queued that are still to be sent.                           *)
(***************************************************************************)
InFlightOK ==
  /\ \A r \in InFlight : /\ pending[r.id] = r.method
                         /\ r.id < next_id
                         /\ r.login = phase /\ r.round = phase
  /\ \A r, s \in InFlight : r.id = s.id => r = s

AnsweredOnce ==
  /\ \A i \in 1..Len(wire) : Answers(wire[i]) => wire[i].req \notin unanswered
  /\ \A i, j \in 1..Len(wire) :
       Answers(wire[i]) /\ Answers(wire[j]) /\ wire[i].req = wire[j].req => i = j

NothingLeftOver ==
  ~Connected => wire = <<>> /\ unanswered = {} /\ poolJob = NoJob

LastAnnouncement ==
  (Connected /\ link # "reset") =>
     /\ ~JobUnderWay => current_job_id = poolJob
     /\ \A i \in 1..Len(wire) :
          Announces(wire[i]) /\ (\A j \in i + 1..Len(wire) : ~Announces(wire[j]))
            => wire[i].ev.job_id = poolJob

QueuedThisRound == Connected => \A i \in 1..Len(queued_in) : queued_in[i] = phase

SessionInv == InFlightOK /\ AnsweredOnce /\ NothingLeftOver /\ LastAnnouncement /\ QueuedThisRound

(* Nothing under way: all that is said of the wire and the pool is void.   *)
LEMMA NetEmptied ==
  ASSUME wire' = <<>>, unanswered' = {}
  PROVE  InFlight' = {} /\ InFlightOK' /\ AnsweredOnce' /\ ~JobUnderWay'
<1>1. Len(wire') = 0 BY SMT
<1>2. 1..Len(wire') = {} BY <1>1
<1>3. InFlight' = {} BY <1>2 DEF InFlight
<1>4. InFlightOK' BY <1>3 DEF InFlightOK
<1>5. AnsweredOnce' BY <1>2 DEF AnsweredOnce
<1>6. ~JobUnderWay' BY <1>2 DEF JobUnderWay
<1> QED BY <1>3, <1>4, <1>5, <1>6

LEMMA HangUpSession ==
  ASSUME HangUp, pc' \in {"connecting", "sleeping", "ended", "panicked"}
  PROVE  SessionInv'
BY NetEmptied DEF HangUp, SessionInv, NothingLeftOver, LastAnnouncement, QueuedThisRound, Connected

(* Steps that leave the session and the network alone. *)
LEMMA OtherSteps ==
  ASSUME SessionInv, UNCHANGED <<sessVars, netVars, phase>>, Connected' <=> Connected, QueuedThisRound'
  PROVE  SessionInv'
<1>1. UNCHANGED <<wire, unanswered, link, poolJob, pending, next_id, current_job_id, phase>>
  BY DEF sessVars, netVars
<1>2. InFlight' = InFlight /\ JobUnderWay' = JobUnderWay
  BY <1>1 DEF InFlight, JobUnderWay
<1>3. InFlightOK' BY <1>1, <1>2 DEF InFlightOK, SessionInv
<1>4. AnsweredOnce' BY <1>1 DEF AnsweredOnce, SessionInv
<1>5. NothingLeftOver' BY <1>1 DEF NothingLeftOver, SessionInv
<1>6. LastAnnouncement' BY <1>1, <1>2 DEF LastAnnouncement, SessionInv
<1> QED BY <1>3, <1>4, <1>5, <1>6 DEF SessionInv

(* A session starts with nothing under way and no job. *)
LEMMA StartSessionKeeps ==
  ASSUME SessionInv, ~Connected, StartSession, UNCHANGED <<wire, unanswered, poolJob>>
  PROVE  SessionInv'
<1>1. wire' = <<>> /\ unanswered' = {} /\ poolJob' = NoJob
  BY DEF SessionInv, NothingLeftOver
<1>2. NothingLeftOver' BY <1>1 DEF StartSession, NothingLeftOver, Connected
<1>3. current_job_id' = poolJob' BY <1>1 DEF StartSession
<1>4. Len(wire') = 0 BY <1>1
<1>5. LastAnnouncement' BY <1>3, <1>4 DEF LastAnnouncement
<1>6. QueuedThisRound'
  <2>1. queued_in' = <<>> BY DEF StartSession
  <2>2. Len(queued_in') = 0 BY <2>1
  <2> QED BY <2>2 DEF QueuedThisRound
<1> QED BY <1>1, <1>2, <1>5, <1>6, NetEmptied DEF SessionInv

LEMMA InFlightRequests ==
  ASSUME TypeInv
  PROVE  \A r \in InFlight : r \in Requests
<1>1. \A i \in 1..Len(wire) : Answers(wire[i]) => wire[i].req \in Requests
  <2>1. \A i \in 1..Len(wire) : wire[i] \in Lines BY DEF TypeInv, TypeOK
  <2> QED BY <2>1 DEF Answers, Lines, EventLine, ResponseLine, IgnoredLine, GarbageLine, PanicLine
<1> QED BY <1>1 DEF InFlight, TypeInv, TypeOK

(* A new request has an id of its own. *)
LEMMA SendRequestKeeps ==
  ASSUME TypeInv, SessionInv, NEW m \in Methods, NEW job \in JobIds \cup {NoJob},
         SendRequest(m, phase, job), UNCHANGED <<phase, current_job_id>>, Connected, Connected',
         QueuedThisRound'
  PROVE  SessionInv'
<1> DEFINE req == [id |-> next_id, method |-> m, login |-> phase, round |-> phase, job |-> job]
<1>1. /\ next_id \in Ids /\ next_id' = next_id + 1
      /\ pending' = [pending EXCEPT ![next_id] = m]
      /\ UNCHANGED <<link, wire, poolJob>>
      /\ unanswered' = unanswered \/ unanswered' = unanswered \cup {req}
  BY DEF SendRequest, Request, Deliver
<1>2. InFlight' \subseteq InFlight \cup {req}
  BY <1>1 DEF InFlight
<1>3. \A r \in InFlight : r \in Requests
  BY InFlightRequests
<1>4. \A r \in InFlight : r.id < next_id /\ r.id \in Nat /\ r.id \in Ids
  BY <1>3 DEF SessionInv, InFlightOK, Requests, Ids
<1>5. InFlightOK'
  <2>1. \A r \in InFlight : pending'[r.id] = r.method /\ r.id < next_id' /\ r.login = phase' /\ r.round = phase'
    BY <1>1, <1>4 DEF SessionInv, InFlightOK, TypeInv, TypeOK, Ids
  <2>2. pending'[req.id] = req.method /\ req.id < next_id' /\ req.login = phase' /\ req.round = phase'
    BY <1>1 DEF TypeInv, TypeOK, Ids
  <2>3. \A r, s \in InFlight \cup {req} : r.id = s.id => r = s
    BY <1>1, <1>4 DEF SessionInv, InFlightOK, Ids
  <2> QED BY <1>2, <2>1, <2>2, <2>3 DEF InFlightOK
<1>6. AnsweredOnce'
  <2>1. \A i \in 1..Len(wire) : Answers(wire[i]) => wire[i].req # req
    <3>1. \A i \in 1..Len(wire) : Answers(wire[i]) => wire[i].req \in InFlight
      BY DEF InFlight
    <3> QED BY <3>1, <1>4, <1>1 DEF Ids
  <2> QED BY <1>1, <2>1 DEF AnsweredOnce, SessionInv
<1>7. NothingLeftOver' BY DEF NothingLeftOver
<1>8. LastAnnouncement' BY <1>1 DEF LastAnnouncement, SessionInv, JobUnderWay
<1> QED BY <1>5, <1>6, <1>7, <1>8 DEF SessionInv

(* Reading the first line under way. *)
LEMMA ReadLineKeeps ==
  ASSUME TypeInv, SessionInv, ReadLine
  PROVE  SessionInv'
<1> DEFINE line == Head(wire)
<1>1. /\ wire # <<>> /\ wire' = Tail(wire) /\ pc = "live" /\ pc' = "live"
      /\ UNCHANGED <<phase, next_id, link, unanswered, poolJob, queued_in>>
  BY DEF ReadLine, runVars
<1>2. /\ Len(wire) \in Nat /\ Len(wire') = Len(wire) - 1 /\ Len(wire) >= 1
      /\ line = wire[1] /\ line \in Lines
      /\ \A i \in 1..Len(wire') : wire'[i] = wire[i + 1]
  <2>1. wire \in Seq(Lines) BY DEF TypeInv, TypeOK
  <2> QED BY <2>1, <1>1, TailType
<1>3. \A r \in InFlight' : \/ r \in unanswered
                           \/ \E i \in 2..Len(wire) : Answers(wire[i]) /\ wire[i].req = r
  <2>1. \A i \in 1..Len(wire') : i + 1 \in 2..Len(wire) BY <1>2
  <2> QED BY <1>1, <1>2, <2>1 DEF InFlight, Answers
<1>4. InFlight' \subseteq InFlight
  BY <1>3 DEF InFlight
<1>5. line.kind = "response" => line.req \in InFlight /\ line.req \notin InFlight'
  <2> SUFFICES ASSUME line.kind = "response"
               PROVE  line.req \in InFlight /\ line.req \notin InFlight'
    OBVIOUS
  <2>1. Answers(wire[1]) /\ 1 \in 1..Len(wire) BY <1>2 DEF Answers
  <2>2. line.req \notin unanswered BY <2>1, <1>2 DEF SessionInv, AnsweredOnce
  <2>3. \A i \in 2..Len(wire) : Answers(wire[i]) => wire[i].req # line.req
    BY <2>1, <1>2 DEF SessionInv, AnsweredOnce
  <2>4. line.req \in InFlight BY <2>1, <1>2 DEF InFlight
  <2>5. line.req \notin InFlight' BY <2>2, <2>3, <1>3
  <2> QED BY <2>4, <2>5
<1>6. /\ pending' = pending \/ (line.kind = "response" /\ pending' = [pending EXCEPT ![line.req.id] = NoMethod])
      /\ current_job_id' = IF Announces(line) THEN line.ev.job_id ELSE current_job_id
  BY DEF ReadLine, HandleNotification, HandleResponse, Announces
<1>7. InFlightOK'
  <2>1. \A r \in InFlight' : pending'[r.id] = pending[r.id]
    <3> SUFFICES ASSUME NEW r \in InFlight' PROVE pending'[r.id] = pending[r.id]
      OBVIOUS
    <3>1. r \in InFlight /\ r.id \in Ids BY <1>4, InFlightRequests DEF Requests
    <3>2. CASE pending' = pending BY <3>2
    <3>3. CASE /\ line.kind = "response"
               /\ pending' = [pending EXCEPT ![line.req.id] = NoMethod]
      <4>1. r # line.req /\ line.req \in InFlight BY <3>3, <1>5
      <4>2. r.id # line.req.id BY <4>1, <3>1 DEF SessionInv, InFlightOK
      <4> QED BY <4>2, <3>1, <3>3 DEF TypeInv, TypeOK
    <3> QED BY <3>2, <3>3, <1>6
  <2> QED BY <2>1, <1>1, <1>4 DEF SessionInv, InFlightOK
<1>8. AnsweredOnce'
  <2>1. \A i \in 1..Len(wire') : i + 1 \in 1..Len(wire) /\ wire'[i] = wire[i + 1] BY <1>2
  <2>2. \A i \in 1..Len(wire') : Answers(wire'[i]) => wire'[i].req \notin unanswered'
    BY <2>1, <1>1 DEF SessionInv, AnsweredOnce
  <2>3. \A i, j \in 1..Len(wire') :
          Answers(wire'[i]) /\ Answers(wire'[j]) /\ wire'[i].req = wire'[j].req => i = j
    <3> SUFFICES ASSUME NEW i \in 1..Len(wire'), NEW j \in 1..Len(wire'),
                        Answers(wire'[i]), Answers(wire'[j]), wire'[i].req = wire'[j].req
                 PROVE  i = j
      OBVIOUS
    <3>1. i + 1 = j + 1 BY <2>1 DEF SessionInv, AnsweredOnce
    <3> QED BY <3>1, <1>2
  <2>4. \A i \in 1..Len(wire') : Answers(wire[i])' <=> Answers(wire'[i]) BY DEF Answers
  <2> QED BY <2>2, <2>3 DEF AnsweredOnce, Answers
<1>9. NothingLeftOver' BY <1>1 DEF NothingLeftOver, Connected
<1>10. LastAnnouncement'
  <2> SUFFICES ASSUME link # "reset" PROVE LastAnnouncement'
    BY <1>1 DEF LastAnnouncement
  <2>0. Connected BY <1>1 DEF Connected
  <2>1. \A i \in 1..Len(wire') : i + 1 \in 2..Len(wire) /\ wire'[i] = wire[i + 1] BY <1>2
  <2>2. \A i \in 2..Len(wire) : i - 1 \in 1..Len(wire') /\ wire'[i - 1] = wire[i] BY <1>2
  <2>3. ASSUME NEW i \in 1..Len(wire'), Announces(wire'[i]),
               \A j \in i + 1..Len(wire') : ~Announces(wire'[j])
        PROVE  wire'[i].ev.job_id = poolJob'
    <3>1. \A j \in i + 2..Len(wire) : ~Announces(wire[j])
      <4> SUFFICES ASSUME NEW j \in i + 2..Len(wire) PROVE ~Announces(wire[j])
        OBVIOUS
      <4>1. j - 1 \in i + 1..Len(wire') /\ wire'[j - 1] = wire[j] BY <1>2, <2>2
      <4> QED BY <4>1, <2>3
    <3>2. i + 1 \in 1..Len(wire) /\ wire'[i] = wire[i + 1] BY <2>1, <1>2
    <3>3. (i + 1) + 1 = i + 2 BY <1>2
    <3> QED BY <3>1, <3>2, <3>3, <2>3, <2>0, <1>1 DEF SessionInv, LastAnnouncement
  <2>4. ASSUME \A i \in 1..Len(wire') : ~Announces(wire'[i])
        PROVE  current_job_id' = poolJob'
    <3>1. \A i \in 2..Len(wire) : ~Announces(wire[i]) BY <2>2, <2>4
    <3>2. CASE Announces(line)
      BY <3>1, <3>2, <1>1, <1>2, <1>6, <2>0 DEF SessionInv, LastAnnouncement
    <3>3. CASE ~Announces(line)
      <4>1. ~JobUnderWay BY <3>1, <3>3, <1>2 DEF JobUnderWay
      <4> QED BY <4>1, <3>3, <1>1, <1>6, <2>0 DEF SessionInv, LastAnnouncement
    <3> QED BY <3>2, <3>3
  <2> QED BY <2>3, <2>4 DEF LastAnnouncement, JobUnderWay, Announces
<1>11. QueuedThisRound' BY <1>1 DEF QueuedThisRound, SessionInv, Connected
<1> QED BY <1>7, <1>8, <1>9, <1>10, <1>11 DEF SessionInv

(* A line of the pool joins the ones under way; only an answer moves a     *)
(* request, and only an announcement changes the pool's job.               *)
LEMMA PoolSendsKeeps ==
  ASSUME TypeInv, SessionInv, NEW line, PoolSends(line),
         UNCHANGED <<link, phase, pc, next_id, pending, current_job_id, queued_in>>,
         \/ ~Answers(line) /\ UNCHANGED unanswered
         \/ Answers(line) /\ line.req \in unanswered /\ unanswered' = unanswered \ {line.req},
         poolJob' = IF Announces(line) THEN line.ev.job_id ELSE poolJob
  PROVE  SessionInv'
<1>1. /\ wire' = Append(wire, line) /\ Connected /\ Connected'
      /\ Len(wire) \in Nat /\ Len(wire') = Len(wire) + 1
      /\ \A i \in 1..Len(wire) : wire'[i] = wire[i]
      /\ wire'[Len(wire) + 1] = line
  <2>1. wire \in Seq(Lines) BY DEF TypeInv, TypeOK
  <2>2. wire' = Append(wire, line) BY DEF PoolSends
  <2>3. Connected /\ Connected' BY DEF PoolSends, Connected
  <2>4. /\ Len(Append(wire, line)) = Len(wire) + 1
        /\ \A i \in 1..Len(wire) : Append(wire, line)[i] = wire[i]
        /\ Append(wire, line)[Len(wire) + 1] = line
    BY <2>1
  <2> QED BY <2>1, <2>2, <2>3, <2>4
<1>2. \A i \in 1..Len(wire') : i \in 1..Len(wire) \/ i = Len(wire) + 1
  BY <1>1
<1>3. InFlight' \subseteq InFlight
  <2> SUFFICES ASSUME NEW r \in InFlight' PROVE r \in InFlight
    OBVIOUS
  <2>1. CASE r \in unanswered' BY <2>1 DEF InFlight
  <2>2. CASE \E i \in 1..Len(wire') : Answers(wire'[i]) /\ wire'[i].req = r
    <3>1. PICK i \in 1..Len(wire') : Answers(wire'[i]) /\ wire'[i].req = r BY <2>2
    <3>2. CASE i \in 1..Len(wire) BY <3>1, <3>2, <1>1 DEF InFlight
    <3>3. CASE i = Len(wire) + 1 BY <3>1, <3>3, <1>1 DEF InFlight
    <3> QED BY <3>2, <3>3, <1>2
  <2> QED BY <2>1, <2>2 DEF InFlight, Answers
<1>4. InFlightOK' BY <1>3 DEF InFlightOK, SessionInv
<1>5. AnsweredOnce'
  <2>1. \A i \in 1..Len(wire') : Answers(wire'[i]) => wire'[i].req \notin unanswered'
    BY <1>1, <1>2 DEF AnsweredOnce, SessionInv
  <2>2. \A i \in 1..Len(wire) : Answers(line) => (Answers(wire[i]) => wire[i].req # line.req)
    BY DEF AnsweredOnce, SessionInv
  <2>3. ASSUME NEW i \in 1..Len(wire'), NEW j \in 1..Len(wire'),
               Answers(wire'[i]), Answers(wire'[j]), wire'[i].req = wire'[j].req
        PROVE  i = j
    <3>1. CASE i \in 1..Len(wire) /\ j \in 1..Len(wire)
      BY <3>1, <2>3, <1>1 DEF AnsweredOnce, SessionInv
    <3>2. CASE i = Len(wire) + 1 /\ j \in 1..Len(wire)
      BY <3>2, <2>2, <2>3, <1>1
    <3>3. CASE j = Len(wire) + 1 /\ i \in 1..Len(wire)
      BY <3>3, <2>2, <2>3, <1>1
    <3> QED BY <3>1, <3>2, <3>3, <1>2
  <2> QED BY <2>1, <2>3 DEF AnsweredOnce, Answers
<1>6. NothingLeftOver' BY <1>1 DEF NothingLeftOver
<1>7. LastAnnouncement'
  <2> SUFFICES ASSUME link # "reset" PROVE LastAnnouncement'
    BY DEF LastAnnouncement
  <2>1. ASSUME NEW i \in 1..Len(wire'), Announces(wire'[i]),
               \A j \in i + 1..Len(wire') : ~Announces(wire'[j])
        PROVE  wire'[i].ev.job_id = poolJob'
    <3>1. CASE i = Len(wire) + 1 BY <3>1, <2>1, <1>1
    <3>2. CASE i \in 1..Len(wire)
      <4>1. ~Announces(line)
        <5>1. Len(wire) + 1 \in i + 1..Len(wire') BY <3>2, <1>1
        <5> QED BY <5>1, <2>1, <1>1
      <4>2. \A j \in i + 1..Len(wire) : ~Announces(wire[j])
        <5>1. \A j \in i + 1..Len(wire) : j \in i + 1..Len(wire') /\ j \in 1..Len(wire)
          BY <3>2, <1>1
        <5> QED BY <5>1, <2>1, <1>1
      <4> QED BY <4>1, <4>2, <3>2, <2>1, <1>1 DEF LastAnnouncement, SessionInv
    <3> QED BY <3>1, <3>2, <1>2
  <2>2. ASSUME \A i \in 1..Len(wire') : ~Announces(wire'[i])
        PROVE  current_job_id' = poolJob'
    <3>1. ~Announces(line)
      <4>1. Len(wire) + 1 \in 1..Len(wire') BY <1>1
      <4> QED BY <4>1, <2>2, <1>1
    <3>2. ~JobUnderWay
      <4>1. \A i \in 1..Len(wire) : i \in 1..Len(wire') BY <1>1
      <4> QED BY <4>1, <2>2, <1>1 DEF JobUnderWay
    <3> QED BY <3>1, <3>2, <1>1 DEF LastAnnouncement, SessionInv
  <2> QED BY <2>1, <2>2 DEF LastAnnouncement, JobUnderWay, Announces
<1>8. QueuedThisRound' BY <1>1 DEF QueuedThisRound, SessionInv
<1> QED BY <1>4, <1>5, <1>6, <1>7, <1>8 DEF SessionInv

LEMMA LinkBreaksKeeps ==
  ASSUME SessionInv, LinkBreaks
  PROVE  SessionInv'
<1>1. /\ UNCHANGED <<phase, pc, next_id, pending, current_job_id, unanswered, poolJob, queued_in>>
      /\ \/ link \notin {"none", "reset"} /\ UNCHANGED wire
         \/ link' = "reset" /\ wire' = <<>>
  BY DEF LinkBreaks, envKeeps, runVars, sessVars, chanVars
<1>4. QueuedThisRound' BY <1>1 DEF QueuedThisRound, SessionInv, Connected
<1>2. CASE link \notin {"none", "reset"} /\ UNCHANGED wire
  <2>1. InFlight' = InFlight /\ JobUnderWay' = JobUnderWay
    BY <1>1, <1>2 DEF InFlight, JobUnderWay
  <2>2. InFlightOK' /\ AnsweredOnce' /\ NothingLeftOver'
    BY <1>1, <1>2, <2>1 DEF SessionInv, InFlightOK, AnsweredOnce, NothingLeftOver, Connected
  <2>3. LastAnnouncement'
    BY <1>1, <1>2, <2>1 DEF SessionInv, LastAnnouncement, Connected
  <2> QED BY <1>4, <2>2, <2>3 DEF SessionInv
<1>3. CASE link' = "reset" /\ wire' = <<>>
  <2>1. Len(wire') = 0 BY <1>3
  <2>2. InFlight' \subseteq InFlight BY <1>1, <2>1 DEF InFlight
  <2>3. InFlightOK' BY <2>2, <1>1 DEF SessionInv, InFlightOK
  <2>4. AnsweredOnce' BY <2>1 DEF AnsweredOnce
  <2>5. NothingLeftOver' BY <1>1, <1>3 DEF SessionInv, NothingLeftOver, Connected
  <2>6. LastAnnouncement' BY <1>3 DEF LastAnnouncement
  <2> QED BY <1>4, <2>3, <2>4, <2>5, <2>6 DEF SessionInv
<1> QED BY <1>1, <1>2, <1>3

(* The share taken was queued in this round, and so were those behind it.  *)
LEMMA TakeShareKeeps ==
  ASSUME TypeInv, SessionInv, TakeShare, UNCHANGED phase
  PROVE  QueuedThisRound' /\ Head(queued_in) = phase
<1>1. queued_in \in Seq(Phases) /\ queued_in # <<>> /\ queued_in' = Tail(queued_in) /\ Connected
  <2>1. /\ queued_in \in Seq(Phases) /\ Len(queued_in) = Len(submit_rx) /\ submit_rx \in Seq(Shares)
        /\ submit_rx # <<>> /\ queued_in' = Tail(queued_in) /\ Connected
    BY DEF TakeShare, TypeInv, TypeOK, Connected
  <2>2. Len(submit_rx) # 0 BY <2>1
  <2> QED BY <2>1, <2>2
<1>2. /\ Len(queued_in') = Len(queued_in) - 1 /\ Head(queued_in) = queued_in[1]
      /\ \A i \in 1..Len(queued_in') : queued_in'[i] = queued_in[i + 1]
      /\ Len(queued_in) \in Nat /\ Len(queued_in) >= 1
  BY <1>1, TailType
<1>3. \A i \in 1..Len(queued_in) : queued_in[i] = phase
  BY <1>1 DEF SessionInv, QueuedThisRound
<1>4. \A i \in 1..Len(queued_in') : i + 1 \in 1..Len(queued_in)
  BY <1>2
<1> QED BY <1>2, <1>3, <1>4 DEF QueuedThisRound

LEMMA SessionInvNext == TypeInv /\ SessionInv /\ [Next]_vars => SessionInv'
<1> SUFFICES ASSUME TypeInv, SessionInv, [Next]_vars PROVE SessionInv'
  OBVIOUS
<1>1. CASE Wake \/ Expire \/ MinerNotesLag \/ MinerReceives \/ SendersDropped \/ UNCHANGED vars
  <2>1. UNCHANGED <<sessVars, netVars, phase, queued_in>> /\ (Connected' <=> Connected)
    BY <1>1 DEF Wake, Expire, MinerNotesLag, MinerReceives, SendersDropped, envKeeps, runVars, chanVars, vars,
                Connected
  <2>2. QueuedThisRound' BY <2>1 DEF SessionInv, QueuedThisRound
  <2> QED BY <2>1, <2>2, OtherSteps
<1>13. CASE DropStale \/ SubmitBlocks
  <2>1. UNCHANGED <<sessVars, netVars, phase>> /\ (Connected' <=> Connected) /\ TakeShare
    BY <1>13 DEF DropStale, SubmitBlocks, TakeShare, runVars, Connected
  <2>2. QueuedThisRound' BY <2>1, TakeShareKeeps
  <2> QED BY <2>1, <2>2, OtherSteps
<1>2. ASSUME NEW share \in Shares, MinerFinds(share) PROVE SessionInv'
  <2>1. /\ UNCHANGED <<sessVars, netVars, phase>> /\ (Connected' <=> Connected)
        /\ queued_in' = queued_in \/ queued_in' = Append(queued_in, phase)
    BY <1>2 DEF MinerFinds, TrySend, envKeeps, runVars, Connected
  <2>2. QueuedThisRound'
    <3>1. queued_in \in Seq(Phases) BY DEF TypeInv, TypeOK
    <3>2. \A i \in 1..Len(queued_in') : \/ queued_in'[i] = queued_in[i] /\ i \in 1..Len(queued_in)
                                       \/ queued_in'[i] = phase
      BY <2>1, <3>1
    <3> QED BY <2>1, <3>2 DEF SessionInv, QueuedThisRound
  <2> QED BY <2>1, <2>2, OtherSteps
<1>3. CASE ConnectTcp \/ Upgraded
  BY <1>3, StartSessionKeeps DEF ConnectTcp, Upgraded, Connected, netVars
<1>4. CASE ConnectWss
  <2>1. /\ wire' = <<>> /\ unanswered' = {} /\ poolJob' = NoJob /\ ~Connected'
    BY <1>4 DEF ConnectWss, SessionInv, NothingLeftOver, Connected
  <2> QED BY <2>1, NetEmptied DEF SessionInv, NothingLeftOver, LastAnnouncement, QueuedThisRound
<1>5. CASE ConnectFails \/ HandshakeFails \/ ReadFails \/ ReadEof \/ SubmitFails
           \/ BlockedWriteFails \/ RotateRound \/ Shutdown \/ NotificationPanics
  BY <1>5, HangUpSession DEF ConnectFails, HandshakeFails, ReadFails, ReadEof, SubmitFails, BlockedWriteFails,
     RotateRound, Shutdown, NotificationPanics, EndWithError, EndDisconnected, EndRotate
<1>6. CASE SendHandshake
  <2>1. Handshake[step] \in Methods
    BY <1>6, HandshakeMethods DEF SendHandshake, TypeInv, TypeOK, HandshakeStep
  <2>2. QueuedThisRound'
    BY <1>6 DEF SendHandshake, SessionInv, QueuedThisRound, Connected, runVars, chanVars
  <2> QED BY <1>6, <2>1, <2>2, SendRequestKeeps DEF SendHandshake, Connected, runVars
<1>7. CASE SubmitShare
  <2>1. Head(submit_rx).job_id \in JobIds /\ "mining.submit" \in Methods
    BY <1>7, TailType, ConstantsAssumption DEF SubmitShare, TakeShare, TypeInv, TypeOK, Methods
  <2>2. QueuedThisRound' /\ Head(queued_in) = phase
    BY <1>7, TakeShareKeeps DEF SubmitShare, Connected, runVars
  <2> QED BY <1>7, <2>1, <2>2, SendRequestKeeps DEF SubmitShare, TakeShare, Connected, runVars
<1>8. CASE ReadLine
  BY <1>8, ReadLineKeeps
<1>9. ASSUME NEW e \in Events, PoolNotifies(e) PROVE SessionInv'
  <2>1. /\ PoolSends(EventLine(e)) /\ ~Answers(EventLine(e)) /\ UNCHANGED unanswered
        /\ UNCHANGED <<link, phase, pc, next_id, pending, current_job_id, queued_in>>
    BY <1>9 DEF PoolNotifies, EventLine, Answers, envKeeps, runVars, sessVars, chanVars
  <2>2. poolJob' = IF Announces(EventLine(e)) THEN EventLine(e).ev.job_id ELSE poolJob
    BY <1>9 DEF PoolNotifies, EventLine, Announces
  <2> QED BY <2>1, <2>2, PoolSendsKeeps
<1>10. ASSUME NEW r \in unanswered, PoolAnswers(r) PROVE SessionInv'
  <2>1. /\ PoolSends(ResponseLine(r)) /\ Answers(ResponseLine(r)) /\ ResponseLine(r).req = r
        /\ unanswered' = unanswered \ {r}
        /\ UNCHANGED <<link, phase, pc, next_id, pending, current_job_id, queued_in>>
    BY <1>10 DEF PoolAnswers, ResponseLine, Answers, envKeeps, runVars, sessVars, chanVars
  <2>2. poolJob' = IF Announces(ResponseLine(r)) THEN ResponseLine(r).ev.job_id ELSE poolJob
    BY <1>10 DEF PoolAnswers, ResponseLine, Announces
  <2> QED BY <2>1, <2>2, PoolSendsKeeps
<1>11. CASE PoolMisspeaks
  <2>1. PICK line \in {IgnoredLine, GarbageLine, PanicLine} : PoolSends(line)
    BY <1>11 DEF PoolMisspeaks
  <2>2. ~Answers(line) /\ ~Announces(line)
    BY DEF IgnoredLine, GarbageLine, PanicLine, Answers, Announces
  <2>3. /\ UNCHANGED unanswered /\ poolJob' = poolJob
        /\ UNCHANGED <<link, phase, pc, next_id, pending, current_job_id, queued_in>>
    BY <1>11 DEF PoolMisspeaks, envKeeps, runVars, sessVars, chanVars
  <2> QED BY <2>1, <2>2, <2>3, PoolSendsKeeps
<1>12. CASE LinkBreaks
  BY <1>12, LinkBreaksKeeps
<1> QED
  BY <1>1, <1>2, <1>3, <1>4, <1>5, <1>6, <1>7, <1>8, <1>9, <1>10, <1>11, <1>12, <1>13
     DEF Next, Session, Environment, Returned

LEMMA SessionInvInit == Init => SessionInv
<1> SUFFICES ASSUME Init PROVE SessionInv
  OBVIOUS
<1>1. wire = <<>> /\ Len(wire) = 0 /\ unanswered = {} /\ poolJob = NoJob /\ ~Connected
  BY DEF Init, Connected
<1>2. InFlight = {} BY <1>1 DEF InFlight
<1> QED BY <1>1, <1>2 DEF SessionInv, InFlightOK, AnsweredOnce, NothingLeftOver, LastAnnouncement, QueuedThisRound

LEMMA StratumInvariant == Spec => [](TypeInv /\ SessionInv)
BY TypeInvInit, SessionInvInit, TypeInvNext, SessionInvNext, PTL DEF Spec

(* Every response is matched with the request it answers. *)
THEOREM StratumCorrelates == Spec => []ResponsesCorrelated
<1>1. SessionInv => ResponsesCorrelated
  BY DEF SessionInv, InFlightOK, ResponsesCorrelated
<1> QED BY StratumInvariant, <1>1, PTL

(* No connection ever carries requests of both wallets, or a share that    *)
(* was queued in the other's round.                                        *)
THEOREM StratumOneWallet == Spec => []OneWalletPerConnection
<1>1. SessionInv => OneWalletPerConnection
  BY DEF SessionInv, InFlightOK, OneWalletPerConnection
<1> QED BY StratumInvariant, <1>1, PTL

(* current_job_id is the pool's job up to the announcements under way. *)
THEOREM StratumTracksPool == Spec => []ClientTracksPool
<1>1. SessionInv => ClientTracksPool
  BY DEF SessionInv, LastAnnouncement, ClientTracksPool
<1> QED BY StratumInvariant, <1>1, PTL

(* A share that reaches the pool is for its current job, unless a newer    *)
(* announcement was under way or none had been made.                       *)
THEOREM StratumStaleOnlyUnderWay == Spec => StaleOnlyUnderWay
<1> DEFINE Fresh == \A r \in unanswered' \ unanswered :
                      r.method = "mining.submit" =>
                        r.job = poolJob \/ JobUnderWay \/ poolJob = NoJob
<1>1. TypeInv /\ SessionInv /\ [Next]_vars => [Fresh]_vars
  <2> SUFFICES ASSUME TypeInv, SessionInv, Next PROVE Fresh
    OBVIOUS
  <2>1. CASE unanswered' \subseteq unanswered
    BY <2>1
  <2>2. CASE SendHandshake
    <3>1. Handshake[step] # "mining.submit"
      BY <2>2 DEF SendHandshake, Handshake, TypeInv, TypeOK, HandshakeStep
    <3> QED BY <2>2, <3>1 DEF SendHandshake, SendRequest, Request, Deliver
  <2>3. CASE SubmitShare
    <3>1. /\ \A r \in unanswered' \ unanswered : r.job = Head(submit_rx).job_id
          /\ link # "reset" /\ Connected
      BY <2>3 DEF SubmitShare, TakeShare, SendRequest, Request, Deliver, Connected
    <3>2. current_job_id = NoJob \/ Head(submit_rx).job_id = current_job_id
      BY <2>3 DEF SubmitShare, ShareIsStale
    <3> QED BY <3>1, <3>2 DEF SessionInv, LastAnnouncement
  <2>4. SendHandshake \/ SubmitShare \/ unanswered' \subseteq unanswered
    BY DEF Next, Session, Environment, Returned, Wake, ConnectTcp, ConnectWss, Upgraded, ConnectFails,
           HandshakeFails, ReadLine, ReadFails, ReadEof, NotificationPanics, DropStale, SubmitFails, SubmitBlocks,
           BlockedWriteFails, RotateRound, Shutdown, EndWithError, EndDisconnected, EndRotate, HangUp, Expire, PoolNotifies, PoolAnswers,
           PoolMisspeaks, LinkBreaks, MinerNotesLag, MinerReceives, MinerFinds, SendersDropped, netVars, vars
  <2> QED BY <2>1, <2>2, <2>3, <2>4
<1> QED BY <1>1, StratumInvariant, PTL DEF Spec, StaleOnlyUnderWay

(***************************************************************************)
(* The session task implements PoolSession: connecting, the clock, the     *)
(* pool's messages and the network are stutters of it.                     *)
(***************************************************************************)
LEMMA PoolInit == Init => Pool!Init
BY ConstantsAssumption DEF Init, Pool!Init, Connected, Over

(* A hang-up is the loss of the session, or a stutter if there was none.   *)
LEMMA HangUpLoses ==
  ASSUME HangUp, pc' \in {"connecting", "sleeping"},
         \/ UNCHANGED chanVars
         \/ pc = "live" /\ TakeShare,
         ~Over
  PROVE  [Pool!Next]_Pool!vars
<1>1. CASE UNCHANGED chanVars /\ Connected
  BY <1>1 DEF HangUp, chanVars, sessVars, Connected, Over,
              Pool!Next, Pool!Task, Pool!Lose
<1>2. CASE UNCHANGED chanVars /\ ~Connected
  BY <1>2 DEF chanVars, Connected, Over, Pool!vars, Pool!taskVars
<1>3. CASE pc = "live" /\ TakeShare
  BY <1>3 DEF TakeShare, Connected, Over,
              Pool!Next, Pool!Task, Pool!Lose, Pool!Take
<1> QED BY <1>1, <1>2, <1>3

LEMMA PoolNext == TypeInv /\ [Next]_vars => [Pool!Next]_Pool!vars
<1> SUFFICES ASSUME TypeInv, [Next]_vars PROVE [Pool!Next]_Pool!vars
  OBVIOUS
<1>1. CASE \/ Wake \/ Expire \/ ConnectWss \/ PoolMisspeaks \/ LinkBreaks
           \/ (\E e \in Events : PoolNotifies(e)) \/ (\E r \in unanswered : PoolAnswers(r))
           \/ UNCHANGED vars
  <2>1. /\ UNCHANGED <<sessVars, job_tx, lagged, submit_rx, senders>>
        /\ \/ UNCHANGED pc
           \/ pc \in {"connecting", "sleeping"} /\ pc' \in {"connecting", "upgrading"}
    BY <1>1 DEF Wake, Expire, ConnectWss, PoolMisspeaks, LinkBreaks, PoolNotifies, PoolAnswers,
                vars, chanVars, envKeeps
  <2> QED BY <2>1 DEF sessVars, Connected, Over, Pool!vars, Pool!taskVars
<1>2. CASE ConnectTcp \/ Upgraded
  <2>1. pc \in {"connecting", "upgrading"} /\ StartSession
    BY <1>2 DEF ConnectTcp, Upgraded
  <2> QED
    BY <2>1 DEF StartSession, Connected, Over, Pool!Next, Pool!Task, Pool!Open
<1>3. CASE SendHandshake
  <2>1. /\ pc = "handshake" /\ next_id' = step + 1 /\ UNCHANGED <<current_job_id, chanVars>>
        /\ pc' = IF step = Len(Handshake) THEN "live" ELSE "handshake"
        /\ step \in Nat
    BY <1>3 DEF SendHandshake, SendRequest, TypeInv, TypeOK, HandshakeStep
  <2>2. Len(Handshake) \in Nat BY HandshakeMethods
  <2>3. CASE step = Len(Handshake)
    BY <2>1, <2>2, <2>3 DEF chanVars, Connected, Over, Pool!Next, Pool!Task, Pool!Greeted
  <2>4. CASE step # Len(Handshake)
    BY <2>1, <2>4 DEF chanVars, Connected, Over, Pool!vars, Pool!taskVars
  <2> QED BY <2>3, <2>4
<1>4. CASE ConnectFails \/ HandshakeFails \/ ReadFails \/ ReadEof \/ SubmitFails \/ BlockedWriteFails
           \/ RotateRound
  <2>1. /\ HangUp /\ pc' \in {"connecting", "sleeping"} /\ ~Over
        /\ UNCHANGED chanVars \/ (pc = "live" /\ TakeShare)
    BY <1>4 DEF ConnectFails, HandshakeFails, ReadFails, ReadEof, SubmitFails, BlockedWriteFails,
                RotateRound, EndWithError, EndDisconnected, EndRotate, Over, TakeShare
  <2> QED BY <2>1, HangUpLoses
<1>5. CASE Shutdown \/ NotificationPanics
  <2>1. pc = "live" /\ pc' \in {"ended", "panicked"} /\ UNCHANGED chanVars
    BY <1>5 DEF Shutdown, NotificationPanics
  <2> QED
    BY <2>1 DEF chanVars, Connected, Over, Pool!Next, Pool!Task, Pool!End
<1>6. CASE ReadLine
  <2>1. /\ pc = "live" /\ pc' = "live" /\ UNCHANGED <<next_id, submit_rx, senders>>
    BY <1>6 DEF ReadLine
  <2>2. CASE Head(wire).kind = "event" /\ HandleNotification(Head(wire).ev)
    <3>1. Head(wire).ev \in Events
      BY <1>6, <2>2, TailType
         DEF ReadLine, TypeInv, TypeOK, Lines, EventLine, ResponseLine, IgnoredLine, GarbageLine, PanicLine
    <3>2. Pool!Announce(Head(wire).ev)
      BY <2>1, <2>2 DEF HandleNotification, Connected, Over, Pool!Announce,
                               BroadcastSend, IsFull, Pool!BroadcastSend, Pool!IsFull
    <3> QED BY <3>1, <3>2 DEF Pool!Next, Pool!Task
  <2>3. CASE UNCHANGED <<job_tx, lagged, current_job_id>>
    BY <2>1, <2>3 DEF Connected, Over, Pool!vars, Pool!taskVars
  <2> QED BY <1>6, <2>2, <2>3 DEF ReadLine, HandleResponse
<1>7. CASE DropStale
  <2>1. /\ pc = "live" /\ submit_rx # <<>> /\ submit_rx' = Tail(submit_rx)
        /\ UNCHANGED <<pc, next_id, current_job_id, job_tx, lagged, senders>>
        /\ current_job_id # NoJob /\ Head(submit_rx).job_id # current_job_id
    BY <1>7 DEF DropStale, TakeShare, ShareIsStale, sessVars
  <2> QED
    BY <2>1 DEF Connected, Over, Pool!Next, Pool!Task, Pool!Discard, Pool!Take, Pool!Superseded,
                Pool!taskVars
<1>8. CASE SubmitShare
  <2>1. /\ pc = "live" /\ submit_rx # <<>> /\ submit_rx' = Tail(submit_rx)
        /\ UNCHANGED <<pc, current_job_id, job_tx, lagged, senders>>
        /\ ~(current_job_id # NoJob /\ Head(submit_rx).job_id # current_job_id)
        /\ next_id \in 1..MaxId /\ next_id' = next_id + 1
    BY <1>8 DEF SubmitShare, TakeShare, ShareIsStale, SendRequest, Ids
  <2>2. Len(Handshake) \in Nat /\ MaxId \in Nat BY HandshakeMethods, ConstantsAssumption
  <2>3. /\ next_id - 1 - Len(Handshake) < MaxId - Len(Handshake)
        /\ next_id' - 1 - Len(Handshake) = next_id - 1 - Len(Handshake) + 1
    BY <2>1, <2>2
  <2> QED
    BY <2>1, <2>3 DEF Connected, Over, Pool!Next, Pool!Task, Pool!Forward, Pool!Take, Pool!Superseded
<1>11. CASE SubmitBlocks
  <2>1. /\ pc = "live" /\ pc' = "writing" /\ submit_rx # <<>> /\ submit_rx' = Tail(submit_rx)
        /\ UNCHANGED <<current_job_id, next_id, job_tx, lagged, senders>>
        /\ ~(current_job_id # NoJob /\ Head(submit_rx).job_id # current_job_id)
        /\ next_id \in 1..MaxId
    BY <1>11 DEF SubmitBlocks, TakeShare, ShareIsStale, sessVars, Ids
  <2>2. Len(Handshake) \in Nat /\ MaxId \in Nat BY HandshakeMethods, ConstantsAssumption
  <2>3. /\ next_id - 1 - Len(Handshake) < MaxId - Len(Handshake)
        /\ next_id' - Len(Handshake) = next_id - 1 - Len(Handshake) + 1
    BY <2>1, <2>2
  <2> QED
    BY <2>1, <2>3 DEF Connected, Over, Pool!Next, Pool!Task, Pool!Forward, Pool!Take, Pool!Superseded
<1>9. CASE MinerNotesLag \/ MinerReceives \/ SendersDropped
  BY <1>9 DEF MinerNotesLag, MinerReceives, SendersDropped, envKeeps, sessVars, Connected, Over,
              Pool!Next, Pool!Clients, Pool!NoteLag, Pool!Receive, Pool!DropSenders, Pool!taskVars
<1>10. ASSUME NEW share \in Shares, MinerFinds(share) PROVE Pool!Next
  BY <1>10 DEF MinerFinds, envKeeps, sessVars, Connected, Over,
               Pool!Next, Pool!Clients, Pool!Submit, Pool!taskVars,
               TrySend, IsFull, Pool!TrySend, Pool!IsFull
<1> QED
  BY <1>1, <1>2, <1>3, <1>4, <1>5, <1>6, <1>7, <1>8, <1>9, <1>10, <1>11
     DEF Next, Session, Environment, Returned

(* The session task keeps the promises of PoolSession, whatever the        *)
(* network, the pool and the clock do.                                     *)
THEOREM StratumImplementsPoolSession == Spec => ImplementsPoolSession
BY PoolInit, PoolNext, TypeInvInit, TypeInvNext, PTL DEF Spec, ImplementsPoolSession, Pool!Spec

=============================================================================
