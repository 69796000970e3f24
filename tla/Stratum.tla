------------------------------- MODULE Stratum -------------------------------
(***************************************************************************)
(* src/stratum.rs: the session task.  `run` alternates the user and the    *)
(* dev-fee round and reconnects with exponential backoff; `run_session`    *)
(* connects, drains the submit queue, sends the handshake and then selects *)
(* between a line of the pool, a share to submit and the deadline of the   *)
(* round.  Every select! branch is one action, because the task awaits     *)
(* nothing between the branch's wake-up and the next turn of the loop but  *)
(* its own write.  That write takes no time while the peer reads; to a     *)
(* silent peer it may wait, and then nothing else is selected.             *)
(*                                                                         *)
(* The pool and the network are the environment: a connection (link) with  *)
(* the lines under way to the client (wire) and the requests the pool      *)
(* holds unanswered.  The network may close, reset or silently lose the    *)
(* connection at any time.                                                 *)
(***************************************************************************)
EXTENDS Channels, FiniteSets

CONSTANTS
  JobIds,     \* job ids the pool announces; a pool may announce one again
  NoJob,      \* current_job_id = None
  Events,     \* JobEvents: records with a kind and, for "NewJob", a job_id
  Shares,     \* Submissions: records with a job_id
  Dialect,    \* cfg.dialect
  Transport,  \* "tcp" or "wss" (ARIA_WSS_URL set)
  DevfeeOn,   \* cfg.wallet # DEVFEE_WALLET
  MaxBackoff, \* the cap of the reconnection delay, 30 s in the code
  JobCap,     \* capacity of the broadcast channel, 64 in the code
  SubmitCap,  \* capacity of the submit queue, 256 in the code
  MaxId,      \* bound: request ids of one session
  MaxWire     \* bound: lines under way from the pool

Phases   == {"User", "Dev"}
Dialects == {"Pearl", "LuckyPool", "HeroMiners"}
Methods  == {"mining.subscribe", "mining.authorize", "mining.submit"}
NoMethod == "none"
Ids      == 1..MaxId

ASSUME ConstantsAssumption ==
  /\ NoJob \notin JobIds
  /\ \A e \in Events : /\ e.kind \in {"NewJob", "Params", "SetDifficulty"}
                       /\ e.kind = "NewJob" => e.job_id \in JobIds
  /\ \A s \in Shares : s.job_id \in JobIds
  /\ Dialect \in Dialects
  /\ Transport \in {"tcp", "wss"}
  /\ DevfeeOn \in BOOLEAN
  /\ MaxBackoff \in Nat \ {0}
  /\ JobCap \in Nat \ {0}
  /\ SubmitCap \in Nat \ {0}
  /\ MaxId \in Nat /\ MaxId >= 3
  /\ MaxWire \in Nat \ {0}

(* The requests of the handshake, in the order they are sent. *)
Handshake ==
  IF Dialect = "LuckyPool" THEN <<"mining.authorize">>
                           ELSE <<"mining.subscribe", "mining.authorize">>

(* A request as the pool sees it; login says whose wallet it carries.      *)
(* round is history: the round in which the share was queued.              *)
Requests == [id : Ids, method : Methods, login : Phases, round : Phases,
             job : JobIds \cup {NoJob}]

(* Lines of the pool: a well-formed notification, a response, a line       *)
(* without effect (blank, unknown method, or parameters that do not parse, *)
(* which handle_notification reports and run_session ignores), a line that *)
(* is not JSON, and a notify whose nbits has an exponent that decode_nbits *)
(* indexes out of bounds with.                                             *)
EventLine(e)    == [kind |-> "event", ev |-> e]
ResponseLine(r) == [kind |-> "response", req |-> r]
IgnoredLine     == [kind |-> "ignored"]
GarbageLine     == [kind |-> "garbage"]
PanicLine       == [kind |-> "panic"]
Lines == {EventLine(e) : e \in Events} \cup {ResponseLine(r) : r \in Requests}
           \cup {IgnoredLine, GarbageLine, PanicLine}

VARIABLES
  phase,          \* whose round it is
  expired,        \* the deadline of the round has passed
  backoff,        \* seconds of the next reconnection delay
  pc,             \* where the task is
  step,           \* next request of the handshake
  next_id,        \* id of the next request
  current_job_id, \* job of the last mining.notify of this session
  pending         \* in-flight request ids -> their method

VARIABLES
  job_tx,         \* the events the main loop has not received yet
  lagged,         \* an event was overwritten since the last receive
  submit_rx,      \* shares waiting for the session task
  senders,        \* some sender of the submit queue is alive
  known,          \* jobs the search threads may have worked on
  queued_in       \* history: the round in which each share of submit_rx was queued

VARIABLES
  link,           \* the connection, as the network has it
  wire,           \* lines under way from the pool
  unanswered,     \* requests the pool has received and not answered
  poolJob         \* the last job the pool announced on this connection

runVars  == <<phase, expired, backoff>>
sessVars == <<step, next_id, current_job_id, pending>>
chanVars == <<job_tx, lagged, submit_rx, senders, known, queued_in>>
netVars  == <<link, wire, unanswered, poolJob>>
vars     == <<runVars, pc, sessVars, chanVars, netVars>>

Connected == pc \in {"handshake", "live", "writing"}
Over      == pc \in {"ended", "panicked"}

Init ==
  /\ phase = "User" /\ expired = FALSE /\ backoff = 1
  /\ pc = "connecting"
  /\ step = 1 /\ next_id = 1 /\ current_job_id = NoJob
  /\ pending = [i \in Ids |-> NoMethod]
  /\ job_tx = <<>> /\ lagged = FALSE /\ submit_rx = <<>>
  /\ senders = TRUE /\ known = {} /\ queued_in = <<>>
  /\ link = "none" /\ wire = <<>> /\ unanswered = {} /\ poolJob = NoJob

-----------------------------------------------------------------------------
(* How run_session returns, and what `run` does with the result.           *)

HangUp == /\ link' = "none" /\ wire' = <<>> /\ unanswered' = {} /\ poolJob' = NoJob
          /\ UNCHANGED sessVars

(* Err(e): the delay reached so far is kept. *)
EndWithError == HangUp /\ pc' = "sleeping" /\ UNCHANGED runVars

(* Ok(Disconnected): the pool closed the connection in good order. *)
EndDisconnected ==
  HangUp /\ pc' = "sleeping" /\ backoff' = 1 /\ UNCHANGED <<phase, expired>>

(* Mutated form: a dev round is followed by another. *)
EndRotate_Stuck ==
  /\ HangUp
  /\ pc' = "connecting" /\ backoff' = 1 /\ phase' = "Dev" /\ expired' = FALSE

(* Ok(Rotate): the other wallet's round starts, without a delay. *)
EndRotate ==
  /\ HangUp
  /\ pc' = "connecting" /\ backoff' = 1
  /\ phase' = IF phase = "User" THEN "Dev" ELSE "User"
  /\ expired' = FALSE

(* Mutated form: the delay doubles without a cap. *)
Wake_NoCap ==
  /\ pc = "sleeping"
  /\ pc' = "connecting"
  /\ backoff' = 2 * backoff
  /\ UNCHANGED <<phase, expired, sessVars, chanVars, netVars>>

(* The sleep between two sessions, after which the delay doubles. *)
Wake ==
  /\ pc = "sleeping"
  /\ pc' = "connecting"
  /\ backoff' = IF 2 * backoff <= MaxBackoff THEN 2 * backoff ELSE MaxBackoff
  /\ UNCHANGED <<phase, expired, sessVars, chanVars, netVars>>

(* The clock runs whatever the task does. *)
Expire ==
  /\ DevfeeOn /\ ~expired /\ ~Over
  /\ expired' = TRUE
  /\ UNCHANGED <<phase, backoff, pc, sessVars, chanVars, netVars>>

-----------------------------------------------------------------------------
(* run_session: connection and handshake.                                  *)

(* Mutated form: the job of the last session is kept. *)
StartSession_KeepsJob ==
  /\ pc' = "handshake"
  /\ step' = 1 /\ next_id' = 1
  /\ pending' = [i \in Ids |-> NoMethod]
  /\ submit_rx' = <<>> /\ queued_in' = <<>>
  /\ UNCHANGED <<runVars, job_tx, lagged, senders, known, current_job_id>>

(* Mutated form: the shares queued while there was no session are kept. *)
StartSession_NoDrain ==
  /\ pc' = "handshake"
  /\ step' = 1 /\ next_id' = 1 /\ current_job_id' = NoJob
  /\ pending' = [i \in Ids |-> NoMethod]
  /\ UNCHANGED <<runVars, chanVars>>

(* The connection stands: fresh session variables, and every share queued  *)
(* meanwhile is thrown away.                                               *)
StartSession ==
  /\ pc' = "handshake"
  /\ step' = 1 /\ next_id' = 1 /\ current_job_id' = NoJob
  /\ pending' = [i \in Ids |-> NoMethod]
  /\ submit_rx' = <<>> /\ queued_in' = <<>>
  /\ UNCHANGED <<runVars, job_tx, lagged, senders, known>>

(* Plain TCP: the connect call itself establishes the session. *)
ConnectTcp ==
  /\ pc = "connecting" /\ Transport = "tcp"
  /\ link' = "up"
  /\ StartSession
  /\ UNCHANGED <<wire, unanswered, poolJob>>

(* The relay: the TCP connection stands, connect_async goes on to await    *)
(* the answer to its upgrade request, outside of the select! loop.         *)
ConnectWss ==
  /\ pc = "connecting" /\ Transport = "wss"
  /\ link' = "up" /\ pc' = "upgrading"
  /\ UNCHANGED <<runVars, sessVars, chanVars, wire, unanswered, poolJob>>

Upgraded ==
  /\ pc = "upgrading" /\ link = "up"
  /\ StartSession
  /\ UNCHANGED netVars

ConnectFails ==
  /\ \/ pc = "connecting"
     \/ pc = "upgrading" /\ link \in {"fin", "reset"}
  /\ EndWithError
  /\ UNCHANGED chanVars

(* A write reaches the pool, or stays in the kernel's buffer when the peer *)
(* has stopped reading; it can fail only when the connection is gone.      *)
Deliver(req) ==
  /\ link # "reset"
  /\ unanswered' = IF link = "up" THEN unanswered \cup {req} ELSE unanswered
  /\ UNCHANGED <<link, wire, poolJob>>

WriteCanFail == link \in {"fin", "reset", "silent"}

Request(method, round, job) ==
  [id |-> next_id, method |-> method, login |-> phase, round |-> round, job |-> job]

(* Mutated form: the id is taken after the increment for the entry. *)
SendRequest_LateEntry(method, round, job) ==
  /\ next_id \in Ids
  /\ Deliver(Request(method, round, job))
  /\ pending' = [i \in Ids |-> IF i = next_id + 1 THEN method ELSE pending[i]]
  /\ next_id' = next_id + 1

(* send, the pending entry and the id of the next request, for one method. *)
SendRequest(method, round, job) ==
  /\ next_id \in Ids
  /\ Deliver(Request(method, round, job))
  /\ pending' = [pending EXCEPT ![next_id] = method]
  /\ next_id' = next_id + 1

SendHandshake ==
  /\ pc = "handshake"
  /\ SendRequest(Handshake[step], phase, NoJob)
  /\ step' = step + 1
  /\ pc' = IF step = Len(Handshake) THEN "live" ELSE "handshake"
  /\ UNCHANGED <<runVars, current_job_id, chanVars>>

HandshakeFails ==
  /\ pc = "handshake" /\ WriteCanFail
  /\ EndWithError
  /\ UNCHANGED chanVars

-----------------------------------------------------------------------------
(* run_session: the select! loop.                                          *)

(* handle_notification, for a notification whose parameters parse. *)
HandleNotification(e) ==
  /\ job_tx' = BroadcastSend(job_tx, JobCap, e)
  /\ lagged' = (lagged \/ IsFull(job_tx, JobCap))
  /\ current_job_id' = IF e.kind = "NewJob" THEN e.job_id ELSE current_job_id
  /\ UNCHANGED pending

(* handle_response: the entry goes; the verdict is only logged. *)
HandleResponse(r) ==
  /\ pending' = [pending EXCEPT ![r.id] = NoMethod]
  /\ UNCHANGED <<job_tx, lagged, current_job_id>>

ReadLine ==
  /\ pc = "live" /\ wire # <<>>
  /\ LET line == Head(wire) IN
       /\ \/ line.kind = "event"    /\ HandleNotification(line.ev)
          \/ line.kind = "response" /\ HandleResponse(line.req)
          \/ line.kind = "ignored"  /\ UNCHANGED <<job_tx, lagged, current_job_id, pending>>
  /\ wire' = Tail(wire)
  /\ UNCHANGED <<runVars, pc, step, next_id, submit_rx, senders, known, queued_in,
                 link, unanswered, poolJob>>

(* A read error, or a line that is not JSON: the `?` leaves the session. *)
ReadFails ==
  /\ pc = "live"
  /\ \/ link = "reset"
     \/ wire # <<>> /\ Head(wire).kind = "garbage"
  /\ EndWithError
  /\ UNCHANGED chanVars

ReadEof ==
  /\ pc = "live" /\ wire = <<>> /\ link = "fin"
  /\ EndDisconnected
  /\ UNCHANGED chanVars

(* Job::from_params runs into a panic, which ends the task (and, in a      *)
(* release build, the process).                                            *)
NotificationPanics ==
  /\ pc = "live" /\ wire # <<>> /\ Head(wire).kind = "panic"
  /\ HangUp /\ pc' = "panicked"
  /\ UNCHANGED <<runVars, chanVars>>

(* Mutated form: without a job of this session, every share is stale. *)
ShareIsStale_UnlessKnown(share) == share.job_id # current_job_id

(* Mutated form: no share is ever stale. *)
ShareIsStale_Never(share) == FALSE

ShareIsStale(share) == current_job_id # NoJob /\ share.job_id # current_job_id

TakeShare ==
  /\ pc = "live" /\ submit_rx # <<>>
  /\ submit_rx' = Tail(submit_rx) /\ queued_in' = Tail(queued_in)
  /\ UNCHANGED <<job_tx, lagged, senders, known>>

DropStale ==
  /\ TakeShare
  /\ ShareIsStale(Head(submit_rx))
  /\ UNCHANGED <<runVars, pc, sessVars, netVars>>

SubmitShare ==
  /\ TakeShare
  /\ ~ShareIsStale(Head(submit_rx))
  /\ SendRequest("mining.submit", Head(queued_in), Head(submit_rx).job_id)
  /\ UNCHANGED <<runVars, pc, step, current_job_id>>

(* The share that was taken is lost with the connection. *)
SubmitFails ==
  /\ TakeShare
  /\ ~ShareIsStale(Head(submit_rx))
  /\ WriteCanFail
  /\ EndWithError

(* The peer has gone and the buffers towards it are full: the task waits   *)
(* in send, where no line is read and the deadline is not polled, until    *)
(* the kernel gives the connection up.                                     *)
SubmitBlocks ==
  /\ TakeShare
  /\ ~ShareIsStale(Head(submit_rx))
  /\ link = "silent" /\ next_id \in Ids
  /\ pc' = "writing"
  /\ UNCHANGED <<runVars, sessVars, netVars>>

BlockedWriteFails ==
  /\ pc = "writing"
  /\ EndWithError
  /\ UNCHANGED chanVars

(* Mutated form: the deadline is looked at only when a line arrives. *)
RotateRound_OnLine ==
  /\ pc = "live" /\ DevfeeOn /\ expired /\ wire # <<>>
  /\ EndRotate
  /\ UNCHANGED chanVars

RotateRound ==
  /\ pc = "live" /\ DevfeeOn /\ expired
  /\ EndRotate
  /\ UNCHANGED chanVars

(* submit_rx.recv() is None: every sender is gone and the queue is empty. *)
Shutdown ==
  /\ pc = "live" /\ submit_rx = <<>> /\ ~senders
  /\ HangUp /\ pc' = "ended"
  /\ UNCHANGED <<runVars, chanVars>>

Session ==
  \/ Wake \/ ConnectTcp \/ ConnectWss \/ Upgraded \/ ConnectFails
  \/ SendHandshake \/ HandshakeFails
  \/ ReadLine \/ ReadFails \/ ReadEof \/ NotificationPanics
  \/ DropStale \/ SubmitShare \/ SubmitFails \/ SubmitBlocks \/ BlockedWriteFails
  \/ RotateRound \/ Shutdown

-----------------------------------------------------------------------------
(* The environment: pool and network, and the miner's side of the channels. *)

envKeeps == <<runVars, pc, sessVars>>

PoolSends(line) ==
  /\ Connected /\ link = "up" /\ Len(wire) < MaxWire
  /\ wire' = Append(wire, line)

PoolNotifies(e) ==
  /\ PoolSends(EventLine(e))
  /\ poolJob' = IF e.kind = "NewJob" THEN e.job_id ELSE poolJob
  /\ UNCHANGED <<envKeeps, chanVars, link, unanswered>>

PoolAnswers(r) ==
  /\ PoolSends(ResponseLine(r))
  /\ unanswered' = unanswered \ {r}
  /\ UNCHANGED <<envKeeps, chanVars, link, poolJob>>

PoolMisspeaks ==
  /\ \E line \in {IgnoredLine, GarbageLine, PanicLine} : PoolSends(line)
  /\ UNCHANGED <<envKeeps, chanVars, link, unanswered, poolJob>>

(* Close lets the lines under way arrive; reset discards them; a silent    *)
(* loss leaves both ends unaware.                                          *)
LinkBreaks ==
  /\ \/ link = "up" /\ link' \in {"fin", "silent"} /\ UNCHANGED wire
     \/ link \in {"up", "fin"} /\ link' = "reset" /\ wire' = <<>>
  /\ UNCHANGED <<envKeeps, chanVars, unanswered, poolJob>>

(* recv() first reports that events were missed, and then the oldest left. *)
MinerNotesLag ==
  /\ lagged /\ lagged' = FALSE
  /\ UNCHANGED <<envKeeps, netVars, job_tx, submit_rx, senders, known, queued_in>>

MinerReceives ==
  /\ ~lagged /\ job_tx # <<>>
  /\ job_tx' = Tail(job_tx)
  /\ known' = IF Head(job_tx).kind = "NewJob" THEN known \cup {Head(job_tx).job_id}
                                              ELSE known
  /\ UNCHANGED <<envKeeps, netVars, lagged, submit_rx, senders, queued_in>>

MinerFinds(share) ==
  /\ senders /\ share.job_id \in known
  /\ submit_rx' = TrySend(submit_rx, SubmitCap, share)
  /\ queued_in' = TrySend(queued_in, SubmitCap, phase)
  /\ UNCHANGED <<envKeeps, netVars, job_tx, lagged, senders, known>>

(* main has returned and dropped its sender, the runtime still runs. *)
SendersDropped ==
  /\ senders /\ senders' = FALSE
  /\ UNCHANGED <<envKeeps, netVars, job_tx, lagged, submit_rx, known, queued_in>>

(* The task is over; nothing more happens to it. *)
Returned == Over /\ UNCHANGED vars

Environment ==
  \/ Expire
  \/ \E e \in Events : PoolNotifies(e)
  \/ \E r \in unanswered : PoolAnswers(r)
  \/ PoolMisspeaks \/ LinkBreaks
  \/ MinerNotesLag \/ MinerReceives
  \/ (\E share \in Shares : MinerFinds(share)) \/ SendersDropped

Next == Session \/ Environment \/ Returned

Spec == Init /\ [][Next]_vars

(* tokio polls every ready branch sooner or later, the kernel reports a    *)
(* broken connection and gives up on data that no one acknowledges, and    *)
(* clocks advance.  Nothing is assumed of the pool or of the rate at which *)
(* shares are found.                                                       *)
Fairness ==
  /\ WF_vars(Wake)
  /\ WF_vars(ConnectTcp \/ ConnectWss \/ ConnectFails)
  /\ WF_vars(SendHandshake \/ HandshakeFails)
  /\ WF_vars(ReadLine \/ ReadFails \/ ReadEof \/ NotificationPanics)
  /\ WF_vars(BlockedWriteFails)
  /\ WF_vars(RotateRound)
  /\ WF_vars(Expire)
  /\ WF_vars(MinerNotesLag \/ MinerReceives)

FairSpec == Spec /\ Fairness

-----------------------------------------------------------------------------
TypeOK ==
  /\ phase \in Phases /\ expired \in BOOLEAN /\ backoff \in 1..MaxBackoff
  /\ pc \in {"connecting", "upgrading", "handshake", "live", "writing", "sleeping",
             "ended", "panicked"}
  /\ step \in 1..Len(Handshake) + 1 /\ next_id \in 1..MaxId + 1
  /\ current_job_id \in JobIds \cup {NoJob}
  /\ pending \in [Ids -> Methods \cup {NoMethod}]
  /\ job_tx \in Seq(Events) /\ lagged \in BOOLEAN
  /\ submit_rx \in Seq(Shares) /\ senders \in BOOLEAN /\ known \subseteq JobIds
  /\ queued_in \in Seq(Phases) /\ Len(queued_in) = Len(submit_rx)
  /\ link \in {"none", "up", "fin", "reset", "silent"}
  /\ wire \in Seq(Lines) /\ unanswered \subseteq Requests
  /\ poolJob \in JobIds \cup {NoJob}
  /\ Len(job_tx) <= JobCap /\ Len(submit_rx) <= SubmitCap

Announces(line) == line.kind = "event" /\ line.ev.kind = "NewJob"
Answers(line)   == line.kind = "response"

JobUnderWay == \E i \in 1..Len(wire) : Announces(wire[i])

(* Requests whose answer the client still awaits: the pool holds them or   *)
(* its answer is under way.                                                *)
InFlight == unanswered \cup {wire[i].req : i \in {j \in 1..Len(wire) : Answers(wire[j])}}

(* Request ids and the pending map stay in step with the pool: whatever    *)
(* request the pool holds or has answered, its entry is still there under  *)
(* its id with its method, and no id stands for two requests - so that a   *)
(* bare {"result":true} is read as the verdict on the right request.       *)
ResponsesCorrelated ==
  pc = "live" =>
    \A r, s \in InFlight :
      /\ pending[r.id] = r.method
      /\ r.id < next_id
      /\ r.id = s.id => r = s

(* A connection speaks for one wallet: the rounds of user and dev never    *)
(* share a session, and a share queued in one round - however long it has  *)
(* waited, whatever connections failed meanwhile - is never submitted in   *)
(* the other.  Of the round in which the search for it began, the code     *)
(* knows nothing: a share queued after the drain passes on the strength of *)
(* its job id alone (StaleOnlyUnderWay).                                   *)
OneWalletPerConnection ==
  Connected => \A r \in InFlight : r.login = phase /\ r.round = phase

(* What share_is_stale compares with is the pool's own current job, up to  *)
(* the announcements that are still under way - also right after a         *)
(* reconnection, when the pool has announced nothing yet.                  *)
ClientTracksPool ==
  (Connected /\ link # "reset" /\ ~JobUnderWay) => current_job_id = poolJob

(* A share that reaches the pool is for the job the pool announced last,   *)
(* unless the announcement had not been read, or there was none.           *)
StaleOnlyUnderWay ==
  [][\A r \in unanswered' \ unanswered :
       r.method = "mining.submit" =>
         r.job = poolJob \/ JobUnderWay \/ poolJob = NoJob]_vars

(* README: the miner waits and reconnects on its own and never gives up.   *)
(* A connection whose peer has silently gone is left, whatever the rate at *)
(* which shares are found.                                                 *)
SilentLossIsLeft == link = "silent" ~> link # "silent"

Trouble == ConnectFails \/ LinkBreaks \/ PoolMisspeaks \/ SendersDropped

(* If the network and the pool behave from some point on, the miner is     *)
(* connected again and again (rounds end), in both wallets' rounds, unless *)
(* it was told to stop or a panic has ended the task.                      *)
RecoversAndAlternates ==
  <>[][~Trouble]_vars =>
     \/ <>(~senders \/ Over)
     \/ /\ []<>(pc = "live" /\ phase = "User")
        /\ []<>(pc = "live" /\ phase = "Dev")

(* README: "0% dev-fee - the binary mines 100% to *your* wallet".          *)
EveryShareForTheUser ==
  [][\A r \in unanswered' \ unanswered :
       r.method = "mining.submit" => r.login = "User"]_vars

(* The session task implements its abstract specification; the share in a  *)
(* write that waits has been handed over.                                  *)
Pool == INSTANCE PoolSession WITH
          st       <- CASE pc = "handshake" -> "greeting" [] pc \in {"live", "writing"} -> "live"
                        [] Over -> "ended" [] OTHER -> "down",
          live_job <- IF Connected THEN current_job_id ELSE NoJob,
          sent     <- CASE pc = "live" -> next_id - 1 - Len(Handshake)
                        [] pc = "writing" -> next_id - Len(Handshake) [] OTHER -> 0,
          MaxSent  <- MaxId - Len(Handshake)

ImplementsPoolSession == Pool!Spec

=============================================================================
