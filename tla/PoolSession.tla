---------------------------- MODULE PoolSession ----------------------------
(***************************************************************************)
(* What the session task promises to the rest of the miner, without the    *)
(* connection, the requests and the rounds behind it: a session opens with *)
(* an empty submit queue and no job, relays every announcement to the main *)
(* loop over a channel that forgets the oldest when it is full, and hands  *)
(* each share it takes to the pool at most once, in order, unless the pool *)
(* has announced another job in this very session.                         *)
(*                                                                         *)
(* Stratum implements it; Tworker is checked against it.                   *)
(***************************************************************************)
EXTENDS Channels

CONSTANTS
  NoJob,      \* no job announced yet
  Events,     \* what the pool announces; "NewJob" events carry a job_id
  Shares,     \* what the search threads submit; a share carries a job_id
  JobCap, SubmitCap,
  MaxSent     \* bound: shares handed to the pool in one session

VARIABLES
  st,         \* "down", "greeting", "live" or "ended"
  live_job,   \* the job announced last in this session
  sent,       \* shares handed to the pool in this session
  job_tx, lagged, submit_rx, senders

taskVars == <<st, live_job, sent>>
vars     == <<taskVars, job_tx, lagged, submit_rx, senders>>

Init ==
  /\ st = "down" /\ live_job = NoJob /\ sent = 0
  /\ job_tx = <<>> /\ lagged = FALSE /\ submit_rx = <<>> /\ senders = TRUE

-----------------------------------------------------------------------------
(* The task.                                                               *)

Open ==
  /\ st = "down" /\ st' = "greeting"
  /\ submit_rx' = <<>>
  /\ UNCHANGED <<live_job, sent, job_tx, lagged, senders>>

Greeted ==
  /\ st = "greeting" /\ st' = "live"
  /\ UNCHANGED <<live_job, sent, job_tx, lagged, submit_rx, senders>>

Announce(e) ==
  /\ st = "live"
  /\ job_tx' = BroadcastSend(job_tx, JobCap, e)
  /\ lagged' = (lagged \/ IsFull(job_tx, JobCap))
  /\ live_job' = IF e.kind = "NewJob" THEN e.job_id ELSE live_job
  /\ UNCHANGED <<st, sent, submit_rx, senders>>

Take == /\ st = "live" /\ submit_rx # <<>>
        /\ submit_rx' = Tail(submit_rx)
        /\ UNCHANGED <<job_tx, lagged, senders>>

Superseded(s) == live_job # NoJob /\ s.job_id # live_job

Forward ==
  /\ Take
  /\ ~Superseded(Head(submit_rx))
  /\ sent < MaxSent /\ sent' = sent + 1
  /\ UNCHANGED <<st, live_job>>

Discard == Take /\ Superseded(Head(submit_rx)) /\ UNCHANGED taskVars

(* The session is lost, perhaps with the share that was being handed over. *)
Lose ==
  /\ st \in {"greeting", "live"}
  /\ st' = "down" /\ live_job' = NoJob /\ sent' = 0
  /\ \/ UNCHANGED <<job_tx, lagged, submit_rx, senders>>
     \/ Take

(* No one is left to submit, or the task dies of a line it cannot digest.  *)
End ==
  /\ st = "live" /\ st' = "ended" /\ live_job' = NoJob /\ sent' = 0
  /\ UNCHANGED <<job_tx, lagged, submit_rx, senders>>

Task == Open \/ Greeted \/ (\E e \in Events : Announce(e))
          \/ Forward \/ Discard \/ Lose \/ End

-----------------------------------------------------------------------------
(* Its clients.                                                            *)

NoteLag ==
  /\ lagged /\ lagged' = FALSE
  /\ UNCHANGED <<taskVars, job_tx, submit_rx, senders>>

Receive ==
  /\ ~lagged /\ job_tx # <<>>
  /\ job_tx' = Tail(job_tx)
  /\ UNCHANGED <<taskVars, lagged, submit_rx, senders>>

Submit(s) ==
  /\ senders
  /\ submit_rx' = TrySend(submit_rx, SubmitCap, s)
  /\ UNCHANGED <<taskVars, job_tx, lagged, senders>>

DropSenders ==
  /\ senders /\ senders' = FALSE
  /\ UNCHANGED <<taskVars, job_tx, lagged, submit_rx>>

Clients == NoteLag \/ Receive \/ (\E s \in Shares : Submit(s)) \/ DropSenders

Next == Task \/ Clients

Spec == Init /\ [][Next]_vars

=============================================================================
