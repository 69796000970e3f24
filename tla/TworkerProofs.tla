--------------------------- MODULE TworkerProofs ---------------------------
(***************************************************************************)
(* The main loop and its threads, for any jobs, params, dialect, channel   *)
(* capacities, number of candidates and threads.                           *)
(*                                                                         *)
(* PhaseInv says where the main loop and the threads may be at the same    *)
(* time; OneGeneration follows.  NewestInv follows the newest announcement *)
(* from the channel to the slot, by way of the tuning; SlotHasDifficulty   *)
(* is inductive with them.                                                 *)
(***************************************************************************)
EXTENDS Tworker, TLAPS

Tuning == mpc \in {"tune", "measure", "join"}

Busy(g, t) == thread[g][t] \in {"top", "mining"}

(* A generation runs while the main loop expects it to.                    *)
MayRun(g) ==
  IF g = Mining THEN mpc \in {"select", "retire"} ELSE mpc \in {"measure", "join"} /\ g = cand

ThreadInv ==
  \A g \in Gens, t \in Threads :
    /\ Busy(g, t) => MayRun(g) /\ job_slot[g] \in GrindJobs
    /\ thread[g][t] = "mining" => snapshot[g][t] \in JobIds

LoopInv ==
  /\ Tuning => tuning \in JobIds /\ job_slot[Mining] = NoGrind /\ cur_params # NoParams
  /\ mpc \in {"measure", "join"} => cand <= Candidates
  /\ job_slot[Mining] # NoGrind => cur_params # NoParams
  /\ mpc # "exited" => senders
  /\ outcome \in [newest : {"none", "queued", "forgotten", "refused", "taken"}, built : BOOLEAN]

PhaseInv == ThreadInv /\ LoopInv

(* The job that is being tuned for, or mined. *)
Held == IF Tuning THEN tuning ELSE job_slot[Mining].job_id

(* The last announcement in the channel, if there is one, is the newest,   *)
(* and it is there only as long as it is queued.                           *)
ChannelInv ==
  /\ outcome.newest # "queued" => \A i \in 1..Len(job_tx) : ~IsJob(job_tx[i])
  /\ \A i \in 1..Len(job_tx) :
       (IsJob(job_tx[i]) /\ live_job # NoJob
          /\ \A k \in i + 1..Len(job_tx) : ~IsJob(job_tx[k])) => job_tx[i].job_id = live_job

HeldInv == (outcome.newest = "taken" /\ live_job # NoJob) => Held = live_job

NewestInv == ChannelInv /\ HeldInv

IndInv == TypeOK /\ PhaseInv /\ NewestInv /\ SlotHasDifficulty

-----------------------------------------------------------------------------
(* Constants and records.                                                  *)

LEMMA EventFields ==
  ASSUME NEW e \in Events
  PROVE  /\ IsJob(e) => e.job_id \in JobIds
         /\ e.kind = "Params" => e.params \in Params
         /\ e.kind = "SetDifficulty" => e.difficulty \in Diffs
BY DEF Events, IsJob

LEMMA GenFacts ==
  /\ Candidates \in Nat \ {0} /\ Mining \in Gens
  /\ \A c \in 1..Candidates : c \in Gens /\ c # Mining /\ c \in Batches
BY ConstantsAssumption DEF Gens, Mining, Batches

LEMMA NoGrindFacts ==
  /\ NoGrind.job_id = NoJob
  /\ \A job \in GrindJobs : job # NoGrind /\ job.job_id \in JobIds /\ job.params \in Params
                              /\ job.difficulty \in Diffs /\ job.batch \in Batches
BY ConstantsAssumption DEF GrindJobs, NoGrind

LEMMA GrindJobFields ==
  ASSUME NEW p \in Params, NEW j \in JobIds, NEW d \in Diffs, batch \in Batches
  PROVE  /\ GrindJob(p, j, d) \in GrindJobs
         /\ GrindJob(p, j, d).job_id = j /\ GrindJob(p, j, d).difficulty = d
         /\ GrindJob(p, j, d).batch = batch
BY DEF GrindJob, GrindJobs

LEMMA DifficultyType ==
  ASSUME cur_difficulty \in Diffs, NEW j \in JobIds PROVE DifficultyOf(j) \in Diffs
BY ConstantsAssumption DEF DifficultyOf

LEMMA TailType ==
  ASSUME NEW S, NEW q \in Seq(S), q # <<>>
  PROVE  /\ Tail(q) \in Seq(S) /\ Len(Tail(q)) = Len(q) - 1 /\ Len(q) \in Nat \ {0}
         /\ Head(q) \in S /\ Head(q) = q[1]
         /\ \A i \in 1..Len(Tail(q)) : Tail(q)[i] = q[i + 1]
OBVIOUS

LEMMA TrySendType ==
  ASSUME NEW S, NEW q \in Seq(S), NEW cap \in Nat \ {0}, NEW s \in S, Len(q) <= cap
  PROVE  TrySend(q, cap, s) \in Seq(S) /\ Len(TrySend(q, cap, s)) <= cap
BY DEF TrySend, IsFull

(* What is sent comes last; the rest moves by one if the oldest is lost.   *)
LEMMA BroadcastSendType ==
  ASSUME NEW S, NEW q \in Seq(S), NEW cap \in Nat \ {0}, NEW e \in S, Len(q) <= cap,
         NEW r, r = BroadcastSend(q, cap, e),
         NEW lost, lost = IF IsFull(q, cap) THEN 1 ELSE 0
  PROVE  /\ r \in Seq(S) /\ Len(r) <= cap /\ Len(r) = Len(q) + 1 - lost
         /\ r[Len(r)] = e
         /\ \A i \in 1..Len(r) - 1 : r[i] = q[i + lost]
<1>1. CASE IsFull(q, cap)
  <2>1. q # <<>> /\ Len(q) = cap
    BY <1>1 DEF IsFull
  <2>2. Tail(q) \in Seq(S) /\ Len(Tail(q)) = Len(q) - 1
        /\ \A i \in 1..Len(Tail(q)) : Tail(q)[i] = q[i + 1]
    BY <2>1, TailType
  <2> QED BY <1>1, <2>1, <2>2 DEF BroadcastSend
<1>2. CASE ~IsFull(q, cap)
  BY <1>2 DEF BroadcastSend, IsFull
<1> QED BY <1>1, <1>2

-----------------------------------------------------------------------------
LEMMA InitInv == Init => IndInv
<1> SUFFICES ASSUME Init PROVE IndInv
  OBVIOUS
<1> USE DEF Init, Pool!Init
<1>1. TypeOK
  <2>1. cur_params \in Params \cup {NoParams} /\ cur_difficulty \in Diffs
    BY ConstantsAssumption
  <2>2. batch \in Batches /\ cand \in 1..Candidates + 1 /\ sent \in 0..MaxSent
    BY ConstantsAssumption DEF Batches
  <2>3. /\ job_tx \in Seq(Events) /\ Len(job_tx) <= JobCap
        /\ submit_rx \in Seq(Shares) /\ Len(submit_rx) <= SubmitCap
    BY ConstantsAssumption
  <2>4. job_slot \in [Gens -> GrindJobs \cup {NoGrind}] /\ stop \in [Gens -> BOOLEAN]
    OBVIOUS
  <2>5. /\ thread \in [Gens -> [Threads -> {"none", "top", "mining", "gone"}]]
        /\ snapshot \in [Gens -> [Threads -> JobIds \cup {NoJob}]]
    OBVIOUS
  <2> QED BY <2>1, <2>2, <2>3, <2>4, <2>5 DEF TypeOK
<1>2. PhaseInv
  BY GenFacts DEF PhaseInv, ThreadInv, LoopInv, Busy, Tuning
<1>3. NewestInv
  BY DEF NewestInv, ChannelInv, HeldInv
<1>4. SlotHasDifficulty
  BY GenFacts DEF SlotHasDifficulty
<1> QED BY <1>1, <1>2, <1>3, <1>4 DEF IndInv

-----------------------------------------------------------------------------
(* The session task.                                                       *)

LEMMA AnnouncesInv ==
  ASSUME IndInv, NEW e \in Events, PoolAnnounces(e) PROVE IndInv'
<1> DEFINE lost == IF IsFull(job_tx, JobCap) THEN 1 ELSE 0
<1>0. /\ UNCHANGED <<mainVars, signalled, thrVars, st, sent, submit_rx, senders>>
      /\ job_tx' = BroadcastSend(job_tx, JobCap, e)
      /\ lagged' = (lagged \/ IsFull(job_tx, JobCap))
      /\ live_job' = IF IsJob(e) THEN e.job_id ELSE live_job
      /\ outcome' = [outcome EXCEPT !.newest =
                       IF IsJob(e) THEN "queued"
                       ELSE IF LostByBroadcast THEN "forgotten" ELSE @]
  BY DEF PoolAnnounces, Pool!Announce, IsJob, Pool!BroadcastSend, BroadcastSend, Pool!IsFull, IsFull
<1>1. /\ job_tx' \in Seq(Events) /\ Len(job_tx') <= JobCap
      /\ Len(job_tx') = Len(job_tx) + 1 - lost
      /\ job_tx'[Len(job_tx')] = e
      /\ \A i \in 1..Len(job_tx') - 1 : job_tx'[i] = job_tx[i + lost]
  <2>1. job_tx \in Seq(Events) /\ Len(job_tx) <= JobCap /\ JobCap \in Nat \ {0}
    BY ConstantsAssumption DEF IndInv, TypeOK
  <2> QED BY <1>0, <2>1, BroadcastSendType
<1>2. TypeOK'
  <2>1. live_job' \in JobIds \cup {NoJob} /\ lagged' \in BOOLEAN
    BY <1>0, EventFields DEF IndInv, TypeOK, IsFull
  <2>2. outcome'.newest \in {"none", "queued", "forgotten", "refused", "taken"}
        /\ outcome'.built \in BOOLEAN
    BY <1>0 DEF IndInv, PhaseInv, LoopInv
  <2> QED BY <1>0, <1>1, <2>1, <2>2 DEF IndInv, TypeOK, mainVars, thrVars
<1>3. PhaseInv'
  <2>1. ThreadInv'
    BY <1>0 DEF IndInv, PhaseInv, ThreadInv, Busy, MayRun, mainVars, thrVars
  <2>2. LoopInv'
    BY <1>0 DEF IndInv, PhaseInv, LoopInv, Tuning, mainVars
  <2> QED BY <2>1, <2>2 DEF PhaseInv
<1>4. SlotHasDifficulty'
  BY <1>0 DEF IndInv, SlotHasDifficulty, PhaseInv, LoopInv, mainVars
<1>5. HeldInv'
  BY <1>0 DEF IndInv, NewestInv, HeldInv, Held, Tuning, mainVars, PhaseInv, LoopInv
<1>6. ChannelInv'
  <2>0. Len(job_tx) \in Nat /\ lost \in {0, 1} /\ Len(job_tx') \in Nat \ {0} /\ Len(job_tx) >= lost
    BY <1>1, ConstantsAssumption DEF IndInv, TypeOK, IsFull
  <2>1. CASE IsJob(e)
    BY <1>0, <1>1, <2>0, <2>1, SMTT(20) DEF ChannelInv, PhaseInv, LoopInv, IndInv
  <2>2. CASE ~IsJob(e)
    <3>1. outcome'.newest # "queued" => \A i \in 1..Len(job_tx') : ~IsJob(job_tx'[i])
      <4>1. CASE outcome.newest # "queued"
        BY <1>1, <2>0, <2>2, <4>1 DEF IndInv, NewestInv, ChannelInv
      <4>2. CASE LostByBroadcast
        <5>1. lost = 1 /\ \A i \in 2..Len(job_tx) : ~IsJob(job_tx[i])
          BY <4>2 DEF LostByBroadcast
        <5> QED BY <1>1, <2>0, <2>2, <5>1
      <4>3. CASE outcome.newest = "queued" /\ ~LostByBroadcast
        BY <1>0, <2>2, <4>3 DEF IndInv, PhaseInv, LoopInv
      <4> QED BY <4>1, <4>2, <4>3
    <3>2. ASSUME NEW i \in 1..Len(job_tx'), IsJob(job_tx'[i]), live_job' # NoJob,
                 \A k \in i + 1..Len(job_tx') : ~IsJob(job_tx'[k])
          PROVE  job_tx'[i].job_id = live_job'
      <4>1. i # Len(job_tx') /\ i \in 1..Len(job_tx') - 1 /\ i + lost \in 1..Len(job_tx)
        BY <1>1, <2>0, <2>2, <3>2
      <4>2. job_tx'[i] = job_tx[i + lost]
        BY <1>1, <4>1
      <4>3. ASSUME NEW k \in i + lost + 1..Len(job_tx) PROVE ~IsJob(job_tx[k])
        <5>1. k - lost \in i + 1..Len(job_tx') - 1 /\ (k - lost) + lost = k
          BY <1>1, <2>0, <4>1
        <5>2. job_tx'[k - lost] = job_tx[k] /\ k - lost \in i + 1..Len(job_tx')
          BY <1>1, <2>0, <4>1, <5>1
        <5> QED BY <3>2, <5>2
      <4> QED BY <1>0, <2>2, <3>2, <4>1, <4>2, <4>3 DEF IndInv, NewestInv, ChannelInv
    <3> QED BY <3>1, <3>2 DEF ChannelInv
  <2> QED BY <2>1, <2>2
<1> QED BY <1>2, <1>3, <1>4, <1>5, <1>6 DEF IndInv, NewestInv
(* A session that is lost forgets its job, nothing more. *)
LEMMA SessionInv ==
  ASSUME IndInv, SessionMoves PROVE IndInv'
<1>1. /\ UNCHANGED <<mainVars, signalled, thrVars, outcome, job_tx, lagged, senders>>
      /\ live_job' \in {live_job, NoJob}
      /\ st' \in {"down", "greeting", "live", "ended"}
  BY DEF SessionMoves, Pool!Open, Pool!Greeted, Pool!Forward, Pool!Discard, Pool!Lose, Pool!End,
         Pool!Take, Pool!taskVars, IndInv, TypeOK
<1>2. submit_rx' \in Seq(Shares) /\ Len(submit_rx') <= SubmitCap
  <2>1. submit_rx \in Seq(Shares) /\ Len(submit_rx) <= SubmitCap /\ SubmitCap \in Nat \ {0}
    BY ConstantsAssumption DEF IndInv, TypeOK
  <2>2. submit_rx' = submit_rx \/ submit_rx' = <<>> \/ (submit_rx # <<>> /\ submit_rx' = Tail(submit_rx))
    BY DEF SessionMoves, Pool!Open, Pool!Greeted, Pool!Forward, Pool!Discard, Pool!Lose, Pool!End,
           Pool!Take, Pool!taskVars
  <2>3. CASE submit_rx # <<>> /\ submit_rx' = Tail(submit_rx)
    BY <2>1, <2>3, TailType
  <2>4. CASE submit_rx' = <<>>
    <3>1. <<>> \in Seq(Shares) /\ Len(<<>>) = 0
      OBVIOUS
    <3> QED BY <2>1, <2>4, <3>1
  <2>5. CASE submit_rx' = submit_rx
    BY <2>1, <2>5
  <2> QED BY <2>2, <2>3, <2>4, <2>5
<1>3. sent' \in 0..MaxSent
  BY ConstantsAssumption
     DEF SessionMoves, Pool!Open, Pool!Greeted, Pool!Forward, Pool!Discard, Pool!Lose, Pool!End,
         Pool!Take, Pool!taskVars, IndInv, TypeOK
<1>4. TypeOK'
  BY <1>1, <1>2, <1>3 DEF IndInv, TypeOK, mainVars, thrVars
<1>5. PhaseInv'
  BY <1>1 DEF IndInv, PhaseInv, ThreadInv, LoopInv, Busy, MayRun, Tuning, mainVars, thrVars
<1>6. NewestInv' /\ SlotHasDifficulty'
  BY <1>1 DEF IndInv, NewestInv, ChannelInv, HeldInv, Held, Tuning, SlotHasDifficulty, mainVars
<1> QED BY <1>4, <1>5, <1>6 DEF IndInv

-----------------------------------------------------------------------------
(* The main loop.  What every branch that receives an event has in common: *)
(* mined is the answer to an announcement that no other follows.           *)

LEMMA ReceivedKeeps ==
  ASSUME IndInv, NEW e \in Events, Received(e), NEW answer \in {"refused", "taken"}, 
         outcome' \in [newest : {"none", "queued", "forgotten", "refused", "taken"}, built : BOOLEAN],
         outcome'.newest = IF IsJob(e) /\ IsNewest THEN answer ELSE outcome.newest
  PROVE  /\ mpc = "select" /\ ~Tuning
         /\ st' \in {"down", "greeting", "live", "ended"}
         /\ live_job' \in JobIds \cup {NoJob} /\ sent' \in 0..MaxSent
         /\ job_tx' \in Seq(Events) /\ Len(job_tx') <= JobCap /\ lagged' \in BOOLEAN
         /\ submit_rx' \in Seq(Shares) /\ Len(submit_rx') <= SubmitCap /\ senders' \in BOOLEAN
         /\ signalled' \in BOOLEAN
         /\ UNCHANGED <<live_job, senders, snapshot>>
         /\ ChannelInv'
         /\ (IsJob(e) /\ IsNewest /\ live_job # NoJob) => e.job_id = live_job
         /\ (IsJob(e) /\ ~IsNewest) => outcome'.newest = "queued"
<1>1. /\ mpc = "select" /\ job_tx # <<>> /\ e = Head(job_tx) /\ job_tx' = Tail(job_tx)
      /\ UNCHANGED <<st, live_job, sent, lagged, submit_rx, senders, signalled, snapshot>>
  BY DEF Received
<1>2. /\ job_tx \in Seq(Events) /\ Len(job_tx) <= JobCap /\ JobCap \in Nat
  BY ConstantsAssumption DEF IndInv, TypeOK
<1>3. /\ Len(job_tx') = Len(job_tx) - 1 /\ Len(job_tx) \in Nat \ {0}
      /\ e = job_tx[1] /\ job_tx' \in Seq(Events)
      /\ \A i \in 1..Len(job_tx') : job_tx'[i] = job_tx[i + 1]
  BY <1>1, <1>2, TailType
<1>4. ChannelInv
  BY DEF IndInv, NewestInv
<1>5. ASSUME outcome'.newest # "queued", NEW i \in 1..Len(job_tx') PROVE ~IsJob(job_tx'[i])
  <2>1. job_tx'[i] = job_tx[i + 1] /\ i + 1 \in 2..Len(job_tx) /\ i + 1 \in 1..Len(job_tx)
    BY <1>3
  <2> QED BY <1>4, <1>5, <2>1 DEF ChannelInv, IsNewest
<1>6. ASSUME NEW i \in 1..Len(job_tx'), IsJob(job_tx'[i]), live_job' # NoJob,
             \A k \in i + 1..Len(job_tx') : ~IsJob(job_tx'[k])
      PROVE  job_tx'[i].job_id = live_job'
  <2>1. job_tx'[i] = job_tx[i + 1] /\ i + 1 \in 1..Len(job_tx)
    BY <1>3
  <2>2. ASSUME NEW k \in (i + 1) + 1..Len(job_tx) PROVE ~IsJob(job_tx[k])
    <3>1. k - 1 \in i + 1..Len(job_tx') /\ job_tx'[k - 1] = job_tx[k]
      BY <1>3
    <3> QED BY <1>6, <3>1
  <2> QED BY <1>1, <1>4, <1>6, <2>1, <2>2 DEF ChannelInv
<1>7. ASSUME IsJob(e), IsNewest, live_job # NoJob PROVE e.job_id = live_job
  <2>1. 1 \in 1..Len(job_tx) /\ \A k \in 1 + 1..Len(job_tx) : ~IsJob(job_tx[k])
    BY <1>3, <1>7 DEF IsNewest
  <2> QED BY <1>3, <1>4, <1>7, <2>1 DEF ChannelInv
<1>8. ASSUME IsJob(e), ~IsNewest PROVE outcome'.newest = "queued"
  <2>1. PICK i \in 2..Len(job_tx) : IsJob(job_tx[i])
    BY <1>8 DEF IsNewest
  <2>2. outcome.newest = "queued"
    BY <1>4, <2>1 DEF ChannelInv
  <2> QED BY <1>8, <2>2
<1> QED BY <1>1, <1>2, <1>3, <1>5, <1>6, <1>7, <1>8 DEF IndInv, TypeOK, ChannelInv, Tuning

(* A branch that starts no thread and leaves the slot.                     *)
LEMMA OnParamsInv ==
  ASSUME IndInv, NEW e \in Events, OnParams(e) PROVE IndInv'
<1>0. /\ Received(e) /\ ~IsJob(e) /\ cur_params' = e.params /\ e.params \in Params
      /\ UNCHANGED <<mpc, cur_difficulty, batch, tuning, cand, job_slot, stop, thread, outcome>>
  BY EventFields DEF OnParams, IsJob
<1>1. outcome' \in [newest : {"none", "queued", "forgotten", "refused", "taken"}, built : BOOLEAN]
  BY <1>0 DEF IndInv, PhaseInv, LoopInv
<1>2. /\ mpc = "select" /\ ~Tuning /\ ChannelInv' /\ UNCHANGED <<live_job, senders, snapshot>>
      /\ TypeOK'
  BY <1>0, <1>1, ReceivedKeeps DEF IndInv, TypeOK
<1>3. PhaseInv'
  BY <1>0, <1>2, ConstantsAssumption DEF IndInv, PhaseInv, ThreadInv, LoopInv, Busy, MayRun, Tuning
<1>4. HeldInv' /\ SlotHasDifficulty'
  BY <1>0, <1>2 DEF IndInv, NewestInv, HeldInv, Held, Tuning, SlotHasDifficulty
<1> QED BY <1>2, <1>3, <1>4 DEF IndInv, NewestInv

LEMMA OnSetDifficultyInv ==
  ASSUME IndInv, NEW e \in Events, OnSetDifficulty(e) PROVE IndInv'
<1> DEFINE live == job_slot[Mining]
<1>0. /\ Received(e) /\ ~IsJob(e) /\ cur_difficulty' = e.difficulty /\ e.difficulty \in Diffs
      /\ UNCHANGED <<mpc, cur_params, batch, tuning, cand, stop, thread>>
  BY EventFields DEF OnSetDifficulty, IsJob
<1>1. live \in GrindJobs \cup {NoGrind} /\ Mining \in Gens /\ batch \in Batches
  BY GenFacts DEF IndInv, TypeOK
<1>2. \/ UNCHANGED <<job_slot, outcome>> /\ live = NoGrind
      \/ /\ live \in GrindJobs /\ job_slot' = job_slot
         /\ outcome' = [outcome EXCEPT !.built = FALSE]
      \/ /\ live \in GrindJobs /\ cur_params \in Params
         /\ job_slot' = [job_slot EXCEPT ![Mining] = GrindJob(cur_params, live.job_id, e.difficulty)]
         /\ outcome' = [outcome EXCEPT !.built = TRUE]
  <2>1. CASE live # NoGrind /\ cur_params # NoParams
    BY <1>1, <2>1 DEF OnSetDifficulty, Builds, IndInv, TypeOK
  <2>2. CASE ~(live # NoGrind /\ cur_params # NoParams)
    <3>1. live = NoGrind
      BY <2>2 DEF IndInv, PhaseInv, LoopInv
    <3> QED BY <2>2, <3>1 DEF OnSetDifficulty
  <2> QED BY <2>1, <2>2
<1>3. outcome' \in [newest : {"none", "queued", "forgotten", "refused", "taken"}, built : BOOLEAN]
      /\ outcome'.newest = outcome.newest
  BY <1>2 DEF IndInv, PhaseInv, LoopInv
<1>4. /\ job_slot' \in [Gens -> GrindJobs \cup {NoGrind}]
      /\ job_slot'[Mining].job_id = live.job_id
      /\ (job_slot'[Mining] = NoGrind) <=> (live = NoGrind)
      /\ \A g \in Gens : job_slot[g] \in GrindJobs => job_slot'[g] \in GrindJobs
      /\ live # NoGrind => /\ outcome'.built => job_slot'[Mining].difficulty = cur_difficulty'
                           /\ job_slot'[Mining].batch = batch
  <2>1. CASE live = NoGrind
    BY <1>2, <2>1, NoGrindFacts DEF IndInv, TypeOK
  <2>2. CASE live \in GrindJobs /\ job_slot' = job_slot /\ outcome' = [outcome EXCEPT !.built = FALSE]
    BY <2>2, NoGrindFacts DEF IndInv, TypeOK, PhaseInv, LoopInv, SlotHasDifficulty
  <2>3. CASE /\ live \in GrindJobs /\ cur_params \in Params
             /\ job_slot' = [job_slot EXCEPT ![Mining] = GrindJob(cur_params, live.job_id, e.difficulty)]
    <3>1. live.job_id \in JobIds
      BY <2>3, NoGrindFacts
    <3> DEFINE new == GrindJob(cur_params, live.job_id, e.difficulty)
    <3>2. new \in GrindJobs /\ new # NoGrind /\ new.job_id = live.job_id
          /\ new.difficulty = e.difficulty /\ new.batch = batch
      BY <1>0, <1>1, <2>3, <3>1, GrindJobFields, NoGrindFacts
    <3> HIDE DEF new
    <3>3. job_slot' = [job_slot EXCEPT ![Mining] = new]
      BY <2>3 DEF new
    <3>4. live # NoGrind
      BY <2>3, NoGrindFacts
    <3> QED BY <1>0, <1>1, <3>2, <3>3, <3>4 DEF IndInv, TypeOK
  <2> QED BY <1>2, <2>1, <2>2, <2>3
<1>5. /\ mpc = "select" /\ ~Tuning /\ ChannelInv' /\ UNCHANGED <<live_job, senders, snapshot>>
      /\ TypeOK'
  BY <1>0, <1>3, <1>4, ReceivedKeeps DEF IndInv, TypeOK
<1>6. PhaseInv'
  BY <1>0, <1>3, <1>4, <1>5 DEF IndInv, PhaseInv, ThreadInv, LoopInv, Busy, MayRun, Tuning
<1>7. HeldInv' /\ SlotHasDifficulty'
  BY <1>0, <1>3, <1>4, <1>5 DEF IndInv, NewestInv, HeldInv, Held, Tuning, SlotHasDifficulty
<1> QED BY <1>5, <1>6, <1>7 DEF IndInv, NewestInv

(* An announcement that is refused is not held, and the slot stays.        *)
LEMMA RefusedInv ==
  ASSUME IndInv, NEW e \in Events, JobBeforeParams(e) \/ BuildFails(e) PROVE IndInv'
<1>0. /\ Received(e) /\ IsJob(e) /\ e.job_id \in JobIds
      /\ UNCHANGED <<mpc, cur_params, batch, tuning, cand, job_slot, stop, thread>>
  BY EventFields DEF JobBeforeParams, BuildFails, mainVars
<1>1. /\ cur_difficulty' \in Diffs
      /\ \/ cur_difficulty' = cur_difficulty /\ Outcome("refused", outcome.built)
         \/ Outcome("refused", FALSE)
  BY <1>0, DifficultyType DEF JobBeforeParams, BuildFails, mainVars, IndInv, TypeOK
<1>2. /\ outcome' \in [newest : {"none", "queued", "forgotten", "refused", "taken"}, built : BOOLEAN]
      /\ outcome'.newest = IF IsJob(e) /\ IsNewest THEN "refused" ELSE outcome.newest
      /\ outcome'.built => outcome.built /\ cur_difficulty' = cur_difficulty
  <2>1. outcome.newest \in {"none", "queued", "forgotten", "refused", "taken"} /\ outcome.built \in BOOLEAN
    BY DEF IndInv, PhaseInv, LoopInv
  <2>2. CASE cur_difficulty' = cur_difficulty /\ Outcome("refused", outcome.built)
    BY <1>0, <2>1, <2>2 DEF Outcome
  <2>3. CASE Outcome("refused", FALSE)
    BY <1>0, <2>1, <2>3 DEF Outcome
  <2> QED BY <1>1, <2>2, <2>3
<1>3. /\ mpc = "select" /\ ~Tuning /\ ChannelInv' /\ UNCHANGED <<live_job, senders, snapshot>>
      /\ TypeOK'
      /\ outcome'.newest # "taken"
  BY <1>0, <1>1, <1>2, ReceivedKeeps DEF IndInv, TypeOK
<1>4. PhaseInv'
  BY <1>0, <1>2, <1>3 DEF IndInv, PhaseInv, ThreadInv, LoopInv, Busy, MayRun, Tuning
<1>5. HeldInv' /\ SlotHasDifficulty'
  BY <1>0, <1>2, <1>3 DEF IndInv, HeldInv, SlotHasDifficulty
<1> QED BY <1>3, <1>4, <1>5 DEF IndInv, NewestInv

(* One that is taken is what the slot, or the tuning, holds from then on.  *)
LEMMA TakenInv ==
  ASSUME IndInv, NEW e \in Events, ReplaceJob(e) \/ FirstJob(e) \/ FirstJobToTune(e)
  PROVE  IndInv'
<1> DEFINE new == GrindJob(cur_params, e.job_id, DifficultyOf(e.job_id))
<1>0. /\ Received(e) /\ IsJob(e) /\ e.job_id \in JobIds /\ cur_params \in Params
      /\ cur_difficulty' = DifficultyOf(e.job_id) /\ cur_difficulty' \in Diffs
      /\ Outcome("taken", TRUE)
      /\ UNCHANGED <<cur_params, batch, cand, stop>>
  BY EventFields, DifficultyType
     DEF ReplaceJob, FirstJob, FirstJobToTune, BuiltJob, IndInv, TypeOK
<1>1. /\ outcome' \in [newest : {"none", "queued", "forgotten", "refused", "taken"}, built : BOOLEAN]
      /\ outcome'.newest = IF IsJob(e) /\ IsNewest THEN "taken" ELSE outcome.newest
  BY <1>0 DEF Outcome, IndInv, PhaseInv, LoopInv
<1>2. /\ mpc = "select" /\ ~Tuning /\ ChannelInv' /\ UNCHANGED <<live_job, senders, snapshot>>
      /\ (outcome'.newest = "taken" /\ live_job # NoJob) => e.job_id = live_job
      /\ st' \in {"down", "greeting", "live", "ended"} /\ sent' \in 0..MaxSent
      /\ job_tx' \in Seq(Events) /\ Len(job_tx') <= JobCap /\ lagged' \in BOOLEAN
      /\ submit_rx' \in Seq(Shares) /\ Len(submit_rx') <= SubmitCap /\ signalled' \in BOOLEAN
  BY <1>0, <1>1, ReceivedKeeps
<1>3. /\ Mining \in Gens /\ job_slot \in [Gens -> GrindJobs \cup {NoGrind}]
      /\ thread \in [Gens -> [Threads -> {"none", "top", "mining", "gone"}]]
      /\ new \in GrindJobs /\ new # NoGrind /\ new.job_id = e.job_id
      /\ new.difficulty = cur_difficulty' /\ new.batch = batch
  BY <1>0, GenFacts, GrindJobFields, NoGrindFacts DEF IndInv, TypeOK
<1> HIDE DEF new
<1>4. CASE FirstJobToTune(e)
  <2>1. /\ job_slot[Mining] = NoGrind /\ mpc' = "tune" /\ tuning' = e.job_id
        /\ UNCHANGED <<job_slot, thread>>
    BY <1>4 DEF FirstJobToTune
  <2>2. TypeOK'
    BY <1>0, <1>1, <1>2, <2>1 DEF IndInv, TypeOK
  <2>3. ThreadInv'
    <3>1. ASSUME NEW g \in Gens, NEW t \in Threads PROVE ~Busy(g, t)
      BY <1>2, <2>1, NoGrindFacts DEF IndInv, PhaseInv, ThreadInv, MayRun
    <3> QED BY <2>1, <3>1 DEF ThreadInv, Busy
  <2>4. LoopInv'
    BY <1>0, <1>1, <1>2, <2>1, ConstantsAssumption DEF IndInv, PhaseInv, LoopInv, Tuning
  <2>5. HeldInv' /\ SlotHasDifficulty'
    BY <1>2, <2>1 DEF HeldInv, Held, Tuning, SlotHasDifficulty
  <2> QED BY <1>2, <2>2, <2>3, <2>4, <2>5 DEF IndInv, PhaseInv, NewestInv
<1>5. CASE ReplaceJob(e) \/ FirstJob(e)
  <2>1. /\ job_slot' = [job_slot EXCEPT ![Mining] = new]
        /\ mpc' = "select" /\ tuning' = tuning
        /\ \/ thread' = thread
           \/ thread' = [thread EXCEPT ![Mining] = [t \in Threads |-> "top"]]
    BY <1>2, <1>5 DEF ReplaceJob, FirstJob, Spawn, new
  <2>2. /\ job_slot'[Mining] = new /\ \A g \in Gens : job_slot[g] \in GrindJobs => job_slot'[g] \in GrindJobs
        /\ job_slot' \in [Gens -> GrindJobs \cup {NoGrind}]
    BY <1>3, <2>1
  <2>3. /\ thread' \in [Gens -> [Threads -> {"none", "top", "mining", "gone"}]]
        /\ \A g \in Gens, t \in Threads :
             thread'[g][t] = thread[g][t] \/ (g = Mining /\ thread'[g][t] = "top")
    BY <1>3, <2>1
  <2>4. TypeOK'
    BY <1>0, <1>1, <1>2, <2>1, <2>2, <2>3 DEF IndInv, TypeOK
  <2>5. ThreadInv'
    BY <1>2, <1>3, <2>1, <2>2, <2>3, <1>0 DEF IndInv, PhaseInv, ThreadInv, Busy, MayRun
  <2>6. LoopInv'
    BY <1>0, <1>1, <1>2, <2>1, ConstantsAssumption DEF IndInv, PhaseInv, LoopInv, Tuning
  <2>7. HeldInv' /\ SlotHasDifficulty'
    BY <1>0, <1>2, <1>3, <2>1, <2>2 DEF HeldInv, Held, Tuning, SlotHasDifficulty
  <2> QED BY <1>2, <2>4, <2>5, <2>6, <2>7 DEF IndInv, PhaseInv, NewestInv
<1> QED BY <1>4, <1>5

-----------------------------------------------------------------------------
(* The tuning. *)

LEMMA TuningInv ==
  ASSUME IndInv, TuneCandidate \/ LockGrid PROVE IndInv'
<1>0. PICK g \in Gens, new \in GrindJobs, b \in Batches :
        /\ mpc = "tune" /\ tuning \in JobIds /\ cur_params # NoParams /\ job_slot[Mining] = NoGrind
        /\ batch' = b /\ job_slot' = [job_slot EXCEPT ![g] = new]
        /\ new.job_id = tuning /\ new.difficulty = cur_difficulty /\ new.batch = b
        /\ thread' = [thread EXCEPT ![g] = [t \in Threads |-> "top"]]
        /\ UNCHANGED <<chanVars, cur_params, cur_difficulty, cand, stop, signalled, snapshot, outcome>>
        /\ \/ g = Mining /\ mpc' = "select" /\ tuning' = NoJob
           \/ g = cand /\ g # Mining /\ cand <= Candidates /\ mpc' = "measure" /\ tuning' = tuning
  <2>0. mpc = "tune" /\ tuning \in JobIds /\ cur_params \in Params /\ cur_params # NoParams
        /\ job_slot[Mining] = NoGrind /\ cur_difficulty \in Diffs /\ cand \in 1..Candidates + 1
    BY ConstantsAssumption DEF TuneCandidate, LockGrid, IndInv, PhaseInv, LoopInv, TypeOK, Tuning
  <2>1. ASSUME NEW b \in Batches
        PROVE  LET new == [GrindJob(cur_params, tuning, cur_difficulty) EXCEPT !.batch = b]
               IN /\ new \in GrindJobs
                  /\ new.job_id = tuning /\ new.difficulty = cur_difficulty /\ new.batch = b
    BY <2>0 DEF GrindJob, GrindJobs
  <2>2. CASE TuneCandidate
    <3>1. cand <= Candidates /\ cand \in Batches /\ cand \in Gens /\ cand # Mining
      BY <2>0, <2>2, GenFacts DEF TuneCandidate
    <3> QED BY <2>0, <2>1, <2>2, <3>1 DEF TuneCandidate, Spawn
  <2>3. CASE LockGrid
    <3>1. PICK best \in 1..Candidates :
            /\ batch' = best
            /\ job_slot' = [job_slot EXCEPT ![Mining] =
                              [GrindJob(cur_params, tuning, cur_difficulty) EXCEPT !.batch = best]]
      BY <2>3 DEF LockGrid
    <3>2. best \in Batches /\ Mining \in Gens
      BY GenFacts
    <3> QED BY <2>0, <2>1, <2>3, <3>1, <3>2 DEF LockGrid, Spawn
  <2> QED BY <2>2, <2>3
<1>1. /\ job_slot' \in [Gens -> GrindJobs \cup {NoGrind}]
      /\ job_slot'[g] = new /\ new # NoGrind
      /\ g # Mining => job_slot'[Mining] = NoGrind
      /\ \A h \in Gens : job_slot[h] \in GrindJobs => job_slot'[h] \in GrindJobs
      /\ thread' \in [Gens -> [Threads -> {"none", "top", "mining", "gone"}]]
  BY <1>0, GenFacts, NoGrindFacts DEF IndInv, TypeOK
<1>2. ASSUME NEW h \in Gens, NEW t \in Threads
      PROVE  ~Busy(h, t) /\ thread'[h][t] = IF h = g THEN "top" ELSE thread[h][t]
  BY <1>0 DEF IndInv, TypeOK, PhaseInv, ThreadInv, MayRun
<1>3. TypeOK'
  BY <1>0, <1>1 DEF IndInv, TypeOK, chanVars
<1>4. ThreadInv'
  BY <1>0, <1>1, <1>2 DEF ThreadInv, Busy, MayRun
<1>5. LoopInv'
  BY <1>0, <1>1 DEF IndInv, PhaseInv, LoopInv, Tuning, chanVars
<1>6. NewestInv'
  BY <1>0, <1>1 DEF IndInv, NewestInv, ChannelInv, HeldInv, Held, Tuning, chanVars
<1>7. SlotHasDifficulty'
  BY <1>0, <1>1 DEF SlotHasDifficulty
<1> QED BY <1>3, <1>4, <1>5, <1>6, <1>7 DEF IndInv, PhaseInv

LEMMA JoinInv ==
  ASSUME IndInv, StopCandidate \/ JoinCandidate PROVE IndInv'
<1>0. /\ mpc \in {"measure", "join"} /\ cand \in 1..Candidates /\ cand \in Gens /\ cand # Mining
      /\ UNCHANGED <<chanVars, cur_params, cur_difficulty, batch, tuning, signalled, thrVars, outcome>>
  BY GenFacts DEF StopCandidate, JoinCandidate, IndInv, TypeOK, PhaseInv, LoopInv
<1>1. CASE StopCandidate
  <2>1. mpc' = "join" /\ UNCHANGED <<job_slot, cand>> /\ stop' = [stop EXCEPT ![cand] = TRUE]
    BY <1>1 DEF StopCandidate
  <2>2. TypeOK'
    BY <1>0, <2>1 DEF IndInv, TypeOK, chanVars, thrVars
  <2>3. PhaseInv'
    BY <1>0, <2>1 DEF IndInv, PhaseInv, ThreadInv, LoopInv, Busy, MayRun, Tuning, chanVars, thrVars
  <2>4. NewestInv' /\ SlotHasDifficulty'
    BY <1>0, <2>1 DEF IndInv, NewestInv, ChannelInv, HeldInv, Held, Tuning, SlotHasDifficulty, chanVars
  <2> QED BY <2>2, <2>3, <2>4 DEF IndInv
<1>2. CASE JoinCandidate
  <2>1. /\ mpc = "join" /\ ~Running(cand) /\ cand' = cand + 1 /\ mpc' = "tune" /\ stop' = stop
        /\ job_slot' = [job_slot EXCEPT ![cand] = NoGrind]
    BY <1>2 DEF JoinCandidate
  <2>2. job_slot' \in [Gens -> GrindJobs \cup {NoGrind}] /\ job_slot'[Mining] = job_slot[Mining]
    BY <1>0, <2>1, GenFacts DEF IndInv, TypeOK
  <2>3. TypeOK'
    BY <1>0, <2>1, <2>2, GenFacts DEF IndInv, TypeOK, chanVars, thrVars
  <2>4. ThreadInv'
    <3>1. ASSUME NEW g \in Gens, NEW t \in Threads PROVE ~Busy(g, t)
      BY <2>1 DEF IndInv, PhaseInv, ThreadInv, MayRun, Busy, Running
    <3> QED BY <1>0, <3>1 DEF ThreadInv, Busy, thrVars
  <2>5. LoopInv'
    BY <1>0, <2>1, <2>2 DEF IndInv, PhaseInv, LoopInv, Tuning, chanVars
  <2>6. NewestInv' /\ SlotHasDifficulty'
    BY <1>0, <2>1, <2>2 DEF IndInv, NewestInv, ChannelInv, HeldInv, Held, Tuning, SlotHasDifficulty, chanVars
  <2> QED BY <2>3, <2>4, <2>5, <2>6 DEF IndInv, PhaseInv
<1> QED BY <1>1, <1>2

-----------------------------------------------------------------------------
(* The end, and what changes nothing that is spoken of.                    *)

LEMMA LagInv ==
  ASSUME IndInv, OnLagged \/ SignalArrives \/ UNCHANGED vars PROVE IndInv'
<1>1. /\ UNCHANGED <<st, live_job, sent, job_tx, submit_rx, senders, mainVars, thrVars, outcome>>
      /\ lagged' \in BOOLEAN /\ signalled' \in BOOLEAN
  BY DEF OnLagged, SignalArrives, vars, chanVars, Pool!NoteLag, Pool!taskVars, IndInv, TypeOK
<1>2. TypeOK'
  BY <1>1 DEF IndInv, TypeOK, mainVars, thrVars
<1>3. PhaseInv'
  BY <1>1 DEF IndInv, PhaseInv, ThreadInv, LoopInv, Busy, MayRun, Tuning, mainVars, thrVars
<1>4. NewestInv' /\ SlotHasDifficulty'
  BY <1>1 DEF IndInv, NewestInv, ChannelInv, HeldInv, Held, Tuning, SlotHasDifficulty, mainVars
<1> QED BY <1>2, <1>3, <1>4 DEF IndInv

LEMMA EndInv ==
  ASSUME IndInv, OnClosed \/ OnSignal \/ Exit PROVE IndInv'
<1>1. /\ UNCHANGED <<st, live_job, sent, job_tx, lagged, submit_rx, cur_params, cur_difficulty, batch,
                     tuning, cand, job_slot, signalled, thrVars, outcome>>
      /\ \/ mpc = "select" /\ mpc' = "retire" /\ senders' = senders
            /\ stop' = [stop EXCEPT ![Mining] = TRUE]
         \/ mpc = "retire" /\ ~Running(Mining) /\ mpc' = "exited" /\ senders' = FALSE /\ stop' = stop
  BY DEF OnClosed, OnSignal, LeaveLoop, Exit, chanVars
<1>2. TypeOK'
  <2>1. mpc' \in {"retire", "exited"} /\ senders' \in BOOLEAN /\ stop' \in [Gens -> BOOLEAN]
    BY <1>1 DEF IndInv, TypeOK
  <2> QED BY <1>1, <2>1 DEF IndInv, TypeOK, thrVars
<1>3. ThreadInv'
  BY <1>1 DEF IndInv, PhaseInv, ThreadInv, Busy, MayRun, Running, thrVars
<1>4. LoopInv'
  BY <1>1 DEF IndInv, PhaseInv, LoopInv, Tuning
<1>5. NewestInv' /\ SlotHasDifficulty'
  BY <1>1 DEF IndInv, NewestInv, ChannelInv, HeldInv, Held, Tuning, SlotHasDifficulty
<1> QED BY <1>2, <1>3, <1>4, <1>5 DEF IndInv, PhaseInv

-----------------------------------------------------------------------------
(* A thread works on what it has read, and it reads a job.                 *)

LEMMA SearchShare ==
  ASSUME IndInv, NEW g \in Gens, NEW t \in Threads, thread[g][t] = "mining"
  PROVE  [job_id |-> snapshot[g][t], enc |-> Encoding(g)] \in Shares /\ mpc # "exited" /\ senders
<1>1. snapshot[g][t] \in JobIds /\ MayRun(g)
  BY DEF IndInv, PhaseInv, ThreadInv, Busy
<1>2. mpc # "exited"
  BY <1>1 DEF MayRun
<1>3. Encoding(g) \in Encodings
  BY DEF Encoding, Encodings
<1> QED BY <1>1, <1>2, <1>3 DEF Shares, IndInv, PhaseInv, LoopInv

LEMMA SearchInv ==
  ASSUME IndInv, NEW g \in Gens, NEW t \in Threads, Search(g, t) PROVE IndInv'
<1>0. UNCHANGED <<st, live_job, sent, job_tx, lagged, senders, mainVars, signalled, outcome>>
  BY DEF Search, BeginAttempt, Miss, Hit, ThreadStops, threadKeeps, chanVars
<1>1. PICK pc \in {"top", "mining", "gone"}, id \in JobIds \cup {NoJob} :
        /\ thread' = [thread EXCEPT ![g][t] = pc]
        /\ snapshot' = [snapshot EXCEPT ![g][t] = id]
        /\ pc # "gone" => Busy(g, t)
        /\ pc = "mining" => id \in JobIds
  <2>0. /\ snapshot \in [Gens -> [Threads -> JobIds \cup {NoJob}]]
        /\ Busy(g, t) => job_slot[g].job_id \in JobIds
    BY NoGrindFacts DEF IndInv, TypeOK, PhaseInv, ThreadInv
  <2>1. CASE BeginAttempt(g, t)
    BY <2>0, <2>1 DEF BeginAttempt, Busy
  <2>2. CASE Miss(g, t) \/ Hit(g, t)
    <3>1. snapshot' = [snapshot EXCEPT ![g][t] = snapshot[g][t]]
      BY <2>0, <2>2 DEF Miss, Hit
    <3>2. thread' = [thread EXCEPT ![g][t] = "top"] /\ Busy(g, t)
      BY <2>2 DEF Miss, Hit, Busy
    <3> QED BY <2>0, <3>1, <3>2
  <2>3. CASE ThreadStops(g, t)
    BY <2>3 DEF ThreadStops
  <2> QED BY <2>1, <2>2, <2>3 DEF Search
<1>2. submit_rx' \in Seq(Shares) /\ Len(submit_rx') <= SubmitCap
  <2>1. submit_rx \in Seq(Shares) /\ Len(submit_rx) <= SubmitCap /\ SubmitCap \in Nat \ {0}
    BY ConstantsAssumption DEF IndInv, TypeOK
  <2>2. CASE Hit(g, t)
    BY <2>1, <2>2, SearchShare, TrySendType DEF Hit
  <2>3. CASE ~Hit(g, t)
    BY <2>1, <2>3 DEF Search, BeginAttempt, Miss, ThreadStops, chanVars
  <2> QED BY <2>2, <2>3
<1>3. /\ thread' \in [Gens -> [Threads -> {"none", "top", "mining", "gone"}]]
      /\ snapshot' \in [Gens -> [Threads -> JobIds \cup {NoJob}]]
      /\ \A h \in Gens, u \in Threads :
           /\ thread'[h][u] = IF h = g /\ u = t THEN pc ELSE thread[h][u]
           /\ snapshot'[h][u] = IF h = g /\ u = t THEN id ELSE snapshot[h][u]
  BY <1>1 DEF IndInv, TypeOK
<1>4. TypeOK'
  BY <1>0, <1>2, <1>3 DEF IndInv, TypeOK, mainVars
<1>5. ThreadInv'
  <2>1. ASSUME NEW h \in Gens, NEW u \in Threads
        PROVE  /\ Busy(h, u)' => Busy(h, u)
               /\ thread'[h][u] = "mining" => snapshot'[h][u] \in JobIds
    BY <1>1, <1>3 DEF IndInv, PhaseInv, ThreadInv, Busy
  <2> QED BY <1>0, <2>1 DEF IndInv, PhaseInv, ThreadInv, MayRun, mainVars
<1>6. LoopInv' /\ NewestInv' /\ SlotHasDifficulty'
  BY <1>0 DEF IndInv, PhaseInv, LoopInv, Tuning, NewestInv, ChannelInv, HeldInv, Held,
              SlotHasDifficulty, mainVars
<1> QED BY <1>4, <1>5, <1>6 DEF IndInv, PhaseInv

-----------------------------------------------------------------------------
LEMMA NextInv == IndInv /\ [Next]_vars => IndInv'
<1> SUFFICES ASSUME IndInv, [Next]_vars PROVE IndInv'
  OBVIOUS
<1>1. CASE \E e \in Events : PoolAnnounces(e)
  BY <1>1, AnnouncesInv
<1>2. CASE SessionMoves
  BY <1>2, SessionInv
<1>3. CASE Main
  <2>1. CASE \E e \in Events : OnParams(e)
    BY <2>1, OnParamsInv
  <2>2. CASE \E e \in Events : OnSetDifficulty(e)
    BY <2>2, OnSetDifficultyInv
  <2>3. CASE \E e \in Events : JobBeforeParams(e) \/ BuildFails(e)
    BY <2>3, RefusedInv
  <2>4. CASE \E e \in Events : ReplaceJob(e) \/ FirstJob(e) \/ FirstJobToTune(e)
    BY <2>4, TakenInv
  <2>5. CASE TuneCandidate \/ LockGrid
    BY <2>5, TuningInv
  <2>6. CASE StopCandidate \/ JoinCandidate
    BY <2>6, JoinInv
  <2>7. CASE OnLagged
    BY <2>7, LagInv
  <2>8. CASE OnClosed \/ OnSignal \/ Exit
    BY <2>8, EndInv
  <2> QED BY <1>3, <2>1, <2>2, <2>3, <2>4, <2>5, <2>6, <2>7, <2>8 DEF Main
<1>4. CASE \E g \in Gens, t \in Threads : Search(g, t)
  BY <1>4, SearchInv
<1>5. CASE SignalArrives \/ Exited \/ UNCHANGED vars
  BY <1>5, LagInv DEF Exited
<1> QED BY <1>1, <1>2, <1>3, <1>4, <1>5 DEF Next

LEMMA TworkerInvariant == Spec => []IndInv
BY InitInv, NextInv, PTL DEF Spec

-----------------------------------------------------------------------------
(* Main loop, threads and channels keep their types, whatever the pool     *)
(* announces: the job of a slot is complete, and no queue outgrows its     *)
(* bound.                                                                  *)
THEOREM TworkerTypeCorrect == Spec => []TypeOK
<1>1. IndInv => TypeOK
  BY DEF IndInv
<1> QED BY <1>1, TworkerInvariant, PTL

(* For any number of candidates and threads, two generations never run at  *)
(* once, and none outlives main.                                           *)
THEOREM TworkerOneGeneration == Spec => []OneGeneration
<1>1. IndInv => OneGeneration
  <2> SUFFICES ASSUME IndInv PROVE OneGeneration
    OBVIOUS
  <2>1. ASSUME NEW g \in Gens, Running(g) PROVE MayRun(g)
    BY <2>1 DEF IndInv, PhaseInv, ThreadInv, Busy, Running
  <2>2. ASSUME NEW g \in Gens, NEW h \in Gens, MayRun(g), MayRun(h) PROVE g = h
    BY <2>2 DEF MayRun
  <2>3. ASSUME NEW g \in Gens, mpc = "exited" PROVE ~MayRun(g)
    BY <2>3 DEF MayRun
  <2> QED BY <2>1, <2>2, <2>3 DEF OneGeneration
<1> QED BY <1>1, TworkerInvariant, PTL

(* The newest announcement, unless forgotten or refused, is what the       *)
(* threads are given, for channels of any capacity and any dialect.        *)
THEOREM TworkerSlotFollowsPool == Spec => []SlotFollowsPool
<1>1. IndInv => SlotFollowsPool
  BY DEF IndInv, NewestInv, HeldInv, Held, Tuning, SlotFollowsPool
<1> QED BY <1>1, TworkerInvariant, PTL

(* The bound searched for is that of the difficulty that counts, and the   *)
(* grid the one that was locked.                                           *)
THEOREM TworkerSlotHasDifficulty == Spec => []SlotHasDifficulty
<1>1. IndInv => SlotHasDifficulty
  BY DEF IndInv
<1> QED BY <1>1, TworkerInvariant, PTL

-----------------------------------------------------------------------------
(* The main loop and its threads are clients of the session task.          *)

LEMMA ReceivesFromPool ==
  ASSUME NEW e \in Events, Received(e) PROVE Pool!Next
BY DEF Received, Pool!Next, Pool!Clients, Pool!Receive, Pool!taskVars

LEMMA PoolNext == IndInv /\ [Next]_vars => [Pool!Next]_Pool!vars
<1> SUFFICES ASSUME IndInv, [Next]_vars PROVE [Pool!Next]_Pool!vars
  OBVIOUS
<1>1. CASE \E e \in Events : PoolAnnounces(e)
  BY <1>1 DEF PoolAnnounces, Pool!Next, Pool!Task
<1>2. CASE SessionMoves
  BY <1>2 DEF SessionMoves, Pool!Next, Pool!Task
<1>3. CASE Main
  <2>1. CASE \E e \in Events : \/ OnParams(e) \/ OnSetDifficulty(e) \/ JobBeforeParams(e) \/ BuildFails(e)
                               \/ ReplaceJob(e) \/ FirstJob(e) \/ FirstJobToTune(e)
    BY <2>1, ReceivesFromPool
       DEF OnParams, OnSetDifficulty, JobBeforeParams, BuildFails, BuiltJob, ReplaceJob, FirstJob,
           FirstJobToTune
  <2>2. CASE TuneCandidate \/ StopCandidate \/ JoinCandidate \/ LockGrid \/ OnClosed \/ OnSignal
    BY <2>2 DEF TuneCandidate, StopCandidate, JoinCandidate, LockGrid, OnClosed, OnSignal, LeaveLoop,
                chanVars, Pool!vars, Pool!taskVars
  <2>3. CASE OnLagged
    BY <2>3 DEF OnLagged, Pool!Next, Pool!Clients
  <2>4. CASE Exit
    <3>1. senders
      BY <2>4 DEF Exit, IndInv, PhaseInv, LoopInv
    <3> QED BY <2>4, <3>1 DEF Exit, Pool!Next, Pool!Clients, Pool!DropSenders, Pool!taskVars
  <2> QED BY <1>3, <2>1, <2>2, <2>3, <2>4 DEF Main
<1>4. ASSUME NEW g \in Gens, NEW t \in Threads, Search(g, t) PROVE [Pool!Next]_Pool!vars
  <2>1. CASE Hit(g, t)
    <3>1. PICK s \in Shares : submit_rx' = TrySend(submit_rx, SubmitCap, s) /\ senders
      BY <2>1, SearchShare DEF Hit
    <3> QED
      BY <2>1, <3>1 DEF Hit, TrySend, IsFull, Pool!TrySend, Pool!IsFull,
                        Pool!Next, Pool!Clients, Pool!Submit, Pool!taskVars
  <2>2. CASE BeginAttempt(g, t) \/ Miss(g, t) \/ ThreadStops(g, t)
    BY <2>2 DEF BeginAttempt, Miss, ThreadStops, chanVars, Pool!vars, Pool!taskVars
  <2> QED BY <1>4, <2>1, <2>2 DEF Search
<1>5. CASE SignalArrives \/ Exited \/ UNCHANGED vars
  BY <1>5 DEF SignalArrives, Exited, vars, chanVars, Pool!vars, Pool!taskVars
<1> QED BY <1>1, <1>2, <1>3, <1>4, <1>5 DEF Next

(* Every step of the main loop and of its threads is one that the session  *)
(* task reckons with, or does not concern it.                              *)
THEOREM TworkerImplementsClient == Spec => ImplementsClient
<1>1. Init => Pool!Init
  BY DEF Init
<1> QED BY <1>1, PoolNext, InitInv, NextInv, PTL DEF Spec, ImplementsClient, Pool!Spec

=============================================================================
