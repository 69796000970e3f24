------------------------------ MODULE Tworker ------------------------------
(***************************************************************************)
(* src/bin/tworker.rs: the main loop and the search threads, in the build  *)
(* without the gpu feature (GpuWorker models the thread of the gpu build). *)
(*                                                                         *)
(* The main loop receives the pool's events and publishes what to work on  *)
(* in a slot that the threads of the running generation read before every  *)
(* attempt.  Before the first job it may tune the grid: one generation of  *)
(* threads per candidate, each on a slot of its own, while no event and no *)
(* signal is looked at.  The session task is PoolSession, which Stratum    *)
(* implements.                                                             *)
(***************************************************************************)
EXTENDS Channels, FiniteSets

CONSTANTS
  JobIds, NoJob,
  Params,      \* MiningParams the pool may set
  Diffs,       \* share difficulties
  Suffix,      \* job id -> the difficulty in its suffix, or NoSuffix
  NoSuffix,
  BadParams,   \* params config_from_params rejects
  BadJobs,     \* jobs whose header_from_template fails
  Dialect,
  DefaultParams,     \* the params a dialect without set_mining_params starts with
  NoParams,
  InitialDifficulty, \* 524 288 in the code
  Autotune,    \* ARIA_AUTOTUNE is set
  Candidates,  \* number of grids autotune_grid tries, 5 in the code
  Threads,
  JobCap, SubmitCap,
  MaxSent      \* bound: shares handed to the pool in one session

Dialects == {"Pearl", "LuckyPool", "HeroMiners"}

ASSUME ConstantsAssumption ==
  /\ NoJob \notin JobIds /\ NoParams \notin Params
  /\ NoSuffix \notin Diffs /\ Suffix \in [JobIds -> Diffs \cup {NoSuffix}]
  /\ BadParams \subseteq Params /\ BadJobs \subseteq JobIds
  /\ Dialect \in Dialects /\ DefaultParams \in Params \ BadParams
  /\ InitialDifficulty \in Diffs
  /\ Autotune \in BOOLEAN
  /\ Candidates \in Nat \ {0}
  /\ Threads # {}
  /\ JobCap \in Nat \ {0} /\ SubmitCap \in Nat \ {0} /\ MaxSent \in Nat

Events ==
  [kind : {"NewJob"}, job_id : JobIds]
    \cup [kind : {"Params"}, params : Params]
    \cup [kind : {"SetDifficulty"}, difficulty : Diffs]

(* ARIA_BATCH_M and ARIA_BATCH_N: 0 is what the environment came with.     *)
Batches == 0..Candidates

GrindJobs == [job_id : JobIds, params : Params, difficulty : Diffs, batch : Batches]
NoGrind   == [job_id |-> NoJob, params |-> NoParams, difficulty |-> InitialDifficulty,
              batch |-> 0]

Encodings == {"plain", "gzip"}
Shares    == [job_id : JobIds, enc : Encodings]

(* Generations of threads: one per candidate of the tuning, and the last   *)
(* one that mines.                                                         *)
Gens   == 1..Candidates + 1
Mining == Candidates + 1

VARIABLES st, live_job, sent, job_tx, lagged, submit_rx, senders

VARIABLES
  mpc,            \* where the main loop is
  cur_params, cur_difficulty,
  batch,          \* the grid in the environment variables
  tuning,         \* the job that is being tuned for
  cand,           \* the candidate being measured
  signalled,      \* SIGINT, SIGTERM or SIGHUP has been received
  job_slot,       \* per generation: what its threads are to work on
  stop,           \* per generation: its stop flag
  thread,         \* per generation and thread: where it is
  snapshot,       \* per generation and thread: the job id of its last attempt
  outcome         \* what became of the newest announcement and the last build

chanVars == <<st, live_job, sent, job_tx, lagged, submit_rx, senders>>
mainVars == <<mpc, cur_params, cur_difficulty, batch, tuning, cand, job_slot, stop>>
thrVars  == <<thread, snapshot>>
vars     == <<chanVars, mainVars, signalled, thrVars, outcome>>

Pool == INSTANCE PoolSession

Init ==
  /\ Pool!Init
  /\ mpc = "select"
  /\ cur_params = IF Dialect = "Pearl" THEN NoParams ELSE DefaultParams
  /\ cur_difficulty = InitialDifficulty
  /\ batch = 0 /\ tuning = NoJob /\ cand = 1 /\ signalled = FALSE
  /\ job_slot = [g \in Gens |-> NoGrind]
  /\ stop = [g \in Gens |-> FALSE]
  /\ thread = [g \in Gens |-> [t \in Threads |-> "none"]]
  /\ snapshot = [g \in Gens |-> [t \in Threads |-> NoJob]]
  /\ outcome = [newest |-> "none", built |-> TRUE]

-----------------------------------------------------------------------------
(* The session task.  outcome.newest follows the newest announcement: it   *)
(* is queued, unless the channel forgets it.                               *)

IsJob(e) == e.kind = "NewJob"

LostByBroadcast ==
  /\ IsFull(job_tx, JobCap) /\ IsJob(Head(job_tx))
  /\ \A i \in 2..Len(job_tx) : ~IsJob(job_tx[i])

PoolAnnounces(e) ==
  /\ UNCHANGED <<mainVars, signalled, thrVars>>
  /\ Pool!Announce(e)
  /\ outcome' = [outcome EXCEPT !.newest =
                   IF IsJob(e) THEN "queued"
                   ELSE IF LostByBroadcast THEN "forgotten" ELSE @]

SessionMoves ==
  /\ UNCHANGED <<mainVars, signalled, thrVars, outcome>>
  /\ \/ Pool!Open \/ Pool!Greeted \/ Pool!Forward \/ Pool!Discard \/ Pool!Lose \/ Pool!End

-----------------------------------------------------------------------------
(* The main loop.                                                          *)

(* build_official_job: fails on the params or the header, never on the     *)
(* grid, which fit_dim rounds.                                             *)
Builds(params, job) == params \notin BadParams /\ job \notin BadJobs

GrindJob(params, job, difficulty) ==
  [job_id |-> job, params |-> params, difficulty |-> difficulty, batch |-> batch]

Spawn(g) == thread' = [thread EXCEPT ![g] = [t \in Threads |-> "top"]]

Running(g) == \E t \in Threads : thread[g][t] \in {"top", "mining"}

(* recv(): the oldest event, once a lag has been reported. *)
Received(e) ==
  /\ mpc = "select" /\ ~lagged /\ job_tx # <<>> /\ e = Head(job_tx)
  /\ job_tx' = Tail(job_tx)
  /\ UNCHANGED <<st, live_job, sent, lagged, submit_rx, senders, signalled, snapshot>>

IsNewest == \A i \in 2..Len(job_tx) : ~IsJob(job_tx[i])

Outcome(newest, built) ==
  outcome' = [newest |-> IF IsNewest THEN newest ELSE outcome.newest, built |-> built]

OnParams(e) ==
  /\ Received(e) /\ e.kind = "Params"
  /\ cur_params' = e.params
  /\ UNCHANGED <<mpc, cur_difficulty, batch, tuning, cand, job_slot, stop, thread, outcome>>

(* Mutated form: the rebuilt job is stored only when its bound is lower.   *)
OnSetDifficulty_OnlyHarder(e) ==
  /\ Received(e) /\ e.kind = "SetDifficulty"
  /\ cur_difficulty' = e.difficulty
  /\ LET live == job_slot[Mining] IN
       IF live # NoGrind /\ cur_params # NoParams
       THEN /\ job_slot' = IF Builds(cur_params, live.job_id) /\ e.difficulty > live.difficulty
                           THEN [job_slot EXCEPT ![Mining] =
                                   GrindJob(cur_params, live.job_id, e.difficulty)]
                           ELSE job_slot
            /\ outcome' = [outcome EXCEPT !.built = Builds(cur_params, live.job_id)]
       ELSE UNCHANGED <<job_slot, outcome>>
  /\ UNCHANGED <<mpc, cur_params, batch, tuning, cand, stop, thread>>

(* The live job is built again, with the params of now. *)
OnSetDifficulty(e) ==
  /\ Received(e) /\ e.kind = "SetDifficulty"
  /\ cur_difficulty' = e.difficulty
  /\ LET live == job_slot[Mining] IN
       IF live # NoGrind /\ cur_params # NoParams
       THEN /\ job_slot' = IF Builds(cur_params, live.job_id)
                           THEN [job_slot EXCEPT ![Mining] =
                                   GrindJob(cur_params, live.job_id, e.difficulty)]
                           ELSE job_slot
            /\ outcome' = [outcome EXCEPT !.built = Builds(cur_params, live.job_id)]
       ELSE UNCHANGED <<job_slot, outcome>>
  /\ UNCHANGED <<mpc, cur_params, batch, tuning, cand, stop, thread>>

JobBeforeParams(e) ==
  /\ Received(e) /\ IsJob(e) /\ cur_params = NoParams
  /\ Outcome("refused", outcome.built)
  /\ UNCHANGED <<mainVars, thread>>

(* The difficulty that rides in the job id; Pearl's comes by itself.       *)
DifficultyOf(job) ==
  IF Dialect # "Pearl" /\ Suffix[job] # NoSuffix THEN Suffix[job] ELSE cur_difficulty

BuildFails(e) ==
  /\ Received(e) /\ IsJob(e) /\ cur_params # NoParams
  /\ cur_difficulty' = DifficultyOf(e.job_id)
  /\ ~Builds(cur_params, e.job_id)
  /\ Outcome("refused", FALSE)
  /\ UNCHANGED <<mpc, cur_params, batch, tuning, cand, job_slot, stop, thread>>

BuiltJob(e) ==
  /\ Received(e) /\ IsJob(e) /\ cur_params # NoParams
  /\ cur_difficulty' = DifficultyOf(e.job_id)
  /\ Builds(cur_params, e.job_id)
  /\ Outcome("taken", TRUE)

(* Mutated form: the slot is written only if the difficulty changed. *)
ReplaceJob_SameDifficulty(e) ==
  /\ BuiltJob(e) /\ job_slot[Mining] # NoGrind
  /\ job_slot' = IF DifficultyOf(e.job_id) = job_slot[Mining].difficulty
                   /\ cur_params = job_slot[Mining].params
                 THEN job_slot
                 ELSE [job_slot EXCEPT ![Mining] =
                         GrindJob(cur_params, e.job_id, DifficultyOf(e.job_id))]
  /\ UNCHANGED <<mpc, cur_params, batch, tuning, cand, stop, thread>>

ReplaceJob(e) ==
  /\ BuiltJob(e) /\ job_slot[Mining] # NoGrind
  /\ job_slot' = [job_slot EXCEPT ![Mining] =
                    GrindJob(cur_params, e.job_id, DifficultyOf(e.job_id))]
  /\ UNCHANGED <<mpc, cur_params, batch, tuning, cand, stop, thread>>

FirstJob(e) ==
  /\ BuiltJob(e) /\ job_slot[Mining] = NoGrind /\ ~Autotune
  /\ job_slot' = [job_slot EXCEPT ![Mining] =
                    GrindJob(cur_params, e.job_id, DifficultyOf(e.job_id))]
  /\ Spawn(Mining)
  /\ UNCHANGED <<mpc, cur_params, batch, tuning, cand, stop>>

FirstJobToTune(e) ==
  /\ BuiltJob(e) /\ job_slot[Mining] = NoGrind /\ Autotune
  /\ mpc' = "tune" /\ tuning' = e.job_id
  /\ UNCHANGED <<cur_params, batch, cand, job_slot, stop, thread>>

(* autotune_grid, one candidate: a generation on a slot of its own, ...    *)
TuneCandidate ==
  /\ mpc = "tune" /\ cand <= Candidates
  /\ batch' = cand
  /\ job_slot' = [job_slot EXCEPT ![cand] =
                    [GrindJob(cur_params, tuning, cur_difficulty) EXCEPT !.batch = cand]]
  /\ Spawn(cand)
  /\ mpc' = "measure"
  /\ UNCHANGED <<chanVars, cur_params, cur_difficulty, tuning, cand, stop, signalled, snapshot, outcome>>

(* ... which is told to stop after ARIA_AUTOTUNE_SECS, ... *)
StopCandidate ==
  /\ mpc = "measure"
  /\ stop' = [stop EXCEPT ![cand] = TRUE]
  /\ mpc' = "join"
  /\ UNCHANGED <<chanVars, cur_params, cur_difficulty, batch, tuning, cand, job_slot, signalled,
                 thrVars, outcome>>

(* Mutated form: the next candidate starts without joining the threads. *)
JoinCandidate_NoJoin ==
  /\ mpc = "join"
  /\ cand' = cand + 1 /\ mpc' = "tune"
  /\ job_slot' = [job_slot EXCEPT ![cand] = NoGrind]
  /\ UNCHANGED <<chanVars, cur_params, cur_difficulty, batch, tuning, stop, signalled,
                 thrVars, outcome>>

(* ... and joined; nobody holds its slot any more.                         *)
JoinCandidate ==
  /\ mpc = "join" /\ ~Running(cand)
  /\ cand' = cand + 1 /\ mpc' = "tune"
  /\ job_slot' = [job_slot EXCEPT ![cand] = NoGrind]
  /\ UNCHANGED <<chanVars, cur_params, cur_difficulty, batch, tuning, stop, signalled,
                 thrVars, outcome>>

(* The grid with the best throughput is locked, and mining starts.         *)
LockGrid ==
  /\ mpc = "tune" /\ cand > Candidates
  /\ \E best \in 1..Candidates :
       /\ batch' = best
       /\ job_slot' = [job_slot EXCEPT ![Mining] =
                         [GrindJob(cur_params, tuning, cur_difficulty) EXCEPT !.batch = best]]
  /\ Spawn(Mining)
  /\ mpc' = "select" /\ tuning' = NoJob
  /\ UNCHANGED <<chanVars, cur_params, cur_difficulty, cand, stop, signalled, snapshot, outcome>>

OnLagged ==
  /\ mpc = "select"
  /\ UNCHANGED <<mainVars, signalled, thrVars, outcome>>
  /\ Pool!NoteLag

(* Mutated form: the stop flag is not set. *)
LeaveLoop_NoStop ==
  /\ mpc' = "retire"
  /\ UNCHANGED <<chanVars, cur_params, cur_difficulty, batch, tuning, cand, job_slot, stop,
                 signalled, thrVars, outcome>>

(* The running generation, if there is one, is told to stop. *)
LeaveLoop ==
  /\ mpc' = "retire"
  /\ stop' = [stop EXCEPT ![Mining] = TRUE]
  /\ UNCHANGED <<chanVars, cur_params, cur_difficulty, batch, tuning, cand, job_slot, signalled,
                 thrVars, outcome>>

(* The session task is gone and its events are used up. *)
OnClosed ==
  /\ mpc = "select" /\ st = "ended" /\ ~lagged /\ job_tx = <<>>
  /\ LeaveLoop

OnSignal == mpc = "select" /\ signalled /\ LeaveLoop

(* Mutated form: main returns while its threads run on. *)
Exit_NoJoin ==
  /\ mpc = "retire"
  /\ mpc' = "exited" /\ senders' = FALSE
  /\ UNCHANGED <<st, live_job, sent, job_tx, lagged, submit_rx, cur_params, cur_difficulty, batch,
                 tuning, cand, job_slot, stop, signalled, thrVars, outcome>>

(* retire() has joined the threads; main returns and drops its sender. *)
Exit ==
  /\ mpc = "retire" /\ ~Running(Mining)
  /\ mpc' = "exited" /\ senders' = FALSE
  /\ UNCHANGED <<st, live_job, sent, job_tx, lagged, submit_rx, cur_params, cur_difficulty, batch,
                 tuning, cand, job_slot, stop, signalled, thrVars, outcome>>

Main ==
  \/ \E e \in Events : \/ OnParams(e) \/ OnSetDifficulty(e) \/ JobBeforeParams(e) \/ BuildFails(e)
                       \/ ReplaceJob(e) \/ FirstJob(e) \/ FirstJobToTune(e)
  \/ TuneCandidate \/ StopCandidate \/ JoinCandidate \/ LockGrid
  \/ OnLagged \/ OnClosed \/ OnSignal \/ Exit

-----------------------------------------------------------------------------
(* A search thread: one attempt after the other.                           *)

threadKeeps == <<mainVars, signalled, outcome>>

(* Mutated form: the slot is read once, when the thread starts. *)
BeginAttempt_OwnJob(g, t) ==
  /\ thread[g][t] = "top" /\ ~stop[g]
  /\ thread' = [thread EXCEPT ![g][t] = "mining"]
  /\ snapshot' = [snapshot EXCEPT ![g][t] = IF @ = NoJob THEN job_slot[g].job_id ELSE @]
  /\ UNCHANGED <<chanVars, threadKeeps>>

BeginAttempt(g, t) ==
  /\ thread[g][t] = "top" /\ ~stop[g]
  /\ thread' = [thread EXCEPT ![g][t] = "mining"]
  /\ snapshot' = [snapshot EXCEPT ![g][t] = job_slot[g].job_id]
  /\ UNCHANGED <<chanVars, threadKeeps>>

Miss(g, t) ==
  /\ thread[g][t] = "mining"
  /\ thread' = [thread EXCEPT ![g][t] = "top"]
  /\ UNCHANGED <<chanVars, threadKeeps, snapshot>>

(* spawn_grind is given the dialect, by autotune_grid always Pearl.        *)
Encoding(g) ==
  LET dialect == IF g = Mining THEN Dialect ELSE "Pearl"
  IN IF dialect = "HeroMiners" THEN "gzip" ELSE "plain"

(* Mutated form: the queue has no bound. *)
Hit_Unbounded(g, t) ==
  /\ thread[g][t] = "mining"
  /\ thread' = [thread EXCEPT ![g][t] = "top"]
  /\ submit_rx' = Append(submit_rx, [job_id |-> snapshot[g][t], enc |-> Encoding(g)])
  /\ UNCHANGED <<st, live_job, sent, job_tx, lagged, senders, threadKeeps, snapshot>>

(* The share is for the job of the attempt, whatever the slot holds now;   *)
(* if the queue is full it is dropped.                                     *)
Hit(g, t) ==
  /\ thread[g][t] = "mining"
  /\ thread' = [thread EXCEPT ![g][t] = "top"]
  /\ submit_rx' = TrySend(submit_rx, SubmitCap,
                          [job_id |-> snapshot[g][t], enc |-> Encoding(g)])
  /\ UNCHANGED <<st, live_job, sent, job_tx, lagged, senders, threadKeeps, snapshot>>

ThreadStops(g, t) ==
  /\ thread[g][t] = "top" /\ stop[g]
  /\ thread' = [thread EXCEPT ![g][t] = "gone"]
  /\ snapshot' = [snapshot EXCEPT ![g][t] = NoJob]
  /\ UNCHANGED <<chanVars, threadKeeps>>

Search(g, t) == BeginAttempt(g, t) \/ Miss(g, t) \/ Hit(g, t) \/ ThreadStops(g, t)

-----------------------------------------------------------------------------
SignalArrives ==
  /\ ~signalled /\ signalled' = TRUE
  /\ UNCHANGED <<chanVars, mainVars, thrVars, outcome>>

Exited == mpc = "exited" /\ UNCHANGED vars

Next ==
  \/ \E e \in Events : PoolAnnounces(e)
  \/ SessionMoves
  \/ Main
  \/ \E g \in Gens, t \in Threads : Search(g, t)
  \/ SignalArrives \/ Exited

Spec == Init /\ [][Next]_vars

(* The runtime polls the main task, whose select! picks among its ready    *)
(* branches at random; the operating system schedules the threads, and an  *)
(* attempt is a bounded computation.                                       *)
Fairness ==
  /\ WF_vars(\E e \in Events : \/ OnParams(e) \/ OnSetDifficulty(e) \/ JobBeforeParams(e)
                               \/ BuildFails(e) \/ ReplaceJob(e) \/ FirstJob(e)
                               \/ FirstJobToTune(e))
  /\ WF_vars(TuneCandidate \/ StopCandidate \/ JoinCandidate \/ LockGrid)
  /\ WF_vars(OnLagged \/ OnClosed)
  /\ WF_vars(OnSignal) /\ WF_vars(Exit)
  /\ \A g \in Gens, t \in Threads : WF_vars(Search(g, t))

FairSpec == Spec /\ Fairness

-----------------------------------------------------------------------------
TypeOK ==
  /\ st \in {"down", "greeting", "live", "ended"}
  /\ live_job \in JobIds \cup {NoJob} /\ sent \in 0..MaxSent
  /\ job_tx \in Seq(Events) /\ Len(job_tx) <= JobCap /\ lagged \in BOOLEAN
  /\ submit_rx \in Seq(Shares) /\ Len(submit_rx) <= SubmitCap /\ senders \in BOOLEAN
  /\ mpc \in {"select", "tune", "measure", "join", "retire", "exited"}
  /\ cur_params \in Params \cup {NoParams} /\ cur_difficulty \in Diffs
  /\ batch \in Batches /\ tuning \in JobIds \cup {NoJob} /\ cand \in 1..Candidates + 1
  /\ signalled \in BOOLEAN
  /\ job_slot \in [Gens -> GrindJobs \cup {NoGrind}]
  /\ stop \in [Gens -> BOOLEAN]
  /\ thread \in [Gens -> [Threads -> {"none", "top", "mining", "gone"}]]
  /\ snapshot \in [Gens -> [Threads -> JobIds \cup {NoJob}]]
  /\ outcome.newest \in {"none", "queued", "forgotten", "refused", "taken"}
  /\ outcome.built \in BOOLEAN

(* Two generations of threads never run at once - they would share the     *)
(* processor, the GPU and the counters autotune measures with - and none   *)
(* outlives main.                                                          *)
OneGeneration ==
  /\ \A g, h \in Gens : Running(g) /\ Running(h) => g = h
  /\ mpc = "exited" => \A g \in Gens : ~Running(g)

(* Unless the channel forgot it or the main loop refused it, the newest    *)
(* announcement is the job the threads are given: no later event, of       *)
(* whatever kind and in whatever session, and no tuning puts an older one  *)
(* back.                                                                   *)
SlotFollowsPool ==
  (outcome.newest = "taken" /\ mpc = "select" /\ live_job # NoJob) =>
    job_slot[Mining].job_id = live_job

(* The threads search for the difficulty that is credited and displayed,   *)
(* unless the last job or vardiff could not be built; and for the grid     *)
(* that was locked.                                                        *)
SlotHasDifficulty ==
  job_slot[Mining] # NoGrind =>
    /\ outcome.built => job_slot[Mining].difficulty = cur_difficulty
    /\ job_slot[Mining].batch = batch

(* The miner's side is a client of the session task.                       *)
ImplementsClient == Pool!Spec

(* A signal ends the miner, also one that comes in the middle of a tuning, *)
(* with every thread joined (whose contexts then give the GPU back).       *)
ShutdownCompletes == signalled ~> mpc = "exited"

(* A job the pool announced and stays with is, unless it was forgotten or  *)
(* refused or the channel overflows again and again, what every thread     *)
(* works on in the end.                                                    *)
EveryThreadSwaps ==
  \A j \in JobIds :
    <>[](/\ live_job = j /\ ~signalled /\ ~lagged
         /\ outcome.newest \notin {"forgotten", "refused"}) =>
      <>[](\A t \in Threads : snapshot[Mining][t] = j)

(* tworker.rs: "autotune never submits - encoding arm irrelevant": every   *)
(* queued share is encoded for the pool it goes to.                        *)
SharesAreEncoded ==
  \A i \in 1..Len(submit_rx) : submit_rx[i].enc = "gzip" <=> Dialect = "HeroMiners"

(* tworker.rs: "Rebuild bound only - reuse header/config from the live     *)
(* job."                                                                   *)
VardiffKeepsConfig ==
  [][job_slot[Mining] # NoGrind /\ job_slot'[Mining].job_id = job_slot[Mining].job_id
       /\ cur_difficulty' # cur_difficulty
     => job_slot'[Mining].params = job_slot[Mining].params]_vars

=============================================================================
