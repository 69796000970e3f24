--------------------------- MODULE OverlapPipeline ---------------------------
(***************************************************************************)
(* resident_run2 of cuda/pearl_resident_lib.cu, with the overlap: while    *)
(* stream sA grinds setup N out of slot p, stream sP (non-blocking) runs   *)
(* the prologue of setup N+1 into slot 1-p; stream sB makes the resident B *)
(* at the first call of a key.  Streams are first-in first-out, and are    *)
(* ordered among each other by nothing but the events they wait for.       *)
(*                                                                         *)
(* A kernel is under way from its start to its end, so that two kernels    *)
(* that touch the same buffer can be caught at it.  Buffers hold tags:     *)
(* which setup and which key their contents come from.                     *)
(***************************************************************************)
EXTENDS Naturals, Sequences

CONSTANTS
  Keys, NoKey,
  MaxCalls     \* bound: grind2 calls

ASSUME ConstantsAssumption ==
  /\ NoKey \notin Keys /\ Keys # {}
  /\ MaxCalls \in Nat \ {0}

Slots   == {0, 1}
Streams == {"sA", "sB", "sP"}
Events  == {"eStir", "eB", "eB2", "ePro0", "ePro1"}
Setups  == 0..MaxCalls + 1                 \* setups are numbered by their seed; 0 is none

(* eB is recorded twice in a call, ePro while the last record of it may    *)
(* not have been reached: the records go by different names here.          *)
EPro(slot) == IF slot = 0 THEN "ePro0" ELSE "ePro1"

VARIABLES
  host,       \* the calling thread: "idle", "copied" or "launched"
  calls,      \* setups ground so far; the setup of the call under way is the last
  age,        \* calls since the key changed, up to 3
  last_jk,    \* the key of the last call
  pend_valid, pend_slot,  \* a prologue has been prefetched, and where
  queue,      \* per stream: what was launched and has not ended
  running,    \* streams whose first kernel is under way
  fired       \* events recorded and reached

VARIABLES
  d_jk,       \* key
  d_A, d_ha, d_as,   \* per slot: matrix, its root, the noise seed stirred from it
  d_fa,       \* d_faA and d_saA: permutation made from a noise seed
  d_B, d_hb, d_bs

hostVars == <<host, calls, age, last_jk, pend_valid, pend_slot>>
memVars  == <<d_jk, d_A, d_ha, d_as, d_fa, d_B, d_hb, d_bs>>
vars     == <<hostVars, queue, running, fired, memVars>>

Tags    == [seed : Setups, key : Keys \cup {NoKey}]
NoTag   == [seed |-> 0, key |-> NoKey]
Noised  == [seed : Setups, noise : Tags]
NoMat   == [seed |-> 0, noise |-> NoTag]

Init ==
  /\ host = "idle" /\ calls = 0 /\ age = 0 /\ last_jk = NoKey
  /\ pend_valid = FALSE /\ pend_slot = 0
  /\ queue = [s \in Streams |-> <<>>] /\ running = {} /\ fired = {}
  /\ d_jk = NoKey
  /\ d_A = [p \in Slots |-> NoMat]
  /\ d_ha = [p \in Slots |-> NoTag] /\ d_as = [p \in Slots |-> NoTag]
  /\ d_fa = NoTag /\ d_B = NoMat /\ d_hb = NoTag /\ d_bs = NoTag

-----------------------------------------------------------------------------
(* What is launched.  age tells the setups of a key apart.                 *)

Kernel(name, slot, seed, n) == [op |-> name, slot |-> slot, seed |-> seed, age |-> n]
Record(e) == [op |-> "record", ev |-> e]
Wait(e)   == [op |-> "wait", ev |-> e]

Kernels == {"gen", "commit", "stir", "perm", "noise", "grind", "genB", "commitB", "permB", "noiseB"}

(* A prologue on sP, and the record behind it. *)
Prologue(slot, seed, n) ==
  <<Kernel("gen", slot, seed, n), Kernel("commit", slot, seed, n), Kernel("stir", slot, seed, n),
    Kernel("perm", slot, seed, n), Kernel("noise", slot, seed, n), Record(EPro(slot))>>

(* The first call of a key: prologue inline on sA, B on sB. *)
ColdA(seed) ==
  <<Kernel("gen", 0, seed, 0), Kernel("commit", 0, seed, 0), Wait("eB"),
    Kernel("stir", 0, seed, 0), Record("eStir"),
    Kernel("perm", 0, seed, 0), Kernel("noise", 0, seed, 0), Wait("eB2"),
    Kernel("grind", 0, seed, 0)>>

(* Mutated form: eB is recorded once. *)
ColdB_OneRecord(seed) ==
  <<Kernel("genB", 0, seed, 0), Kernel("commitB", 0, seed, 0), Record("eB"), Wait("eStir"),
    Kernel("permB", 0, seed, 0), Kernel("noiseB", 0, seed, 0)>>

ColdB(seed) ==
  <<Kernel("genB", 0, seed, 0), Kernel("commitB", 0, seed, 0), Record("eB"), Wait("eStir"),
    Kernel("permB", 0, seed, 0), Kernel("noiseB", 0, seed, 0), Record("eB2")>>

(* Mutated form: sP does not wait for the stir of the cold prologue. *)
ColdP_NoWait(next) == Prologue(1, next, 1)

ColdP(next) == <<Wait("eStir")>> \o Prologue(1, next, 1)

(* Mutated form: the grind does not wait for the prefetched prologue. *)
HotA_NoWait(slot, seed, n) == <<Kernel("grind", slot, seed, n)>>

(* The prologue was prefetched: the grind follows at once. *)
HotA(slot, seed, n) == <<Wait(EPro(slot)), Kernel("grind", slot, seed, n)>>

(* Mutated form: the slots do not wrap around. *)
Other_NoWrap(slot) == slot + 1

Other(slot) == 1 - slot

HotP(slot, next, n) == Prologue(Other(slot), next, n)

-----------------------------------------------------------------------------
(* The calling thread.                                                     *)

Idle(s) == queue[s] = <<>>

(* pearl_resident_grind2_ctx copies the key first, while sP may be busy.   *)
(* A copy waits for sA and sB, not for sP.                                 *)
CopyKey ==
  /\ host = "idle" /\ calls < MaxCalls
  /\ host' = "copied" /\ d_jk' \in Keys
  /\ UNCHANGED <<calls, age, last_jk, pend_valid, pend_slot, queue, running, fired,
                 d_A, d_ha, d_as, d_fa, d_B, d_hb, d_bs>>

(* Mutated form: a new key leaves the prefetched prologue valid. *)
Cold_OnlyFirst == ~pend_valid

Cold == last_jk # d_jk \/ ~pend_valid

Older == IF age < 3 THEN age + 1 ELSE 3

(* A new key: the device is drained and what was prefetched is thrown away. *)
LaunchCold ==
  /\ host = "copied" /\ Cold
  /\ \A s \in Streams : Idle(s)
  /\ queue' = [sA |-> ColdA(calls + 1), sB |-> ColdB(calls + 1), sP |-> ColdP(calls + 2)]
  /\ fired' = {}
  /\ host' = "launched" /\ calls' = calls + 1 /\ age' = 1
  /\ last_jk' = d_jk /\ pend_valid' = TRUE /\ pend_slot' = 1
  /\ UNCHANGED <<running, memVars>>

(* The prologue of this setup was prefetched under this key. *)
LaunchHot ==
  /\ host = "copied" /\ ~Cold
  /\ queue' = [queue EXCEPT !["sA"] = @ \o HotA(pend_slot, calls + 1, age),
                            !["sP"] = @ \o HotP(pend_slot, calls + 2, Older)]
  /\ fired' = fired \ {EPro(Other(pend_slot))}
  /\ host' = "launched" /\ calls' = calls + 1 /\ age' = Older
  /\ pend_slot' = Other(pend_slot)
  /\ UNCHANGED <<last_jk, pend_valid, running, memVars>>

(* cudaStreamSynchronize(sA), and the hits are read. *)
Return ==
  /\ host = "launched" /\ Idle("sA")
  /\ host' = "idle"
  /\ UNCHANGED <<calls, age, last_jk, pend_valid, pend_slot, queue, running, fired, memVars>>

Host == CopyKey \/ LaunchCold \/ LaunchHot \/ Return

-----------------------------------------------------------------------------
(* The device.                                                             *)

First(s) == Head(queue[s])
IsKernel(s) == queue[s] # <<>> /\ First(s).op \in Kernels
Advance(s) == queue' = [queue EXCEPT ![s] = Tail(@)]

Fires(s) ==
  /\ queue[s] # <<>> /\ First(s).op = "record"
  /\ Advance(s) /\ fired' = fired \cup {First(s).ev}
  /\ UNCHANGED <<hostVars, running, memVars>>

Passes(s) ==
  /\ queue[s] # <<>> /\ First(s).op = "wait" /\ First(s).ev \in fired
  /\ Advance(s)
  /\ UNCHANGED <<hostVars, running, fired, memVars>>

Starts(s) ==
  /\ IsKernel(s) /\ s \notin running
  /\ running' = running \cup {s}
  /\ UNCHANGED <<hostVars, queue, fired, memVars>>

Mixed == [seed |-> 0, key |-> NoKey]

(* What a kernel leaves in memory.  A root is that of the matrix under the *)
(* key; a noise seed belongs to a setup if both roots are under it; a      *)
(* matrix is noised rightly if the permutation is that of its noise seed.  *)
Gen(k)    == d_A' = [d_A EXCEPT ![k.slot] = [seed |-> k.seed, noise |-> NoTag]]
Commit(k) == d_ha' = [d_ha EXCEPT ![k.slot] = [seed |-> d_A[k.slot].seed, key |-> d_jk]]
Stir(k)   == /\ d_as' = [d_as EXCEPT ![k.slot] =
                           IF d_ha[k.slot].key = d_jk /\ d_hb.key = d_jk THEN d_ha[k.slot] ELSE Mixed]
             /\ d_bs' = d_hb
Perm(k)   == d_fa' = d_as[k.slot]
Noise(k)  == d_A' = [d_A EXCEPT ![k.slot].noise =
                       IF d_fa = d_as[k.slot] THEN d_as[k.slot] ELSE Mixed]
GenB(k)    == d_B' = [seed |-> k.seed, noise |-> NoTag]
CommitB    == d_hb' = [seed |-> d_B.seed, key |-> d_jk]
NoiseB     == d_B' = [d_B EXCEPT !.noise = d_bs]

Effect(k) ==
  \/ k.op = "gen"     /\ Gen(k)    /\ UNCHANGED <<d_ha, d_as, d_fa, d_B, d_hb, d_bs>>
  \/ k.op = "commit"  /\ Commit(k) /\ UNCHANGED <<d_A, d_as, d_fa, d_B, d_hb, d_bs>>
  \/ k.op = "stir"    /\ Stir(k)   /\ UNCHANGED <<d_A, d_ha, d_fa, d_B, d_hb>>
  \/ k.op = "perm"    /\ Perm(k)   /\ UNCHANGED <<d_A, d_ha, d_as, d_B, d_hb, d_bs>>
  \/ k.op = "noise"   /\ Noise(k)  /\ UNCHANGED <<d_ha, d_as, d_fa, d_B, d_hb, d_bs>>
  \/ k.op = "genB"    /\ GenB(k)   /\ UNCHANGED <<d_A, d_ha, d_as, d_fa, d_hb, d_bs>>
  \/ k.op = "commitB" /\ CommitB   /\ UNCHANGED <<d_A, d_ha, d_as, d_fa, d_B, d_bs>>
  \/ k.op = "noiseB"  /\ NoiseB    /\ UNCHANGED <<d_A, d_ha, d_as, d_fa, d_hb, d_bs>>
  \/ k.op \in {"grind", "permB"}   /\ UNCHANGED <<d_A, d_ha, d_as, d_fa, d_B, d_hb, d_bs>>

Ends(s) ==
  /\ s \in running /\ running' = running \ {s}
  /\ Advance(s)
  /\ Effect(First(s))
  /\ UNCHANGED <<hostVars, fired, d_jk>>

Stream(s) == Fires(s) \/ Passes(s) \/ Starts(s) \/ Ends(s)

Done == host = "idle" /\ calls = MaxCalls /\ (\A s \in Streams : Idle(s)) /\ UNCHANGED vars

Next == Host \/ (\E s \in Streams : Stream(s)) \/ Done

Spec == Init /\ [][Next]_vars

(* The thread runs, and the device gets round to every stream. *)
FairSpec == Spec /\ WF_vars(LaunchCold \/ LaunchHot \/ Return)
                 /\ \A s \in Streams : WF_vars(Stream(s))

-----------------------------------------------------------------------------
TypeOK ==
  /\ host \in {"idle", "copied", "launched"}
  /\ calls \in 0..MaxCalls /\ age \in 0..3
  /\ last_jk \in Keys \cup {NoKey} /\ pend_valid \in BOOLEAN /\ pend_slot \in Slots
  /\ running \subseteq Streams /\ fired \subseteq Events
  /\ d_jk \in Keys \cup {NoKey}
  /\ d_A \in [Slots -> Noised] /\ d_ha \in [Slots -> Tags] /\ d_as \in [Slots -> Tags]
  /\ d_fa \in Tags /\ d_B \in Noised /\ d_hb \in Tags /\ d_bs \in Tags

(* The buffers a kernel reads and writes. *)
Reads(k) ==
  CASE k.op = "commit"  -> {<<"A", k.slot>>}
    [] k.op = "stir"    -> {<<"ha", k.slot>>, <<"hb", 0>>}
    [] k.op = "perm"    -> {<<"as", k.slot>>}
    [] k.op = "noise"   -> {<<"as", k.slot>>, <<"fa", 0>>}
    [] k.op = "grind"   -> {<<"A", k.slot>>, <<"as", k.slot>>, <<"B", 0>>}
    [] k.op = "commitB" -> {<<"B", 0>>}
    [] k.op = "permB"   -> {<<"bs", 0>>}
    [] k.op = "noiseB"  -> {<<"bs", 0>>}
    [] OTHER -> {}

Writes(k) ==
  CASE k.op \in {"gen", "noise"} -> {<<"A", k.slot>>}
    [] k.op = "commit"  -> {<<"mtA", 0>>, <<"ha", k.slot>>}
    [] k.op = "stir"    -> {<<"as", k.slot>>, <<"bs", 0>>}
    [] k.op = "perm"    -> {<<"fa", 0>>}
    [] k.op \in {"genB", "noiseB"} -> {<<"B", 0>>}
    [] k.op = "commitB" -> {<<"mtB", 0>>, <<"hb", 0>>}
    [] OTHER -> {}

(* The buffers on which two kernels under way collide. *)
Races ==
  UNION {Writes(First(x[1])) \cap (Reads(First(x[2])) \cup Writes(First(x[2]))) :
           x \in {y \in running \X running : y[1] # y[2]}}

(* Grind and prefetch keep to their slots, the hash of B is stable, the    *)
(* scratch of the commit is used by one prologue at a time: no two kernels *)
(* collide on anything but the permutation scratch and the noise seed of   *)
(* B, which is written again with what it holds.                           *)
SlotsExclusive == Races \subseteq {<<"fa", 0>>, <<"bs", 0>>}

Grinding == {First(s) : s \in {x \in running : First(x).op = "grind"}}

(* What a grind multiplies is its own setup's A - generated from its seed, *)
(* committed under the key of the call, stirred with the resident B - and  *)
(* the B of the first setup of the key; the noise seed it keys its hashes  *)
(* with is that of the same setup.                                         *)
GrindsItsSetup ==
  \A g \in Grinding :
    /\ d_A[g.slot].seed = g.seed
    /\ d_as[g.slot] = [seed |-> g.seed, key |-> last_jk]
    /\ d_B.seed = d_hb.seed /\ d_B.noise = d_hb /\ d_hb.key = last_jk

NoisedRightly(g) == d_A[g.slot].noise = d_as[g.slot]

(* From the third setup of a key on, the noise of A is its own: only the   *)
(* cold prologue and the first prefetched one run side by side.            *)
NoiseSettles == \A g \in Grinding : g.age >= 2 => NoisedRightly(g)

(* A call returns: no stream waits for an event that does not come. *)
CallReturns == host = "copied" ~> host = "idle"

(* pearl_resident_lib.cu: "Scratch prologue (d_sla/d_faA/d_saA/d_ra)       *)
(* partagé : UN seul prologue en vol à la fois", and every setup gives the *)
(* same output as without the overlap.                                     *)
SameOutput == \A g \in Grinding : NoisedRightly(g)

=============================================================================
