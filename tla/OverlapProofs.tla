--------------------------- MODULE OverlapProofs ---------------------------
(***************************************************************************)
(* The streams of OverlapPipeline, for any number of calls and of keys.    *)
(*                                                                         *)
(* A stream always holds the rest of what was last launched on it, and how *)
(* much is left says how far it has come: the invariant relates the        *)
(* positions of the three streams, the events fired and the contents of    *)
(* the buffers.  There are two shapes.  After a cold launch (age 1) the    *)
(* streams hold the rest of ColdA, ColdB and ColdP.  After a hot one sB is *)
(* done, and sP has either still to end the prologue of the setup that is  *)
(* called for, with the next one behind it, or is at the next one.         *)
(***************************************************************************)
EXTENDS OverlapPipeline, SequenceTheorems, TLAPS

Ops ==
  [op : Kernels, slot : Slots, seed : Setups, age : 0..3]
    \cup [op : {"record", "wait"}, ev : Events]

Rest(t, i) == SubSeq(t, i, Len(t))

(* A prologue on sP, from its wait for the cold stir (hot ones do not      *)
(* wait: they begin at 2) to its record.                                   *)
Part(slot, seed, n) ==
  <<Wait("eStir"), Kernel("gen", slot, seed, n), Kernel("commit", slot, seed, n),
    Kernel("stir", slot, seed, n), Kernel("perm", slot, seed, n), Kernel("noise", slot, seed, n),
    Record(EPro(slot))>>

(* The slot that is ground out of. *)
G == Other(pend_slot)

KeyKept == d_jk = last_jk

HostInv ==
  /\ queue \in [Streams -> Seq(Ops)]
  /\ pend_valid <=> age # 0
  /\ age = 0 => calls = 0 /\ last_jk = NoKey /\ host # "launched" /\ \A s \in Streams : Idle(s)
  /\ age # 0 => calls # 0 /\ last_jk \in Keys
  /\ host # "launched" => Idle("sA")
  /\ host # "idle" => d_jk \in Keys
  /\ host # "copied" => KeyKept
  /\ host = "copied" => calls < MaxCalls
  /\ \A s \in running : IsKernel(s)

(* What a prologue has left when its stream is at p of its part. *)
ProInv(slot, seed, n, p) ==
  /\ p > 2 => d_A[slot].seed = seed
  /\ KeyKept /\ p > 3 => d_ha[slot] = [seed |-> seed, key |-> last_jk]
  /\ KeyKept /\ p > 4 => d_as[slot] = [seed |-> seed, key |-> last_jk]
  /\ n >= 2 => /\ p = 6 => d_fa = d_as[slot]
               /\ p > 6 => d_A[slot].noise = d_as[slot]

(* A slot that can be ground. *)
Ready(slot, seed, n) ==
  /\ d_A[slot].seed = seed /\ d_as[slot] = [seed |-> seed, key |-> last_jk]
  /\ n >= 2 => d_A[slot].noise = d_as[slot]

(* sP at p of the prologue of the setup after this one. *)
AtNext(p) ==
  /\ queue["sP"] = Rest(Part(pend_slot, calls + 1, age), p)
  /\ EPro(pend_slot) \in fired <=> p = 8
  /\ ProInv(pend_slot, calls + 1, age, p)

(* Both prologues, when sP is still at the first. *)
Parts(n) == Part(G, calls, n) \o HotP(G, calls + 1, age)

(* sP at p of the prologue of this setup. *)
AtThis(p, n) ==
  /\ queue["sP"] = Rest(Parts(n), p)
  /\ EPro(G) \notin fired /\ EPro(pend_slot) \notin fired
  /\ ProInv(G, calls, n, p)
  /\ host = "launched"

Key == [seed |-> calls, key |-> last_jk]

(* After a cold launch: the streams are at a, b and p. *)
ColdAt(a, b, p) ==
  /\ pend_slot = 1
  /\ queue["sA"] = Rest(ColdA(calls), a)
  /\ queue["sB"] = Rest(ColdB(calls), b)
  /\ AtNext(p)
  /\ "eB" \in fired <=> b > 3
  /\ "eStir" \in fired <=> a > 5
  /\ "eB2" \in fired <=> b > 7
  /\ a > 3 => b > 3
  /\ b > 4 => a > 5
  /\ a > 8 => b > 7
  /\ p > 1 => a > 5
  /\ a > 1 => d_A[0].seed = calls
  /\ a > 2 => d_ha[0] = Key
  /\ b > 1 => d_B.seed = calls
  /\ b > 2 => d_hb = Key
  /\ a > 4 => d_as[0] = Key /\ d_bs = Key
  /\ b > 6 => d_B.noise = Key

ResidentB == d_hb.key = last_jk /\ d_B = [seed |-> d_hb.seed, noise |-> d_hb]

(* After a hot one; n is the age of the setup that is ground. sP is at its *)
(* prologue, and sA waits for it; or sP is at the next one.                *)
HotWaits(n, p) == AtThis(p, n) /\ queue["sA"] = HotA(G, calls, n)

HotGrinds(n, p, i) ==
  /\ AtNext(p) /\ Ready(G, calls, n) /\ EPro(G) \in fired
  /\ queue["sA"] = Rest(HotA(G, calls, n), i)

HotInv(n) ==
  /\ n = 1 <=> age = 2
  /\ Idle("sB") /\ ResidentB
  /\ \/ \E p \in 1..7 : HotWaits(n, p)
     \/ \E p \in 2..8, i \in 1..3 : HotGrinds(n, p, i)

StreamInv ==
  /\ age = 1 => \E a \in 1..10, b \in 1..8, p \in 1..8 : ColdAt(a, b, p)
  /\ age \in {2, 3} => \E n \in 1..3 : HotInv(n)

IndInv == TypeOK /\ HostInv /\ StreamInv

-----------------------------------------------------------------------------
(* Sequences and templates.                                                *)

LEMMA SlotFacts ==
  ASSUME NEW slot \in Slots
  PROVE  /\ Other(slot) \in Slots /\ Other(slot) # slot /\ Other(Other(slot)) = slot
         /\ EPro(slot) \in Events /\ EPro(slot) # EPro(Other(slot))
         /\ EPro(slot) \notin {"eStir", "eB", "eB2"}
BY DEF Slots, Other, EPro, Events

LEMMA KernelType ==
  ASSUME NEW name \in Kernels, NEW slot \in Slots, NEW seed \in Setups, NEW n \in 0..3
  PROVE  Kernel(name, slot, seed, n) \in Ops
BY DEF Kernel, Ops

LEMMA EventOpType == ASSUME NEW e \in Events PROVE Record(e) \in Ops /\ Wait(e) \in Ops
BY DEF Record, Wait, Ops

LEMMA OpsFields ==
  ASSUME NEW o \in Ops
  PROVE  /\ o.op \in Kernels => o.slot \in Slots /\ o.seed \in Setups /\ o.age \in 0..3
         /\ o.op \in {"record", "wait"} => o.ev \in Events
         /\ o.op \in Kernels \/ o.op = "record" \/ o.op = "wait"
BY DEF Ops, Kernels

LEMMA RestFacts ==
  ASSUME NEW S, NEW t \in Seq(S), NEW i \in 1..Len(t) + 1
  PROVE  /\ Rest(t, i) \in Seq(S) /\ Len(Rest(t, i)) = Len(t) + 1 - i
         /\ Rest(t, i) = <<>> <=> i = Len(t) + 1
         /\ i <= Len(t) => Head(Rest(t, i)) = t[i] /\ Tail(Rest(t, i)) = Rest(t, i + 1)
         /\ Rest(t, 1) = t
<1>1. Rest(t, i) \in Seq(S) /\ Len(Rest(t, i)) = Len(t) + 1 - i
  BY SubSeqProperties DEF Rest
<1>2. Rest(t, i) = <<>> <=> i = Len(t) + 1
  BY <1>1, EmptySeq
<1>3. i <= Len(t) => Head(Rest(t, i)) = t[i] /\ Tail(Rest(t, i)) = Rest(t, i + 1)
  BY HeadTailOfSubSeq DEF Rest
<1> QED BY <1>1, <1>2, <1>3, SubSeqFull DEF Rest

LEMMA RestEnds == ASSUME NEW S, NEW t \in Seq(S) PROVE Rest(t, Len(t) + 1) = <<>>
<1>1. Len(t) + 1 \in 1..Len(t) + 1
  OBVIOUS
<1> QED BY <1>1, RestFacts

(* What is launched behind the rest of a template.                         *)
LEMMA RestAppend ==
  ASSUME NEW S, NEW t \in Seq(S), NEW u \in Seq(S)
  PROVE  /\ t \o u \in Seq(S) /\ Len(t \o u) = Len(t) + Len(u)
         /\ \A j \in 1..Len(t \o u) : (t \o u)[j] = IF j <= Len(t) THEN t[j] ELSE u[j - Len(t)]
         /\ \A i \in 1..Len(t) + 1 : Rest(t, i) \o u = Rest(t \o u, i)
         /\ Rest(t \o u, Len(t) + 1) = u
<1>0. PICK v : v = t \o u
  OBVIOUS
<1>1. ASSUME NEW x \in Seq(S), NEW y \in Seq(S), NEW z, z = x \o y
      PROVE  /\ z \in Seq(S) /\ Len(z) = Len(x) + Len(y)
             /\ \A j \in 1..Len(x) + Len(y) : z[j] = IF j <= Len(x) THEN x[j] ELSE y[j - Len(x)]
  BY <1>1, ConcatProperties, Zenon
<1>2. /\ v \in Seq(S) /\ Len(v) = Len(t) + Len(u)
      /\ \A j \in 1..Len(v) : v[j] = IF j <= Len(t) THEN t[j] ELSE u[j - Len(t)]
  BY <1>0, <1>1
<1>3. ASSUME NEW x \in Seq(S), NEW k \in 1..Len(x) + 1
      PROVE  /\ Rest(x, k) \in Seq(S) /\ Len(Rest(x, k)) = Len(x) + 1 - k
             /\ \A j \in 1..Len(Rest(x, k)) : Rest(x, k)[j] = x[k + j - 1]
  <2>1. \A m \in k..Len(x) : x[m] \in S
    OBVIOUS
  <2> QED BY <1>3, <2>1, SubSeqProperties DEF Rest
<1>4. ASSUME NEW i \in 1..Len(t) + 1 PROVE Rest(t, i) \o u = Rest(v, i)
  <2>1. PICK r : r = Rest(t, i)
    OBVIOUS
  <2>2. r \in Seq(S) /\ Len(r) = Len(t) + 1 - i /\ \A j \in 1..Len(r) : r[j] = t[i + j - 1]
    BY <1>3, <2>1
  <2>3. PICK z : z = r \o u
    OBVIOUS
  <2>4. /\ z \in Seq(S) /\ Len(z) = Len(r) + Len(u)
        /\ \A j \in 1..Len(r) + Len(u) : z[j] = IF j <= Len(r) THEN r[j] ELSE u[j - Len(r)]
    BY <1>1, <2>2, <2>3
  <2>5. PICK w : w = Rest(v, i)
    OBVIOUS
  <2>. i \in 1..Len(v) + 1
    BY <1>2
  <2>6. w \in Seq(S) /\ Len(w) = Len(v) + 1 - i /\ \A j \in 1..Len(w) : w[j] = v[i + j - 1]
    BY <1>2, <1>3, <2>5
  <2>7. z = w
    <3>1. Len(z) = Len(w)
      BY <1>2, <2>2, <2>4, <2>6
    <3>2. ASSUME NEW j \in 1..Len(z) PROVE z[j] = w[j]
      <4>1. PICK l : l = i + j - 1
        OBVIOUS
      <4>2. l \in 1..Len(v) /\ w[j] = v[l] /\ z[j] = IF j <= Len(r) THEN r[j] ELSE u[j - Len(r)]
        BY <1>2, <2>2, <2>4, <2>6, <3>1, <4>1
      <4>3. CASE j <= Len(r)
        <5>1. j \in 1..Len(r)
          BY <2>2, <4>3
        <5>2. r[j] = t[l]
          BY <2>2, <4>1, <5>1, Zenon
        <5>3. l <= Len(t)
          <6>1. Len(r) = Len(t) + 1 - i
            BY <2>2
          <6> QED BY <4>1, <5>1, <6>1
        <5> QED BY <1>2, <4>2, <4>3, <5>2, <5>3
      <4>4. CASE ~(j <= Len(r))
        <5>1. ~(l <= Len(t)) /\ j - Len(r) = l - Len(t)
          BY <2>2, <4>1, <4>4
        <5> QED BY <1>2, <4>2, <4>4, <5>1
      <4> QED BY <4>3, <4>4
    <3> QED BY <2>4, <2>6, <3>1, <3>2, SeqEqual
  <2> QED BY <2>1, <2>3, <2>5, <2>7
<1>5. Rest(v, Len(t) + 1) = u
  <2>1. PICK w : w = Rest(v, Len(t) + 1)
    OBVIOUS
  <2>2. Len(t) + 1 \in 1..Len(v) + 1
    BY <1>2
  <2>3. /\ w \in Seq(S) /\ Len(w) = Len(v) + 1 - (Len(t) + 1)
        /\ \A j \in 1..Len(w) : w[j] = v[Len(t) + 1 + j - 1]
    BY <1>2, <1>3, <2>1, <2>2
  <2>4. w = u
    <3>1. Len(w) = Len(u)
      BY <1>2, <2>3
    <3>2. ASSUME NEW j \in 1..Len(w) PROVE w[j] = u[j]
      <4>1. PICK l : l = Len(t) + j
        OBVIOUS
      <4>2. l \in 1..Len(v) /\ ~(l <= Len(t)) /\ l - Len(t) = j /\ Len(t) + 1 + j - 1 = l
        BY <1>2, <3>1, <4>1
      <4> QED BY <1>2, <2>3, <4>2
    <3> QED BY <2>3, <3>1, <3>2, SeqEqual
  <2> QED BY <2>1, <2>4
<1> QED BY <1>0, <1>2, <1>4, <1>5

LEMMA PartFacts ==
  ASSUME NEW slot \in Slots, NEW seed \in Setups, NEW n \in 0..3,
         NEW t, t = Part(slot, seed, n)
  PROVE  /\ t \in Seq(Ops) /\ Len(t) = 7
         /\ t[1] = Wait("eStir") /\ t[2] = Kernel("gen", slot, seed, n)
         /\ t[3] = Kernel("commit", slot, seed, n) /\ t[4] = Kernel("stir", slot, seed, n)
         /\ t[5] = Kernel("perm", slot, seed, n) /\ t[6] = Kernel("noise", slot, seed, n)
         /\ t[7] = Record(EPro(slot))
<1>1. /\ Kernel("gen", slot, seed, n) \in Ops /\ Kernel("commit", slot, seed, n) \in Ops
      /\ Kernel("stir", slot, seed, n) \in Ops /\ Kernel("perm", slot, seed, n) \in Ops
      /\ Kernel("noise", slot, seed, n) \in Ops
  BY KernelType DEF Kernels
<1>2. Wait("eStir") \in Ops /\ Record(EPro(slot)) \in Ops
  BY EventOpType, SlotFacts DEF Events
<1> QED BY <1>1, <1>2 DEF Part

LEMMA ColdAFacts ==
  ASSUME NEW seed \in Setups, NEW t, t = ColdA(seed)
  PROVE  /\ t \in Seq(Ops) /\ Len(t) = 9
         /\ t[1] = Kernel("gen", 0, seed, 0) /\ t[2] = Kernel("commit", 0, seed, 0)
         /\ t[3] = Wait("eB") /\ t[4] = Kernel("stir", 0, seed, 0) /\ t[5] = Record("eStir")
         /\ t[6] = Kernel("perm", 0, seed, 0) /\ t[7] = Kernel("noise", 0, seed, 0)
         /\ t[8] = Wait("eB2") /\ t[9] = Kernel("grind", 0, seed, 0)
<1>1. \A name \in Kernels : Kernel(name, 0, seed, 0) \in Ops
  BY KernelType DEF Slots
<1>2. Wait("eB") \in Ops /\ Record("eStir") \in Ops /\ Wait("eB2") \in Ops
  BY EventOpType DEF Events
<1> QED BY <1>1, <1>2 DEF ColdA, Kernels

LEMMA ColdBFacts ==
  ASSUME NEW seed \in Setups, NEW t, t = ColdB(seed)
  PROVE  /\ t \in Seq(Ops) /\ Len(t) = 7
         /\ t[1] = Kernel("genB", 0, seed, 0) /\ t[2] = Kernel("commitB", 0, seed, 0)
         /\ t[3] = Record("eB") /\ t[4] = Wait("eStir") /\ t[5] = Kernel("permB", 0, seed, 0)
         /\ t[6] = Kernel("noiseB", 0, seed, 0) /\ t[7] = Record("eB2")
<1>1. \A name \in Kernels : Kernel(name, 0, seed, 0) \in Ops
  BY KernelType DEF Slots
<1>2. Record("eB") \in Ops /\ Wait("eStir") \in Ops /\ Record("eB2") \in Ops
  BY EventOpType DEF Events
<1> QED BY <1>1, <1>2 DEF ColdB, Kernels

LEMMA HotAFacts ==
  ASSUME NEW slot \in Slots, NEW seed \in Setups, NEW n \in 0..3,
         NEW t, t = HotA(slot, seed, n)
  PROVE  /\ t \in Seq(Ops) /\ Len(t) = 2
         /\ t[1] = Wait(EPro(slot)) /\ t[2] = Kernel("grind", slot, seed, n)
<1>1. Kernel("grind", slot, seed, n) \in Ops
  BY KernelType DEF Kernels
<1>2. Wait(EPro(slot)) \in Ops
  BY EventOpType, SlotFacts
<1> QED BY <1>1, <1>2 DEF HotA

LEMMA PrologueFacts ==
  ASSUME NEW slot \in Slots, NEW seed \in Setups, NEW n \in 0..3,
         NEW r, r = Prologue(slot, seed, n)
  PROVE  /\ r \in Seq(Ops) /\ Len(r) = 6
         /\ r[1] = Kernel("gen", slot, seed, n) /\ r[2] = Kernel("commit", slot, seed, n)
         /\ r[3] = Kernel("stir", slot, seed, n) /\ r[4] = Kernel("perm", slot, seed, n)
         /\ r[5] = Kernel("noise", slot, seed, n) /\ r[6] = Record(EPro(slot))
<1>1. \A name \in Kernels : Kernel(name, slot, seed, n) \in Ops
  BY KernelType
<1>2. Record(EPro(slot)) \in Ops
  BY EventOpType, SlotFacts
<1> QED BY <1>1, <1>2 DEF Prologue, Kernels

(* A prologue that waits is a part; one that does not begins behind the    *)
(* wait.                                                                   *)
LEMMA PrologueIsPart ==
  ASSUME NEW slot \in Slots, NEW seed \in Setups, NEW n \in 0..3
  PROVE  /\ <<Wait("eStir")>> \o Prologue(slot, seed, n) = Part(slot, seed, n)
         /\ Prologue(slot, seed, n) = Rest(Part(slot, seed, n), 2)
<1>1. PICK t, r, w, z : /\ t = Part(slot, seed, n) /\ r = Prologue(slot, seed, n)
                        /\ w = <<Wait("eStir")>> /\ z = w \o r
  OBVIOUS
<1>2. /\ t \in Seq(Ops) /\ Len(t) = 7 /\ t[1] = Wait("eStir")
      /\ r \in Seq(Ops) /\ Len(r) = 6
      /\ t[2] = r[1] /\ t[3] = r[2] /\ t[4] = r[3] /\ t[5] = r[4] /\ t[6] = r[5] /\ t[7] = r[6]
  BY <1>1, PartFacts, PrologueFacts, SMTT(20)
<1>3. w \in Seq(Ops) /\ Len(w) = 1 /\ w[1] = Wait("eStir")
  BY <1>1, EventOpType DEF Events
<1>4. /\ z \in Seq(Ops) /\ Len(z) = Len(w) + Len(r)
      /\ \A j \in 1..Len(z) : z[j] = IF j <= Len(w) THEN w[j] ELSE r[j - Len(w)]
      /\ Rest(z, Len(w) + 1) = r
  <2>1. w \in Seq(Ops) /\ r \in Seq(Ops) /\ z = w \o r
    BY <1>1, <1>2, <1>3
  <2> QED BY <2>1, RestAppend, Zenon
<1>5. z = t
  <2>1. ASSUME NEW i \in 1..7 PROVE z[i] = t[i]
    <3>1. i \in {1, 2, 3, 4, 5, 6, 7}
      OBVIOUS
    <3> QED BY <1>2, <1>3, <1>4, <3>1
  <2>2. Len(z) = 7 /\ z \in Seq(Ops) /\ t \in Seq(Ops) /\ Len(t) = 7
    BY <1>2, <1>3, <1>4
  <2> QED BY <2>1, <2>2, SeqEqual
<1>6. Rest(z, 2) = r
  BY <1>3, <1>4
<1> QED BY <1>1, <1>5, <1>6

-----------------------------------------------------------------------------
(* A step of a stream.                                                     *)

(* What becomes of the events and the buffers when o leaves its stream.    *)
Taken(o) ==
  \/ o.op = "record" /\ fired' = fired \cup {o.ev} /\ UNCHANGED memVars
  \/ o.op = "wait" /\ o.ev \in fired /\ UNCHANGED <<fired, memVars>>
  \/ o.op \in Kernels /\ Effect(o) /\ UNCHANGED <<fired, d_jk>>

(* The stream s, at i of t, goes on to the next. *)
GoesOn(s, t, i) ==
  /\ i <= Len(t) /\ Taken(t[i])
  /\ queue'[s] = Rest(t, i + 1) /\ \A r \in Streams \ {s} : queue'[r] = queue[r]

LEMMA StepAt ==
  ASSUME HostInv, NEW s \in Streams, NEW t \in Seq(Ops), NEW i \in 1..Len(t) + 1,
         queue[s] = Rest(t, i), Stream(s)
  PROVE  /\ UNCHANGED hostVars
         /\ UNCHANGED <<queue, fired, memVars>> \/ GoesOn(s, t, i)
<1>1. queue \in [Streams -> Seq(Ops)] /\ \A r \in running : IsKernel(r)
  BY DEF HostInv
<1>2. ASSUME Advance(s), queue[s] # <<>>
      PROVE  /\ i <= Len(t) /\ queue'[s] = Rest(t, i + 1) /\ First(s) = t[i]
             /\ \A r \in Streams \ {s} : queue'[r] = queue[r]
  <2>1. i <= Len(t) /\ Head(queue[s]) = t[i] /\ Tail(queue[s]) = Rest(t, i + 1)
    BY <1>2, RestFacts
  <2> QED BY <1>1, <1>2, <2>1 DEF Advance, First
<1>3. CASE Fires(s)
  BY <1>2, <1>3 DEF Fires, GoesOn, Taken, memVars
<1>4. CASE Passes(s)
  BY <1>2, <1>4 DEF Passes, GoesOn, Taken, memVars
<1>5. CASE Starts(s)
  BY <1>5 DEF Starts, memVars
<1>6. CASE Ends(s)
  <2>1. IsKernel(s)
    BY <1>1, <1>6 DEF Ends
  <2> QED BY <1>2, <1>6, <2>1 DEF Ends, IsKernel, GoesOn, Taken
<1> QED BY <1>3, <1>4, <1>5, <1>6 DEF Stream

(* The same, kernel by kernel.                                             *)

LEMMA TakenEvent ==
  ASSUME NEW e
  PROVE  /\ Taken(Record(e)) => fired' = fired \cup {e} /\ UNCHANGED memVars
         /\ Taken(Wait(e)) => e \in fired /\ UNCHANGED <<fired, memVars>>
BY DEF Taken, Record, Wait, Kernels

LEMMA TakenGen ==
  ASSUME NEW slot, NEW seed, NEW n, Taken(Kernel("gen", slot, seed, n))
  PROVE  /\ d_A' = [d_A EXCEPT ![slot] = [seed |-> seed, noise |-> NoTag]]
         /\ UNCHANGED <<fired, d_jk, d_ha, d_as, d_fa, d_B, d_hb, d_bs>>
BY DEF Taken, Record, Wait, Kernel, Kernels, Effect, Gen, Commit, Stir, Perm, Noise, GenB, CommitB,
       NoiseB, memVars

LEMMA TakenCommit ==
  ASSUME NEW slot, NEW seed, NEW n, Taken(Kernel("commit", slot, seed, n))
  PROVE  /\ d_ha' = [d_ha EXCEPT ![slot] = [seed |-> d_A[slot].seed, key |-> d_jk]]
         /\ UNCHANGED <<fired, d_jk, d_A, d_as, d_fa, d_B, d_hb, d_bs>>
BY DEF Taken, Record, Wait, Kernel, Kernels, Effect, Gen, Commit, Stir, Perm, Noise, GenB, CommitB,
       NoiseB, memVars

LEMMA TakenStir ==
  ASSUME NEW slot, NEW seed, NEW n, Taken(Kernel("stir", slot, seed, n))
  PROVE  /\ d_as' = [d_as EXCEPT ![slot] =
                      IF d_ha[slot].key = d_jk /\ d_hb.key = d_jk THEN d_ha[slot] ELSE Mixed]
         /\ d_bs' = d_hb
         /\ UNCHANGED <<fired, d_jk, d_A, d_ha, d_fa, d_B, d_hb>>
BY DEF Taken, Record, Wait, Kernel, Kernels, Effect, Gen, Commit, Stir, Perm, Noise, GenB, CommitB,
       NoiseB, memVars

LEMMA TakenPerm ==
  ASSUME NEW slot, NEW seed, NEW n, Taken(Kernel("perm", slot, seed, n))
  PROVE  /\ d_fa' = d_as[slot]
         /\ UNCHANGED <<fired, d_jk, d_A, d_ha, d_as, d_B, d_hb, d_bs>>
BY DEF Taken, Record, Wait, Kernel, Kernels, Effect, Gen, Commit, Stir, Perm, Noise, GenB, CommitB,
       NoiseB, memVars

LEMMA TakenNoise ==
  ASSUME NEW slot, NEW seed, NEW n, Taken(Kernel("noise", slot, seed, n))
  PROVE  /\ d_A' = [d_A EXCEPT ![slot].noise = IF d_fa = d_as[slot] THEN d_as[slot] ELSE Mixed]
         /\ UNCHANGED <<fired, d_jk, d_ha, d_as, d_fa, d_B, d_hb, d_bs>>
BY DEF Taken, Record, Wait, Kernel, Kernels, Effect, Gen, Commit, Stir, Perm, Noise, GenB, CommitB,
       NoiseB, memVars

LEMMA TakenGenB ==
  ASSUME NEW slot, NEW seed, NEW n, Taken(Kernel("genB", slot, seed, n))
  PROVE  /\ d_B' = [seed |-> seed, noise |-> NoTag]
         /\ UNCHANGED <<fired, d_jk, d_A, d_ha, d_as, d_fa, d_hb, d_bs>>
BY DEF Taken, Record, Wait, Kernel, Kernels, Effect, Gen, Commit, Stir, Perm, Noise, GenB, CommitB,
       NoiseB, memVars

LEMMA TakenCommitB ==
  ASSUME NEW slot, NEW seed, NEW n, Taken(Kernel("commitB", slot, seed, n))
  PROVE  /\ d_hb' = [seed |-> d_B.seed, key |-> d_jk]
         /\ UNCHANGED <<fired, d_jk, d_A, d_ha, d_as, d_fa, d_B, d_bs>>
BY DEF Taken, Record, Wait, Kernel, Kernels, Effect, Gen, Commit, Stir, Perm, Noise, GenB, CommitB,
       NoiseB, memVars

LEMMA TakenNoiseB ==
  ASSUME NEW slot, NEW seed, NEW n, Taken(Kernel("noiseB", slot, seed, n))
  PROVE  /\ d_B' = [d_B EXCEPT !.noise = d_bs]
         /\ UNCHANGED <<fired, d_jk, d_A, d_ha, d_as, d_fa, d_hb, d_bs>>
BY DEF Taken, Record, Wait, Kernel, Kernels, Effect, Gen, Commit, Stir, Perm, Noise, GenB, CommitB,
       NoiseB, memVars

LEMMA TakenReader ==
  ASSUME NEW slot, NEW seed, NEW n,
         Taken(Kernel("grind", slot, seed, n)) \/ Taken(Kernel("permB", slot, seed, n))
  PROVE  UNCHANGED <<fired, memVars>>
BY DEF Taken, Record, Wait, Kernel, Kernels, Effect, Gen, Commit, Stir, Perm, Noise, GenB, CommitB,
       NoiseB, memVars

LEMMA TagFields ==
  /\ NoTag \in Tags /\ Mixed \in Tags
  /\ \A x \in Setups, k \in Keys \cup {NoKey} : [seed |-> x, key |-> k] \in Tags
  /\ \A x \in Setups, y \in Tags : [seed |-> x, noise |-> y] \in Noised
  /\ \A y \in Tags : y.seed \in Setups
  /\ \A x \in Noised : x.seed \in Setups
BY ConstantsAssumption DEF NoTag, Mixed, Tags, Noised, Setups

(* The buffers keep their types.                                           *)
LEMMA TakenType ==
  ASSUME TypeOK, NEW o \in Ops, Taken(o), UNCHANGED hostVars, running' \subseteq Streams
  PROVE  TypeOK'
<1>0. /\ host' \in {"idle", "copied", "launched"} /\ calls' \in 0..MaxCalls /\ age' \in 0..3
      /\ last_jk' \in Keys \cup {NoKey} /\ pend_valid' \in BOOLEAN /\ pend_slot' \in Slots
      /\ running' \subseteq Streams
  BY DEF TypeOK, hostVars
<1>1. fired' \subseteq Events /\ d_jk' \in Keys \cup {NoKey}
  BY OpsFields DEF Taken, TypeOK, memVars
<1>2. CASE UNCHANGED memVars
  BY <1>0, <1>1, <1>2 DEF TypeOK, memVars
<1>3. CASE o.op \in Kernels /\ Effect(o) /\ UNCHANGED <<fired, d_jk>>
  <2>1. o.slot \in Slots /\ o.seed \in Setups
    BY <1>3, OpsFields
  <2>2. /\ d_A \in [Slots -> Noised] /\ d_ha \in [Slots -> Tags] /\ d_as \in [Slots -> Tags]
        /\ d_fa \in Tags /\ d_B \in Noised /\ d_hb \in Tags /\ d_bs \in Tags
        /\ d_jk \in Keys \cup {NoKey}
    BY DEF TypeOK
  <2>3. d_A' \in [Slots -> Noised]
    <3>1. CASE Gen(o)
      BY <2>1, <2>2, <3>1, TagFields DEF Gen
    <3>2. CASE Noise(o)
      <4>1. d_A' = [d_A EXCEPT ![o.slot] = [seed |-> d_A[o.slot].seed,
                      noise |-> IF d_fa = d_as[o.slot] THEN d_as[o.slot] ELSE Mixed]]
        <5>1. ASSUME NEW x \in Noised, NEW y
              PROVE  [x EXCEPT !.noise = y] = [seed |-> x.seed, noise |-> y]
          BY DEF Noised
        <5>2. d_A[o.slot] \in Noised
          BY <2>1, <2>2
        <5>3. d_A' = [d_A EXCEPT ![o.slot] = [d_A[o.slot] EXCEPT !.noise =
                        IF d_fa = d_as[o.slot] THEN d_as[o.slot] ELSE Mixed]]
          BY <3>2 DEF Noise
        <5> QED BY <5>1, <5>2, <5>3
      <4> QED BY <2>1, <2>2, <4>1, TagFields
    <3>3. CASE d_A' = d_A
      BY <2>2, <3>3
    <3> QED BY <1>3, <3>1, <3>2, <3>3 DEF Effect
  <2>4. d_ha' \in [Slots -> Tags]
    BY <1>3, <2>1, <2>2, TagFields DEF Effect, Commit
  <2>5. d_as' \in [Slots -> Tags] /\ d_bs' \in Tags
    BY <1>3, <2>1, <2>2, TagFields DEF Effect, Stir, NoiseB
  <2>6. d_fa' \in Tags
    BY <1>3, <2>1, <2>2 DEF Effect, Perm
  <2>7. d_B' \in Noised
    <3>1. CASE NoiseB
      <4>1. d_B' = [seed |-> d_B.seed, noise |-> d_bs]
        BY <2>2, <3>1 DEF NoiseB, Noised
      <4> QED BY <2>2, <4>1, TagFields
    <3>2. CASE GenB(o)
      BY <2>1, <3>2, TagFields DEF GenB
    <3> QED BY <1>3, <2>2, <3>1, <3>2 DEF Effect
  <2>8. d_hb' \in Tags
    BY <1>3, <2>2, TagFields DEF Effect, CommitB
  <2> QED BY <1>0, <1>1, <2>3, <2>4, <2>5, <2>6, <2>7, <2>8 DEF TypeOK
<1> QED BY <1>2, <1>3 DEF Taken, memVars

(* The host's part of the invariant, and the types.                        *)
LEMMA StreamHost ==
  ASSUME TypeOK, HostInv, NEW s \in Streams, Stream(s)
  PROVE  TypeOK' /\ HostInv'
<1>1. queue \in [Streams -> Seq(Ops)] /\ \A r \in running : IsKernel(r)
  BY DEF HostInv
<1>2. UNCHANGED hostVars /\ queue[s] # <<>> /\ d_jk' = d_jk
  BY <1>1 DEF Stream, Fires, Passes, Starts, Ends, IsKernel, memVars
<1>3. ASSUME Advance(s)
      PROVE  queue' \in [Streams -> Seq(Ops)] /\ \A r \in Streams : r # s => queue'[r] = queue[r]
  <2>1. Tail(queue[s]) \in Seq(Ops)
    BY <1>1, <1>2, HeadTailProperties
  <2> QED BY <1>1, <1>3, <2>1 DEF Advance
<1>4. /\ queue' \in [Streams -> Seq(Ops)] /\ \A r \in Streams : r # s => queue'[r] = queue[r]
      /\ running' \subseteq Streams
      /\ \A r \in running' : IsKernel(r) /\ (r # s \/ queue' = queue)
  <2>1. running \subseteq Streams
    BY DEF TypeOK
  <2>2. CASE Fires(s)
    <3>1. s \notin running
      BY <1>1, <2>2 DEF Fires, IsKernel, Kernels
    <3> QED BY <1>1, <1>3, <2>1, <2>2, <3>1 DEF Fires
  <2>3. CASE Passes(s)
    <3>1. s \notin running
      BY <1>1, <2>3 DEF Passes, IsKernel, Kernels
    <3> QED BY <1>1, <1>3, <2>1, <2>3, <3>1 DEF Passes
  <2>4. CASE Starts(s)
    BY <1>1, <2>1, <2>4 DEF Starts
  <2>5. CASE Ends(s)
    BY <1>1, <1>3, <2>1, <2>5 DEF Ends
  <2> QED BY <2>2, <2>3, <2>4, <2>5 DEF Stream
<1>5. \A r \in running' : IsKernel(r)'
  BY <1>4 DEF IsKernel, First
<1>6. HostInv'
  <2>1. \A r \in Streams : Idle(r) => r # s
    BY <1>2 DEF Idle
  <2>2. \A r \in Streams : Idle(r) => Idle(r)'
    BY <1>4, <2>1 DEF Idle
  <2>3. "sA" \in Streams
    BY DEF Streams
  <2> QED BY <1>2, <1>4, <1>5, <2>2, <2>3 DEF HostInv, hostVars, KeyKept
<1>7. TypeOK'
  <2>1. First(s) \in Ops
    BY <1>1, <1>2, HeadTailProperties DEF First
  <2>2. CASE Starts(s)
    BY <1>4, <2>2 DEF Starts, TypeOK, hostVars, memVars
  <2>3. CASE Fires(s) \/ Passes(s) \/ Ends(s)
    <3>1. Taken(First(s))
      BY <1>1, <2>3 DEF Fires, Passes, Ends, Taken, IsKernel
    <3> QED BY <1>2, <1>4, <2>1, <3>1, TakenType
  <2> QED BY <2>2, <2>3 DEF Stream
<1> QED BY <1>6, <1>7

-----------------------------------------------------------------------------
(* After a cold launch.                                                    *)

LEMMA Counters ==
  ASSUME TypeOK, HostInv, age # 0
  PROVE  /\ calls \in Setups /\ calls + 1 \in Setups /\ calls # 0 /\ calls \in 1..MaxCalls
         /\ pend_slot \in Slots /\ G \in Slots /\ age \in 1..3
         /\ last_jk \in Keys
         /\ queue["sA"] # <<>> => host = "launched" /\ KeyKept
BY ConstantsAssumption, SlotFacts DEF TypeOK, HostInv, Setups, G, Idle

LEMMA ColdStutters ==
  ASSUME NEW a, NEW b, NEW p, ColdAt(a, b, p), UNCHANGED hostVars,
         UNCHANGED <<queue, fired, memVars>>
  PROVE  ColdAt(a, b, p)'
BY DEF ColdAt, AtNext, ProInv, KeyKept, Key, hostVars, memVars

(* sA makes the slot 0 of the setup called for; slot 1 is left alone.      *)
LEMMA ColdStepA ==
  ASSUME TypeOK, HostInv, age = 1,
         NEW a \in 1..10, NEW b \in 1..8, NEW p \in 1..8, ColdAt(a, b, p), Stream("sA")
  PROVE  \E x \in 1..10 : ColdAt(x, b, p)'
<1>1. PICK t : t = ColdA(calls)
  OBVIOUS
<1>2. /\ t \in Seq(Ops) /\ Len(t) = 9 /\ queue["sA"] = Rest(t, a)
      /\ t[1] = Kernel("gen", 0, calls, 0) /\ t[2] = Kernel("commit", 0, calls, 0)
      /\ t[3] = Wait("eB") /\ t[4] = Kernel("stir", 0, calls, 0) /\ t[5] = Record("eStir")
      /\ t[6] = Kernel("perm", 0, calls, 0) /\ t[7] = Kernel("noise", 0, calls, 0)
      /\ t[8] = Wait("eB2") /\ t[9] = Kernel("grind", 0, calls, 0)
  BY <1>1, Counters, ColdAFacts DEF ColdAt
<1>3. UNCHANGED hostVars /\ (UNCHANGED <<queue, fired, memVars>> \/ GoesOn("sA", t, a))
  <2>1. "sA" \in Streams /\ a \in 1..Len(t) + 1
    BY <1>2 DEF Streams
  <2> QED BY <1>2, <2>1, StepAt, Zenon
<1>4. CASE UNCHANGED <<queue, fired, memVars>>
  BY <1>3, <1>4, ColdStutters
<1>5. CASE GoesOn("sA", t, a)
  <2>1. /\ a \in 1..9 /\ a + 1 \in 1..10 /\ Taken(t[a])
        /\ queue'["sA"] = Rest(t, a + 1) /\ queue'["sB"] = queue["sB"] /\ queue'["sP"] = queue["sP"]
    BY <1>2, <1>5 DEF GoesOn, Streams
  <2>2. d_jk = last_jk
    <3>1. a \in 1..Len(t) + 1 /\ a # Len(t) + 1
      BY <1>2, <2>1
    <3>2. queue["sA"] # <<>>
      BY <1>2, <3>1, RestFacts
    <3> QED BY <3>2, Counters DEF KeyKept
  <2>3. /\ d_A \in [Slots -> Noised] /\ d_ha \in [Slots -> Tags] /\ d_as \in [Slots -> Tags]
        /\ d_B \in Noised /\ 0 \in Slots /\ 1 \in Slots /\ EPro(1) = "ePro1"
    BY DEF TypeOK, Slots, EPro
  <2>4. /\ UNCHANGED <<calls, age, last_jk, pend_slot>> /\ pend_slot = 1
    BY <1>3 DEF hostVars, ColdAt
  <2>5. /\ d_A'[1] = d_A[1] /\ d_ha'[1] = d_ha[1] /\ d_as'[1] = d_as[1]
        /\ UNCHANGED <<d_jk, d_B, d_hb>>
        /\ fired' = IF a = 5 THEN fired \cup {"eStir"} ELSE fired
        /\ a = 3 => "eB" \in fired
        /\ a = 8 => "eB2" \in fired
        /\ a + 1 > 1 => d_A'[0].seed = calls
        /\ a + 1 > 2 => d_ha'[0] = Key
        /\ a + 1 > 4 => d_as'[0] = Key /\ d_bs' = Key
    <3>0. /\ a > 1 => d_A[0].seed = calls
          /\ a > 2 => d_ha[0] = Key
          /\ a > 4 => d_as[0] = Key /\ d_bs = Key
          /\ a > 3 => d_hb = Key
      BY DEF ColdAt
    <3>1. CASE a = 1
      <4>1. Taken(Kernel("gen", 0, calls, 0))
        BY <1>2, <2>1, <3>1
      <4> QED BY <2>1, <2>2, <2>3, <3>0, <3>1, <4>1, TakenGen
    <3>2. CASE a = 2
      <4>1. Taken(Kernel("commit", 0, calls, 0))
        BY <1>2, <2>1, <3>2
      <4> QED BY <2>1, <2>2, <2>3, <3>0, <3>2, <4>1, TakenCommit DEF Key
    <3>3. CASE a = 3
      <4>1. Taken(Wait("eB"))
        BY <1>2, <2>1, <3>3
      <4> QED BY <3>0, <3>3, <4>1, TakenEvent DEF memVars
    <3>4. CASE a = 4
      <4>1. Taken(Kernel("stir", 0, calls, 0))
        BY <1>2, <2>1, <3>4
      <4> QED BY <2>1, <2>2, <2>3, <3>0, <3>4, <4>1, TakenStir DEF Key
    <3>5. CASE a = 5
      <4>1. Taken(Record("eStir"))
        BY <1>2, <2>1, <3>5
      <4> QED BY <3>0, <3>5, <4>1, TakenEvent DEF memVars
    <3>6. CASE a = 6
      <4>1. Taken(Kernel("perm", 0, calls, 0))
        BY <1>2, <2>1, <3>6
      <4> QED BY <2>1, <2>2, <2>3, <3>0, <3>6, <4>1, TakenPerm
    <3>7. CASE a = 7
      <4>1. Taken(Kernel("noise", 0, calls, 0))
        BY <1>2, <2>1, <3>7
      <4> QED BY <2>1, <2>2, <2>3, <3>0, <3>7, <4>1, TakenNoise DEF Noised
    <3>8. CASE a = 8
      <4>1. Taken(Wait("eB2"))
        BY <1>2, <2>1, <3>8
      <4> QED BY <3>0, <3>8, <4>1, TakenEvent DEF memVars
    <3>9. CASE a = 9
      <4>1. Taken(Kernel("grind", 0, calls, 0))
        BY <1>2, <2>1, <3>9
      <4> QED BY <3>0, <3>9, <4>1, TakenReader DEF memVars
    <3> QED BY <2>1, <3>1, <3>2, <3>3, <3>4, <3>5, <3>6, <3>7, <3>8, <3>9
  <2>6. AtNext(p)'
    BY <2>1, <2>3, <2>4, <2>5 DEF ColdAt, AtNext, ProInv, KeyKept
  <2>7. ColdAt(a + 1, b, p)'
    BY <1>1, <2>1, <2>4, <2>5, <2>6 DEF ColdAt, Key
  <2> QED BY <2>1, <2>7
<1> QED BY <1>3, <1>4, <1>5

(* sB makes B; it waits for the stir, and the stir for its hash.           *)
LEMMA ColdStepB ==
  ASSUME TypeOK, HostInv, age = 1,
         NEW a \in 1..10, NEW b \in 1..8, NEW p \in 1..8, ColdAt(a, b, p), Stream("sB")
  PROVE  \E x \in 1..8 : ColdAt(a, x, p)'
<1>1. PICK t : t = ColdB(calls)
  OBVIOUS
<1>2. /\ t \in Seq(Ops) /\ Len(t) = 7 /\ queue["sB"] = Rest(t, b)
      /\ t[1] = Kernel("genB", 0, calls, 0) /\ t[2] = Kernel("commitB", 0, calls, 0)
      /\ t[3] = Record("eB") /\ t[4] = Wait("eStir") /\ t[5] = Kernel("permB", 0, calls, 0)
      /\ t[6] = Kernel("noiseB", 0, calls, 0) /\ t[7] = Record("eB2")
  BY <1>1, Counters, ColdBFacts DEF ColdAt
<1>3. UNCHANGED hostVars /\ (UNCHANGED <<queue, fired, memVars>> \/ GoesOn("sB", t, b))
  <2>1. "sB" \in Streams /\ b \in 1..Len(t) + 1
    BY <1>2 DEF Streams
  <2> QED BY <1>2, <2>1, StepAt, Zenon
<1>4. CASE UNCHANGED <<queue, fired, memVars>>
  BY <1>3, <1>4, ColdStutters
<1>5. CASE GoesOn("sB", t, b)
  <2>1. /\ b \in 1..7 /\ b + 1 \in 1..8 /\ Taken(t[b])
        /\ queue'["sB"] = Rest(t, b + 1) /\ queue'["sA"] = queue["sA"] /\ queue'["sP"] = queue["sP"]
    BY <1>2, <1>5 DEF GoesOn, Streams
  <2>2. d_jk = last_jk
    <3>1. a \in 1..9
      BY <2>1 DEF ColdAt
    <3>2. PICK u : u = ColdA(calls)
      OBVIOUS
    <3>3. u \in Seq(Ops) /\ Len(u) = 9
      BY <3>2, Counters, ColdAFacts
    <3>5. a \in 1..Len(u) + 1 /\ a # Len(u) + 1 /\ queue["sA"] = Rest(u, a)
      BY <3>1, <3>2, <3>3 DEF ColdAt
    <3>4. queue["sA"] # <<>>
      BY <3>3, <3>5, RestFacts
    <3> QED BY <3>4, Counters DEF KeyKept
  <2>3. d_B \in Noised /\ EPro(1) = "ePro1"
    BY DEF TypeOK, EPro
  <2>4. UNCHANGED <<calls, age, last_jk, pend_slot>> /\ pend_slot = 1
    BY <1>3 DEF hostVars, ColdAt
  <2>5. /\ UNCHANGED <<d_jk, d_A, d_ha, d_as, d_bs>>
        /\ b > 2 => d_hb' = d_hb
        /\ b = 3 => fired' = fired \cup {"eB"}
        /\ b = 7 => fired' = fired \cup {"eB2"}
        /\ b \notin {3, 7} => fired' = fired
        /\ b = 4 => "eStir" \in fired
        /\ b + 1 > 1 => d_B'.seed = calls
        /\ b + 1 > 2 => d_hb' = Key
        /\ b + 1 > 6 => d_B'.noise = Key
    <3>0. /\ b > 1 => d_B.seed = calls
          /\ b > 2 => d_hb = Key
          /\ b > 4 => d_bs = Key
          /\ b > 6 => d_B.noise = Key
      BY DEF ColdAt
    <3>1. CASE b = 1
      <4>1. Taken(Kernel("genB", 0, calls, 0))
        BY <1>2, <2>1, <3>1
      <4> QED BY <2>1, <2>2, <2>3, <3>0, <3>1, <4>1, TakenGenB
    <3>2. CASE b = 2
      <4>1. Taken(Kernel("commitB", 0, calls, 0))
        BY <1>2, <2>1, <3>2
      <4> QED BY <2>1, <2>2, <2>3, <3>0, <3>2, <4>1, TakenCommitB DEF Key
    <3>3. CASE b = 3
      <4>1. Taken(Record("eB"))
        BY <1>2, <2>1, <3>3
      <4> QED BY <3>0, <3>3, <4>1, TakenEvent DEF memVars
    <3>4. CASE b = 4
      <4>1. Taken(Wait("eStir"))
        BY <1>2, <2>1, <3>4
      <4> QED BY <3>0, <3>4, <4>1, TakenEvent DEF memVars
    <3>5. CASE b = 5
      <4>1. Taken(Kernel("permB", 0, calls, 0))
        BY <1>2, <2>1, <3>5
      <4> QED BY <3>0, <3>5, <4>1, TakenReader DEF memVars
    <3>6. CASE b = 6
      <4>1. Taken(Kernel("noiseB", 0, calls, 0))
        BY <1>2, <2>1, <3>6
      <4> QED BY <2>1, <2>2, <2>3, <3>0, <3>6, <4>1, TakenNoiseB DEF Noised
    <3>7. CASE b = 7
      <4>1. Taken(Record("eB2"))
        BY <1>2, <2>1, <3>7
      <4> QED BY <3>0, <3>7, <4>1, TakenEvent DEF memVars
    <3> QED BY <2>1, <3>1, <3>2, <3>3, <3>4, <3>5, <3>6, <3>7
  <2>6. AtNext(p)'
    BY <2>1, <2>3, <2>4, <2>5 DEF ColdAt, AtNext, ProInv, KeyKept
  <2>7. ColdAt(a, b + 1, p)'
    BY <1>1, <2>1, <2>4, <2>5, <2>6 DEF ColdAt, Key
  <2> QED BY <2>1, <2>7
<1> QED BY <1>3, <1>4, <1>5

(* The kernels of a prologue on sP keep to their slot, B and its hash.     *)
LEMMA ProStep ==
  ASSUME TypeOK, NEW slot \in Slots, NEW seed, NEW n, NEW q \in 2..6, ProInv(slot, seed, n, q),
         Taken(Part(slot, seed, n)[q]), UNCHANGED hostVars, d_hb.key = last_jk
  PROVE  /\ ProInv(slot, seed, n, q + 1)'
         /\ \A o \in Slots \ {slot} : d_A'[o] = d_A[o] /\ d_ha'[o] = d_ha[o] /\ d_as'[o] = d_as[o]
         /\ UNCHANGED <<fired, d_jk, d_B, d_hb>> /\ d_bs' \in {d_bs, d_hb}
<1>1. PICK t : t = Part(slot, seed, n)
  OBVIOUS
<1>2. /\ t[2] = Kernel("gen", slot, seed, n) /\ t[3] = Kernel("commit", slot, seed, n)
      /\ t[4] = Kernel("stir", slot, seed, n) /\ t[5] = Kernel("perm", slot, seed, n)
      /\ t[6] = Kernel("noise", slot, seed, n)
  BY <1>1 DEF Part
<1>3. d_A \in [Slots -> Noised] /\ d_ha \in [Slots -> Tags] /\ d_as \in [Slots -> Tags]
  BY DEF TypeOK
<1>4. UNCHANGED last_jk
  BY DEF hostVars
<1>5. CASE q = 2
  <2>1. Taken(Kernel("gen", slot, seed, n))
    BY <1>1, <1>2, <1>5
  <2>2. /\ d_A' = [d_A EXCEPT ![slot] = [seed |-> seed, noise |-> NoTag]]
        /\ UNCHANGED <<fired, d_jk, d_ha, d_as, d_fa, d_B, d_hb, d_bs>>
    BY <2>1, TakenGen
  <2> QED BY <1>3, <1>5, <2>2 DEF ProInv
<1>6. CASE q = 3
  <2>1. Taken(Kernel("commit", slot, seed, n))
    BY <1>1, <1>2, <1>6
  <2>2. /\ d_ha' = [d_ha EXCEPT ![slot] = [seed |-> d_A[slot].seed, key |-> d_jk]]
        /\ UNCHANGED <<fired, d_jk, d_A, d_as, d_fa, d_B, d_hb, d_bs>>
    BY <2>1, TakenCommit
  <2> QED BY <1>3, <1>4, <1>6, <2>2 DEF ProInv, KeyKept
<1>7. CASE q = 4
  <2>1. Taken(Kernel("stir", slot, seed, n))
    BY <1>1, <1>2, <1>7
  <2>2. /\ d_as' = [d_as EXCEPT ![slot] =
                      IF d_ha[slot].key = d_jk /\ d_hb.key = d_jk THEN d_ha[slot] ELSE Mixed]
        /\ d_bs' = d_hb
        /\ UNCHANGED <<fired, d_jk, d_A, d_ha, d_fa, d_B, d_hb>>
    BY <2>1, TakenStir
  <2> QED BY <1>3, <1>4, <1>7, <2>2 DEF ProInv, KeyKept
<1>8. CASE q = 5
  <2>1. Taken(Kernel("perm", slot, seed, n))
    BY <1>1, <1>2, <1>8
  <2>2. /\ d_fa' = d_as[slot]
        /\ UNCHANGED <<fired, d_jk, d_A, d_ha, d_as, d_B, d_hb, d_bs>>
    BY <2>1, TakenPerm
  <2> QED BY <1>3, <1>4, <1>8, <2>2 DEF ProInv, KeyKept
<1>9. CASE q = 6
  <2>1. Taken(Kernel("noise", slot, seed, n))
    BY <1>1, <1>2, <1>9
  <2>2. /\ d_A' = [d_A EXCEPT ![slot].noise = IF d_fa = d_as[slot] THEN d_as[slot] ELSE Mixed]
        /\ UNCHANGED <<fired, d_jk, d_ha, d_as, d_fa, d_B, d_hb, d_bs>>
    BY <2>1, TakenNoise
  <2>3. d_A'[slot].seed = d_A[slot].seed
        /\ d_fa = d_as[slot] => d_A'[slot].noise = d_as[slot]
    BY <1>3, <2>2 DEF Noised
  <2> QED BY <1>3, <1>4, <1>9, <2>2, <2>3 DEF ProInv, KeyKept
<1> QED BY <1>5, <1>6, <1>7, <1>8, <1>9

(* sP prefetches, once the cold stir is done.                              *)
LEMMA ColdStepP ==
  ASSUME TypeOK, HostInv, age = 1,
         NEW a \in 1..10, NEW b \in 1..8, NEW p \in 1..8, ColdAt(a, b, p), Stream("sP")
  PROVE  \E x \in 1..8 : ColdAt(a, b, x)'
<1>1. PICK t, seed : t = Part(1, seed, 1) /\ seed = calls + 1
  OBVIOUS
<1>2. /\ t \in Seq(Ops) /\ Len(t) = 7 /\ queue["sP"] = Rest(t, p)
      /\ t[1] = Wait("eStir") /\ t[7] = Record("ePro1")
  <2>1. seed \in Setups /\ 1 \in Slots /\ 1 \in 0..3 /\ EPro(1) = "ePro1"
    BY <1>1, Counters DEF Slots, EPro
  <2> QED BY <1>1, <2>1, PartFacts DEF ColdAt, AtNext
<1>3. UNCHANGED hostVars /\ (UNCHANGED <<queue, fired, memVars>> \/ GoesOn("sP", t, p))
  <2>1. "sP" \in Streams /\ p \in 1..Len(t) + 1
    BY <1>2 DEF Streams
  <2> QED BY <1>2, <2>1, StepAt, Zenon
<1>4. CASE UNCHANGED <<queue, fired, memVars>>
  BY <1>3, <1>4, ColdStutters
<1>5. CASE GoesOn("sP", t, p)
  <2>1. /\ p \in 1..7 /\ p + 1 \in 1..8 /\ Taken(t[p])
        /\ queue'["sP"] = Rest(t, p + 1) /\ queue'["sA"] = queue["sA"] /\ queue'["sB"] = queue["sB"]
    BY <1>2, <1>5 DEF GoesOn, Streams
  <2>2. UNCHANGED <<calls, age, last_jk, pend_slot>> /\ pend_slot = 1 /\ EPro(1) = "ePro1"
    BY <1>3 DEF hostVars, ColdAt, EPro
  <2>3. ProInv(1, seed, 1, p)
    BY <1>1, <2>2 DEF ColdAt, AtNext
  <2>4. /\ a > 5
        /\ ProInv(1, seed, 1, p + 1)'
        /\ d_A'[0] = d_A[0] /\ d_ha'[0] = d_ha[0] /\ d_as'[0] = d_as[0]
        /\ UNCHANGED <<d_jk, d_B, d_hb>> /\ d_bs' = Key
        /\ p = 7 => fired' = fired \cup {"ePro1"}
        /\ p # 7 => fired' = fired
    <3>1. CASE p = 1
      <4>1. Taken(Wait("eStir"))
        BY <1>2, <2>1, <3>1
      <4>2. "eStir" \in fired /\ UNCHANGED <<fired, memVars>>
        BY <4>1, TakenEvent
      <4> QED BY <3>1, <4>2 DEF ColdAt, ProInv, memVars
    <3>2. CASE p \in 2..6
      <4>1. d_hb = Key /\ d_bs = Key /\ a > 5 /\ d_hb.key = last_jk
        BY <3>2 DEF ColdAt, Key
      <4>2. 1 \in Slots /\ 0 \in Slots \ {1}
        BY DEF Slots
      <4>3. /\ ProInv(1, seed, 1, p + 1)'
            /\ \A o \in Slots \ {1} : d_A'[o] = d_A[o] /\ d_ha'[o] = d_ha[o] /\ d_as'[o] = d_as[o]
            /\ UNCHANGED <<fired, d_jk, d_B, d_hb>> /\ d_bs' \in {d_bs, d_hb}
        BY <1>1, <1>3, <2>1, <2>3, <3>2, <4>1, <4>2, ProStep
      <4> QED BY <3>2, <4>1, <4>2, <4>3
    <3>3. CASE p = 7
      <4>1. Taken(Record("ePro1"))
        BY <1>2, <2>1, <3>3
      <4>2. fired' = fired \cup {"ePro1"} /\ UNCHANGED memVars
        BY <4>1, TakenEvent
      <4> QED BY <2>2, <2>3, <3>3, <4>2 DEF ColdAt, ProInv, KeyKept, memVars
    <3> QED BY <2>1, <3>1, <3>2, <3>3
  <2>5. AtNext(p + 1)'
    <3>1. ("ePro1" \in fired)' <=> p + 1 = 8
      BY <2>1, <2>2, <2>4 DEF ColdAt, AtNext
    <3> QED BY <1>1, <2>1, <2>2, <2>4, <3>1, Counters DEF AtNext, ColdAt
  <2>6. ColdAt(a, b, p + 1)'
    BY <2>1, <2>2, <2>4, <2>5 DEF ColdAt, Key
  <2> QED BY <2>1, <2>6
<1> QED BY <1>3, <1>4, <1>5

-----------------------------------------------------------------------------
(* After a hot launch.                                                     *)

LEMMA PartsFacts ==
  ASSUME TypeOK, HostInv, age \in {2, 3}, NEW n \in 1..3, NEW t, t = Parts(n)
  PROVE  /\ t \in Seq(Ops) /\ Len(t) = 13
         /\ \A i \in 1..7 : t[i] = Part(G, calls, n)[i]
         /\ t[1] = Wait("eStir") /\ t[7] = Record(EPro(G))
         /\ Rest(t, 8) = Rest(Part(pend_slot, calls + 1, age), 2)
<1>1. PICK x, y : x = Part(G, calls, n) /\ y = HotP(G, calls + 1, age)
  OBVIOUS
<1>2. G \in Slots /\ Other(G) = pend_slot /\ n \in 0..3 /\ age \in 0..3 /\ pend_slot \in Slots
      /\ calls \in Setups /\ calls + 1 \in Setups
  BY Counters, SlotFacts DEF G
<1>3. x \in Seq(Ops) /\ Len(x) = 7 /\ x[1] = Wait("eStir") /\ x[7] = Record(EPro(G))
  BY <1>1, <1>2, PartFacts
<1>4. y \in Seq(Ops) /\ Len(y) = 6 /\ y = Rest(Part(pend_slot, calls + 1, age), 2)
  <2>1. y = Prologue(pend_slot, calls + 1, age)
    BY <1>1, <1>2 DEF HotP
  <2>2. y \in Seq(Ops) /\ Len(y) = 6
    BY <1>2, <2>1, PrologueFacts
  <2>3. Prologue(pend_slot, calls + 1, age) = Rest(Part(pend_slot, calls + 1, age), 2)
    BY <1>2, PrologueIsPart
  <2> QED BY <2>1, <2>2, <2>3
<1>5. t = x \o y
  BY <1>1 DEF Parts
<1>6. /\ t \in Seq(Ops) /\ Len(t) = Len(x) + Len(y)
      /\ \A j \in 1..Len(t) : t[j] = IF j <= Len(x) THEN x[j] ELSE y[j - Len(x)]
      /\ Rest(t, Len(x) + 1) = y
  <2>1. x \in Seq(Ops) /\ y \in Seq(Ops)
    BY <1>3, <1>4
  <2>2. /\ x \o y \in Seq(Ops) /\ Len(x \o y) = Len(x) + Len(y)
        /\ \A j \in 1..Len(x \o y) : (x \o y)[j] = IF j <= Len(x) THEN x[j] ELSE y[j - Len(x)]
        /\ Rest(x \o y, Len(x) + 1) = y
    BY <2>1, RestAppend, Zenon
  <2> QED BY <1>5, <2>2
<1>7. Rest(t, 8) = y /\ Len(t) = 13
  <2>1. Len(x) + 1 = 8 /\ Len(x) + Len(y) = 13
    BY <1>3, <1>4
  <2> QED BY <1>6, <2>1
<1>8. \A i \in 1..7 : t[i] = x[i]
  BY <1>3, <1>6, <1>7
<1>9. t[1] = x[1] /\ t[7] = x[7]
  BY <1>8
<1> QED BY <1>1, <1>3, <1>4, <1>6, <1>7, <1>8, <1>9

LEMMA HotStutters ==
  ASSUME NEW n, HotInv(n), UNCHANGED hostVars, UNCHANGED <<queue, fired, memVars>>
  PROVE  HotInv(n)'
<1>1. \A p \in 1..7 : HotWaits(n, p) => HotWaits(n, p)'
  BY DEF HotWaits, AtThis, Parts, ProInv, KeyKept, G, hostVars, memVars
<1>2. \A p \in 2..8, i \in 1..3 : HotGrinds(n, p, i) => HotGrinds(n, p, i)'
  BY DEF HotGrinds, AtNext, Ready, ProInv, KeyKept, G, hostVars, memVars
<1> QED BY <1>1, <1>2 DEF HotInv, Idle, ResidentB, hostVars, memVars

(* sA waits for its prologue, then grinds.                                 *)
LEMMA HotStepA ==
  ASSUME TypeOK, HostInv, age \in {2, 3}, NEW n \in 1..3, HotInv(n), Stream("sA")
  PROVE  HotInv(n)'
<1>1. PICK t, slot : t = HotA(slot, calls, n) /\ slot = G
  OBVIOUS
<1>2. /\ t \in Seq(Ops) /\ Len(t) = 2 /\ Rest(t, 1) = t
      /\ t[1] = Wait(EPro(slot)) /\ t[2] = Kernel("grind", slot, calls, n)
  <2>1. slot \in Slots /\ calls \in Setups /\ n \in 0..3
    BY <1>1, Counters
  <2>2. /\ t \in Seq(Ops) /\ Len(t) = 2
        /\ t[1] = Wait(EPro(slot)) /\ t[2] = Kernel("grind", slot, calls, n)
    BY <1>1, <2>1, HotAFacts
  <2> QED BY <2>2, RestFacts
<1>3. ASSUME NEW i \in 1..3, queue["sA"] = Rest(t, i)
      PROVE  UNCHANGED hostVars /\ (UNCHANGED <<queue, fired, memVars>> \/ GoesOn("sA", t, i))
  <2>1. "sA" \in Streams /\ i \in 1..Len(t) + 1
    BY <1>2 DEF Streams
  <2> QED BY <1>2, <1>3, <2>1, StepAt, Zenon
<1>4. CASE UNCHANGED <<queue, fired, memVars>> /\ UNCHANGED hostVars
  BY <1>4, HotStutters
<1>5. ASSUME NEW p \in 1..7, HotWaits(n, p), GoesOn("sA", t, 1) PROVE FALSE
  <2>1. Taken(Wait(EPro(slot)))
    BY <1>2, <1>5 DEF GoesOn
  <2> QED BY <1>1, <1>5, <2>1, TakenEvent DEF HotWaits, AtThis
<1>6. ASSUME NEW p \in 2..8, NEW i \in 1..3, HotGrinds(n, p, i), GoesOn("sA", t, i),
             UNCHANGED hostVars
      PROVE  HotInv(n)'
  <2>1. /\ i \in 1..2 /\ i + 1 \in 1..3 /\ Taken(t[i])
        /\ queue'["sA"] = Rest(t, i + 1) /\ queue'["sB"] = queue["sB"] /\ queue'["sP"] = queue["sP"]
    BY <1>2, <1>6 DEF GoesOn, Streams
  <2>2. UNCHANGED <<fired, memVars>>
    <3>1. CASE i = 1
      BY <1>2, <2>1, <3>1, TakenEvent
    <3>2. CASE i = 2
      BY <1>2, <2>1, <3>2, TakenReader
    <3> QED BY <2>1, <3>1, <3>2
  <2>3. HotGrinds(n, p, i + 1)'
    BY <1>1, <1>6, <2>1, <2>2 DEF HotGrinds, AtNext, Ready, ProInv, KeyKept, G, hostVars, memVars
  <2> QED BY <1>6, <2>1, <2>2, <2>3 DEF HotInv, Idle, ResidentB, hostVars, memVars
<1>7. CASE \E p \in 1..7 : HotWaits(n, p)
  <2>1. queue["sA"] = Rest(t, 1)
    BY <1>1, <1>2, <1>7 DEF HotWaits
  <2> QED BY <1>3, <1>4, <1>5, <1>7, <2>1
<1>8. CASE \E p \in 2..8, i \in 1..3 : HotGrinds(n, p, i)
  <2>1. PICK p \in 2..8, i \in 1..3 : HotGrinds(n, p, i)
    BY <1>8
  <2>2. queue["sA"] = Rest(t, i)
    BY <1>1, <2>1 DEF HotGrinds
  <2> QED BY <1>3, <1>4, <1>6, <2>1, <2>2
<1> QED BY <1>7, <1>8 DEF HotInv

(* sP ends the prologue of this setup, and the grind may start; then it    *)
(* goes on with the next one, in the other slot.                           *)
LEMMA HotStepP ==
  ASSUME TypeOK, HostInv, age \in {2, 3}, NEW n \in 1..3, HotInv(n), Stream("sP")
  PROVE  HotInv(n)'
<1>0. /\ Idle("sB") /\ ResidentB /\ d_hb.key = last_jk /\ (n = 1 <=> age = 2)
      /\ G \in Slots /\ pend_slot \in Slots /\ G # pend_slot /\ EPro(G) # EPro(pend_slot)
      /\ calls + 1 \in Setups /\ age \in 0..3 /\ "sP" \in Streams
  BY Counters, SlotFacts DEF HotInv, ResidentB, G, Streams
<1>1. ASSUME NEW p \in 1..7, HotWaits(n, p) PROVE HotInv(n)'
  <2>1. PICK t, slot, seed : t = Parts(n) /\ slot = G /\ seed = calls
    OBVIOUS
  <2>2. /\ t \in Seq(Ops) /\ Len(t) = 13 /\ queue["sP"] = Rest(t, p)
        /\ \A i \in 1..7 : t[i] = Part(slot, seed, n)[i]
        /\ t[1] = Wait("eStir") /\ t[7] = Record(EPro(G))
        /\ Rest(t, 8) = Rest(Part(pend_slot, calls + 1, age), 2)
    BY <1>1, <2>1, PartsFacts DEF HotWaits, AtThis
  <2>3. UNCHANGED hostVars /\ (UNCHANGED <<queue, fired, memVars>> \/ GoesOn("sP", t, p))
    <3>1. p \in 1..Len(t) + 1
      BY <2>2
    <3> QED BY <1>0, <2>2, <3>1, StepAt, Zenon
  <2>4. CASE GoesOn("sP", t, p)
    <3>1. /\ Taken(t[p]) /\ queue'["sP"] = Rest(t, p + 1)
          /\ queue'["sA"] = queue["sA"] /\ queue'["sB"] = queue["sB"]
      BY <2>2, <2>4 DEF GoesOn, Streams
    <3>2. UNCHANGED <<host, calls, age, last_jk, pend_slot>> /\ UNCHANGED G
      BY <2>3 DEF hostVars, G
    <3>3. ProInv(slot, seed, n, p)
      BY <1>1, <2>1 DEF HotWaits, AtThis
    <3>4. CASE p \in 1..6
      <4>1. /\ ProInv(slot, seed, n, p + 1)'
            /\ UNCHANGED <<fired, d_B, d_hb>>
        <5>1. CASE p = 1
          <6>1. Taken(Wait("eStir"))
            BY <2>2, <3>1, <5>1
          <6> QED BY <2>3, <3>3, <5>1, <6>1, TakenEvent DEF ProInv, KeyKept, memVars, hostVars
        <5>2. CASE p \in 2..6
          <6>1. Taken(Part(slot, seed, n)[p])
            BY <2>2, <3>1, <5>2
          <6> QED BY <1>0, <2>1, <2>3, <3>3, <5>2, <6>1, ProStep
        <5> QED BY <3>4, <5>1, <5>2
      <4>2. HotWaits(n, p + 1)'
        BY <1>1, <2>1, <3>1, <3>2, <4>1 DEF HotWaits, AtThis, Parts
      <4> QED BY <1>0, <3>1, <3>2, <3>4, <4>1, <4>2 DEF HotInv, Idle, ResidentB
    <3>5. CASE p = 7
      <4>1. Taken(Record(EPro(G)))
        BY <2>2, <3>1, <3>5
      <4>2. fired' = fired \cup {EPro(G)} /\ UNCHANGED memVars
        BY <4>1, TakenEvent
      <4>3. UNCHANGED <<d_jk, d_A, d_ha, d_as, d_fa, d_B, d_hb>>
        BY <4>2 DEF memVars
      <4>4. KeyKept /\ EPro(pend_slot) \notin fired
        BY <1>1 DEF HotWaits, AtThis, HostInv
      <4>5. AtNext(2)'
        <5>1. (EPro(pend_slot) \notin fired)'
          BY <1>0, <3>2, <4>2, <4>4
        <5>2. queue'["sP"] = Rest(Part(pend_slot, calls + 1, age), 2)
          BY <2>2, <3>1, <3>5
        <5>3. ProInv(pend_slot, calls + 1, age, 2)'
          BY DEF ProInv
        <5> QED BY <3>2, <5>1, <5>2, <5>3 DEF AtNext
      <4>6. Ready(G, calls, n)'
        BY <2>1, <3>2, <3>3, <3>5, <4>3, <4>4 DEF ProInv, Ready
      <4>7. queue'["sA"] = Rest(HotA(G, calls, n), 1)
        <5>1. HotA(G, calls, n) \in Seq(Ops)
          BY <1>0, Counters, HotAFacts
        <5>2. 1 \in 1..Len(HotA(G, calls, n)) + 1
          BY <5>1, LenProperties
        <5>3. Rest(HotA(G, calls, n), 1) = HotA(G, calls, n)
          BY <5>1, <5>2, RestFacts
        <5> QED BY <1>1, <3>1, <5>3 DEF HotWaits
      <4>8. HotGrinds(n, 2, 1)'
        BY <3>2, <4>2, <4>5, <4>6, <4>7 DEF HotGrinds
      <4> QED BY <1>0, <3>1, <3>2, <4>3, <4>8 DEF HotInv, Idle, ResidentB
    <3> QED BY <3>4, <3>5
  <2> QED BY <2>3, <2>4, HotStutters
<1>2. ASSUME NEW p \in 2..8, NEW i \in 1..3, HotGrinds(n, p, i) PROVE HotInv(n)'
  <2>1. PICK t, slot, seed, k : t = Part(slot, seed, k) /\ slot = pend_slot /\ seed = calls + 1 /\ k = age
    OBVIOUS
  <2>2. /\ t \in Seq(Ops) /\ Len(t) = 7 /\ queue["sP"] = Rest(t, p) /\ t[7] = Record(EPro(slot))
    BY <1>0, <1>2, <2>1, PartFacts DEF HotGrinds, AtNext
  <2>3. UNCHANGED hostVars /\ (UNCHANGED <<queue, fired, memVars>> \/ GoesOn("sP", t, p))
    <3>1. p \in 1..Len(t) + 1
      BY <2>2
    <3> QED BY <1>0, <2>2, <3>1, StepAt, Zenon
  <2>4. CASE GoesOn("sP", t, p)
    <3>1. /\ p \in 2..7 /\ p + 1 \in 2..8 /\ Taken(t[p]) /\ queue'["sP"] = Rest(t, p + 1)
          /\ queue'["sA"] = queue["sA"] /\ queue'["sB"] = queue["sB"]
      BY <2>2, <2>4 DEF GoesOn, Streams
    <3>2. UNCHANGED <<host, calls, age, last_jk, pend_slot>> /\ UNCHANGED G
      BY <2>3 DEF hostVars, G
    <3>3. ProInv(slot, seed, k, p)
      BY <1>2, <2>1 DEF HotGrinds, AtNext
    <3>4. /\ ProInv(slot, seed, k, p + 1)'
          /\ d_A'[G] = d_A[G] /\ d_as'[G] = d_as[G] /\ UNCHANGED <<d_B, d_hb>>
          /\ p # 7 => fired' = fired
          /\ p = 7 => fired' = fired \cup {EPro(slot)}
      <4>1. CASE p \in 2..6
        BY <1>0, <2>1, <2>3, <3>1, <3>3, <4>1, ProStep
      <4>2. CASE p = 7
        <5>1. Taken(Record(EPro(slot)))
          BY <2>2, <3>1, <4>2
        <5>2. fired' = fired \cup {EPro(slot)} /\ UNCHANGED memVars
          BY <5>1, TakenEvent
        <5> QED BY <3>2, <3>3, <4>2, <5>2 DEF ProInv, KeyKept, memVars
      <4> QED BY <3>1, <4>1, <4>2
    <3>5. AtNext(p + 1)'
      <4>1. (EPro(pend_slot) \in fired)' <=> p + 1 = 8
        BY <1>2, <2>1, <3>1, <3>2, <3>4 DEF HotGrinds, AtNext
      <4> QED BY <2>1, <3>1, <3>2, <3>4, <4>1 DEF AtNext
    <3>6. HotGrinds(n, p + 1, i)'
      <4>1. (EPro(G) \in fired)'
        BY <1>2, <3>1, <3>2, <3>4 DEF HotGrinds
      <4>2. Ready(G, calls, n)'
        BY <1>2, <3>2, <3>4 DEF HotGrinds, Ready
      <4> QED BY <1>2, <3>1, <3>2, <3>5, <4>1, <4>2 DEF HotGrinds
    <3> QED BY <1>0, <3>1, <3>2, <3>4, <3>6 DEF HotInv, Idle, ResidentB
  <2> QED BY <2>3, <2>4, HotStutters
<1> QED BY <1>1, <1>2 DEF HotInv

LEMMA StreamStep ==
  ASSUME IndInv, NEW s \in Streams, Stream(s) PROVE IndInv'
<1>1. TypeOK /\ HostInv /\ StreamInv
  BY DEF IndInv
<1>2. TypeOK' /\ HostInv' /\ UNCHANGED hostVars /\ queue[s] # <<>>
  BY <1>1, StreamHost
     DEF Stream, Fires, Passes, Starts, Ends, HostInv, IsKernel
<1>3. CASE age = 1
  <2>1. PICK a \in 1..10, b \in 1..8, p \in 1..8 : ColdAt(a, b, p)
    BY <1>1, <1>3 DEF StreamInv
  <2>2. \E x \in 1..10, y \in 1..8, z \in 1..8 : ColdAt(x, y, z)'
    <3>1. CASE s = "sA"
      BY <1>1, <1>3, <2>1, <3>1, ColdStepA
    <3>2. CASE s = "sB"
      BY <1>1, <1>3, <2>1, <3>2, ColdStepB
    <3>3. CASE s = "sP"
      BY <1>1, <1>3, <2>1, <3>3, ColdStepP
    <3> QED BY <3>1, <3>2, <3>3 DEF Streams
  <2> QED BY <1>2, <1>3, <2>2 DEF IndInv, StreamInv, hostVars
<1>4. CASE age \in {2, 3}
  <2>1. PICK n \in 1..3 : HotInv(n)
    BY <1>1, <1>4 DEF StreamInv
  <2>2. HotInv(n)'
    <3>1. CASE s = "sA"
      BY <1>1, <1>4, <2>1, <3>1, HotStepA
    <3>2. CASE s = "sB"
      BY <1>2, <2>1, <3>2 DEF HotInv, Idle
    <3>3. CASE s = "sP"
      BY <1>1, <1>4, <2>1, <3>3, HotStepP
    <3> QED BY <3>1, <3>2, <3>3 DEF Streams
  <2> QED BY <1>2, <1>4, <2>2 DEF IndInv, StreamInv, hostVars
<1>5. CASE age = 0
  BY <1>2, <1>5 DEF IndInv, StreamInv, hostVars
<1> QED BY <1>1, <1>3, <1>4, <1>5 DEF TypeOK

-----------------------------------------------------------------------------
(* The calling thread.                                                     *)

LEMMA InitInv == Init => IndInv
<1> SUFFICES ASSUME Init PROVE IndInv
  OBVIOUS
<1> USE DEF Init
<1>1. TypeOK
  <2>1. calls \in 0..MaxCalls /\ NoMat \in Noised /\ NoTag \in Tags
    BY ConstantsAssumption, TagFields DEF NoMat, Setups
  <2>2. d_A \in [Slots -> Noised] /\ d_ha \in [Slots -> Tags] /\ d_as \in [Slots -> Tags]
    BY <2>1
  <2>3. pend_slot \in Slots
    BY DEF Slots
  <2> QED BY <2>1, <2>2, <2>3 DEF TypeOK
<1>2. HostInv
  <2>1. \A r \in Streams : Idle(r)
    BY DEF Idle
  <2>2. queue \in [Streams -> Seq(Ops)]
    BY EmptySeq
  <2> QED BY <2>1, <2>2 DEF HostInv, KeyKept, Streams
<1> QED BY <1>1, <1>2 DEF IndInv, StreamInv

(* The key of the next call comes while sP may be at work under the old    *)
(* one: what it makes from then on is for a key that no one grinds.        *)
LEMMA CopyKeyInv == ASSUME IndInv, CopyKey PROVE IndInv'
<1>1. TypeOK /\ HostInv /\ StreamInv /\ KeyKept
  BY DEF IndInv, CopyKey, HostInv
<1>2. /\ UNCHANGED <<calls, age, last_jk, pend_valid, pend_slot, queue, running, fired,
                      d_A, d_ha, d_as, d_fa, d_B, d_hb, d_bs>>
      /\ host = "idle" /\ host' = "copied" /\ d_jk' \in Keys /\ calls < MaxCalls
  BY DEF CopyKey
<1>3. TypeOK'
  BY <1>1, <1>2 DEF TypeOK
<1>4. HostInv'
  BY <1>1, <1>2 DEF HostInv, Idle, IsKernel, First
<1>5. \A p \in 1..8 : AtNext(p) => AtNext(p)'
  BY <1>1, <1>2 DEF AtNext, ProInv, KeyKept
<1>6. \A a \in 1..10, b \in 1..8, p \in 1..8 : ColdAt(a, b, p) => ColdAt(a, b, p)'
  BY <1>2, <1>5 DEF ColdAt, Key
<1>7. \A n, p : ~HotWaits(n, p)
  BY <1>2 DEF HotWaits, AtThis
<1>8. \A n \in 1..3, p \in 2..8, i \in 1..3 : HotGrinds(n, p, i) => HotGrinds(n, p, i)'
  BY <1>2, <1>5 DEF HotGrinds, Ready, G
<1>9. \A n \in 1..3 : HotInv(n) => HotInv(n)'
  BY <1>2, <1>7, <1>8 DEF HotInv, Idle, ResidentB
<1>10. StreamInv'
  BY <1>1, <1>2, <1>6, <1>9 DEF StreamInv
<1> QED BY <1>3, <1>4, <1>10 DEF IndInv

(* When sA is drained, its setup has been ground.                          *)
LEMMA ReturnInv == ASSUME IndInv, Return PROVE IndInv'
<1>1. TypeOK /\ HostInv /\ StreamInv /\ KeyKept
  BY DEF IndInv, Return, HostInv
<1>2. /\ UNCHANGED <<calls, age, last_jk, pend_valid, pend_slot, queue, running, fired, memVars>>
      /\ host = "launched" /\ host' = "idle" /\ queue["sA"] = <<>>
  BY DEF Return, Idle
<1>3. TypeOK'
  BY <1>1, <1>2 DEF TypeOK, memVars
<1>4. HostInv'
  BY <1>1, <1>2 DEF HostInv, Idle, IsKernel, First, KeyKept, memVars
<1>5. \A p \in 1..8 : AtNext(p) => AtNext(p)'
  BY <1>2 DEF AtNext, ProInv, KeyKept, memVars
<1>6. \A a \in 1..10, b \in 1..8, p \in 1..8 : ColdAt(a, b, p) => ColdAt(a, b, p)'
  BY <1>2, <1>5 DEF ColdAt, Key, memVars
<1>7. \A n, p : ~HotWaits(n, p)
  BY <1>2 DEF HotWaits, HotA
<1>8. \A n \in 1..3, p \in 2..8, i \in 1..3 : HotGrinds(n, p, i) => HotGrinds(n, p, i)'
  BY <1>2, <1>5 DEF HotGrinds, Ready, G, memVars
<1>9. \A n \in 1..3 : HotInv(n) => HotInv(n)'
  BY <1>2, <1>7, <1>8 DEF HotInv, Idle, ResidentB, memVars
<1>10. StreamInv'
  BY <1>1, <1>2, <1>6, <1>9 DEF StreamInv
<1> QED BY <1>3, <1>4, <1>10 DEF IndInv

LEMMA LaunchColdInv == ASSUME IndInv, LaunchCold PROVE IndInv'
<1>1. TypeOK /\ HostInv
  BY DEF IndInv
<1>2. PICK c : c = calls + 1
  OBVIOUS
<1>3. /\ queue' = [sA |-> ColdA(c), sB |-> ColdB(c), sP |-> ColdP(c + 1)]
      /\ fired' = {} /\ host' = "launched" /\ calls' = c /\ age' = 1
      /\ last_jk' = d_jk /\ pend_valid' = TRUE /\ pend_slot' = 1
      /\ UNCHANGED <<running, d_jk, d_A, d_ha, d_as, d_fa, d_B, d_hb, d_bs>>
      /\ \A s \in Streams : queue[s] = <<>>
  <2>1. calls + 2 = c + 1
    BY <1>1, <1>2 DEF TypeOK
  <2> QED BY <1>2, <2>1 DEF LaunchCold, memVars, Idle
<1>4. /\ c \in 1..MaxCalls /\ c \in Setups /\ c + 1 \in Setups /\ d_jk \in Keys /\ running = {}
      /\ 1 \in Slots /\ 1 \in 0..3 /\ EPro(1) = "ePro1"
  <2>1. calls < MaxCalls /\ calls \in 0..MaxCalls /\ d_jk \in Keys
    BY <1>1 DEF LaunchCold, HostInv, TypeOK
  <2>2. running = {}
    BY <1>1, <1>3 DEF HostInv, TypeOK, IsKernel
  <2> QED BY <1>2, <2>1, <2>2, ConstantsAssumption DEF Setups, Slots, EPro
<1>5. TypeOK'
  BY <1>1, <1>3, <1>4 DEF TypeOK
<1>6. PICK x, y, z : x = ColdA(c) /\ y = ColdB(c) /\ z = Part(1, c + 1, 1)
  OBVIOUS
<1>7. /\ x \in Seq(Ops) /\ Len(x) = 9 /\ y \in Seq(Ops) /\ Len(y) = 7
      /\ z \in Seq(Ops) /\ Len(z) = 7 /\ ColdP(c + 1) = z
  <2>1. ColdP(c + 1) = z
    BY <1>4, <1>6, PrologueIsPart DEF ColdP
  <2>2. x \in Seq(Ops) /\ Len(x) = 9
    BY <1>4, <1>6, ColdAFacts
  <2>3. y \in Seq(Ops) /\ Len(y) = 7
    BY <1>4, <1>6, ColdBFacts
  <2>4. z \in Seq(Ops) /\ Len(z) = 7
    BY <1>4, <1>6, PartFacts
  <2> QED BY <2>1, <2>2, <2>3, <2>4
<1>8. HostInv'
  <2>1. queue' \in [Streams -> Seq(Ops)]
    BY <1>3, <1>6, <1>7 DEF Streams
  <2> QED BY <1>3, <1>4, <2>1 DEF HostInv, KeyKept
<1>9. ColdAt(1, 1, 1)'
  <2>1. Rest(x, 1) = x /\ Rest(y, 1) = y /\ Rest(z, 1) = z
    <3>1. \A t \in Seq(Ops) : Rest(t, 1) = t
      BY SubSeqFull DEF Rest
    <3> QED BY <1>7, <3>1
  <2>2. AtNext(1)'
    BY <1>3, <1>4, <1>6, <1>7, <2>1 DEF AtNext, ProInv
  <2> QED BY <1>3, <1>4, <1>6, <2>1, <2>2 DEF ColdAt
<1>10. StreamInv'
  BY <1>3, <1>9 DEF StreamInv
<1> QED BY <1>5, <1>8, <1>10 DEF IndInv

(* The prologue of the call before is now that of this setup, ended or     *)
(* not, and the next one is launched behind it.                            *)
LEMMA LaunchHotInv == ASSUME IndInv, LaunchHot PROVE IndInv'
<1>1. TypeOK /\ HostInv /\ StreamInv
  BY DEF IndInv
<1>2. PICK c, m, o, g : c = calls + 1 /\ m = age /\ o = Older /\ g = pend_slot
  OBVIOUS
<1>3. /\ host = "copied" /\ host' = "launched" /\ calls' = c /\ age' = o /\ pend_slot' = Other(g)
      /\ queue' = [queue EXCEPT !["sA"] = @ \o HotA(g, c, m), !["sP"] = @ \o HotP(g, c + 1, o)]
      /\ fired' = fired \ {EPro(Other(g))} /\ last_jk = d_jk /\ pend_valid
      /\ UNCHANGED <<last_jk, pend_valid, running, d_jk, d_A, d_ha, d_as, d_fa, d_B, d_hb, d_bs>>
  <2>1. calls + 2 = c + 1
    BY <1>1, <1>2 DEF TypeOK
  <2> QED BY <1>2, <2>1 DEF LaunchHot, Cold, memVars
<1>4. /\ age # 0 /\ m \in 1..3 /\ o \in {2, 3} /\ (m = 1 <=> o = 2)
      /\ c \in 1..MaxCalls /\ c \in Setups /\ c + 1 \in Setups
      /\ g \in Slots /\ Other(g) \in Slots /\ Other(Other(g)) = g
      /\ EPro(g) # EPro(Other(g)) /\ EPro(g) \in Events
      /\ queue \in [Streams -> Seq(Ops)] /\ queue["sA"] = <<>>
  <2>1. age # 0 /\ calls < MaxCalls /\ calls \in 0..MaxCalls /\ queue["sA"] = <<>>
    BY <1>1, <1>3 DEF HostInv, TypeOK, Idle
  <2>2. g \in Slots /\ m \in 1..3
    BY <1>1, <1>2, <2>1 DEF TypeOK
  <2> QED BY <1>1, <1>2, <2>1, <2>2, SlotFacts, ConstantsAssumption DEF Setups, Older, HostInv
<1>5. TypeOK'
  BY <1>1, <1>3, <1>4 DEF TypeOK
<1>6. PICK x, y : x = HotA(g, c, m) /\ y = HotP(g, c + 1, o)
  OBVIOUS
<1>7. /\ x \in Seq(Ops) /\ Len(x) = 2 /\ Rest(x, 1) = x
      /\ y \in Seq(Ops) /\ y = Rest(Part(Other(g), c + 1, o), 2)
  <2>0. m \in 0..3 /\ o \in 0..3
    BY <1>4
  <2>1. x \in Seq(Ops) /\ Len(x) = 2
    BY <1>4, <1>6, <2>0, HotAFacts
  <2>2. y = Rest(Part(Other(g), c + 1, o), 2) /\ y = Prologue(Other(g), c + 1, o)
    BY <1>4, <1>6, <2>0, PrologueIsPart DEF HotP
  <2>3. y \in Seq(Ops)
    <3>1. Other(g) \in Slots /\ c + 1 \in Setups /\ y = Prologue(Other(g), c + 1, o)
      BY <1>4, <2>2
    <3> QED BY <2>0, <3>1, PrologueFacts, Zenon
  <2> QED BY <2>1, <2>2, <2>3, RestFacts
<1>8. /\ queue'["sA"] = x /\ queue'["sB"] = queue["sB"] /\ queue'["sP"] = queue["sP"] \o y
      /\ queue' \in [Streams -> Seq(Ops)]
  <2>1. <<>> \o x = x
    BY <1>7, ConcatEmptySeq
  <2>2. queue["sP"] \in Seq(Ops) /\ queue["sP"] \o y \in Seq(Ops)
    BY <1>4, <1>7, ConcatProperties DEF Streams
  <2>3. queue' = [queue EXCEPT !["sA"] = x, !["sP"] = queue["sP"] \o y]
    BY <1>3, <1>4, <1>6, <2>1
  <2> HIDE DEF Streams
  <2>4. "sA" \in Streams /\ "sB" \in Streams /\ "sP" \in Streams
    BY DEF Streams
  <2> QED BY <1>4, <1>7, <2>2, <2>3, <2>4
<1>9. HostInv'
  <2>1. \A r \in running : r \in Streams /\ r # "sA" /\ queue[r] # <<>> /\ First(r).op \in Kernels
    BY <1>1, <1>4 DEF HostInv, TypeOK, IsKernel
  <2>2. ASSUME NEW r \in running PROVE IsKernel(r)'
    <3>1. CASE r = "sB"
      BY <1>8, <2>1, <3>1 DEF IsKernel, First
    <3>2. CASE r = "sP"
      <4>1. PICK q, z : q = queue["sP"] /\ z = q \o y
        OBVIOUS
      <4>2. q \in Seq(Ops) /\ Len(q) \in Nat \ {0} /\ Head(q) = q[1]
        BY <1>4, <2>1, <3>2, <4>1, EmptySeq DEF Streams
      <4>3. /\ z \in Seq(Ops) /\ Len(z) = Len(q) + Len(y)
            /\ \A i \in 1..Len(q) + Len(y) : z[i] = IF i <= Len(q) THEN q[i] ELSE y[i - Len(q)]
        BY <1>7, <4>1, <4>2, ConcatProperties, ZenonT(30)
      <4>4. z # <<>> /\ Head(z) = Head(q)
        BY <1>7, <4>2, <4>3
      <4> QED BY <1>8, <2>1, <3>2, <4>1, <4>4 DEF IsKernel, First
    <3> QED BY <2>1, <3>1, <3>2 DEF Streams
  <2>3. /\ calls' # 0 /\ age' # 0 /\ pend_valid' /\ last_jk' \in Keys /\ d_jk' \in Keys
        /\ d_jk' = last_jk' /\ host' = "launched"
    BY <1>1, <1>3, <1>4 DEF HostInv
  <2>4. \A r \in running' : IsKernel(r)'
    BY <1>3, <2>2
  <2> QED BY <1>8, <2>3, <2>4 DEF HostInv, KeyKept
<1>10. PICK p \in 1..8 : AtNext(p) /\ queue["sB"] = <<>> /\ ResidentB
  <2>1. CASE age = 1
    <3>1. PICK a \in 1..10, b \in 1..8, p \in 1..8 : ColdAt(a, b, p)
      BY <1>1, <2>1 DEF StreamInv
    <3>2. calls \in Setups
      BY <1>1, <1>4, Counters
    <3>3. a = 10
      <4>1. PICK t : t = ColdA(calls)
        OBVIOUS
      <4>2. t \in Seq(Ops) /\ Len(t) = 9 /\ queue["sA"] = Rest(t, a)
        BY <3>1, <3>2, <4>1, ColdAFacts DEF ColdAt
      <4>3. a \in 1..Len(t) + 1
        BY <4>2
      <4>4. a = Len(t) + 1
        BY <1>4, <4>2, <4>3, RestFacts
      <4> QED BY <4>2, <4>4
    <3>4. b = 8
      BY <3>1, <3>3 DEF ColdAt
    <3>5. queue["sB"] = <<>>
      <4>1. PICK t : t = ColdB(calls)
        OBVIOUS
      <4>2. t \in Seq(Ops) /\ Len(t) = 7 /\ queue["sB"] = Rest(t, b)
        BY <3>1, <3>2, <4>1, ColdBFacts DEF ColdAt
      <4>3. Rest(t, Len(t) + 1) = <<>>
        BY <4>2, RestEnds
      <4> QED BY <3>4, <4>2, <4>3
    <3>6. ResidentB
      <4>1. d_B.seed = calls /\ d_hb = Key /\ d_B.noise = Key
        BY <3>1, <3>4 DEF ColdAt
      <4>2. d_B = [seed |-> d_B.seed, noise |-> d_B.noise]
        BY <1>1 DEF TypeOK, Noised
      <4> QED BY <4>1, <4>2 DEF ResidentB, Key
    <3> QED BY <3>1, <3>5, <3>6 DEF ColdAt
  <2>2. CASE age \in {2, 3}
    <3>1. PICK n \in 1..3 : HotInv(n)
      BY <1>1, <2>2 DEF StreamInv
    <3>2. \A p : ~HotWaits(n, p)
      BY <1>3 DEF HotWaits, AtThis
    <3>3. PICK p \in 2..8, i \in 1..3 : HotGrinds(n, p, i)
      BY <3>1, <3>2 DEF HotInv
    <3> QED BY <3>1, <3>3 DEF HotInv, HotGrinds, Idle
  <2> QED BY <1>2, <1>4, <2>1, <2>2
<1>11. G' = g
  BY <1>3, <1>4 DEF G
<1>12. HotInv(m)'
  <2>1. Idle("sB")' /\ ResidentB' /\ (m = 1 <=> age' = 2)
    BY <1>3, <1>4, <1>8, <1>10 DEF Idle, ResidentB
  <2>2. PICK t : t = Part(g, c, m)
    OBVIOUS
  <2>3. t \in Seq(Ops) /\ Len(t) = 7 /\ queue["sP"] = Rest(t, p)
    <3>1. m \in 0..3 /\ queue["sP"] = Rest(t, p)
      BY <1>2, <1>4, <1>10, <2>2 DEF AtNext
    <3> QED BY <1>4, <2>2, <3>1, PartFacts, ZenonT(40)
  <2>4. ProInv(g, c, m, p) /\ (EPro(g) \in fired <=> p = 8)
    BY <1>2, <1>10 DEF AtNext
  <2>5. CASE p \in 1..7
    <3>1. queue'["sP"] = Rest(t \o y, p)
      <4>1. p \in 1..Len(t) + 1
        BY <2>3
      <4>2. Rest(t, p) \o y = Rest(t \o y, p)
        <5>1. t \in Seq(Ops) /\ y \in Seq(Ops)
          BY <1>7, <2>3
        <5>2. ASSUME NEW S, NEW u \in Seq(S), NEW v \in Seq(S), NEW i \in 1..Len(u) + 1
              PROVE  Rest(u, i) \o v = Rest(u \o v, i)
          BY <5>2, RestAppend
        <5> QED BY <4>1, <5>1, <5>2
      <4> QED BY <1>8, <2>3, <4>1, <4>2
    <3>2. Parts(m)' = t \o y
      BY <1>3, <1>6, <1>11, <2>2 DEF Parts
    <3>3. AtThis(p, m)'
      BY <1>3, <1>4, <1>11, <2>4, <2>5, <3>1, <3>2 DEF AtThis, ProInv, KeyKept
    <3>4. HotWaits(m, p)'
      BY <1>3, <1>6, <1>8, <1>11, <3>3 DEF HotWaits
    <3> QED BY <2>1, <2>5, <3>4 DEF HotInv
  <2>6. CASE p = 8
    <3>1. queue["sP"] = <<>>
      <4>1. Rest(t, Len(t) + 1) = <<>>
        BY <2>3, RestEnds
      <4> QED BY <2>3, <2>6, <4>1
    <3>2. queue'["sP"] = y
      BY <1>7, <1>8, <3>1, ConcatEmptySeq
    <3>3. AtNext(2)'
      <4>1. (EPro(pend_slot) \notin fired)'
        BY <1>3
      <4> QED BY <1>3, <1>7, <3>2, <4>1 DEF AtNext, ProInv
    <3>4. Ready(G, calls, m)'
      BY <1>3, <1>11, <2>4, <2>6 DEF Ready, ProInv, KeyKept
    <3>5. (EPro(G) \in fired)'
      BY <1>3, <1>4, <1>11, <2>4, <2>6
    <3>6. HotGrinds(m, 2, 1)'
      BY <1>3, <1>6, <1>7, <1>8, <1>11, <3>3, <3>4, <3>5 DEF HotGrinds
    <3> QED BY <2>1, <3>6 DEF HotInv
  <2> QED BY <2>5, <2>6
<1>13. StreamInv'
  BY <1>3, <1>4, <1>12 DEF StreamInv
<1> QED BY <1>5, <1>9, <1>13 DEF IndInv

LEMMA NextInv == IndInv /\ [Next]_vars => IndInv'
<1> SUFFICES ASSUME IndInv, [Next]_vars PROVE IndInv'
  OBVIOUS
<1>1. CASE Host
  BY <1>1, CopyKeyInv, LaunchColdInv, LaunchHotInv, ReturnInv DEF Host
<1>2. CASE \E s \in Streams : Stream(s)
  BY <1>2, StreamStep
<1>3. CASE UNCHANGED vars
  <2>1. UNCHANGED <<hostVars, queue, running, fired, memVars>>
    BY <1>3 DEF vars
  <2>2. TypeOK' /\ HostInv'
    BY <2>1 DEF IndInv, TypeOK, HostInv, Idle, IsKernel, First, KeyKept, hostVars, memVars
  <2>3. \A a \in 1..10, b \in 1..8, p \in 1..8 : ColdAt(a, b, p) => ColdAt(a, b, p)'
    BY <2>1, ColdStutters
  <2>4. \A n \in 1..3 : HotInv(n) => HotInv(n)'
    BY <2>1, HotStutters
  <2>5. StreamInv'
    BY <2>1, <2>3, <2>4 DEF IndInv, StreamInv, hostVars
  <2> QED BY <2>2, <2>5 DEF IndInv
<1> QED BY <1>1, <1>2, <1>3 DEF Next, Done

LEMMA OverlapInvariant == Spec => []IndInv
BY InitInv, NextInv, PTL DEF Spec

-----------------------------------------------------------------------------
(* What is under way.                                                      *)

LEMMA UnderWay ==
  ASSUME HostInv, NEW s \in running, NEW t \in Seq(Ops), NEW i \in 1..Len(t) + 1,
         queue[s] = Rest(t, i)
  PROVE  i \in 1..Len(t) /\ First(s) = t[i] /\ t[i].op \in Kernels
<1>1. queue[s] # <<>> /\ First(s).op \in Kernels
  BY DEF HostInv, IsKernel
<1>2. i \in 1..Len(t)
  <2>1. i # Len(t) + 1
    BY <1>1, RestEnds
  <2> QED BY <2>1
<1>3. First(s) = t[i]
  BY <1>2, RestFacts DEF First
<1> QED BY <1>1, <1>2, <1>3

(* The kernels of a setup on its slot. *)
OfSlot(slot, seed, n) == {Kernel(name, slot, seed, n) : name \in {"gen", "perm", "noise"}}

LEMMA ColdUnderWay ==
  ASSUME TypeOK, HostInv, age = 1,
         NEW a \in 1..10, NEW b \in 1..8, NEW p \in 1..8, ColdAt(a, b, p)
  PROVE  /\ "sA" \in running =>
              \/ a = 2 /\ First("sA") = Kernel("commit", 0, calls, 0)
              \/ a = 4 /\ First("sA") = Kernel("stir", 0, calls, 0)
              \/ First("sA") \in OfSlot(0, calls, 0)
              \/ a = 9 /\ First("sA") = Kernel("grind", 0, calls, 0)
         /\ "sB" \in running =>
              \/ b = 2 /\ First("sB") = Kernel("commitB", 0, calls, 0)
              \/ b <= 6 /\ First("sB") \in {Kernel("genB", 0, calls, 0), Kernel("permB", 0, calls, 0),
                                            Kernel("noiseB", 0, calls, 0)}
         /\ "sP" \in running =>
              a > 5 /\ \/ First("sP") \in {Kernel("commit", 1, calls + 1, 1), Kernel("stir", 1, calls + 1, 1)}
                       \/ First("sP") \in OfSlot(1, calls + 1, 1)
<1>0. calls \in Setups /\ calls + 1 \in Setups /\ 1 \in Slots /\ 1 \in 0..3
  BY Counters DEF Slots
<1>1. ASSUME "sA" \in running
      PROVE  \/ a = 2 /\ First("sA") = Kernel("commit", 0, calls, 0)
             \/ a = 4 /\ First("sA") = Kernel("stir", 0, calls, 0)
             \/ First("sA") \in OfSlot(0, calls, 0)
             \/ a = 9 /\ First("sA") = Kernel("grind", 0, calls, 0)
  <2>1. PICK t : t = ColdA(calls)
    OBVIOUS
  <2>2. /\ t \in Seq(Ops) /\ Len(t) = 9 /\ queue["sA"] = Rest(t, a)
        /\ t[1] = Kernel("gen", 0, calls, 0) /\ t[2] = Kernel("commit", 0, calls, 0)
        /\ t[3] = Wait("eB") /\ t[4] = Kernel("stir", 0, calls, 0) /\ t[5] = Record("eStir")
        /\ t[6] = Kernel("perm", 0, calls, 0) /\ t[7] = Kernel("noise", 0, calls, 0)
        /\ t[8] = Wait("eB2") /\ t[9] = Kernel("grind", 0, calls, 0)
    BY <1>0, <2>1, ColdAFacts DEF ColdAt
  <2>3. a \in 1..9 /\ First("sA") = t[a] /\ t[a].op \in Kernels
    <3>1. a \in 1..Len(t) + 1
      BY <2>2
    <3>2. a \in 1..Len(t) /\ First("sA") = t[a] /\ t[a].op \in Kernels
      BY <1>1, <2>2, <3>1, UnderWay
    <3> QED BY <2>2, <3>2
  <2>4. a \notin {3, 5, 8}
    BY <2>2, <2>3 DEF Wait, Record, Kernels
  <2> QED BY <2>2, <2>3, <2>4 DEF OfSlot
<1>2. ASSUME "sB" \in running
      PROVE  \/ b = 2 /\ First("sB") = Kernel("commitB", 0, calls, 0)
             \/ b <= 6 /\ First("sB") \in {Kernel("genB", 0, calls, 0), Kernel("permB", 0, calls, 0),
                                           Kernel("noiseB", 0, calls, 0)}
  <2>1. PICK t : t = ColdB(calls)
    OBVIOUS
  <2>2. /\ t \in Seq(Ops) /\ Len(t) = 7 /\ queue["sB"] = Rest(t, b)
        /\ t[1] = Kernel("genB", 0, calls, 0) /\ t[2] = Kernel("commitB", 0, calls, 0)
        /\ t[3] = Record("eB") /\ t[4] = Wait("eStir") /\ t[5] = Kernel("permB", 0, calls, 0)
        /\ t[6] = Kernel("noiseB", 0, calls, 0) /\ t[7] = Record("eB2")
    BY <1>0, <2>1, ColdBFacts DEF ColdAt
  <2>3. b \in 1..7 /\ First("sB") = t[b] /\ t[b].op \in Kernels
    <3>1. b \in 1..Len(t) + 1
      BY <2>2
    <3>2. b \in 1..Len(t) /\ First("sB") = t[b] /\ t[b].op \in Kernels
      BY <1>2, <2>2, <3>1, UnderWay
    <3> QED BY <2>2, <3>2
  <2>4. b \notin {3, 4, 7}
    BY <2>2, <2>3 DEF Wait, Record, Kernels
  <2> QED BY <2>2, <2>3, <2>4
<1>3. ASSUME "sP" \in running
      PROVE  a > 5 /\ \/ First("sP") \in {Kernel("commit", 1, calls + 1, 1), Kernel("stir", 1, calls + 1, 1)}
                      \/ First("sP") \in OfSlot(1, calls + 1, 1)
  <2>1. PICK t, e : t = Part(1, e, 1) /\ e = calls + 1
    OBVIOUS
  <2>2. /\ t \in Seq(Ops) /\ Len(t) = 7 /\ queue["sP"] = Rest(t, p)
        /\ t[1] = Wait("eStir") /\ t[2] = Kernel("gen", 1, e, 1)
        /\ t[3] = Kernel("commit", 1, e, 1) /\ t[4] = Kernel("stir", 1, e, 1)
        /\ t[5] = Kernel("perm", 1, e, 1) /\ t[6] = Kernel("noise", 1, e, 1)
        /\ t[7] = Record(EPro(1))
    BY <1>0, <2>1, PartFacts DEF ColdAt, AtNext
  <2>3. p \in 1..7 /\ First("sP") = t[p] /\ t[p].op \in Kernels
    <3>1. p \in 1..Len(t) + 1
      BY <2>2
    <3>2. p \in 1..Len(t) /\ First("sP") = t[p] /\ t[p].op \in Kernels
      BY <1>3, <2>2, <3>1, UnderWay
    <3> QED BY <2>2, <3>2
  <2>4. p \notin {1, 7}
    BY <2>2, <2>3 DEF Wait, Record, Kernels
  <2>5. a > 5
    BY <2>3, <2>4 DEF ColdAt
  <2> QED BY <2>1, <2>2, <2>3, <2>4, <2>5 DEF OfSlot
<1> QED BY <1>1, <1>2, <1>3

(* After a hot launch sB is idle, and the grind has its slot to itself.    *)
LEMMA HotUnderWay ==
  ASSUME TypeOK, HostInv, age \in {2, 3}, NEW n \in 1..3, HotInv(n)
  PROVE  /\ "sB" \notin running
         /\ "sP" \in running => \E slot \in Slots : \E seed, k : First("sP") \in
              OfSlot(slot, seed, k) \cup {Kernel("commit", slot, seed, k), Kernel("stir", slot, seed, k)}
         /\ "sA" \in running =>
              /\ First("sA") = Kernel("grind", G, calls, n) /\ Ready(G, calls, n) /\ G # pend_slot
              /\ "sP" \in running => \E seed, k : First("sP") \in
                   OfSlot(pend_slot, seed, k)
                     \cup {Kernel("commit", pend_slot, seed, k), Kernel("stir", pend_slot, seed, k)}
<1>0. /\ calls \in Setups /\ calls + 1 \in Setups /\ G \in Slots /\ pend_slot \in Slots /\ G # pend_slot
      /\ n \in 0..3 /\ age \in 0..3
  BY Counters, SlotFacts DEF G
<1>1. "sB" \notin running
  BY DEF HotInv, Idle, HostInv, IsKernel
<1>2. ASSUME NEW slot \in Slots, NEW seed \in Setups, NEW k \in 0..3, NEW t \in Seq(Ops), NEW p \in 1..8,
             7 <= Len(t), \A i \in 1..7 : t[i] = Part(slot, seed, k)[i], p = 8 => Len(t) = 7,
             queue["sP"] = Rest(t, p), "sP" \in running
      PROVE  First("sP") \in OfSlot(slot, seed, k)
               \cup {Kernel("commit", slot, seed, k), Kernel("stir", slot, seed, k)}
  <2>1. PICK u : u = Part(slot, seed, k)
    OBVIOUS
  <2>2. /\ u[1] = Wait("eStir") /\ u[2] = Kernel("gen", slot, seed, k)
        /\ u[3] = Kernel("commit", slot, seed, k) /\ u[4] = Kernel("stir", slot, seed, k)
        /\ u[5] = Kernel("perm", slot, seed, k) /\ u[6] = Kernel("noise", slot, seed, k)
        /\ u[7] = Record(EPro(slot))
    BY <1>2, <2>1, PartFacts
  <2>3. p \in 1..Len(t) + 1
    BY <1>2
  <2>4. p \in 1..Len(t) /\ First("sP") = t[p] /\ t[p].op \in Kernels
    BY <1>2, <2>3, UnderWay
  <2>5. p \in 1..7 /\ First("sP") = u[p] /\ u[p].op \in Kernels
    BY <1>2, <2>1, <2>4
  <2>6. p \notin {1, 7}
    BY <2>2, <2>5 DEF Wait, Record, Kernels
  <2> QED BY <2>2, <2>5, <2>6 DEF OfSlot
<1>3. CASE \E p \in 1..7 : HotWaits(n, p)
  <2>1. PICK p \in 1..7 : HotWaits(n, p)
    BY <1>3
  <2>2. PICK t : t = Parts(n)
    OBVIOUS
  <2>3. t \in Seq(Ops) /\ Len(t) = 13 /\ \A i \in 1..7 : t[i] = Part(G, calls, n)[i]
    BY <2>2, PartsFacts
  <2>4. "sP" \in running => First("sP") \in OfSlot(G, calls, n)
               \cup {Kernel("commit", G, calls, n), Kernel("stir", G, calls, n)}
    BY <1>0, <1>2, <2>1, <2>2, <2>3 DEF HotWaits, AtThis
  <2>5. "sA" \notin running
    <3>1. Head(queue["sA"]) = Wait(EPro(G))
      BY <2>1 DEF HotWaits, HotA
    <3> QED BY <3>1 DEF HostInv, IsKernel, First, Wait, Kernels
  <2> QED BY <1>0, <1>1, <2>4, <2>5
<1>4. CASE \E p \in 2..8, i \in 1..3 : HotGrinds(n, p, i)
  <2>1. PICK p \in 2..8, i \in 1..3 : HotGrinds(n, p, i)
    BY <1>4
  <2>2. "sP" \in running => First("sP") \in OfSlot(pend_slot, calls + 1, age)
               \cup {Kernel("commit", pend_slot, calls + 1, age), Kernel("stir", pend_slot, calls + 1, age)}
    <3>1. PICK t : t = Part(pend_slot, calls + 1, age)
      OBVIOUS
    <3>2. t \in Seq(Ops) /\ Len(t) = 7
      BY <1>0, <3>1, PartFacts
    <3>3. PICK slot, seed, k : slot = pend_slot /\ seed = calls + 1 /\ k = age
      OBVIOUS
    <3>4. /\ slot \in Slots /\ seed \in Setups /\ k \in 0..3 /\ p \in 1..8 /\ queue["sP"] = Rest(t, p)
          /\ 7 <= Len(t) /\ t = Part(slot, seed, k)
      <4>1. queue["sP"] = Rest(t, p)
        BY <2>1, <3>1 DEF HotGrinds, AtNext
      <4>2. t = Part(slot, seed, k)
        BY <3>1, <3>3
      <4> QED BY <1>0, <3>2, <3>3, <4>1, <4>2
    <3> QED BY <1>2, <3>2, <3>3, <3>4
  <2>3. "sA" \in running => First("sA") = Kernel("grind", G, calls, n)
    <3>1. PICK t : t = HotA(G, calls, n)
      OBVIOUS
    <3>2. t \in Seq(Ops) /\ Len(t) = 2 /\ t[1] = Wait(EPro(G)) /\ t[2] = Kernel("grind", G, calls, n)
      BY <1>0, <3>1, HotAFacts
    <3>3. i \in 1..Len(t) + 1 /\ queue["sA"] = Rest(t, i)
      BY <2>1, <3>1, <3>2 DEF HotGrinds
    <3>4. ASSUME "sA" \in running PROVE i = 2 /\ First("sA") = t[i]
      <4>1. i \in 1..Len(t) /\ First("sA") = t[i] /\ t[i].op \in Kernels
        BY <3>2, <3>3, <3>4, UnderWay
      <4> QED BY <3>2, <4>1 DEF Wait, Kernels
    <3> QED BY <3>2, <3>4
  <2> QED BY <1>0, <1>1, <2>1, <2>2, <2>3 DEF HotGrinds
<1> QED BY <1>3, <1>4 DEF HotInv

-----------------------------------------------------------------------------
(* Types, for any number of calls and any keys.                            *)
THEOREM OverlapTypeCorrect == Spec => []TypeOK
<1>1. IndInv => TypeOK
  BY DEF IndInv
<1> QED BY <1>1, OverlapInvariant, PTL

(* What the kernels touch. *)
Touches(k) == Reads(k) \cup Writes(k)
Own(slot) == {<<"A", slot>>, <<"ha", slot>>, <<"as", slot>>}
Shared == {<<"fa", 0>>, <<"bs", 0>>}

LEMMA Touched ==
  ASSUME NEW slot, NEW seed, NEW n
  PROVE  /\ \A k \in OfSlot(slot, seed, n) : Touches(k) \subseteq Own(slot) \cup {<<"fa", 0>>}
         /\ Touches(Kernel("commit", slot, seed, n)) \subseteq Own(slot) \cup {<<"mtA", 0>>}
         /\ Touches(Kernel("stir", slot, seed, n)) \subseteq Own(slot) \cup {<<"bs", 0>>, <<"hb", 0>>}
         /\ Writes(Kernel("stir", slot, seed, n)) \subseteq Own(slot) \cup {<<"bs", 0>>}
         /\ Touches(Kernel("grind", slot, seed, n)) \subseteq Own(slot) \cup {<<"B", 0>>}
         /\ Writes(Kernel("grind", slot, seed, n)) = {}
         /\ Touches(Kernel("genB", slot, seed, n)) \subseteq {<<"B", 0>>}
         /\ Touches(Kernel("permB", slot, seed, n)) \subseteq {<<"bs", 0>>}
         /\ Touches(Kernel("noiseB", slot, seed, n)) \subseteq {<<"B", 0>>, <<"bs", 0>>}
         /\ Touches(Kernel("commitB", slot, seed, n)) \subseteq {<<"B", 0>>, <<"mtB", 0>>, <<"hb", 0>>}
<1> USE DEF Touches, Own, Reads, Writes, Kernel
<1>1. \A k \in OfSlot(slot, seed, n) : Touches(k) \subseteq Own(slot) \cup {<<"fa", 0>>}
  BY DEF OfSlot
<1>2. /\ Touches(Kernel("commit", slot, seed, n)) \subseteq Own(slot) \cup {<<"mtA", 0>>}
      /\ Touches(Kernel("stir", slot, seed, n)) \subseteq Own(slot) \cup {<<"bs", 0>>, <<"hb", 0>>}
      /\ Writes(Kernel("stir", slot, seed, n)) \subseteq Own(slot) \cup {<<"bs", 0>>}
  OBVIOUS
<1>3. /\ Touches(Kernel("grind", slot, seed, n)) \subseteq Own(slot) \cup {<<"B", 0>>}
      /\ Writes(Kernel("grind", slot, seed, n)) = {}
  OBVIOUS
<1>4. /\ Touches(Kernel("genB", slot, seed, n)) \subseteq {<<"B", 0>>}
      /\ Touches(Kernel("permB", slot, seed, n)) \subseteq {<<"bs", 0>>}
      /\ Touches(Kernel("noiseB", slot, seed, n)) \subseteq {<<"B", 0>>, <<"bs", 0>>}
      /\ Touches(Kernel("commitB", slot, seed, n)) \subseteq {<<"B", 0>>, <<"mtB", 0>>, <<"hb", 0>>}
  OBVIOUS
<1> QED BY <1>1, <1>2, <1>3, <1>4

(* Two kernels that collide on nothing but the shared scratch. *)
Apart(k, l) ==
  /\ Writes(k) \cap Touches(l) \subseteq Shared
  /\ Writes(l) \cap Touches(k) \subseteq Shared

LEMMA ColdApart ==
  ASSUME TypeOK, HostInv, age = 1,
         NEW a \in 1..10, NEW b \in 1..8, NEW p \in 1..8, ColdAt(a, b, p)
  PROVE  /\ "sA" \in running /\ "sB" \in running => Apart(First("sA"), First("sB"))
         /\ "sA" \in running /\ "sP" \in running => Apart(First("sA"), First("sP"))
         /\ "sB" \in running /\ "sP" \in running => Apart(First("sB"), First("sP"))
<1>0. (a > 3 => b > 3) /\ (b > 4 => a > 5) /\ (a > 8 => b > 7)
  BY DEF ColdAt
<1>1. ASSUME "sA" \in running
      PROVE  /\ Touches(First("sA")) \subseteq
                   Own(0) \cup Shared \cup {<<"mtA", 0>>, <<"hb", 0>>, <<"B", 0>>}
             /\ Writes(First("sA")) \subseteq Own(0) \cup Shared \cup {<<"mtA", 0>>}
             /\ a = 4 \/ <<"hb", 0>> \notin Touches(First("sA"))
             /\ a = 9 \/ <<"B", 0>> \notin Touches(First("sA"))
             /\ a > 5 => Touches(First("sA")) \subseteq Own(0) \cup Shared \cup {<<"B", 0>>}
  <2>1. \/ a = 2 /\ First("sA") = Kernel("commit", 0, calls, 0)
        \/ a = 4 /\ First("sA") = Kernel("stir", 0, calls, 0)
        \/ First("sA") \in OfSlot(0, calls, 0)
        \/ a = 9 /\ First("sA") = Kernel("grind", 0, calls, 0)
    BY <1>1, ColdUnderWay
  <2>2. Writes(First("sA")) \subseteq Touches(First("sA"))
    BY DEF Touches
  <2>3. CASE a = 2 /\ First("sA") = Kernel("commit", 0, calls, 0)
    BY <2>2, <2>3, Touched DEF Own, Shared
  <2>4. CASE a = 4 /\ First("sA") = Kernel("stir", 0, calls, 0)
    BY <2>2, <2>4, Touched DEF Own, Shared
  <2>5. CASE First("sA") \in OfSlot(0, calls, 0)
    BY <2>2, <2>5, Touched DEF Own, Shared
  <2>6. CASE a = 9 /\ First("sA") = Kernel("grind", 0, calls, 0)
    BY <2>6, Touched DEF Own, Shared
  <2> QED BY <2>1, <2>3, <2>4, <2>5, <2>6
<1>2. ASSUME "sB" \in running
      PROVE  /\ Writes(First("sB")) \subseteq Touches(First("sB")) /\ b <= 6
             /\ Touches(First("sB")) \subseteq {<<"B", 0>>, <<"bs", 0>>, <<"mtB", 0>>, <<"hb", 0>>}
             /\ b = 2 \/ <<"hb", 0>> \notin Touches(First("sB"))
  BY <1>2, ColdUnderWay, Touched DEF Touches
<1>3. ASSUME "sP" \in running
      PROVE  /\ Writes(First("sP")) \subseteq Own(1) \cup Shared \cup {<<"mtA", 0>>}
             /\ Touches(First("sP")) \subseteq Own(1) \cup Shared \cup {<<"mtA", 0>>, <<"hb", 0>>}
             /\ a > 5
  <2>1. /\ \/ First("sP") \in {Kernel("commit", 1, calls + 1, 1), Kernel("stir", 1, calls + 1, 1)}
           \/ First("sP") \in OfSlot(1, calls + 1, 1)
        /\ a > 5
    BY <1>3, ColdUnderWay
  <2>2. Writes(First("sP")) \subseteq Touches(First("sP"))
    BY DEF Touches
  <2>3. CASE First("sP") = Kernel("commit", 1, calls + 1, 1)
    BY <2>1, <2>2, <2>3, Touched DEF Shared
  <2>4. CASE First("sP") = Kernel("stir", 1, calls + 1, 1)
    BY <2>1, <2>2, <2>4, Touched DEF Shared
  <2>5. CASE First("sP") \in OfSlot(1, calls + 1, 1)
    BY <2>1, <2>2, <2>5, Touched DEF Shared
  <2> QED BY <2>1, <2>3, <2>4, <2>5
<1>4. ASSUME "sA" \in running, "sB" \in running PROVE Apart(First("sA"), First("sB"))
  <2>1. <<"hb", 0>> \notin Touches(First("sA")) \/ <<"hb", 0>> \notin Touches(First("sB"))
    BY <1>0, <1>1, <1>2, <1>4
  <2>2. <<"B", 0>> \notin Touches(First("sA"))
    BY <1>0, <1>1, <1>2, <1>4
  <2>3. Touches(First("sA")) \cap Touches(First("sB")) \subseteq Shared
    BY <1>1, <1>2, <1>4, <2>1, <2>2 DEF Own, Shared
  <2>4. Writes(First("sA")) \subseteq Touches(First("sA"))
    BY DEF Touches
  <2> QED BY <1>2, <1>4, <2>3, <2>4 DEF Apart
<1>5. ASSUME "sA" \in running, "sP" \in running PROVE Apart(First("sA"), First("sP"))
  <2>1. Touches(First("sA")) \subseteq Own(0) \cup Shared \cup {<<"B", 0>>}
    BY <1>1, <1>3, <1>5
  <2>2. Touches(First("sA")) \cap Touches(First("sP")) \subseteq Shared
    BY <1>3, <1>5, <2>1 DEF Own, Shared
  <2>3. /\ Writes(First("sA")) \subseteq Touches(First("sA"))
        /\ Writes(First("sP")) \subseteq Touches(First("sP"))
    BY DEF Touches
  <2> QED BY <2>2, <2>3 DEF Apart
<1>6. ASSUME "sB" \in running, "sP" \in running PROVE Apart(First("sB"), First("sP"))
  <2>1. <<"hb", 0>> \notin Touches(First("sB"))
    BY <1>0, <1>2, <1>3, <1>6
  <2>2. Touches(First("sB")) \cap Touches(First("sP")) \subseteq Shared
    BY <1>2, <1>3, <1>6, <2>1 DEF Own, Shared
  <2>3. Writes(First("sP")) \subseteq Touches(First("sP"))
    BY DEF Touches
  <2> QED BY <1>2, <1>6, <2>2, <2>3 DEF Apart
<1> QED BY <1>4, <1>5, <1>6

LEMMA HotApart ==
  ASSUME TypeOK, HostInv, age \in {2, 3}, NEW n \in 1..3, HotInv(n)
  PROVE  /\ "sB" \notin running
         /\ "sA" \in running /\ "sP" \in running => Apart(First("sA"), First("sP"))
<1>1. "sB" \notin running
  BY HotUnderWay
<1>2. ASSUME "sA" \in running, "sP" \in running PROVE Apart(First("sA"), First("sP"))
  <2>1. PICK seed, k, slot, g :
          /\ First("sP") \in OfSlot(slot, seed, k)
               \cup {Kernel("commit", slot, seed, k), Kernel("stir", slot, seed, k)}
          /\ First("sA") = Kernel("grind", g, calls, n) /\ g # slot
    BY <1>2, HotUnderWay
  <2>2. Touches(First("sA")) \subseteq Own(g) \cup {<<"B", 0>>} /\ Writes(First("sA")) = {}
    BY <2>1, Touched
  <2>3. Touches(First("sP")) \subseteq Own(slot) \cup Shared \cup {<<"mtA", 0>>, <<"hb", 0>>}
    BY <2>1, Touched DEF Shared
  <2>4. Touches(First("sA")) \cap Touches(First("sP")) \subseteq Shared
    BY <2>1, <2>2, <2>3 DEF Own, Shared
  <2>5. Writes(First("sP")) \subseteq Touches(First("sP"))
    BY DEF Touches
  <2> QED BY <2>2, <2>4, <2>5 DEF Apart
<1> QED BY <1>1, <1>2

(* No two kernels under way collide on a slot, on B, on its hash or on the *)
(* scratch of a commit, however many calls there are and whenever the key  *)
(* changes.                                                                *)
THEOREM OverlapSlotsExclusive == Spec => []SlotsExclusive
<1>1. IndInv => SlotsExclusive
  <2> SUFFICES ASSUME IndInv, NEW s \in running, NEW t \in running, s # t
               PROVE  Apart(First(s), First(t)) \/ Apart(First(t), First(s))
    BY DEF SlotsExclusive, Races, Apart, Touches, Shared
  <2>1. TypeOK /\ HostInv /\ StreamInv /\ running \subseteq {"sA", "sB", "sP"} /\ age \in 0..3
    BY DEF IndInv, TypeOK, Streams
  <2>2. CASE age = 0
    BY <2>1, <2>2 DEF HostInv, IsKernel, Idle, Streams
  <2>3. CASE age = 1
    <3>1. PICK a \in 1..10, b \in 1..8, p \in 1..8 : ColdAt(a, b, p)
      BY <2>1, <2>3 DEF StreamInv
    <3> QED BY <2>1, <2>3, <3>1, ColdApart
  <2>4. CASE age \in {2, 3}
    <3>1. PICK n \in 1..3 : HotInv(n)
      BY <2>1, <2>4 DEF StreamInv
    <3> QED BY <2>1, <2>4, <3>1, HotApart
  <2> QED BY <2>1, <2>2, <2>3, <2>4
<1> QED BY <1>1, OverlapInvariant, PTL

(* A grind is on sA, and out of a slot that is ready for it; B is the      *)
(* resident one.                                                           *)
LEMMA GrindIsReady ==
  ASSUME IndInv, NEW g \in Grinding
  PROVE  /\ d_A[g.slot].seed = g.seed
         /\ d_as[g.slot] = [seed |-> g.seed, key |-> last_jk]
         /\ g.age >= 2 => d_A[g.slot].noise = d_as[g.slot]
         /\ ResidentB
<1>1. TypeOK /\ HostInv /\ StreamInv /\ running \subseteq {"sA", "sB", "sP"} /\ age \in 0..3
  BY DEF IndInv, TypeOK, Streams
<1>2. PICK s \in running : g = First(s) /\ g.op = "grind"
  BY DEF Grinding
<1>3. \A slot, seed, n : \A k \in OfSlot(slot, seed, n)
           \cup {Kernel("commit", slot, seed, n), Kernel("stir", slot, seed, n)} : k.op # "grind"
  BY DEF OfSlot, Kernel
<1>4. age # 0
  BY <1>1, <1>2 DEF HostInv, IsKernel, Idle, Streams
<1>5. CASE age = 1
  <2>1. PICK a \in 1..10, b \in 1..8, p \in 1..8 : ColdAt(a, b, p)
    BY <1>1, <1>5 DEF StreamInv
  <2>2. s # "sP"
    BY <1>1, <1>2, <1>3, <1>5, <2>1, ColdUnderWay
  <2>3. s # "sB"
    BY <1>1, <1>2, <1>5, <2>1, ColdUnderWay DEF Kernel
  <2>4. a = 9 /\ g = Kernel("grind", 0, calls, 0)
    <3>1. s = "sA"
      BY <1>1, <2>2, <2>3
    <3>2. \/ g \in {Kernel("commit", 0, calls, 0), Kernel("stir", 0, calls, 0)}
          \/ g \in OfSlot(0, calls, 0)
          \/ a = 9 /\ g = Kernel("grind", 0, calls, 0)
      BY <1>1, <1>2, <1>5, <2>1, <3>1, ColdUnderWay
    <3> QED BY <1>2, <1>3, <3>2
  <2>5. /\ d_A[0].seed = calls /\ d_as[0] = Key /\ d_B.seed = calls /\ d_hb = Key /\ d_B.noise = Key
    BY <2>1, <2>4 DEF ColdAt
  <2>6. d_B = [seed |-> d_B.seed, noise |-> d_B.noise]
    BY <1>1 DEF TypeOK, Noised
  <2> QED BY <2>4, <2>5, <2>6 DEF Kernel, Key, ResidentB
<1>6. CASE age \in {2, 3}
  <2>1. PICK n \in 1..3 : HotInv(n)
    BY <1>1, <1>6 DEF StreamInv
  <2>2. s # "sB"
    BY <1>1, <1>2, <1>6, <2>1, HotUnderWay
  <2>3. s # "sP"
    BY <1>1, <1>2, <1>3, <1>6, <2>1, HotUnderWay
  <2>4. g = Kernel("grind", G, calls, n) /\ Ready(G, calls, n)
    BY <1>1, <1>2, <1>6, <2>1, <2>2, <2>3, HotUnderWay
  <2> QED BY <2>1, <2>4 DEF Kernel, Ready, HotInv
<1> QED BY <1>1, <1>4, <1>5, <1>6

(* A grind multiplies its own setup under the key of the call, with the    *)
(* resident B, for any number of calls and any changes of key.             *)
THEOREM OverlapGrindsItsSetup == Spec => []GrindsItsSetup
<1>1. IndInv => GrindsItsSetup
  BY GrindIsReady DEF GrindsItsSetup, ResidentB
<1> QED BY <1>1, OverlapInvariant, PTL

(* From the third setup of a key on, a matrix has its own noise.           *)
THEOREM OverlapNoiseSettles == Spec => []NoiseSettles
<1>1. IndInv => NoiseSettles
  BY GrindIsReady DEF NoiseSettles, NoisedRightly
<1> QED BY <1>1, OverlapInvariant, PTL

=============================================================================
